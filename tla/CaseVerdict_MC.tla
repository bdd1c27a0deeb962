---------------------------- MODULE CaseVerdict_MC ----------------------------
(* A small instance of CaseVerdict: up to two events, in one packet or two, of one      *)
(* destination that may be an indicator, or of another that may not.                    *)
EXTENDS CaseVerdict

CONSTANTS d1, d2, p1, p2

Detected(kind, tiers, dest, packets, addressed, item, residual) ==
  [kind : {kind}, tier : tiers, dest : {dest}, packet : packets, addressed : {addressed},
   item : {item}, residual : {residual}, cap : {"none"}, text : {"own"}, lineage : {FALSE}]

AnyTier == {"allowlisted", "unconfirmed", "weak", "confirmed"}

Events ==
  UNION {Detected("beacon", AnyTier, d1, {p1}, TRUE, FALSE, FALSE),
         Detected("exfil", AnyTier, d1, {p1}, TRUE, FALSE, FALSE),
         Detected("exfil", {"allowlisted", "unconfirmed", "weak"}, d1, {p1}, TRUE, FALSE, TRUE),
         Detected("exfil", {"weak"}, d1, {p2}, TRUE, FALSE, TRUE),
         Detected("correlation", {"confirmed"}, d1, {p1}, TRUE, TRUE, FALSE),
         Detected("dns", AnyTier, d1, {p1}, FALSE, FALSE, FALSE),
         Detected("dns", {"confirmed"}, d1, {p2}, TRUE, FALSE, FALSE),
         Detected("static_ioc", {"confirmed"}, d1, {p1}, FALSE, FALSE, FALSE),
         Detected("static_ioc", {"confirmed"}, d2, {p1}, FALSE, FALSE, FALSE)}

\* Windows with and without the kernel's events, and Android with and without access events.
Telemetries ==
  [etw : {"none", "unclocked", "decoded"},
   owner : {[d \in Destinations |-> o] : o \in {"none", "other", "sample"}},
   resolver : {[d \in Destinations |-> r] : r \in {"other", "sample"}},
   configured : SUBSET {d1}, eligible : BOOLEAN,
   activity : SUBSET {d1}, accessed : {TRUE}, caveats : {{}, {"host_telemetry_degraded"}}]

\* What the telemetry cannot tell has one value.
SmallTelemetry ==
  {c \in Telemetries :
     /\ c.etw # "decoded" => c.owner[d1] = "none"
     /\ c.etw = "none" => c.resolver[d1] = "other" /\ c.configured = {}
     /\ c.etw # "none" => c.eligible /\ c.activity = {}
     /\ c.caveats # {} => c.owner[d1] = "none" /\ c.configured = {}}

Listed(source, tier) == [source |-> source, dest |-> d1, tier |-> tier]

SmallReports ==
  [score : {0, 4, 7, 8}, others : {{}}, iocs : {{}}]
    \cup [score : {0}, others : {{}},
          iocs : {{Listed("cape", "strong"), Listed("winstdt", "confirmed")},
                  {Listed("mobsf", "weak")}}]
    \cup [score : {0}, others : {{"weak"}}, iocs : {{}}]

=============================================================================

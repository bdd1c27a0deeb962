------------------------------ MODULE CaseVerdict ------------------------------
(***************************************************************************)
(* The evidence of one run, from what the detectors found to the report:   *)
(* the network runtime binds the traffic to the sample's processes and     *)
(* withholds what it cannot bind, the signed bundle is checked and         *)
(* adapted, and the aggregator projects the active rows into findings,     *)
(* indicators and one verdict.                                             *)
(***************************************************************************)
EXTENDS Naturals, FiniteSets, Sequences, Functions

CONSTANTS
  Destinations,
  CredibleDestinations, \* those whose name or address can be an indicator
  Packets,      \* times, ports and protocols of traffic
  NativeEvents, \* what the network detectors may find, as records of Event
  MaxEvents,    \* bound: events that they find in one run
  Telemetry,    \* what the guest's telemetry may say of the traffic, records of Captured
  PlatformReports, \* what the platform may report: a malware score (of CAPE), the tiers of
                   \* its other findings, and its own indicators
  None

ASSUME EventsAssumption == MaxEvents \in Nat
ASSUME DestinationsAssumption ==
  IsFiniteSet(Destinations) /\ CredibleDestinations \subseteq Destinations
ASSUME NoneAssumption == None \notin Destinations \cup Packets

Tiers == <<"allowlisted", "unconfirmed", "weak", "strong", "confirmed">>
Tier == Range(Tiers)
Rank(t) == CHOOSE i \in DOMAIN Tiers : Tiers[i] = t
AtLeast(t, u) == Rank(t) >= Rank(u)

Kind == {"beacon", "exfil", "correlation", "reputation", "covert_channel", "dns", "static_ioc",
         "network_observation"}
Cap == {"none", "not_sample", "unattributed", "network_only", "temporal"}
Text == {"own", "residual", "network", "dns"}

\* addressed: it has an address and a port; item: it names the data accessed; residual:
\* traffic no detector classified, without other support; lineage: a reference binds it to the
\* sample's processes; packet: None if the network's capture is not its source.
Event ==
  [kind : Kind, tier : Tier, dest : Destinations, packet : Packets \cup {None},
   addressed : BOOLEAN, item : BOOLEAN, residual : BOOLEAN, cap : Cap, text : Text,
   lineage : BOOLEAN]

\* A detector names a kind, and has no neutral one.
ASSUME NativeAssumption ==
  /\ NativeEvents \subseteq Event
  /\ \A e \in NativeEvents :
       /\ e.kind # "network_observation" /\ e.cap = "none" /\ e.text = "own" /\ ~e.lineage
       /\ e.residual => e.kind = "exfil"

\* Caveats of a platform bundle; the first keeps a verdict from being negative.
Caveat == {"host_telemetry_degraded", "network_responses_simulated"}

\* etw: the kernel's events, whose clock may be of no use; owner, resolver: whose process sent
\* to a destination and looked it up; configured: destinations that the configuration extracted
\* from the binary names; eligible: access events may be correlated; activity: destinations that
\* Android's own telemetry saw; accessed: the sample's data accesses were observed.
Captured ==
  [etw : {"none", "unclocked", "decoded"}, owner : [Destinations -> {"none", "other", "sample"}],
   resolver : [Destinations -> {"none", "other", "sample"}], configured : SUBSET Destinations,
   eligible : BOOLEAN, activity : SUBSET Destinations, accessed : BOOLEAN,
   caveats : SUBSET Caveat]

ASSUME TelemetryAssumption == Telemetry \subseteq Captured
\* What a platform's adaptation lists as indicators: those of the static prior, of CAPE's traffic
\* and of MobSF.  A URL is a destination of its own, of which no event tells.
StaticRow == [source : {"winstdt", "cape", "mobsf"}, dest : Destinations, tier : Tier]

ASSUME ReportsAssumption ==
  PlatformReports \subseteq
    [score : 0 .. 10, others : SUBSET {"weak", "strong"}, iocs : SUBSET StaticRow]

VARIABLES
  run,      \* platform, whether C2 analysis is enabled
  captured, \* what the guest's telemetry says of the traffic, set by the platform analysis
  found,    \* what the platform reports
  native,   \* history: what the network detectors found
  bundle,   \* the events of the signed C2 bundle, by position
  rows,     \* active rows: the platform's and C2's adaptation
  stage,    \* state of the stages that matter here
  result,   \* AnalysisRun.result
  report    \* the snapshot

vars == <<run, captured, found, native, bundle, rows, stage, result, report>>

Platform == {"windows", "android"}
StageType == {"platform", "platform_adaptation", "c2", "c2_adaptation", "report"}

NoTraffic ==
  [etw |-> "none", owner |-> [d \in Destinations |-> "none"],
   resolver |-> [d \in Destinations |-> "none"], configured |-> {}, eligible |-> FALSE,
   activity |-> {}, accessed |-> FALSE, caveats |-> {}]

Init ==
  /\ run \in [platform : Platform, c2Enabled : BOOLEAN]
  /\ captured = NoTraffic
  /\ found = [score |-> 0, others |-> {}, iocs |-> {}]
  /\ native = <<>>
  /\ bundle = <<>>
  /\ rows = [platform |-> FALSE, c2 |-> <<>>, adapted |-> FALSE]
  /\ stage = [s \in StageType |-> IF s = "platform" THEN "queued" ELSE "waiting"]
  /\ result = "none"
  /\ report = None

Ended(s) == stage[s] \in {"completed", "partial"}

-----------------------------------------------------------------------------
(* The network runtime *)

OnWindows == run.platform = "windows"
Owner(d) == IF captured.etw = "decoded" THEN captured.owner[d] ELSE "none"

\* The catch-all detector may not assert exfiltration.
CorrectUnclassifiedEgress(e) ==
  IF e.residual THEN [e EXCEPT !.kind = "network_observation", !.text = "residual"] ELSE e

Bound(d) == Owner(d) = "sample"

CapOf(d) == IF Owner(d) = "other" THEN "not_sample" ELSE "unattributed"

CorroborateNetwork(e) ==
  IF captured.etw = "none" \/ ~e.addressed THEN e
  ELSE IF Bound(e.dest) THEN [e EXCEPT !.lineage = TRUE]
  ELSE IF e.kind \in {"static_ioc", "dns"} \/ e.dest \in captured.configured
       THEN [e EXCEPT !.cap = CapOf(e.dest)]
  ELSE [e EXCEPT !.kind = "network_observation", !.tier = "weak", !.cap = CapOf(e.dest),
                 !.text = "network"]

CorroborateDns(e) ==
  IF captured.etw # "none" /\ e.kind = "dns" /\ captured.resolver[e.dest] = "other"
  THEN [e EXCEPT !.kind = "network_observation", !.cap = "not_sample", !.text = "dns",
                 !.tier = IF e.tier = "allowlisted" THEN e.tier ELSE "weak"]
  ELSE e

\* Mutant: observations of one destination are equal whatever packets they are of.
SameDestination(e, f) ==
  /\ e.kind = "network_observation" /\ f.kind = "network_observation"
  /\ e.dest = f.dest /\ e.cap = f.cap /\ e.text = f.text

SameObservation(e, f) ==
  /\ e.kind = "network_observation" /\ f.kind = "network_observation"
  /\ e.packet = f.packet /\ e.dest = f.dest /\ e.cap = f.cap /\ e.text = f.text

\* Equal observations are kept once, as the first of them: the tiers of the others are lost.  The
\* events that are kept have the positions that they had; only their order matters from here on.
Coalesce(s) ==
  Restrict(s, {i \in DOMAIN s : ~\E j \in DOMAIN s : j < i /\ SameObservation(s[j], s[i])})

Corroborate(s) ==
  Coalesce([i \in DOMAIN s |->
              CorroborateDns(CorroborateNetwork(CorrectUnclassifiedEgress(s[i])))])

\* A connection that Android's telemetry saw.
Proxied(d) ==
  [kind |-> "beacon", tier |-> "weak", dest |-> d, packet |-> None, addressed |-> TRUE,
   item |-> FALSE, residual |-> FALSE, cap |-> "network_only", text |-> "own",
   lineage |-> FALSE]

\* Mutant: the association of an access keeps the tier of the traffic.
CorrelatedAsIs(e) ==
  [e EXCEPT !.kind = "correlation", !.item = TRUE, !.cap = "temporal", !.text = "own"]

Correlated(e) ==
  [e EXCEPT !.kind = "correlation", !.tier = "weak", !.item = TRUE, !.cap = "temporal",
            !.text = "own"]

\* The events of Android's runtime: those of the capture, those of the telemetry in any order,
\* and if accesses may be correlated, the events nearest in time to one.
Orders(S) == Bijection(1 .. Cardinality(S), S)

Seen(s) == {s \o [k \in DOMAIN order |-> Proxied(order[k])] : order \in Orders(captured.activity)}

Nearest(v) == IF captured.eligible THEN SUBSET DOMAIN v ELSE {{}}

Associated(v) ==
  {v \o [k \in DOMAIN order |-> Correlated(v[order[k]])] :
     order \in UNION {Orders(near) : near \in Nearest(v)}}

AndroidEvents(s) == UNION {Associated(v) : v \in Seen(s)}

-----------------------------------------------------------------------------
(* The bundle *)

Normalized(e) ==
  IF OnWindows \/ captured.eligible THEN e
  ELSE [e EXCEPT !.item = FALSE, !.cap = IF @ = "none" THEN "network_only" ELSE @]

Mode ==
  IF ~captured.eligible THEN "network_only" ELSE IF OnWindows THEN "host_network" ELSE "temporal"

\* The contract that the builder and the adapter check.
Accepted(s) ==
  OnWindows \/ \A i \in DOMAIN s :
    s[i].item => Mode = "temporal" /\ s[i].kind = "correlation" /\ s[i].cap = "temporal"

-----------------------------------------------------------------------------
(* The stages *)

PlatformEnds(how, traffic, findings) ==
  /\ stage.platform = "queued"
  /\ OnWindows => traffic.activity = {}
  /\ ~OnWindows => traffic.etw = "none" /\ traffic.configured = {} /\ findings.score = 0
  /\ \A ioc \in findings.iocs : ioc.source = "mobsf" <=> ~OnWindows
  /\ captured' = traffic
  /\ found' = findings
  /\ stage' = [stage EXCEPT !.platform = how, !.platform_adaptation = "queued",
                            !.c2 = IF run.c2Enabled THEN "queued" ELSE @]
  /\ result' = IF how = "partial" THEN "partial" ELSE result
  /\ UNCHANGED <<run, native, bundle, rows, report>>

PlatformFails ==
  /\ stage.platform = "queued"
  /\ stage' = [stage EXCEPT !.platform = "failed"]
  /\ result' = "failed"
  /\ UNCHANGED <<run, captured, found, native, bundle, rows, report>>

\* What the detectors find in one run, in its order.
Detections == UNION {[1 .. n -> NativeEvents] : n \in 0 .. MaxEvents}

AnalyzeC2(detected) ==
  /\ stage.c2 = "queued"
  /\ native' = detected
  /\ \E events \in (IF OnWindows THEN {Corroborate(detected)} ELSE AndroidEvents(detected)) :
       LET signed == [i \in DOMAIN events |-> Normalized(events[i])]
       IN  IF Accepted(signed)
           THEN /\ bundle' = signed
                /\ stage' = [stage EXCEPT !.c2 = "completed", !.c2_adaptation = "queued"]
                /\ UNCHANGED result
           ELSE /\ stage' = [stage EXCEPT !.c2 = "failed"]
                /\ result' = "partial"
                /\ UNCHANGED bundle
  /\ UNCHANGED <<run, captured, found, rows, report>>

C2Fails ==
  /\ stage.c2 = "queued"
  /\ stage' = [stage EXCEPT !.c2 = "failed"]
  /\ result' = "partial"
  /\ UNCHANGED <<run, captured, found, native, bundle, rows, report>>

AdaptPlatform ==
  /\ stage.platform_adaptation = "queued"
  /\ rows' = [rows EXCEPT !.platform = TRUE]
  /\ stage' = [stage EXCEPT !.platform_adaptation = "completed"]
  /\ UNCHANGED <<run, captured, found, native, bundle, result, report>>

AdaptC2 ==
  /\ stage.c2_adaptation = "queued"
  /\ Accepted(bundle)
  /\ rows' = [rows EXCEPT !.c2 = bundle, !.adapted = TRUE]
  /\ stage' = [stage EXCEPT !.c2_adaptation = "completed"]
  /\ UNCHANGED <<run, captured, found, native, bundle, result, report>>

-----------------------------------------------------------------------------
(* The aggregator *)

LacksSampleProcess(e) ==
  /\ e.kind # "static_ioc"
  /\ e.cap \in {"not_sample", "unattributed"} \/ (e.kind = "dns" /\ ~e.lineage)

EffectiveTier(e) ==
  IF LacksSampleProcess(e) /\ e.tier # "allowlisted" THEN "weak" ELSE e.tier

\* The events that become findings, and those whose destination becomes an indicator.
Reported(e) == e.kind # "static_ioc" \/ e.dest \in CredibleDestinations

\* What lacks the sample's process is reported in one wording.
C2Finding(e) ==
  [source |-> "c2", dest |-> e.dest, packet |-> e.packet, tier |-> EffectiveTier(e),
   item |-> e.item, malicious |-> FALSE,
   kind |-> IF LacksSampleProcess(e) THEN "network_observation" ELSE e.kind,
   cap |-> IF LacksSampleProcess(e) /\ e.cap = "none" THEN "unattributed" ELSE e.cap,
   text |-> IF LacksSampleProcess(e) THEN "foreign" ELSE e.text]

PlatformFinding(kind, tier, malicious) ==
  [source |-> "platform", dest |-> None, packet |-> None, tier |-> tier, item |-> FALSE,
   malicious |-> malicious, kind |-> kind, cap |-> "none", text |-> "own"]

Malscore ==
  IF found.score >= 8 THEN {PlatformFinding("malware", "confirmed", TRUE)}
  ELSE IF found.score >= 5 THEN {PlatformFinding("high_cape_malscore", "strong", FALSE)}
  ELSE {}

Findings ==
  Malscore \cup {PlatformFinding("other", t, FALSE) : t \in found.others}
    \cup {C2Finding(e) : e \in {r \in Range(rows.c2) : Reported(r)}}

Observations == {f \in Findings : f.source = "c2" /\ f.kind = "network_observation"}

SameFinding(f, g) ==
  f.packet = g.packet /\ f.dest = g.dest /\ f.cap = g.cap /\ f.text = g.text

\* The findings that a report may keep: of equal observations one, whichever the database
\* returns first.
CoalescedFindings ==
  {(Findings \ Observations) \cup kept :
     kept \in {K \in SUBSET Observations :
                 /\ \A f \in Observations : \E g \in K : SameFinding(f, g)
                 /\ \A f, g \in K : SameFinding(f, g) => f = g}}

\* The indicators: of each source's rows about a destination the strongest, unless the network
\* rates the destination; then the strongest effective tier of its events counts for all.
AboutDestination(d) == {EffectiveTier(e) : e \in {r \in Range(rows.c2) : r.dest = d}}

Rated(d) == \E t \in AboutDestination(d) : AtLeast(t, "weak")

IndicatorTier(d, tier) ==
  IF Rated(d) THEN CHOOSE t \in AboutDestination(d) : \A u \in AboutDestination(d) : AtLeast(t, u)
  ELSE tier

Contacted == {e.dest : e \in Range(rows.c2)}

\* The bundle lists each destination with the tier of an event, or as the detectors listed it.
ListedTiers ==
  {listed \in [Contacted -> Tier] :
     \A d \in Contacted : \E e \in Range(rows.c2) \cup Range(native) :
       e.dest = d /\ e.tier = listed[d]}

Indicators(listed) ==
  LET static == found.iocs
                  \cup {[source |-> "c2-runtime", dest |-> d, tier |-> listed[d]] : d \in Contacted}
  IN  {[ioc EXCEPT !.tier = IndicatorTier(ioc.dest, ioc.tier)] :
         ioc \in {i \in static : /\ i.dest \in CredibleDestinations
                                 /\ \A j \in static : j.source = i.source /\ j.dest = i.dest
                                                        => AtLeast(i.tier, j.tier)}}

Caveats ==
  captured.caveats
    \cup (IF \E s \in StageType : stage[s] = "partial" THEN {"host_telemetry_degraded"} ELSE {})
    \cup (IF stage.c2 = "failed" THEN {"c2_analysis_failed"} ELSE {})
    \cup (IF ~OnWindows /\ ~(rows.adapted /\ Mode = "temporal") THEN {"c2_network_only"} ELSE {})
    \cup (IF run.c2Enabled THEN {} ELSE {"c2_workflow_skipped"})

Blocking == {"host_telemetry_degraded", "c2_analysis_failed"}
Malicious ==
  {"command_and_control", "credential_theft", "exfil", "malware", "ransomware", "trojan"}

Condemns(f) == f.tier = "confirmed" /\ (f.kind \in Malicious \/ f.malicious)

VerdictOf(findings) ==
  IF ~rows.platform /\ stage.platform = "failed" THEN "failed"
  ELSE IF \E f \in findings : Condemns(f) THEN "malicious"
  ELSE IF \E f \in findings : AtLeast(f.tier, "weak") THEN "suspicious"
  ELSE IF ~rows.platform \/ (run.c2Enabled /\ ~rows.adapted) \/ Caveats \cap Blocking # {}
       THEN "inconclusive"
  ELSE IF /\ Ended("platform") /\ Ended("platform_adaptation")
          /\ run.c2Enabled => Ended("c2") /\ Ended("c2_adaptation")
       THEN "no_malicious_activity_observed"
  ELSE "inconclusive"

\* What a report says of the sample's access to data.
Access ==
  IF OnWindows /\ \E e \in Range(rows.c2) : e.kind \in {"exfil", "correlation"} /\ e.item
  THEN "correlated"
  ELSE IF captured.accessed THEN "observed" ELSE "none"

\* Mutant: the report does not wait for the network's evidence.
PlatformAdapted == stage.platform_adaptation = "completed"

Adapted ==
  /\ stage.platform_adaptation = "completed"
  /\ run.c2Enabled => stage.c2_adaptation = "completed"

Aggregate ==
  /\ Adapted
  /\ stage.report = "waiting"
  /\ \E findings \in CoalescedFindings, listed \in ListedTiers :
       report' = [verdict |-> VerdictOf(findings), findings |-> findings, caveats |-> Caveats,
                  access |-> Access, indicators |-> Indicators(listed)]
  /\ stage' = [stage EXCEPT !.report = "queued"]
  /\ UNCHANGED <<run, captured, found, native, bundle, rows, result>>

\* The report stage ends the run.
Report ==
  /\ stage.report = "queued"
  /\ stage' = [stage EXCEPT !.report = "completed"]
  /\ result' = IF report.verdict \in {"failed", "inconclusive"} THEN report.verdict
               ELSE IF result = "partial" THEN result ELSE "completed"
  /\ UNCHANGED <<run, captured, found, native, bundle, rows, report>>

Next ==
  \/ \E how \in {"completed", "partial"}, traffic \in Telemetry,
        findings \in PlatformReports : PlatformEnds(how, traffic, findings)
  \/ PlatformFails
  \/ \E detected \in Detections : AnalyzeC2(detected)
  \/ C2Fails
  \/ AdaptPlatform
  \/ AdaptC2
  \/ Aggregate
  \/ Report

Spec == Init /\ [][Next]_vars

-----------------------------------------------------------------------------
(* Properties *)

\* The variables have their types, and a report is over all the rows that its run must have.
TypeOK ==
  /\ run \in [platform : Platform, c2Enabled : BOOLEAN]
  /\ captured \in Captured
  /\ found.score \in 0 .. 10 /\ found.others \subseteq Tier /\ found.iocs \subseteq StaticRow
  /\ Range(native) \subseteq NativeEvents
  /\ Range(bundle) \subseteq Event
  /\ rows \in [platform : BOOLEAN, c2 : {<<>>, bundle}, adapted : BOOLEAN]
  /\ stage \in [StageType -> {"waiting", "queued", "completed", "partial", "failed"}]
  /\ result \in {"none", "partial", "failed", "inconclusive", "completed"}
  /\ report # None => rows.platform /\ rows.adapted = run.c2Enabled

\* Nothing says that another process sent it.
NotForeign(e) == captured.etw # "none" /\ e.addressed => Owner(e.dest) = "sample"

\* What the runtime or the aggregator may reduce to a neutral observation.
Neutral(e) ==
  e.kind = "dns" \/ (OnWindows /\ e.residual) \/ (e.kind # "static_ioc" /\ ~NotForeign(e))

\* A fainter detection of the same traffic may stand for this one.
Overshadowed(s, i) ==
  /\ Neutral(s[i])
  /\ \E j \in DOMAIN s :
       /\ s[j].packet = s[i].packet /\ s[j].dest = s[i].dest
       /\ Neutral(s[j]) /\ ~AtLeast(s[j].tier, "weak")

\* "No malicious activity observed" is said only of a run whose mandatory stages all ended
\* completely with undegraded telemetry, and in which the detectors found nothing credible of
\* tier weak or above, unless it is neutral and merged with a fainter detection of the same
\* packet: neither the rewriting of unbound traffic nor any other merging hides a detection
\* (_verdict, _caveats, _coalesce_network_observations, _coalesce_network_findings).
NegativeVerdictEarned ==
  report # None /\ report.verdict = "no_malicious_activity_observed" =>
    /\ stage.platform = "completed"
    /\ run.c2Enabled => stage.c2 = "completed"
    /\ "host_telemetry_degraded" \notin captured.caveats
    /\ found.score < 5 /\ found.others = {}
    /\ \A i \in DOMAIN native :
         Reported(native[i]) /\ AtLeast(native[i].tier, "weak") => Overshadowed(native, i)

\* A malicious verdict rests on CAPE's confirmation or on confirmed exfiltration that, where the
\* kernel's events can tell, the sample's own processes sent
\* (_corroborate_etw_network, _effective_c2_confidence, _verdict).
MaliciousVerdictProved ==
  report # None /\ report.verdict = "malicious" =>
    \/ found.score >= 8
    \/ \E i \in DOMAIN native :
         native[i].kind = "exfil" /\ native[i].tier = "confirmed" /\ NotForeign(native[i])

\* Neither of the two verdicts that assert something outruns its evidence.
VerdictEarned ==
  /\ NegativeVerdictEarned
  /\ MaliciousVerdictProved

\* An Android report names a data item only in an association in time, which is weak and says
\* what it is; a report of the network alone names none (_check_identity, _normalize_events,
\* _correlate_android_access).
AndroidClaimsAreTemporal ==
  ~OnWindows /\ report # None =>
    /\ \A f \in report.findings : f.item =>
         /\ captured.eligible
         /\ f.kind = "correlation" /\ f.cap = "temporal" /\ ~AtLeast(f.tier, "strong")
    /\ report.access # "correlated"

\* An indicator whose destination the network rates is above weak only by a detection of its tier
\* that the binary names or no other process sent, whichever adapter lists it: CAPE's "strong"
\* does not outlast the attribution (aggregate's c2_ioc_confidence, _iocs).
RatedIndicatorsProved ==
  report # None => \A ioc \in report.indicators :
    Rated(ioc.dest) /\ AtLeast(ioc.tier, "strong") =>
      \E i \in DOMAIN native :
        /\ native[i].dest = ioc.dest /\ native[i].tier = ioc.tier
        /\ native[i].kind = "static_ioc" \/ NotForeign(native[i])

\* What a report says item by item stays within its evidence.
ClaimsSupported ==
  /\ AndroidClaimsAreTemporal
  /\ RatedIndicatorsProved

-----------------------------------------------------------------------------
(* Said of the code by its documents or comments, and not kept (README) *)

\* "A config extractor decrypting the binary and naming a host outweighs the absence of a PID
\* match. The caveat is still recorded [...]; only the neutralisation is withheld": what was found
\* of a configured destination keeps its kind and its tier.  The aggregator neutralises whatever
\* carries the caveat.
ConfiguredFindingsKept ==
  OnWindows /\ report # None => \A i \in DOMAIN native :
    /\ native[i].dest \in captured.configured
    /\ native[i].kind = "beacon" /\ AtLeast(native[i].tier, "strong")
    => \E f \in report.findings :
         f.dest = native[i].dest /\ f.kind = native[i].kind /\ f.tier = native[i].tier

\* "Collapse duplicate neutral observations without discarding their evidence": what merging
\* leaves is no fainter than what it merged.  The first row is kept with its own tier.
MergingKeepsEvidence ==
  report # None /\ report.verdict = "no_malicious_activity_observed" =>
    \A i \in DOMAIN native : Reported(native[i]) => ~AtLeast(native[i].tier, "weak")

\* "keeps allowlisted destinations out of compromise evidence", "non-allowlisted weak-or-strong
\* findings yield suspicious": a run that met nothing else is not suspicious.  The runtime gives
\* allowlisted traffic of another process the tier weak.
AllowlistedIsNoEvidence ==
  /\ report # None /\ found.score < 5 /\ found.others = {} /\ captured.activity = {}
  /\ \A i \in DOMAIN native : native[i].tier = "allowlisted"
  => report.verdict # "suspicious"

=============================================================================

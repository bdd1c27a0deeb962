-------------------------- MODULE CaseVerdict_proofs --------------------------
(***************************************************************************)
(* Proofs about CaseVerdict, for any destinations, detectors and telemetry *)
(* and any number of events.  A report is made in one step from rows that  *)
(* earlier steps wrote, so the invariant says what a bundle keeps of the   *)
(* detections behind it: none that counts is hidden unless a fainter one   *)
(* of the same packet stands for it, none that condemns is made up, and on *)
(* Android no item outruns its association in time.                        *)
(***************************************************************************)
EXTENDS CaseVerdict, FiniteSetTheorems, SequenceTheorems, WellFoundedInduction,
        TLAPS

-----------------------------------------------------------------------------
(* The invariant *)

StagesInOrder ==
  /\ stage.platform \in {"queued", "completed", "partial", "failed"}
  /\ stage.platform \notin {"completed", "partial"} =>
       stage.platform_adaptation = "waiting" /\ stage.c2 = "waiting"
  /\ stage.c2 # "waiting" => run.c2Enabled
  /\ stage.c2 # "completed" => stage.c2_adaptation = "waiting"
  /\ stage.c2 \in {"waiting", "queued"} => native = <<>>
  /\ report # None => Adapted /\ stage.report # "waiting"

RowsFollowStages ==
  /\ rows.platform <=> stage.platform_adaptation = "completed"
  /\ rows.adapted <=> stage.c2_adaptation = "completed"
  /\ rows.c2 = IF rows.adapted THEN bundle ELSE <<>>
  /\ DOMAIN bundle \subseteq Nat

PlatformTells ==
  /\ found.others \subseteq {"weak", "strong"}
  /\ ~OnWindows => captured.etw = "none" /\ found.score = 0

Counts(e, tier) == Reported(e) /\ AtLeast(tier, "weak")

Observed(b) == b.kind = "network_observation" \/ LacksSampleProcess(b)

SameTraffic(e, f) == e.packet = f.packet /\ e.dest = f.dest

\* s is what the detectors found, t the bundle made of it.
NothingHidden(s, t) ==
  \A i \in DOMAIN s : Counts(s[i], s[i].tier) =>
    \/ Overshadowed(s, i)
    \/ \E b \in Range(t) : /\ Counts(b, EffectiveTier(b)) /\ SameTraffic(b, s[i])
                           /\ Observed(b) => Neutral(s[i])

\* A faint observation is of a faint detection.
FaintWasFaint(s, t) ==
  \A b \in Range(t) : Observed(b) /\ ~AtLeast(EffectiveTier(b), "weak") =>
    \E i \in DOMAIN s : SameTraffic(s[i], b) /\ Neutral(s[i]) /\ ~AtLeast(s[i].tier, "weak")

NothingMadeUp(s, t) ==
  \A b \in Range(t) : AtLeast(EffectiveTier(b), "strong") =>
    \E i \in DOMAIN s :
      /\ s[i].dest = b.dest /\ s[i].tier = b.tier
      /\ b.kind \in {s[i].kind, "network_observation"}
      /\ s[i].kind = "static_ioc" \/ NotForeign(s[i])

ItemsAreTemporal(t) ==
  ~OnWindows => \A b \in Range(t) : b.item =>
    captured.eligible /\ b.kind = "correlation" /\ b.cap = "temporal" /\ b.tier = "weak"

Grounded(s, t) ==
  NothingHidden(s, t) /\ FaintWasFaint(s, t) /\ NothingMadeUp(s, t) /\ ItemsAreTemporal(t)

BundleGrounded == stage.c2 = "completed" => Grounded(native, bundle)

Inv ==
  /\ TypeOK /\ StagesInOrder /\ RowsFollowStages /\ PlatformTells /\ BundleGrounded
  /\ VerdictEarned /\ ClaimsSupported

-----------------------------------------------------------------------------
(* Tiers and positions *)

\* The five tiers and their ranks.
LEMMA Ranks ==
  /\ Tier = {"allowlisted", "unconfirmed", "weak", "strong", "confirmed"}
  /\ Rank("allowlisted") = 1 /\ Rank("unconfirmed") = 2 /\ Rank("weak") = 3
  /\ Rank("strong") = 4 /\ Rank("confirmed") = 5
<1>1. /\ DOMAIN Tiers = 1 .. 5
      /\ Tiers[1] = "allowlisted" /\ Tiers[2] = "unconfirmed" /\ Tiers[3] = "weak"
      /\ Tiers[4] = "strong" /\ Tiers[5] = "confirmed"
  BY DEF Tiers
<1> HIDE DEF Tiers
<1>2. Tier = {"allowlisted", "unconfirmed", "weak", "strong", "confirmed"}
  BY <1>1 DEF Tier, Range
<1>3. \A i \in 1 .. 5 : Rank(Tiers[i]) = i
  BY <1>1 DEF Rank
<1> QED  BY <1>1, <1>2, <1>3

\* Of some tiers, one is the highest.
LEMMA HighestTier ==
  ASSUME NEW T \in SUBSET Tier, T # {}
  PROVE  \E t \in T : \A u \in T : AtLeast(t, u)
<1>1. \A t, u \in Tier : AtLeast(t, u) <=> Rank(t) >= Rank(u)
  BY DEF AtLeast
<1>2. CASE "confirmed" \in T
  BY <1>1, <1>2, Ranks
<1>3. CASE "confirmed" \notin T /\ "strong" \in T
  BY <1>1, <1>3, Ranks
<1>4. CASE T \subseteq {"allowlisted", "unconfirmed", "weak"} /\ "weak" \in T
  BY <1>1, <1>4, Ranks
<1>5. CASE T \subseteq {"allowlisted", "unconfirmed"} /\ "unconfirmed" \in T
  BY <1>1, <1>5, Ranks
<1>6. CASE T = {"allowlisted"}
  BY <1>1, <1>6, Ranks
<1> QED  BY <1>2, <1>3, <1>4, <1>5, <1>6, Ranks

LEMMA LeastNumber ==
  ASSUME NEW T, T \subseteq Nat, T # {}
  PROVE  \E m \in T : \A n \in T : m <= n
<1>1. PICK m \in T : \A n \in T : ~(<<n, m>> \in OpToRel(<, Nat))
  BY WFMin, NatLessThanWellFounded, Zenon
<1>2. \A n \in T : <<n, m>> \in Nat \X Nat /\ <<n, m>>[1] = n /\ <<n, m>>[2] = m
  OBVIOUS
<1>3. \A n \in T : ~(n < m)
  BY <1>1, <1>2, Zenon DEF OpToRel
<1> QED  BY <1>3

\* Each event is kept or equal to one that is kept.
LEMMA Represented ==
  ASSUME NEW s, DOMAIN s \subseteq Nat, NEW i \in DOMAIN s
  PROVE  \E j \in DOMAIN Coalesce(s) :
           Coalesce(s)[j] = s[j] /\ j \in DOMAIN s /\ (j = i \/ SameObservation(s[j], s[i]))
<1>1. DOMAIN Coalesce(s) = {j \in DOMAIN s : ~\E k \in DOMAIN s : k < j /\ SameObservation(s[k], s[j])}
      /\ \A j \in DOMAIN Coalesce(s) : Coalesce(s)[j] = s[j]
  BY DEF Coalesce, Restrict
<1>2. CASE \E k \in DOMAIN s : k < i /\ SameObservation(s[k], s[i])
  <2> DEFINE Same == {k \in DOMAIN s : SameObservation(s[k], s[i])}
  <2>1. PICK j \in Same : \A k \in Same : j <= k
    BY <1>2, LeastNumber
  <2>2. \A k \in DOMAIN s : SameObservation(s[k], s[j]) => k \in Same
    BY <2>1 DEF SameObservation
  <2>3. j \in DOMAIN Coalesce(s)
    BY <1>1, <2>1, <2>2
  <2> QED  BY <1>1, <2>1, <2>3
<1>3. CASE ~\E k \in DOMAIN s : k < i /\ SameObservation(s[k], s[i])
  BY <1>1, <1>3
<1> QED  BY <1>2, <1>3

-----------------------------------------------------------------------------
(* What the network runtime makes of one event *)

LEMMA UnclassifiedEvents ==
  ASSUME NEW e \in Event
  PROVE  LET c == CorrectUnclassifiedEgress(e) IN
         /\ c \in Event /\ SameTraffic(c, e)
         /\ c.tier = e.tier /\ c.addressed = e.addressed /\ c.cap = e.cap
         /\ c.kind = IF e.residual THEN "network_observation" ELSE e.kind
         /\ c.text = IF e.residual THEN "residual" ELSE e.text
BY DEF CorrectUnclassifiedEgress, Event, Kind, Text, SameTraffic

LEMMA BoundEvents ==
  ASSUME NEW e \in Event, e.cap = "none"
  PROVE  LET c == CorroborateNetwork(e) IN
         /\ c \in Event /\ SameTraffic(c, e) /\ c.addressed = e.addressed
         /\ \/ /\ c.kind = e.kind /\ c.tier = e.tier /\ c.text = e.text
               /\ \/ NotForeign(e) /\ c.cap = "none"
                  \/ ~NotForeign(e) /\ c.cap \in {"not_sample", "unattributed"}
            \/ /\ c.kind = "network_observation" /\ c.tier = "weak" /\ c.text = "network"
               /\ e.kind \notin {"static_ioc", "dns"} /\ ~NotForeign(e)
<1> DEFINE named == [e EXCEPT !.cap = CapOf(e.dest)]
           foreign == [e EXCEPT !.kind = "network_observation", !.tier = "weak",
                                !.cap = CapOf(e.dest), !.text = "network"]
           bound == [e EXCEPT !.lineage = TRUE]
<1>1. CapOf(e.dest) \in {"not_sample", "unattributed"} /\ "weak" \in Tier
  BY Ranks DEF CapOf
<1>2. CASE captured.etw = "none" \/ ~e.addressed
  <2>1. CorroborateNetwork(e) = e /\ NotForeign(e)
    BY <1>2 DEF CorroborateNetwork, NotForeign
  <2> QED  BY <2>1 DEF SameTraffic
<1>3. CASE ~(captured.etw = "none" \/ ~e.addressed) /\ Bound(e.dest)
  <2>1. CorroborateNetwork(e) = bound /\ NotForeign(e)
    BY <1>3 DEF CorroborateNetwork, NotForeign, Bound
  <2>2. /\ bound \in Event /\ bound.cap = e.cap /\ bound.kind = e.kind
        /\ bound.tier = e.tier /\ bound.text = e.text /\ SameTraffic(bound, e)
        /\ bound.addressed = e.addressed
    BY DEF Event, SameTraffic
  <2> QED  BY <2>1, <2>2
<1>4. CASE /\ ~(captured.etw = "none" \/ ~e.addressed) /\ ~Bound(e.dest)
           /\ e.kind \in {"static_ioc", "dns"} \/ e.dest \in captured.configured
  <2>1. CorroborateNetwork(e) = named /\ ~NotForeign(e)
    BY <1>4 DEF CorroborateNetwork, NotForeign, Bound
  <2>2. /\ named \in Event /\ named.cap = CapOf(e.dest) /\ named.kind = e.kind
        /\ named.tier = e.tier /\ named.text = e.text /\ SameTraffic(named, e)
        /\ named.addressed = e.addressed
    BY <1>1 DEF Event, Cap, SameTraffic
  <2> QED  BY <1>1, <2>1, <2>2
<1>5. CASE /\ ~(captured.etw = "none" \/ ~e.addressed) /\ ~Bound(e.dest)
           /\ ~(e.kind \in {"static_ioc", "dns"} \/ e.dest \in captured.configured)
  <2>1. CorroborateNetwork(e) = foreign /\ ~NotForeign(e)
    BY <1>5 DEF CorroborateNetwork, NotForeign, Bound
  <2>2. /\ foreign \in Event /\ foreign.kind = "network_observation" /\ foreign.tier = "weak"
        /\ foreign.text = "network" /\ SameTraffic(foreign, e)
        /\ foreign.addressed = e.addressed
    BY <1>1 DEF Event, Kind, Text, Cap, SameTraffic
  <2> QED  BY <1>5, <2>1, <2>2
<1> QED  BY <1>2, <1>3, <1>4, <1>5

LEMMA ResolvedEvents ==
  ASSUME NEW e \in Event
  PROVE  LET c == CorroborateDns(e) IN
         /\ c \in Event /\ SameTraffic(c, e)
         /\ \/ c = e
            \/ /\ e.kind = "dns" /\ c.kind = "network_observation" /\ c.text = "dns"
               /\ c.tier = IF e.tier = "allowlisted" THEN "allowlisted" ELSE "weak"
<1> DEFINE met == captured.etw # "none" /\ e.kind = "dns" /\ captured.resolver[e.dest] = "other"
           tier == IF e.tier = "allowlisted" THEN e.tier ELSE "weak"
           foreign == [e EXCEPT !.kind = "network_observation", !.cap = "not_sample",
                                !.text = "dns", !.tier = tier]
<1>1. CASE met
  <2>1. CorroborateDns(e) = foreign
    BY <1>1 DEF CorroborateDns
  <2>2. tier \in Tier
    BY Ranks DEF Event
  <2>3. /\ foreign \in Event /\ foreign.kind = "network_observation" /\ foreign.text = "dns"
        /\ foreign.tier = tier /\ SameTraffic(foreign, e)
    BY <2>2 DEF Event, Kind, Text, Cap, SameTraffic
  <2> QED  BY <1>1, <2>1, <2>3
<1>2. CASE ~met
  BY <1>2 DEF CorroborateDns, SameTraffic
<1> QED  BY <1>1, <1>2

\* Nothing that lacks the sample's process falls below weak because of it.
LEMMA EffectiveTiers ==
  ASSUME NEW e \in Event
  PROVE  /\ EffectiveTier(e) \in Tier
         /\ AtLeast(e.tier, "weak") => AtLeast(EffectiveTier(e), "weak")
         /\ AtLeast(EffectiveTier(e), "strong") => ~LacksSampleProcess(e) /\ EffectiveTier(e) = e.tier
<1>1. e.tier \in Tier
  BY DEF Event
<1> QED  BY <1>1, Ranks DEF EffectiveTier, AtLeast

Derived(e) == CorroborateDns(CorroborateNetwork(CorrectUnclassifiedEgress(e)))

\* A detection keeps its traffic and does not fall below weak; only what is neutral becomes an
\* observation, and only what no other process sent stays strong.
LEMMA DerivedEvents ==
  ASSUME OnWindows, NEW e \in NativeEvents
  PROVE  LET c == Derived(e) IN
         /\ c \in Event /\ SameTraffic(c, e)
         /\ Reported(e) => Reported(c)
         /\ Observed(c) => Neutral(e)
         /\ AtLeast(e.tier, "weak") => AtLeast(EffectiveTier(c), "weak")
         /\ AtLeast(EffectiveTier(c), "strong") =>
              /\ c.tier = e.tier /\ c.kind \in {e.kind, "network_observation"}
              /\ e.kind = "static_ioc" \/ NotForeign(e)
<1>1. /\ e \in Event /\ e.text = "own" /\ e.cap = "none" /\ e.kind # "network_observation"
      /\ e.residual => e.kind = "exfil"
  BY NativeAssumption
<1> DEFINE u == CorrectUnclassifiedEgress(e)
           n == CorroborateNetwork(u)
           c == CorroborateDns(n)
<1>2. /\ u \in Event /\ SameTraffic(u, e)
      /\ u.tier = e.tier /\ u.addressed = e.addressed /\ u.cap = e.cap
      /\ u.kind = IF e.residual THEN "network_observation" ELSE e.kind
      /\ u.text = IF e.residual THEN "residual" ELSE e.text
  BY <1>1, UnclassifiedEvents
<1> HIDE DEF u
<1>3. NotForeign(u) <=> NotForeign(e)
  BY <1>2 DEF NotForeign, SameTraffic
<1>4. /\ n \in Event /\ SameTraffic(n, u) /\ n.addressed = u.addressed
      /\ \/ /\ n.kind = u.kind /\ n.tier = u.tier /\ n.text = u.text
            /\ \/ NotForeign(u) /\ n.cap = "none"
               \/ ~NotForeign(u) /\ n.cap \in {"not_sample", "unattributed"}
         \/ /\ n.kind = "network_observation" /\ n.tier = "weak" /\ n.text = "network"
            /\ u.kind \notin {"static_ioc", "dns"} /\ ~NotForeign(u)
  BY <1>1, <1>2, BoundEvents
<1> HIDE DEF n
<1>5. /\ c \in Event /\ SameTraffic(c, n)
      /\ \/ c = n
         \/ /\ n.kind = "dns" /\ c.kind = "network_observation" /\ c.text = "dns"
            /\ c.tier = IF n.tier = "allowlisted" THEN "allowlisted" ELSE "weak"
  BY <1>4, ResolvedEvents
<1> HIDE DEF c
<1>6. SameTraffic(c, e)
  BY <1>2, <1>4, <1>5 DEF SameTraffic
<1>7. Reported(e) => Reported(c)
  BY <1>1, <1>2, <1>4, <1>5, <1>6 DEF Reported, SameTraffic
<1>8. Observed(c) => Neutral(e)
  BY <1>1, <1>2, <1>3, <1>4, <1>5 DEF Observed, LacksSampleProcess, Neutral
<1>9. ASSUME AtLeast(e.tier, "weak") PROVE AtLeast(EffectiveTier(c), "weak")
  <2>1. e.tier \in {"weak", "strong", "confirmed"}
    BY <1>1, <1>9, Ranks DEF AtLeast, Event
  <2>2. c.tier \in {"weak", "strong", "confirmed"}
    BY <1>2, <1>4, <1>5, <2>1
  <2>3. AtLeast(c.tier, "weak")
    BY <2>2, Ranks DEF AtLeast
  <2> QED  BY <1>5, <2>3, EffectiveTiers
<1>10. ASSUME AtLeast(EffectiveTier(c), "strong")
       PROVE  /\ c.tier = e.tier /\ c.kind \in {e.kind, "network_observation"}
              /\ e.kind = "static_ioc" \/ NotForeign(e)
  <2>1. ~LacksSampleProcess(c) /\ AtLeast(c.tier, "strong")
    BY <1>5, <1>10, EffectiveTiers
  <2>2. c.tier \notin {"weak", "allowlisted"}
    BY <2>1, Ranks DEF AtLeast
  <2>3. c = n /\ n.kind = u.kind /\ n.tier = u.tier
    BY <1>4, <1>5, <2>2
  <2>4. e.kind = "static_ioc" \/ NotForeign(e)
    BY <1>1, <1>2, <1>3, <1>4, <2>1, <2>2, <2>3 DEF LacksSampleProcess
  <2> QED  BY <1>2, <2>3, <2>4
<1> QED  BY <1>5, <1>6, <1>7, <1>8, <1>9, <1>10 DEF Derived, c, n, u

-----------------------------------------------------------------------------
(* What a bundle keeps of the detections *)

Detected(s) == DOMAIN s \subseteq Nat /\ Range(s) \subseteq NativeEvents

Signed(s) == [i \in DOMAIN s |-> Normalized(s[i])]

\* On Windows: attribution and coalescing.
LEMMA WindowsBundle ==
  ASSUME OnWindows, NEW s, Detected(s)
  PROVE  LET t == Signed(Corroborate(s)) IN
         Range(t) \subseteq Event /\ DOMAIN t \subseteq Nat /\ Grounded(s, t)
<1> DEFINE r == [i \in DOMAIN s |-> Derived(s[i])]
           t == Signed(Corroborate(s))
<1>1. Corroborate(s) = Coalesce(r)
  BY DEF Corroborate, Derived
<1>2. DOMAIN t \subseteq DOMAIN s /\ \A j \in DOMAIN t : t[j] = Derived(s[j])
  BY <1>1 DEF Signed, Normalized, Coalesce, Restrict
<1>3. \A i \in DOMAIN s : s[i] \in NativeEvents /\ s[i] \in Event
  BY NativeAssumption DEF Detected, Range
<1>4. \A b \in Range(t) : \E i \in DOMAIN s : b = Derived(s[i])
  BY <1>2 DEF Range
<1>5. \A i \in DOMAIN s : \E j \in DOMAIN s :
        /\ Derived(s[j]) \in Range(t)
        /\ j = i \/ SameObservation(Derived(s[j]), Derived(s[i]))
  <2> SUFFICES ASSUME NEW i \in DOMAIN s
               PROVE  \E j \in DOMAIN s :
                        /\ Derived(s[j]) \in Range(t)
                        /\ j = i \/ SameObservation(Derived(s[j]), Derived(s[i]))
    OBVIOUS
  <2>1. DOMAIN r = DOMAIN s /\ \A j \in DOMAIN s : r[j] = Derived(s[j])
    OBVIOUS
  <2> HIDE DEF r
  <2>2. PICK j \in DOMAIN Coalesce(r) :
          Coalesce(r)[j] = r[j] /\ j \in DOMAIN r /\ (j = i \/ SameObservation(r[j], r[i]))
    BY <2>1, Represented DEF Detected
  <2>3. j \in DOMAIN t
    BY <1>1, <2>2 DEF Signed
  <2> QED  BY <1>2, <2>1, <2>2, <2>3 DEF Range
<1> HIDE DEF r, t
<1>6. NothingHidden(s, t)
  <2> SUFFICES ASSUME NEW i \in DOMAIN s, Counts(s[i], s[i].tier)
               PROVE  \/ Overshadowed(s, i)
                      \/ \E b \in Range(t) :
                           /\ Counts(b, EffectiveTier(b)) /\ SameTraffic(b, s[i])
                           /\ Observed(b) => Neutral(s[i])
    BY DEF NothingHidden
  <2>1. PICK j \in DOMAIN s :
          /\ Derived(s[j]) \in Range(t)
          /\ j = i \/ SameObservation(Derived(s[j]), Derived(s[i]))
    BY <1>5
  <2> DEFINE b == Derived(s[j])
             c == Derived(s[i])
  <2>2. /\ b \in Event /\ SameTraffic(b, s[j])
        /\ Observed(b) => Neutral(s[j])
        /\ AtLeast(s[j].tier, "weak") => AtLeast(EffectiveTier(b), "weak")
    BY <1>3, DerivedEvents
  <2>3. /\ c \in Event /\ SameTraffic(c, s[i])
        /\ Reported(s[i]) => Reported(c)
        /\ Observed(c) => Neutral(s[i])
        /\ AtLeast(s[i].tier, "weak") => AtLeast(EffectiveTier(c), "weak")
    BY <1>3, DerivedEvents
  <2>4. b \in Range(t) /\ (j = i => b = c)
    BY <2>1
  <2>5. CASE j = i
    BY <2>3, <2>4, <2>5 DEF Counts
  <2>6. CASE SameObservation(b, c)
    <3> HIDE DEF b, c
    <3>1. /\ b.kind = "network_observation" /\ c.kind = "network_observation"
          /\ SameTraffic(b, c)
      BY <2>6 DEF SameObservation, SameTraffic
    <3>2. Reported(b) /\ Neutral(s[i]) /\ Neutral(s[j])
      BY <2>2, <2>3, <3>1 DEF Reported, Observed
    <3>3. SameTraffic(b, s[i]) /\ SameTraffic(s[j], s[i])
      BY <2>2, <2>3, <3>1 DEF SameTraffic
    <3>4. CASE AtLeast(EffectiveTier(b), "weak")
      BY <2>4, <3>2, <3>3, <3>4 DEF Counts
    <3>5. CASE ~AtLeast(EffectiveTier(b), "weak")
      <4>1. ~AtLeast(s[j].tier, "weak")
        BY <2>2, <3>5
      <4> QED  BY <3>2, <3>3, <4>1 DEF Overshadowed, SameTraffic
    <3> QED  BY <3>4, <3>5
  <2> QED  BY <2>1, <2>5, <2>6
<1>7. FaintWasFaint(s, t)
  <2> SUFFICES ASSUME NEW b \in Range(t), Observed(b), ~AtLeast(EffectiveTier(b), "weak")
               PROVE  \E i \in DOMAIN s : /\ SameTraffic(s[i], b) /\ Neutral(s[i])
                                         /\ ~AtLeast(s[i].tier, "weak")
    BY DEF FaintWasFaint
  <2>1. PICK i \in DOMAIN s : b = Derived(s[i])
    BY <1>4
  <2>2. /\ SameTraffic(b, s[i]) /\ Neutral(s[i]) /\ ~AtLeast(s[i].tier, "weak")
    BY <1>3, <2>1, DerivedEvents
  <2> QED  BY <2>2 DEF SameTraffic
<1>9. NothingMadeUp(s, t)
  <2> SUFFICES ASSUME NEW b \in Range(t), AtLeast(EffectiveTier(b), "strong")
               PROVE  \E i \in DOMAIN s :
                        /\ s[i].dest = b.dest /\ s[i].tier = b.tier
                        /\ b.kind \in {s[i].kind, "network_observation"}
                        /\ s[i].kind = "static_ioc" \/ NotForeign(s[i])
    BY DEF NothingMadeUp
  <2>1. PICK i \in DOMAIN s : b = Derived(s[i])
    BY <1>4
  <2>2. /\ SameTraffic(b, s[i]) /\ b.tier = s[i].tier
        /\ b.kind \in {s[i].kind, "network_observation"}
        /\ s[i].kind = "static_ioc" \/ NotForeign(s[i])
    BY <1>3, <2>1, DerivedEvents
  <2> QED  BY <2>2 DEF SameTraffic
<1>8. Range(t) \subseteq Event /\ DOMAIN t \subseteq Nat
  BY <1>2, <1>3, <1>4, DerivedEvents DEF Detected
<1> QED  BY <1>6, <1>7, <1>8, <1>9 DEF Grounded, ItemsAreTemporal, t

\* A trace after another.
LEMMA Joined ==
  ASSUME NEW A, NEW B, NEW s \in Seq(A), NEW p \in Seq(B)
  PROVE  /\ s \o p \in Seq(A \cup B) /\ Len(s \o p) = Len(s) + Len(p)
         /\ \A i \in 1 .. Len(s) : (s \o p)[i] = s[i]
<1> DEFINE U == A \cup B
<1>1. s \in Seq(U) /\ p \in Seq(U)
  OBVIOUS
<1> HIDE DEF U
<1>2. /\ s \o p \in Seq(U) /\ Len(s \o p) = Len(s) + Len(p)
      /\ \A i \in 1 .. Len(s) + Len(p) : (s \o p)[i] = IF i <= Len(s) THEN s[i] ELSE p[i - Len(s)]
  BY <1>1, ConcatProperties, Zenon
<1>3. Len(s) \in Nat /\ Len(p) \in Nat
  BY <1>1
<1>4. \A i \in 1 .. Len(s) : i \in 1 .. Len(s) + Len(p) /\ i <= Len(s)
  BY <1>3
<1> QED  BY <1>2, <1>4, Zenon DEF U

LEMMA FunctionIsSeq ==
  ASSUME NEW A, NEW n \in Nat, NEW s \in [1 .. n -> A]
  PROVE  s \in Seq(A) /\ Len(s) = n
OBVIOUS

LEMMA OrderType ==
  ASSUME NEW S, IsFiniteSet(S), NEW order \in Orders(S)
  PROVE  \E m \in Nat : order \in [1 .. m -> S]
BY FS_CardinalityType DEF Orders, Bijection, Injection, Surjection

\* On Android: what the telemetry adds.
LEMMA AndroidAdds ==
  ASSUME NEW s \in Detections, captured \in Captured, NEW v \in AndroidEvents(s)
  PROVE  /\ DOMAIN v \subseteq Nat
         /\ \A i \in DOMAIN s : i \in DOMAIN v /\ v[i] = s[i]
         /\ \A i \in DOMAIN v :
              \/ v[i] \in Range(s)
              \/ \E d \in Destinations : v[i] = Proxied(d)
              \/ \E d \in Destinations : v[i] = Correlated(Proxied(d))
              \/ \E e \in Range(s) : v[i] = Correlated(e)
<1> DEFINE P == {Proxied(d) : d \in Destinations}
           S == Range(s) \cup P
           T == {Correlated(e) : e \in S}
<1> HIDE DEF P, S, T
<1>1. s \in Seq(Range(s)) /\ DOMAIN s = 1 .. Len(s)
  <2>1. PICK n \in Nat : s \in [1 .. n -> NativeEvents]
    BY EventsAssumption DEF Detections
  <2>2. s \in [1 .. n -> Range(s)]
    BY <2>1 DEF Range
  <2> QED  BY <2>1, <2>2, FunctionIsSeq
<1>2. PICK u \in Seen(s) : v \in Associated(u)
  BY DEF AndroidEvents
<1>3. PICK order \in Orders(captured.activity) :
        u = s \o [k \in DOMAIN order |-> Proxied(order[k])]
  BY <1>2 DEF Seen
<1>4. PICK m \in Nat : order \in [1 .. m -> captured.activity]
  <2>1. captured.activity \subseteq Destinations
    BY DEF Captured
  <2>2. IsFiniteSet(captured.activity)
    BY <2>1, DestinationsAssumption, FS_Subset
  <2> QED  BY <2>2, OrderType
<1>5. PICK p \in Seq(P) : u = s \o p
  <2>1. [k \in DOMAIN order |-> Proxied(order[k])] \in [1 .. m -> P]
    BY <1>4 DEF Captured, P
  <2> QED  BY <1>3, <1>4, <2>1, FunctionIsSeq
<1>6. /\ s \o p \in Seq(Range(s) \cup P) /\ Len(s \o p) = Len(s) + Len(p)
      /\ \A i \in 1 .. Len(s) : (s \o p)[i] = s[i]
  BY <1>1, <1>5, Joined
<1>7. u \in Seq(S) /\ Len(u) = Len(s) + Len(p) /\ \A i \in 1 .. Len(s) : u[i] = s[i]
  BY <1>5, <1>6 DEF S
<1>8. PICK near \in Nearest(u) : \E o \in Orders(near) :
        v = u \o [k \in DOMAIN o |-> Correlated(u[o[k]])]
  BY <1>2 DEF Associated
<1>9. PICK o \in Orders(near) : v = u \o [k \in DOMAIN o |-> Correlated(u[o[k]])]
  BY <1>8
<1>10. DOMAIN u = 1 .. Len(u) /\ Len(u) \in Nat /\ \A i \in DOMAIN u : u[i] \in S
  BY <1>7
<1>11. near \subseteq DOMAIN u
  BY <1>8 DEF Nearest
<1>12. PICK l \in Nat : o \in [1 .. l -> near]
  <2>1. IsFiniteSet(1 .. Len(u))
    BY <1>10, FS_Interval
  <2>2. IsFiniteSet(near)
    BY <1>10, <1>11, <2>1, FS_Subset
  <2> QED  BY <1>9, <2>2, OrderType
<1>13. PICK q \in Seq(T) : v = u \o q
  <2>1. [k \in DOMAIN o |-> Correlated(u[o[k]])] \in [1 .. l -> T]
    BY <1>10, <1>11, <1>12 DEF T
  <2> QED  BY <1>9, <1>12, <2>1, FunctionIsSeq
<1>14. /\ u \o q \in Seq(S \cup T) /\ Len(u \o q) = Len(u) + Len(q)
       /\ \A i \in 1 .. Len(u) : (u \o q)[i] = u[i]
  <2>1. u \in Seq(S)
    BY <1>7
  <2>2. q \in Seq(T)
    BY <1>13
  <2> QED  BY <2>1, <2>2, Joined, SMTT(30)
<1>15. v \in Seq(S \cup T) /\ Len(v) = Len(u) + Len(q) /\ \A i \in 1 .. Len(u) : v[i] = u[i]
  BY <1>13, <1>14
<1>16. Len(s) \in Nat /\ Len(p) \in Nat /\ Len(q) \in Nat
  BY <1>1
<1>17. DOMAIN v = 1 .. Len(v) /\ \A i \in DOMAIN v : v[i] \in S \/ v[i] \in T
  BY <1>15
<1>18. \A i \in 1 .. Len(s) : i \in 1 .. Len(u) /\ i \in 1 .. Len(v)
  BY <1>7, <1>15, <1>16
<1>19. \A i \in DOMAIN s : i \in DOMAIN v /\ v[i] = s[i]
  BY <1>1, <1>7, <1>15, <1>17, <1>18
<1> QED  BY <1>17, <1>19 DEF S, T, P

LEMMA AndroidBundle ==
  ASSUME ~OnWindows, captured \in Captured, captured.etw = "none",
         NEW s \in Detections, NEW v \in AndroidEvents(s), Accepted(Signed(v))
  PROVE  LET t == Signed(v) IN
         Range(t) \subseteq Event /\ DOMAIN t \subseteq Nat /\ Grounded(s, t)
<1> DEFINE t == Signed(v)
<1>1. \A i \in DOMAIN s : s[i] \in NativeEvents /\ s[i] \in Event /\ s[i] \in Range(s)
  BY NativeAssumption DEF Detections, Range
<1>2. \A d \in Destinations : /\ Proxied(d) \in Event /\ Proxied(d).kind = "beacon"
                              /\ ~Proxied(d).item /\ Proxied(d).tier = "weak"
                              /\ Proxied(d).cap = "network_only"
  BY Ranks DEF Proxied, Event, Kind, Cap, Text
<1>3. \A e \in Event : /\ Correlated(e) \in Event /\ Correlated(e).tier = "weak"
                       /\ Correlated(e).kind = "correlation" /\ Correlated(e).cap = "temporal"
  <2> SUFFICES ASSUME NEW e \in Event
               PROVE  /\ Correlated(e) \in Event /\ Correlated(e).tier = "weak"
                      /\ Correlated(e).kind = "correlation" /\ Correlated(e).cap = "temporal"
    OBVIOUS
  <2>1. "weak" \in Tier /\ "correlation" \in Kind /\ "temporal" \in Cap /\ "own" \in Text
    BY Ranks DEF Kind, Cap, Text
  <2> QED  BY <2>1 DEF Correlated, Event
<1>4. \A e \in Event : /\ Normalized(e) \in Event /\ Normalized(e).tier = e.tier
                       /\ Normalized(e).kind = e.kind /\ SameTraffic(Normalized(e), e)
                       /\ (Normalized(e).item => e.item)
                       /\ (Normalized(e).cap = e.cap \/ Normalized(e).cap = "network_only")
  <2> SUFFICES ASSUME NEW e \in Event
               PROVE  /\ Normalized(e) \in Event /\ Normalized(e).tier = e.tier
                      /\ Normalized(e).kind = e.kind /\ SameTraffic(Normalized(e), e)
                      /\ (Normalized(e).item => e.item)
                      /\ (Normalized(e).cap = e.cap \/ Normalized(e).cap = "network_only")
    OBVIOUS
  <2> DEFINE cap == IF e.cap = "none" THEN "network_only" ELSE e.cap
             bare == [e EXCEPT !.item = FALSE, !.cap = cap]
  <2>1. CASE OnWindows \/ captured.eligible
    BY <2>1 DEF Normalized, SameTraffic
  <2>2. CASE ~(OnWindows \/ captured.eligible)
    <3>1. cap \in Cap
      BY DEF Event, Cap
    <3>2. Normalized(e) = bare
      BY <2>2 DEF Normalized
    <3> HIDE DEF cap
    <3>3. /\ bare \in Event /\ bare.tier = e.tier /\ bare.kind = e.kind
          /\ SameTraffic(bare, e) /\ ~bare.item /\ bare.cap = cap
      BY <3>1 DEF Event, SameTraffic
    <3> QED  BY <3>2, <3>3 DEF cap
  <2> QED  BY <2>1, <2>2
<1>5. DOMAIN t = DOMAIN v /\ \A i \in DOMAIN v : t[i] = Normalized(v[i])
  BY DEF Signed
<1>6. /\ DOMAIN v \subseteq Nat
      /\ \A i \in DOMAIN s : i \in DOMAIN v /\ v[i] = s[i]
      /\ \A i \in DOMAIN v :
           \/ \E j \in DOMAIN s : v[i] = s[j]
           \/ \E d \in Destinations : v[i] = Proxied(d)
           \/ \E e \in Event : v[i] = Correlated(e)
  BY <1>1, <1>2, AndroidAdds DEF Range
<1>7. \A i \in DOMAIN v : v[i] \in Event
  BY <1>1, <1>2, <1>3, <1>6
<1>8. \A b \in Range(t) : \E i \in DOMAIN v : b = t[i]
  BY <1>5 DEF Range
<1>9. Accepted(t)
  OBVIOUS
<1> HIDE DEF t
<1>10. NothingHidden(s, t)
  <2> SUFFICES ASSUME NEW i \in DOMAIN s, Counts(s[i], s[i].tier)
               PROVE  \E b \in Range(t) :
                        /\ Counts(b, EffectiveTier(b)) /\ SameTraffic(b, s[i])
                        /\ Observed(b) => Neutral(s[i])
    BY DEF NothingHidden
  <2>1. /\ t[i] \in Range(t) /\ t[i] \in Event /\ t[i].tier = s[i].tier
        /\ t[i].kind = s[i].kind /\ SameTraffic(t[i], s[i])
        /\ t[i].cap \in {s[i].cap, "network_only"}
    BY <1>1, <1>4, <1>5, <1>6 DEF Range
  <2>2. AtLeast(EffectiveTier(t[i]), "weak")
    BY <2>1, EffectiveTiers DEF Counts
  <2>3. Reported(t[i])
    BY <2>1 DEF Counts, Reported, SameTraffic
  <2>4. Observed(t[i]) => Neutral(s[i])
    BY <1>1, <2>1, NativeAssumption DEF Observed, LacksSampleProcess, Neutral
  <2> QED  BY <2>1, <2>2, <2>3, <2>4 DEF Counts
<1>14. ASSUME NEW b \in Range(t)
       PROVE  \/ \E j \in DOMAIN s : /\ b.tier = s[j].tier /\ b.kind = s[j].kind
                                     /\ SameTraffic(b, s[j])
                                     /\ b.cap \in {s[j].cap, "network_only"}
              \/ /\ b.tier = "weak" /\ b.kind \in {"beacon", "correlation"}
                 /\ b.cap \in {"temporal", "network_only"}
  <2>1. PICK i \in DOMAIN v : b = t[i]
    BY <1>8
  <2>2. /\ b.tier = v[i].tier /\ b.kind = v[i].kind /\ SameTraffic(b, v[i])
        /\ b.cap \in {v[i].cap, "network_only"}
    BY <1>4, <1>5, <1>7, <2>1
  <2>3. CASE \E j \in DOMAIN s : v[i] = s[j]
    BY <2>2, <2>3
  <2>4. CASE \E d \in Destinations : v[i] = Proxied(d)
    BY <1>2, <2>2, <2>4
  <2>5. CASE \E e \in Event : v[i] = Correlated(e)
    BY <1>3, <2>2, <2>5
  <2> QED  BY <1>6, <2>3, <2>4, <2>5
<1>15. FaintWasFaint(s, t)
  <2> SUFFICES ASSUME NEW b \in Range(t), Observed(b), ~AtLeast(EffectiveTier(b), "weak")
               PROVE  \E i \in DOMAIN s : /\ SameTraffic(s[i], b) /\ Neutral(s[i])
                                         /\ ~AtLeast(s[i].tier, "weak")
    BY DEF FaintWasFaint
  <2>1. b \in Event
    BY <1>4, <1>5, <1>7, <1>8
  <2>2. ~AtLeast(b.tier, "weak")
    BY <2>1, EffectiveTiers
  <2>3. b.tier # "weak"
    BY <2>2, Ranks DEF AtLeast
  <2>4. PICK j \in DOMAIN s : /\ b.tier = s[j].tier /\ b.kind = s[j].kind
                              /\ SameTraffic(b, s[j]) /\ b.cap \in {s[j].cap, "network_only"}
    BY <1>14, <2>3
  <2>5. Neutral(s[j])
    BY <1>1, <2>4, NativeAssumption DEF Observed, LacksSampleProcess, Neutral
  <2> QED  BY <2>2, <2>4, <2>5 DEF SameTraffic
<1>11. NothingMadeUp(s, t)
  <2> SUFFICES ASSUME NEW b \in Range(t), AtLeast(EffectiveTier(b), "strong")
               PROVE  \E i \in DOMAIN s :
                        /\ s[i].dest = b.dest /\ s[i].tier = b.tier
                        /\ b.kind \in {s[i].kind, "network_observation"}
                        /\ s[i].kind = "static_ioc" \/ NotForeign(s[i])
    BY DEF NothingMadeUp
  <2>1. b \in Event
    BY <1>4, <1>5, <1>7, <1>8
  <2>2. AtLeast(b.tier, "strong")
    BY <2>1, EffectiveTiers
  <2>3. b.tier # "weak"
    BY <2>2, Ranks DEF AtLeast
  <2> QED  BY <1>14, <2>3 DEF NotForeign, SameTraffic
<1>12. ItemsAreTemporal(t)
  <2> SUFFICES ASSUME NEW b \in Range(t), b.item
               PROVE  /\ captured.eligible /\ b.kind = "correlation" /\ b.cap = "temporal"
                      /\ b.tier = "weak"
    BY DEF ItemsAreTemporal
  <2>1. PICK i \in DOMAIN v : b = t[i]
    BY <1>8
  <2>2. b.kind = "correlation" /\ b.cap = "temporal" /\ Mode = "temporal"
    BY <1>5, <1>9, <2>1 DEF Accepted
  <2>3. v[i].kind = "correlation" /\ v[i].item
    BY <1>4, <1>5, <1>7, <2>1, <2>2
  <2>4. b.tier = "weak"
    <3>1. \A j \in DOMAIN s : s[j].cap = "none"
      BY <1>1, NativeAssumption
    <3> QED  BY <1>14, <2>2, <3>1
  <2> QED  BY <2>2, <2>4 DEF Mode
<1>13. Range(t) \subseteq Event /\ DOMAIN t \subseteq Nat
  BY <1>4, <1>5, <1>6, <1>7, <1>8
<1> QED  BY <1>10, <1>11, <1>12, <1>13, <1>15 DEF Grounded, t

-----------------------------------------------------------------------------
(* The aggregator *)

\* What a report is made from.
LEMMA AdaptedRows ==
  ASSUME Inv, Adapted
  PROVE  /\ rows.platform /\ stage.platform \in {"completed", "partial"}
         /\ run.c2Enabled => rows.adapted /\ stage.c2 = "completed"
         /\ Grounded(native, rows.c2)
         /\ Range(rows.c2) \subseteq Event /\ DOMAIN rows.c2 \subseteq Nat
<1> USE DEF Inv
<1>1. rows.platform /\ stage.platform \in {"completed", "partial"}
  BY DEF Adapted, StagesInOrder, RowsFollowStages
<1>2. CASE run.c2Enabled
  BY <1>1, <1>2 DEF Adapted, StagesInOrder, RowsFollowStages, BundleGrounded, TypeOK
<1>3. CASE ~run.c2Enabled
  <2>1. stage.c2 = "waiting" /\ native = <<>> /\ rows.c2 = <<>>
    BY <1>3 DEF StagesInOrder, RowsFollowStages
  <2>2. DOMAIN <<>> = {} /\ Range(<<>>) = {}
    BY DEF Range
  <2> QED
    BY <1>1, <1>3, <2>1, <2>2 DEF Grounded, NothingHidden, FaintWasFaint, NothingMadeUp,
                                  ItemsAreTemporal
<1> QED  BY <1>2, <1>3

\* A finding of the network's, in terms of its event.
LEMMA EventFindings ==
  ASSUME NEW e \in Event
  PROVE  LET f == C2Finding(e) IN
         /\ f.source = "c2" /\ SameTraffic(f, e)
         /\ f.tier = EffectiveTier(e) /\ f.item = e.item /\ ~f.malicious
         /\ f.kind = "network_observation" <=> Observed(e)
         /\ LacksSampleProcess(e) => f.kind = "network_observation"
         /\ ~LacksSampleProcess(e) => f.kind = e.kind /\ f.cap = e.cap /\ f.tier = e.tier
BY DEF C2Finding, EffectiveTier, Observed, SameTraffic

LEMMA ReportedFindings ==
  ASSUME Inv, Range(rows.c2) \subseteq Event
  PROVE  /\ \A b \in Range(rows.c2) : Reported(b) => C2Finding(b) \in Findings
         /\ \A t \in found.others : \E f \in Findings \ Observations : f.tier = t
         /\ found.score >= 5 =>
              \E f \in Findings \ Observations : f.tier \in {"strong", "confirmed"}
         /\ \A f \in Findings :
              \/ f.kind = "malware" /\ ~f.item /\ found.score >= 8 /\ f \notin Observations
              \/ /\ f.kind \in {"high_cape_malscore", "other"} /\ ~f.item /\ ~f.malicious
                 /\ f \notin Observations
              \/ \E b \in Range(rows.c2) : f = C2Finding(b)
<1>1. \A b \in Range(rows.c2) : Reported(b) => C2Finding(b) \in Findings
  BY DEF Findings
<1> DEFINE Other(t) == PlatformFinding("other", t, FALSE)
           malware == PlatformFinding("malware", "confirmed", TRUE)
           high == PlatformFinding("high_cape_malscore", "strong", FALSE)
<1>2. \A t : /\ Other(t).tier = t /\ Other(t).kind = "other" /\ ~Other(t).item
            /\ ~Other(t).malicious /\ Other(t) \notin Observations
  BY DEF PlatformFinding, Observations
<1>7. /\ malware.tier = "confirmed" /\ malware.kind = "malware" /\ ~malware.item
      /\ malware \notin Observations
      /\ high.tier = "strong" /\ high.kind = "high_cape_malscore" /\ ~high.item
      /\ ~high.malicious /\ high \notin Observations
  BY DEF PlatformFinding, Observations
<1>8. /\ Malscore = IF found.score >= 8 THEN {malware} ELSE IF found.score >= 5 THEN {high} ELSE {}
      /\ Findings = Malscore \cup {Other(t) : t \in found.others}
                      \cup {C2Finding(e) : e \in {r \in Range(rows.c2) : Reported(r)}}
  BY DEF Malscore, Findings
<1> HIDE DEF Other, malware, high
<1>3. \A t \in found.others : \E f \in Findings \ Observations : f.tier = t
  BY <1>2, <1>8
<1>4. ASSUME found.score >= 5
      PROVE \E f \in Findings \ Observations : f.tier \in {"strong", "confirmed"}
  <2>1. \E f \in Malscore : f.tier \in {"confirmed", "strong"} /\ f \notin Observations
    BY <1>4, <1>7, <1>8
  <2> QED  BY <1>8, <2>1
<1>5. \A f \in Malscore : /\ ~f.item /\ f \notin Observations
                          /\ \/ f.kind = "malware" /\ found.score >= 8
                             \/ f.kind = "high_cape_malscore" /\ ~f.malicious
  BY <1>7, <1>8
<1>6. \A f \in Findings :
        \/ f.kind = "malware" /\ ~f.item /\ found.score >= 8 /\ f \notin Observations
        \/ /\ f.kind \in {"high_cape_malscore", "other"} /\ ~f.item /\ ~f.malicious
           /\ f \notin Observations
        \/ \E b \in Range(rows.c2) : f = C2Finding(b)
  BY <1>2, <1>5, <1>8
<1> QED  BY <1>1, <1>3, <1>4, <1>6

\* What a report keeps of the findings.
LEMMA KeptFindings ==
  ASSUME NEW F \in CoalescedFindings
  PROVE  /\ F \subseteq Findings
         /\ Findings \ Observations \subseteq F
         /\ \A f \in Observations : \E g \in F \cap Observations : SameFinding(f, g)
<1>1. PICK K \in SUBSET Observations :
        /\ F = (Findings \ Observations) \cup K
        /\ \A f \in Observations : \E g \in K : SameFinding(f, g)
  BY DEF CoalescedFindings
<1> QED  BY <1>1 DEF Observations

\* A clean verdict hides nothing.
LEMMA NegativeIsEarned ==
  ASSUME Inv, Adapted, NEW F \in CoalescedFindings,
         VerdictOf(F) = "no_malicious_activity_observed"
  PROVE  /\ stage.platform = "completed"
         /\ run.c2Enabled => stage.c2 = "completed"
         /\ "host_telemetry_degraded" \notin captured.caveats
         /\ found.score < 5 /\ found.others = {}
         /\ \A i \in DOMAIN native :
              Reported(native[i]) /\ AtLeast(native[i].tier, "weak") => Overshadowed(native, i)
<1>1. /\ rows.platform /\ stage.platform \in {"completed", "partial"}
      /\ run.c2Enabled => rows.adapted /\ stage.c2 = "completed"
      /\ Grounded(native, rows.c2) /\ Range(rows.c2) \subseteq Event
  BY AdaptedRows
<1>2. /\ \A f \in F : ~AtLeast(f.tier, "weak")
      /\ Caveats \cap Blocking = {}
  BY DEF VerdictOf
<1>3. stage.platform = "completed"
  BY <1>1, <1>2 DEF Caveats, Blocking, StageType
<1>4. "host_telemetry_degraded" \notin captured.caveats
  BY <1>2 DEF Caveats, Blocking
<1>5. found.score < 5
  <2>2. ASSUME found.score >= 5 PROVE FALSE
    <3>1. PICK f \in Findings \ Observations : f.tier \in {"strong", "confirmed"}
      BY <1>1, <2>2, ReportedFindings
    <3>2. ~AtLeast(f.tier, "weak")
      BY <1>2, <3>1, KeptFindings
    <3> QED  BY <3>1, <3>2, Ranks DEF AtLeast
  <2> QED  BY <2>2 DEF Inv, TypeOK
<1>6. found.others = {}
  <2> SUFFICES ASSUME NEW t \in found.others PROVE FALSE
    OBVIOUS
  <2>1. PICK f \in Findings \ Observations : f.tier = t
    BY <1>1, ReportedFindings
  <2>2. t \in {"weak", "strong"}
    BY DEF Inv, PlatformTells
  <2>3. ~AtLeast(f.tier, "weak")
    BY <1>2, <2>1, KeptFindings
  <2> QED  BY <2>1, <2>2, <2>3, Ranks DEF AtLeast
<1>7. ASSUME NEW i \in DOMAIN native, Reported(native[i]), AtLeast(native[i].tier, "weak"),
             ~Overshadowed(native, i)
      PROVE  FALSE
  <2>1. PICK b \in Range(rows.c2) :
          /\ Counts(b, EffectiveTier(b)) /\ SameTraffic(b, native[i])
          /\ Observed(b) => Neutral(native[i])
    BY <1>1, <1>7 DEF Grounded, NothingHidden, Counts
  <2> DEFINE f == C2Finding(b)
  <2>2. /\ f \in Findings /\ f.source = "c2" /\ AtLeast(f.tier, "weak")
        /\ SameTraffic(f, b) /\ (f.kind = "network_observation" <=> Observed(b))
    BY <1>1, <2>1, ReportedFindings, EventFindings DEF Counts
  <2> HIDE DEF f
  <2>3. f \notin F
    BY <1>2, <2>2
  <2>4. f \in Observations /\ Neutral(native[i])
    BY <2>1, <2>2, <2>3, KeptFindings DEF Observations
  <2>5. PICK g \in F \cap Observations : SameFinding(f, g)
    BY <2>4, KeptFindings
  <2>6. PICK c \in Range(rows.c2) : g = C2Finding(c)
    BY <1>1, <2>5, ReportedFindings, KeptFindings
  <2>7. /\ g.tier = EffectiveTier(c) /\ SameTraffic(g, c)
        /\ Observed(c) /\ ~AtLeast(g.tier, "weak")
    BY <1>1, <1>2, <2>5, <2>6, EventFindings DEF Observations
  <2>8. PICK j \in DOMAIN native :
          SameTraffic(native[j], c) /\ Neutral(native[j]) /\ ~AtLeast(native[j].tier, "weak")
    BY <1>1, <2>7 DEF Grounded, FaintWasFaint
  <2>9. native[j].packet = native[i].packet /\ native[j].dest = native[i].dest
    BY <2>1, <2>2, <2>5, <2>7, <2>8 DEF SameTraffic, SameFinding
  <2> QED  BY <1>7, <2>4, <2>8, <2>9 DEF Overshadowed
<1> QED  BY <1>1, <1>3, <1>4, <1>5, <1>6, <1>7

\* A malicious verdict rests on proof.
LEMMA MaliciousIsProved ==
  ASSUME Inv, Adapted, NEW F \in CoalescedFindings, VerdictOf(F) = "malicious"
  PROVE  \/ found.score >= 8
         \/ \E i \in DOMAIN native :
              native[i].kind = "exfil" /\ native[i].tier = "confirmed" /\ NotForeign(native[i])
<1>1. Grounded(native, rows.c2) /\ Range(rows.c2) \subseteq Event
  BY AdaptedRows
<1>2. PICK f \in F : f.tier = "confirmed" /\ (f.kind \in Malicious \/ f.malicious)
  BY DEF VerdictOf, Condemns
<1>3. f \in Findings
  BY KeptFindings
<1>4. CASE \E b \in Range(rows.c2) : f = C2Finding(b)
  <2>1. PICK b \in Range(rows.c2) : f = C2Finding(b)
    BY <1>4
  <2>2. b \in Event /\ f.kind \in Malicious
    BY <1>1, <1>2, <2>1, EventFindings
  <2>3. ~LacksSampleProcess(b) /\ b.kind \in Malicious /\ EffectiveTier(b) = "confirmed"
        /\ b.tier = "confirmed"
    BY <1>2, <2>1, <2>2, EventFindings DEF Malicious
  <2>4. b.kind = "exfil"
    BY <2>2, <2>3 DEF Malicious, Event, Kind
  <2>5. AtLeast(EffectiveTier(b), "strong")
    BY <2>3, Ranks DEF AtLeast
  <2>6. PICK i \in DOMAIN native :
          /\ native[i].tier = b.tier
          /\ b.kind \in {native[i].kind, "network_observation"}
          /\ native[i].kind = "static_ioc" \/ NotForeign(native[i])
    BY <1>1, <2>5 DEF Grounded, NothingMadeUp
  <2> QED  BY <2>3, <2>4, <2>6
<1> QED  BY <1>1, <1>2, <1>3, <1>4, ReportedFindings DEF Malicious

\* An Android finding names an item in a weak association only.
LEMMA AndroidItems ==
  ASSUME Inv, Adapted, ~OnWindows, NEW f \in Findings, f.item
  PROVE  /\ captured.eligible
         /\ f.kind = "correlation" /\ f.cap = "temporal" /\ ~AtLeast(f.tier, "strong")
<1>1. Grounded(native, rows.c2) /\ Range(rows.c2) \subseteq Event
  BY AdaptedRows
<1>2. PICK b \in Range(rows.c2) : f = C2Finding(b)
  BY <1>1, ReportedFindings
<1>3. b \in Event /\ b.item
  BY <1>1, <1>2, EventFindings
<1>4. captured.eligible /\ b.kind = "correlation" /\ b.cap = "temporal" /\ b.tier = "weak"
  BY <1>1, <1>3 DEF Grounded, ItemsAreTemporal
<1>5. ~LacksSampleProcess(b)
  BY <1>4 DEF LacksSampleProcess
<1> QED  BY <1>2, <1>3, <1>4, <1>5, EventFindings, Ranks DEF AtLeast

\* An indicator that the network rates has the tier of a detection that no other process sent.
LEMMA IndicatorsProved ==
  ASSUME Inv, Adapted, NEW listed, NEW ioc \in Indicators(listed),
         Rated(ioc.dest), AtLeast(ioc.tier, "strong")
  PROVE  \E i \in DOMAIN native :
           /\ native[i].dest = ioc.dest /\ native[i].tier = ioc.tier
           /\ native[i].kind = "static_ioc" \/ NotForeign(native[i])
<1> DEFINE static == found.iocs \cup {[source |-> "c2-runtime", dest |-> d, tier |-> listed[d]] :
                                        d \in Contacted}
           T == AboutDestination(ioc.dest)
<1>1. Grounded(native, rows.c2) /\ Range(rows.c2) \subseteq Event
  BY AdaptedRows
<1>2. PICK row \in static : ioc = [row EXCEPT !.tier = IndicatorTier(row.dest, row.tier)]
  BY DEF Indicators
<1>3. ioc.dest = row.dest /\ ioc.tier = IndicatorTier(row.dest, row.tier)
  <2>1. row \in StaticRow \/ \E d \in Contacted :
          row = [source |-> "c2-runtime", dest |-> d, tier |-> listed[d]]
    BY <1>2 DEF Inv, TypeOK
  <2> QED  BY <1>2, <2>1 DEF StaticRow
<1> HIDE DEF static
<1>4. \A t \in T : t \in Tier /\ \E e \in Range(rows.c2) : e.dest = ioc.dest /\ t = EffectiveTier(e)
  BY <1>1, EffectiveTiers DEF AboutDestination
<1>5. T # {} /\ T \in SUBSET Tier
  BY <1>4 DEF Rated
<1>6. \E t \in T : \A u \in T : AtLeast(t, u)
  BY <1>5, HighestTier
<1>7. ioc.tier \in T
  BY <1>3, <1>6 DEF IndicatorTier
<1> HIDE DEF T
<1>8. PICK b \in Range(rows.c2) : b.dest = ioc.dest /\ ioc.tier = EffectiveTier(b)
  BY <1>4, <1>7
<1>9. ioc.tier = b.tier
  BY <1>1, <1>8, EffectiveTiers
<1> QED  BY <1>1, <1>8, <1>9 DEF Grounded, NothingMadeUp

-----------------------------------------------------------------------------
(* The steps *)

LEMMA InitInv == Init => Inv
<1> SUFFICES ASSUME Init PROVE Inv
  OBVIOUS
<1>1. Range(<<>>) = {} /\ DOMAIN <<>> = {}
  BY DEF Range
<1>2. TypeOK
  <2>1. captured \in Captured
    BY DEF Init, NoTraffic, Captured
  <2>2. stage \in [StageType -> {"waiting", "queued", "completed", "partial", "failed"}]
    BY DEF Init
  <2> QED  BY <1>1, <2>1, <2>2 DEF Init, TypeOK
<1>3. StagesInOrder /\ RowsFollowStages /\ PlatformTells /\ BundleGrounded
  BY <1>1 DEF Init, StagesInOrder, RowsFollowStages, PlatformTells, BundleGrounded, StageType,
              NoTraffic
<1>4. VerdictEarned /\ ClaimsSupported
  BY DEF Init, VerdictEarned, NegativeVerdictEarned, MaliciousVerdictProved, ClaimsSupported,
         AndroidClaimsAreTemporal, RatedIndicatorsProved
<1> QED  BY <1>2, <1>3, <1>4 DEF Inv

\* A run without a report has nothing to prove about it.
LEMMA Unreported ==
  ASSUME report' = None
  PROVE  VerdictEarned' /\ ClaimsSupported'
BY DEF VerdictEarned, NegativeVerdictEarned, MaliciousVerdictProved, ClaimsSupported,
       AndroidClaimsAreTemporal, RatedIndicatorsProved

\* Evidence that stays as it is stays grounded.
LEMMA EvidenceStays ==
  ASSUME UNCHANGED <<run, captured, native, bundle>>, Grounded(native, bundle)
  PROVE  Grounded(native, bundle)'
BY DEF Grounded, NothingHidden, FaintWasFaint, NothingMadeUp, ItemsAreTemporal, Overshadowed,
       Neutral, NotForeign, Owner, OnWindows

LEMMA PlatformEndsKeeps ==
  ASSUME Inv, NEW how \in {"completed", "partial"}, NEW traffic \in Telemetry,
         NEW findings \in PlatformReports, PlatformEnds(how, traffic, findings)
  PROVE  Inv'
<1> USE DEF Inv, PlatformEnds
<1>1. report = None
  BY DEF StagesInOrder, Adapted
<1>2. stage \in [StageType -> {"waiting", "queued", "completed", "partial", "failed"}]
  BY DEF TypeOK
<1>3. /\ stage'.platform = how /\ stage'.platform_adaptation = "queued"
      /\ stage'.c2 = IF run.c2Enabled THEN "queued" ELSE stage.c2
      /\ stage'.c2_adaptation = stage.c2_adaptation /\ stage'.report = stage.report
  BY <1>2 DEF StageType
<1>4. stage.platform_adaptation = "waiting" /\ stage.c2 = "waiting"
      /\ stage.c2_adaptation = "waiting"
  BY DEF StagesInOrder
<1>5. TypeOK'
  <2>1. stage' \in [StageType -> {"waiting", "queued", "completed", "partial", "failed"}]
    BY <1>2 DEF StageType
  <2>2. captured' \in Captured
    BY TelemetryAssumption
  <2>3. /\ found'.score \in 0 .. 10 /\ found'.others \subseteq Tier
        /\ found'.iocs \subseteq StaticRow
    BY ReportsAssumption, Ranks
  <2> QED  BY <1>1, <2>1, <2>2, <2>3 DEF TypeOK
<1>6. StagesInOrder'
  BY <1>1, <1>3, <1>4 DEF StagesInOrder
<1>7. RowsFollowStages'
  BY <1>3, <1>4 DEF RowsFollowStages
<1>8. PlatformTells'
  BY ReportsAssumption DEF PlatformTells, OnWindows
<1>9. BundleGrounded'
  BY <1>3, <1>4 DEF BundleGrounded
<1> QED  BY <1>1, <1>5, <1>6, <1>7, <1>8, <1>9, Unreported

LEMMA PlatformFailsKeeps == Inv /\ PlatformFails => Inv'
<1> SUFFICES ASSUME Inv, PlatformFails PROVE Inv'
  OBVIOUS
<1> USE DEF Inv, PlatformFails
<1>1. report = None
  BY DEF StagesInOrder, Adapted
<1>2. stage \in [StageType -> {"waiting", "queued", "completed", "partial", "failed"}]
  BY DEF TypeOK
<1>3. /\ stage'.platform = "failed" /\ stage'.platform_adaptation = stage.platform_adaptation
      /\ stage'.c2 = stage.c2
      /\ stage'.c2_adaptation = stage.c2_adaptation /\ stage'.report = stage.report
  BY <1>2 DEF StageType
<1>4. TypeOK'
  <2>1. stage' \in [StageType -> {"waiting", "queued", "completed", "partial", "failed"}]
    BY <1>2 DEF StageType
  <2> QED  BY <1>1, <2>1 DEF TypeOK
<1>5. StagesInOrder'
  BY <1>1, <1>3 DEF StagesInOrder
<1>6. RowsFollowStages' /\ PlatformTells'
  BY <1>3 DEF RowsFollowStages, PlatformTells, OnWindows
<1>7. BundleGrounded'
  BY <1>3, EvidenceStays DEF BundleGrounded
<1> QED  BY <1>1, <1>4, <1>5, <1>6, <1>7, Unreported

LEMMA AnalyzeC2Keeps ==
  ASSUME Inv, NEW detected \in Detections, AnalyzeC2(detected)
  PROVE  Inv'
<1> USE DEF Inv
<1>1. report = None /\ run.c2Enabled /\ stage.platform \in {"completed", "partial"}
      /\ stage.c2 = "queued" /\ stage.c2_adaptation = "waiting"
  BY DEF StagesInOrder, Adapted, AnalyzeC2
<1>2. stage \in [StageType -> {"waiting", "queued", "completed", "partial", "failed"}]
      /\ captured \in Captured
  BY DEF TypeOK
<1>3. Detected(detected)
  BY EventsAssumption DEF Detected, Detections, Range
<1>4. PICK events \in IF OnWindows THEN {Corroborate(detected)} ELSE AndroidEvents(detected) :
        IF Accepted(Signed(events))
        THEN /\ bundle' = Signed(events)
             /\ stage' = [stage EXCEPT !.c2 = "completed", !.c2_adaptation = "queued"]
             /\ UNCHANGED result
        ELSE /\ stage' = [stage EXCEPT !.c2 = "failed"]
             /\ result' = "partial"
             /\ UNCHANGED bundle
  BY DEF AnalyzeC2, Signed
<1>5. /\ native' = detected
      /\ UNCHANGED <<run, captured, found, rows, report>>
  BY DEF AnalyzeC2
<1>6. stage'.platform = stage.platform /\ stage'.report = stage.report
      /\ stage'.platform_adaptation = stage.platform_adaptation
  BY <1>2, <1>4 DEF StageType
<1>7. \/ Accepted(Signed(events)) /\ stage'.c2 = "completed" /\ stage'.c2_adaptation = "queued"
      \/ /\ stage'.c2 = "failed" /\ stage'.c2_adaptation = stage.c2_adaptation
         /\ bundle' = bundle
  BY <1>2, <1>4 DEF StageType
<1>8. Accepted(Signed(events)) =>
        /\ bundle' = Signed(events)
        /\ Range(bundle') \subseteq Event /\ DOMAIN bundle' \subseteq Nat
        /\ Grounded(native', bundle')
  <2> SUFFICES ASSUME Accepted(Signed(events))
               PROVE  /\ Range(Signed(events)) \subseteq Event
                      /\ DOMAIN Signed(events) \subseteq Nat
                      /\ Grounded(detected, Signed(events))
    BY <1>4, <1>5
  <2>1. CASE OnWindows
    BY <1>3, <1>4, <1>5, <2>1, WindowsBundle
  <2>2. CASE ~OnWindows
    <3>1. captured.etw = "none"
      BY <2>2 DEF PlatformTells
    <3> QED  BY <1>2, <1>4, <1>5, <2>2, <3>1, AndroidBundle
  <2> QED  BY <2>1, <2>2
<1>9. Grounded(native', bundle') => Grounded(native, bundle)'
  BY <1>5 DEF Grounded, NothingHidden, FaintWasFaint, NothingMadeUp, ItemsAreTemporal,
              Overshadowed, Neutral, NotForeign, Owner, OnWindows
<1>10. stage' \in [StageType -> {"waiting", "queued", "completed", "partial", "failed"}]
       /\ result' \in {"none", "partial", "failed", "inconclusive", "completed"}
  <2>1. result \in {"none", "partial", "failed", "inconclusive", "completed"}
    BY DEF TypeOK
  <2> QED  BY <1>2, <1>4, <2>1 DEF StageType
<1>11. rows.c2 = <<>> /\ ~rows.adapted
  BY <1>1 DEF RowsFollowStages
<1>12. TypeOK'
  <2>1. Range(bundle') \subseteq Event
    BY <1>7, <1>8 DEF TypeOK
  <2> QED  BY <1>1, <1>3, <1>5, <1>10, <1>11, <2>1 DEF TypeOK, Detected
<1>13. StagesInOrder'
  BY <1>1, <1>5, <1>6, <1>7 DEF StagesInOrder
<1>14. RowsFollowStages'
  BY <1>1, <1>5, <1>6, <1>7, <1>8, <1>11 DEF RowsFollowStages
<1>15. PlatformTells'
  BY <1>5 DEF PlatformTells, OnWindows
<1>16. BundleGrounded'
  BY <1>7, <1>8, <1>9 DEF BundleGrounded
<1> QED  BY <1>1, <1>5, <1>12, <1>13, <1>14, <1>15, <1>16, Unreported

LEMMA C2FailsKeeps == Inv /\ C2Fails => Inv'
<1> SUFFICES ASSUME Inv, C2Fails PROVE Inv'
  OBVIOUS
<1> USE DEF Inv, C2Fails
<1>1. report = None /\ stage.c2_adaptation = "waiting"
  BY DEF StagesInOrder, Adapted
<1>2. stage \in [StageType -> {"waiting", "queued", "completed", "partial", "failed"}]
  BY DEF TypeOK
<1>3. /\ stage'.platform = stage.platform
      /\ stage'.platform_adaptation = stage.platform_adaptation /\ stage'.c2 = "failed"
      /\ stage'.c2_adaptation = stage.c2_adaptation /\ stage'.report = stage.report
  BY <1>2 DEF StageType
<1>4. TypeOK'
  <2>1. stage' \in [StageType -> {"waiting", "queued", "completed", "partial", "failed"}]
    BY <1>2 DEF StageType
  <2> QED  BY <1>1, <2>1 DEF TypeOK
<1>5. StagesInOrder'
  BY <1>1, <1>3 DEF StagesInOrder
<1>6. RowsFollowStages' /\ PlatformTells'
  BY <1>3 DEF RowsFollowStages, PlatformTells, OnWindows
<1>7. BundleGrounded'
  BY <1>3 DEF BundleGrounded
<1> QED  BY <1>1, <1>4, <1>5, <1>6, <1>7, Unreported

Rows(S) == [platform : BOOLEAN, c2 : S, adapted : BOOLEAN]

LEMMA RowsFields ==
  ASSUME NEW S, NEW r \in Rows(S), NEW b \in S
  PROVE  /\ [r EXCEPT !.platform = TRUE] \in Rows(S)
         /\ [r EXCEPT !.platform = TRUE].platform
         /\ [r EXCEPT !.platform = TRUE].c2 = r.c2
         /\ [r EXCEPT !.platform = TRUE].adapted = r.adapted
         /\ [r EXCEPT !.c2 = b, !.adapted = TRUE] \in Rows(S)
         /\ [r EXCEPT !.c2 = b, !.adapted = TRUE].platform = r.platform
         /\ [r EXCEPT !.c2 = b, !.adapted = TRUE].c2 = b
         /\ [r EXCEPT !.c2 = b, !.adapted = TRUE].adapted
BY DEF Rows

LEMMA AdaptPlatformKeeps == Inv /\ AdaptPlatform => Inv'
<1> SUFFICES ASSUME Inv, AdaptPlatform PROVE Inv'
  OBVIOUS
<1> USE DEF Inv, AdaptPlatform
<1>1. report = None
  BY DEF StagesInOrder, Adapted
<1>2. stage \in [StageType -> {"waiting", "queued", "completed", "partial", "failed"}]
  BY DEF TypeOK
<1>3. /\ stage'.platform = stage.platform
      /\ stage'.platform_adaptation = "completed" /\ stage'.c2 = stage.c2
      /\ stage'.c2_adaptation = stage.c2_adaptation /\ stage'.report = stage.report
  BY <1>2 DEF StageType
<1>4. /\ rows' \in Rows({<<>>, bundle}) /\ rows'.platform /\ rows'.c2 = rows.c2
      /\ rows'.adapted = rows.adapted
  BY RowsFields DEF TypeOK, Rows
<1>5. TypeOK'
  <2>1. stage' \in [StageType -> {"waiting", "queued", "completed", "partial", "failed"}]
    BY <1>2 DEF StageType
  <2> QED  BY <1>1, <1>4, <2>1 DEF TypeOK, Rows
<1>6. StagesInOrder'
  BY <1>1, <1>3 DEF StagesInOrder
<1>7. RowsFollowStages'
  BY <1>3, <1>4 DEF RowsFollowStages
<1>8. PlatformTells'
  BY DEF PlatformTells, OnWindows
<1>9. BundleGrounded'
  BY <1>3, EvidenceStays DEF BundleGrounded
<1> QED  BY <1>1, <1>5, <1>6, <1>7, <1>8, <1>9, Unreported

LEMMA AdaptC2Keeps == Inv /\ AdaptC2 => Inv'
<1> SUFFICES ASSUME Inv, AdaptC2 PROVE Inv'
  OBVIOUS
<1> USE DEF Inv, AdaptC2
<1>1. report = None
  BY DEF StagesInOrder, Adapted
<1>2. stage \in [StageType -> {"waiting", "queued", "completed", "partial", "failed"}]
  BY DEF TypeOK
<1>3. /\ stage'.platform = stage.platform
      /\ stage'.platform_adaptation = stage.platform_adaptation /\ stage'.c2 = stage.c2
      /\ stage'.c2_adaptation = "completed" /\ stage'.report = stage.report
  BY <1>2 DEF StageType
<1>4. /\ rows' \in Rows({<<>>, bundle}) /\ rows'.platform = rows.platform /\ rows'.c2 = bundle
      /\ rows'.adapted
  BY RowsFields DEF TypeOK, Rows
<1>5. TypeOK'
  <2>1. stage' \in [StageType -> {"waiting", "queued", "completed", "partial", "failed"}]
    BY <1>2 DEF StageType
  <2> QED  BY <1>1, <1>4, <2>1 DEF TypeOK, Rows
<1>6. StagesInOrder'
  BY <1>1, <1>3 DEF StagesInOrder
<1>7. RowsFollowStages'
  BY <1>3, <1>4 DEF RowsFollowStages
<1>8. PlatformTells'
  BY DEF PlatformTells, OnWindows
<1>9. BundleGrounded'
  BY <1>3, EvidenceStays DEF BundleGrounded
<1> QED  BY <1>1, <1>5, <1>6, <1>7, <1>8, <1>9, Unreported

LEMMA AggregateKeeps == Inv /\ Aggregate => Inv'
<1> SUFFICES ASSUME Inv, Aggregate PROVE Inv'
  OBVIOUS
<1> USE DEF Inv
<1>1. /\ Adapted /\ stage' = [stage EXCEPT !.report = "queued"]
      /\ UNCHANGED <<run, captured, found, native, bundle, rows, result>>
  BY DEF Aggregate
<1>2. stage \in [StageType -> {"waiting", "queued", "completed", "partial", "failed"}]
  BY DEF TypeOK
<1>3. /\ stage'.platform = stage.platform
      /\ stage'.platform_adaptation = stage.platform_adaptation /\ stage'.c2 = stage.c2
      /\ stage'.c2_adaptation = stage.c2_adaptation /\ stage'.report = "queued"
  BY <1>1, <1>2 DEF StageType
<1>4. PICK F \in CoalescedFindings, listed \in ListedTiers :
        /\ report'.verdict = VerdictOf(F) /\ report'.findings = F
        /\ report'.access = Access /\ report'.indicators = Indicators(listed)
  BY DEF Aggregate
<1>5. rows.platform /\ rows.adapted = run.c2Enabled
  BY <1>1, AdaptedRows DEF TypeOK, StagesInOrder, RowsFollowStages
<1>6. TypeOK'
  <2>1. stage' \in [StageType -> {"waiting", "queued", "completed", "partial", "failed"}]
    BY <1>1, <1>2 DEF StageType
  <2> QED  BY <1>1, <1>5, <2>1 DEF TypeOK
<1>7. StagesInOrder'
  BY <1>1, <1>3 DEF StagesInOrder, Adapted
<1>8. RowsFollowStages' /\ PlatformTells'
  BY <1>1, <1>3 DEF RowsFollowStages, PlatformTells, OnWindows
<1>9. BundleGrounded'
  BY <1>1, <1>3, EvidenceStays DEF BundleGrounded
<1>10. VerdictEarned'
  <2>1. NegativeVerdictEarned'
    BY <1>1, <1>3, <1>4, NegativeIsEarned
       DEF NegativeVerdictEarned, Overshadowed, Neutral, NotForeign, Owner, OnWindows
  <2>2. MaliciousVerdictProved'
    BY <1>1, <1>4, MaliciousIsProved DEF MaliciousVerdictProved, NotForeign, Owner
  <2> QED  BY <2>1, <2>2 DEF VerdictEarned
<1>11. ClaimsSupported'
  <2>1. AndroidClaimsAreTemporal'
    <3>1. ~OnWindows => Access # "correlated"
      BY DEF Access
    <3>2. ~OnWindows => \A f \in F : f.item =>
            /\ captured.eligible
            /\ f.kind = "correlation" /\ f.cap = "temporal" /\ ~AtLeast(f.tier, "strong")
      BY <1>1, AndroidItems, KeptFindings
    <3> QED  BY <1>1, <1>4, <3>1, <3>2 DEF AndroidClaimsAreTemporal, OnWindows
  <2>2. RatedIndicatorsProved'
    <3> SUFFICES ASSUME NEW ioc \in report'.indicators,
                        Rated(ioc.dest)', AtLeast(ioc.tier, "strong")
                 PROVE  \E i \in DOMAIN native' :
                          /\ native'[i].dest = ioc.dest /\ native'[i].tier = ioc.tier
                          /\ native'[i].kind = "static_ioc" \/ NotForeign(native[i])'
      BY DEF RatedIndicatorsProved
    <3>1. Rated(ioc.dest)
      BY <1>1 DEF Rated, AboutDestination
    <3> QED  BY <1>1, <1>4, <3>1, IndicatorsProved DEF NotForeign, Owner
  <2> QED  BY <2>1, <2>2 DEF ClaimsSupported
<1> QED  BY <1>6, <1>7, <1>8, <1>9, <1>10, <1>11

LEMMA ReportKeeps == Inv /\ Report => Inv'
<1> SUFFICES ASSUME Inv, Report PROVE Inv'
  OBVIOUS
<1> USE DEF Inv, Report
<1>1. stage \in [StageType -> {"waiting", "queued", "completed", "partial", "failed"}]
  BY DEF TypeOK
<1>2. /\ stage'.platform = stage.platform
      /\ stage'.platform_adaptation = stage.platform_adaptation /\ stage'.c2 = stage.c2
      /\ stage'.c2_adaptation = stage.c2_adaptation /\ stage'.report = "completed"
  BY <1>1 DEF StageType
<1>3. TypeOK'
  <2>1. stage' \in [StageType -> {"waiting", "queued", "completed", "partial", "failed"}]
    BY <1>1 DEF StageType
  <2> QED  BY <2>1 DEF TypeOK
<1>4. StagesInOrder'
  BY <1>2 DEF StagesInOrder, Adapted
<1>5. RowsFollowStages' /\ PlatformTells'
  BY <1>2 DEF RowsFollowStages, PlatformTells, OnWindows
<1>6. BundleGrounded'
  BY <1>2, EvidenceStays DEF BundleGrounded
<1>7. VerdictEarned' /\ ClaimsSupported'
  BY <1>2 DEF VerdictEarned, NegativeVerdictEarned, MaliciousVerdictProved, ClaimsSupported,
              AndroidClaimsAreTemporal, RatedIndicatorsProved, Rated, AboutDestination,
              Overshadowed, Neutral, NotForeign, OnWindows, Owner
<1> QED  BY <1>3, <1>4, <1>5, <1>6, <1>7

LEMMA StutterKeeps == Inv /\ UNCHANGED vars => Inv'
BY DEF Inv, vars, TypeOK, StagesInOrder, Adapted, RowsFollowStages, PlatformTells, BundleGrounded,
       Grounded, NothingHidden, FaintWasFaint, NothingMadeUp, ItemsAreTemporal, Overshadowed,
       Neutral, NotForeign, Owner, OnWindows, VerdictEarned, NegativeVerdictEarned,
       MaliciousVerdictProved, ClaimsSupported, AndroidClaimsAreTemporal, RatedIndicatorsProved,
       Rated, AboutDestination

LEMMA AlwaysInv == Spec => []Inv
<1>1. Inv /\ [Next]_vars => Inv'
  <2> SUFFICES ASSUME Inv, [Next]_vars PROVE Inv'
    OBVIOUS
  <2>1. CASE \E how \in {"completed", "partial"}, traffic \in Telemetry,
               findings \in PlatformReports : PlatformEnds(how, traffic, findings)
    BY <2>1, PlatformEndsKeeps
  <2>2. CASE \E detected \in Detections : AnalyzeC2(detected)
    BY <2>2, AnalyzeC2Keeps
  <2> QED
    BY <2>1, <2>2, PlatformFailsKeeps, C2FailsKeeps, AdaptPlatformKeeps, AdaptC2Keeps,
       AggregateKeeps, ReportKeeps, StutterKeeps DEF Next
<1> QED  BY <1>1, InitInv, PTL DEF Spec

-----------------------------------------------------------------------------
(* The theorems *)

\* The variables have their types, and a report is over all the rows that its run must have
\* (_ensure_ready_aggregation_stages).
THEOREM TypeCorrect == Spec => []TypeOK
BY AlwaysInv, PTL DEF Inv

\* Whatever the detectors find and the telemetry says, a clean verdict hides no credible
\* detection of a run that ended completely, but a neutral one for which a fainter one of the same
\* packet may stand, and a malicious verdict rests on CAPE's confirmation or on confirmed
\* exfiltration of the sample's own processes (_corroborate_etw_network,
\* _coalesce_network_observations, _coalesce_network_findings, _verdict).
THEOREM VerdictsAreEarned == Spec => []VerdictEarned
BY AlwaysInv, PTL DEF Inv

\* An Android report names data items in weak associations in time only, and whichever adapter
\* lists an indicator, if the network rates its destination it is above weak only by a detection
\* of its tier that the binary names or no other process sent (_correlate_android_access,
\* _validate_c2_identity, aggregate).
THEOREM ClaimsAreSupported == Spec => []ClaimsSupported
BY AlwaysInv, PTL DEF Inv

=============================================================================

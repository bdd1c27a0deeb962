------------------------- MODULE EgressBroker_proofs -------------------------
(***************************************************************************)
(* Proofs about EgressBroker, for any runs, guests and ceiling.  Whether   *)
(* a gate, a capture or a lease is attended to depends on what the request *)
(* that holds the lock has yet to do, and every request works off one of a *)
(* few lists of steps.  The proof therefore says once how such a list      *)
(* shrinks (no step comes twice, and which steps may follow which), and    *)
(* then reasons about the set of steps that are left.                      *)
(***************************************************************************)
EXTENDS EgressBroker, SequenceTheorems, TLAPS

-----------------------------------------------------------------------------
(* Lists of steps *)

\* The steps that may come after step s in any of the lists.
MayFollow(s) ==
  CASE s = "forget"   -> StepNames \ {"forget"}
    [] s = "shut"     -> StepNames \ {"shut"}
    [] s = "unscope"  -> StepNames \ {"shut", "unscope"}
    [] s = "stop"     -> {"forget", "finalize", "spawn", "await", "scope", "open", "record"}
    [] s = "finalize" -> {"spawn", "await", "scope", "open", "record"}
    [] s = "spawn"    -> {"await", "scope", "open", "record"}
    [] s = "await"    -> {"scope", "open", "record"}
    [] s = "scope"    -> {"open", "record"}
    [] s = "open"     -> {"record"}
    [] s = "record"   -> {}

Within(list, s, r) == \E i \in DOMAIN list : list[i] = <<s, r>>

\* A list serves one run, in an order that MayFollow allows.
Orderly(list) ==
  /\ list \in Seq(StepNames \X Runs)
  /\ \A i, j \in DOMAIN list :
       i < j => list[j][2] = list[i][2] /\ list[j][1] \in MayFollow(list[i][1])

\* The list of run r with the steps of names.
Lists(list, names, r) ==
  /\ Orderly(list)
  /\ \A s \in StepNames, q \in Runs : Within(list, s, q) <=> q = r /\ s \in names

-----------------------------------------------------------------------------
(* The inductive invariant *)

\* A run keeps its gate while no step of the request in progress is about to take that
\* away: it has a lease, not to be given up after the gate was shut, or the gate is still
\* to be shut, or it was just opened for the lease to be recorded.
Keeper(r) ==
  \/ r \in leases /\ ~(Ahead("forget", r) /\ ~Ahead("shut", r))
  \/ Ahead("shut", r)
  \/ Ahead("record", r) /\ ~Ahead("open", r)

Kept(g) == \E r \in Runs : GuestOf[r] = g /\ Keeper(r)

\* What the steps that are left say of a run's lease and of its capture.
StepsFit(r) ==
  /\ Ahead("stop", r) \/ Ahead("record", r) => r \notin leases \/ Ahead("forget", r)
  /\ Ahead("open", r) => Ahead("record", r) \/ (r \in leases /\ ~Ahead("forget", r))
  /\ Ahead("finalize", r) \/ Ahead("forget", r) => Ahead("stop", r) \/ capture[r] = "none"
  /\ Ahead("record", r) => Ahead("await", r) \/ capture[r] \in {"ready", "dead"}
  /\ Ahead("record", r) /\ (Ahead("stop", r) \/ Ahead("finalize", r)) => Ahead("await", r)
  /\ Ahead("spawn", r) => Ahead("await", r)
  /\ Ahead("await", r) => Ahead("open", r) /\ Ahead("record", r)

IInv ==
  /\ TypeOK
  /\ Orderly(todo)
  /\ \A g \in gate \ left : Kept(g)
  /\ LeasesCaptured
  /\ \A r \in Runs : StepsFit(r)
  /\ \A r \in leases : bytes[r] <= MaxBytes \/ Ahead("forget", r)

-----------------------------------------------------------------------------
(* How the lists are made *)

\* No step follows itself, and what may follow is a step.
LEMMA MayFollowTypes ==
  \A s \in StepNames : s \notin MayFollow(s) /\ MayFollow(s) \subseteq StepNames
BY DEF MayFollow, StepNames

\* The steps of a list of names for one run.
LEMMA StepsLists ==
  ASSUME NEW names \in Seq(StepNames), NEW r \in Runs,
         \A i, j \in DOMAIN names : i < j => names[j] \in MayFollow(names[i])
  PROVE  Lists(Steps(names, r), {names[i] : i \in DOMAIN names}, r)
<1> DEFINE list == Steps(names, r)
<1>1. /\ Len(names) \in Nat /\ DOMAIN names = 1 .. Len(names)
      /\ \A i \in DOMAIN names : names[i] \in StepNames
  BY LenProperties, ElementOfSeq
<1>2. DOMAIN list = DOMAIN names /\ \A i \in DOMAIN list : list[i] = <<names[i], r>>
  BY DEF Steps
<1>3. list \in [1 .. Len(names) -> StepNames \X Runs]
  BY <1>1 DEF Steps
<1>4. list \in Seq(StepNames \X Runs)
  BY <1>1, <1>3, SeqDef
<1> HIDE DEF list
<1>5. \A i, j \in DOMAIN list :
        i < j => list[j][2] = list[i][2] /\ list[j][1] \in MayFollow(list[i][1])
  BY <1>2
<1>6. \A s \in StepNames, q \in Runs :
        Within(list, s, q) <=> q = r /\ s \in {names[i] : i \in DOMAIN names}
  BY <1>2 DEF Within
<1> QED  BY <1>4, <1>5, <1>6 DEF Lists, Orderly, list

\* One list after another, of the same run.
LEMMA ConcatLists ==
  ASSUME NEW r \in Runs, NEW a, NEW b, NEW first \in SUBSET StepNames,
         NEW second \in SUBSET StepNames, Lists(a, first, r), Lists(b, second, r),
         \A s \in first : second \subseteq MayFollow(s)
  PROVE  Lists(a \o b, first \cup second, r)
<1> DEFINE list == a \o b
           S == StepNames \X Runs
<1>1. a \in Seq(S) /\ b \in Seq(S)
  BY DEF Lists, Orderly
<1>2. /\ Len(a) \in Nat /\ DOMAIN a = 1 .. Len(a)
      /\ Len(b) \in Nat /\ DOMAIN b = 1 .. Len(b)
      /\ \A i \in DOMAIN a : a[i] \in S
      /\ \A i \in DOMAIN b : b[i] \in S
  BY <1>1, LenProperties, ElementOfSeq
<1>3. /\ list \in Seq(S)
      /\ Len(list) = Len(a) + Len(b)
      /\ \A i \in 1 .. Len(a) + Len(b) : list[i] = IF i <= Len(a) THEN a[i] ELSE b[i - Len(a)]
  BY <1>1, ConcatProperties
<1> HIDE DEF list, S
<1>4. DOMAIN list = 1 .. Len(a) + Len(b)
  BY <1>3, LenProperties
<1>5. \A i \in DOMAIN list : \/ i \in DOMAIN a /\ list[i] = a[i]
                             \/ i - Len(a) \in DOMAIN b /\ list[i] = b[i - Len(a)] /\ i > Len(a)
  BY <1>2, <1>3, <1>4
<1>6. /\ \A i \in DOMAIN a : a[i][2] = r /\ a[i][1] \in first
      /\ \A i \in DOMAIN b : b[i][2] = r /\ b[i][1] \in second
  BY <1>2 DEF Lists, Within, S
<1>7. ASSUME NEW i \in DOMAIN list, NEW j \in DOMAIN list, i < j
      PROVE  list[j][2] = list[i][2] /\ list[j][1] \in MayFollow(list[i][1])
  <2>1. CASE i \in DOMAIN a /\ j \in DOMAIN a
    BY <1>2, <1>3, <1>4, <1>7, <2>1 DEF Lists, Orderly
  <2>2. CASE i > Len(a) /\ j > Len(a)
    <3>1. /\ i - Len(a) \in DOMAIN b /\ j - Len(a) \in DOMAIN b /\ i - Len(a) < j - Len(a)
          /\ list[i] = b[i - Len(a)] /\ list[j] = b[j - Len(a)]
      BY <1>2, <1>3, <1>4, <1>7, <2>2
    <3> QED  BY <3>1 DEF Lists, Orderly
  <2>3. CASE i \in DOMAIN a /\ j > Len(a)
    <3>1. list[i] = a[i] /\ j - Len(a) \in DOMAIN b /\ list[j] = b[j - Len(a)]
      BY <1>2, <1>3, <1>4, <2>3
    <3> QED  BY <1>6, <2>3, <3>1
  <2> QED  BY <1>2, <1>4, <1>7, <2>1, <2>2, <2>3
<1>8. ASSUME NEW s \in StepNames, NEW q \in Runs
      PROVE  Within(list, s, q) <=> q = r /\ s \in first \cup second
  <2>1. Within(list, s, q) => Within(a, s, q) \/ Within(b, s, q)
    BY <1>5 DEF Within
  <2>2. Within(a, s, q) => Within(list, s, q)
    BY <1>2, <1>3, <1>4 DEF Within
  <2>3. Within(b, s, q) => Within(list, s, q)
    <3> SUFFICES ASSUME NEW i \in DOMAIN b, b[i] = <<s, q>> PROVE Within(list, s, q)
      BY DEF Within
    <3>1. i + Len(a) \in DOMAIN list /\ list[i + Len(a)] = b[i]
      BY <1>2, <1>3, <1>4
    <3> QED  BY <3>1 DEF Within
  <2> QED  BY <2>1, <2>2, <2>3 DEF Lists
<1> QED  BY <1>3, <1>7, <1>8 DEF Lists, Orderly, list, S

RevokingNames == {"forget", "shut", "unscope", "stop", "finalize"}
OpeningNames == {"spawn", "await", "scope", "open", "record"}

\* The lists that the code makes.
LEMMA AllLists ==
  ASSUME NEW r \in Runs
  PROVE  /\ Lists(Revoking(r), RevokingNames, r)
         /\ Lists(Opening(r), OpeningNames, r)
         /\ Lists(Refreshing(r), {"shut", "unscope", "scope", "open"}, r)
         /\ Lists(Undoing(r), {"shut", "unscope", "stop", "forget"}, r)
         /\ Lists(Steps(<<"stop">>, r), {"stop"}, r)
         /\ Lists(Revoking(r) \o Opening(r), StepNames, r)
         /\ Lists(<<>>, {}, r)
<1> USE DEF RevokingNames, OpeningNames
<1>1. Lists(Revoking(r), RevokingNames, r)
  <2> DEFINE names == <<"forget", "shut", "unscope", "stop", "finalize">>
  <2>1. names \in Seq(StepNames) /\ DOMAIN names = 1 .. 5
    BY DEF StepNames
  <2>2. \A i, j \in 1 .. 5 : i < j => names[j] \in MayFollow(names[i])
    BY DEF MayFollow, StepNames
  <2>3. {names[i] : i \in 1 .. 5} = RevokingNames
    OBVIOUS
  <2> QED  BY <2>1, <2>2, <2>3, StepsLists DEF Revoking
<1>2. Lists(Opening(r), OpeningNames, r)
  <2> DEFINE names == <<"spawn", "await", "scope", "open", "record">>
  <2>1. names \in Seq(StepNames) /\ DOMAIN names = 1 .. 5
    BY DEF StepNames
  <2>2. \A i, j \in 1 .. 5 : i < j => names[j] \in MayFollow(names[i])
    BY DEF MayFollow, StepNames
  <2>3. {names[i] : i \in 1 .. 5} = OpeningNames
    OBVIOUS
  <2> QED  BY <2>1, <2>2, <2>3, StepsLists DEF Opening
<1>3. Lists(Refreshing(r), {"shut", "unscope", "scope", "open"}, r)
  <2> DEFINE names == <<"shut", "unscope", "scope", "open">>
  <2>1. names \in Seq(StepNames) /\ DOMAIN names = 1 .. 4
    BY DEF StepNames
  <2>2. \A i, j \in 1 .. 4 : i < j => names[j] \in MayFollow(names[i])
    BY DEF MayFollow, StepNames
  <2>3. {names[i] : i \in 1 .. 4} = {"shut", "unscope", "scope", "open"}
    OBVIOUS
  <2> QED  BY <2>1, <2>2, <2>3, StepsLists DEF Refreshing
<1>4. Lists(Undoing(r), {"shut", "unscope", "stop", "forget"}, r)
  <2> DEFINE names == <<"shut", "unscope", "stop", "forget">>
  <2>1. names \in Seq(StepNames) /\ DOMAIN names = 1 .. 4
    BY DEF StepNames
  <2>2. \A i, j \in 1 .. 4 : i < j => names[j] \in MayFollow(names[i])
    BY DEF MayFollow, StepNames
  <2>3. {names[i] : i \in 1 .. 4} = {"shut", "unscope", "stop", "forget"}
    OBVIOUS
  <2> QED  BY <2>1, <2>2, <2>3, StepsLists DEF Undoing
<1>5. Lists(Steps(<<"stop">>, r), {"stop"}, r)
  <2> DEFINE names == <<"stop">>
  <2>1. names \in Seq(StepNames) /\ DOMAIN names = {1}
    BY DEF StepNames
  <2>2. \A i, j \in DOMAIN names : i < j => names[j] \in MayFollow(names[i])
    BY <2>1
  <2>3. {names[i] : i \in DOMAIN names} = {"stop"}
    BY <2>1
  <2> QED  BY <2>1, <2>2, <2>3, StepsLists
<1>6. Lists(Revoking(r) \o Opening(r), StepNames, r)
  <2>1. \A s \in RevokingNames : OpeningNames \subseteq MayFollow(s)
    BY DEF MayFollow, StepNames
  <2>2. RevokingNames \cup OpeningNames = StepNames
    BY DEF StepNames
  <2> QED  BY <1>1, <1>2, <2>1, <2>2, ConcatLists
<1>7. Lists(<<>>, {}, r)
  BY EmptySeq DEF Lists, Orderly, Within
<1> QED  BY <1>1, <1>2, <1>3, <1>4, <1>5, <1>6, <1>7

-----------------------------------------------------------------------------
(* How a list shrinks *)

\* The step at the head of the list is ahead, and the others are of its run and may follow.
LEMMA DoingAhead ==
  ASSUME Orderly(todo), NEW s \in StepNames, NEW r \in Runs, Doing(s, r)
  PROVE  /\ Ahead(s, r)
         /\ \A x \in StepNames, q \in Runs : Ahead(x, q) => q = r /\ x \in {s} \cup MayFollow(s)
         /\ s \notin MayFollow(s)
<1>1. /\ Len(todo) \in Nat \ {0} /\ DOMAIN todo = 1 .. Len(todo)
      /\ todo[1] = <<s, r>>
  BY EmptySeq, LenProperties DEF Orderly, Doing
<1>2. \A i \in DOMAIN todo : i = 1 \/ (todo[i][2] = r /\ todo[i][1] \in MayFollow(s))
  BY <1>1 DEF Orderly
<1> QED  BY <1>1, <1>2, MayFollowTypes DEF Ahead

\* A step that is done leaves the list.
LEMMA Advance ==
  ASSUME Orderly(todo), NEW s \in StepNames, NEW r \in Runs, Doing(s, r), Goes
  PROVE  /\ Orderly(todo')
         /\ \A x \in StepNames, q \in Runs :
              Ahead(x, q)' <=> Ahead(x, q) /\ ~(x = s /\ q = r)
<1> DEFINE S == StepNames \X Runs
<1>1. /\ todo \in Seq(S) /\ todo # <<>>
      /\ todo' = Tail(todo)
      /\ todo[1] = <<s, r>>
  BY DEF Orderly, Doing, Goes
<1>2. /\ Len(todo) \in Nat \ {0} /\ DOMAIN todo = 1 .. Len(todo)
      /\ todo' \in Seq(S)
      /\ Len(todo') = Len(todo) - 1
      /\ \A i \in 1 .. Len(todo') : todo'[i] = todo[i + 1]
  BY <1>1, EmptySeq, LenProperties, HeadTailProperties
<1>3. DOMAIN todo' = 1 .. Len(todo')
  BY <1>2, LenProperties
<1> HIDE DEF S
<1>4. \A i \in DOMAIN todo' : i + 1 \in DOMAIN todo /\ todo'[i] = todo[i + 1]
  BY <1>2, <1>3
<1>5. \A i, j \in DOMAIN todo' :
        i < j => todo'[j][2] = todo'[i][2] /\ todo'[j][1] \in MayFollow(todo'[i][1])
  BY <1>2, <1>3, <1>4 DEF Orderly
<1>6. Orderly(todo')
  BY <1>2, <1>5 DEF Orderly, S
<1>7. ASSUME NEW x \in StepNames, NEW q \in Runs
      PROVE  (\E i \in DOMAIN todo' : todo'[i] = <<x, q>>)
               <=> Ahead(x, q) /\ ~(x = s /\ q = r)
  <2>1. ASSUME NEW i \in DOMAIN todo', todo'[i] = <<x, q>>
        PROVE  Ahead(x, q) /\ ~(x = s /\ q = r)
    <3>1. i + 1 \in DOMAIN todo /\ 1 \in DOMAIN todo /\ 1 < i + 1 /\ todo[i + 1] = <<x, q>>
      BY <1>2, <1>3, <1>4, <2>1
    <3>2. x \in MayFollow(s)
      BY <1>1, <3>1 DEF Orderly
    <3> QED  BY <1>4, <3>1, <3>2, MayFollowTypes DEF Ahead
  <2>2. ASSUME NEW i \in DOMAIN todo, todo[i] = <<x, q>>, ~(x = s /\ q = r)
        PROVE  \E k \in DOMAIN todo' : todo'[k] = <<x, q>>
    <3>1. i # 1
      BY <1>1, <2>2
    <3>2. i - 1 \in DOMAIN todo' /\ todo'[i - 1] = todo[i]
      BY <1>2, <1>3, <3>1
    <3> QED  BY <2>2, <3>2
  <2> QED  BY <2>1, <2>2 DEF Ahead
<1> QED  BY <1>6, <1>7 DEF Ahead

\* A request that begins, or an exception, puts a list in place of what was left.
LEMMA Replaced ==
  ASSUME NEW names, NEW r \in Runs, Lists(todo', names, r)
  PROVE  /\ Orderly(todo')
         /\ \A x \in StepNames, q \in Runs : Ahead(x, q)' <=> q = r /\ x \in names
BY DEF Lists, Within, Ahead

\* What is left of the list when its next step is done.
LEMMA StepDone ==
  ASSUME IInv, NEW s \in StepNames, NEW r \in Runs, Doing(s, r), Goes
  PROVE  /\ Orderly(todo)' /\ (todo \in Seq(StepNames \X Runs))'
         /\ \A x \in StepNames, q \in Runs :
              /\ Ahead(x, q)' <=> Ahead(x, q) /\ ~(x = s /\ q = r)
              /\ Ahead(x, q) => q = r /\ x \in {s} \cup MayFollow(s)
         /\ Ahead(s, r)
BY Advance, DoingAhead DEF IInv, Orderly

\* A list that is put in place of what was left.
LEMMA ListBegun ==
  ASSUME NEW names, NEW r \in Runs, Lists(todo', names, r)
  PROVE  /\ Orderly(todo)' /\ (todo \in Seq(StepNames \X Runs))'
         /\ \A x \in StepNames, q \in Runs : Ahead(x, q)' <=> q = r /\ x \in names
BY Replaced DEF Lists, Orderly

\* Without a request nothing is ahead.
LEMMA NothingAhead ==
  ASSUME todo = <<>>, NEW x, NEW q
  PROVE  ~Ahead(x, q)
BY EmptySeq DEF Ahead

\* Without a step the list is what it was.
LEMMA SameList ==
  ASSUME UNCHANGED todo
  PROVE  /\ Orderly(todo)' <=> Orderly(todo)
         /\ \A x \in StepNames, q \in Runs : Ahead(x, q)' <=> Ahead(x, q)
BY DEF Ahead

-----------------------------------------------------------------------------
(* The steps of a request keep the invariant *)

\* The lease is given up: its gate is still to be shut, and its capture was stopped or is
\* still to be.
LEMMA ForgetKeeps ==
  ASSUME IInv, NEW r \in Runs, Forget(r)
  PROVE  IInv'
<1>1. "forget" \in StepNames /\ Doing("forget", r) /\ Goes
  BY DEF Forget, StepNames
<1>2. /\ Orderly(todo)' /\ (todo \in Seq(StepNames \X Runs))'
      /\ \A x \in StepNames, q \in Runs :
           /\ Ahead(x, q)' <=> Ahead(x, q) /\ ~(x = "forget" /\ q = r)
           /\ Ahead(x, q) => q = r /\ x \in {"forget"} \cup MayFollow("forget")
      /\ Ahead("forget", r)
  BY <1>1, StepDone
<1>3. TypeOK'
  BY <1>2, MaxBytesAssumption DEF IInv, TypeOK, Forget, kernelVars, sourceVars, captureVars,
     CounterBound
<1>4. \A g \in (gate \ left)' : Kept(g)'
  <2>1. \A q \in Runs : Keeper(q) => Keeper(q)'
    BY <1>2 DEF Keeper, Forget, StepNames
  <2> QED  BY <2>1 DEF IInv, Kept, Forget, kernelVars, sourceVars
<1>5. LeasesCaptured'
  BY <1>2 DEF IInv, LeasesCaptured, StepsFit, Forget, captureVars, StepNames
<1>6. \A q \in Runs : StepsFit(q)'
  BY <1>2 DEF IInv, StepsFit, Forget, captureVars, StepNames
<1>7. \A q \in leases' : (bytes[q] <= MaxBytes \/ Ahead("forget", q))'
  BY <1>2 DEF IInv, TypeOK, Forget, StepNames
<1> QED  BY <1>2, <1>3, <1>4, <1>5, <1>6, <1>7 DEF IInv

\* Whether or not the deletion succeeds, the gate needs no keeper afterwards.
LEMMA ShutKeeps ==
  ASSUME IInv, NEW r \in Runs, Shut(r)
  PROVE  IInv'
<1>1. "shut" \in StepNames /\ Doing("shut", r) /\ Goes
  BY DEF Shut, StepNames
<1>2. /\ Orderly(todo)' /\ (todo \in Seq(StepNames \X Runs))'
      /\ \A x \in StepNames, q \in Runs :
           /\ Ahead(x, q)' <=> Ahead(x, q) /\ ~(x = "shut" /\ q = r)
           /\ Ahead(x, q) => q = r /\ x \in {"shut"} \cup MayFollow("shut")
      /\ Ahead("shut", r)
  BY <1>1, StepDone
<1>3. TypeOK'
  <2>1. /\ gate' \subseteq Guests /\ left' \subseteq gate'
        /\ counter' \in [Guests -> 0 .. CounterBound]
    <3>1. GuestOf[r] \in Guests /\ 0 \in 0 .. CounterBound
      BY GuestOfAssumption, MaxBytesAssumption DEF CounterBound
    <3>2. CASE /\ gate' = gate \ {GuestOf[r]}
               /\ counter' = [counter EXCEPT ![GuestOf[r]] = 0]
               /\ left' = left \ {GuestOf[r]}
      BY <3>1, <3>2 DEF IInv, TypeOK
    <3>3. CASE /\ left' = left \cup ({GuestOf[r]} \cap gate)
               /\ UNCHANGED <<gate, counter>>
      BY <3>3 DEF IInv, TypeOK
    <3> QED  BY <3>2, <3>3 DEF Shut
  <2> QED  BY <1>2, <2>1 DEF IInv, TypeOK, Shut, captureVars
<1>4. \A g \in (gate \ left)' : Kept(g)'
  <2>1. \A q \in Runs : q # r /\ Keeper(q) => Keeper(q)'
    BY <1>2 DEF Keeper, Shut, StepNames
  <2>2. (gate \ left)' \subseteq (gate \ left) \ {GuestOf[r]}
    BY DEF Shut
  <2> QED  BY <2>1, <2>2 DEF IInv, Kept
<1>5. LeasesCaptured'
  BY <1>2 DEF IInv, LeasesCaptured, Shut, captureVars, StepNames
<1>6. \A q \in Runs : StepsFit(q)'
  BY <1>2 DEF IInv, StepsFit, Shut, captureVars, StepNames
<1>7. \A q \in leases' : (bytes[q] <= MaxBytes \/ Ahead("forget", q))'
  BY <1>2 DEF IInv, TypeOK, Shut, StepNames
<1> QED  BY <1>2, <1>3, <1>4, <1>5, <1>6, <1>7 DEF IInv

\* A destination tuple is nobody's concern but the guest's.
LEMMA UnscopeKeeps ==
  ASSUME IInv, NEW r \in Runs, Unscope(r)
  PROVE  IInv'
<1>1. "unscope" \in StepNames /\ Doing("unscope", r) /\ Goes
  BY DEF Unscope, StepNames
<1>2. /\ Orderly(todo)' /\ (todo \in Seq(StepNames \X Runs))'
      /\ \A x \in StepNames, q \in Runs :
           /\ Ahead(x, q)' <=> Ahead(x, q) /\ ~(x = "unscope" /\ q = r)
           /\ Ahead(x, q) => q = r /\ x \in {"unscope"} \cup MayFollow("unscope")
      /\ Ahead("unscope", r)
  BY <1>1, StepDone
<1>3. TypeOK'
  BY <1>2 DEF IInv, TypeOK, Unscope, sourceVars, captureVars
<1>4. \A g \in (gate \ left)' : Kept(g)'
  <2>1. \A q \in Runs : Keeper(q) => Keeper(q)'
    BY <1>2 DEF Keeper, Unscope, StepNames
  <2> QED  BY <2>1 DEF IInv, Kept, Unscope, sourceVars
<1>5. LeasesCaptured'
  BY <1>2 DEF IInv, LeasesCaptured, Unscope, captureVars, StepNames
<1>6. \A q \in Runs : StepsFit(q)'
  BY <1>2 DEF IInv, StepsFit, Unscope, captureVars, StepNames
<1>7. \A q \in leases' : (bytes[q] <= MaxBytes \/ Ahead("forget", q))'
  BY <1>2 DEF IInv, TypeOK, Unscope, StepNames
<1> QED  BY <1>2, <1>3, <1>4, <1>5, <1>6, <1>7 DEF IInv

\* The capture ends: no lease of the run remains, or it is still to be given up.
LEMMA StopKeeps ==
  ASSUME IInv, NEW r \in Runs, Stop(r)
  PROVE  IInv'
<1>1. "stop" \in StepNames /\ Doing("stop", r) /\ Goes
  BY DEF Stop, StepNames
<1>2. /\ Orderly(todo)' /\ (todo \in Seq(StepNames \X Runs))'
      /\ \A x \in StepNames, q \in Runs :
           /\ Ahead(x, q)' <=> Ahead(x, q) /\ ~(x = "stop" /\ q = r)
           /\ Ahead(x, q) => q = r /\ x \in {"stop"} \cup MayFollow("stop")
      /\ Ahead("stop", r)
  BY <1>1, StepDone
<1>3. TypeOK'
  BY <1>2 DEF IInv, TypeOK, Stop, kernelVars, sourceVars
<1>4. \A g \in (gate \ left)' : Kept(g)'
  <2>1. \A q \in Runs : Keeper(q) => Keeper(q)'
    BY <1>2 DEF Keeper, Stop, StepNames
  <2> QED  BY <2>1 DEF IInv, Kept, Stop, kernelVars, sourceVars
<1>5. LeasesCaptured'
  BY <1>2 DEF IInv, TypeOK, LeasesCaptured, StepsFit, Stop, StepNames
<1>6. \A q \in Runs : StepsFit(q)'
  BY <1>2 DEF IInv, TypeOK, StepsFit, Stop, StepNames
<1>7. \A q \in leases' : (bytes[q] <= MaxBytes \/ Ahead("forget", q))'
  BY <1>2 DEF IInv, TypeOK, Stop, StepNames
<1> QED  BY <1>2, <1>3, <1>4, <1>5, <1>6, <1>7 DEF IInv

\* The capture starts, and will be awaited.
LEMMA SpawnKeeps ==
  ASSUME IInv, NEW r \in Runs, Spawn(r)
  PROVE  IInv'
<1>1. "spawn" \in StepNames /\ Doing("spawn", r) /\ Goes
  BY DEF Spawn, StepNames
<1>2. /\ Orderly(todo)' /\ (todo \in Seq(StepNames \X Runs))'
      /\ \A x \in StepNames, q \in Runs :
           /\ Ahead(x, q)' <=> Ahead(x, q) /\ ~(x = "spawn" /\ q = r)
           /\ Ahead(x, q) => q = r /\ x \in {"spawn"} \cup MayFollow("spawn")
      /\ Ahead("spawn", r)
  BY <1>1, StepDone
<1>3. TypeOK'
  BY <1>2 DEF IInv, TypeOK, Spawn, kernelVars, sourceVars
<1>4. \A g \in (gate \ left)' : Kept(g)'
  <2>1. \A q \in Runs : Keeper(q) => Keeper(q)'
    BY <1>2 DEF Keeper, Spawn, StepNames
  <2> QED  BY <2>1 DEF IInv, Kept, Spawn, kernelVars, sourceVars
<1>5. LeasesCaptured'
  BY <1>2 DEF IInv, LeasesCaptured, StepsFit, Spawn, StepNames
<1>6. \A q \in Runs : StepsFit(q)'
  BY <1>2 DEF IInv, StepsFit, Spawn, StepNames, MayFollow
<1>7. \A q \in leases' : (bytes[q] <= MaxBytes \/ Ahead("forget", q))'
  BY <1>2 DEF IInv, TypeOK, Spawn, StepNames
<1> QED  BY <1>2, <1>3, <1>4, <1>5, <1>6, <1>7 DEF IInv

\* The lease takes over from the request, with the capture that was awaited.
LEMMA RecordKeeps ==
  ASSUME IInv, NEW r \in Runs, Record(r)
  PROVE  IInv'
<1>1. "record" \in StepNames /\ Doing("record", r) /\ Goes
  BY DEF Record, StepNames
<1>2. /\ Orderly(todo)' /\ (todo \in Seq(StepNames \X Runs))'
      /\ \A x \in StepNames, q \in Runs :
           /\ Ahead(x, q)' <=> Ahead(x, q) /\ ~(x = "record" /\ q = r)
           /\ Ahead(x, q) => q = r /\ x \in {"record"} \cup MayFollow("record")
      /\ Ahead("record", r)
  BY <1>1, StepDone
<1>3. TypeOK'
  BY <1>2, MaxBytesAssumption DEF IInv, TypeOK, Record, kernelVars, sourceVars, captureVars,
     CounterBound
<1>4. \A g \in (gate \ left)' : Kept(g)'
  <2>1. \A q \in Runs : Keeper(q) => Keeper(q)'
    BY <1>2 DEF Keeper, Record, StepNames, MayFollow
  <2> QED  BY <2>1 DEF IInv, Kept, Record, kernelVars, sourceVars
<1>5. LeasesCaptured'
  BY <1>2 DEF IInv, LeasesCaptured, StepsFit, Record, captureVars, StepNames, MayFollow
<1>6. \A q \in Runs : StepsFit(q)'
  BY <1>2 DEF StepsFit, StepNames, MayFollow
<1>7. \A q \in leases' : (bytes[q] <= MaxBytes \/ Ahead("forget", q))'
  BY <1>2, MaxBytesAssumption DEF IInv, TypeOK, Record, StepNames
<1> QED  BY <1>2, <1>3, <1>4, <1>5, <1>6, <1>7 DEF IInv

\* The capture holds a packet: the request goes on.
LEMMA FinalizeSucceeds ==
  ASSUME IInv, NEW r \in Runs, Finalize(r), Goes
  PROVE  IInv'
<1>1. "finalize" \in StepNames /\ Doing("finalize", r) /\ Goes
  BY DEF Finalize, StepNames
<1>2. /\ Orderly(todo)' /\ (todo \in Seq(StepNames \X Runs))'
      /\ \A x \in StepNames, q \in Runs :
           /\ Ahead(x, q)' <=> Ahead(x, q) /\ ~(x = "finalize" /\ q = r)
           /\ Ahead(x, q) => q = r /\ x \in {"finalize"} \cup MayFollow("finalize")
      /\ Ahead("finalize", r)
  BY <1>1, StepDone
<1>3. TypeOK'
  BY <1>2 DEF IInv, TypeOK, Finalize, kernelVars, sourceVars, captureVars
<1>4. \A g \in (gate \ left)' : Kept(g)'
  <2>1. \A q \in Runs : Keeper(q) => Keeper(q)'
    BY <1>2 DEF Keeper, Finalize, StepNames
  <2> QED  BY <2>1 DEF IInv, Kept, Finalize, kernelVars, sourceVars
<1>5. LeasesCaptured'
  BY <1>2 DEF IInv, LeasesCaptured, Finalize, captureVars, StepNames
<1>6. \A q \in Runs : StepsFit(q)'
  BY <1>2 DEF IInv, StepsFit, Finalize, StepNames, MayFollow
<1>7. \A q \in leases' : (bytes[q] <= MaxBytes \/ Ahead("forget", q))'
  BY <1>2 DEF IInv, TypeOK, Finalize, StepNames
<1> QED  BY <1>2, <1>3, <1>4, <1>5, <1>6, <1>7 DEF IInv

\* No packet: what was left of the request does not happen, and nothing was left that gate,
\* capture or lease depends on.
LEMMA FinalizeRaises ==
  ASSUME IInv, NEW r \in Runs, Finalize(r), todo' = <<>>
  PROVE  IInv'
<1>1. /\ Orderly(todo)' /\ (todo \in Seq(StepNames \X Runs))'
      /\ \A x \in StepNames, q \in Runs : Ahead(x, q)' <=> q = r /\ x \in {}
  <2> DEFINE names == {}
  <2>1. Lists(todo', names, r)
    BY AllLists
  <2> HIDE DEF names
  <2>2. /\ Orderly(todo)' /\ (todo \in Seq(StepNames \X Runs))'
        /\ \A x \in StepNames, q \in Runs : Ahead(x, q)' <=> q = r /\ x \in names
    BY <2>1, ListBegun
  <2> QED  BY <2>2 DEF names
<1>2. /\ \A x \in StepNames, q \in Runs : Ahead(x, q) => q = r /\ x \in {"finalize"} \cup MayFollow("finalize")
      /\ Ahead("finalize", r)
  BY DoingAhead DEF Finalize, StepNames, IInv
<1>3. TypeOK'
  BY DEF IInv, TypeOK, Finalize, kernelVars, sourceVars, captureVars
<1>4. \A g \in (gate \ left)' : Kept(g)'
  <2>1. \A q \in Runs : Keeper(q) => Keeper(q)'
    BY <1>1, <1>2 DEF IInv, Keeper, StepsFit, Finalize, StepNames, MayFollow
  <2> QED  BY <2>1 DEF IInv, Kept, Finalize, kernelVars, sourceVars
<1>5. LeasesCaptured'
  BY <1>2 DEF IInv, LeasesCaptured, StepsFit, Finalize, captureVars, StepNames, MayFollow
<1>6. \A q \in Runs : StepsFit(q)'
  BY <1>1 DEF StepsFit, StepNames
<1>7. \A q \in leases' : (bytes[q] <= MaxBytes \/ Ahead("forget", q))'
  BY <1>2 DEF IInv, TypeOK, Finalize, StepNames, MayFollow
<1> QED  BY <1>1, <1>3, <1>4, <1>5, <1>6, <1>7 DEF IInv

\* The capture is ready.
LEMMA AwaitSucceeds ==
  ASSUME IInv, NEW r \in Runs, Await(r), Goes, capture' = [capture EXCEPT ![r] = "ready"]
  PROVE  IInv'
<1>1. "await" \in StepNames /\ Doing("await", r) /\ Goes
  BY DEF Await, StepNames
<1>2. /\ Orderly(todo)' /\ (todo \in Seq(StepNames \X Runs))'
      /\ \A x \in StepNames, q \in Runs :
           /\ Ahead(x, q)' <=> Ahead(x, q) /\ ~(x = "await" /\ q = r)
           /\ Ahead(x, q) => q = r /\ x \in {"await"} \cup MayFollow("await")
      /\ Ahead("await", r)
  BY <1>1, StepDone
<1>3. TypeOK'
  BY <1>2 DEF IInv, TypeOK, Await, kernelVars, sourceVars
<1>4. \A g \in (gate \ left)' : Kept(g)'
  <2>1. \A q \in Runs : Keeper(q) => Keeper(q)'
    BY <1>2 DEF Keeper, Await, StepNames
  <2> QED  BY <2>1 DEF IInv, Kept, Await, kernelVars, sourceVars
<1>5. LeasesCaptured'
  BY <1>2 DEF IInv, LeasesCaptured, StepsFit, Await, StepNames
<1>6. \A q \in Runs : StepsFit(q)'
  BY <1>2 DEF IInv, TypeOK, StepsFit, Await, StepNames, MayFollow
<1>7. \A q \in leases' : (bytes[q] <= MaxBytes \/ Ahead("forget", q))'
  BY <1>2 DEF IInv, TypeOK, Await, StepNames
<1> QED  BY <1>2, <1>3, <1>4, <1>5, <1>6, <1>7 DEF IInv

\* The capture is not: its process is ended, and no gate was open yet.
LEMMA AwaitRaises ==
  ASSUME IInv, NEW r \in Runs, Await(r), todo' = Steps(<<"stop">>, r), UNCHANGED capture
  PROVE  IInv'
<1>1. /\ Orderly(todo)' /\ (todo \in Seq(StepNames \X Runs))'
      /\ \A x \in StepNames, q \in Runs : Ahead(x, q)' <=> q = r /\ x \in {"stop"}
  <2> DEFINE names == {"stop"}
  <2>1. Lists(todo', names, r)
    BY AllLists
  <2> HIDE DEF names
  <2>2. /\ Orderly(todo)' /\ (todo \in Seq(StepNames \X Runs))'
        /\ \A x \in StepNames, q \in Runs : Ahead(x, q)' <=> q = r /\ x \in names
    BY <2>1, ListBegun
  <2> QED  BY <2>2 DEF names
<1>2. /\ \A x \in StepNames, q \in Runs : Ahead(x, q) => q = r /\ x \in {"await"} \cup MayFollow("await")
      /\ Ahead("await", r)
  BY DoingAhead DEF Await, StepNames, IInv
<1>3. TypeOK'
  BY <1>1 DEF IInv, TypeOK, Await, kernelVars, sourceVars
<1>4. \A g \in (gate \ left)' : Kept(g)'
  <2>1. \A q \in Runs : Keeper(q) => Keeper(q)'
    BY <1>1, <1>2 DEF IInv, Keeper, StepsFit, Await, StepNames, MayFollow
  <2> QED  BY <2>1 DEF IInv, Kept, Await, kernelVars, sourceVars
<1>5. LeasesCaptured'
  BY <1>1, <1>2 DEF IInv, LeasesCaptured, Await, StepNames, MayFollow
<1>6. \A q \in Runs : StepsFit(q)'
  BY <1>1, <1>2 DEF IInv, StepsFit, Await, StepNames, MayFollow
<1>7. \A q \in leases' : (bytes[q] <= MaxBytes \/ Ahead("forget", q))'
  BY <1>2 DEF IInv, TypeOK, Await, StepNames, MayFollow
<1> QED  BY <1>1, <1>3, <1>4, <1>5, <1>6, <1>7 DEF IInv

\* The guest has its destination.
LEMMA ScopeSucceeds ==
  ASSUME IInv, NEW r \in Runs, Scope(r), Goes
  PROVE  IInv'
<1>1. "scope" \in StepNames /\ Doing("scope", r) /\ Goes
  BY DEF Scope, StepNames
<1>2. /\ Orderly(todo)' /\ (todo \in Seq(StepNames \X Runs))'
      /\ \A x \in StepNames, q \in Runs :
           /\ Ahead(x, q)' <=> Ahead(x, q) /\ ~(x = "scope" /\ q = r)
           /\ Ahead(x, q) => q = r /\ x \in {"scope"} \cup MayFollow("scope")
      /\ Ahead("scope", r)
  BY <1>1, StepDone
<1>3. TypeOK'
  BY <1>2 DEF IInv, TypeOK, Scope, sourceVars, captureVars
<1>4. \A g \in (gate \ left)' : Kept(g)'
  <2>1. \A q \in Runs : Keeper(q) => Keeper(q)'
    BY <1>2 DEF Keeper, Scope, StepNames
  <2> QED  BY <2>1 DEF IInv, Kept, Scope, sourceVars
<1>5. LeasesCaptured'
  BY <1>2 DEF IInv, LeasesCaptured, Scope, captureVars, StepNames
<1>6. \A q \in Runs : StepsFit(q)'
  BY <1>2 DEF IInv, StepsFit, Scope, captureVars, StepNames
<1>7. \A q \in leases' : (bytes[q] <= MaxBytes \/ Ahead("forget", q))'
  BY <1>2 DEF IInv, TypeOK, Scope, StepNames
<1> QED  BY <1>2, <1>3, <1>4, <1>5, <1>6, <1>7 DEF IInv

\* The authorization is undone, the lease and its capture with it.
LEMMA ScopeRaises ==
  ASSUME IInv, NEW r \in Runs, Scope(r), todo' = Undoing(r)
  PROVE  IInv'
<1>1. /\ Orderly(todo)' /\ (todo \in Seq(StepNames \X Runs))'
      /\ \A x \in StepNames, q \in Runs : Ahead(x, q)' <=> q = r /\ x \in {"shut", "unscope", "stop", "forget"}
  <2> DEFINE names == {"shut", "unscope", "stop", "forget"}
  <2>1. Lists(todo', names, r)
    BY AllLists
  <2> HIDE DEF names
  <2>2. /\ Orderly(todo)' /\ (todo \in Seq(StepNames \X Runs))'
        /\ \A x \in StepNames, q \in Runs : Ahead(x, q)' <=> q = r /\ x \in names
    BY <2>1, ListBegun
  <2> QED  BY <2>2 DEF names
<1>2. /\ \A x \in StepNames, q \in Runs : Ahead(x, q) => q = r /\ x \in {"scope"} \cup MayFollow("scope")
      /\ Ahead("scope", r)
  BY DoingAhead DEF Scope, StepNames, IInv
<1>3. TypeOK'
  BY <1>1 DEF IInv, TypeOK, Scope, sourceVars, captureVars
<1>4. \A g \in (gate \ left)' : Kept(g)'
  <2>1. \A q \in Runs : Keeper(q) => Keeper(q)'
    BY <1>1, <1>2 DEF Keeper, Scope, StepNames
  <2> QED  BY <2>1 DEF IInv, Kept, Scope, sourceVars
<1>5. LeasesCaptured'
  BY <1>1, <1>2 DEF IInv, LeasesCaptured, Scope, captureVars, StepNames
<1>6. \A q \in Runs : StepsFit(q)'
  BY <1>1 DEF StepsFit, StepNames
<1>7. \A q \in leases' : (bytes[q] <= MaxBytes \/ Ahead("forget", q))'
  BY <1>1, <1>2 DEF IInv, TypeOK, Scope, StepNames
<1> QED  BY <1>1, <1>3, <1>4, <1>5, <1>6, <1>7 DEF IInv

\* The gate opens for a lease, or for one that is to be recorded.
LEMMA OpenSucceeds ==
  ASSUME IInv, NEW r \in Runs, Open(r), Goes, gate' = gate \cup {GuestOf[r]}
  PROVE  IInv'
<1>1. "open" \in StepNames /\ Doing("open", r) /\ Goes
  BY DEF Open, StepNames
<1>2. /\ Orderly(todo)' /\ (todo \in Seq(StepNames \X Runs))'
      /\ \A x \in StepNames, q \in Runs :
           /\ Ahead(x, q)' <=> Ahead(x, q) /\ ~(x = "open" /\ q = r)
           /\ Ahead(x, q) => q = r /\ x \in {"open"} \cup MayFollow("open")
      /\ Ahead("open", r)
  BY <1>1, StepDone
<1>3. TypeOK'
  BY <1>2, GuestOfAssumption DEF IInv, TypeOK, Open, captureVars
<1>4. \A g \in (gate \ left)' : Kept(g)'
  <2>1. \A q \in Runs : Keeper(q) => Keeper(q)'
    BY <1>2 DEF Keeper, Open, StepNames
  <2>2. Keeper(r)'
    BY <1>2 DEF IInv, Keeper, StepsFit, Open, StepNames
  <2> QED  BY <2>1, <2>2 DEF IInv, Kept, Open
<1>5. LeasesCaptured'
  BY <1>2 DEF IInv, LeasesCaptured, Open, captureVars, StepNames
<1>6. \A q \in Runs : StepsFit(q)'
  BY <1>2 DEF IInv, StepsFit, Open, captureVars, StepNames, MayFollow
<1>7. \A q \in leases' : (bytes[q] <= MaxBytes \/ Ahead("forget", q))'
  BY <1>2 DEF IInv, TypeOK, Open, StepNames
<1> QED  BY <1>2, <1>3, <1>4, <1>5, <1>6, <1>7 DEF IInv

\* The authorization is undone.
LEMMA OpenRaises ==
  ASSUME IInv, NEW r \in Runs, Open(r), todo' = Undoing(r), UNCHANGED gate
  PROVE  IInv'
<1>1. /\ Orderly(todo)' /\ (todo \in Seq(StepNames \X Runs))'
      /\ \A x \in StepNames, q \in Runs : Ahead(x, q)' <=> q = r /\ x \in {"shut", "unscope", "stop", "forget"}
  <2> DEFINE names == {"shut", "unscope", "stop", "forget"}
  <2>1. Lists(todo', names, r)
    BY AllLists
  <2> HIDE DEF names
  <2>2. /\ Orderly(todo)' /\ (todo \in Seq(StepNames \X Runs))'
        /\ \A x \in StepNames, q \in Runs : Ahead(x, q)' <=> q = r /\ x \in names
    BY <2>1, ListBegun
  <2> QED  BY <2>2 DEF names
<1>2. /\ \A x \in StepNames, q \in Runs : Ahead(x, q) => q = r /\ x \in {"open"} \cup MayFollow("open")
      /\ Ahead("open", r)
  BY DoingAhead DEF Open, StepNames, IInv
<1>3. TypeOK'
  BY <1>1 DEF IInv, TypeOK, Open, captureVars
<1>4. \A g \in (gate \ left)' : Kept(g)'
  <2>1. \A q \in Runs : Keeper(q) => Keeper(q)'
    BY <1>1, <1>2 DEF Keeper, Open, StepNames
  <2> QED  BY <2>1 DEF IInv, Kept, Open
<1>5. LeasesCaptured'
  BY <1>1, <1>2 DEF IInv, LeasesCaptured, Open, captureVars, StepNames
<1>6. \A q \in Runs : StepsFit(q)'
  BY <1>1 DEF StepsFit, StepNames
<1>7. \A q \in leases' : (bytes[q] <= MaxBytes \/ Ahead("forget", q))'
  BY <1>1, <1>2 DEF IInv, TypeOK, Open, StepNames
<1> QED  BY <1>1, <1>3, <1>4, <1>5, <1>6, <1>7 DEF IInv

-----------------------------------------------------------------------------
(* Requests keep the invariant *)

\* A request begins with one list of steps.  It may take a lease's gate, or its capture,
\* only together with the lease, and what it opens it records or finds recorded.
LEMMA RequestKeeps ==
  ASSUME IInv, todo = <<>>, NEW r \in Runs, NEW names \in SUBSET StepNames,
         Lists(todo', names, r),
         "stop" \in names \/ "record" \in names => r \notin leases \/ "forget" \in names,
         "open" \in names => "record" \in names \/ (r \in leases /\ "forget" \notin names),
         "finalize" \in names => "stop" \in names,
         "forget" \in names => "stop" \in names /\ "shut" \in names,
         "record" \in names \/ "spawn" \in names => "await" \in names,
         "await" \in names => "open" \in names /\ "record" \in names,
         UNCHANGED <<mode, leases, kernelVars, captureVars>>,
         bytes' \in [Runs -> 0 .. MaxBytes + CounterBound],
         \A q \in leases : bytes'[q] <= MaxBytes \/ (q = r /\ "forget" \in names)
  PROVE  IInv'
<1>1. /\ Orderly(todo)' /\ (todo \in Seq(StepNames \X Runs))'
      /\ \A x \in StepNames, q \in Runs : Ahead(x, q)' <=> q = r /\ x \in names
  BY ListBegun
<1>2. \A x \in StepNames, q \in Runs : ~Ahead(x, q)
  BY NothingAhead
<1>3. TypeOK'
  BY <1>1 DEF IInv, TypeOK, kernelVars, sourceVars, captureVars
<1>4. \A g \in (gate \ left)' : Kept(g)'
  <2>1. \A q \in Runs : Keeper(q) => Keeper(q)'
    BY <1>1, <1>2 DEF Keeper, StepNames
  <2> QED  BY <2>1 DEF IInv, Kept, kernelVars, sourceVars
<1>5. LeasesCaptured'
  BY <1>1, <1>2 DEF IInv, LeasesCaptured, captureVars, StepNames
<1>6. \A q \in Runs : StepsFit(q)'
  BY <1>1, <1>2 DEF StepsFit, StepNames
<1>7. \A q \in leases' : (bytes[q] <= MaxBytes \/ Ahead("forget", q))'
  BY <1>1 DEF IInv, TypeOK, StepNames
<1> QED  BY <1>1, <1>3, <1>4, <1>5, <1>6, <1>7 DEF IInv

\* Without a request no lease is over the ceiling.
LEMMA IdleUnderCeiling ==
  ASSUME IInv, todo = <<>>
  PROVE  \A q \in leases : bytes[q] \in 0 .. MaxBytes
BY NothingAhead, MaxBytesAssumption DEF IInv, TypeOK, StepNames, CounterBound

\* A revocation keeps the invariant, whatever the bytes of its lease.
LEMMA RevokingKeeps ==
  ASSUME IInv, todo = <<>>, NEW r \in leases, todo' = Revoking(r),
         UNCHANGED <<mode, leases, kernelVars, captureVars>>,
         bytes' \in [Runs -> 0 .. MaxBytes + CounterBound],
         \A q \in leases : q # r => bytes'[q] = bytes[q]
  PROVE  IInv'
<1>1. r \in Runs
  BY DEF IInv, TypeOK
<1>2. Lists(todo', RevokingNames, r) /\ RevokingNames \subseteq StepNames
  BY <1>1, AllLists DEF RevokingNames, StepNames
<1>3. \A q \in leases : bytes'[q] <= MaxBytes \/ q = r
  BY IdleUnderCeiling
<1>4. /\ "stop" \in RevokingNames /\ "forget" \in RevokingNames /\ "shut" \in RevokingNames
      /\ "open" \notin RevokingNames /\ "record" \notin RevokingNames
      /\ "spawn" \notin RevokingNames /\ "await" \notin RevokingNames
  BY DEF RevokingNames
<1> QED  BY <1>1, <1>2, <1>3, <1>4, RequestKeeps

LEMMA AcquireKeeps ==
  ASSUME IInv, NEW r \in Runs, Acquire(r)
  PROVE  IInv'
<1>1. /\ todo = <<>> /\ UNCHANGED <<mode, leases, kernelVars, captureVars>>
      /\ bytes' \in [Runs -> 0 .. MaxBytes + CounterBound]
      /\ \A q \in leases : bytes'[q] <= MaxBytes
  BY IdleUnderCeiling DEF Acquire, Idle, IInv, TypeOK
<1>2. CASE r \in leases
  <2>1. Lists(todo', StepNames, r)
    BY <1>2, AllLists DEF Acquire
  <2> QED  BY <1>1, <2>1, RequestKeeps DEF StepNames
<1>3. CASE r \notin leases
  <2>1. todo' = Opening(r)
    <3> DEFINE list == Opening(r)
    <3>1. list \in Seq(StepNames \X Runs)
      BY AllLists DEF Lists, Orderly
    <3> HIDE DEF list
    <3>2. <<>> \o list = list
      BY <3>1, ConcatEmptySeq
    <3> QED  BY <1>3, <3>2 DEF Acquire, list
  <2>2. Lists(todo', OpeningNames, r) /\ OpeningNames \subseteq StepNames
    BY <2>1, AllLists DEF OpeningNames, StepNames
  <2>3. /\ "stop" \notin OpeningNames /\ "forget" \notin OpeningNames
        /\ "finalize" \notin OpeningNames /\ "await" \in OpeningNames
        /\ "open" \in OpeningNames /\ "record" \in OpeningNames
    BY DEF OpeningNames
  <2> QED  BY <1>1, <1>3, <2>2, <2>3, RequestKeeps
<1> QED  BY <1>2, <1>3

\* The bytes of one heartbeat fit, because the lease was under the ceiling before.
LEMMA HeartbeatKeeps ==
  ASSUME IInv, NEW r \in Runs, Heartbeat(r)
  PROVE  IInv'
<1> DEFINE total == bytes[r] + counter[GuestOf[r]]
<1>1. /\ r \in leases /\ todo = <<>> /\ UNCHANGED <<mode, leases, kernelVars, captureVars>>
      /\ bytes' = [bytes EXCEPT ![r] = total]
  BY DEF Heartbeat, Alive, Idle
<1>2. /\ total \in 0 .. MaxBytes + CounterBound
      /\ \A q \in leases : bytes[q] <= MaxBytes
  <2>1. /\ bytes[r] \in 0 .. MaxBytes
        /\ \A q \in leases : bytes[q] \in 0 .. MaxBytes
    BY <1>1, IdleUnderCeiling
  <2>2. counter[GuestOf[r]] \in 0 .. CounterBound
    BY GuestOfAssumption DEF IInv, TypeOK
  <2> QED  BY <2>1, <2>2, MaxBytesAssumption DEF CounterBound
<1>3. /\ bytes' \in [Runs -> 0 .. MaxBytes + CounterBound]
      /\ bytes'[r] = total
      /\ \A q \in leases : q # r => bytes'[q] = bytes[q]
  BY <1>1, <1>2 DEF IInv, TypeOK
<1>4. CASE OverCeiling(r, total)
  BY <1>1, <1>3, <1>4, RevokingKeeps DEF Heartbeat
<1>5. CASE ~OverCeiling(r, total)
  <2> DEFINE names == {"shut", "unscope", "scope", "open"}
  <2>1. Lists(todo', names, r) /\ names \subseteq StepNames
    BY <1>5, AllLists DEF Heartbeat, StepNames
  <2>2. \A q \in leases : bytes'[q] <= MaxBytes
    BY <1>2, <1>3, <1>5, MaxBytesAssumption DEF OverCeiling
  <2>3. /\ "stop" \notin names /\ "forget" \notin names /\ "record" \notin names
        /\ "finalize" \notin names /\ "spawn" \notin names /\ "await" \notin names
    OBVIOUS
  <2> HIDE DEF names
  <2> QED  BY <1>1, <1>3, <2>1, <2>2, <2>3, RequestKeeps
<1> QED  BY <1>4, <1>5

LEMMA RevokeKeeps ==
  ASSUME IInv, NEW r \in Runs, Revoke(r) \/ CloseLease(r)
  PROVE  IInv'
<1>1. /\ todo = <<>> /\ r \in leases /\ todo' = Revoking(r)
      /\ UNCHANGED <<mode, leases, kernelVars, captureVars>> /\ bytes' = bytes
  BY DEF Revoke, CloseLease, Idle
<1> QED  BY <1>1, RevokingKeeps DEF IInv, TypeOK

-----------------------------------------------------------------------------
(* The rest of the system keeps the invariant *)

\* What changes neither the steps ahead, the leases and their bytes nor the captures, and
\* opens no gate, disturbs nothing but types.
LEMMA QuietKeeps ==
  ASSUME IInv, UNCHANGED <<leases, bytes, todo, capture>>,
         (gate \ left)' \subseteq gate \ left, TypeOK'
  PROVE  IInv'
<1>1. /\ Orderly(todo)'
      /\ \A x \in StepNames, q \in Runs : Ahead(x, q)' <=> Ahead(x, q)
  BY SameList DEF IInv
<1>2. \A g \in (gate \ left)' : Kept(g)'
  <2>1. \A q \in Runs : Keeper(q) => Keeper(q)'
    BY <1>1 DEF Keeper, StepNames
  <2> QED  BY <2>1 DEF IInv, Kept
<1>3. LeasesCaptured' /\ \A q \in Runs : StepsFit(q)'
  BY <1>1 DEF IInv, LeasesCaptured, StepsFit, StepNames
<1>4. \A q \in leases' : (bytes[q] <= MaxBytes \/ Ahead("forget", q))'
  BY <1>1 DEF IInv, TypeOK, StepNames
<1> QED  BY <1>1, <1>2, <1>3, <1>4 DEF IInv

\* With the process go its leases, its captures and its request; the gates are left.
LEMMA DiesKeeps ==
  ASSUME IInv, Dies
  PROVE  IInv'
<1>1. /\ leases' = {} /\ todo' = <<>> /\ (gate \ left)' = {}
      /\ \A r \in Runs : capture'[r] = "none"
  BY DEF Dies
<1>2. /\ Orderly(todo)' /\ (todo \in Seq(StepNames \X Runs))'
      /\ \A x \in StepNames, q \in Runs : ~Ahead(x, q)'
  BY <1>1, EmptySeq DEF Orderly, Ahead
<1>3. TypeOK'
  BY <1>1, <1>2, MaxBytesAssumption DEF IInv, TypeOK, Dies, CounterBound
<1>4. LeasesCaptured' /\ \A q \in Runs : StepsFit(q)'
  BY <1>1, <1>2 DEF LeasesCaptured, StepsFit, StepNames
<1> QED  BY <1>1, <1>2, <1>3, <1>4 DEF IInv

\* A capture that dies is still the capture of its lease.
LEMMA CaptureDiesKeeps ==
  ASSUME IInv, NEW r \in Runs, CaptureDies(r)
  PROVE  IInv'
<1>1. /\ Orderly(todo)'
      /\ \A x \in StepNames, q \in Runs : Ahead(x, q)' <=> Ahead(x, q)
  BY SameList DEF IInv, CaptureDies, brokerVars
<1>2. TypeOK'
  BY DEF IInv, TypeOK, CaptureDies, brokerVars, kernelVars, sourceVars
<1>3. \A g \in (gate \ left)' : Kept(g)'
  <2>1. \A q \in Runs : Keeper(q) => Keeper(q)'
    BY <1>1 DEF Keeper, CaptureDies, brokerVars, StepNames
  <2> QED  BY <2>1 DEF IInv, Kept, CaptureDies, kernelVars, sourceVars
<1>4. LeasesCaptured' /\ \A q \in Runs : StepsFit(q)'
  BY <1>1 DEF IInv, TypeOK, LeasesCaptured, StepsFit, CaptureDies, brokerVars, StepNames
<1>5. \A q \in leases' : (bytes[q] <= MaxBytes \/ Ahead("forget", q))'
  BY <1>1 DEF IInv, TypeOK, CaptureDies, brokerVars, StepNames
<1> QED  BY <1>1, <1>2, <1>3, <1>4, <1>5 DEF IInv

LEMMA EnvironmentKeeps ==
  ASSUME IInv, EnvironmentNext
  PROVE  IInv'
<1>1. ASSUME NEW g \in Guests, GuestSends(g)
      PROVE  IInv'
  <2>1. TypeOK'
    BY <1>1, MaxBytesAssumption
    DEF IInv, TypeOK, GuestSends, brokerVars, CounterBound
  <2> QED  BY <1>1, <2>1, QuietKeeps DEF GuestSends, brokerVars
<1>2. ASSUME NEW g \in Guests, SourceExpires(g)
      PROVE  IInv'
  <2>1. TypeOK'
    BY <1>2, MaxBytesAssumption
    DEF IInv, TypeOK, SourceExpires, brokerVars, captureVars, CounterBound
  <2> QED  BY <1>2, <2>1, QuietKeeps DEF SourceExpires, brokerVars, captureVars
<1>3. ASSUME NEW g \in Guests, ScopeExpires(g)
      PROVE  IInv'
  <2>1. TypeOK'
    BY <1>3 DEF IInv, TypeOK, ScopeExpires, brokerVars, sourceVars, captureVars
  <2> QED  BY <1>3, <2>1, QuietKeeps DEF ScopeExpires, brokerVars, sourceVars, captureVars
<1> QED  BY <1>1, <1>2, <1>3, CaptureDiesKeeps DEF EnvironmentNext

-----------------------------------------------------------------------------
(* The theorems *)

LEMMA InitKeeps == Init => IInv
<1> SUFFICES ASSUME Init PROVE IInv
  OBVIOUS
<1>1. /\ Orderly(todo) /\ todo \in Seq(StepNames \X Runs)
      /\ \A x \in StepNames, q \in Runs : ~Ahead(x, q)
  BY EmptySeq DEF Init, Orderly, Ahead
<1>2. TypeOK
  BY <1>1, MaxBytesAssumption DEF Init, TypeOK, CounterBound
<1>3. LeasesCaptured /\ \A q \in Runs : StepsFit(q)
  BY <1>1 DEF Init, LeasesCaptured, StepsFit, StepNames
<1> QED  BY <1>1, <1>2, <1>3 DEF Init, IInv

LEMMA StepKeeps ==
  ASSUME IInv, NEW r \in Runs, Step(r)
  PROVE  IInv'
<1>1. CASE Finalize(r)
  BY <1>1, FinalizeSucceeds, FinalizeRaises DEF Finalize, Raises
<1>2. CASE Await(r)
  BY <1>2, AwaitSucceeds, AwaitRaises DEF Await, Raises
<1>3. CASE Scope(r)
  BY <1>3, ScopeSucceeds, ScopeRaises DEF Scope, Raises
<1>4. CASE Open(r)
  BY <1>4, OpenSucceeds, OpenRaises DEF Open, Raises
<1> QED  BY <1>1, <1>2, <1>3, <1>4, ForgetKeeps, ShutKeeps, UnscopeKeeps, StopKeeps,
            SpawnKeeps, RecordKeeps DEF Step

LEMMA NextKeeps == IInv /\ [Next]_vars => IInv'
<1> SUFFICES ASSUME IInv, [Next]_vars PROVE IInv'
  OBVIOUS
<1>1. CASE RequestNext
  <2>1. ASSUME Close \/ Closed
        PROVE  IInv'
    <3>1. TypeOK'
      BY <2>1 DEF IInv, TypeOK, Close, Closed, kernelVars, sourceVars, captureVars
    <3> QED  BY <2>1, <3>1, QuietKeeps DEF Close, Closed, kernelVars, sourceVars, captureVars
  <2> QED  BY <1>1, <2>1, AcquireKeeps, HeartbeatKeeps, RevokeKeeps DEF RequestNext
<1>2. CASE \E r \in Runs : Step(r)
  BY <1>2, StepKeeps
<1>3. CASE Crash \/ Exit
  BY <1>3, DiesKeeps DEF Crash, Exit
<1>4. CASE Restart
  <2>1. TypeOK'
    BY <1>4 DEF IInv, TypeOK, Restart, kernelVars, sourceVars, captureVars
  <2> QED  BY <1>4, <2>1, QuietKeeps DEF Restart, kernelVars, sourceVars, captureVars
<1>5. CASE EnvironmentNext
  BY <1>5, EnvironmentKeeps
<1>6. CASE UNCHANGED vars
  <2>1. TypeOK'
    BY <1>6 DEF IInv, TypeOK, vars, brokerVars, kernelVars, sourceVars, captureVars
  <2> QED  BY <1>6, <2>1, QuietKeeps DEF vars, brokerVars, kernelVars, sourceVars, captureVars
<1> QED  BY <1>1, <1>2, <1>3, <1>4, <1>5, <1>6 DEF Next

\* The invariant holds in every state of every run of the broker.
LEMMA InvariantHolds == Spec => []IInv
BY InitKeeps, NextKeeps, PTL DEF Spec

\* Every variable holds values of its type; in particular a lease's bytes stay within one
\* heartbeat of the ceiling.
THEOREM TypeCorrect == Spec => []TypeOK
<1>1. IInv => TypeOK
  BY DEF IInv
<1> QED  BY <1>1, InvariantHolds, PTL

\* Whichever step of a request fails, whoever dies and however runs share guests: no open
\* gate without a keeper, no lease without its capture, no capture without its lease.
THEOREM NothingIsUnattended == Spec => []NothingUnattended
<1>1. IInv => NothingUnattended
  <2> SUFFICES ASSUME IInv PROVE GatesKept /\ LeasesCaptured
    BY DEF NothingUnattended
  <2> QED  BY DEF IInv, GatesKept, Kept, Keeper
<1> QED  BY <1>1, InvariantHolds, PTL

\* Between requests no lease is over the ceiling.
THEOREM CeilingIsEnforced == Spec => []CeilingEnforced
<1>1. IInv => CeilingEnforced
  BY IdleUnderCeiling DEF CeilingEnforced
<1> QED  BY <1>1, InvariantHolds, PTL

=============================================================================

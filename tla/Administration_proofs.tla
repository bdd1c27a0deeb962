------------------------- MODULE Administration_proofs -------------------------
(***************************************************************************)
(* Proofs about Administration, for any users, profiles and sessions.  The *)
(* two halves rest on different locks: changes of users on the one lock    *)
(* that serializes them, so that what a request decided is still true when *)
(* it writes, and changes of profiles on the locks of rows, which no two   *)
(* transactions share.                                                     *)
(***************************************************************************)
EXTENDS Administration, FiniteSetTheorems, TLAPS

ProfileKinds == {"update", "create", "retire"}

\* What the session of a request remembers.
UserTx ==
  [kind : {"user"}, actor : Users, target : Users, change : Change,
   at : {"lock", "decide", "write"}]

ProfileTx ==
  [kind : ProfileKinds, profile : Profiles, flag : BOOLEAN, locks : SUBSET Profiles,
   todo : SUBSET Profiles, at : {"begin", "reset"}]

TxOK == tx \in [Workers -> {Idle} \cup UserTx \cup ProfileTx]

-----------------------------------------------------------------------------
(* The inductive invariant *)

UserRows == users \subseteq Users /\ enabled \subseteq users /\ admins \subseteq users

\* The request that is past the lock of the user changes.
Changing(w) == tx[w].kind = "user" /\ tx[w].at # "lock"

Serialized == \A v, w \in Workers : Changing(v) /\ Changing(w) => v = w

\* What was decided holds until it is written.
Decided ==
  \A w \in Workers : Changing(w) /\ tx[w].at = "write" =>
    Allowed(tx[w].actor, tx[w].target, tx[w].change)

UserInv == UserRows /\ Serialized /\ Decided /\ AdministratorRemains

ProfileRows == state \in [Profiles -> ProfileState] /\ default \subseteq Existing

OnProfile(w) == tx[w].kind \in ProfileKinds

\* A row is locked by one transaction at a time.
LocksDisjoint ==
  \A v, w \in Workers :
    OnProfile(v) /\ OnProfile(w) /\ v # w => tx[v].locks \cap tx[w].locks = {}

\* A request that waits at its first row holds none; later it holds its profile, which is
\* active as it was when read and, to be retired, still not the default.
Holding(w) ==
  /\ tx[w].at = "begin" => tx[w].locks = {} /\ tx[w].todo = {}
  /\ tx[w].at = "reset" /\ tx[w].kind \in {"update", "retire"} =>
       tx[w].profile \in tx[w].locks /\ state[tx[w].profile] = "active"
  /\ tx[w].at = "reset" /\ tx[w].kind = "retire" => tx[w].profile \notin default

ProfileInv ==
  /\ ProfileRows
  /\ LocksDisjoint
  /\ \A w \in Workers : OnProfile(w) => Holding(w)

IInv == TxOK /\ UserInv /\ ProfileInv

-----------------------------------------------------------------------------
(* What one step leaves alone *)

\* A request is of one of the two kinds, or none.
LEMMA Kinds ==
  ASSUME TxOK, NEW w \in Workers
  PROVE  /\ tx[w].kind = "user" => tx[w] \in UserTx
         /\ OnProfile(w) => tx[w] \in ProfileTx
         /\ tx[w].kind \in {"idle", "user"} \cup ProfileKinds
         /\ tx[w].kind = "user" => ~OnProfile(w)
         /\ OnProfile(w) => Busy(w)
BY DEF TxOK, Idle, UserTx, ProfileTx, OnProfile, ProfileKinds, Busy

\* A step of one session leaves the requests of the others as they are.
Only(w) == \A v \in Workers : v # w => tx'[v] = tx[v]

LEMMA TxSet ==
  ASSUME TxOK, NEW w \in Workers, NEW t \in {Idle} \cup UserTx \cup ProfileTx,
         tx' = [tx EXCEPT ![w] = t]
  PROVE  TxOK' /\ Only(w) /\ tx'[w] = t
BY DEF TxOK, Only

\* Profiles are no concern of a session that handles no change of profiles.
LEMMA ProfilesKept ==
  ASSUME IInv, NEW w \in Workers, Only(w), UNCHANGED <<state, default>>,
         tx'[w].kind \notin ProfileKinds
  PROVE  ProfileInv'
<1>1. \A v \in Workers : OnProfile(v)' => v # w /\ OnProfile(v) /\ tx'[v] = tx[v]
  BY DEF OnProfile, Only
<1>2. ProfileRows' /\ LocksDisjoint'
  BY <1>1 DEF IInv, ProfileInv, ProfileRows, LocksDisjoint, Existing
<1>3. \A v \in Workers : OnProfile(v)' => Holding(v)'
  BY <1>1 DEF IInv, ProfileInv, Holding
<1> QED  BY <1>2, <1>3 DEF ProfileInv

\* Users are no concern of a session that does not change them.
LEMMA UsersKept ==
  ASSUME IInv, NEW w \in Workers, Only(w), UNCHANGED <<users, enabled, admins>>,
         ~Changing(w)'
  PROVE  UserInv'
<1>1. \A v \in Workers : Changing(v)' => v # w /\ Changing(v) /\ tx'[v] = tx[v]
  BY DEF Changing, Only
<1>2. UserRows' /\ Serialized' /\ AdministratorRemains'
  BY <1>1 DEF IInv, UserInv, UserRows, Serialized, AdministratorRemains, Administrators
<1>3. Decided'
  BY <1>1 DEF IInv, UserInv, Decided, Allowed, EnsureAnotherEnabledAdministrator, Administrators
<1> QED  BY <1>2, <1>3 DEF UserInv

\* A request that ends without a write disturbs nothing.
LEMMA EndsKeeps ==
  ASSUME IInv, NEW w \in Workers, Ends(w), UNCHANGED rows
  PROVE  IInv'
<1>1. TxOK' /\ Only(w) /\ tx'[w] = Idle
  BY TxSet DEF IInv, Ends
<1>2. UserInv'
  BY <1>1, UsersKept DEF Changing, Idle, rows
<1>3. ProfileInv'
  BY <1>1, ProfilesKept DEF Idle, ProfileKinds, rows
<1> QED  BY <1>1, <1>2, <1>3 DEF IInv

-----------------------------------------------------------------------------
(* Changes of users *)

LEMMA ArriveUserKeeps ==
  ASSUME IInv, NEW w \in Workers, NEW actor \in Users, NEW target \in Users,
         NEW change \in Change, ArriveUser(w, actor, target, change)
  PROVE  IInv'
<1> DEFINE t == [kind |-> "user", actor |-> actor, target |-> target,
                 change |-> change, at |-> "lock"]
<1>1. t \in UserTx /\ t.kind = "user" /\ t.at = "lock"
  BY DEF UserTx
<1>2. tx' = [tx EXCEPT ![w] = t] /\ UNCHANGED rows
  BY DEF ArriveUser
<1> HIDE DEF t
<1>3. TxOK' /\ Only(w) /\ tx'[w] = t
  BY <1>1, <1>2, TxSet DEF IInv
<1>4. UserInv'
  BY <1>1, <1>2, <1>3, UsersKept DEF Changing, rows
<1>5. ProfileInv'
  BY <1>1, <1>2, <1>3, ProfilesKept DEF ProfileKinds, rows
<1> QED  BY <1>3, <1>4, <1>5 DEF IInv

\* The lock is granted to one request at a time.
LEMMA LockUserChangesKeeps ==
  ASSUME IInv, NEW w \in Workers, LockUserChanges(w)
  PROVE  IInv'
<1> DEFINE t == [tx[w] EXCEPT !.at = "decide"]
<1>1. t \in UserTx /\ t.kind = "user" /\ t.at = "decide"
  BY Kinds DEF IInv, LockUserChanges, UserTx
<1>2. tx' = [tx EXCEPT ![w] = t] /\ UNCHANGED rows
  BY DEF LockUserChanges, IInv, TxOK
<1> HIDE DEF t
<1>3. TxOK' /\ Only(w) /\ tx'[w] = t
  BY <1>1, <1>2, TxSet DEF IInv
<1>4. \A v \in Workers : v # w => ~Changing(v)
  BY DEF LockUserChanges, ChangesLocked, Others, Busy, Changing
<1>5. \A v \in Workers : Changing(v)' => v = w
  BY <1>3, <1>4 DEF Changing, Only
<1>6. UserInv'
  BY <1>1, <1>2, <1>3, <1>5
  DEF IInv, UserInv, UserRows, Serialized, Decided, AdministratorRemains, Administrators, rows
<1>7. ProfileInv'
  BY <1>1, <1>2, <1>3, ProfilesKept DEF ProfileKinds, rows
<1> QED  BY <1>3, <1>6, <1>7 DEF IInv

LEMMA DecideUserKeeps ==
  ASSUME IInv, NEW w \in Workers, DecideUser(w)
  PROVE  IInv'
<1>t. PICK t : t = [tx[w] EXCEPT !.at = "write"]
  OBVIOUS
<1>1. /\ t \in UserTx /\ t.kind = "user" /\ t.at = "write"
      /\ t.actor = tx[w].actor /\ t.target = tx[w].target /\ t.change = tx[w].change
  BY <1>t, Kinds DEF IInv, DecideUser, UserTx
<1>2. /\ tx' = [tx EXCEPT ![w] = t] /\ UNCHANGED rows
      /\ Allowed(t.actor, t.target, t.change)
  BY <1>t, <1>1 DEF DecideUser, IInv, TxOK
<1>3. TxOK' /\ Only(w) /\ tx'[w] = t
  BY <1>1, <1>2, TxSet DEF IInv
<1>4. \A v \in Workers : v # w => ~Changing(v)
  BY DEF DecideUser, IInv, UserInv, Serialized, Changing
<1>5. \A v \in Workers : Changing(v)' => v = w
  BY <1>3, <1>4 DEF Changing, Only
<1>6. UserRows' /\ Serialized' /\ AdministratorRemains'
  BY <1>2, <1>5
  DEF IInv, UserInv, UserRows, Serialized, AdministratorRemains, Administrators, rows
<1>7. Decided'
  <2>1. Allowed(t.actor, t.target, t.change)'
    BY <1>2 DEF Allowed, EnsureAnotherEnabledAdministrator, Administrators, rows
  <2> QED  BY <1>3, <1>5, <2>1 DEF Decided
<1>8. ProfileInv'
  BY <1>1, <1>2, <1>3, ProfilesKept DEF ProfileKinds, rows
<1> QED  BY <1>3, <1>6, <1>7, <1>8 DEF IInv, UserInv

\* What was decided under the lock is still true: another enabled administrator is left.
LEMMA CommitUserKeeps ==
  ASSUME IInv, NEW w \in Workers, CommitUser(w)
  PROVE  IInv'
<1> DEFINE u == tx[w].target
           change == tx[w].change
           creates == change \in {"create staff", "create admin"}
           deletes == change = "delete"
<1>1. /\ tx[w] \in UserTx /\ Changing(w) /\ tx[w].at = "write"
      /\ u \in Users /\ change \in Change
      /\ Allowed(tx[w].actor, u, change)
  BY Kinds DEF CommitUser, IInv, UserInv, Decided, Changing, UserTx
<1>2. TxOK' /\ Only(w) /\ tx'[w] = Idle /\ UNCHANGED <<state, default>>
  BY TxSet DEF IInv, Ends, CommitUser
<1>3. \A v \in Workers : ~Changing(v)'
  BY <1>1, <1>2 DEF IInv, UserInv, Serialized, Changing, Only, Idle
<1>4. /\ users' = With(Without(users, u, deletes), u, creates)
      /\ enabled' = With(Without(enabled, u, deletes \/ change = "disable"), u,
                         creates \/ change = "enable")
      /\ admins' = With(Without(admins, u, deletes \/ change = "remove"), u,
                        change \in {"create admin", "grant"})
  BY DEF CommitUser
<1>5. /\ creates <=> u \notin users
      /\ change \in {"remove", "disable", "delete"} => EnsureAnotherEnabledAdministrator(u)
  BY <1>1 DEF Allowed
<1> HIDE DEF u, change
<1>6. UserRows'
  BY <1>1, <1>4, <1>5 DEF IInv, UserInv, UserRows, With, Without, Change
<1>7. AdministratorRemains'
  <2>1. CASE change \in {"remove", "disable", "delete"}
    <3>1. PICK a \in Administrators : a # u
      BY <1>5, <2>1
      DEF EnsureAnotherEnabledAdministrator, IInv, UserInv, AdministratorRemains
    <3>2. a \in enabled' /\ a \in admins'
      BY <1>4, <3>1 DEF With, Without, Administrators
    <3> QED  BY <3>2 DEF AdministratorRemains, Administrators
  <2>2. CASE change \notin {"remove", "disable", "delete"}
    <3>1. enabled \subseteq enabled' /\ admins \subseteq admins'
      BY <1>4, <2>2 DEF With, Without
    <3> QED  BY <3>1 DEF IInv, UserInv, AdministratorRemains, Administrators
  <2> QED  BY <2>1, <2>2
<1>8. UserInv'
  BY <1>3, <1>6, <1>7 DEF UserInv, Serialized, Decided
<1>9. ProfileInv'
  BY <1>2, ProfilesKept DEF Idle, ProfileKinds
<1> QED  BY <1>2, <1>8, <1>9 DEF IInv

-----------------------------------------------------------------------------
(* Changes of profiles *)

\* A request that changes profiles goes on: its locks are its own, and it holds what it must.
LEMMA ProfileStepKeeps ==
  ASSUME IInv, NEW w \in Workers, NEW t \in ProfileTx, tx' = [tx EXCEPT ![w] = t],
         UNCHANGED rows,
         \A v \in Workers : v # w /\ OnProfile(v) => t.locks \cap tx[v].locks = {},
         t.at = "begin" => t.locks = {} /\ t.todo = {},
         t.at = "reset" /\ t.kind \in {"update", "retire"} =>
           t.profile \in t.locks /\ state[t.profile] = "active",
         t.at = "reset" /\ t.kind = "retire" => t.profile \notin default
  PROVE  IInv'
<1>1. TxOK' /\ Only(w) /\ tx'[w] = t
  BY TxSet DEF IInv
<1>2. UserInv'
  BY <1>1, UsersKept DEF Changing, rows, ProfileTx, ProfileKinds
<1>3. \A v \in Workers : v # w => tx'[v] = tx[v] /\ (OnProfile(v)' <=> OnProfile(v))
  BY <1>1 DEF Only, OnProfile
<1>4. ProfileRows'
  BY DEF IInv, ProfileInv, ProfileRows, Existing, rows
<1>5. LocksDisjoint'
  BY <1>1, <1>3 DEF IInv, ProfileInv, LocksDisjoint
<1>6. \A v \in Workers : OnProfile(v)' => Holding(v)'
  BY <1>1, <1>3 DEF IInv, ProfileInv, Holding, rows
<1> QED  BY <1>1, <1>2, <1>4, <1>5, <1>6 DEF IInv, ProfileInv

\* What another request has locked is not free.
LEMMA FreeIsUnlocked ==
  ASSUME TxOK, NEW w \in Workers, NEW p, RowFree(w, p)
  PROVE  \A v \in Workers : v # w /\ OnProfile(v) => p \notin tx[v].locks
BY Kinds DEF RowFree, Others, OnProfile, ProfileKinds

LEMMA ArriveProfileKeeps ==
  ASSUME IInv, NEW w \in Workers, NEW kind \in ProfileKinds, NEW p \in Profiles,
         NEW flag \in BOOLEAN, ArriveProfile(w, kind, p, flag)
  PROVE  IInv'
<1>1. PICK t : t = [kind |-> kind, profile |-> p, flag |-> flag,
                    locks |-> {}, todo |-> {}, at |-> "begin"]
  OBVIOUS
<1>2. t \in ProfileTx /\ t.at = "begin" /\ t.locks = {} /\ t.todo = {}
  BY <1>1 DEF ProfileTx
<1>3. tx' = [tx EXCEPT ![w] = t] /\ UNCHANGED rows
  BY <1>1 DEF ArriveProfile
<1> QED  BY <1>2, <1>3, ProfileStepKeeps

LEMMA UpdateProfileKeeps ==
  ASSUME IInv, NEW w \in Workers, UpdateProfile(w)
  PROVE  IInv'
<1> DEFINE p == tx[w].profile
<1>1. tx[w] \in ProfileTx /\ p \in Profiles
  BY Kinds DEF UpdateProfile, OnProfile, ProfileKinds, IInv, ProfileTx
<1>2. CASE state[p] = "active"
  <2>0. PICK todo \in SUBSET Profiles : todo = IF tx[w].flag THEN Existing \ {p} ELSE {}
    BY DEF Existing
  <2>t. PICK t : t = [tx[w] EXCEPT !.at = "reset", !.locks = {p}, !.todo = todo]
    OBVIOUS
  <2>1. tx' = [tx EXCEPT ![w] = t] /\ UNCHANGED rows
    BY <1>1, <1>2, <2>0, <2>t DEF UpdateProfile, IInv, TxOK
  <2>2. t \in ProfileTx /\ t.at = "reset" /\ t.kind = "update" /\ t.profile = p /\ t.locks = {p}
    BY <1>1, <2>t DEF ProfileTx, UpdateProfile
  <2>3. \A v \in Workers : v # w /\ OnProfile(v) => p \notin tx[v].locks
    BY FreeIsUnlocked DEF IInv, UpdateProfile
  <2> QED  BY <1>2, <2>1, <2>2, <2>3, ProfileStepKeeps
<1>3. CASE state[p] # "active"
  BY <1>3, EndsKeeps DEF UpdateProfile
<1> QED  BY <1>2, <1>3

LEMMA CreateProfileKeeps ==
  ASSUME IInv, NEW w \in Workers, CreateProfile(w)
  PROVE  IInv'
<1>1. tx[w] \in ProfileTx /\ tx[w].locks = {}
  BY Kinds DEF CreateProfile, OnProfile, ProfileKinds, IInv, ProfileInv, Holding
<1>0. PICK todo \in SUBSET Profiles : todo = IF tx[w].flag THEN Existing ELSE {}
  BY DEF Existing
<1>t. PICK t : t = [tx[w] EXCEPT !.at = "reset", !.todo = todo]
  OBVIOUS
<1>2. tx' = [tx EXCEPT ![w] = t] /\ UNCHANGED rows
  BY <1>0, <1>1, <1>t DEF CreateProfile, IInv, TxOK
<1>3. t \in ProfileTx /\ t.at = "reset" /\ t.kind = "create" /\ t.locks = {}
  BY <1>1, <1>t DEF ProfileTx, CreateProfile
<1> QED  BY <1>2, <1>3, ProfileStepKeeps

LEMMA RetireProfileKeeps ==
  ASSUME IInv, NEW w \in Workers, RetireProfile(w)
  PROVE  IInv'
<1> DEFINE p == tx[w].profile
<1>1. tx[w] \in ProfileTx /\ p \in Profiles
  BY Kinds DEF RetireProfile, OnProfile, ProfileKinds, IInv, ProfileTx
<1>2. CASE state[p] = "active" /\ p \notin default
  <2>t. PICK t : t = [tx[w] EXCEPT !.at = "reset", !.locks = {p}]
    OBVIOUS
  <2>1. tx' = [tx EXCEPT ![w] = t] /\ UNCHANGED rows
    BY <1>1, <1>2, <2>t DEF RetireProfile, IInv, TxOK
  <2>2. t \in ProfileTx /\ t.at = "reset" /\ t.kind = "retire" /\ t.profile = p /\ t.locks = {p}
    BY <1>1, <2>t DEF ProfileTx, RetireProfile
  <2>3. \A v \in Workers : v # w /\ OnProfile(v) => p \notin tx[v].locks
    BY FreeIsUnlocked DEF IInv, RetireProfile
  <2> QED  BY <1>2, <2>1, <2>2, <2>3, ProfileStepKeeps
<1>3. CASE ~(state[p] = "active" /\ p \notin default)
  BY <1>3, EndsKeeps DEF RetireProfile
<1> QED  BY <1>2, <1>3

LEMMA ResetOtherKeeps ==
  ASSUME IInv, NEW w \in Workers, NEW p \in Profiles, ResetOther(w, p)
  PROVE  IInv'
<1>1. tx[w] \in ProfileTx /\ OnProfile(w) /\ Holding(w)
  BY Kinds DEF ResetOther, OnProfile, ProfileKinds, IInv, ProfileInv
<1>t. PICK t : t = [tx[w] EXCEPT !.todo = @ \ {p}, !.locks = @ \cup {p}]
  OBVIOUS
<1>2. /\ t \in ProfileTx /\ t.at = "reset" /\ t.kind = tx[w].kind /\ t.profile = tx[w].profile
      /\ t.locks = tx[w].locks \cup {p} /\ t.kind \in {"update", "create"}
  BY <1>1, <1>t DEF ProfileTx, ResetOther
<1>3. tx' = [tx EXCEPT ![w] = t] /\ UNCHANGED rows
  BY <1>t DEF ResetOther, IInv, TxOK
<1>4. \A v \in Workers : v # w /\ OnProfile(v) => p \notin tx[v].locks
  BY FreeIsUnlocked DEF IInv, ResetOther
<1>5. \A v \in Workers : v # w /\ OnProfile(v) => t.locks \cap tx[v].locks = {}
  BY <1>1, <1>2, <1>4 DEF IInv, ProfileInv, LocksDisjoint
<1>6. /\ t.kind = "update" => t.profile \in t.locks /\ state[t.profile] = "active"
      /\ t.kind # "retire" /\ t.at # "begin"
  BY <1>1, <1>2 DEF Holding, ResetOther
<1> QED  BY <1>2, <1>3, <1>5, <1>6, ProfileStepKeeps

\* The rows that a commit changes are those it holds, or a new one: what the other requests
\* hold is as they read it.
LEMMA CommitProfileKeeps ==
  ASSUME IInv, NEW w \in Workers, CommitProfile(w)
  PROVE  IInv'
<1> DEFINE t == tx[w]
           p == tx[w].profile
<1>1. /\ t \in ProfileTx /\ p \in Profiles /\ OnProfile(w) /\ Holding(w) /\ t.at = "reset"
  BY Kinds DEF CommitProfile, OnProfile, ProfileKinds, IInv, ProfileInv, ProfileTx
<1>2. TxOK' /\ Only(w) /\ tx'[w] = Idle /\ UNCHANGED <<users, enabled, admins>>
  BY TxSet DEF IInv, Ends, CommitProfile
<1>3. UserInv'
  BY <1>2, UsersKept DEF Changing, Idle
<1>4. \A v \in Workers : OnProfile(v)' => v # w /\ OnProfile(v) /\ tx'[v] = tx[v]
  BY <1>2 DEF OnProfile, Only, Idle, ProfileKinds
<1>5. CASE t.kind = "create"
  <2>1. /\ state[p] = "absent" /\ state' = [state EXCEPT ![p] = "active"]
        /\ default' \subseteq default \cup {p}
    BY <1>5 DEF CommitProfile
  <2>2. ProfileRows'
    BY <1>1, <2>1 DEF IInv, ProfileInv, ProfileRows, ProfileState, Existing
  <2>3. \A v \in Workers : OnProfile(v)' => Holding(v)'
    BY <1>1, <1>4, <2>1 DEF IInv, ProfileInv, ProfileRows, Holding
  <2> QED  BY <1>2, <1>3, <1>4, <2>2, <2>3 DEF IInv, ProfileInv, LocksDisjoint
<1>6. CASE t.kind = "retire"
  <2>1. state' = [state EXCEPT ![p] = "retired"] /\ default' = default
    BY <1>6 DEF CommitProfile
  <2>2. p \in t.locks
    BY <1>1, <1>6 DEF Holding
  <2>3. ProfileRows'
    BY <1>1, <2>1 DEF IInv, ProfileInv, ProfileRows, ProfileState, Existing
  <2>4. \A v \in Workers : v # w /\ OnProfile(v) => p \notin tx[v].locks
    BY <1>1, <2>2 DEF IInv, ProfileInv, LocksDisjoint
  <2>5. \A v \in Workers : OnProfile(v)' => Holding(v)'
    BY <1>1, <1>4, <2>1, <2>4 DEF IInv, ProfileInv, ProfileRows, Holding
  <2> QED  BY <1>2, <1>3, <1>4, <2>3, <2>5 DEF IInv, ProfileInv, LocksDisjoint
<1>7. CASE t.kind = "update"
  <2>1. state' = state /\ default' \subseteq default \cup {p}
    BY <1>7 DEF CommitProfile
  <2>2. p \in t.locks /\ state[p] = "active"
    BY <1>1, <1>7 DEF Holding
  <2>3. ProfileRows'
    BY <1>1, <2>1, <2>2 DEF IInv, ProfileInv, ProfileRows, Existing
  <2>4. \A v \in Workers : v # w /\ OnProfile(v) => p \notin tx[v].locks
    BY <1>1, <2>2 DEF IInv, ProfileInv, LocksDisjoint
  <2>5. \A v \in Workers : OnProfile(v)' => Holding(v)'
    BY <1>4, <2>1, <2>4 DEF IInv, ProfileInv, Holding, OnProfile, ProfileKinds
  <2> QED  BY <1>2, <1>3, <1>4, <2>3, <2>5 DEF IInv, ProfileInv, LocksDisjoint
<1> QED  BY <1>5, <1>6, <1>7 DEF CommitProfile

-----------------------------------------------------------------------------
(* The theorems *)

LEMMA InitKeeps == Init => IInv
<1> SUFFICES ASSUME Init PROVE IInv
  OBVIOUS
<1>1. TxOK /\ \A w \in Workers : ~Changing(w) /\ ~OnProfile(w)
  BY DEF Init, TxOK, Idle, Changing, OnProfile, ProfileKinds
<1>2. UserInv
  BY <1>1 DEF Init, UserInv, UserRows, Serialized, Decided, AdministratorRemains, Administrators
<1>3. ProfileInv
  BY <1>1 DEF Init, ProfileInv, ProfileRows, ProfileState, Existing, LocksDisjoint
<1> QED  BY <1>1, <1>2, <1>3 DEF IInv

LEMMA NextKeeps == IInv /\ [Next]_vars => IInv'
<1> SUFFICES ASSUME IInv, [Next]_vars PROVE IInv'
  OBVIOUS
<1>1. ASSUME NEW w \in Workers, UserStep(w)
      PROVE  IInv'
  BY <1>1, ArriveUserKeeps, LockUserChangesKeeps, DecideUserKeeps, CommitUserKeeps DEF UserStep
<1>2. ASSUME NEW w \in Workers, ProfileStep(w)
      PROVE  IInv'
  <2>1. CASE \E p \in Profiles, kind \in {"update", "create"}, flag \in BOOLEAN :
               ArriveProfile(w, kind, p, flag)
    BY <2>1, ArriveProfileKeeps DEF ProfileKinds
  <2>2. CASE \E p \in Profiles : ArriveProfile(w, "retire", p, FALSE)
    BY <2>2, ArriveProfileKeeps DEF ProfileKinds
  <2> QED  BY <1>2, <2>1, <2>2, UpdateProfileKeeps, CreateProfileKeeps, RetireProfileKeeps,
              ResetOtherKeeps, CommitProfileKeeps DEF ProfileStep
<1>3. ASSUME NEW w \in Workers, Abort(w)
      PROVE  IInv'
  BY <1>3, EndsKeeps DEF Abort
<1>4. CASE UNCHANGED vars
  BY <1>4 DEF IInv, TxOK, UserInv, UserRows, Serialized, Changing, Decided, Allowed,
              EnsureAnotherEnabledAdministrator, Administrators, AdministratorRemains,
              ProfileInv, ProfileRows, Existing, LocksDisjoint, OnProfile, Holding, vars, rows
<1> QED  BY <1>1, <1>2, <1>3, <1>4 DEF Next

\* The invariant holds in every state of every run.
LEMMA InvariantHolds == Spec => []IInv
BY InitKeeps, NextKeeps, PTL DEF Spec

\* Rows keep their types, and at most one request at a time is past the lock.
THEOREM TypeCorrect == Spec => []TypeOK
<1>1. IInv => TypeOK
  <2> SUFFICES ASSUME IInv
               PROVE  Cardinality({w \in Workers : Changing(w)}) <= 1
    BY DEF IInv, UserInv, UserRows, ProfileInv, ProfileRows, TypeOK, Changing
  <2> DEFINE S == {w \in Workers : Changing(w)}
  <2>1. CASE S = {}
    BY <2>1, FS_EmptySet
  <2>2. CASE S # {}
    <3>1. PICK w : S = {w}
      BY <2>2 DEF IInv, UserInv, Serialized
    <3> QED  BY <3>1, FS_Singleton
  <2> QED  BY <2>1, <2>2
<1> QED  BY <1>1, InvariantHolds, PTL

\* However many administrators change users at once, an enabled administrator remains.
THEOREM AdministratorAlwaysRemains == Spec => []AdministratorRemains
<1>1. IInv => AdministratorRemains
  BY DEF IInv, UserInv
<1> QED  BY <1>1, InvariantHolds, PTL

\* An active default disappears only with the flag that an administrator clears.
THEOREM DefaultStays == Spec => DefaultRemains
<1> DEFINE Cleared == \E w \in Workers :
             Busy(w) /\ ~Busy(w)' /\ tx[w].kind = "update" /\ ~tx[w].flag
<1>1. ASSUME IInv, [Next]_vars, DefaultUsable, ~DefaultUsable'
      PROVE  Cleared
  <2>1. PICK d \in default : state[d] = "active"
    BY <1>1 DEF DefaultUsable
  <2>2. ~UNCHANGED <<state, default>>
    BY <1>1, <2>1 DEF DefaultUsable
  <2>3. PICK w \in Workers : CommitProfile(w)
    BY <1>1, <2>2
    DEF Next, UserStep, ProfileStep, Abort, ArriveUser, LockUserChanges, DecideUser, CommitUser,
        ArriveProfile, UpdateProfile, CreateProfile, RetireProfile, ResetOther, vars, rows
  <2> DEFINE p == tx[w].profile
  <2>4. /\ tx[w] \in ProfileTx /\ p \in Profiles /\ Holding(w) /\ tx[w].at = "reset"
        /\ tx[w].flag \in BOOLEAN /\ Busy(w)
    BY <1>1, <2>3, Kinds
    DEF CommitProfile, OnProfile, ProfileKinds, IInv, ProfileInv, ProfileTx
  <2>5. ~Busy(w)'
    BY <1>1, <2>3 DEF CommitProfile, Ends, Busy, Idle, IInv, TxOK
  <2>6. d \in Profiles /\ state \in [Profiles -> ProfileState]
    BY <1>1 DEF IInv, ProfileInv, ProfileRows, Existing
  <2>7. tx[w].kind # "create"
    <3> SUFFICES ASSUME tx[w].kind = "create" PROVE DefaultUsable'
      BY <1>1
    <3>1. state[p] = "absent" /\ state' = [state EXCEPT ![p] = "active"]
      BY <2>3 DEF CommitProfile
    <3>2. CASE tx[w].flag
      BY <2>3, <2>4, <2>6, <3>1, <3>2 DEF CommitProfile, DefaultUsable
    <3>3. CASE ~tx[w].flag
      <4>1. d \in default' /\ d # p
        BY <2>1, <2>3, <3>1, <3>3 DEF CommitProfile
      <4> QED  BY <2>1, <2>6, <3>1, <4>1 DEF DefaultUsable
    <3> QED  BY <3>2, <3>3
  <2>8. tx[w].kind # "retire"
    <3> SUFFICES ASSUME tx[w].kind = "retire" PROVE DefaultUsable'
      BY <1>1
    <3>1. /\ state' = [state EXCEPT ![p] = "retired"] /\ default' = default
          /\ p \notin default
      BY <2>3, <2>4 DEF CommitProfile, Holding
    <3> QED  BY <2>1, <2>6, <3>1 DEF DefaultUsable
  <2>9. ~(tx[w].kind = "update" /\ tx[w].flag)
    <3> SUFFICES ASSUME tx[w].kind = "update", tx[w].flag PROVE DefaultUsable'
      BY <1>1
    <3>1. state[p] = "active" /\ state' = state /\ p \in default'
      BY <2>3, <2>4 DEF CommitProfile, Holding
    <3> QED  BY <3>1 DEF DefaultUsable
  <2> QED  BY <2>3, <2>4, <2>5, <2>7, <2>8, <2>9 DEF CommitProfile
<1>2. IInv /\ [Next]_vars => [DefaultUsable /\ ~DefaultUsable' => Cleared]_vars
  BY <1>1
<1> QED  BY <1>2, InvariantHolds, PTL DEF Spec, DefaultRemains

=============================================================================

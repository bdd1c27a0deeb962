----------------------------- MODULE Administration -----------------------------
(***************************************************************************)
(* Concurrent requests of administrators, each a transaction of PostgreSQL *)
(* at READ COMMITTED: changes of users, which an advisory lock serializes, *)
(* and changes of the Android profiles, of which one is the default, under *)
(* the locks of their rows.  The role of the administrator who asks is     *)
(* read when the request arrives, before any lock.  The commands of        *)
(* umat admin, which take no lock and may demote anybody, are assumed not  *)
(* to run meanwhile: they are the way back in for whoever owns the host.   *)
(***************************************************************************)
EXTENDS Naturals, FiniteSets

CONSTANTS
  Users,    \* user ids
  Profiles, \* names of Android analysis profiles
  Workers   \* sessions of the database in which requests are handled

VARIABLES
  users,    \* the committed users
  enabled,  \* the users that are enabled
  admins,   \* the users with the role administrator
  state,    \* the committed profiles
  default,  \* the committed profiles whose is_default is set
  tx        \* the requests under way

rows == <<users, enabled, admins, state, default>>
vars == <<rows, tx>>

ProfileState == {"absent", "active", "retired"}
Idle == [kind |-> "idle"]

\* The command line has made at least one administrator.
Init ==
  /\ users \in SUBSET Users
  /\ enabled \in SUBSET users
  /\ admins \in SUBSET users
  /\ enabled \cap admins # {}
  /\ state = [p \in Profiles |-> "absent"]
  /\ default = {}
  /\ tx = [w \in Workers |-> Idle]

Busy(w) == tx[w].kind # "idle"
Others(w) == {v \in Workers \ {w} : Busy(v)}
Ends(w) == tx' = [tx EXCEPT ![w] = Idle]

Administrators == enabled \cap admins

\* A refusal, an error, or the victim of a deadlock.
Abort(w) ==
  /\ Busy(w)
  /\ Ends(w)
  /\ UNCHANGED rows

-----------------------------------------------------------------------------
(* Users *)

Change == {"create staff", "create admin", "grant", "remove", "enable", "disable", "delete"}

\* require_roles: the principal is an enabled administrator on arrival.
ArriveUser(w, actor, target, change) ==
  /\ ~Busy(w)
  /\ actor \in Administrators
  /\ tx' = [tx EXCEPT ![w] = [kind |-> "user", actor |-> actor, target |-> target,
                              change |-> change, at |-> "lock"]]
  /\ UNCHANGED rows

\* Mutant: administrators change users without the advisory lock.
UnlockedChanges(w) == TRUE

ChangesLocked(w) == \A v \in Others(w) : tx[v].kind = "user" => tx[v].at = "lock"

LockUserChanges(w) ==
  /\ tx[w].kind = "user" /\ tx[w].at = "lock"
  /\ ChangesLocked(w)
  /\ tx' = [tx EXCEPT ![w].at = "decide"]
  /\ UNCHANGED rows

EnsureAnotherEnabledAdministrator(target) ==
  target \in Administrators => Administrators \ {target} # {}

Allowed(actor, target, change) ==
  /\ change \in {"create staff", "create admin"} <=> target \notin users
  /\ change \in {"remove", "disable", "delete"} =>
       target # actor /\ EnsureAnotherEnabledAdministrator(target)

With(set, u, condition) == IF condition THEN set \cup {u} ELSE set
Without(set, u, condition) == IF condition THEN set \ {u} ELSE set

\* The rows are read under the lock, and written when the transaction commits.
DecideUser(w) ==
  /\ tx[w].kind = "user" /\ tx[w].at = "decide"
  /\ Allowed(tx[w].actor, tx[w].target, tx[w].change)
  /\ tx' = [tx EXCEPT ![w].at = "write"]
  /\ UNCHANGED rows

CommitUser(w) ==
  /\ tx[w].kind = "user" /\ tx[w].at = "write"
  /\ LET u == tx[w].target
         change == tx[w].change
         creates == change \in {"create staff", "create admin"}
         deletes == change = "delete"
     IN  /\ users' = With(Without(users, u, deletes), u, creates)
         /\ enabled' = With(Without(enabled, u, deletes \/ change = "disable"), u,
                            creates \/ change = "enable")
         /\ admins' = With(Without(admins, u, deletes \/ change = "remove"), u,
                           change \in {"create admin", "grant"})
  /\ Ends(w)
  /\ UNCHANGED <<state, default>>

-----------------------------------------------------------------------------
(* Android profiles *)

Existing == {p \in Profiles : state[p] # "absent"}

\* Mutant: profiles are read without FOR UPDATE, as active_profile of the Windows routes does.
Unlocked(w, p) == TRUE

\* The row is locked by no other transaction.
RowFree(w, p) == \A v \in Others(w) : tx[v].kind \in {"update", "create", "retire"} => p \notin tx[v].locks

ArriveProfile(w, kind, p, flag) ==
  /\ ~Busy(w)
  /\ Administrators # {}
  /\ kind = "create" <=> state[p] = "absent"
  /\ tx' = [tx EXCEPT ![w] = [kind |-> kind, profile |-> p, flag |-> flag,
                              locks |-> {}, todo |-> {}, at |-> "begin"]]
  /\ UNCHANGED rows

\* SELECT ... FOR UPDATE of the profile; a new default then resets the others that it sees.
UpdateProfile(w) ==
  LET p == tx[w].profile
  IN  /\ tx[w].kind = "update" /\ tx[w].at = "begin"
      /\ RowFree(w, p)
      /\ IF state[p] = "active"
         THEN tx' = [tx EXCEPT ![w].at = "reset", ![w].locks = {p},
                               ![w].todo = IF tx[w].flag THEN Existing \ {p} ELSE {}]
         ELSE Ends(w)
      /\ UNCHANGED rows

CreateProfile(w) ==
  /\ tx[w].kind = "create" /\ tx[w].at = "begin"
  /\ tx' = [tx EXCEPT ![w].at = "reset", ![w].todo = IF tx[w].flag THEN Existing ELSE {}]
  /\ UNCHANGED rows

RetireProfile(w) ==
  LET p == tx[w].profile
  IN  /\ tx[w].kind = "retire" /\ tx[w].at = "begin"
      /\ RowFree(w, p)
      /\ IF state[p] = "active" /\ p \notin default
         THEN tx' = [tx EXCEPT ![w].at = "reset", ![w].locks = {p}]
         ELSE Ends(w)
      /\ UNCHANGED rows

\* UPDATE ... SET is_default = false locks row after row.
ResetOther(w, p) ==
  /\ tx[w].kind \in {"update", "create"} /\ tx[w].at = "reset"
  /\ p \in tx[w].todo
  /\ RowFree(w, p)
  /\ tx' = [tx EXCEPT ![w].todo = @ \ {p}, ![w].locks = @ \cup {p}]
  /\ UNCHANGED rows

CommitProfile(w) ==
  LET t == tx[w]
      reset == IF t.flag THEN default \ t.locks ELSE default \ {t.profile}
  IN  /\ t.kind \in {"update", "create", "retire"}
      /\ t.at = "reset" /\ t.todo = {}
      /\ t.kind = "create" => state[t.profile] = "absent"
      /\ state' = CASE t.kind = "create" -> [state EXCEPT ![t.profile] = "active"]
                    [] t.kind = "retire" -> [state EXCEPT ![t.profile] = "retired"]
                    [] t.kind = "update" -> state
      /\ default' = IF t.kind = "retire" THEN default
                    ELSE reset \cup (IF t.flag THEN {t.profile} ELSE {})
      /\ Ends(w)
      /\ UNCHANGED <<users, enabled, admins>>

-----------------------------------------------------------------------------
UserStep(w) ==
  \/ \E actor, target \in Users, change \in Change : ArriveUser(w, actor, target, change)
  \/ LockUserChanges(w) \/ DecideUser(w) \/ CommitUser(w)

ProfileStep(w) ==
  \/ \E p \in Profiles, kind \in {"update", "create"}, flag \in BOOLEAN : ArriveProfile(w, kind, p, flag)
  \/ \E p \in Profiles : ArriveProfile(w, "retire", p, FALSE)
  \/ UpdateProfile(w) \/ CreateProfile(w) \/ RetireProfile(w)
  \/ \E p \in Profiles : ResetOther(w, p)
  \/ CommitProfile(w)

Next == \E w \in Workers : UserStep(w) \/ ProfileStep(w) \/ Abort(w)

Spec == Init /\ [][Next]_vars

-----------------------------------------------------------------------------
(* Properties *)

\* Rows keep their types, and at most one request at a time changes users.
TypeOK ==
  /\ users \subseteq Users /\ enabled \subseteq users /\ admins \subseteq users
  /\ state \in [Profiles -> ProfileState]
  /\ default \subseteq Existing
  /\ Cardinality({w \in Workers : tx[w].kind = "user" /\ tx[w].at # "lock"}) <= 1

\* However the requests of administrators overlap, and although a request goes on whose
\* administrator lost the role while it waited, somebody is left to administer: "two
\* administrators cannot concurrently demote/disable each other" (_lock_user_changes,
\* _ensure_another_enabled_administrator).
AdministratorRemains == Administrators # {}

\* resolve_android_profile finds a profile for an intake that names none.
DefaultUsable == \E p \in default : state[p] = "active"

\* An intake that names no profile finds an active default from the first one on: only an
\* administrator who clears the flag takes it away, never the overlap of a change of the
\* default with the retirement of a profile (update_profile, retire_profile).
DefaultRemains ==
  [][DefaultUsable /\ ~DefaultUsable' =>
       \E w \in Workers : Busy(w) /\ ~Busy(w)' /\ tx[w].kind = "update" /\ ~tx[w].flag]_vars

=============================================================================

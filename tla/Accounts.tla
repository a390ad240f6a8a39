------------------------------- MODULE Accounts -------------------------------
(***************************************************************************)
(* User accounts: administrators register users, change roles and           *)
(* deactivate one another, under a guard that counts the administrators     *)
(* left before it commits.  The names that Sessions uses too are qualified:  *)
(* Identity_proofs extends both.                                             *)
(***************************************************************************)
EXTENDS Naturals, FiniteSets

CONSTANTS
  User,        \* user names
  Handler,     \* requests of administrators that may run at once
  MaxChanges,  \* bound: changes administrators ask for
  Nobody       \* no user

ASSUME ChangesAssumption == MaxChanges \in Nat
ASSUME NobodyAssumption == Nobody \notin User

VARIABLES
  role,     \* role[u]: "none" before the account exists, "admin", or "other"
  active,   \* the accounts that are active
  change,   \* change[p]: the administrator's request in handler p
  changes,  \* changes asked for, for the bound
  crossed   \* history: two changes that take admins away overlapped

accountVars == <<role, active, change, changes, crossed>>

Kinds == {"register", "promote", "demote", "deactivate", "reactivate"}
Resting == [step |-> "rest", kind |-> "none", by |-> Nobody, of |-> Nobody, stale |-> FALSE]
Change == [step : {"rest", "decide", "commit"}, kind : Kinds \cup {"none"},
           by : User \cup {Nobody}, of : User \cup {Nobody}, stale : BOOLEAN]

AccountsTypeOK ==
  /\ role \in [User -> {"none", "other", "admin"}]
  /\ active \in SUBSET {u \in User : role[u] # "none"}
  /\ change \in [Handler -> Change]
  /\ changes \in 0..MaxChanges
  /\ crossed \in BOOLEAN

\* The first administrator comes from the installer.
AccountsInit ==
  /\ \E u \in User : /\ role = [v \in User |-> IF v = u THEN "admin" ELSE "none"]
                     /\ active = {u}
  /\ change = [p \in Handler |-> Resting]
  /\ changes = 0
  /\ crossed = FALSE

-----------------------------------------------------------------------------
ActiveAdmins == {u \in active : role[u] = "admin"}

\* get_current_user and require_role(admin): the actor is read first.
Authorise(p, k, a, u) ==
  /\ change[p].step = "rest"
  /\ changes < MaxChanges
  /\ a \in ActiveAdmins
  /\ change' = [change EXCEPT ![p] = [step |-> "decide", kind |-> k, by |-> a, of |-> u,
                                      stale |-> FALSE]]
  /\ changes' = changes + 1
  /\ UNCHANGED <<role, active, crossed>>

\* Mutant: the target counts as well.
SomeAdmin(u) == ActiveAdmins # {}

\* _count_active_admins, the target excluded: would an admin be left?
OthersLeft(u) == ActiveAdmins \ {u} # {}

\* What the handler reads of its target lets the change through.
Allowed(k, a, u) ==
  \/ k = "register" /\ role[u] = "none"
  \/ k = "promote" /\ role[u] = "other"
  \/ k = "demote" /\ role[u] = "admin" /\ OthersLeft(u)
  \/ k = "deactivate" /\ u # a /\ u \in active /\ (role[u] = "admin" => OthersLeft(u))
  \/ k = "reactivate" /\ role[u] # "none" /\ u \notin active

\* The handler reads the target and counts: it goes on, or answers 404, 409
\* or an unchanged user.
Decide(p) ==
  /\ change[p].step = "decide"
  /\ change' = [change EXCEPT ![p] =
       IF Allowed(change[p].kind, change[p].by, change[p].of)
         THEN [change[p] EXCEPT !.step = "commit", !.by = Nobody] ELSE Resting]
  /\ UNCHANGED <<role, active, changes, crossed>>

Removes(k) == k \in {"demote", "deactivate"}

\* Handler p has decided on a change of kind k and answers; the handlers still
\* to commit learn whether an admin went meanwhile.
Finishes(p, k) ==
  /\ change[p].step = "commit" /\ change[p].kind = k
  /\ change' = [q \in Handler |->
       IF q = p THEN Resting
       ELSE [change[q] EXCEPT !.stale = @ \/ (change[q].step = "commit" /\ Removes(k))]]
  /\ crossed' = (crossed \/ (Removes(k) /\ change[p].stale))
  /\ UNCHANGED changes

\* The UNIQUE constraint refuses a name that was registered meanwhile.
Register(p) ==
  /\ Finishes(p, "register")
  /\ LET u == change[p].of
     IN \/ /\ role[u] = "none"
           /\ \E r \in {"other", "admin"} : role' = [role EXCEPT ![u] = r]
           /\ active' = active \cup {u}
        \/ /\ role[u] # "none"
           /\ UNCHANGED <<role, active>>

\* Only the column that was set is written: role here, active below.
Promote(p) ==
  /\ Finishes(p, "promote")
  /\ role' = [role EXCEPT ![change[p].of] = "admin"]
  /\ UNCHANGED active

Demote(p) ==
  /\ Finishes(p, "demote")
  /\ role' = [role EXCEPT ![change[p].of] = "other"]
  /\ UNCHANGED active

Deactivate(p) ==
  /\ Finishes(p, "deactivate")
  /\ active' = active \ {change[p].of}
  /\ UNCHANGED role

Reactivate(p) ==
  /\ Finishes(p, "reactivate")
  /\ active' = active \cup {change[p].of}
  /\ UNCHANGED role

AccountsNext ==
  \E p \in Handler :
    \/ \E k \in Kinds, a, u \in User : Authorise(p, k, a, u)
    \/ Decide(p)
    \/ Register(p) \/ Promote(p) \/ Demote(p) \/ Deactivate(p) \/ Reactivate(p)

AccountsSpec == AccountsInit /\ [][AccountsNext]_accountVars

-----------------------------------------------------------------------------
\* Hazard: the guard against locking everybody out counts the other active
\* administrators and commits later.  Whatever the order of demotions and
\* deactivations, an active administrator is left, unless one went between
\* another's count and commit (users.py:59, 101).
AdminLeft == crossed \/ ActiveAdmins # {}

=============================================================================

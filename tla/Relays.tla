-------------------------------- MODULE Relays --------------------------------
(***************************************************************************)
(* Sites and relays.  A relay holds a copy of what aptly publishes for the  *)
(* environments its site allows.  An hourly task copies it, under no lease, *)
(* and marks the relay healthy or failed; a daily task marks it stale; hosts *)
(* of the site are sent to the relay while it is usable.                    *)
(***************************************************************************)
EXTENDS Naturals

CONSTANTS
  Site,         \* rows of sites
  Env,          \* lifecycle environments, one content view each
  Run,          \* runs of scheduled_sync_relays that may overlap
  MaxEditions,  \* bound: publications ever
  MaxFaults,    \* bound: copies that fail, processes that stop
  None          \* no site, no environment

ASSUME BoundAssumption == MaxEditions \in Nat /\ MaxFaults \in Nat
ASSUME NoneAssumption == None \notin Site \cup Env

VARIABLES
  allow,      \* allow[s]: the rows of site_environments
  status,     \* status[s]: sync_status of the site's relay, "none" without one
  last,       \* last[s]: last_sync_time against relay_stale_threshold_hours
  assigned,   \* environments with an assignment whose publish_prefix is set
  published,  \* published[e]: the edition aptly publishes for e, 0 for none
  edition,    \* editions so far
  disk,       \* disk[s][e]: the edition in the relay's copy, 0 for none
  run,        \* run[r]: the hourly task
  sweep,      \* relays the daily task has chosen
  faults,     \* faults so far, for the bound
  carried,    \* history: carried[s][e]: what the last successful run copied
  blurred     \* history: copies spoilt by an overlap, a switch or a stop

copies == <<assigned, published, edition, disk>>
marks == <<status, last, sweep, carried>>
vars == <<copies, allow, marks, run, faults, blurred>>

Torn == MaxEditions + 1
Edition == 0..MaxEditions
Status == {"none", "never_synced", "healthy", "stale", "failed"}
Idle == [step |-> "idle", todo |-> {}, seen |-> {},
         expired |-> FALSE, site |-> None, left |-> {}, env |-> None,
         copied |-> [e \in Env |-> 0]]

TypeOK ==
  /\ allow \in [Site -> SUBSET Env]
  /\ status \in [Site -> Status]
  /\ last \in [Site -> {"never", "recent", "old"}]
  /\ assigned \in SUBSET Env
  /\ published \in [Env -> Edition]
  /\ edition \in Edition
  /\ disk \in [Site -> [Env -> 0..Torn]]
  /\ run \in [Run -> [step : {"idle", "next", "copying", "transfer", "failing"},
                      todo : SUBSET Site, seen : SUBSET Site,
                      expired : BOOLEAN, site : Site \cup {None},
                      left : SUBSET Env, env : Env \cup {None},
                      copied : [Env -> Edition]]]
  /\ sweep \in SUBSET Site
  /\ faults \in 0..MaxFaults
  /\ carried \in [Site -> [Env -> Edition]]
  /\ blurred \in SUBSET (Site \X Env)

Init ==
  /\ allow = [s \in Site |-> {}]
  /\ status = [s \in Site |-> "none"]
  /\ last = [s \in Site |-> "never"]
  /\ assigned = {} /\ published = [e \in Env |-> 0] /\ edition = 0
  /\ disk = [s \in Site |-> [e \in Env |-> 0]]
  /\ run = [r \in Run |-> Idle]
  /\ sweep = {} /\ faults = 0
  /\ carried = [s \in Site |-> [e \in Env |-> 0]]
  /\ blurred = {}

-----------------------------------------------------------------------------
(* The primary: what assigning and promoting do to a prefix, which is         *)
(* modelled in full in ContentPromotion.                                     *)

\* A promotion publishes the next edition.
Promote(e) ==
  /\ edition < MaxEditions
  /\ edition' = edition + 1
  /\ published' = [published EXCEPT ![e] = edition + 1]
  /\ UNCHANGED <<assigned, disk, allow, marks, run, faults, blurred>>

\* The first commit after it puts the prefix on record.
Assign(e) ==
  /\ published[e] # 0 /\ e \notin assigned
  /\ assigned' = assigned \cup {e}
  /\ UNCHANGED <<published, edition, disk, allow, marks, run, faults, blurred>>

\* Unassigning deletes the row and leaves the publication.
Unassign(e) ==
  /\ e \in assigned
  /\ assigned' = assigned \ {e}
  /\ UNCHANGED <<published, edition, disk, allow, marks, run, faults, blurred>>

-----------------------------------------------------------------------------
(* routers/sites.py                                                          *)

\* Mutant: a new relay has no sync_status.
CreateUnset(s) ==
  /\ status[s] = "none"
  /\ status' = [status EXCEPT ![s] = "unset"]
  /\ UNCHANGED <<last, sweep, carried, copies, allow, run, faults, blurred>>

\* POST /sites/{id}/relay: one relay to a site, which the unique column keeps.
CreateRelay(s) ==
  /\ status[s] = "none"
  /\ status' = [status EXCEPT ![s] = "never_synced"]
  /\ UNCHANGED <<last, sweep, carried, copies, allow, run, faults, blurred>>

\* PUT /sites/{id}/environments.  It deletes the rows its statement sees, and
\* inserts the list at its commit: rows another request committed in between
\* stay, and break the key if they are on the list too, which rolls it all back.
Replace(s, list, seen) ==
  LET rest == allow[s] \ seen IN
  /\ seen \subseteq allow[s]
  /\ rest \cap list = {}
  /\ allow' = [allow EXCEPT ![s] = rest \cup list]
  /\ UNCHANGED <<copies, marks, run, faults, blurred>>

-----------------------------------------------------------------------------
(* scheduled_sync_relays and sync_relay.yml                                  *)

Healthy == {s \in Site : status[s] = "healthy"}

Batch(r, sites) ==
  /\ run[r].step = "idle" /\ sites # {}
  /\ run' = [run EXCEPT ![r] = [Idle EXCEPT !.step = "next", !.seen = Healthy,
                                            !.todo = sites]]
  /\ UNCHANGED <<copies, allow, marks, faults, blurred>>

\* Mutant: relays that are flagged stale are left out of the batch.
StartFlagged(r) == Batch(r, {s \in Site : status[s] \notin {"none", "stale"}})

\* Mutant: relays that are fine are left out of the batch.
StartUnhealthy(r) == Batch(r, {s \in Site : status[s] \notin {"none", "healthy"}})

\* The batch is every relay there is now, as its row is now.
StartRun(r) == Batch(r, {s \in Site : status[s] # "none"})

\* The prefixes of a site: what it allows and what has one on record.
Prefixes(s) == allow[s] \cap assigned

\* On to the next relay, or to the end of the batch.
Goes(r, todo, expired) ==
  run' = [run EXCEPT ![r] =
    IF todo = {} THEN Idle
    ELSE [Idle EXCEPT !.step = "next", !.todo = todo, !.expired = expired,
                      !.seen = IF expired THEN {} ELSE run[r].seen]]

\* A relay's turn.  A commit since the batch was read has expired its row, which
\* is read again; a site without prefixes is passed over.
Turn(r, s) ==
  /\ run[r].step = "next" /\ s \in run[r].todo
  /\ IF Prefixes(s) = {} THEN Goes(r, run[r].todo \ {s}, run[r].expired)
     ELSE run' = [run EXCEPT ![r] =
       [@ EXCEPT !.step = "copying", !.site = s, !.todo = run[r].todo \ {s},
                 !.left = Prefixes(s),
                 !.seen = (IF run[r].expired THEN Healthy ELSE run[r].seen) \cap {s}]]
  /\ UNCHANGED <<copies, allow, marks, faults, blurred>>

\* rsync of one prefix begins; until it ends the copy is a mixture.
Transfer(r, e) ==
  LET s == run[r].site IN
  /\ run[r].step = "copying" /\ e \in run[r].left
  /\ run' = [run EXCEPT ![r].step = "transfer", ![r].env = e,
                        ![r].copied[e] = published[e]]
  /\ disk' = [disk EXCEPT ![s][e] = IF @ = published[e] THEN @ ELSE Torn]
  /\ UNCHANGED <<assigned, published, edition, allow, marks, faults, blurred>>

\* It ends with what it began to copy, unless that changed meanwhile.
TransferEnds(r) ==
  LET s == run[r].site  e == run[r].env  whole == published[e] = run[r].copied[e] IN
  /\ run[r].step = "transfer"
  /\ run' = [run EXCEPT ![r].step = "copying", ![r].env = None, ![r].left = @ \ {e}]
  /\ disk' = [disk EXCEPT ![s][e] = IF whole THEN published[e] ELSE Torn]
  /\ blurred' = IF whole THEN blurred \ {<<s, e>>} ELSE blurred \cup {<<s, e>>}
  /\ UNCHANGED <<assigned, published, edition, allow, marks, faults>>

Overlapped(r) == \E q \in Run \ {r} : run[q].site = run[r].site

\* The play fails: the relay does not answer, or anything else.
PlayFails(r) ==
  LET s == run[r].site  e == run[r].env IN
  /\ run[r].step \in {"copying", "transfer"}
  /\ faults < MaxFaults /\ faults' = faults + 1
  /\ run' = [run EXCEPT ![r].step = "failing", ![r].left = {},
                        ![r].seen = {}, ![r].copied = Idle.copied]
  /\ blurred' = IF e # None /\ Overlapped(r) THEN blurred \cup {<<s, e>>} ELSE blurred
  /\ UNCHANGED <<copies, allow, marks>>

\* A commit expires the rows of the batch.
Recorded(r) == Goes(r, run[r].todo, TRUE)

\* The commit after a play that succeeded.  The session writes the columns whose
\* value it changed: a row read as healthy gets a new time and no status.
Record(r) ==
  LET s == run[r].site IN
  /\ run[r].step = "copying" /\ run[r].left = {}
  /\ Recorded(r)
  /\ status' = [status EXCEPT ![s] = IF s \in run[r].seen THEN @ ELSE "healthy"]
  /\ last' = [last EXCEPT ![s] = "recent"]
  /\ carried' = [carried EXCEPT ![s] = run[r].copied]
  /\ UNCHANGED <<copies, allow, sweep, faults, blurred>>

\* Mutant: the status of the play is not looked at.
RecordAnyway(r) ==
  LET s == run[r].site IN
  /\ run[r].step = "failing"
  /\ Recorded(r)
  /\ status' = [status EXCEPT ![s] = "healthy"]
  /\ last' = [last EXCEPT ![s] = "recent"]
  /\ carried' = [carried EXCEPT ![s] =
       [e \in Env |-> IF e \in Prefixes(s) THEN published[e] ELSE 0]]
  /\ UNCHANGED <<copies, allow, sweep, faults, blurred>>

\* The commit after one that failed; the batch goes on.
RecordFailure(r) ==
  LET s == run[r].site IN
  /\ run[r].step = "failing"
  /\ Recorded(r)
  /\ status' = [status EXCEPT ![s] = "failed"]
  /\ UNCHANGED <<copies, allow, last, carried, sweep, faults, blurred>>

\* The worker dies.
Crash(r) ==
  LET s == run[r].site  e == run[r].env IN
  /\ run[r].step # "idle" /\ faults < MaxFaults
  /\ faults' = faults + 1
  /\ run' = [run EXCEPT ![r] = Idle]
  /\ blurred' = IF e = None THEN blurred ELSE blurred \cup {<<s, e>>}
  /\ UNCHANGED <<copies, allow, marks>>

-----------------------------------------------------------------------------
(* scheduled_flag_stale_relays, and time                                     *)

\* The threshold passes without a new copy.
Ages(s) ==
  /\ last[s] = "recent"
  /\ last' = [last EXCEPT ![s] = "old"]
  /\ UNCHANGED <<status, sweep, carried, copies, allow, run, faults, blurred>>

Overdue == {s \in Site : status[s] \notin {"none", "stale"} /\ last[s] # "recent"}

\* The daily task reads which relays are overdue, posts a webhook for each...
SweepSelect ==
  /\ sweep = {} /\ Overdue # {}
  /\ sweep' = Overdue
  /\ UNCHANGED <<status, last, carried, copies, allow, run, faults, blurred>>

\* ...and commits their new status.
SweepCommit ==
  /\ sweep # {}
  /\ status' = [s \in Site |-> IF s \in sweep THEN "stale" ELSE status[s]]
  /\ sweep' = {}
  /\ UNCHANGED <<last, carried, copies, allow, run, faults, blurred>>

-----------------------------------------------------------------------------
Copy(r) == \/ StartRun(r) \/ Record(r) \/ RecordFailure(r)
           \/ \E s \in Site : Turn(r, s)
           \/ \E e \in Env : Transfer(r, e)
           \/ TransferEnds(r)

Next ==
  \/ \E e \in Env : Promote(e) \/ Assign(e) \/ Unassign(e)
  \/ \E s \in Site : \/ CreateRelay(s) \/ Ages(s)
                     \/ \E list, seen \in SUBSET Env : Replace(s, list, seen)
  \/ \E r \in Run : Copy(r) \/ PlayFails(r) \/ Crash(r)
  \/ SweepSelect \/ SweepCommit

Spec == Init /\ [][Next]_vars

\* Beat starts the hourly task again and again, and a run goes on.
Fairness == \A r \in Run : WF_vars(Copy(r))

FairSpec == Spec /\ Fairness

-----------------------------------------------------------------------------
\* A relay that hosts are sent to: resolve_published_base_url and
\* _relay_proxy_for_servers fall back to the primary otherwise.
Usable(s) == status[s] = "healthy" /\ last[s] = "recent"

\* A relay marked healthy has, whole, every prefix that the run which marked it
\* had read, as it was then or newer, unless a copy of it is under way or has
\* just failed, or two runs overlapped on it, the prefix was switched during
\* its copy, or a worker died during it.
HealthyCarries ==
  \A s \in Site : status[s] = "healthy" => \A e \in Env :
    \/ carried[s][e] = 0 \/ <<s, e>> \in blurred
    \/ \E r \in Run : run[r].site = s /\ run[r].env = e
    \/ disk[s][e] \in carried[s][e]..MaxEditions

\* A relay gets to the current edition of whatever its site keeps on its list,
\* although runs overlap on it, copies fail and workers die.
RelaysCatchUp ==
  \A s \in Site, e \in Env :
    <>[](status[s] # "none" /\ e \in Prefixes(s)) => <>[](disk[s][e] = published[e])

\* Its hosts are sent to it again and again, whatever the daily task does between.
RelaysComeBack ==
  \A s \in Site : <>[](status[s] # "none" /\ Prefixes(s) # {}) => []<>Usable(s)
=================================================================================

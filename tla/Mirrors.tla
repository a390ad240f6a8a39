------------------------------- MODULE Mirrors -------------------------------
(***************************************************************************)
(* Repositories: a row in the database and, under its name, a mirror in     *)
(* aptly.  Handlers create them; sync, update and delete are jobs that hold *)
(* a lease of the repository; the nightly sweep syncs without one.  Content *)
(* views refer to rows and cut snapshots from mirrors, and a guard keeps    *)
(* repositories in use from being changed.  No step is atomic over the two  *)
(* stores.                                                                  *)
(***************************************************************************)
EXTENDS Naturals

CONSTANTS
  Name,       \* repository names
  View,       \* content views
  Handler,    \* API handlers that may run at once
  Job,        \* sync, update and delete jobs
  Settings,   \* archive URLs, distributions, components, architectures
  MaxRows,    \* bound: repository rows ever inserted
  MaxSweeps,  \* bound: nightly sweeps
  MaxFaults,  \* bound: faults
  Faults,     \* what may go wrong: refuse, late, crash, lapse, cancel
  None        \* no row, no mirror, no job

Id == 1..MaxRows

ASSUME BoundAssumption == MaxRows \in Nat /\ MaxSweeps \in Nat /\ MaxFaults \in Nat
ASSUME SettingsAssumption == Settings # {}

VARIABLES
  row,      \* row[n]: the repositories row of that name
  mirror,   \* mirror[n]: what aptly has under that name
  uses,     \* uses[v]: the row content view v refers to, 0 for no view
  cuts,     \* cuts[n]: views with snapshots cut from aptly's mirror n
  op,       \* op[p]: what handler p is doing
  job,      \* job[j]: the job row and the place of its task
  lease,    \* lease[i]: the job that holds the Redis key of row i
  sweep,    \* the nightly sweep: rows left to do, the one aptly has synced
  rows,     \* rows ever inserted; the last is the youngest id
  sweeps,   \* sweeps begun, for the bound
  faults,   \* faults so far, for the bound
  torn,     \* history: names whose two halves were left apart
  blurred,  \* history: names two writers worked on at once
  raced     \* history: jobs whose repository got a view after their check

store == <<row, mirror, uses, cuts>>
count == <<rows, sweeps, faults>>
history == <<torn, blurred, raced>>
vars == <<store, op, job, lease, sweep, count, history>>

Row == [id : Id, set : Settings, synced : BOOLEAN]
Mirror == [set : Settings, filled : BOOLEAN]
ASSUME NoneAssumption == None \notin Job \cup Row \cup Mirror

Idle == [step |-> "idle", name |-> None, set |-> None, view |-> None, id |-> 0]
Op == [step : {"idle", "mirror", "insert", "link", "cut"}, name : Name \cup {None},
       set : Settings \cup {None}, view : View \cup {None}, id : Id \cup {0}]
Unused == [kind |-> "none", step |-> "unused", status |-> "pending", id |-> 0,
           name |-> None, set |-> None]
JobRow == [kind : {"none", "sync", "update", "delete"},
           step : {"unused", "queued", "lock", "drop", "recreate", "sync", "record",
                   "release", "ended", "dead"},
           status : {"pending", "running", "success", "failed"},
           id : Id \cup {0}, name : Name \cup {None}, set : Settings \cup {None}]

TypeOK ==
  /\ row \in [Name -> Row \cup {None}]
  /\ mirror \in [Name -> Mirror \cup {None}]
  /\ uses \in [View -> Id \cup {0}]
  /\ cuts \in [Name -> SUBSET View]
  /\ op \in [Handler -> Op]
  /\ job \in [Job -> JobRow]
  /\ lease \in [Id -> Job \cup {None}]
  /\ sweep \in [todo : SUBSET Id, at : Id \cup {0}]
  /\ rows \in 0..MaxRows /\ sweeps \in 0..MaxSweeps /\ faults \in 0..MaxFaults
  /\ torn \subseteq Name /\ blurred \subseteq Name /\ raced \subseteq Job

Init ==
  /\ row = [n \in Name |-> None]
  /\ mirror = [n \in Name |-> None]
  /\ uses = [v \in View |-> 0]
  /\ cuts = [n \in Name |-> {}]
  /\ op = [p \in Handler |-> Idle]
  /\ job = [j \in Job |-> Unused]
  /\ lease = [i \in Id |-> None]
  /\ sweep = [todo |-> {}, at |-> 0]
  /\ rows = 0 /\ sweeps = 0 /\ faults = 0
  /\ torn = {} /\ blurred = {} /\ raced = {}

-----------------------------------------------------------------------------
Live(i) == {n \in Name : row[n] # None /\ row[n].id = i}
Exists(i) == Live(i) # {}
NameOf(i) == CHOOSE n \in Live(i) : TRUE
Used(i) == \E v \in View : uses[v] = i

\* A task between its first and its last write, on the mirror of n.
Critical == {"drop", "recreate", "sync", "record"}
AtWork(j, n) == job[j].name = n /\ job[j].step \in Critical
Replacing(n) == \E j \in Job : AtWork(j, n) /\ job[j].kind # "sync"
Swept(n) == sweep.at # 0 /\ n \in Live(sweep.at)

\* aptly refuses to drop a mirror while a snapshot is cut from it.
Droppable(n) == mirror[n] # None /\ cuts[n] = {}

Set(j, step, status) ==
  job' = [job EXCEPT ![j].step = step, ![j].status = status]
\* The task is over, its local variables are gone.
Leave(j, step, status) ==
  job' = [job EXCEPT ![j] = [@ EXCEPT !.step = step, !.status = status,
                                      !.name = None, !.set = None]]
Finish(p) == op' = [op EXCEPT ![p] = Idle]

\* A fault of some kind, within the bound; and what may happen because of
\* the state alone, or as such a fault.
Fault(kind) == kind \in Faults /\ faults < MaxFaults /\ faults' = faults + 1
Or(cause, kind) == IF cause THEN UNCHANGED faults ELSE Fault(kind)

-----------------------------------------------------------------------------
(* _create_one_repository, for create_repository and for each distribution  *)
(* of create_repositories_batch: the name is looked up, the mirror created, *)
(* the row inserted and committed.                                          *)

CreateRead(p, n, s) ==
  /\ op[p] = Idle /\ rows < MaxRows
  /\ row[n] = None
  /\ op' = [op EXCEPT ![p] = [Idle EXCEPT !.step = "mirror", !.name = n, !.set = s]]
  /\ UNCHANGED <<store, job, lease, sweep, count, history>>

CreateMirror(p) ==
  LET n == op[p].name
  IN  /\ op[p].step = "mirror"
      /\ mirror[n] = None
      /\ mirror' = [mirror EXCEPT ![n] = [set |-> op[p].set, filled |-> FALSE]]
      /\ op' = [op EXCEPT ![p].step = "insert"]
      /\ UNCHANGED <<row, uses, cuts, job, lease, sweep, count, history>>

\* 502, or an entry in the errors of the batch: there is such a mirror, or
\* aptly objects to the settings.
CreateRefused(p) ==
  /\ op[p].step = "mirror"
  /\ Or(mirror[op[p].name] # None, "refuse")
  /\ Finish(p)
  /\ UNCHANGED <<store, job, lease, sweep, rows, sweeps, history>>

\* The client's thirty seconds are over and aptly does it all the same.
CreateLate(p) ==
  LET n == op[p].name
  IN  /\ Fault("late")
      /\ op[p].step = "mirror" /\ mirror[n] = None
      /\ mirror' = [mirror EXCEPT ![n] = [set |-> op[p].set, filled |-> FALSE]]
      /\ torn' = torn \cup {n}
      /\ Finish(p)
      /\ UNCHANGED <<row, uses, cuts, job, lease, sweep, rows, sweeps, blurred, raced>>

CreateCommit(p) ==
  LET n == op[p].name
  IN  /\ op[p].step = "insert"
      /\ row[n] = None /\ rows < MaxRows
      /\ rows' = rows + 1
      /\ row' = [row EXCEPT ![n] = [id |-> rows', set |-> op[p].set, synced |-> FALSE]]
      /\ Finish(p)
      /\ UNCHANGED <<mirror, uses, cuts, job, lease, sweep, sweeps, faults, history>>

\* The name is taken after all (its unique index), or the process dies: the
\* mirror stays behind.
CreateFails(p) ==
  /\ op[p].step = "insert"
  /\ Or(row[op[p].name] # None, "crash")
  /\ torn' = torn \cup {op[p].name}
  /\ Finish(p)
  /\ UNCHANGED <<store, job, lease, sweep, rows, sweeps, blurred, raced>>

-----------------------------------------------------------------------------
(* delete_repository, update_repository, sync_repository: the first two are *)
(* refused while a view refers to the row.                                  *)

Trigger(j, kind, n, s) ==
  /\ job[j] = Unused
  /\ row[n] # None
  /\ kind = "sync" \/ ~Used(row[n].id)
  /\ job' = [job EXCEPT ![j] = [Unused EXCEPT !.kind = kind, !.step = "queued",
       !.id = row[n].id, !.set = IF kind = "update" THEN s ELSE None]]
  /\ UNCHANGED <<store, op, lease, sweep, count, history>>

\* Mutant: the task relies on the endpoint's check of the views.
StartUnchecked(j) ==
  LET i == job[j].id
  IN  /\ job[j].step = "queued"
      /\ job' = [job EXCEPT
           ![j].name = IF Exists(i) THEN NameOf(i) ELSE None,
           ![j].status = IF Exists(i) THEN "running" ELSE "failed",
           ![j].step = IF Exists(i) THEN "lock" ELSE "ended"]
      /\ UNCHANGED <<store, op, lease, sweep, count, history>>

\* The task reads the row, remembers its name, and checks the views again.
Start(j) ==
  LET i == job[j].id
      good == Exists(i) /\ (job[j].kind = "sync" \/ ~Used(i))
  IN  /\ job[j].step = "queued"
      /\ job' = [job EXCEPT
           ![j].name = IF good THEN NameOf(i) ELSE None,
           ![j].set = IF good THEN @ ELSE None,
           ![j].status = IF good THEN "running" ELSE "failed",
           ![j].step = IF good THEN "lock" ELSE "ended"]
      /\ UNCHANGED <<store, op, lease, sweep, count, history>>

Entry(kind) == IF kind = "sync" THEN "sync" ELSE "drop"

\* acquire_lock does not wait: whoever comes second has failed.
Lock(j) ==
  /\ job[j].step = "lock"
  /\ IF lease[job[j].id] = None
     THEN /\ lease' = [lease EXCEPT ![job[j].id] = j]
          /\ Set(j, Entry(job[j].kind), "running")
     ELSE /\ Leave(j, "ended", "failed")
          /\ UNCHANGED lease
  /\ UNCHANGED <<store, op, sweep, count, history>>

-----------------------------------------------------------------------------
(* The calls of the three tasks to aptly, by the name read before the lease. *)

\* sync_mirror, then the size and the number of packages.
Sync(j) ==
  LET n == job[j].name
  IN  /\ job[j].step = "sync"
      /\ mirror[n] # None
      /\ mirror' = [mirror EXCEPT ![n].filled = TRUE]
      /\ Set(j, "record", "running")
      /\ UNCHANGED <<row, uses, cuts, op, lease, sweep, count, history>>

\* delete_mirror.  A mirror that belongs to a younger row of the name goes
\* as well, and one the sweep has just synced.
Drop(j) ==
  LET n == job[j].name
  IN  /\ job[j].step = "drop"
      /\ Droppable(n)
      /\ mirror' = [mirror EXCEPT ![n] = None]
      /\ Set(j, IF job[j].kind = "update" THEN "recreate" ELSE "record", "running")
      /\ torn' = IF n \in Live(job[j].id) THEN torn ELSE torn \cup {n}
      /\ blurred' = IF Swept(n) THEN blurred \cup {n} ELSE blurred
      /\ UNCHANGED <<row, uses, cuts, op, lease, sweep, count, raced>>

\* create_mirror with the new settings.
Recreate(j) ==
  LET n == job[j].name
  IN  /\ job[j].step = "recreate"
      /\ mirror[n] = None
      /\ mirror' = [mirror EXCEPT ![n] = [set |-> job[j].set, filled |-> FALSE]]
      /\ Set(j, "record", "running")
      /\ blurred' = IF Swept(n) THEN blurred \cup {n} ELSE blurred
      /\ UNCHANGED <<row, uses, cuts, op, lease, sweep, count, torn, raced>>

Refusable(j) ==
  CASE job[j].step = "sync" -> mirror[job[j].name] = None
    [] job[j].step = "drop" -> ~Droppable(job[j].name)
    [] job[j].step = "recreate" -> mirror[job[j].name] # None
    [] OTHER -> FALSE

\* Mutant: what aptly refuses is not reported.
RefusedSilently(j) ==
  /\ job[j].step \in {"sync", "drop", "recreate"} /\ Or(Refusable(j), "refuse")
  /\ Leave(j, "release", "running")
  /\ torn' = IF job[j].step = "recreate" THEN torn \cup {job[j].name} ELSE torn
  /\ UNCHANGED <<store, op, lease, sweep, rows, sweeps, blurred, raced>>

\* Mutant: a mirror that aptly will not drop is taken for one that is gone.
RefusedAsGone(j) ==
  /\ job[j].step \in {"sync", "drop", "recreate"} /\ Or(Refusable(j), "refuse")
  /\ IF job[j].kind = "delete" THEN Set(j, "record", "running")
     ELSE Leave(j, "release", "failed")
  /\ torn' = IF job[j].step = "recreate" THEN torn \cup {job[j].name} ELSE torn
  /\ UNCHANGED <<store, op, lease, sweep, rows, sweeps, blurred, raced>>

\* AptlyError: rolled back and failed.  After the drop the mirror is gone.
Refused(j) ==
  /\ job[j].step \in {"sync", "drop", "recreate"} /\ Or(Refusable(j), "refuse")
  /\ Leave(j, "release", "failed")
  /\ torn' = IF job[j].step = "recreate" THEN torn \cup {job[j].name} ELSE torn
  /\ UNCHANGED <<store, op, lease, sweep, rows, sweeps, blurred, raced>>

-----------------------------------------------------------------------------
(* The commits of the three tasks, by id. *)

SyncCommit(j) ==
  LET i == job[j].id
  IN  /\ job[j].step = "record" /\ job[j].kind = "sync"
      /\ Exists(i)
      /\ row' = [row EXCEPT ![NameOf(i)].synced = TRUE]
      /\ Leave(j, "release", "success")
      /\ UNCHANGED <<mirror, uses, cuts, op, lease, sweep, count, history>>

\* Mutant: last_synced_at is not reset.
UpdateCommitSynced(j) ==
  LET i == job[j].id
  IN  /\ job[j].step = "record" /\ job[j].kind = "update"
      /\ Exists(i)
      /\ row' = [row EXCEPT ![NameOf(i)].set = job[j].set]
      /\ Leave(j, "release", "success")
      /\ UNCHANGED <<mirror, uses, cuts, op, lease, sweep, count, history>>

UpdateCommit(j) ==
  LET i == job[j].id
  IN  /\ job[j].step = "record" /\ job[j].kind = "update"
      /\ Exists(i)
      /\ row' = [row EXCEPT ![NameOf(i)].set = job[j].set, ![NameOf(i)].synced = FALSE]
      /\ Leave(j, "release", "success")
      /\ UNCHANGED <<mirror, uses, cuts, op, lease, sweep, count, history>>

\* A row that is gone already is deleted with a warning only.
DeleteCommit(j) ==
  LET i == job[j].id
  IN  /\ job[j].step = "record" /\ job[j].kind = "delete"
      /\ ~Used(i)
      /\ row' = [n \in Name |-> IF n \in Live(i) THEN None ELSE row[n]]
      /\ Leave(j, "release", "success")
      /\ UNCHANGED <<mirror, uses, cuts, op, lease, sweep, count, history>>

\* The commit raises what the task does not catch: the row to be written is
\* gone, or a view refers to the row to be deleted (its foreign key).  The
\* lease is given back; the job stays running.
CommitRaises(j) ==
  /\ job[j].step = "record"
  /\ IF job[j].kind = "delete" THEN Used(job[j].id) ELSE ~Exists(job[j].id)
  /\ Leave(j, "release", "running")
  /\ torn' = IF job[j].kind = "sync" THEN torn ELSE torn \cup {job[j].name}
  /\ UNCHANGED <<store, op, lease, sweep, count, blurred, raced>>

\* finally: lock.release(), which raises if the lease has lapsed.
Release(j) ==
  /\ job[j].step = "release"
  /\ lease' = [lease EXCEPT ![job[j].id] = IF @ = j THEN None ELSE @]
  /\ Leave(j, "ended", job[j].status)
  /\ UNCHANGED <<store, op, sweep, count, history>>

-----------------------------------------------------------------------------
(* Cancels, dead workers, lapsed leases, API restarts. *)

HalfDone(j) == job[j].kind # "sync" /\ job[j].step \in {"recreate", "record"}

\* cancel_job on a running job: failed, and the task is terminated, by way of
\* its finally block.
Cancel(j) ==
  /\ Fault("cancel")
  /\ job[j].step \in {"lock"} \cup Critical
  /\ Leave(j, IF job[j].step = "lock" THEN "ended" ELSE "release", "failed")
  /\ torn' = IF HalfDone(j) THEN torn \cup {job[j].name} ELSE torn
  /\ UNCHANGED <<store, op, lease, sweep, rows, sweeps, blurred, raced>>

Crash(j) ==
  /\ Fault("crash")
  /\ job[j].step \in {"lock", "release"} \cup Critical
  /\ Leave(j, "dead", job[j].status)
  /\ torn' = IF HalfDone(j) THEN torn \cup {job[j].name} ELSE torn
  /\ UNCHANGED <<store, op, lease, sweep, rows, sweeps, blurred, raced>>

\* LOCK_TIMEOUT_SECONDS: half an hour, where a sync may take six.
Lapse(i) ==
  /\ lease[i] # None
  /\ Or(job[lease[i]].step = "dead", "lapse")
  /\ lease' = [lease EXCEPT ![i] = None]
  /\ blurred' = IF job[lease[i]].step \in Critical
                THEN blurred \cup {job[lease[i]].name} ELSE blurred
  /\ UNCHANGED <<store, op, job, sweep, rows, sweeps, torn, raced>>

\* _reap_stuck_jobs: a running job without an active task.
Reap(j) ==
  /\ job[j].status = "running" /\ job[j].step \in {"ended", "dead"}
  /\ Set(j, job[j].step, "failed")
  /\ UNCHANGED <<store, op, lease, sweep, count, history>>

-----------------------------------------------------------------------------
(* scheduled_sync_all_repositories: rows with auto-sync, which operators     *)
(* switch on and off as they like, and without any lease.                   *)

SweepStart ==
  /\ sweep = [todo |-> {}, at |-> 0]
  /\ sweeps < MaxSweeps
  /\ sweeps' = sweeps + 1
  /\ \E auto \in SUBSET {i \in Id : Exists(i)} : sweep' = [sweep EXCEPT !.todo = auto]
  /\ UNCHANGED <<store, op, job, lease, rows, faults, history>>

SweepSync(i) ==
  /\ sweep.at = 0 /\ i \in sweep.todo /\ Exists(i)
  /\ mirror[NameOf(i)] # None
  /\ mirror' = [mirror EXCEPT ![NameOf(i)].filled = TRUE]
  /\ sweep' = [todo |-> sweep.todo \ {i}, at |-> i]
  /\ blurred' = IF Replacing(NameOf(i)) THEN blurred \cup {NameOf(i)} ELSE blurred
  /\ UNCHANGED <<row, uses, cuts, op, job, lease, count, torn, raced>>

\* An AptlyError is counted and the sweep goes on.
SweepRefused(i) ==
  /\ sweep.at = 0 /\ i \in sweep.todo /\ Exists(i)
  /\ Or(mirror[NameOf(i)] = None, "refuse")
  /\ sweep' = [sweep EXCEPT !.todo = @ \ {i}]
  /\ UNCHANGED <<store, op, job, lease, rows, sweeps, history>>

SweepCommit ==
  /\ sweep.at # 0 /\ Exists(sweep.at)
  /\ row' = [row EXCEPT ![NameOf(sweep.at)].synced = TRUE]
  /\ sweep' = [sweep EXCEPT !.at = 0]
  /\ UNCHANGED <<mirror, uses, cuts, op, job, lease, count, history>>

\* A row that was deleted meanwhile raises what the loop does not catch: the
\* sweep ends there, the rest stays unsynced until the next night.
SweepAborts ==
  /\ \/ sweep.at # 0 /\ ~Exists(sweep.at)
     \/ sweep.at = 0 /\ \E i \in sweep.todo : ~Exists(i)
  /\ sweep' = [todo |-> {}, at |-> 0]
  /\ UNCHANGED <<store, op, job, lease, count, history>>

-----------------------------------------------------------------------------
(* Content views, as far as repositories notice them. *)

\* create_content_view reads the member repository ...
ViewRead(p, v, n) ==
  /\ op[p] = Idle
  /\ uses[v] = 0 /\ row[n] # None
  /\ op' = [op EXCEPT ![p] = [Idle EXCEPT !.step = "link", !.view = v, !.id = row[n].id]]
  /\ UNCHANGED <<store, job, lease, sweep, count, history>>

\* ... commits the view and its reference, if name and row are still free
\* and there ...
ViewCommit(p) ==
  LET o == op[p]
  IN  /\ o.step = "link"
      /\ IF uses[o.view] = 0 /\ Exists(o.id)
         THEN /\ uses' = [uses EXCEPT ![o.view] = o.id]
              /\ op' = [op EXCEPT ![p].step = "cut"]
              /\ raced' = raced \cup {j \in Job :
                   job[j].id = o.id /\ job[j].step \in {"lock"} \cup Critical}
         ELSE Finish(p) /\ UNCHANGED <<uses, raced>>
      /\ UNCHANGED <<row, mirror, cuts, job, lease, sweep, count, torn, blurred>>

\* ... and publishes version 1 of what it committed.
Cut(v, i) ==
  cuts' = [n \in Name |-> IF n \in Live(i) /\ mirror[n] # None
                         THEN cuts[n] \cup {v} ELSE cuts[n]]
ViewCut(p) ==
  /\ op[p].step = "cut"
  /\ Cut(op[p].view, op[p].id)
  /\ Finish(p)
  /\ UNCHANGED <<row, mirror, uses, job, lease, sweep, count, history>>
ViewCutRefused(p) ==
  /\ op[p].step = "cut" /\ Fault("refuse")
  /\ Finish(p)
  /\ UNCHANGED <<store, job, lease, sweep, rows, sweeps, history>>

\* publish_content_view cuts again; a view deleted under it is the case above.
ViewPublish(v) ==
  /\ uses[v] # 0
  /\ Cut(v, uses[v])
  /\ UNCHANGED <<row, mirror, uses, op, job, lease, sweep, count, history>>

\* delete_content_view: the rows go, aptly's snapshots stay.
ViewDelete(v) ==
  /\ uses[v] # 0
  /\ uses' = [uses EXCEPT ![v] = 0]
  /\ UNCHANGED <<row, mirror, cuts, op, job, lease, sweep, count, history>>

\* delete_content_view_version_task, for every version of a view.
VersionsDelete(v) ==
  /\ uses[v] # 0
  /\ \E n \in Name : v \in cuts[n]
  /\ cuts' = [n \in Name |-> cuts[n] \ {v}]
  /\ UNCHANGED <<row, mirror, uses, op, job, lease, sweep, count, history>>

-----------------------------------------------------------------------------
CreateStep(p) ==
  CreateMirror(p) \/ CreateRefused(p) \/ CreateCommit(p)
TaskStep(j) ==
  \/ Start(j) \/ Lock(j) \/ Sync(j) \/ Drop(j) \/ Recreate(j) \/ Refused(j)
  \/ SyncCommit(j) \/ UpdateCommit(j) \/ DeleteCommit(j) \/ CommitRaises(j)
  \/ Release(j)
SweepStep ==
  \/ \E i \in Id : SweepSync(i) \/ SweepRefused(i)
  \/ SweepCommit \/ SweepAborts

Next ==
  \/ \E p \in Handler :
       \/ \E n \in Name, s \in Settings : CreateRead(p, n, s)
       \/ CreateStep(p) \/ CreateLate(p) \/ CreateFails(p)
       \/ \E v \in View, n \in Name : ViewRead(p, v, n)
       \/ ViewCommit(p) \/ ViewCut(p) \/ ViewCutRefused(p)
  \/ \E n \in Name :
       \E j \in Job, kind \in {"sync", "update", "delete"}, s \in Settings :
            Trigger(j, kind, n, s)
  \/ \E j \in Job : TaskStep(j) \/ Cancel(j) \/ Crash(j) \/ Reap(j)
  \/ \E i \in Id : Lapse(i)
  \/ SweepStart \/ SweepStep
  \/ \E v \in View : ViewPublish(v) \/ ViewDelete(v) \/ VersionsDelete(v)

Spec == Init /\ [][Next]_vars

-----------------------------------------------------------------------------
(* Properties. *)

\* While nobody is at work on a name, it has a row if and only if it has a
\* mirror, with the settings of the row: after all, a mirror without a row
\* blocks the name, and a row without a mirror can be neither synced nor
\* updated nor deleted.  The exceptions are the names in torn: a create or a
\* job that stopped between the two stores, and the deletions by name that
\* hit a younger row; and those a lapsed lease let two jobs work on.
Resting(n) ==
  /\ \A j \in Job : ~AtWork(j, n)
  /\ \A p \in Handler : op[p].name = n => op[p].step # "insert"
RowsMatchMirrors ==
  \A n \in Name \ (torn \cup blurred) :
    Resting(n) => /\ row[n] = None <=> mirror[n] = None
                  /\ row[n] # None => row[n].set = mirror[n].set

\* A repository that shows as synced has a mirror that was filled since it
\* was created, unless the sweep or a lapsed lease let a sync and an update
\* overlap.
SyncedIsFilled ==
  \A n \in Name \ (torn \cup blurred) :
    row[n] # None /\ row[n].synced /\ ~Replacing(n) => mirror[n] # None /\ mirror[n].filled

\* The guard of delete and update, checked before the lease is taken: past it
\* a view refers to the repository only if it was created since, and then the
\* deletion is not recorded as done.
GuardHolds ==
  \A j \in Job :
    /\ job[j].step \in Critical /\ job[j].kind # "sync" /\ Used(job[j].id) => j \in raced
    /\ job[j].status = "success" /\ job[j].kind = "delete" => ~Exists(job[j].id)

\* A task that ran to its end left its job closed, or met a commit that
\* another one's change made impossible.
EndedIsClosed ==
  \A j \in Job :
    job[j].step = "ended" /\ job[j].status = "running"
    => j \in raced \/ ~Exists(job[j].id)

=============================================================================

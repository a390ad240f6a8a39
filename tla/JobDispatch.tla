----------------------------- MODULE JobDispatch -----------------------------
(***************************************************************************)
(* The life of a job whose targets are reached over two transports: SSH    *)
(* from inside its Celery task, and beacon actions that hosts pick up at   *)
(* their next check-in, report on later, or never.  Five parties write a   *)
(* job's status: its task, the report handlers of its beacons, the timeout *)
(* sweep, an operator who cancels it, and the reaper the API runs when it  *)
(* starts.  None of them takes a row lock, so what a handler read may be   *)
(* stale when it commits; each handler is split where it reads and where   *)
(* it commits.                                                             *)
(*                                                                         *)
(* Leases are the subject of TaskLocks: here an attempt may find its       *)
(* leases taken at any time (LockBusy).                                    *)
(***************************************************************************)
EXTENDS Naturals, FiniteSets

CONSTANTS
  Job,          \* rows of the jobs table, one Celery task each
  Server,       \* managed servers
  Beacon,       \* those with an active BeaconToken
  Request,      \* what may be triggered: a kind of job and its targets
  MaxRetries,   \* Celery's max_retries
  MaxRestarts,  \* bound: restarts of the API process
  Faults,       \* what may go wrong: crash, restart, error, cancel
  NoJob,        \* the job of an idle handler
  Sweeper       \* the process that runs the timeout sweep

Kind == {"updates", "command"}   \* apply-updates jobs; jobs that only use SSH

ASSUME BeaconAssumption == Beacon \subseteq Server /\ Sweeper \notin Beacon
ASSUME RequestAssumption == Request \subseteq [kind : Kind, targets : SUBSET Server]
ASSUME BoundAssumption == MaxRetries \in Nat /\ MaxRestarts \in Nat
ASSUME NoJobAssumption == NoJob \notin Job

Attempt == 0..MaxRetries

\* BeaconAction rows, named by their job, their server and the attempt of the
\* job's task that created them: a retried task dispatches once more.
Action == Job \X Beacon \X Attempt
Finalizer == Beacon \cup {Sweeper}

VARIABLES
  request,      \* request[j]: kind and targets (JobServer rows) of j
  status,       \* status[j]: Job.status, "none" before the row exists
  task,         \* task[j]: where the Celery task of j is
  attempt,      \* attempt[j]: self.request.retries
  action,       \* action[a]: BeaconAction.status, "none" before the row exists
  checkin,      \* checkin[b]: what an open check-in handler of b read
  basket,       \* basket[b]: actions the agent on b still has to run
  fin,          \* fin[p]: p's progress in _finalize_job_if_resolvable
  sweep,        \* the sweep: stale actions it read, jobs left to finalize
  cancel,       \* the cancel handler: its job and the pending actions it read
  revoked,      \* jobs whose Celery task was revoked
  reaper,       \* the API process: serving, or starting up (and what it saw)
  restarts,     \* API restarts so far, for the bound
  orphan        \* history: jobs that lost a process that was to take them on

taskVars == <<request, status, task, attempt>>
handlerVars == <<checkin, basket, fin, sweep, cancel>>
apiVars == <<reaper, restarts>>
vars == <<taskVars, action, handlerVars, revoked, apiVars, orphan>>

Closed == {"success", "failed"}
Status == {"none", "pending", "running"} \cup Closed
\* unsent: the row is committed, .delay() has not been called yet.
Place == {"none", "unsent", "queued", "started", "ssh", "waiting", "over",
          "dead"}
Open == {"pending", "delivered"}
Resolved == {"succeeded", "failed", "cancelled", "timed_out"}

ActionsOf(j) == {a \in Action : a[1] = j}
ActionsAt(b) == {a \in Action : a[2] = b}
Outstanding == {a \in Action : action[a] \in Open}

Executing(j) == task[j] \in {"started", "ssh"}
BeaconTargets(j) ==
  IF request[j].kind = "updates" THEN request[j].targets \cap Beacon ELSE {}
SshTargets(j) == request[j].targets \ BeaconTargets(j)

NoCheckin == [open |-> FALSE, fresh |-> {}, again |-> {}]
IdleFin == [step |-> "idle", job |-> NoJob]
IdleSweep == [stale |-> {}, jobs |-> {}]
IdleCancel == [step |-> "idle", job |-> NoJob, acts |-> {}]
Serving == [step |-> "serving", seen |-> {}]

TypeOK ==
  /\ request \in [Job -> [kind : Kind, targets : SUBSET Server]]
  /\ status \in [Job -> Status]
  /\ task \in [Job -> Place]
  /\ attempt \in [Job -> Attempt]
  /\ action \in [Action -> {"none"} \cup Open \cup Resolved]
  /\ checkin \in [Beacon -> [open : BOOLEAN, fresh : SUBSET Action,
                             again : SUBSET Action]]
  /\ basket \in [Beacon -> SUBSET Action]
  /\ fin \in [Finalizer -> [step : {"idle", "todo"} \cup Closed,
                            job : Job \cup {NoJob}]]
  /\ sweep \in [stale : SUBSET Action, jobs : SUBSET Job]
  /\ cancel \in [step : {"idle", "read", "chosen"}, job : Job \cup {NoJob},
                 acts : SUBSET Action]
  /\ revoked \subseteq Job
  /\ reaper \in [step : {"serving", "starting", "inspected"}, seen : SUBSET Job]
  /\ restarts \in 0..MaxRestarts
  /\ orphan \subseteq Job

Init ==
  /\ request = [j \in Job |-> [kind |-> "command", targets |-> {}]]
  /\ status = [j \in Job |-> "none"]
  /\ task = [j \in Job |-> "none"]
  /\ attempt = [j \in Job |-> 0]
  /\ action = [a \in Action |-> "none"]
  /\ checkin = [b \in Beacon |-> NoCheckin]
  /\ basket = [b \in Beacon |-> {}]
  /\ fin = [p \in Finalizer |-> IdleFin]
  /\ sweep = IdleSweep
  /\ cancel = IdleCancel
  /\ revoked = {}
  /\ reaper = Serving
  /\ restarts = 0
  /\ orphan = {}

\* actions[S] get status s, the others keep theirs.
Mark(S, s) == [a \in Action |-> IF a \in S THEN s ELSE action[a]]

-----------------------------------------------------------------------------
(* The trigger endpoint and the Celery task. *)

\* _create_job_with_targets commits the row and its targets.
Create(j, r) ==
  /\ reaper.step = "serving"
  /\ task[j] = "none"
  /\ request' = [request EXCEPT ![j] = r]
  /\ status' = [status EXCEPT ![j] = "pending"]
  /\ task' = [task EXCEPT ![j] = "unsent"]
  /\ UNCHANGED <<attempt, action, handlerVars, revoked, apiVars,
                 orphan>>

\* .delay() in the same request, after the commit.
Send(j) ==
  /\ task[j] = "unsent"
  /\ task' = [task EXCEPT ![j] = "queued"]
  /\ UNCHANGED <<request, status, attempt, action, handlerVars,
                 revoked, apiVars, orphan>>

\* A worker runs the task, first or again: whatever the row says, it is set
\* running.
Start(j) ==
  /\ task[j] \in {"queued", "waiting"}
  /\ j \notin revoked
  /\ status' = [status EXCEPT ![j] = "running"]
  /\ task' = [task EXCEPT ![j] = "started"]
  /\ UNCHANGED <<request, attempt, action, handlerVars, revoked,
                 apiVars, orphan>>

\* A lease the attempt needs is taken.
LockBusy(j) ==
  /\ task[j] = "started"
  /\ status' = [status EXCEPT ![j] = "failed"]
  /\ task' = [task EXCEPT ![j] = "over"]
  /\ UNCHANGED <<request, attempt, action, handlerVars, revoked,
                 apiVars, orphan>>

\* work(): the beacon targets get an action each; with no target left for
\* SSH the task returns "pending_beacon" and leaves the job running.
Dispatch(j) ==
  /\ task[j] = "started"
  /\ action' = Mark({j} \X BeaconTargets(j) \X {attempt[j]}, "pending")
  /\ task' = [task EXCEPT ![j] =
                IF request[j].kind = "updates" /\ SshTargets(j) = {}
                THEN "over" ELSE "ssh"]
  /\ UNCHANGED <<request, status, attempt, handlerVars, revoked,
                 apiVars, orphan>>

\* The playbook ran.  With beacon targets the task returns "pending_beacon"
\* whatever the playbook said; without, it marks the job.
SshEnd(j, outcome) ==
  /\ task[j] = "ssh"
  /\ outcome \in Closed
  /\ status' = IF BeaconTargets(j) = {}
               THEN [status EXCEPT ![j] = outcome] ELSE status
  /\ task' = [task EXCEPT ![j] = "over"]
  /\ UNCHANGED <<request, attempt, action, handlerVars, revoked, apiVars,
                 orphan>>

\* Mutant: one retry too many.
SshRetryOnceMore(j) ==
  /\ task[j] = "ssh"
  /\ attempt[j] <= MaxRetries
  /\ attempt' = [attempt EXCEPT ![j] = @ + 1]
  /\ task' = [task EXCEPT ![j] = "waiting"]
  /\ UNCHANGED <<request, status, action, handlerVars, revoked,
                 apiVars, orphan>>

\* A host cannot be reached: the task is retried from its start, the job
\* stays as it is.
SshRetry(j) ==
  /\ task[j] = "ssh"
  /\ attempt[j] < MaxRetries
  /\ attempt' = [attempt EXCEPT ![j] = @ + 1]
  /\ task' = [task EXCEPT ![j] = "waiting"]
  /\ UNCHANGED <<request, status, action, handlerVars, revoked,
                 apiVars, orphan>>

\* The last attempt: _handle_task_exception fails the job (and marks every
\* target unreachable, which no handler here reads).
SshGivesUp(j) ==
  /\ task[j] = "ssh"
  /\ attempt[j] = MaxRetries
  /\ status' = [status EXCEPT ![j] = "failed"]
  /\ task' = [task EXCEPT ![j] = "over"]
  /\ UNCHANGED <<request, attempt, action, handlerVars, revoked, apiVars,
                 orphan>>

\* Any other exception, of work() or of the release of a lapsed lease.
TaskError(j) ==
  /\ "error" \in Faults
  /\ Executing(j)
  /\ status' = [status EXCEPT ![j] = "failed"]
  /\ task' = [task EXCEPT ![j] = "over"]
  /\ UNCHANGED <<request, attempt, action, handlerVars, revoked,
                 apiVars, orphan>>

\* The worker obeys a revoke: SystemExit passes every except clause, and a
\* task that waits for its retry is dropped.  The row is left to the caller.
Killed(j) ==
  /\ j \in revoked
  /\ Executing(j) \/ task[j] = "waiting"
  /\ task' = [task EXCEPT ![j] = "over"]
  /\ UNCHANGED <<request, status, attempt, action, handlerVars,
                 revoked, apiVars, orphan>>

\* The worker process dies; the message was acknowledged when it was taken.
Crash(j) ==
  /\ "crash" \in Faults
  /\ Executing(j)
  /\ task' = [task EXCEPT ![j] = "dead"]
  /\ orphan' = orphan \cup {j}
  /\ UNCHANGED <<request, status, attempt, action, handlerVars,
                 revoked, apiVars>>

-----------------------------------------------------------------------------
(* A beacon: it checks in, runs what it was handed, and reports. *)

\* Mutant: whatever the host has not confirmed is handed out again.
CheckinReadUnconfirmed(b) ==
  /\ reaper.step = "serving"
  /\ ~checkin[b].open /\ basket[b] = {}
  /\ checkin' = [checkin EXCEPT ![b] =
       [open |-> TRUE,
        fresh |-> {a \in ActionsAt(b) : action[a] = "pending"},
        again |-> {a \in ActionsAt(b) : action[a] \in {"delivered", "timed_out"}}]]
  /\ UNCHANGED <<taskVars, action, basket, fin, sweep, cancel, revoked,
                 apiVars, orphan>>

\* POST /beacon/checkin reads the open actions of the server ...
CheckinRead(b) ==
  /\ reaper.step = "serving"
  /\ ~checkin[b].open /\ basket[b] = {}
  /\ checkin' = [checkin EXCEPT ![b] =
       [open |-> TRUE,
        fresh |-> {a \in ActionsAt(b) : action[a] = "pending"},
        again |-> {a \in ActionsAt(b) : action[a] = "delivered"}]]
  /\ UNCHANGED <<taskVars, action, basket, fin, sweep, cancel, revoked,
                 apiVars, orphan>>

\* ... and commits: what it read as pending is written delivered.  The
\* response may not arrive.
CheckinCommit(b, arrives) ==
  /\ checkin[b].open
  /\ action' = Mark(checkin[b].fresh, "delivered")
  /\ basket' = IF arrives
               THEN [basket EXCEPT ![b] = checkin[b].fresh \cup checkin[b].again]
               ELSE basket
  /\ checkin' = [checkin EXCEPT ![b] = NoCheckin]
  /\ UNCHANGED <<taskVars, fin, sweep, cancel, revoked,
                 apiVars, orphan>>

\* The agent ran an action and POST /beacon/report commits its outcome,
\* whatever the row's status is by now; the handler then goes on to finalize.
Report(b, a, outcome) ==
  /\ reaper.step = "serving"
  /\ a \in basket[b]
  /\ fin[b].step = "idle"
  /\ outcome \in {"succeeded", "failed"}
  /\ action' = Mark({a}, outcome)
  /\ basket' = [basket EXCEPT ![b] = @ \ {a}]
  /\ fin' = [fin EXCEPT ![b] = [step |-> "todo", job |-> a[1]]]
  /\ UNCHANGED <<taskVars, checkin, sweep, cancel, revoked, apiVars, orphan>>

\* The agent gives up on the rest of its list: a report did not get through,
\* an exception, a reboot.
AgentStops(b) ==
  /\ basket[b] # {}
  /\ basket' = [basket EXCEPT ![b] = {}]
  /\ UNCHANGED <<taskVars, action, checkin, fin, sweep, cancel, revoked,
                 apiVars, orphan>>

-----------------------------------------------------------------------------
(* _finalize_job_if_resolvable, called by reports and by the sweep. *)

\* Mutant: it does not look at the status of the job.
FinReadAnyStatus(p) ==
  LET j == fin[p].job
      verdict == IF \E a \in ActionsOf(j) : action[a] \in {"failed", "timed_out"}
                 THEN "failed" ELSE "success"
  IN  /\ fin[p].step = "todo"
      /\ fin' = [fin EXCEPT ![p] =
                   IF ActionsOf(j) \cap Outstanding = {}
                   THEN [step |-> verdict, job |-> j] ELSE IdleFin]
      /\ UNCHANGED <<taskVars, action, checkin, basket, sweep, cancel, revoked,
                     apiVars, orphan>>

\* It reads the job and its actions: not running, or not all resolved, and it
\* returns; else one failed or timed-out action makes the verdict.
FinRead(p) ==
  LET j == fin[p].job
      verdict == IF \E a \in ActionsOf(j) : action[a] \in {"failed", "timed_out"}
                 THEN "failed" ELSE "success"
  IN  /\ fin[p].step = "todo"
      /\ fin' = [fin EXCEPT ![p] =
                   IF status[j] = "running" /\ ActionsOf(j) \cap Outstanding = {}
                   THEN [step |-> verdict, job |-> j] ELSE IdleFin]
      /\ UNCHANGED <<taskVars, action, checkin, basket, sweep, cancel, revoked,
                     apiVars, orphan>>

\* _mark_job commits the verdict.
FinWrite(p) ==
  /\ fin[p].step \in Closed
  /\ status' = [status EXCEPT ![fin[p].job] = fin[p].step]
  /\ fin' = [fin EXCEPT ![p] = IdleFin]
  /\ UNCHANGED <<request, task, attempt, action, checkin, basket,
                 sweep, cancel, revoked, apiVars, orphan>>

-----------------------------------------------------------------------------
(* scheduled_timeout_stale_beacon_actions, every five minutes. *)

SweepIdle == sweep = IdleSweep /\ fin[Sweeper].step = "idle"

\* Mutant: it looks for actions nobody picked up only.
SweepReadPending(S) ==
  /\ SweepIdle
  /\ S # {} /\ S \subseteq {a \in Action : action[a] = "pending"}
  /\ sweep' = [stale |-> S, jobs |-> {}]
  /\ UNCHANGED <<taskVars, action, checkin, basket, fin, cancel, revoked,
                 apiVars, orphan>>

\* Mutant: it looks for actions that were picked up only.
SweepReadDelivered(S) ==
  /\ SweepIdle
  /\ S # {} /\ S \subseteq {a \in Action : action[a] = "delivered"}
  /\ sweep' = [stale |-> S, jobs |-> {}]
  /\ UNCHANGED <<taskVars, action, checkin, basket, fin, cancel, revoked,
                 apiVars, orphan>>

\* It reads the actions that have been open for thirty minutes ...
SweepRead(S) ==
  /\ SweepIdle
  /\ S # {} /\ S \subseteq Outstanding
  /\ sweep' = [stale |-> S, jobs |-> {}]
  /\ UNCHANGED <<taskVars, action, checkin, basket, fin, cancel, revoked,
                 apiVars, orphan>>

\* Mutant: the jobs of the actions are not finalized.
SweepCommitOnly ==
  /\ sweep.stale # {}
  /\ action' = Mark(sweep.stale, "timed_out")
  /\ sweep' = IdleSweep
  /\ UNCHANGED <<taskVars, checkin, basket, fin, cancel, revoked, apiVars,
                 orphan>>

\* ... writes them timed out ...
SweepCommit ==
  /\ sweep.stale # {}
  /\ action' = Mark(sweep.stale, "timed_out")
  /\ sweep' = [stale |-> {}, jobs |-> {a[1] : a \in sweep.stale}]
  /\ UNCHANGED <<taskVars, checkin, basket, fin, cancel, revoked, apiVars,
                 orphan>>

\* ... and finalizes their jobs one by one.
SweepNext(j) ==
  /\ j \in sweep.jobs
  /\ fin[Sweeper].step = "idle"
  /\ fin' = [fin EXCEPT ![Sweeper] = [step |-> "todo", job |-> j]]
  /\ sweep' = [stale |-> sweep.stale, jobs |-> sweep.jobs \ {j}]
  /\ UNCHANGED <<taskVars, action, checkin, basket, cancel, revoked, apiVars,
                 orphan>>

\* The worker that sweeps dies.
SweepCrash ==
  /\ "crash" \in Faults
  /\ ~SweepIdle
  /\ sweep' = IdleSweep
  /\ fin' = [fin EXCEPT ![Sweeper] = IdleFin]
  /\ orphan' = orphan \cup sweep.jobs \cup ({fin[Sweeper].job} \ {NoJob})
  /\ UNCHANGED <<taskVars, action, checkin, basket, cancel, revoked, apiVars>>

-----------------------------------------------------------------------------
(* POST /jobs/{id}/cancel. *)

\* It refuses a closed job and revokes the task of a running one ...
CancelRead(j) ==
  /\ "cancel" \in Faults
  /\ reaper.step = "serving"
  /\ cancel.step = "idle"
  /\ status[j] \in {"pending", "running"}
  /\ revoked' = IF status[j] = "running" THEN revoked \cup {j} ELSE revoked
  /\ cancel' = [step |-> "read", job |-> j, acts |-> {}]
  /\ UNCHANGED <<taskVars, action, checkin, basket, fin, sweep, apiVars, orphan>>

\* ... reads the job's actions that are still pending ...
CancelChoose ==
  /\ cancel.step = "read"
  /\ cancel' = [step |-> "chosen", job |-> cancel.job,
                 acts |-> {a \in ActionsOf(cancel.job) : action[a] = "pending"}]
  /\ UNCHANGED <<taskVars, action, checkin, basket, fin, sweep, revoked,
                 apiVars, orphan>>

\* ... and commits them cancelled and the job failed, whatever happened since.
CancelCommit ==
  /\ cancel.step = "chosen"
  /\ action' = Mark(cancel.acts, "cancelled")
  /\ status' = [status EXCEPT ![cancel.job] = "failed"]
  /\ cancel' = IdleCancel
  /\ UNCHANGED <<request, task, attempt, checkin, basket, fin,
                 sweep, revoked, apiVars, orphan>>

-----------------------------------------------------------------------------
(* The API process restarts, and its lifespan hook reaps. *)

\* Every request it was serving is lost where it stood.
ApiRestart ==
  /\ "restart" \in Faults
  /\ restarts < MaxRestarts
  /\ restarts' = restarts + 1
  /\ reaper' = [step |-> "starting", seen |-> {}]
  /\ checkin' = [b \in Beacon |-> NoCheckin]
  /\ fin' = [p \in Finalizer |-> IF p \in Beacon THEN IdleFin ELSE fin[p]]
  /\ cancel' = IdleCancel
  /\ task' = [j \in Job |-> IF task[j] = "unsent" THEN "dead" ELSE task[j]]
  /\ orphan' = orphan \cup {j \in Job : \/ task[j] = "unsent"
                                        \/ cancel.job = j
                                        \/ \E b \in Beacon : fin[b].job = j}
  /\ UNCHANGED <<request, status, attempt, action, basket, sweep,
                 revoked>>

\* inspect().active() lists the executing tasks of the workers that answer.
ReapInspect(seen) ==
  /\ reaper.step = "starting"
  /\ seen \subseteq {j \in Job : Executing(j)}
  /\ reaper' = [step |-> "inspected", seen |-> seen]
  /\ UNCHANGED <<taskVars, action, handlerVars, revoked, restarts, orphan>>

\* Celery or Redis cannot be asked: nothing is reaped.
ReapSkip ==
  /\ reaper.step = "starting"
  /\ reaper' = Serving
  /\ UNCHANGED <<taskVars, action, handlerVars, revoked, restarts, orphan>>

\* Every running job whose task was not listed is failed.
ReapCommit ==
  /\ reaper.step = "inspected"
  /\ status' = [j \in Job |-> IF status[j] = "running" /\ j \notin reaper.seen
                              THEN "failed" ELSE status[j]]
  /\ reaper' = Serving
  /\ UNCHANGED <<request, task, attempt, action, handlerVars,
                 revoked, restarts, orphan>>

-----------------------------------------------------------------------------
TaskStep(j) ==
  \/ Send(j) \/ Start(j) \/ LockBusy(j) \/ Dispatch(j)
  \/ \E outcome \in Closed : SshEnd(j, outcome)
  \/ SshRetry(j) \/ SshGivesUp(j) \/ TaskError(j) \/ Killed(j)
BeaconStep(b) ==
  \/ CheckinRead(b)
  \/ \E arrives \in BOOLEAN : CheckinCommit(b, arrives)
  \/ \E a \in Action, outcome \in {"succeeded", "failed"} : Report(b, a, outcome)
  \/ AgentStops(b)
FinStep(p) == FinRead(p) \/ FinWrite(p)
SweepGoesOn == SweepCommit \/ \E j \in Job : SweepNext(j)
CancelGoesOn == CancelChoose \/ CancelCommit

Next ==
  \/ \E j \in Job : \/ \E r \in Request : Create(j, r)
                    \/ TaskStep(j)
                    \/ Crash(j)
                    \/ CancelRead(j)
  \/ \E b \in Beacon : BeaconStep(b)
  \/ \E p \in Finalizer : FinStep(p)
  \/ \E S \in SUBSET Action : SweepRead(S)
  \/ SweepGoesOn \/ SweepCrash
  \/ CancelGoesOn
  \/ ApiRestart
  \/ \E seen \in SUBSET Job : ReapInspect(seen)
  \/ ReapSkip \/ ReapCommit

Spec == Init /\ [][Next]_vars

\* Workers go on with what they took, handlers run to their end, and beat
\* sweeps every open action in the end, in a worker that does not die each
\* time.  Beacons owe nothing: they may go dark at any time.
Fairness ==
  /\ \A j \in Job : WF_vars(TaskStep(j))
  /\ \A p \in Finalizer : WF_vars(FinStep(p))
  /\ \A a \in Action : WF_vars(\E S \in SUBSET Action : a \in S /\ SweepRead(S))
  /\ SF_vars(SweepGoesOn)
  /\ WF_vars(CancelGoesOn)
FairSpec == Spec /\ Fairness

-----------------------------------------------------------------------------
(* Properties. *)

\* An open job that has targets is never forgotten: whatever was cancelled,
\* swept, reported, retried or reaped in whatever order, somebody still is to
\* close it, unless the process that was to died (orphan).  _finalize_job is
\* the only closer a parked job has, and nothing calls it twice.
OpenJobHasCloser ==
  \A j \in Job :
    /\ status[j] = "pending" => task[j] \in {"unsent", "queued"} \/ j \in orphan
    /\ status[j] = "running" /\ request[j].targets # {} =>
         \/ Executing(j) \/ task[j] = "waiting"
         \/ ActionsOf(j) \cap Outstanding # {}
         \/ \E p \in Finalizer : fin[p].job = j
         \/ j \in sweep.jobs
         \/ cancel.job = j
         \/ j \in orphan

\* A closed job whose task ended, and which no handler has read as open before
\* it was closed, keeps its outcome for good: late reports and sweeps of its
\* actions, which do reach _finalize_job_if_resolvable, change nothing.
Settled(j) ==
  /\ status[j] \in Closed
  /\ task[j] \in {"over", "dead"}
  /\ \A p \in Finalizer : fin[p].job = j => fin[p].step = "todo"
  /\ cancel.job # j
ClosedStays ==
  [][\A j \in Job : Settled(j) => Settled(j)' /\ status'[j] = status[j]]_vars

\* An action that is resolved, and that no handler or agent still holds a copy
\* of, is never handed out, run or changed again.
Retired(a) ==
  /\ action[a] \in Resolved
  /\ \A b \in Beacon : a \notin checkin[b].fresh \cup checkin[b].again \cup basket[b]
  /\ a \notin sweep.stale \cup cancel.acts
RetiredStays ==
  [][\A a \in Action : Retired(a) => Retired(a)' /\ action'[a] = action[a]]_vars

\* Every job that runs is closed, however dark its beacons go, whatever is
\* cancelled, retried or reaped and however its attempts fail, unless a process
\* that was to take it on died.
EveryJobCloses ==
  \A j \in Job : status[j] = "running" ~> status[j] \in Closed \/ j \in orphan

\* No action stays open for good: a report, a cancellation or the sweep
\* resolves it, also for jobs that are closed already.
EveryActionResolves ==
  \A a \in Action : action[a] \in Open ~> action[a] \in Resolved

\* What cancel_job writes on a pending job, "cancelled before execution": the
\* task of a job it failed before a worker took it does not start.
CancelledBeforeExecution ==
  [][\A j \in Job : status[j] = "failed" /\ task[j] = "queued"
                    => task'[j] # "started"]_vars
=============================================================================

------------------------------ MODULE TaskLocks ------------------------------
(***************************************************************************)
(* The job skeletons of app/tasks.py, _run_locked_job and                  *)
(* _run_locked_job_multi, over the Redis leases of app/locking.py.         *)
(*                                                                         *)
(* A job takes the lease of every key it needs, in sorted order and        *)
(* without waiting, works on its targets, and gives the leases back in a   *)
(* finally block.  A lease is not a lock: Redis drops it after             *)
(* LOCK_TIMEOUT_SECONDS whether or not its holder is still working, and a  *)
(* worker that dies leaves its leases behind until then.                   *)
(*                                                                         *)
(* Jobs with beacon-dispatched targets, which stay open after their task   *)
(* returned, are the subject of JobDispatch; here every job is closed by   *)
(* its own task.                                                           *)
(***************************************************************************)
EXTENDS Naturals, FiniteSets

CONSTANTS
  Job,         \* rows of the jobs table, one Celery task each
  Key,         \* lease names: the sort order of the ids is the order of Nat
  Request,     \* the sets of keys a trigger endpoint may ask for
  MaxRetries,  \* Celery's max_retries
  Nobody       \* the owner of a lease nobody holds

ASSUME KeyAssumption == Key \subseteq Nat
ASSUME RequestAssumption == Request \subseteq SUBSET Key
ASSUME ListAssumption == \A r \in Request : IsFiniteSet(r)
ASSUME MaxRetriesAssumption == MaxRetries \in Nat
ASSUME NobodyAssumption == Nobody \notin Job

VARIABLES
  request,   \* request[j]: the keys job j must hold
  status,    \* status[j]: Job.status, "none" before the row exists
  task,      \* task[j]: where the Celery task of j is
  result,    \* result[j]: how the current attempt of j ended
  retries,   \* retries[j]: self.request.retries
  held,      \* held[j]: the keys of the `locks` list of j's task
  owner,     \* owner[k]: whose token Redis stores under key k
  lapsed,    \* history: jobs one of whose leases ran out under them
  overlap    \* history: pairs of jobs that worked at once under a common key

vars == <<request, status, task, result, retries, held, owner, lapsed, overlap>>

Status == {"none", "pending", "running", "success", "failed"}
Place == {"idle", "queued", "acquiring", "working", "releasing", "waiting",
          "over", "dead"}
Result == {"none", "ok", "failed", "unreachable", "error", "contention",
           "terminated"}

\* A worker process is executing the task: inspect().active() lists it.
Executing(j) == task[j] \in {"acquiring", "working", "releasing"}

\* Two jobs that need a lease of the same name.
ShareKey(i, j) == request[i] \cap request[j] # {}

\* `sorted(server_ids)`: the next lease an attempt asks for, or gives back.
First(S) == CHOOSE k \in S : \A l \in S : k <= l
\* Mutant: the ids are locked in the order the caller listed them.
UnsortedKey(j) ==
  LET wanted == request[j] \ held[j]
  IN  IF j = CHOOSE i \in Job : TRUE
      THEN CHOOSE k \in wanted : \A l \in wanted : l <= k
      ELSE First(wanted)
NextKey(j) == First(request[j] \ held[j])
NextRelease(j) == First(held[j])

TypeOK ==
  /\ request \in [Job -> SUBSET Key]
  /\ status \in [Job -> Status]
  /\ task \in [Job -> Place]
  /\ result \in [Job -> Result]
  /\ retries \in [Job -> 0..MaxRetries]
  /\ held \in [Job -> SUBSET Key]
  /\ owner \in [Key -> Job \cup {Nobody}]
  /\ lapsed \subseteq Job
  /\ overlap \subseteq Job \X Job

Init ==
  /\ request = [j \in Job |-> {}]
  /\ status = [j \in Job |-> "none"]
  /\ task = [j \in Job |-> "idle"]
  /\ result = [j \in Job |-> "none"]
  /\ retries = [j \in Job |-> 0]
  /\ held = [j \in Job |-> {}]
  /\ owner = [k \in Key |-> Nobody]
  /\ lapsed = {}
  /\ overlap = {}

-----------------------------------------------------------------------------
(* The steps of a job and of its task. *)

\* A trigger endpoint commits the row and hands the task to Celery.
Trigger(j, r) ==
  /\ task[j] = "idle"
  /\ request' = [request EXCEPT ![j] = r]
  /\ status' = [status EXCEPT ![j] = "pending"]
  /\ task' = [task EXCEPT ![j] = "queued"]
  /\ UNCHANGED <<result, retries, held, owner, lapsed, overlap>>

\* A worker takes the task, the first time or after a retry countdown, and
\* commits status = running before it asks for any lease.
Start(j) ==
  /\ task[j] \in {"queued", "waiting"}
  /\ status' = [status EXCEPT ![j] = "running"]
  /\ task' = [task EXCEPT ![j] = "acquiring"]
  /\ result' = [result EXCEPT ![j] = "none"]
  /\ UNCHANGED <<request, retries, held, owner, lapsed, overlap>>

\* Mutant: the lease is taken over from whoever has it.
AcquireAnyway(j) ==
  /\ task[j] = "acquiring"
  /\ request[j] \ held[j] # {}
  /\ owner' = [owner EXCEPT ![NextKey(j)] = j]
  /\ held' = [held EXCEPT ![j] = @ \cup {NextKey(j)}]
  /\ UNCHANGED <<request, status, task, result, retries, lapsed, overlap>>

\* acquire_lock finds the next key free.
Acquire(j) ==
  /\ task[j] = "acquiring"
  /\ request[j] \ held[j] # {}
  /\ owner[NextKey(j)] = Nobody
  /\ owner' = [owner EXCEPT ![NextKey(j)] = j]
  /\ held' = [held EXCEPT ![j] = @ \cup {NextKey(j)}]
  /\ UNCHANGED <<request, status, task, result, retries, lapsed, overlap>>

\* Mutant: the contention branch returns before the finally block.
ContendKeepingLeases(j) ==
  /\ task[j] = "acquiring"
  /\ request[j] \ held[j] # {}
  /\ owner[NextKey(j)] # Nobody
  /\ result' = [result EXCEPT ![j] = "contention"]
  /\ status' = [status EXCEPT ![j] = "failed"]
  /\ task' = [task EXCEPT ![j] = "over"]
  /\ UNCHANGED <<request, retries, held, owner, lapsed, overlap>>

\* Mutant: the job waits for a later attempt, which is not counted.
ContendWaiting(j) ==
  /\ task[j] = "acquiring"
  /\ request[j] \ held[j] # {}
  /\ owner[NextKey(j)] # Nobody
  /\ task' = [task EXCEPT ![j] = "waiting"]
  /\ UNCHANGED <<request, status, result, retries, held, owner, lapsed, overlap>>

\* acquire_lock returns None: the job fails at once, the leases it already
\* took go back.
Contend(j) ==
  /\ task[j] = "acquiring"
  /\ request[j] \ held[j] # {}
  /\ owner[NextKey(j)] # Nobody
  /\ result' = [result EXCEPT ![j] = "contention"]
  /\ status' = [status EXCEPT ![j] = "failed"]
  /\ task' = [task EXCEPT ![j] = "releasing"]
  /\ UNCHANGED <<request, retries, held, owner, lapsed, overlap>>

\* Every lease is held: work(db, job) begins.
Colleagues(j) == {i \in Job \ {j} : task[i] = "working" /\ ShareKey(i, j)}
BeginWork(j) ==
  /\ task[j] = "acquiring"
  /\ request[j] \subseteq held[j]
  /\ task' = [task EXCEPT ![j] = "working"]
  /\ overlap' = overlap \cup ({j} \X Colleagues(j)) \cup (Colleagues(j) \X {j})
  /\ UNCHANGED <<request, status, result, retries, held, owner, lapsed>>

\* work() returns or raises.  A playbook that ran is marked here, inside the
\* try block; an unreachable host or an error is dealt with after the release.
FinishWork(j, r) ==
  /\ task[j] = "working"
  /\ r \in {"ok", "failed", "unreachable", "error"}
  /\ result' = [result EXCEPT ![j] = r]
  /\ status' = [status EXCEPT ![j] = CASE r = "ok" -> "success"
                                       [] r = "failed" -> "failed"
                                       [] OTHER -> @]
  /\ task' = [task EXCEPT ![j] = "releasing"]
  /\ UNCHANGED <<request, retries, held, owner, lapsed, overlap>>

\* cancel_job on a running job: SIGTERM raises SystemExit in the task, whose
\* finally blocks still run, unless it strikes in the release loop itself;
\* cancel_job commits status = failed.
Terminate(j) ==
  /\ Executing(j)
  /\ status[j] = "running"
  /\ result' = [result EXCEPT ![j] = "terminated"]
  /\ status' = [status EXCEPT ![j] = "failed"]
  /\ task' = [task EXCEPT ![j] = IF @ = "releasing" THEN "dead" ELSE "releasing"]
  /\ UNCHANGED <<request, retries, held, owner, lapsed, overlap>>

\* lock.release() succeeds only while Redis still stores the caller's token.
Release(j) ==
  /\ task[j] = "releasing"
  /\ held[j] # {}
  /\ owner[NextRelease(j)] = j
  /\ owner' = [owner EXCEPT ![NextRelease(j)] = Nobody]
  /\ held' = [held EXCEPT ![j] = @ \ {NextRelease(j)}]
  /\ UNCHANGED <<request, status, task, result, retries, lapsed, overlap>>

\* Mutant: the error of a release that lost its lease is swallowed.
ReleaseFailsSilently(j) ==
  /\ task[j] = "releasing"
  /\ held[j] # {}
  /\ owner[NextRelease(j)] # j
  /\ task' = [task EXCEPT ![j] = "over"]
  /\ UNCHANGED <<request, status, result, retries, held, owner, lapsed, overlap>>

\* Otherwise it raises: the loop stops, the leases after this one stay in
\* Redis, and _handle_generic_exception marks the job failed, even one that
\* was just marked success; the exception is not retried.
ReleaseFails(j) ==
  /\ task[j] = "releasing"
  /\ held[j] # {}
  /\ owner[NextRelease(j)] # j
  /\ status' = [status EXCEPT ![j] = "failed"]
  /\ task' = [task EXCEPT ![j] = "over"]
  /\ UNCHANGED <<request, result, retries, held, owner, lapsed, overlap>>

\* Mutants: one retry too many; a retry that is not counted.
RetryableOnceMore(j) == result[j] = "unreachable" /\ retries[j] <= MaxRetries
EndAttemptUncounted(j) ==
  /\ task[j] = "releasing"
  /\ held[j] = {}
  /\ task' = [task EXCEPT ![j] = IF result[j] = "unreachable" THEN "waiting"
                                 ELSE "over"]
  /\ UNCHANGED <<request, status, result, retries, held, owner, lapsed, overlap>>

\* Every lease is given back: an unreachable host is retried until the
\* retries run out, anything else ends the task.
Retryable(j) == result[j] = "unreachable" /\ retries[j] < MaxRetries
EndAttempt(j) ==
  /\ task[j] = "releasing"
  /\ held[j] = {}
  /\ \/ /\ Retryable(j)
        /\ retries' = [retries EXCEPT ![j] = @ + 1]
        /\ task' = [task EXCEPT ![j] = "waiting"]
        /\ UNCHANGED status
     \/ /\ ~Retryable(j)
        /\ status' = IF result[j] \in {"unreachable", "error"}
                     THEN [status EXCEPT ![j] = "failed"]
                     ELSE status
        /\ task' = [task EXCEPT ![j] = "over"]
        /\ UNCHANGED retries
  /\ UNCHANGED <<request, result, held, owner, lapsed, overlap>>

\* The worker process dies: no finally block runs, the message is already
\* acknowledged, nothing runs the task again.
Crash(j) ==
  /\ Executing(j)
  /\ task' = [task EXCEPT ![j] = "dead"]
  /\ UNCHANGED <<request, status, result, retries, held, owner, lapsed, overlap>>

\* Mutant: the lease is taken without a timeout.
LapseNever(k) == FALSE /\ UNCHANGED vars

\* LOCK_TIMEOUT_SECONDS after it was granted, Redis forgets the lease.
Lapse(k) ==
  /\ owner[k] # Nobody
  /\ owner' = [owner EXCEPT ![k] = Nobody]
  /\ lapsed' = lapsed \cup {owner[k]}
  /\ UNCHANGED <<request, status, task, result, retries, held, overlap>>

-----------------------------------------------------------------------------
TaskStep(j) ==
  \/ Start(j) \/ Acquire(j) \/ Contend(j) \/ BeginWork(j)
  \/ \E r \in Result : FinishWork(j, r)
  \/ Release(j) \/ ReleaseFails(j) \/ EndAttempt(j)

Next ==
  \/ \E j \in Job : \/ \E r \in Request : Trigger(j, r)
                    \/ TaskStep(j)
                    \/ Terminate(j)
                    \/ Crash(j)
  \/ \E k \in Key : Lapse(k)

Spec == Init /\ [][Next]_vars

\* Workers keep executing what they took, a playbook run ends, and Redis
\* drops every lease in the end.  Nobody has to press a button.
Fairness ==
  /\ \A j \in Job : WF_vars(TaskStep(j))
  /\ \A k \in Key : WF_vars(Lapse(k))
FairSpec == Spec /\ Fairness

-----------------------------------------------------------------------------
(* Properties. *)

\* Two tasks work under the same key at the same time only when one of them
\* outlived a lease: fail-fast acquisition (locking.acquire_lock) and
\* token-checked release never let a third party in otherwise, whatever
\* crashes, retries and late releases happened before.
SharedKeyExclusion ==
  \A i, j \in Job :
    /\ i # j /\ ShareKey(i, j)
    /\ task[i] = "working" /\ task[j] = "working"
    => i \in lapsed \/ j \in lapsed

\* Jobs that worked on one resource at once are never both reported
\* successful by tasks that ran to their end: the one whose lease ran out
\* fails in its finally block (the release raises), even after _mark_job
\* committed success.
OverlapNeverBothSucceed ==
  \A i, j \in Job :
    /\ <<i, j>> \in overlap
    /\ task[i] = "over" /\ task[j] = "over"
    => ~(status[i] = "success" /\ status[j] = "success")

\* A lease in Redis belongs to a task that is executing, to one that died,
\* or to one whose release loop stopped at a lease that had run out; a task
\* that waits for its retry, or ended any other way, left none behind.
NoStrayLease ==
  \A k \in Key : owner[k] # Nobody =>
    LET j == owner[k] IN
      \/ Executing(j)
      \/ task[j] = "dead"
      \/ task[j] = "over" /\ j \in lapsed

\* Acquiring in sorted order, overlapping jobs cannot all fail by taking
\* each other's next lease: of all jobs of a finished batch, one did not
\* end in lock contention (_run_locked_job_multi's docstring), or had worked
\* before and met the contention in its retry only.
SomeoneWins ==
  Job # {} /\ (\A j \in Job : task[j] = "over")
    => \E j \in Job : result[j] # "contention" \/ retries[j] > 0

\* What is left of j's task: attempts, then the stages of this one, then the
\* leases to take or to give back.
Stage == [idle |-> 5, queued |-> 4, waiting |-> 4, acquiring |-> 3, working |-> 2,
          releasing |-> 1, over |-> 0, dead |-> 0]
Ahead(j) == IF task[j] = "acquiring" THEN request[j] \ held[j] ELSE held[j]
Rest(j) == <<MaxRetries - retries[j], Stage[task[j]], Cardinality(Ahead(j))>>
Less(x, y) == \E n \in 1..3 : x[n] < y[n] /\ \A m \in 1..(n - 1) : x[m] = y[m]

\* Every step of a task brings it closer to its end, and no step of anybody
\* else sets it back: neither a lease that runs out, nor a cancel that reaches
\* its release loop, nor a retry that starts from the first lease again.
TasksWearDown ==
  [][\A j \in Job : /\ TaskStep(j) => Less(Rest(j)', Rest(j))
                    /\ Rest(j)' = Rest(j) \/ Less(Rest(j)', Rest(j))]_vars

\* Every triggered job's task ends, whoever holds what: no task waits for a
\* lease and retries are bounded.
EveryTaskEnds ==
  \A j \in Job : task[j] = "queued" ~> task[j] \in {"over", "dead"}

\* Whatever dies or leaks, no key stays taken for good.
LeasesComeBack == \A k \in Key : []<>(owner[k] = Nobody)
=============================================================================

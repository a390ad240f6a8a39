-------------------------- MODULE JobDispatch_proofs --------------------------
(***************************************************************************)
(* Proofs about JobDispatch, for any jobs, hosts, beacons, requests, retry *)
(* bound and faults: type correctness, the finality of settled jobs and of *)
(* retired actions, and that an open job is never forgotten.               *)
(***************************************************************************)
EXTENDS JobDispatch, TLAPS

USE BeaconAssumption, BoundAssumption, NoJobAssumption

\* The row of a BeaconAction names its job, its host and the attempt.
LEMMA ActionParts ==
  ASSUME NEW a \in Action
  PROVE  /\ a[1] \in Job /\ a[2] \in Beacon /\ a[3] \in Attempt
         /\ a = <<a[1], a[2], a[3]>>
  BY DEF Action

LEMMA DispatchedActions ==
  ASSUME TypeOK, NEW j \in Job
  PROVE  {j} \X BeaconTargets(j) \X {attempt[j]} \subseteq ActionsOf(j)
  BY DEF TypeOK, Action, ActionsOf, BeaconTargets

LEMMA MarkType ==
  ASSUME TypeOK, NEW S, NEW s \in {"none"} \cup Open \cup Resolved
  PROVE  Mark(S, s) \in [Action -> {"none"} \cup Open \cup Resolved]
  BY DEF TypeOK, Mark

-----------------------------------------------------------------------------
(* Type correctness. *)

LEMMA InitTypeOK == Init => TypeOK
<1>. SUFFICES ASSUME Init PROVE TypeOK
  OBVIOUS
<1>. USE DEF Init, TypeOK
<1>1. request \in [Job -> [kind : Kind, targets : SUBSET Server]]
  BY DEF Kind
<1>2. attempt \in [Job -> Attempt] /\ restarts \in 0..MaxRestarts
  BY DEF Attempt
<1>3. fin \in [Finalizer -> [step : {"idle", "todo"} \cup Closed,
                             job : Job \cup {NoJob}]]
  BY DEF IdleFin
<1>4. checkin \in [Beacon -> [open : BOOLEAN, fresh : SUBSET Action,
                              again : SUBSET Action]]
  BY DEF NoCheckin
<1>5. sweep \in [stale : SUBSET Action, jobs : SUBSET Job]
  BY DEF IdleSweep
<1>6. cancel \in [step : {"idle", "read", "chosen"}, job : Job \cup {NoJob},
                  acts : SUBSET Action]
  BY DEF IdleCancel
<1>7. reaper \in [step : {"serving", "starting", "inspected"}, seen : SUBSET Job]
  BY DEF Serving
<1>. QED
  BY <1>1, <1>2, <1>3, <1>4, <1>5, <1>6, <1>7 DEF Status, Place

LEMMA NextTypeOK == TypeOK /\ [Next]_vars => TypeOK'
<1>. SUFFICES ASSUME TypeOK, [Next]_vars PROVE TypeOK'
  OBVIOUS
<1>. USE DEF TypeOK, taskVars, handlerVars, apiVars
<1>1. ASSUME NEW j \in Job, NEW r \in Request, Create(j, r) PROVE TypeOK'
  BY <1>1, RequestAssumption DEF Create, Status, Place
<1>2. ASSUME NEW j \in Job, Send(j) PROVE TypeOK'
  BY <1>2 DEF Send, Place
<1>3. ASSUME NEW j \in Job, Start(j) PROVE TypeOK'
  BY <1>3 DEF Start, Status, Place
<1>4. ASSUME NEW j \in Job, LockBusy(j) PROVE TypeOK'
  BY <1>4 DEF LockBusy, Status, Closed, Place
<1>5. ASSUME NEW j \in Job, Dispatch(j) PROVE TypeOK'
  <2>1. action' \in [Action -> {"none"} \cup Open \cup Resolved]
    BY <1>5, MarkType DEF Dispatch, Open
  <2>2. task' \in [Job -> Place]
    BY <1>5 DEF Dispatch, Place
  <2>. QED  BY <1>5, <2>1, <2>2 DEF Dispatch
<1>6. ASSUME NEW j \in Job, NEW outcome \in Closed, SshEnd(j, outcome)
      PROVE  TypeOK'
  <2>1. status' \in [Job -> Status]
    BY <1>6 DEF SshEnd, Status
  <2>. QED  BY <1>6, <2>1 DEF SshEnd, Place
<1>7. ASSUME NEW j \in Job, SshRetry(j) PROVE TypeOK'
  <2>1. attempt[j] + 1 \in Attempt
    BY <1>7 DEF SshRetry, Attempt
  <2>. QED  BY <1>7, <2>1 DEF SshRetry, Place
<1>8. ASSUME NEW j \in Job, SshGivesUp(j) PROVE TypeOK'
  BY <1>8 DEF SshGivesUp, Status, Closed, Place
<1>9. ASSUME NEW j \in Job, TaskError(j) PROVE TypeOK'
  BY <1>9 DEF TaskError, Status, Closed, Place
<1>10. ASSUME NEW j \in Job, Killed(j) PROVE TypeOK'
  BY <1>10 DEF Killed, Place
<1>11. ASSUME NEW j \in Job, Crash(j) PROVE TypeOK'
  BY <1>11 DEF Crash, Place
<1>12. ASSUME NEW b \in Beacon, CheckinRead(b) PROVE TypeOK'
  BY <1>12 DEF CheckinRead, ActionsAt
<1>13. ASSUME NEW b \in Beacon, NEW arrives \in BOOLEAN,
              CheckinCommit(b, arrives)
       PROVE  TypeOK'
  <2>1. action' \in [Action -> {"none"} \cup Open \cup Resolved]
    BY <1>13, MarkType DEF CheckinCommit, Open
  <2>2. basket' \in [Beacon -> SUBSET Action]
    BY <1>13 DEF CheckinCommit
  <2>. QED  BY <1>13, <2>1, <2>2 DEF CheckinCommit, NoCheckin
<1>14. ASSUME NEW b \in Beacon, NEW a \in Action,
              NEW outcome \in {"succeeded", "failed"}, Report(b, a, outcome)
       PROVE  TypeOK'
  <2>1. action' \in [Action -> {"none"} \cup Open \cup Resolved]
    BY <1>14, MarkType DEF Report, Resolved
  <2>2. [step |-> "todo", job |-> a[1]]
          \in [step : {"idle", "todo"} \cup Closed, job : Job \cup {NoJob}]
    BY ActionParts
  <2>3. fin' \in [Finalizer -> [step : {"idle", "todo"} \cup Closed,
                                job : Job \cup {NoJob}]]
    BY <1>14, <2>2 DEF Report
  <2>. QED  BY <1>14, <2>1, <2>3 DEF Report
<1>15. ASSUME NEW b \in Beacon, AgentStops(b) PROVE TypeOK'
  BY <1>15 DEF AgentStops
<1>16. ASSUME NEW p \in Finalizer, FinRead(p) PROVE TypeOK'
  <2>1. fin[p].job \in Job \cup {NoJob}
    OBVIOUS
  <2>2. PICK s \in {"success", "failed"} :
          fin' = [fin EXCEPT ![p] = [step |-> s, job |-> fin[p].job]]
          \/ fin' = [fin EXCEPT ![p] = IdleFin]
    BY <1>16 DEF FinRead
  <2>3. fin' \in [Finalizer -> [step : {"idle", "todo"} \cup Closed,
                                job : Job \cup {NoJob}]]
    BY <2>1, <2>2 DEF IdleFin, Closed
  <2>. QED  BY <1>16, <2>3 DEF FinRead
<1>17. ASSUME NEW p \in Finalizer, FinWrite(p) PROVE TypeOK'
  <2>1. status' \in [Job -> Status]
    BY <1>17 DEF FinWrite, Status
  <2>2. fin' \in [Finalizer -> [step : {"idle", "todo"} \cup Closed,
                                job : Job \cup {NoJob}]]
    BY <1>17 DEF FinWrite, IdleFin
  <2>. QED  BY <1>17, <2>1, <2>2 DEF FinWrite
<1>18. ASSUME NEW S \in SUBSET Action, SweepRead(S) PROVE TypeOK'
  BY <1>18 DEF SweepRead
<1>19. ASSUME SweepCommit PROVE TypeOK'
  <2>1. action' \in [Action -> {"none"} \cup Open \cup Resolved]
    BY <1>19, MarkType DEF SweepCommit, Resolved
  <2>2. {a[1] : a \in sweep.stale} \subseteq Job
    BY ActionParts
  <2>. QED  BY <1>19, <2>1, <2>2 DEF SweepCommit
<1>20. ASSUME NEW j \in Job, SweepNext(j) PROVE TypeOK'
  BY <1>20 DEF SweepNext
<1>21. ASSUME SweepCrash PROVE TypeOK'
  <2>1. Sweeper \in Finalizer
    BY DEF Finalizer
  <2>2. fin[Sweeper].job \in Job \cup {NoJob}
    BY <2>1
  <2>. QED  BY <1>21, <2>1, <2>2 DEF SweepCrash, IdleSweep, IdleFin
<1>22. ASSUME NEW j \in Job, CancelRead(j) PROVE TypeOK'
  <2>1. revoked' \subseteq Job
    BY <1>22 DEF CancelRead
  <2>. QED  BY <1>22, <2>1 DEF CancelRead
<1>23. ASSUME CancelChoose PROVE TypeOK'
  BY <1>23 DEF CancelChoose, ActionsOf
<1>24. ASSUME CancelCommit PROVE TypeOK'
  <2>1. action' \in [Action -> {"none"} \cup Open \cup Resolved]
    BY <1>24, MarkType DEF CancelCommit, Resolved
  <2>. QED  BY <1>24, <2>1 DEF CancelCommit, IdleCancel, Status, Closed
<1>25. ASSUME ApiRestart PROVE TypeOK'
  <2>1. checkin' \in [Beacon -> [open : BOOLEAN, fresh : SUBSET Action,
                                 again : SUBSET Action]]
    BY <1>25 DEF ApiRestart, NoCheckin
  <2>2. fin' \in [Finalizer -> [step : {"idle", "todo"} \cup Closed,
                                job : Job \cup {NoJob}]]
    BY <1>25 DEF ApiRestart, IdleFin
  <2>3. task' \in [Job -> Place]
    BY <1>25 DEF ApiRestart, Place
  <2>4. restarts' \in 0..MaxRestarts
    BY <1>25 DEF ApiRestart
  <2>. QED  BY <1>25, <2>1, <2>2, <2>3, <2>4 DEF ApiRestart, IdleCancel
<1>26. ASSUME NEW seen \in SUBSET Job, ReapInspect(seen) PROVE TypeOK'
  BY <1>26 DEF ReapInspect
<1>27. ASSUME ReapSkip PROVE TypeOK'
  BY <1>27 DEF ReapSkip, Serving
<1>28. ASSUME ReapCommit PROVE TypeOK'
  BY <1>28 DEF ReapCommit, Serving, Status, Closed
<1>29. CASE UNCHANGED vars
  BY <1>29 DEF vars
<1>. QED
  BY <1>1, <1>2, <1>3, <1>4, <1>5, <1>6, <1>7, <1>8, <1>9, <1>10, <1>11,
     <1>12, <1>13, <1>14, <1>15, <1>16, <1>17, <1>18, <1>19, <1>20, <1>21,
     <1>22, <1>23, <1>24, <1>25, <1>26, <1>27, <1>28, <1>29
     DEF Next, TaskStep, BeaconStep, FinStep, SweepGoesOn, CancelGoesOn

\* Every variable keeps its type, for any jobs, hosts, requests and bounds.
THEOREM TypeCorrect == Spec => []TypeOK
  BY InitTypeOK, NextTypeOK, PTL DEF Spec

-----------------------------------------------------------------------------
(* Settled jobs. *)

\* Every writer of a status first reads it, or belongs to a task that is not
\* over yet.
LEMMA SettledForGood ==
  ASSUME TypeOK, [Next]_vars, NEW i \in Job, Settled(i)
  PROVE  Settled(i)' /\ status'[i] = status[i]
<1>. DEFINE Kept == Settled(i)' /\ status'[i] = status[i]
<1>. USE DEF TypeOK, Settled, Closed, taskVars, handlerVars, apiVars
<1>1. ASSUME NEW j \in Job, NEW r \in Request, Create(j, r) PROVE Kept
  BY <1>1 DEF Create
<1>2. ASSUME NEW j \in Job, Send(j) PROVE Kept
  BY <1>2 DEF Send
<1>3. ASSUME NEW j \in Job, Start(j) PROVE Kept
  BY <1>3 DEF Start
<1>4. ASSUME NEW j \in Job, LockBusy(j) PROVE Kept
  BY <1>4 DEF LockBusy
<1>5. ASSUME NEW j \in Job, Dispatch(j) PROVE Kept
  BY <1>5 DEF Dispatch
<1>6. ASSUME NEW j \in Job, NEW outcome \in Closed, SshEnd(j, outcome)
      PROVE  Kept
  BY <1>6 DEF SshEnd
<1>7. ASSUME NEW j \in Job, SshRetry(j) PROVE Kept
  BY <1>7 DEF SshRetry
<1>8. ASSUME NEW j \in Job, SshGivesUp(j) PROVE Kept
  BY <1>8 DEF SshGivesUp
<1>9. ASSUME NEW j \in Job, TaskError(j) PROVE Kept
  BY <1>9 DEF TaskError, Executing
<1>10. ASSUME NEW j \in Job, Killed(j) PROVE Kept
  BY <1>10 DEF Killed, Executing
<1>11. ASSUME NEW j \in Job, Crash(j) PROVE Kept
  BY <1>11 DEF Crash, Executing
<1>12. ASSUME NEW b \in Beacon, CheckinRead(b) PROVE Kept
  BY <1>12 DEF CheckinRead
<1>13. ASSUME NEW b \in Beacon, NEW arrives \in BOOLEAN,
              CheckinCommit(b, arrives)
       PROVE  Kept
  BY <1>13 DEF CheckinCommit
<1>14. ASSUME NEW b \in Beacon, NEW a \in Action,
              NEW outcome \in {"succeeded", "failed"}, Report(b, a, outcome)
       PROVE  Kept
  BY <1>14 DEF Report, Finalizer
<1>15. ASSUME NEW b \in Beacon, AgentStops(b) PROVE Kept
  BY <1>15 DEF AgentStops
<1>16. ASSUME NEW p \in Finalizer, FinRead(p) PROVE Kept
  <2>1. CASE fin[p].job = i
    <3>1. fin' = [fin EXCEPT ![p] = IdleFin]
      BY <1>16, <2>1 DEF FinRead
    <3>. QED  BY <1>16, <3>1 DEF FinRead, IdleFin
  <2>2. CASE fin[p].job # i
    <3>1. fin'[p].job # i
      BY <1>16, <2>2 DEF FinRead, IdleFin
    <3>2. \A q \in Finalizer : q # p => fin'[q] = fin[q]
      BY <1>16 DEF FinRead
    <3>. QED  BY <1>16, <3>1, <3>2 DEF FinRead
  <2>. QED  BY <2>1, <2>2
<1>17. ASSUME NEW p \in Finalizer, FinWrite(p) PROVE Kept
  BY <1>17 DEF FinWrite, IdleFin
<1>18. ASSUME NEW S \in SUBSET Action, SweepRead(S) PROVE Kept
  BY <1>18 DEF SweepRead
<1>19. ASSUME SweepCommit PROVE Kept
  BY <1>19 DEF SweepCommit
<1>20. ASSUME NEW j \in Job, SweepNext(j) PROVE Kept
  BY <1>20 DEF SweepNext, Finalizer
<1>21. ASSUME SweepCrash PROVE Kept
  BY <1>21 DEF SweepCrash, IdleFin
<1>22. ASSUME NEW j \in Job, CancelRead(j) PROVE Kept
  BY <1>22 DEF CancelRead
<1>23. ASSUME CancelChoose PROVE Kept
  BY <1>23 DEF CancelChoose
<1>24. ASSUME CancelCommit PROVE Kept
  BY <1>24 DEF CancelCommit, IdleCancel
<1>25. ASSUME ApiRestart PROVE Kept
  BY <1>25 DEF ApiRestart, IdleCancel, IdleFin
<1>26. ASSUME NEW seen \in SUBSET Job, ReapInspect(seen) PROVE Kept
  BY <1>26 DEF ReapInspect
<1>27. ASSUME ReapSkip PROVE Kept
  BY <1>27 DEF ReapSkip
<1>28. ASSUME ReapCommit PROVE Kept
  BY <1>28 DEF ReapCommit
<1>29. CASE UNCHANGED vars
  BY <1>29 DEF vars
<1>. QED
  BY <1>1, <1>2, <1>3, <1>4, <1>5, <1>6, <1>7, <1>8, <1>9, <1>10, <1>11,
     <1>12, <1>13, <1>14, <1>15, <1>16, <1>17, <1>18, <1>19, <1>20, <1>21,
     <1>22, <1>23, <1>24, <1>25, <1>26, <1>27, <1>28, <1>29
     DEF Next, TaskStep, BeaconStep, FinStep, SweepGoesOn, CancelGoesOn

\* A job that is closed when its task has ended and nobody is about to write
\* it stays so, whatever is reported, swept, cancelled or reaped later.
THEOREM SettledStays == Spec => ClosedStays
<1>1. TypeOK /\ [Next]_vars =>
        [\A j \in Job : Settled(j) => Settled(j)' /\ status'[j] = status[j]]_vars
  BY SettledForGood
<1>. QED  BY <1>1, TypeCorrect, PTL DEF Spec, ClosedStays

-----------------------------------------------------------------------------
(* Retired actions.  The one step that could bring a resolved action back is *)
(* a Dispatch that creates it a second time; it does not, since an action    *)
(* carries the attempt it was created by and every retry has a new number.   *)

Held(a) ==
  \/ \E b \in Beacon : a \in checkin[b].fresh \cup checkin[b].again \cup basket[b]
  \/ a \in sweep.stale \cup cancel.acts
Known(a) == action[a] # "none" \/ Held(a)

\* The attempt that creates a has come to its dispatch.
Dispatched(a) ==
  \/ a[3] < attempt[a[1]]
  \/ a[3] = attempt[a[1]] /\ task[a[1]] \in {"ssh", "over", "dead"}

KnownDispatched == \A a \in Action : Known(a) => Dispatched(a)

LEMMA DispatchedForGood ==
  ASSUME TypeOK, [Next]_vars, NEW a \in Action, Dispatched(a)
  PROVE  Dispatched(a)'
<1>. USE ActionParts DEF TypeOK, Dispatched, Attempt, taskVars, handlerVars, apiVars
<1>1. ASSUME NEW j \in Job, NEW r \in Request, Create(j, r)
       PROVE Dispatched(a)'
  BY <1>1 DEF Create
<1>2. ASSUME NEW j \in Job, Send(j) PROVE Dispatched(a)'
  BY <1>2 DEF Send
<1>3. ASSUME NEW j \in Job, Start(j) PROVE Dispatched(a)'
  BY <1>3 DEF Start
<1>4. ASSUME NEW j \in Job, LockBusy(j) PROVE Dispatched(a)'
  BY <1>4 DEF LockBusy
<1>5. ASSUME NEW j \in Job, Dispatch(j) PROVE Dispatched(a)'
  BY <1>5 DEF Dispatch
<1>6. ASSUME NEW j \in Job, NEW outcome \in Closed, SshEnd(j, outcome)
       PROVE Dispatched(a)'
  BY <1>6 DEF SshEnd
<1>7. ASSUME NEW j \in Job, SshRetry(j) PROVE Dispatched(a)'
  BY <1>7 DEF SshRetry
<1>8. ASSUME NEW j \in Job, SshGivesUp(j) PROVE Dispatched(a)'
  BY <1>8 DEF SshGivesUp
<1>9. ASSUME NEW j \in Job, TaskError(j) PROVE Dispatched(a)'
  BY <1>9 DEF TaskError, Executing
<1>10. ASSUME NEW j \in Job, Killed(j) PROVE Dispatched(a)'
  BY <1>10 DEF Killed, Executing
<1>11. ASSUME NEW j \in Job, Crash(j) PROVE Dispatched(a)'
  BY <1>11 DEF Crash, Executing
<1>12. ASSUME NEW b \in Beacon, CheckinRead(b) PROVE Dispatched(a)'
  BY <1>12 DEF CheckinRead
<1>13. ASSUME NEW b \in Beacon, NEW arrives \in BOOLEAN,
              CheckinCommit(b, arrives)
       PROVE Dispatched(a)'
  BY <1>13 DEF CheckinCommit
<1>14. ASSUME NEW b \in Beacon, NEW x \in Action,
              NEW outcome \in {"succeeded", "failed"}, Report(b, x, outcome)
       PROVE Dispatched(a)'
  BY <1>14 DEF Report
<1>15. ASSUME NEW b \in Beacon, AgentStops(b) PROVE Dispatched(a)'
  BY <1>15 DEF AgentStops
<1>16. ASSUME NEW p \in Finalizer, FinRead(p) PROVE Dispatched(a)'
  BY <1>16 DEF FinRead
<1>17. ASSUME NEW p \in Finalizer, FinWrite(p) PROVE Dispatched(a)'
  BY <1>17 DEF FinWrite
<1>18. ASSUME NEW S \in SUBSET Action, SweepRead(S) PROVE Dispatched(a)'
  BY <1>18 DEF SweepRead
<1>19. ASSUME SweepCommit PROVE Dispatched(a)'
  BY <1>19 DEF SweepCommit
<1>20. ASSUME NEW j \in Job, SweepNext(j) PROVE Dispatched(a)'
  BY <1>20 DEF SweepNext
<1>21. ASSUME SweepCrash PROVE Dispatched(a)'
  BY <1>21 DEF SweepCrash
<1>22. ASSUME NEW j \in Job, CancelRead(j) PROVE Dispatched(a)'
  BY <1>22 DEF CancelRead
<1>23. ASSUME CancelChoose PROVE Dispatched(a)'
  BY <1>23 DEF CancelChoose
<1>24. ASSUME CancelCommit PROVE Dispatched(a)'
  BY <1>24 DEF CancelCommit
<1>25. ASSUME ApiRestart PROVE Dispatched(a)'
  BY <1>25 DEF ApiRestart
<1>26. ASSUME NEW seen \in SUBSET Job, ReapInspect(seen)
       PROVE Dispatched(a)'
  BY <1>26 DEF ReapInspect
<1>27. ASSUME ReapSkip PROVE Dispatched(a)'
  BY <1>27 DEF ReapSkip
<1>28. ASSUME ReapCommit PROVE Dispatched(a)'
  BY <1>28 DEF ReapCommit
<1>29. CASE UNCHANGED vars
  BY <1>29 DEF vars
<1>. QED
  BY <1>1, <1>2, <1>3, <1>4, <1>5, <1>6, <1>7, <1>8, <1>9, <1>10, <1>11,
     <1>12, <1>13, <1>14, <1>15, <1>16, <1>17, <1>18, <1>19, <1>20, <1>21,
     <1>22, <1>23, <1>24, <1>25, <1>26, <1>27, <1>28, <1>29
     DEF Next, TaskStep, BeaconStep, FinStep, SweepGoesOn, CancelGoesOn

\* Only a dispatch makes an action known.
LEMMA KnownByDispatch ==
  ASSUME TypeOK, [Next]_vars, NEW a \in Action, Known(a)'
  PROVE  Known(a) \/ Dispatched(a)'
<1>. DEFINE New == Known(a) \/ Dispatched(a)'
<1>. USE ActionParts DEF TypeOK, Known, Held, Mark, taskVars, handlerVars, apiVars
<1>1. ASSUME NEW j \in Job, NEW r \in Request, Create(j, r)
       PROVE New
  BY <1>1 DEF Create
<1>2. ASSUME NEW j \in Job, Send(j) PROVE New
  BY <1>2 DEF Send
<1>3. ASSUME NEW j \in Job, Start(j) PROVE New
  BY <1>3 DEF Start
<1>4. ASSUME NEW j \in Job, LockBusy(j) PROVE New
  BY <1>4 DEF LockBusy
<1>5. ASSUME NEW j \in Job, Dispatch(j) PROVE New
  <2>1. CASE a \in {j} \X BeaconTargets(j) \X {attempt[j]}
    <3>1. a[1] = j /\ a[3] = attempt[j]
      BY <2>1
    <3>. QED  BY <1>5, <3>1 DEF Dispatch, Dispatched
  <2>2. CASE a \notin {j} \X BeaconTargets(j) \X {attempt[j]}
    BY <1>5, <2>2 DEF Dispatch
  <2>. QED  BY <2>1, <2>2
<1>6. ASSUME NEW j \in Job, NEW outcome \in Closed, SshEnd(j, outcome)
       PROVE New
  BY <1>6 DEF SshEnd
<1>7. ASSUME NEW j \in Job, SshRetry(j) PROVE New
  BY <1>7 DEF SshRetry
<1>8. ASSUME NEW j \in Job, SshGivesUp(j) PROVE New
  BY <1>8 DEF SshGivesUp
<1>9. ASSUME NEW j \in Job, TaskError(j) PROVE New
  BY <1>9 DEF TaskError
<1>10. ASSUME NEW j \in Job, Killed(j) PROVE New
  BY <1>10 DEF Killed
<1>11. ASSUME NEW j \in Job, Crash(j) PROVE New
  BY <1>11 DEF Crash
<1>12. ASSUME NEW b \in Beacon, CheckinRead(b) PROVE New
  BY <1>12 DEF CheckinRead, ActionsAt
<1>13. ASSUME NEW b \in Beacon, NEW arrives \in BOOLEAN,
              CheckinCommit(b, arrives)
       PROVE New
  BY <1>13 DEF CheckinCommit, NoCheckin
<1>14. ASSUME NEW b \in Beacon, NEW x \in Action,
              NEW outcome \in {"succeeded", "failed"}, Report(b, x, outcome)
       PROVE New
  BY <1>14 DEF Report
<1>15. ASSUME NEW b \in Beacon, AgentStops(b) PROVE New
  BY <1>15 DEF AgentStops
<1>16. ASSUME NEW p \in Finalizer, FinRead(p) PROVE New
  BY <1>16 DEF FinRead
<1>17. ASSUME NEW p \in Finalizer, FinWrite(p) PROVE New
  BY <1>17 DEF FinWrite
<1>18. ASSUME NEW S \in SUBSET Action, SweepRead(S) PROVE New
  BY <1>18 DEF SweepRead, Outstanding, Open
<1>19. ASSUME SweepCommit PROVE New
  BY <1>19 DEF SweepCommit
<1>20. ASSUME NEW j \in Job, SweepNext(j) PROVE New
  BY <1>20 DEF SweepNext
<1>21. ASSUME SweepCrash PROVE New
  BY <1>21 DEF SweepCrash, IdleSweep
<1>22. ASSUME NEW j \in Job, CancelRead(j) PROVE New
  BY <1>22 DEF CancelRead
<1>23. ASSUME CancelChoose PROVE New
  BY <1>23 DEF CancelChoose, ActionsOf
<1>24. ASSUME CancelCommit PROVE New
  BY <1>24 DEF CancelCommit, IdleCancel
<1>25. ASSUME ApiRestart PROVE New
  BY <1>25 DEF ApiRestart, IdleCancel, NoCheckin
<1>26. ASSUME NEW seen \in SUBSET Job, ReapInspect(seen)
       PROVE New
  BY <1>26 DEF ReapInspect
<1>27. ASSUME ReapSkip PROVE New
  BY <1>27 DEF ReapSkip
<1>28. ASSUME ReapCommit PROVE New
  BY <1>28 DEF ReapCommit
<1>29. CASE UNCHANGED vars
  BY <1>29 DEF vars
<1>. QED
  BY <1>1, <1>2, <1>3, <1>4, <1>5, <1>6, <1>7, <1>8, <1>9, <1>10, <1>11,
     <1>12, <1>13, <1>14, <1>15, <1>16, <1>17, <1>18, <1>19, <1>20, <1>21,
     <1>22, <1>23, <1>24, <1>25, <1>26, <1>27, <1>28, <1>29
     DEF Next, TaskStep, BeaconStep, FinStep, SweepGoesOn, CancelGoesOn

LEMMA InitKnownDispatched == Init => KnownDispatched
  BY DEF Init, KnownDispatched, Known, Held, NoCheckin, IdleSweep, IdleCancel

LEMMA NextKnownDispatched ==
  TypeOK /\ KnownDispatched /\ [Next]_vars => KnownDispatched'
<1>. SUFFICES ASSUME TypeOK, KnownDispatched, [Next]_vars,
                     NEW a \in Action, Known(a)'
              PROVE  Dispatched(a)'
  BY DEF KnownDispatched
<1>1. CASE Known(a)
  BY <1>1, DispatchedForGood DEF KnownDispatched
<1>2. CASE ~Known(a)
  BY <1>2, KnownByDispatch
<1>. QED  BY <1>1, <1>2

LEMMA RetiredForGood ==
  ASSUME TypeOK, KnownDispatched, [Next]_vars, NEW a \in Action, Retired(a)
  PROVE  Retired(a)' /\ action'[a] = action[a]
<1>. DEFINE Kept == Retired(a)' /\ action'[a] = action[a]
<1>. USE DEF TypeOK, Retired, Mark, taskVars, handlerVars, apiVars
<1>1. ASSUME NEW j \in Job, NEW r \in Request, Create(j, r)
       PROVE Kept
  BY <1>1 DEF Create
<1>2. ASSUME NEW j \in Job, Send(j) PROVE Kept
  BY <1>2 DEF Send
<1>3. ASSUME NEW j \in Job, Start(j) PROVE Kept
  BY <1>3 DEF Start
<1>4. ASSUME NEW j \in Job, LockBusy(j) PROVE Kept
  BY <1>4 DEF LockBusy
<1>5. ASSUME NEW j \in Job, Dispatch(j) PROVE Kept
  <2>1. Dispatched(a)
    BY DEF KnownDispatched, Known, Resolved
  <2>2. a[1] # j \/ a[3] < attempt[j]
    BY <1>5, <2>1 DEF Dispatch, Dispatched
  <2>3. a \notin {j} \X BeaconTargets(j) \X {attempt[j]}
    <3>1. attempt[j] \in Nat
      BY DEF Attempt
    <3>. QED  BY <2>2, <3>1
  <2>. QED  BY <1>5, <2>3 DEF Dispatch
<1>6. ASSUME NEW j \in Job, NEW outcome \in Closed, SshEnd(j, outcome)
       PROVE Kept
  BY <1>6 DEF SshEnd
<1>7. ASSUME NEW j \in Job, SshRetry(j) PROVE Kept
  BY <1>7 DEF SshRetry
<1>8. ASSUME NEW j \in Job, SshGivesUp(j) PROVE Kept
  BY <1>8 DEF SshGivesUp
<1>9. ASSUME NEW j \in Job, TaskError(j) PROVE Kept
  BY <1>9 DEF TaskError
<1>10. ASSUME NEW j \in Job, Killed(j) PROVE Kept
  BY <1>10 DEF Killed
<1>11. ASSUME NEW j \in Job, Crash(j) PROVE Kept
  BY <1>11 DEF Crash
<1>12. ASSUME NEW b \in Beacon, CheckinRead(b) PROVE Kept
  BY <1>12 DEF CheckinRead, Resolved
<1>13. ASSUME NEW b \in Beacon, NEW arrives \in BOOLEAN,
              CheckinCommit(b, arrives)
       PROVE Kept
  BY <1>13 DEF CheckinCommit, NoCheckin
<1>14. ASSUME NEW b \in Beacon, NEW x \in Action,
              NEW outcome \in {"succeeded", "failed"}, Report(b, x, outcome)
       PROVE Kept
  BY <1>14 DEF Report
<1>15. ASSUME NEW b \in Beacon, AgentStops(b) PROVE Kept
  BY <1>15 DEF AgentStops
<1>16. ASSUME NEW p \in Finalizer, FinRead(p) PROVE Kept
  BY <1>16 DEF FinRead
<1>17. ASSUME NEW p \in Finalizer, FinWrite(p) PROVE Kept
  BY <1>17 DEF FinWrite
<1>18. ASSUME NEW S \in SUBSET Action, SweepRead(S) PROVE Kept
  BY <1>18 DEF SweepRead, Outstanding, Open, Resolved
<1>19. ASSUME SweepCommit PROVE Kept
  BY <1>19 DEF SweepCommit
<1>20. ASSUME NEW j \in Job, SweepNext(j) PROVE Kept
  BY <1>20 DEF SweepNext
<1>21. ASSUME SweepCrash PROVE Kept
  BY <1>21 DEF SweepCrash, IdleSweep
<1>22. ASSUME NEW j \in Job, CancelRead(j) PROVE Kept
  BY <1>22 DEF CancelRead
<1>23. ASSUME CancelChoose PROVE Kept
  BY <1>23 DEF CancelChoose, Resolved
<1>24. ASSUME CancelCommit PROVE Kept
  BY <1>24 DEF CancelCommit, IdleCancel
<1>25. ASSUME ApiRestart PROVE Kept
  BY <1>25 DEF ApiRestart, IdleCancel, NoCheckin
<1>26. ASSUME NEW seen \in SUBSET Job, ReapInspect(seen)
       PROVE Kept
  BY <1>26 DEF ReapInspect
<1>27. ASSUME ReapSkip PROVE Kept
  BY <1>27 DEF ReapSkip
<1>28. ASSUME ReapCommit PROVE Kept
  BY <1>28 DEF ReapCommit
<1>29. CASE UNCHANGED vars
  BY <1>29 DEF vars
<1>. QED
  BY <1>1, <1>2, <1>3, <1>4, <1>5, <1>6, <1>7, <1>8, <1>9, <1>10, <1>11,
     <1>12, <1>13, <1>14, <1>15, <1>16, <1>17, <1>18, <1>19, <1>20, <1>21,
     <1>22, <1>23, <1>24, <1>25, <1>26, <1>27, <1>28, <1>29
     DEF Next, TaskStep, BeaconStep, FinStep, SweepGoesOn, CancelGoesOn

\* An action that is resolved and of which no copy is under way is never
\* handed out, run or changed again, however its job is retried.
THEOREM RetiredActionsStay == Spec => RetiredStays
<1>1. Spec => [](TypeOK /\ KnownDispatched)
  BY InitTypeOK, NextTypeOK, InitKnownDispatched, NextKnownDispatched, PTL DEF Spec
<1>2. TypeOK /\ KnownDispatched /\ [Next]_vars =>
        [\A a \in Action : Retired(a) => Retired(a)' /\ action'[a] = action[a]]_vars
  BY RetiredForGood
<1>. QED  BY <1>1, <1>2, PTL DEF Spec, RetiredStays

-----------------------------------------------------------------------------
(* Open jobs.  Who is to close a job is handed on from the task to its       *)
(* actions, from an action to the handler that resolves it, and from the     *)
(* sweep to _finalize_job_if_resolvable.                                     *)

\* The handlers that are at rest hold no job, the others hold one.
HandlersHold ==
  /\ \A p \in Finalizer : fin[p].step = "idle" <=> fin[p].job = NoJob
  /\ sweep.stale # {} => sweep.jobs = {}
  /\ cancel.step = "idle" <=> cancel.job = NoJob
  /\ cancel.acts \subseteq ActionsOf(cancel.job)

\* A revoked task is that of a job whose cancellation goes on, or is lost.
RevokedIsCancelled ==
  \A j \in revoked : status[j] = "running" => cancel.job = j \/ j \in orphan

PendingHasTask ==
  \A j \in Job : status[j] = "pending" =>
                 task[j] \in {"unsent", "queued"} \/ j \in orphan

Closer(j) ==
  \/ ActionsOf(j) \cap Outstanding # {}
  \/ \E p \in Finalizer : fin[p].job = j
  \/ j \in sweep.jobs
  \/ cancel.job = j
  \/ j \in orphan

\* The task that closes the job itself: it has not dispatched yet, will start
\* again, or has no beacon among its targets.
ClosesItself(j) ==
  \/ task[j] \in {"started", "waiting"}
  \/ task[j] = "ssh" /\ BeaconTargets(j) = {}

RunningHasCloser ==
  \A j \in Job : status[j] = "running" /\ request[j].targets # {} =>
                 ClosesItself(j) \/ Closer(j)

CloserInv ==
  HandlersHold /\ RevokedIsCancelled /\ PendingHasTask /\ RunningHasCloser

LEMMA InitCloserInv == Init => CloserInv
  BY DEF Init, CloserInv, HandlersHold, RevokedIsCancelled, PendingHasTask,
         RunningHasCloser, IdleFin, IdleSweep, IdleCancel

LEMMA NextHandlersHold == TypeOK /\ HandlersHold /\ [Next]_vars => HandlersHold'
<1>. SUFFICES ASSUME TypeOK, HandlersHold, [Next]_vars PROVE HandlersHold'
  OBVIOUS
<1>. USE DEF TypeOK, HandlersHold, Closed, ActionsOf, taskVars, handlerVars, apiVars
<1>1. ASSUME NEW j \in Job, NEW r \in Request, Create(j, r)
       PROVE HandlersHold'
  BY <1>1 DEF Create
<1>2. ASSUME NEW j \in Job, Send(j) PROVE HandlersHold'
  BY <1>2 DEF Send
<1>3. ASSUME NEW j \in Job, Start(j) PROVE HandlersHold'
  BY <1>3 DEF Start
<1>4. ASSUME NEW j \in Job, LockBusy(j) PROVE HandlersHold'
  BY <1>4 DEF LockBusy
<1>5. ASSUME NEW j \in Job, Dispatch(j) PROVE HandlersHold'
  BY <1>5 DEF Dispatch
<1>6. ASSUME NEW j \in Job, NEW outcome \in Closed, SshEnd(j, outcome)
       PROVE HandlersHold'
  BY <1>6 DEF SshEnd
<1>7. ASSUME NEW j \in Job, SshRetry(j) PROVE HandlersHold'
  BY <1>7 DEF SshRetry
<1>8. ASSUME NEW j \in Job, SshGivesUp(j) PROVE HandlersHold'
  BY <1>8 DEF SshGivesUp
<1>9. ASSUME NEW j \in Job, TaskError(j) PROVE HandlersHold'
  BY <1>9 DEF TaskError
<1>10. ASSUME NEW j \in Job, Killed(j) PROVE HandlersHold'
  BY <1>10 DEF Killed
<1>11. ASSUME NEW j \in Job, Crash(j) PROVE HandlersHold'
  BY <1>11 DEF Crash
<1>12. ASSUME NEW b \in Beacon, CheckinRead(b) PROVE HandlersHold'
  BY <1>12 DEF CheckinRead
<1>13. ASSUME NEW b \in Beacon, NEW arrives \in BOOLEAN,
              CheckinCommit(b, arrives)
       PROVE HandlersHold'
  BY <1>13 DEF CheckinCommit
<1>14. ASSUME NEW b \in Beacon, NEW x \in Action,
              NEW outcome \in {"succeeded", "failed"}, Report(b, x, outcome)
       PROVE HandlersHold'
  <2>1. b \in Finalizer /\ x[1] \in Job
    BY ActionParts DEF Finalizer
  <2>2. fin'[b] = [step |-> "todo", job |-> x[1]]
    BY <1>14, <2>1 DEF Report
  <2>3. \A q \in Finalizer : q # b => fin'[q] = fin[q]
    BY <1>14 DEF Report
  <2>. QED  BY <1>14, <2>1, <2>2, <2>3 DEF Report
<1>15. ASSUME NEW b \in Beacon, AgentStops(b) PROVE HandlersHold'
  BY <1>15 DEF AgentStops
<1>16. ASSUME NEW p \in Finalizer, FinRead(p) PROVE HandlersHold'
  <2>1. \/ fin'[p] = IdleFin
        \/ fin'[p].step \in Closed /\ fin'[p].job = fin[p].job
    BY <1>16 DEF FinRead
  <2>2. \A q \in Finalizer : q # p => fin'[q] = fin[q]
    BY <1>16 DEF FinRead
  <2>3. fin[p].job # NoJob
    BY <1>16 DEF FinRead
  <2>. QED  BY <1>16, <2>1, <2>2, <2>3 DEF FinRead, IdleFin
<1>17. ASSUME NEW p \in Finalizer, FinWrite(p) PROVE HandlersHold'
  BY <1>17 DEF FinWrite, IdleFin
<1>18. ASSUME NEW S \in SUBSET Action, SweepRead(S) PROVE HandlersHold'
  BY <1>18 DEF SweepRead, SweepIdle, IdleSweep
<1>19. ASSUME SweepCommit PROVE HandlersHold'
  BY <1>19 DEF SweepCommit
<1>20. ASSUME NEW j \in Job, SweepNext(j) PROVE HandlersHold'
  BY <1>20 DEF SweepNext, Finalizer
<1>21. ASSUME SweepCrash PROVE HandlersHold'
  BY <1>21 DEF SweepCrash, IdleFin, IdleSweep, Finalizer
<1>22. ASSUME NEW j \in Job, CancelRead(j) PROVE HandlersHold'
  BY <1>22 DEF CancelRead
<1>23. ASSUME CancelChoose PROVE HandlersHold'
  BY <1>23 DEF CancelChoose
<1>24. ASSUME CancelCommit PROVE HandlersHold'
  BY <1>24 DEF CancelCommit, IdleCancel
<1>25. ASSUME ApiRestart PROVE HandlersHold'
  BY <1>25 DEF ApiRestart, IdleFin, IdleCancel
<1>26. ASSUME NEW seen \in SUBSET Job, ReapInspect(seen)
       PROVE HandlersHold'
  BY <1>26 DEF ReapInspect
<1>27. ASSUME ReapSkip PROVE HandlersHold'
  BY <1>27 DEF ReapSkip
<1>28. ASSUME ReapCommit PROVE HandlersHold'
  BY <1>28 DEF ReapCommit
<1>29. CASE UNCHANGED vars
  <2>1. fin' = fin /\ sweep' = sweep /\ cancel' = cancel
    BY <1>29 DEF vars
  <2>. QED  BY <2>1
<1>. HIDE DEF TypeOK, HandlersHold, Closed, ActionsOf
<1>. QED
  BY <1>1, <1>2, <1>3, <1>4, <1>5, <1>6, <1>7, <1>8, <1>9, <1>10, <1>11,
     <1>12, <1>13, <1>14, <1>15, <1>16, <1>17, <1>18, <1>19, <1>20, <1>21,
     <1>22, <1>23, <1>24, <1>25, <1>26, <1>27, <1>28, <1>29
     DEF Next, TaskStep, BeaconStep, FinStep, SweepGoesOn, CancelGoesOn

LEMMA NextRevokedIsCancelled ==
  TypeOK /\ HandlersHold /\ RevokedIsCancelled /\ [Next]_vars
    => RevokedIsCancelled'
<1>. SUFFICES ASSUME TypeOK, HandlersHold, RevokedIsCancelled, [Next]_vars
              PROVE  RevokedIsCancelled'
  OBVIOUS
<1>. USE DEF TypeOK, HandlersHold, RevokedIsCancelled, Closed, taskVars,
             handlerVars, apiVars
<1>1. ASSUME NEW j \in Job, NEW r \in Request, Create(j, r)
       PROVE RevokedIsCancelled'
  BY <1>1 DEF Create
<1>2. ASSUME NEW j \in Job, Send(j) PROVE RevokedIsCancelled'
  BY <1>2 DEF Send
<1>3. ASSUME NEW j \in Job, Start(j) PROVE RevokedIsCancelled'
  BY <1>3 DEF Start
<1>4. ASSUME NEW j \in Job, LockBusy(j) PROVE RevokedIsCancelled'
  BY <1>4 DEF LockBusy
<1>5. ASSUME NEW j \in Job, Dispatch(j) PROVE RevokedIsCancelled'
  BY <1>5 DEF Dispatch
<1>6. ASSUME NEW j \in Job, NEW outcome \in Closed, SshEnd(j, outcome)
       PROVE RevokedIsCancelled'
  BY <1>6 DEF SshEnd
<1>7. ASSUME NEW j \in Job, SshRetry(j) PROVE RevokedIsCancelled'
  BY <1>7 DEF SshRetry
<1>8. ASSUME NEW j \in Job, SshGivesUp(j) PROVE RevokedIsCancelled'
  BY <1>8 DEF SshGivesUp
<1>9. ASSUME NEW j \in Job, TaskError(j) PROVE RevokedIsCancelled'
  BY <1>9 DEF TaskError
<1>10. ASSUME NEW j \in Job, Killed(j) PROVE RevokedIsCancelled'
  BY <1>10 DEF Killed
<1>11. ASSUME NEW j \in Job, Crash(j) PROVE RevokedIsCancelled'
  BY <1>11 DEF Crash
<1>12. ASSUME NEW b \in Beacon, CheckinRead(b) PROVE RevokedIsCancelled'
  BY <1>12 DEF CheckinRead
<1>13. ASSUME NEW b \in Beacon, NEW arrives \in BOOLEAN,
              CheckinCommit(b, arrives)
       PROVE RevokedIsCancelled'
  BY <1>13 DEF CheckinCommit
<1>14. ASSUME NEW b \in Beacon, NEW x \in Action,
              NEW outcome \in {"succeeded", "failed"}, Report(b, x, outcome)
       PROVE RevokedIsCancelled'
  BY <1>14 DEF Report
<1>15. ASSUME NEW b \in Beacon, AgentStops(b) PROVE RevokedIsCancelled'
  BY <1>15 DEF AgentStops
<1>16. ASSUME NEW p \in Finalizer, FinRead(p) PROVE RevokedIsCancelled'
  BY <1>16 DEF FinRead
<1>17. ASSUME NEW p \in Finalizer, FinWrite(p) PROVE RevokedIsCancelled'
  BY <1>17 DEF FinWrite
<1>18. ASSUME NEW S \in SUBSET Action, SweepRead(S) PROVE RevokedIsCancelled'
  BY <1>18 DEF SweepRead
<1>19. ASSUME SweepCommit PROVE RevokedIsCancelled'
  BY <1>19 DEF SweepCommit
<1>20. ASSUME NEW j \in Job, SweepNext(j) PROVE RevokedIsCancelled'
  BY <1>20 DEF SweepNext
<1>21. ASSUME SweepCrash PROVE RevokedIsCancelled'
  BY <1>21 DEF SweepCrash
<1>22. ASSUME NEW j \in Job, CancelRead(j) PROVE RevokedIsCancelled'
  BY <1>22 DEF CancelRead
<1>23. ASSUME CancelChoose PROVE RevokedIsCancelled'
  BY <1>23 DEF CancelChoose
<1>24. ASSUME CancelCommit PROVE RevokedIsCancelled'
  BY <1>24 DEF CancelCommit, IdleCancel
<1>25. ASSUME ApiRestart PROVE RevokedIsCancelled'
  BY <1>25 DEF ApiRestart, IdleCancel
<1>26. ASSUME NEW seen \in SUBSET Job, ReapInspect(seen)
       PROVE RevokedIsCancelled'
  BY <1>26 DEF ReapInspect
<1>27. ASSUME ReapSkip PROVE RevokedIsCancelled'
  BY <1>27 DEF ReapSkip
<1>28. ASSUME ReapCommit PROVE RevokedIsCancelled'
  BY <1>28 DEF ReapCommit
<1>29. CASE UNCHANGED vars
  BY <1>29 DEF vars
<1>. QED
  BY <1>1, <1>2, <1>3, <1>4, <1>5, <1>6, <1>7, <1>8, <1>9, <1>10, <1>11,
     <1>12, <1>13, <1>14, <1>15, <1>16, <1>17, <1>18, <1>19, <1>20, <1>21,
     <1>22, <1>23, <1>24, <1>25, <1>26, <1>27, <1>28, <1>29
     DEF Next, TaskStep, BeaconStep, FinStep, SweepGoesOn, CancelGoesOn

LEMMA NextPendingHasTask == TypeOK /\ PendingHasTask /\ [Next]_vars => PendingHasTask'
<1>. SUFFICES ASSUME TypeOK, PendingHasTask, [Next]_vars PROVE PendingHasTask'
  OBVIOUS
<1>. USE DEF TypeOK, PendingHasTask, taskVars, handlerVars, apiVars
<1>1. ASSUME NEW j \in Job, NEW r \in Request, Create(j, r)
       PROVE PendingHasTask'
  BY <1>1 DEF Create
<1>2. ASSUME NEW j \in Job, Send(j) PROVE PendingHasTask'
  BY <1>2 DEF Send
<1>3. ASSUME NEW j \in Job, Start(j) PROVE PendingHasTask'
  BY <1>3 DEF Start
<1>4. ASSUME NEW j \in Job, LockBusy(j) PROVE PendingHasTask'
  BY <1>4 DEF LockBusy
<1>5. ASSUME NEW j \in Job, Dispatch(j) PROVE PendingHasTask'
  BY <1>5 DEF Dispatch
<1>6. ASSUME NEW j \in Job, NEW outcome \in Closed, SshEnd(j, outcome)
       PROVE PendingHasTask'
  BY <1>6 DEF SshEnd, Closed
<1>7. ASSUME NEW j \in Job, SshRetry(j) PROVE PendingHasTask'
  BY <1>7 DEF SshRetry
<1>8. ASSUME NEW j \in Job, SshGivesUp(j) PROVE PendingHasTask'
  BY <1>8 DEF SshGivesUp
<1>9. ASSUME NEW j \in Job, TaskError(j) PROVE PendingHasTask'
  BY <1>9 DEF TaskError, Executing
<1>10. ASSUME NEW j \in Job, Killed(j) PROVE PendingHasTask'
  BY <1>10 DEF Killed, Executing
<1>11. ASSUME NEW j \in Job, Crash(j) PROVE PendingHasTask'
  BY <1>11 DEF Crash, Executing
<1>12. ASSUME NEW b \in Beacon, CheckinRead(b) PROVE PendingHasTask'
  BY <1>12 DEF CheckinRead
<1>13. ASSUME NEW b \in Beacon, NEW arrives \in BOOLEAN,
              CheckinCommit(b, arrives)
       PROVE PendingHasTask'
  BY <1>13 DEF CheckinCommit
<1>14. ASSUME NEW b \in Beacon, NEW x \in Action,
              NEW outcome \in {"succeeded", "failed"}, Report(b, x, outcome)
       PROVE PendingHasTask'
  BY <1>14 DEF Report
<1>15. ASSUME NEW b \in Beacon, AgentStops(b) PROVE PendingHasTask'
  BY <1>15 DEF AgentStops
<1>16. ASSUME NEW p \in Finalizer, FinRead(p) PROVE PendingHasTask'
  BY <1>16 DEF FinRead
<1>17. ASSUME NEW p \in Finalizer, FinWrite(p) PROVE PendingHasTask'
  BY <1>17 DEF FinWrite, Closed
<1>18. ASSUME NEW S \in SUBSET Action, SweepRead(S) PROVE PendingHasTask'
  BY <1>18 DEF SweepRead
<1>19. ASSUME SweepCommit PROVE PendingHasTask'
  BY <1>19 DEF SweepCommit
<1>20. ASSUME NEW j \in Job, SweepNext(j) PROVE PendingHasTask'
  BY <1>20 DEF SweepNext
<1>21. ASSUME SweepCrash PROVE PendingHasTask'
  BY <1>21 DEF SweepCrash
<1>22. ASSUME NEW j \in Job, CancelRead(j) PROVE PendingHasTask'
  BY <1>22 DEF CancelRead
<1>23. ASSUME CancelChoose PROVE PendingHasTask'
  BY <1>23 DEF CancelChoose
<1>24. ASSUME CancelCommit PROVE PendingHasTask'
  BY <1>24 DEF CancelCommit
<1>25. ASSUME ApiRestart PROVE PendingHasTask'
  BY <1>25 DEF ApiRestart
<1>26. ASSUME NEW seen \in SUBSET Job, ReapInspect(seen)
       PROVE PendingHasTask'
  BY <1>26 DEF ReapInspect
<1>27. ASSUME ReapSkip PROVE PendingHasTask'
  BY <1>27 DEF ReapSkip
<1>28. ASSUME ReapCommit PROVE PendingHasTask'
  BY <1>28 DEF ReapCommit
<1>29. CASE UNCHANGED vars
  BY <1>29 DEF vars
<1>. QED
  BY <1>1, <1>2, <1>3, <1>4, <1>5, <1>6, <1>7, <1>8, <1>9, <1>10, <1>11,
     <1>12, <1>13, <1>14, <1>15, <1>16, <1>17, <1>18, <1>19, <1>20, <1>21,
     <1>22, <1>23, <1>24, <1>25, <1>26, <1>27, <1>28, <1>29
     DEF Next, TaskStep, BeaconStep, FinStep, SweepGoesOn, CancelGoesOn

LEMMA CloserIsKept ==
  ASSUME TypeOK, HandlersHold, RevokedIsCancelled, RunningHasCloser,
         [Next]_vars, NEW i \in Job,
         (status[i] = "running" /\ request[i].targets # {})'
  PROVE  (ClosesItself(i) \/ Closer(i))'
<1>. DEFINE Goal == (ClosesItself(i) \/ Closer(i))'
<1>0. status[i] = "running" /\ request[i].targets # {}
        => ClosesItself(i) \/ Closer(i)
  BY DEF RunningHasCloser
<1>. USE <1>0 DEF TypeOK, HandlersHold, ClosesItself, Closer, ActionsOf,
                   BeaconTargets, Outstanding, taskVars, handlerVars, apiVars
<1>1. ASSUME NEW j \in Job, NEW r \in Request, Create(j, r)
       PROVE Goal
  BY <1>1 DEF Create
<1>2. ASSUME NEW j \in Job, Send(j) PROVE Goal
  BY <1>2 DEF Send
<1>3. ASSUME NEW j \in Job, Start(j) PROVE Goal
  BY <1>3 DEF Start
<1>4. ASSUME NEW j \in Job, LockBusy(j) PROVE Goal
  BY <1>4 DEF LockBusy
<1>5. ASSUME NEW j \in Job, Dispatch(j) PROVE Goal
  <2>1. CASE i # j
    <3>1. \A a \in ActionsOf(i) : action'[a] = action[a]
      BY <1>5, <2>1 DEF Dispatch, Mark
    <3>2. task'[i] = task[i] /\ request'[i] = request[i] /\ status'[i] = status[i]
      BY <1>5, <2>1 DEF Dispatch
    <3>3. ClosesItself(i) => ClosesItself(i)'
      BY <3>2
    <3>4. ActionsOf(i) \cap Outstanding # {}
            => (ActionsOf(i) \cap Outstanding # {})'
      BY <3>1
    <3>5. Closer(i) => Closer(i)'
      BY <1>5, <3>4 DEF Dispatch
    <3>. HIDE DEF ClosesItself, Closer
    <3>. QED  BY <1>0, <3>2, <3>3, <3>5
  <2>2. CASE i = j /\ BeaconTargets(j) = {}
    <3>1. SshTargets(j) # {}
      BY <1>5, <2>2 DEF Dispatch, SshTargets
    <3>. QED  BY <1>5, <2>2, <3>1 DEF Dispatch
  <2>3. CASE i = j /\ BeaconTargets(j) # {}
    <3>1. PICK b \in Beacon : b \in BeaconTargets(j)
      BY <2>3
    <3>2. <<j, b, attempt[j]>> \in Action /\ action'[<<j, b, attempt[j]>>] = "pending"
      BY <1>5, <3>1 DEF Dispatch, Mark, Action
    <3>. QED  BY <2>3, <3>2 DEF Outstanding, Open
  <2>. QED  BY <2>1, <2>2, <2>3
<1>6. ASSUME NEW j \in Job, NEW outcome \in Closed, SshEnd(j, outcome)
       PROVE Goal
  <2>1. CASE i # j
    BY <1>6, <2>1 DEF SshEnd
  <2>2. CASE i = j
    <3>1. BeaconTargets(j) # {} /\ status' = status
      BY <1>6, <2>2 DEF SshEnd, Closed
    <3>. QED  BY <1>6, <2>2, <3>1 DEF SshEnd
  <2>. QED  BY <2>1, <2>2
<1>7. ASSUME NEW j \in Job, SshRetry(j) PROVE Goal
  BY <1>7 DEF SshRetry
<1>8. ASSUME NEW j \in Job, SshGivesUp(j) PROVE Goal
  BY <1>8 DEF SshGivesUp
<1>9. ASSUME NEW j \in Job, TaskError(j) PROVE Goal
  BY <1>9 DEF TaskError, Executing
<1>10. ASSUME NEW j \in Job, Killed(j) PROVE Goal
  BY <1>10, RevokedIsCancelled DEF Killed, Executing, RevokedIsCancelled
<1>11. ASSUME NEW j \in Job, Crash(j) PROVE Goal
  BY <1>11 DEF Crash, Executing
<1>12. ASSUME NEW b \in Beacon, CheckinRead(b) PROVE Goal
  BY <1>12 DEF CheckinRead
<1>13. ASSUME NEW b \in Beacon, NEW arrives \in BOOLEAN,
              CheckinCommit(b, arrives)
       PROVE Goal
  <2>1. Outstanding \subseteq Outstanding'
    BY <1>13 DEF CheckinCommit, Outstanding, Mark, Open
  <2>. QED  BY <1>13, <2>1 DEF CheckinCommit
<1>14. ASSUME NEW b \in Beacon, NEW x \in Action,
              NEW outcome \in {"succeeded", "failed"}, Report(b, x, outcome)
       PROVE Goal
  <2>1. b \in Finalizer /\ x[1] \in Job
    BY ActionParts DEF Finalizer
  <2>2. fin'[b].job = x[1] /\ (\A q \in Finalizer : q # b => fin'[q] = fin[q])
    BY <1>14, <2>1 DEF Report
  <2>3. fin[b].job = NoJob
    BY <1>14, <2>1 DEF Report
  <2>4. CASE i = x[1]
    BY <2>1, <2>2, <2>4
  <2>5. CASE i # x[1]
    <3>1. \A a \in ActionsOf(i) : action'[a] = action[a]
      BY <1>14, <2>5 DEF Report, Mark
    <3>2. (\E q \in Finalizer : fin[q].job = i) => \E q \in Finalizer : fin'[q].job = i
      BY <2>2, <2>3
    <3>. QED  BY ZenonT(60), <1>14, <3>1, <3>2 DEF Report
  <2>. QED  BY <2>4, <2>5
<1>15. ASSUME NEW b \in Beacon, AgentStops(b) PROVE Goal
  BY <1>15 DEF AgentStops
<1>16. ASSUME NEW p \in Finalizer, FinRead(p) PROVE Goal
  <2>1. \A q \in Finalizer : q # p => fin'[q] = fin[q]
    BY <1>16 DEF FinRead
  <2>2. \/ fin'[p].job = fin[p].job
        \/ status[fin[p].job] # "running"
        \/ ActionsOf(fin[p].job) \cap Outstanding # {}
    BY <1>16 DEF FinRead
  <2>. QED  BY <1>16, <2>1, <2>2 DEF FinRead, Outstanding
<1>17. ASSUME NEW p \in Finalizer, FinWrite(p) PROVE Goal
  <2>1. fin[p].job \in Job
    BY <1>17 DEF FinWrite, Closed
  <2>2. i # fin[p].job
    BY <1>17, <2>1 DEF FinWrite, Closed
  <2>3. \A q \in Finalizer : q # p => fin'[q] = fin[q]
    BY <1>17 DEF FinWrite
  <2>. QED  BY <1>17, <2>1, <2>2, <2>3 DEF FinWrite, Outstanding
<1>18. ASSUME NEW S \in SUBSET Action, SweepRead(S) PROVE Goal
  BY <1>18 DEF SweepRead, SweepIdle, IdleSweep
<1>19. ASSUME SweepCommit PROVE Goal
  <2>1. CASE i \in {a[1] : a \in sweep.stale}
    BY <1>19, <2>1 DEF SweepCommit
  <2>2. CASE i \notin {a[1] : a \in sweep.stale}
    <3>1. \A a \in ActionsOf(i) : action'[a] = action[a]
      BY <1>19, <2>2 DEF SweepCommit, Mark
    <3>. QED  BY <1>19, <3>1 DEF SweepCommit, Outstanding
  <2>. QED  BY <2>1, <2>2
<1>20. ASSUME NEW j \in Job, SweepNext(j) PROVE Goal
  <2>1. Sweeper \in Finalizer /\ fin'[Sweeper].job = j
    BY <1>20 DEF SweepNext, Finalizer
  <2>2. \A q \in Finalizer : q # Sweeper => fin'[q] = fin[q]
    BY <1>20 DEF SweepNext
  <2>3. fin[Sweeper].job = NoJob
    BY <1>20, <2>1 DEF SweepNext
  <2>. QED  BY <1>20, <2>1, <2>2, <2>3 DEF SweepNext, Outstanding
<1>21. ASSUME SweepCrash PROVE Goal
  <2>1. \A q \in Finalizer : q # Sweeper => fin'[q] = fin[q]
    BY <1>21 DEF SweepCrash
  <2>2. i = fin[Sweeper].job => i \in orphan'
    BY <1>21 DEF SweepCrash
  <2>. QED  BY <1>21, <2>1, <2>2 DEF SweepCrash, Outstanding
<1>22. ASSUME NEW j \in Job, CancelRead(j) PROVE Goal
  BY <1>22 DEF CancelRead
<1>23. ASSUME CancelChoose PROVE Goal
  BY <1>23 DEF CancelChoose
<1>24. ASSUME CancelCommit PROVE Goal
  <2>1. cancel.job \in Job
    BY <1>24 DEF CancelCommit
  <2>2. i # cancel.job
    BY <1>24, <2>1 DEF CancelCommit
  <2>3. \A a \in ActionsOf(i) : action'[a] = action[a]
    BY <1>24, <2>2 DEF CancelCommit, Mark
  <2>. QED  BY <1>24, <2>2, <2>3 DEF CancelCommit, Outstanding
<1>25. ASSUME ApiRestart PROVE Goal
  <2>1. \A q \in Finalizer : fin'[q] # fin[q] => q \in Beacon
    BY <1>25 DEF ApiRestart
  <2>. QED  BY <1>25, <2>1 DEF ApiRestart, Outstanding
<1>26. ASSUME NEW seen \in SUBSET Job, ReapInspect(seen)
       PROVE Goal
  BY <1>26 DEF ReapInspect
<1>27. ASSUME ReapSkip PROVE Goal
  BY <1>27 DEF ReapSkip
<1>28. ASSUME ReapCommit PROVE Goal
  BY <1>28 DEF ReapCommit
<1>29. CASE UNCHANGED vars
  BY <1>29 DEF vars
<1>. HIDE DEF TypeOK, HandlersHold, Closer, ClosesItself, ActionsOf,
             BeaconTargets, Outstanding
<1>. QED
  BY <1>1, <1>2, <1>3, <1>4, <1>5, <1>6, <1>7, <1>8, <1>9, <1>10, <1>11,
     <1>12, <1>13, <1>14, <1>15, <1>16, <1>17, <1>18, <1>19, <1>20, <1>21,
     <1>22, <1>23, <1>24, <1>25, <1>26, <1>27, <1>28, <1>29
     DEF Next, TaskStep, BeaconStep, FinStep, SweepGoesOn, CancelGoesOn

LEMMA NextCloserInv == TypeOK /\ CloserInv /\ [Next]_vars => CloserInv'
<1>. SUFFICES ASSUME TypeOK, CloserInv, [Next]_vars PROVE CloserInv'
  OBVIOUS
<1>1. HandlersHold'
  BY NextHandlersHold DEF CloserInv
<1>2. RevokedIsCancelled'
  BY NextRevokedIsCancelled DEF CloserInv
<1>3. PendingHasTask'
  BY NextPendingHasTask DEF CloserInv
<1>4. RunningHasCloser'
  BY CloserIsKept DEF CloserInv, RunningHasCloser
<1>. QED  BY <1>1, <1>2, <1>3, <1>4 DEF CloserInv

LEMMA CloserInvSuffices == CloserInv => OpenJobHasCloser
  BY DEF CloserInv, PendingHasTask, RunningHasCloser, OpenJobHasCloser,
         ClosesItself, Closer, Executing

\* However cancels, sweeps, reports, retries and restarts interleave, an open
\* job with targets always has somebody left who is to close it.
THEOREM JobsNotForgotten == Spec => []OpenJobHasCloser
<1>1. Spec => [](TypeOK /\ CloserInv)
  BY InitTypeOK, NextTypeOK, InitCloserInv, NextCloserInv, PTL DEF Spec
<1>. QED  BY <1>1, CloserInvSuffices, PTL
=============================================================================

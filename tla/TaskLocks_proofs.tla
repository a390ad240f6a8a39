--------------------------- MODULE TaskLocks_proofs ---------------------------
(***************************************************************************)
(* Proofs about TaskLocks, for any jobs, keys, requests and retry bound:   *)
(* type correctness, exclusion under a common key, no stray lease, that    *)
(* overlapping jobs are never both reported successful and never all fail  *)
(* on one another, and that every step of a task counts towards its end.   *)
(***************************************************************************)
EXTENDS TaskLocks, FiniteSetTheorems, WellFoundedInduction, TLAPS

\* Ids are sortable: a nonempty set of keys has a least one.
LEMMA LeastKey ==
  ASSUME NEW S, S \subseteq Key, S # {}
  PROVE  \E k \in S : \A l \in S : k <= l
<1>1. PICK k \in S : \A l \in S : ~ (<<l, k>> \in OpToRel(<, Nat))
  BY KeyAssumption, NatLessThanWellFounded, WFMin
<1>2. ASSUME NEW l \in S PROVE k <= l
  <2>1. l \in Nat /\ k \in Nat
    BY KeyAssumption
  <2>2. <<l, k>> \in OpToRel(<, Nat) <=> l < k
    BY <2>1 DEF OpToRel
  <2>3. ~ (l < k)
    BY <1>1, <2>2
  <2>. QED  BY <2>1, <2>3
<1>. QED  BY <1>2

\* Sorting puts it first.
LEMMA FirstIsMember ==
  ASSUME NEW S, S \subseteq Key, S # {}
  PROVE  First(S) \in S
  BY LeastKey DEF First

LEMMA FirstIsLeast ==
  ASSUME NEW S, S \subseteq Key, NEW l \in S
  PROVE  First(S) <= l
  BY LeastKey DEF First

\* So the lease a task asks for or gives back next is one of its own keys.
LEMMA NextKeyIsWanted ==
  ASSUME TypeOK, NEW j \in Job, request[j] \ held[j] # {}
  PROVE  /\ NextKey(j) \in Key /\ NextKey(j) \in request[j] \ held[j]
         /\ \A k \in request[j] \ held[j] : NextKey(j) <= k
<1>1. request[j] \ held[j] \subseteq Key
  BY DEF TypeOK
<1>2. NextKey(j) \in Key /\ NextKey(j) \in request[j] \ held[j]
  BY <1>1, FirstIsMember DEF NextKey
<1>3. ASSUME NEW k \in request[j] \ held[j] PROVE NextKey(j) <= k
  BY <1>1, FirstIsLeast DEF NextKey
<1>. QED  BY <1>2, <1>3

LEMMA NextReleaseIsHeld ==
  ASSUME TypeOK, NEW j \in Job, held[j] # {}
  PROVE  NextRelease(j) \in Key /\ NextRelease(j) \in held[j]
<1>1. held[j] \subseteq Key
  BY DEF TypeOK
<1>. QED  BY <1>1, FirstIsMember DEF NextRelease

-----------------------------------------------------------------------------
(* Type correctness. *)

LEMMA InitTypeOK == Init => TypeOK
<1>. SUFFICES ASSUME Init PROVE TypeOK
  OBVIOUS
<1>1. request \in [Job -> SUBSET Key]
  BY DEF Init
<1>2. retries \in [Job -> 0..MaxRetries]
  BY MaxRetriesAssumption DEF Init
<1>. QED  BY <1>1, <1>2 DEF Init, TypeOK, Status, Place, Result

LEMMA NextTypeOK == TypeOK /\ [Next]_vars => TypeOK'
<1>. SUFFICES ASSUME TypeOK, [Next]_vars PROVE TypeOK'
  OBVIOUS
<1>. USE DEF TypeOK, Status, Place, Result
<1>1. ASSUME NEW j \in Job, NEW r \in Request, Trigger(j, r) PROVE TypeOK'
  BY <1>1, RequestAssumption DEF Trigger
<1>2. ASSUME NEW j \in Job, Start(j) PROVE TypeOK'
  BY <1>2 DEF Start
<1>3. ASSUME NEW j \in Job, Acquire(j) PROVE TypeOK'
  <2>1. NextKey(j) \in Key
    BY <1>3, NextKeyIsWanted DEF Acquire
  <2>. QED  BY <1>3, <2>1 DEF Acquire
<1>4. ASSUME NEW j \in Job, Contend(j) PROVE TypeOK'
  BY <1>4 DEF Contend
<1>5. ASSUME NEW j \in Job, BeginWork(j) PROVE TypeOK'
  BY <1>5 DEF BeginWork, Colleagues
<1>6. ASSUME NEW j \in Job, NEW r \in Result, FinishWork(j, r) PROVE TypeOK'
  <2>1. status' \in [Job -> Status]
    BY <1>6 DEF FinishWork
  <2>. QED  BY <1>6, <2>1 DEF FinishWork
<1>7. ASSUME NEW j \in Job, Terminate(j) PROVE TypeOK'
  <2>1. CASE task' = [task EXCEPT ![j] = "dead"]
    BY <1>7, <2>1 DEF Terminate
  <2>2. CASE task' = [task EXCEPT ![j] = "releasing"]
    BY <1>7, <2>2 DEF Terminate
  <2>. QED  BY <1>7, <2>1, <2>2 DEF Terminate
<1>8. ASSUME NEW j \in Job, Release(j) PROVE TypeOK'
  BY <1>8 DEF Release
<1>9. ASSUME NEW j \in Job, ReleaseFails(j) PROVE TypeOK'
  BY <1>9 DEF ReleaseFails
<1>10. ASSUME NEW j \in Job, EndAttempt(j) PROVE TypeOK'
  <2>1. CASE Retryable(j)
    <3>1. retries[j] + 1 \in 0..MaxRetries
      BY <2>1, MaxRetriesAssumption DEF Retryable
    <3>2. retries' \in [Job -> 0..MaxRetries]
      BY <1>10, <2>1, <3>1 DEF EndAttempt
    <3>. QED  BY <1>10, <2>1, <3>2 DEF EndAttempt
  <2>2. CASE ~Retryable(j)
    BY <1>10, <2>2 DEF EndAttempt
  <2>. QED  BY <2>1, <2>2
<1>11. ASSUME NEW j \in Job, Crash(j) PROVE TypeOK'
  BY <1>11 DEF Crash
<1>12. ASSUME NEW k \in Key, Lapse(k) PROVE TypeOK'
  BY <1>12 DEF Lapse
<1>13. CASE UNCHANGED vars
  BY <1>13 DEF vars
<1>. QED
  BY <1>1, <1>2, <1>3, <1>4, <1>5, <1>6, <1>7, <1>8, <1>9, <1>10, <1>11,
     <1>12, <1>13 DEF Next, TaskStep

\* Every variable keeps its type, for any jobs, keys and retry bound.
THEOREM TypeCorrect == Spec => []TypeOK
  BY InitTypeOK, NextTypeOK, PTL DEF Spec

-----------------------------------------------------------------------------
(* Who holds what. *)

\* Redis stores only tokens of tasks that list the lease as theirs.
OwnerHolds == \A k \in Key : owner[k] # Nobody => k \in held[owner[k]]

\* A task lists leases it asked for, all of them once it works, and none
\* before it starts or while it waits for a retry.
HeldByPlace ==
  \A j \in Job :
    /\ task[j] \in {"idle", "queued", "waiting"} => held[j] = {}
    /\ task[j] = "working" => request[j] \subseteq held[j]

\* Until one of its leases runs out a job owns all it lists, and its task
\* ends with nothing on the list.
IntactOwns ==
  \A j \in Job \ lapsed :
    /\ \A k \in held[j] : owner[k] = j
    /\ task[j] = "over" => held[j] = {}

LockInv == OwnerHolds /\ HeldByPlace /\ IntactOwns

LEMMA InitLockInv == Init => LockInv
  BY NobodyAssumption DEF Init, LockInv, OwnerHolds, HeldByPlace, IntactOwns

LEMMA NextLockInv == TypeOK /\ LockInv /\ [Next]_vars => LockInv'
<1>. SUFFICES ASSUME TypeOK, LockInv, [Next]_vars PROVE LockInv'
  OBVIOUS
<1>. USE NobodyAssumption
     DEF TypeOK, LockInv, OwnerHolds, HeldByPlace, IntactOwns
<1>1. ASSUME NEW j \in Job, NEW r \in Request, Trigger(j, r) PROVE LockInv'
  BY <1>1 DEF Trigger
<1>2. ASSUME NEW j \in Job, Start(j) PROVE LockInv'
  BY <1>2 DEF Start
<1>3. ASSUME NEW j \in Job, Acquire(j) PROVE LockInv'
  <2>1. NextKey(j) \in Key
    BY <1>3, NextKeyIsWanted DEF Acquire
  <2>. QED  BY <1>3, <2>1 DEF Acquire
<1>4. ASSUME NEW j \in Job, Contend(j) PROVE LockInv'
  BY <1>4 DEF Contend
<1>5. ASSUME NEW j \in Job, BeginWork(j) PROVE LockInv'
  BY <1>5 DEF BeginWork
<1>6. ASSUME NEW j \in Job, NEW r \in Result, FinishWork(j, r) PROVE LockInv'
  BY <1>6 DEF FinishWork
<1>7. ASSUME NEW j \in Job, Terminate(j) PROVE LockInv'
  <2>1. CASE task' = [task EXCEPT ![j] = "dead"]
    BY <1>7, <2>1 DEF Terminate
  <2>2. CASE task' = [task EXCEPT ![j] = "releasing"]
    BY <1>7, <2>2 DEF Terminate
  <2>. QED  BY <1>7, <2>1, <2>2 DEF Terminate
<1>8. ASSUME NEW j \in Job, Release(j) PROVE LockInv'
  <2>1. NextRelease(j) \in held[j] /\ NextRelease(j) \in Key
    BY <1>8, NextReleaseIsHeld DEF Release
  <2>. QED  BY <1>8, <2>1 DEF Release
<1>9. ASSUME NEW j \in Job, ReleaseFails(j) PROVE LockInv'
  <2>1. NextRelease(j) \in held[j]
    BY <1>9, NextReleaseIsHeld DEF ReleaseFails
  <2>2. j \in lapsed
    BY <1>9, <2>1 DEF ReleaseFails
  <2>. QED  BY <1>9, <2>2 DEF ReleaseFails
<1>10. ASSUME NEW j \in Job, EndAttempt(j) PROVE LockInv'
  <2>1. CASE task' = [task EXCEPT ![j] = "waiting"]
    BY <1>10, <2>1 DEF EndAttempt
  <2>2. CASE task' = [task EXCEPT ![j] = "over"]
    BY <1>10, <2>2 DEF EndAttempt
  <2>. QED  BY <1>10, <2>1, <2>2 DEF EndAttempt
<1>11. ASSUME NEW j \in Job, Crash(j) PROVE LockInv'
  BY <1>11 DEF Crash
<1>12. ASSUME NEW k \in Key, Lapse(k) PROVE LockInv'
  BY <1>12 DEF Lapse
<1>13. CASE UNCHANGED vars
  BY <1>13 DEF vars
<1>. QED
  BY <1>1, <1>2, <1>3, <1>4, <1>5, <1>6, <1>7, <1>8, <1>9, <1>10, <1>11,
     <1>12, <1>13 DEF Next, TaskStep

LEMMA LockInvariant == Spec => []LockInv
  BY TypeCorrect, InitLockInv, NextLockInv, PTL DEF Spec

\* Only a job that outlived a lease can find a colleague at work under a key
\* of its own, whatever the number of jobs, keys, retries and crashes.
THEOREM Exclusion == Spec => []SharedKeyExclusion
<1>1. TypeOK /\ LockInv => SharedKeyExclusion
  <2>. SUFFICES ASSUME TypeOK, LockInv, NEW i \in Job, NEW j \in Job, i # j,
                       ShareKey(i, j), task[i] = "working",
                       task[j] = "working", i \notin lapsed, j \notin lapsed
                PROVE  FALSE
    BY DEF SharedKeyExclusion
  <2>1. PICK k \in Key : k \in request[i] /\ k \in request[j]
    BY DEF ShareKey, TypeOK
  <2>2. k \in held[i] /\ k \in held[j]
    BY <2>1 DEF LockInv, HeldByPlace
  <2>. QED  BY <2>2 DEF LockInv, IntactOwns
<1>. QED  BY <1>1, TypeCorrect, LockInvariant, PTL

\* A task that is queued, waits for a retry or ended leaves no lease behind,
\* save one whose release loop met a lease that had run out.
THEOREM NoStray == Spec => []NoStrayLease
<1>1. TypeOK /\ LockInv => NoStrayLease
  <2>. SUFFICES ASSUME TypeOK, LockInv, NEW k \in Key, owner[k] # Nobody
                PROVE  \/ Executing(owner[k])
                       \/ task[owner[k]] = "dead"
                       \/ task[owner[k]] = "over" /\ owner[k] \in lapsed
    BY DEF NoStrayLease
  <2>1. owner[k] \in Job /\ k \in held[owner[k]]
    BY DEF TypeOK, LockInv, OwnerHolds
  <2>2. task[owner[k]] \notin {"idle", "queued", "waiting"}
    BY <2>1 DEF LockInv, HeldByPlace
  <2>3. task[owner[k]] = "over" => owner[k] \in lapsed
    BY <2>1 DEF LockInv, IntactOwns
  <2>. QED  BY <2>1, <2>2, <2>3 DEF TypeOK, Place, Executing
<1>. QED  BY <1>1, TypeCorrect, LockInvariant, PTL

-----------------------------------------------------------------------------
(* Overlapping jobs. *)

\* A lease of j's list is no longer its own.
Lost(j) == \E k \in held[j] : owner[k] # j

\* Nothing can make j end as a success any more: it died, it failed, or its
\* release loop is bound to meet a lost lease.
Doomed(j) ==
  \/ task[j] = "dead"
  \/ task[j] = "over" /\ status[j] = "failed"
  \/ task[j] \in {"working", "releasing"} /\ Lost(j)

OverlapInv == \A i, j \in Job : <<i, j>> \in overlap => Doomed(i) \/ Doomed(j)

LEMMA DoomedForGood ==
  ASSUME TypeOK, [Next]_vars, NEW i \in Job, Doomed(i)
  PROVE  Doomed(i)'
<1>. USE NobodyAssumption DEF Doomed, Lost, TypeOK
<1>1. ASSUME NEW j \in Job, NEW r \in Request, Trigger(j, r) PROVE Doomed(i)'
  BY <1>1 DEF Trigger
<1>2. ASSUME NEW j \in Job, Start(j) PROVE Doomed(i)'
  BY <1>2 DEF Start
<1>3. ASSUME NEW j \in Job, Acquire(j) PROVE Doomed(i)'
  BY <1>3 DEF Acquire
<1>4. ASSUME NEW j \in Job, Contend(j) PROVE Doomed(i)'
  BY <1>4 DEF Contend
<1>5. ASSUME NEW j \in Job, BeginWork(j) PROVE Doomed(i)'
  BY <1>5 DEF BeginWork
<1>6. ASSUME NEW j \in Job, NEW r \in Result, FinishWork(j, r)
      PROVE  Doomed(i)'
  BY <1>6 DEF FinishWork
<1>7. ASSUME NEW j \in Job, Terminate(j) PROVE Doomed(i)'
  <2>1. CASE i = j /\ task[j] = "releasing"
    BY <1>7, <2>1 DEF Terminate
  <2>2. CASE i = j /\ task[j] # "releasing"
    BY <1>7, <2>2 DEF Terminate, Executing
  <2>3. CASE i # j
    <3>1. task'[i] = task[i] /\ status'[i] = status[i]
      BY <1>7, <2>3 DEF Terminate
    <3>. QED  BY <1>7, <3>1 DEF Terminate
  <2>. QED  BY <2>1, <2>2, <2>3
<1>8. ASSUME NEW j \in Job, Release(j) PROVE Doomed(i)'
  BY <1>8 DEF Release
<1>9. ASSUME NEW j \in Job, ReleaseFails(j) PROVE Doomed(i)'
  BY <1>9 DEF ReleaseFails
<1>10. ASSUME NEW j \in Job, EndAttempt(j) PROVE Doomed(i)'
  <2>1. CASE i = j
    BY <1>10, <2>1 DEF EndAttempt
  <2>2. CASE i # j
    <3>1. task'[i] = task[i] /\ status'[i] = status[i]
      BY <1>10, <2>2 DEF EndAttempt
    <3>. QED  BY <1>10, <3>1 DEF EndAttempt
  <2>. QED  BY <2>1, <2>2
<1>11. ASSUME NEW j \in Job, Crash(j) PROVE Doomed(i)'
  BY <1>11 DEF Crash
<1>12. ASSUME NEW k \in Key, Lapse(k) PROVE Doomed(i)'
  BY <1>12 DEF Lapse
<1>13. CASE UNCHANGED vars
  BY <1>13 DEF vars
<1>. QED
  BY <1>1, <1>2, <1>3, <1>4, <1>5, <1>6, <1>7, <1>8, <1>9, <1>10, <1>11,
     <1>12, <1>13 DEF Next, TaskStep

\* Of two tasks that both list a key and work, Redis knows one at most.
LEMMA NewcomerOrColleague ==
  ASSUME TypeOK, LockInv, NEW j \in Job, BeginWork(j), NEW i \in Colleagues(j)
  PROVE  Doomed(i)' \/ Doomed(j)'
<1>1. i \in Job /\ i # j /\ task[i] = "working" /\ ShareKey(i, j)
  BY DEF Colleagues
<1>2. PICK k \in Key : k \in request[i] /\ k \in request[j]
  BY <1>1 DEF ShareKey, TypeOK
<1>3. k \in held[i] /\ k \in held[j]
  BY <1>1, <1>2 DEF LockInv, HeldByPlace, BeginWork
<1>4. task'[i] = "working" /\ task'[j] = "working"
      /\ held' = held /\ owner' = owner
  BY <1>1 DEF BeginWork, TypeOK
<1>. QED  BY <1>1, <1>3, <1>4 DEF Doomed, Lost

LEMMA NextOverlapInv ==
  TypeOK /\ LockInv /\ OverlapInv /\ [Next]_vars => OverlapInv'
<1>. SUFFICES ASSUME TypeOK, LockInv, OverlapInv, [Next]_vars,
                     NEW i \in Job, NEW j \in Job, <<i, j>> \in overlap'
              PROVE  Doomed(i)' \/ Doomed(j)'
  BY DEF OverlapInv
<1>1. CASE <<i, j>> \in overlap
  BY <1>1, DoomedForGood DEF OverlapInv
<1>2. CASE <<i, j>> \notin overlap
  <2>1. PICK n \in Job : BeginWork(n)
    BY <1>2 DEF Next, TaskStep, vars, Trigger, Start, Acquire, Contend,
       FinishWork, Terminate, Release, ReleaseFails, EndAttempt, Crash, Lapse
  <2>2. \/ i = n /\ j \in Colleagues(n)
        \/ j = n /\ i \in Colleagues(n)
    BY <1>2, <2>1 DEF BeginWork
  <2>. QED  BY <2>1, <2>2, NewcomerOrColleague
<1>. QED  BY <1>1, <1>2

\* Two jobs that were at work under one key at once are never both recorded
\* as successes by tasks that ran to their end.
THEOREM OverlapIsReported == Spec => []OverlapNeverBothSucceed
<1>1. Init => OverlapInv
  BY DEF Init, OverlapInv
<1>2. OverlapInv => OverlapNeverBothSucceed
  BY DEF OverlapInv, OverlapNeverBothSucceed, Doomed
<1>. QED
  BY <1>1, <1>2, NextOverlapInv, TypeCorrect, LockInvariant, PTL DEF Spec

-----------------------------------------------------------------------------
(* Somebody wins. *)

\* What the first attempt of j has shown, by the place of its task.
Stages ==
  \A j \in Job :
    /\ task[j] \in {"idle", "queued", "acquiring"} => result[j] = "none"
    /\ task[j] = "releasing" => result[j] # "none"
    /\ task[j] = "waiting" => retries[j] > 0

\* The leases an attempt lists come before those it still wants.
Ascending ==
  \A j \in Job : task[j] = "acquiring" =>
    \A l \in held[j], k \in request[j] \ held[j] : l < k

\* The first attempt of j met a lease that somebody else had.
Loser(j) == result[j] = "contention" /\ retries[j] = 0

\* j may still get past key k, or got further: its first attempt ended
\* otherwise than in contention, or lists a lease beyond k.
Beyond(j, k) ==
  /\ ~Loser(j)
  /\ retries[j] > 0 \/ result[j] # "none" \/ \E l \in held[j] : k < l

\* Behind every loser is somebody who did not lose, and behind every lease a
\* loser has yet to give back somebody who got beyond it: whoever meets that
\* lease meanwhile, and loses, was not the one.
SomeoneBeyond ==
  \A i \in Job : Loser(i) =>
    /\ \E w \in Job : ~Loser(w)
    /\ \A k \in held[i] : \E w \in Job : Beyond(w, k)

WinInv == Stages /\ Ascending /\ SomeoneBeyond

LEMMA InitWinInv == Init => WinInv
  BY DEF Init, WinInv, Stages, Ascending, SomeoneBeyond, Loser

LEMMA NextStages == TypeOK /\ Stages /\ [Next]_vars => Stages'
<1>. SUFFICES ASSUME TypeOK, Stages, [Next]_vars PROVE Stages'
  OBVIOUS
<1>. USE DEF TypeOK, Stages
<1>1. ASSUME NEW j \in Job, NEW r \in Request, Trigger(j, r) PROVE Stages'
  BY <1>1 DEF Trigger
<1>2. ASSUME NEW j \in Job, Start(j) PROVE Stages'
  BY <1>2 DEF Start
<1>3. ASSUME NEW j \in Job, Acquire(j) PROVE Stages'
  BY <1>3 DEF Acquire
<1>4. ASSUME NEW j \in Job, Contend(j) PROVE Stages'
  BY <1>4 DEF Contend
<1>5. ASSUME NEW j \in Job, BeginWork(j) PROVE Stages'
  BY <1>5 DEF BeginWork
<1>6. ASSUME NEW j \in Job, NEW r \in Result, FinishWork(j, r) PROVE Stages'
  BY <1>6 DEF FinishWork
<1>7. ASSUME NEW j \in Job, Terminate(j) PROVE Stages'
  BY <1>7 DEF Terminate
<1>8. ASSUME NEW j \in Job, Release(j) PROVE Stages'
  BY <1>8 DEF Release
<1>9. ASSUME NEW j \in Job, ReleaseFails(j) PROVE Stages'
  BY <1>9 DEF ReleaseFails
<1>10. ASSUME NEW j \in Job, EndAttempt(j) PROVE Stages'
  <2>1. retries[j] \in Nat
    BY MaxRetriesAssumption
  <2>2. CASE Retryable(j)
    BY <1>10, <2>1, <2>2 DEF EndAttempt
  <2>3. CASE ~Retryable(j)
    BY <1>10, <2>3 DEF EndAttempt
  <2>. QED  BY <2>2, <2>3
<1>11. ASSUME NEW j \in Job, Crash(j) PROVE Stages'
  BY <1>11 DEF Crash
<1>12. ASSUME NEW k \in Key, Lapse(k) PROVE Stages'
  BY <1>12 DEF Lapse
<1>13. CASE UNCHANGED vars
  BY <1>13 DEF vars
<1>. QED
  BY <1>1, <1>2, <1>3, <1>4, <1>5, <1>6, <1>7, <1>8, <1>9, <1>10, <1>11,
     <1>12, <1>13 DEF Next, TaskStep

LEMMA NextAscending ==
  TypeOK /\ HeldByPlace /\ Ascending /\ [Next]_vars => Ascending'
<1>. SUFFICES ASSUME TypeOK, HeldByPlace, Ascending, [Next]_vars,
                     NEW j \in Job, task'[j] = "acquiring",
                     NEW l \in held'[j], NEW k \in request'[j] \ held'[j]
              PROVE  l < k
  BY DEF Ascending
<1>1. CASE Start(j)
  <2>1. held'[j] = {}
    BY <1>1 DEF Start, HeldByPlace, TypeOK
  <2>. QED  BY <2>1
<1>2. CASE Acquire(j)
  <2>1. /\ NextKey(j) \in request[j] \ held[j] /\ request[j] \ held[j] \subseteq Key
        /\ \A m \in request[j] \ held[j] : NextKey(j) <= m
    BY <1>2, NextKeyIsWanted DEF Acquire, TypeOK
  <2>2. held'[j] = held[j] \cup {NextKey(j)} /\ request' = request /\ task[j] = "acquiring"
    BY <1>2 DEF Acquire, TypeOK
  <2>3. k \in request[j] \ held[j] /\ k # NextKey(j) /\ NextKey(j) <= k
    BY <2>1, <2>2
  <2>4. NextKey(j) \in Nat /\ k \in Nat
    BY <2>1, <2>3, KeyAssumption
  <2>. QED  BY <2>2, <2>3, <2>4 DEF Ascending
<1>3. CASE ~Start(j) /\ ~Acquire(j)
  <2>1. task[j] = "acquiring" /\ request'[j] = request[j] /\ held'[j] = held[j]
    <3>1. ASSUME NEW i \in Job, NEW r \in Request, Trigger(i, r)
          PROVE  task[j] = "acquiring" /\ request'[j] = request[j] /\ held'[j] = held[j]
      BY <3>1 DEF Trigger, TypeOK
    <3>2. ASSUME NEW i \in Job, i # j, Start(i) \/ Acquire(i)
          PROVE  task[j] = "acquiring" /\ request'[j] = request[j] /\ held'[j] = held[j]
      BY <3>2 DEF Start, Acquire, TypeOK
    <3>3. ASSUME NEW i \in Job, Contend(i) \/ BeginWork(i) \/ Terminate(i) \/ Crash(i)
          PROVE  task[j] = "acquiring" /\ request'[j] = request[j] /\ held'[j] = held[j]
      BY <3>3 DEF Contend, BeginWork, Terminate, Crash, TypeOK
    <3>4. ASSUME NEW i \in Job, NEW r \in Result, FinishWork(i, r)
          PROVE  task[j] = "acquiring" /\ request'[j] = request[j] /\ held'[j] = held[j]
      BY <3>4 DEF FinishWork, TypeOK
    <3>5. ASSUME NEW i \in Job, Release(i) \/ ReleaseFails(i)
          PROVE  task[j] = "acquiring" /\ request'[j] = request[j] /\ held'[j] = held[j]
      BY <3>5 DEF Release, ReleaseFails, TypeOK
    <3>6. ASSUME NEW i \in Job, EndAttempt(i)
          PROVE  task[j] = "acquiring" /\ request'[j] = request[j] /\ held'[j] = held[j]
      BY <3>6 DEF EndAttempt, TypeOK
    <3>7. ASSUME NEW q \in Key, Lapse(q)
          PROVE  task[j] = "acquiring" /\ request'[j] = request[j] /\ held'[j] = held[j]
      BY <3>7 DEF Lapse, TypeOK
    <3>8. CASE UNCHANGED vars
      BY <3>8 DEF vars
    <3>. QED
      BY <1>3, <3>1, <3>2, <3>3, <3>4, <3>5, <3>6, <3>7, <3>8 DEF Next, TaskStep
  <2>. QED  BY <2>1 DEF Ascending
<1>. QED  BY <1>1, <1>2, <1>3

\* Only a contention makes a loser, and nothing else throws anybody back.
LEMMA BeyondStays ==
  ASSUME TypeOK, Stages, [Next]_vars, NEW w \in Job, Contend(w) => retries[w] > 0
  PROVE  /\ ~Loser(w) => ~Loser(w)'
         /\ \A k : Beyond(w, k) => Beyond(w, k)'
<1>. USE DEF TypeOK, Stages, Loser, Beyond
<1>1. ASSUME NEW j \in Job, NEW r \in Request, Trigger(j, r)
      PROVE  /\ ~Loser(w) => ~Loser(w)'
             /\ \A k : Beyond(w, k) => Beyond(w, k)'
  BY <1>1 DEF Trigger
<1>2. ASSUME NEW j \in Job, Start(j)
      PROVE  /\ ~Loser(w) => ~Loser(w)'
             /\ \A k : Beyond(w, k) => Beyond(w, k)'
  BY <1>2 DEF Start
<1>3. ASSUME NEW j \in Job, Acquire(j)
      PROVE  /\ ~Loser(w) => ~Loser(w)'
             /\ \A k : Beyond(w, k) => Beyond(w, k)'
  BY <1>3 DEF Acquire
<1>4. ASSUME NEW j \in Job, Contend(j)
      PROVE  /\ ~Loser(w) => ~Loser(w)'
             /\ \A k : Beyond(w, k) => Beyond(w, k)'
  <2>1. CASE j = w
    <3>1. retries'[w] = retries[w] /\ retries[w] > 0 /\ retries[w] \in Nat
      BY <1>4, <2>1, MaxRetriesAssumption DEF Contend
    <3>. QED  BY <3>1
  <2>2. CASE j # w
    BY <1>4, <2>2 DEF Contend
  <2>. QED  BY <2>1, <2>2
<1>5. ASSUME NEW j \in Job, BeginWork(j)
      PROVE  /\ ~Loser(w) => ~Loser(w)'
             /\ \A k : Beyond(w, k) => Beyond(w, k)'
  BY <1>5 DEF BeginWork
<1>6. ASSUME NEW j \in Job, NEW r \in Result, FinishWork(j, r)
      PROVE  /\ ~Loser(w) => ~Loser(w)'
             /\ \A k : Beyond(w, k) => Beyond(w, k)'
  BY <1>6 DEF FinishWork
<1>7. ASSUME NEW j \in Job, Terminate(j)
      PROVE  /\ ~Loser(w) => ~Loser(w)'
             /\ \A k : Beyond(w, k) => Beyond(w, k)'
  BY <1>7 DEF Terminate
<1>8. ASSUME NEW j \in Job, Release(j)
      PROVE  /\ ~Loser(w) => ~Loser(w)'
             /\ \A k : Beyond(w, k) => Beyond(w, k)'
  BY <1>8 DEF Release
<1>9. ASSUME NEW j \in Job, ReleaseFails(j)
      PROVE  /\ ~Loser(w) => ~Loser(w)'
             /\ \A k : Beyond(w, k) => Beyond(w, k)'
  BY <1>9 DEF ReleaseFails
<1>10. ASSUME NEW j \in Job, EndAttempt(j)
       PROVE  /\ ~Loser(w) => ~Loser(w)'
              /\ \A k : Beyond(w, k) => Beyond(w, k)'
  <2>1. retries[j] \in Nat
    BY MaxRetriesAssumption
  <2>2. CASE Retryable(j)
    BY <1>10, <2>1, <2>2 DEF EndAttempt
  <2>3. CASE ~Retryable(j)
    BY <1>10, <2>3 DEF EndAttempt
  <2>. QED  BY <2>2, <2>3
<1>11. ASSUME NEW j \in Job, Crash(j)
       PROVE  /\ ~Loser(w) => ~Loser(w)'
              /\ \A k : Beyond(w, k) => Beyond(w, k)'
  BY <1>11 DEF Crash
<1>12. ASSUME NEW k \in Key, Lapse(k)
       PROVE  /\ ~Loser(w) => ~Loser(w)'
              /\ \A q : Beyond(w, q) => Beyond(w, q)'
  BY <1>12 DEF Lapse
<1>13. CASE UNCHANGED vars
  BY <1>13 DEF vars
<1>. QED
  BY <1>1, <1>2, <1>3, <1>4, <1>5, <1>6, <1>7, <1>8, <1>9, <1>10, <1>11,
     <1>12, <1>13 DEF Next, TaskStep

\* A loser was one before, or loses now; it lists no lease it had not listed.
LEMMA LosersListLess ==
  ASSUME TypeOK, Stages, [Next]_vars, NEW i \in Job, Loser(i)',
         Contend(i) => retries[i] > 0
  PROVE  Loser(i) /\ held'[i] \subseteq held[i]
<1>. USE DEF TypeOK, Stages, Loser
<1>1. ASSUME NEW j \in Job, NEW r \in Request, Trigger(j, r)
      PROVE  Loser(i) /\ held'[i] \subseteq held[i]
  BY <1>1 DEF Trigger
<1>2. ASSUME NEW j \in Job, Start(j) \/ Acquire(j)
      PROVE  Loser(i) /\ held'[i] \subseteq held[i]
  BY <1>2 DEF Start, Acquire
<1>3. ASSUME NEW j \in Job, Contend(j)
      PROVE  Loser(i) /\ held'[i] \subseteq held[i]
  <2>1. CASE j = i
    <3>1. retries'[i] = retries[i] /\ retries[i] > 0 /\ retries[i] \in Nat
      BY <1>3, <2>1, MaxRetriesAssumption DEF Contend
    <3>. QED  BY <3>1
  <2>2. CASE j # i
    BY <1>3, <2>2 DEF Contend
  <2>. QED  BY <2>1, <2>2
<1>4. ASSUME NEW j \in Job, BeginWork(j) \/ Terminate(j) \/ Crash(j)
      PROVE  Loser(i) /\ held'[i] \subseteq held[i]
  BY <1>4 DEF BeginWork, Terminate, Crash
<1>5. ASSUME NEW j \in Job, NEW r \in Result, FinishWork(j, r)
      PROVE  Loser(i) /\ held'[i] \subseteq held[i]
  BY <1>5 DEF FinishWork
<1>6. ASSUME NEW j \in Job, Release(j) \/ ReleaseFails(j)
      PROVE  Loser(i) /\ held'[i] \subseteq held[i]
  BY <1>6 DEF Release, ReleaseFails
<1>7. ASSUME NEW j \in Job, EndAttempt(j)
      PROVE  Loser(i) /\ held'[i] \subseteq held[i]
  <2>1. retries[j] \in Nat
    BY MaxRetriesAssumption
  <2>. QED  BY <1>7, <2>1 DEF EndAttempt
<1>8. ASSUME NEW k \in Key, Lapse(k)
      PROVE  Loser(i) /\ held'[i] \subseteq held[i]
  BY <1>8 DEF Lapse
<1>9. CASE UNCHANGED vars
  BY <1>9 DEF vars
<1>. QED
  BY <1>1, <1>2, <1>3, <1>4, <1>5, <1>6, <1>7, <1>8, <1>9 DEF Next, TaskStep

\* Whoever had the lease that j met, or somebody beyond it, is ahead of j and
\* of everybody j was ahead of.
LEMMA ContendKeepsSomeone ==
  ASSUME TypeOK, LockInv, WinInv, NEW j \in Job, Contend(j), retries[j] = 0
  PROVE  SomeoneBeyond'
<1>. DEFINE n == NextKey(j)
<1>1. n \in request[j] \ held[j] /\ n \in Key
  BY NextKeyIsWanted DEF Contend
<1>2. PICK i \in Job : owner[n] = i /\ n \in held[i]
  BY <1>1 DEF Contend, TypeOK, LockInv, OwnerHolds
<1>3. task[j] = "acquiring" /\ result[j] = "none"
  BY DEF Contend, WinInv, Stages
<1>4. held' = held /\ retries' = retries
      /\ \A w \in Job \ {j} : result'[w] = result[w]
  BY DEF Contend, TypeOK
<1>5. \A l \in held[j] : l < n
  BY <1>1, <1>3 DEF WinInv, Ascending
<1>6. ASSUME NEW w \in Job PROVE held[w] \subseteq Nat /\ retries[w] \in Nat
  <2>1. held[w] \subseteq Key
    BY DEF TypeOK
  <2>2. retries[w] \in 0..MaxRetries
    BY DEF TypeOK
  <2>3. retries[w] \in Nat
    BY <2>2, MaxRetriesAssumption
  <2>. QED  BY <2>1, <2>3, KeyAssumption
<1>7. PICK w \in Job : /\ w # j /\ ~Loser(w)
                       /\ \A k \in Nat : k < n => Beyond(w, k)
  <2>1. CASE Loser(i)
    <3>1. PICK w \in Job : Beyond(w, n)
      BY <1>2, <2>1 DEF WinInv, SomeoneBeyond
    <3>2. n \in Nat
      BY <1>1, KeyAssumption
    <3>3. \A k \in Nat : k < n => Beyond(w, k)
      BY <3>1, <3>2, <1>6 DEF Beyond
    <3>4. CASE w # j
      BY <3>1, <3>3, <3>4 DEF Beyond
    <3>5. CASE w = j
      <4>1. PICK l \in held[j] : n < l
        BY <3>1, <3>5, <1>3 DEF Beyond
      <4>. QED  BY <4>1, <1>5, <1>6, <3>2
    <3>. QED  BY <3>4, <3>5
  <2>2. CASE ~Loser(i)
    <3>1. i # j
      BY <1>1, <1>2
    <3>2. \A k \in Nat : k < n => Beyond(i, k)
      BY <1>2, <2>2 DEF Beyond
    <3>. QED  BY <3>1, <3>2, <2>2
  <2>. QED  BY <2>1, <2>2
<1>8. ~Loser(w)' /\ \A k \in Nat : k < n => Beyond(w, k)'
  BY <1>4, <1>7 DEF Loser, Beyond
<1>9. ASSUME NEW v \in Job, v # j
      PROVE  /\ Loser(v)' => Loser(v)
             /\ \A k : Beyond(v, k) => Beyond(v, k)'
  BY <1>4, <1>9 DEF Loser, Beyond
<1>10. ASSUME NEW v \in Job, Loser(v)', NEW k \in held'[v]
       PROVE  \E u \in Job : Beyond(u, k)'
  <2>1. CASE v = j
    <3>1. k \in Nat /\ k < n
      BY <2>1, <1>4, <1>5, <1>6
    <3>. QED  BY <3>1, <1>8
  <2>2. CASE v # j
    <3>1. PICK u \in Job : Beyond(u, k)
      BY <2>2, <1>4, <1>9, <1>10 DEF WinInv, SomeoneBeyond
    <3>2. CASE u # j
      BY <3>1, <3>2, <1>9
    <3>3. CASE u = j
      <4>1. PICK l \in held[j] : k < l
        BY <3>1, <3>3, <1>3 DEF Beyond
      <4>2. k \in Nat /\ l \in Nat /\ n \in Nat
        BY <1>1, <1>4, <1>6, KeyAssumption
      <4>3. k < n
        BY <4>1, <4>2, <1>5
      <4>. QED  BY <4>2, <4>3, <1>8
    <3>. QED  BY <3>2, <3>3
  <2>. QED  BY <2>1, <2>2
<1>. QED  BY <1>8, <1>10 DEF SomeoneBeyond

LEMMA NextWinInv == TypeOK /\ LockInv /\ WinInv /\ [Next]_vars => WinInv'
<1>. SUFFICES ASSUME TypeOK, LockInv, WinInv, [Next]_vars PROVE WinInv'
  OBVIOUS
<1>1. Stages' /\ Ascending'
  BY NextStages, NextAscending DEF WinInv, LockInv
<1>2. CASE \E j \in Job : Contend(j) /\ retries[j] = 0
  BY <1>1, <1>2, ContendKeepsSomeone DEF WinInv
<1>3. CASE \A j \in Job : Contend(j) => retries[j] > 0
  <2>1. ASSUME NEW i \in Job, Loser(i)'
        PROVE  /\ \E w \in Job : ~Loser(w)'
               /\ \A k \in held'[i] : \E w \in Job : Beyond(w, k)'
    <3>1. Loser(i) /\ held'[i] \subseteq held[i]
      BY <1>3, <2>1, LosersListLess DEF WinInv
    <3>2. /\ \E w \in Job : ~Loser(w)
          /\ \A k \in held'[i] : \E w \in Job : Beyond(w, k)
      BY <3>1 DEF WinInv, SomeoneBeyond
    <3>3. \A w \in Job : /\ ~Loser(w) => ~Loser(w)'
                         /\ \A k : Beyond(w, k) => Beyond(w, k)'
      BY <1>3, BeyondStays DEF WinInv
    <3>. QED  BY <3>2, <3>3
  <2>. QED  BY <1>1, <2>1 DEF WinInv, SomeoneBeyond
<1>4. \A j \in Job : retries[j] = 0 \/ retries[j] > 0
  BY MaxRetriesAssumption DEF TypeOK
<1>. QED  BY <1>2, <1>3, <1>4

\* However many jobs want however many keys, and whoever dies, is cancelled or
\* outlives a lease: they do not all fail on one another's leases.
THEOREM SomeoneAlwaysWins == Spec => []SomeoneWins
<1>1. TypeOK /\ WinInv => SomeoneWins
  <2>. SUFFICES ASSUME TypeOK, WinInv, NEW j \in Job
                PROVE  \E i \in Job : result[i] # "contention" \/ retries[i] > 0
    BY DEF SomeoneWins
  <2>1. PICK i \in Job : ~Loser(i)
    BY DEF WinInv, SomeoneBeyond
  <2>2. retries[i] = 0 \/ retries[i] > 0
    BY MaxRetriesAssumption DEF TypeOK
  <2>. QED  BY <2>1, <2>2 DEF Loser
<1>. QED
  BY <1>1, InitWinInv, NextWinInv, TypeCorrect, LockInvariant, PTL DEF Spec

-----------------------------------------------------------------------------
(* Every step counts. *)

\* A task lists what it asked for, and asks for finitely many leases.
Finite == \A j \in Job : held[j] \subseteq request[j] /\ IsFiniteSet(request[j])

LEMMA NextFinite == TypeOK /\ HeldByPlace /\ Finite /\ [Next]_vars => Finite'
<1>. SUFFICES ASSUME TypeOK, HeldByPlace, Finite, [Next]_vars PROVE Finite'
  OBVIOUS
<1>. USE DEF TypeOK, HeldByPlace, Finite
<1>1. ASSUME NEW j \in Job, NEW r \in Request, Trigger(j, r) PROVE Finite'
  BY <1>1, ListAssumption DEF Trigger
<1>2. ASSUME NEW j \in Job, Acquire(j) PROVE Finite'
  BY <1>2, NextKeyIsWanted DEF Acquire
<1>3. ASSUME NEW j \in Job, Release(j) PROVE Finite'
  BY <1>3 DEF Release
<1>4. CASE UNCHANGED <<request, held>>
  BY <1>4
<1>. QED
  BY <1>1, <1>2, <1>3, <1>4 DEF Next, TaskStep, vars, Start, Contend, BeginWork, FinishWork,
     Terminate, ReleaseFails, EndAttempt, Crash, Lapse

\* What is left of a task is three numbers, which are compared from the left.
LEMMA RestTyped ==
  ASSUME TypeOK, Finite, NEW j \in Job
  PROVE  /\ MaxRetries - retries[j] \in Nat /\ Stage[task[j]] \in Nat
         /\ IsFiniteSet(Ahead(j)) /\ Cardinality(Ahead(j)) \in Nat
<1>1. retries[j] \in 0..MaxRetries /\ task[j] \in Place
  BY DEF TypeOK
<1>2. Stage[task[j]] \in Nat
  BY <1>1 DEF Place, Stage
<1>3. IsFiniteSet(request[j]) /\ Ahead(j) \subseteq request[j]
  BY DEF Finite, Ahead
<1>4. IsFiniteSet(Ahead(j))
  BY <1>3, FS_Subset
<1>. QED  BY <1>1, <1>2, <1>4, FS_CardinalityType, MaxRetriesAssumption

LEMMA LessFromTheLeft ==
  ASSUME NEW a \in Nat, NEW b \in Nat, NEW c \in Nat,
         NEW d \in Nat, NEW e \in Nat, NEW f \in Nat,
         a < d \/ (a = d /\ b < e) \/ (a = d /\ b = e /\ c < f)
  PROVE  Less(<<a, b, c>>, <<d, e, f>>)
<1>. DEFINE x == <<a, b, c>>
            y == <<d, e, f>>
<1>0. x[1] = a /\ x[2] = b /\ x[3] = c /\ y[1] = d /\ y[2] = e /\ y[3] = f
  OBVIOUS
<1>. HIDE DEF x, y
<1>1. CASE a < d
  <2>1. x[1] < y[1] /\ \A m \in 1..(1 - 1) : x[m] = y[m]
    BY <1>0, <1>1
  <2>. QED  BY <2>1 DEF Less, x, y
<1>2. CASE a = d /\ b < e
  <2>1. x[2] < y[2] /\ \A m \in 1..(2 - 1) : x[m] = y[m]
    BY <1>0, <1>2
  <2>. QED  BY <2>1 DEF Less, x, y
<1>3. CASE a = d /\ b = e /\ c < f
  <2>1. x[3] < y[3] /\ \A m \in 1..(3 - 1) : x[m] = y[m]
    BY <1>0, <1>3
  <2>. QED  BY <2>1 DEF Less, x, y
<1>. QED  BY <1>1, <1>2, <1>3

\* A step counts if it goes on to a later stage of the attempt, takes or gives
\* back a lease, or begins another attempt.
LEMMA StepCounts ==
  ASSUME TypeOK, Finite, TypeOK', Finite', NEW j \in Job,
         \/ retries'[j] = retries[j] /\ Stage[task'[j]] < Stage[task[j]]
         \/ /\ retries'[j] = retries[j] /\ task'[j] = task[j]
            /\ \E k \in Ahead(j) : Ahead(j)' = Ahead(j) \ {k}
         \/ retries'[j] = retries[j] + 1
  PROVE  Less(Rest(j)', Rest(j))
<1>1. /\ MaxRetries - retries[j] \in Nat /\ Stage[task[j]] \in Nat
      /\ IsFiniteSet(Ahead(j)) /\ Cardinality(Ahead(j)) \in Nat
  BY RestTyped
<1>2. /\ MaxRetries - retries'[j] \in Nat /\ Stage[task'[j]] \in Nat
      /\ Cardinality(Ahead(j)') \in Nat
  <2>1. retries'[j] \in 0..MaxRetries /\ task'[j] \in Place
    BY DEF TypeOK
  <2>2. Stage[task'[j]] \in Nat
    BY <2>1 DEF Place, Stage
  <2>3. IsFiniteSet(request'[j]) /\ Ahead(j)' \subseteq request'[j]
    BY DEF Finite, Ahead
  <2>4. IsFiniteSet(Ahead(j)')
    BY <2>3, FS_Subset
  <2>. QED  BY <2>1, <2>2, <2>4, FS_CardinalityType, MaxRetriesAssumption
<1>3. Rest(j) = <<MaxRetries - retries[j], Stage[task[j]], Cardinality(Ahead(j))>>
      /\ Rest(j)' = <<MaxRetries - retries'[j], Stage[task'[j]], Cardinality(Ahead(j)')>>
  BY DEF Rest, Stage
<1>4. retries[j] \in Nat /\ retries'[j] \in Nat
  BY DEF TypeOK
<1>5. ASSUME NEW k \in Ahead(j), Ahead(j)' = Ahead(j) \ {k}
      PROVE  Cardinality(Ahead(j)') < Cardinality(Ahead(j))
  <2>1. Cardinality(Ahead(j)') = Cardinality(Ahead(j)) - 1
    BY <1>1, <1>5, FS_RemoveElement
  <2>. QED  BY <1>1, <2>1
<1>6. \/ MaxRetries - retries'[j] < MaxRetries - retries[j]
      \/ /\ MaxRetries - retries'[j] = MaxRetries - retries[j]
         /\ Stage[task'[j]] < Stage[task[j]]
      \/ /\ MaxRetries - retries'[j] = MaxRetries - retries[j]
         /\ Stage[task'[j]] = Stage[task[j]]
         /\ Cardinality(Ahead(j)') < Cardinality(Ahead(j))
  BY <1>4, <1>5, MaxRetriesAssumption
<1>7. Less(<<MaxRetries - retries'[j], Stage[task'[j]], Cardinality(Ahead(j)')>>,
           <<MaxRetries - retries[j], Stage[task[j]], Cardinality(Ahead(j))>>)
  BY <1>1, <1>2, <1>6, LessFromTheLeft
<1>. QED  BY <1>3, <1>7

\* The steps of j's own task, and what others do to it.
LEMMA OwnStepCounts ==
  ASSUME TypeOK, LockInv, Finite, TypeOK', Finite', NEW j \in Job,
         TaskStep(j) \/ Terminate(j) \/ Crash(j) \/ \E r \in Request : Trigger(j, r)
  PROVE  Less(Rest(j)', Rest(j))
<1>. USE DEF TypeOK
<1>1. ASSUME NEW r \in Request, Trigger(j, r) PROVE Less(Rest(j)', Rest(j))
  BY <1>1, StepCounts DEF Trigger, Stage
<1>2. CASE Start(j)
  BY <1>2, StepCounts DEF Start, Stage
<1>3. CASE Acquire(j)
  <2>1. NextKey(j) \in request[j] \ held[j] /\ NextKey(j) \in Key
    BY <1>3, NextKeyIsWanted DEF Acquire
  <2>2. Ahead(j) = request[j] \ held[j]
    BY <1>3 DEF Acquire, Ahead
  <2>3. Ahead(j)' = request[j] \ (held[j] \cup {NextKey(j)})
    BY <1>3 DEF Acquire, Ahead
  <2>4. Ahead(j)' = Ahead(j) \ {NextKey(j)} /\ NextKey(j) \in Ahead(j)
    BY <2>1, <2>2, <2>3
  <2>5. retries'[j] = retries[j] /\ task'[j] = task[j]
    BY <1>3 DEF Acquire
  <2>. QED  BY <2>4, <2>5, StepCounts
<1>4. CASE Contend(j)
  BY <1>4, StepCounts DEF Contend, Stage
<1>5. CASE BeginWork(j)
  BY <1>5, StepCounts DEF BeginWork, Stage
<1>6. ASSUME NEW r \in Result, FinishWork(j, r) PROVE Less(Rest(j)', Rest(j))
  BY <1>6, StepCounts DEF FinishWork, Stage
<1>7. CASE Terminate(j)
  <2>1. task[j] \in {"acquiring", "working", "releasing"} /\ retries' = retries
        /\ task'[j] = IF task[j] = "releasing" THEN "dead" ELSE "releasing"
    BY <1>7 DEF Terminate, Executing
  <2>. QED  BY <2>1, StepCounts DEF Stage
<1>8. CASE Release(j)
  <2>1. NextRelease(j) \in held[j]
    BY <1>8, NextReleaseIsHeld DEF Release
  <2>2. Ahead(j) = held[j] /\ Ahead(j)' = held[j] \ {NextRelease(j)}
    BY <1>8 DEF Release, Ahead
  <2>3. retries'[j] = retries[j] /\ task'[j] = task[j]
    BY <1>8 DEF Release
  <2>. QED  BY <2>1, <2>2, <2>3, StepCounts
<1>9. CASE ReleaseFails(j)
  BY <1>9, StepCounts DEF ReleaseFails, Stage
<1>10. CASE EndAttempt(j)
  <2>1. CASE Retryable(j)
    BY <1>10, <2>1, StepCounts DEF EndAttempt
  <2>2. CASE ~Retryable(j)
    BY <1>10, <2>2, StepCounts DEF EndAttempt, Stage
  <2>. QED  BY <2>1, <2>2
<1>11. CASE Crash(j)
  <2>1. task[j] \in {"acquiring", "working", "releasing"} /\ retries' = retries
        /\ task'[j] = "dead"
    BY <1>11 DEF Crash, Executing
  <2>. QED  BY <2>1, StepCounts DEF Stage
<1>. QED
  BY <1>1, <1>2, <1>3, <1>4, <1>5, <1>6, <1>7, <1>8, <1>9, <1>10, <1>11 DEF TaskStep

LEMMA OtherStepsKeep ==
  ASSUME TypeOK, NEW j \in Job, NEW i \in Job, i # j,
         TaskStep(i) \/ Terminate(i) \/ Crash(i) \/ \E r \in Request : Trigger(i, r)
  PROVE  Rest(j)' = Rest(j)
<1>1. /\ task'[j] = task[j] /\ retries'[j] = retries[j]
      /\ request'[j] = request[j] /\ held'[j] = held[j]
  BY DEF TypeOK, TaskStep, Trigger, Start, Acquire, Contend, BeginWork, FinishWork, Terminate,
         Release, ReleaseFails, EndAttempt, Crash
<1>. QED  BY <1>1 DEF Rest, Ahead, Stage

\* However many jobs, keys and retries: a task gets closer to its end with every
\* step of its own and nobody sets it back, so that a worker that goes on with
\* it ends it after finitely many steps.
THEOREM EveryStepCounts == Spec => TasksWearDown
<1>1. Init => Finite
  BY FS_EmptySet DEF Init, Finite
<1>2. TypeOK /\ LockInv /\ Finite /\ TypeOK' /\ Finite' /\ [Next]_vars =>
        [\A j \in Job : /\ TaskStep(j) => Less(Rest(j)', Rest(j))
                        /\ Rest(j)' = Rest(j) \/ Less(Rest(j)', Rest(j))]_vars
  <2>. SUFFICES ASSUME TypeOK, LockInv, Finite, TypeOK', Finite', Next, NEW j \in Job
                PROVE  /\ TaskStep(j) => Less(Rest(j)', Rest(j))
                       /\ Rest(j)' = Rest(j) \/ Less(Rest(j)', Rest(j))
    OBVIOUS
  <2>1. TaskStep(j) => Less(Rest(j)', Rest(j))
    BY OwnStepCounts
  <2>2. ASSUME NEW i \in Job,
               TaskStep(i) \/ Terminate(i) \/ Crash(i) \/ \E r \in Request : Trigger(i, r)
        PROVE  Rest(j)' = Rest(j) \/ Less(Rest(j)', Rest(j))
    BY <2>2, OwnStepCounts, OtherStepsKeep
  <2>3. ASSUME NEW k \in Key, Lapse(k) PROVE Rest(j)' = Rest(j)
    BY <2>3 DEF Lapse, Rest, Ahead, Stage
  <2>. QED  BY <2>1, <2>2, <2>3 DEF Next
<1>. QED
  BY <1>1, <1>2, NextFinite, TypeCorrect, LockInvariant, PTL DEF Spec, LockInv, TasksWearDown
=============================================================================

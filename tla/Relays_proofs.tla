----------------------------- MODULE Relays_proofs -----------------------------
(***************************************************************************)
(* The proofs about Relays, for any number of sites, environments, runs,    *)
(* editions and faults: the types, and that a relay marked healthy carries, *)
(* whole, what the run which marked it had read.                            *)
(*                                                                         *)
(* HealthyCarries is not inductive: the mark is put on at the end of a run, *)
(* so that what the run has copied by then must have stayed on the relay    *)
(* since.  That is RunKeeps, which holds of every run under way: what could *)
(* have spoilt a copy is a transfer that goes on, or it was an overlap, a   *)
(* switch or a stop.  A transfer that failed spoils no other run's copy     *)
(* without an overlap, and the mark only until the failure is recorded      *)
(* (RelayKeeps); nobody has copied an edition that is not out (Published).  *)
(***************************************************************************)
EXTENDS Relays, TLAPS

-----------------------------------------------------------------------------
\* What the step of a run says of the rest of it.
Shape ==
  \A r \in Run :
    /\ run[r].step \in {"copying", "transfer", "failing"} => run[r].site \in Site
    /\ run[r].step \in {"idle", "next"} => run[r].site = None
    /\ run[r].step = "transfer" => run[r].env \in Env
    /\ run[r].step \in {"idle", "next", "copying"} => run[r].env = None
    /\ run[r].step \in {"idle", "next", "failing"} => \A e \in Env : run[r].copied[e] = 0

\* Nobody copies, or has copied, an edition that is not out yet.
Published ==
  \A e \in Env :
    /\ published[e] <= edition
    /\ \A s \in Site : carried[s][e] <= published[e]
    /\ \A r \in Run : run[r].copied[e] <= published[e]

\* Edition c of e, if it is one, is still whole on the relay of s, or replaced
\* by a newer one.
Whole(s, e, c) == c = 0 \/ <<s, e>> \in blurred \/ disk[s][e] \in c..MaxEditions

\* A run is copying e to s.
Copying(s, e) == \E q \in Run : /\ run[q].step = "transfer"
                                /\ run[q].site = s /\ run[q].env = e

\* The copy of e at s ended in a failure that is not recorded yet.
Failing(s, e) == \E q \in Run : /\ run[q].step = "failing"
                                /\ run[q].site = s /\ run[q].env = e

\* What a run has copied so far stays on the relay: a failure of another run
\* that could have spoilt it overlapped with this one.
RunKeeps ==
  \A r \in Run, e \in Env :
    run[r].site # None =>
      Copying(run[r].site, e) \/ Whole(run[r].site, e, run[r].copied[e])

\* So does what a run recorded, until a failure is.
RelayKeeps ==
  \A s \in Site, e \in Env :
    status[s] = "healthy" =>
      Copying(s, e) \/ Failing(s, e) \/ Whole(s, e, carried[s][e])

IInv == TypeOK /\ Shape /\ Published /\ RunKeeps /\ RelayKeeps

\* The state of a run.
Hourly == [step : {"idle", "next", "copying", "transfer", "failing"},
           todo : SUBSET Site, seen : SUBSET Site,
           expired : BOOLEAN, site : Site \cup {None},
           left : SUBSET Env, env : Env \cup {None},
           copied : [Env -> Edition]]

-----------------------------------------------------------------------------
LEMMA IdleTyped == Idle \in Hourly /\ Idle.copied \in [Env -> Edition]
                   /\ \A e \in Env : Idle.copied[e] = 0
  BY BoundAssumption DEF Idle, Hourly, Edition

LEMMA Numbers ==
  /\ MaxEditions \in Nat /\ Edition \subseteq Nat /\ Edition \subseteq 0..Torn
  /\ Torn \in 0..Torn /\ Torn \notin Edition /\ 0 \in Edition
  BY BoundAssumption DEF Edition, Torn

\* What TypeOK says of the editions.
LEMMA EditionsTyped ==
  ASSUME TypeOK
  PROVE  /\ run \in [Run -> Hourly]
         /\ \A e \in Env : /\ published[e] \in Nat
                           /\ \A s \in Site : carried[s][e] \in Nat
                           /\ \A r \in Run : run[r].copied[e] \in Nat
<1>1. run \in [Run -> Hourly]
  BY DEF TypeOK, Hourly
<1>2. ASSUME NEW r \in Run PROVE run[r].copied \in [Env -> Edition]
  BY <1>1 DEF Hourly
<1>3. \A r \in Run, e \in Env : run[r].copied[e] \in Nat
  BY <1>2, Numbers
<1>4. \A e \in Env : published[e] \in Edition /\ \A s \in Site : carried[s][e] \in Edition
  BY DEF TypeOK
<1>5. QED
  BY <1>1, <1>3, <1>4, Numbers

LEMMA InitIInv == Init => IInv
<1> SUFFICES ASSUME Init PROVE IInv
  OBVIOUS
<1>1. /\ \A r \in Run : run[r] = Idle
      /\ \A s \in Site : status[s] = "none" /\ \A e \in Env : carried[s][e] = 0
      /\ \A e \in Env : published[e] = 0
      /\ edition = 0
  BY DEF Init
<1>2. /\ Idle.step = "idle" /\ Idle.site = None /\ Idle.env = None
      /\ \A e \in Env : Idle.copied[e] = 0
  BY DEF Idle
<1>3. run \in [Run -> Hourly]
  BY IdleTyped DEF Init
<1>4. TypeOK
  BY <1>3, Numbers, BoundAssumption DEF Init, TypeOK, Hourly, Status
<1>5. Shape
  BY <1>1, <1>2 DEF Shape
<1>6. Published
  BY <1>1, <1>2 DEF Published
<1>7. RunKeeps
  BY <1>1, <1>2 DEF RunKeeps
<1>8. RelayKeeps
  BY <1>1 DEF RelayKeeps
<1>9. QED
  BY <1>4, <1>5, <1>6, <1>7, <1>8 DEF IInv

-----------------------------------------------------------------------------
(* Steps that copy nothing.                                                  *)

\* The primary publishes, and relays lose their mark.
LEMMA UntouchedKeeps ==
  ASSUME IInv, UNCHANGED <<run, disk, blurred, carried>>, TypeOK',
         \A e \in Env : published[e] <= published'[e] /\ published'[e] <= edition',
         \A s \in Site : status'[s] = "healthy" => status[s] = "healthy"
  PROVE  IInv'
<1>1. Shape'
  BY DEF IInv, Shape
<1>2. Published'
  <2>1. \A e \in Env :
          /\ published[e] \in Nat /\ published'[e] \in Nat
          /\ \A s \in Site : carried[s][e] \in Nat
          /\ \A r \in Run : run[r].copied[e] \in Nat
    BY EditionsTyped, Numbers DEF IInv, TypeOK
  <2>2. QED
    BY <2>1 DEF IInv, Published
<1>3. RunKeeps'
  BY DEF IInv, RunKeeps, Copying, Whole
<1>4. RelayKeeps'
  BY DEF IInv, RelayKeeps, Copying, Failing, Whole
<1>5. QED
  BY <1>1, <1>2, <1>3, <1>4 DEF IInv

\* A run starts, goes on to a relay, or records how a relay went.
LEMMA RunMovesKeeps ==
  ASSUME IInv, NEW r \in Run, NEW q \in Hourly, run' = [run EXCEPT ![r] = q],
         TypeOK', UNCHANGED <<disk, blurred, published, edition>>,
         q.step \in {"idle", "next", "copying"}, q.env = None,
         q.step = "copying" => q.site \in Site, q.step # "copying" => q.site = None,
         \A e \in Env : q.copied[e] = 0,
         run[r].step # "transfer",
         \A s \in Site : carried'[s] = carried[s]
                         \/ (carried'[s] = run[r].copied /\ run[r].site = s),
         \A s \in Site : status'[s] = "healthy" =>
           \/ /\ status[s] = "healthy" /\ carried'[s] = carried[s]
              /\ ~(run[r].step = "failing" /\ run[r].site = s)
           \/ /\ run[r].step = "copying" /\ run[r].site = s
              /\ carried'[s] = run[r].copied
  PROVE  IInv'
<1>r. run \in [Run -> Hourly] /\ run' \in [Run -> Hourly]
      /\ run'[r] = q /\ \A p \in Run \ {r} : run'[p] = run[p]
  BY DEF IInv, TypeOK, Hourly
<1>1. Shape'
  <2> SUFFICES ASSUME NEW p \in Run
               PROVE  /\ run'[p].step \in {"copying", "transfer", "failing"} => run'[p].site \in Site
                      /\ run'[p].step \in {"idle", "next"} => run'[p].site = None
                      /\ run'[p].step = "transfer" => run'[p].env \in Env
                      /\ run'[p].step \in {"idle", "next", "copying"} => run'[p].env = None
                      /\ run'[p].step \in {"idle", "next", "failing"} =>
                           \A e \in Env : run'[p].copied[e] = 0
    BY DEF Shape
  <2>1. CASE p = r
    BY <1>r, <2>1
  <2>2. CASE p # r
    BY <1>r, <2>2 DEF IInv, Shape
  <2>3. QED
    BY <2>1, <2>2
<1>2. Published'
  <2>1. published \in [Env -> Nat]
    BY Numbers DEF IInv, TypeOK
  <2>2. \A p \in Run, e \in Env : run'[p].copied[e] <= published[e]
    BY <1>r, <2>1 DEF IInv, Published
  <2>3. \A s \in Site, e \in Env : carried'[s][e] <= published[e]
    BY DEF IInv, Published
  <2>4. QED
    BY <2>2, <2>3 DEF IInv, Published
<1>c. \A s \in Site, e \in Env : Copying(s, e) => Copying(s, e)'
  BY <1>r DEF Copying
<1>w. \A s, e, c : Whole(s, e, c)' <=> Whole(s, e, c)
  BY DEF Whole
<1>3. RunKeeps'
  <2> SUFFICES ASSUME NEW p \in Run, NEW e \in Env, (run[p].site # None)'
               PROVE  Copying(run[p].site, e)' \/ Whole(run[p].site, e, run[p].copied[e])'
    BY DEF RunKeeps
  <2>1. CASE p = r
    BY <1>r, <2>1 DEF Whole
  <2>2. CASE p # r
    <3>1. run'[p] = run[p] /\ run[p].site \in Site
      BY <1>r, <2>2 DEF Hourly
    <3>2. QED
      BY <3>1, <1>c DEF IInv, RunKeeps, Whole
  <2>3. QED
    BY <2>1, <2>2
<1>4. RelayKeeps'
  <2> SUFFICES ASSUME NEW s \in Site, NEW e \in Env, status'[s] = "healthy"
               PROVE  Copying(s, e)' \/ Failing(s, e)' \/ Whole(s, e, carried[s][e])'
    BY DEF RelayKeeps
  <2>1. ASSUME status[s] = "healthy", carried'[s] = carried[s],
               ~(run[r].step = "failing" /\ run[r].site = s)
        PROVE  Copying(s, e)' \/ Failing(s, e)' \/ Whole(s, e, carried[s][e])'
    <3>1. Failing(s, e) => Failing(s, e)'
      BY <1>r, <2>1 DEF Failing
    <3>2. QED
      BY <2>1, <3>1, <1>c DEF IInv, RelayKeeps, Whole
  <2>2. ASSUME run[r].step = "copying", run[r].site = s, carried'[s] = run[r].copied
        PROVE  Copying(s, e)' \/ Failing(s, e)' \/ Whole(s, e, carried[s][e])'
    <3>1. s # None
      BY NoneAssumption
    <3>2. QED
      BY <2>2, <3>1, <1>c DEF IInv, RunKeeps, Whole
  <2>3. QED
    BY <2>1, <2>2
<1>5. QED
  BY <1>1, <1>2, <1>3, <1>4 DEF IInv

\* The primary and the routers.
LEMMA PrimaryKeeps ==
  ASSUME IInv, NEW e \in Env, Promote(e) \/ Assign(e) \/ Unassign(e)
  PROVE  IInv'
<1>t. TypeOK
  BY DEF IInv
<1>1. CASE Promote(e)
  <2>1. edition' \in Edition /\ edition \in Nat /\ edition' = edition + 1
    BY <1>1, <1>t, BoundAssumption DEF Promote, TypeOK, Edition
  <2>2. TypeOK'
    BY <1>1, <1>t, <2>1 DEF Promote, marks, TypeOK
  <2>3. \A d \in Env : published[d] <= published'[d] /\ published'[d] <= edition'
    <3>1. \A d \in Env : published[d] \in Nat /\ published[d] <= edition
      BY <1>t, EditionsTyped DEF IInv, Published
    <3>2. \A d \in Env : published'[d] = IF d = e THEN edition + 1 ELSE published[d]
      BY <1>1, <1>t DEF Promote, TypeOK
    <3>3. QED
      BY <2>1, <3>1, <3>2
  <2>4. QED
    BY <1>1, <2>2, <2>3, UntouchedKeeps DEF Promote, marks
<1>2. CASE Assign(e) \/ Unassign(e)
  <2>1. TypeOK'
    BY <1>2, <1>t DEF Assign, Unassign, marks, TypeOK
  <2>2. UNCHANGED <<run, disk, blurred, carried, published, edition, status>>
    BY <1>2 DEF Assign, Unassign, marks
  <2>3. \A d \in Env : published[d] <= published'[d] /\ published'[d] <= edition'
    BY <1>t, <2>2, EditionsTyped DEF IInv, Published
  <2>4. QED
    BY <2>1, <2>2, <2>3, UntouchedKeeps
<1>3. QED
  BY <1>1, <1>2

LEMMA RoutersKeep ==
  ASSUME IInv, \/ \E s \in Site : CreateRelay(s) \/ Ages(s)
               \/ \E s \in Site, list, seen \in SUBSET Env : Replace(s, list, seen)
               \/ SweepSelect \/ SweepCommit
  PROVE  IInv'
<1>t. TypeOK
  BY DEF IInv
<1>1. TypeOK'
  <2>1. ASSUME NEW s \in Site, CreateRelay(s) PROVE TypeOK'
    BY <1>t, <2>1 DEF CreateRelay, copies, TypeOK, Status
  <2>2. ASSUME NEW s \in Site, Ages(s) PROVE TypeOK'
    BY <1>t, <2>2 DEF Ages, copies, TypeOK
  <2>3. ASSUME NEW s \in Site, NEW list \in SUBSET Env, NEW seen \in SUBSET Env,
               Replace(s, list, seen)
        PROVE  TypeOK'
    BY <1>t, <2>3 DEF Replace, copies, marks, TypeOK
  <2>4. CASE SweepSelect
    BY <1>t, <2>4 DEF SweepSelect, Overdue, copies, TypeOK
  <2>5. CASE SweepCommit
    BY <1>t, <2>5 DEF SweepCommit, copies, TypeOK, Status
  <2>6. QED
    BY <2>1, <2>2, <2>3, <2>4, <2>5
<1>2. UNCHANGED <<run, disk, blurred, carried, published, edition>>
  BY DEF CreateRelay, Ages, Replace, SweepSelect, SweepCommit, copies, marks
<1>3. \A s \in Site : status'[s] = "healthy" => status[s] = "healthy"
  BY <1>t DEF CreateRelay, Ages, Replace, SweepSelect, SweepCommit, copies, marks, TypeOK
<1>4. \A d \in Env : published[d] <= published'[d] /\ published'[d] <= edition'
  BY <1>t, <1>2, EditionsTyped DEF IInv, Published
<1>5. QED
  BY <1>1, <1>2, <1>3, <1>4, UntouchedKeeps

-----------------------------------------------------------------------------
(* A run between two relays.                                                 *)

\* A run that has nothing to do with a relay.
Between(q) == /\ q.step \in {"idle", "next"} /\ q.site = None /\ q.env = None
              /\ \A e \in Env : q.copied[e] = 0

LEMMA GoesOn ==
  ASSUME TypeOK, NEW r \in Run, NEW todo \in SUBSET Site, NEW expired \in BOOLEAN,
         Goes(r, todo, expired)
  PROVE  \E q \in Hourly : Between(q) /\ run' = [run EXCEPT ![r] = q]
<1>1. run[r] \in Hourly
  BY EditionsTyped
<1>2. CASE todo = {}
  BY <1>2, IdleTyped DEF Goes, Between, Idle
<1>3. CASE todo # {}
  <2> DEFINE q == [Idle EXCEPT !.step = "next", !.todo = todo, !.expired = expired,
                               !.seen = IF expired THEN {} ELSE run[r].seen]
  <2>1. q \in Hourly
    BY <1>1, IdleTyped DEF Idle, Hourly
  <2>2. Between(q)
    BY IdleTyped DEF Between, Idle
  <2>3. run' = [run EXCEPT ![r] = q]
    BY <1>3 DEF Goes
  <2> HIDE DEF q
  <2>4. QED
    BY <2>1, <2>2, <2>3
<1>4. QED
  BY <1>2, <1>3

LEMMA StartKeeps ==
  ASSUME IInv, NEW r \in Run, StartRun(r)
  PROVE  IInv'
<1>t. TypeOK
  BY DEF IInv
<1> DEFINE q == [Idle EXCEPT !.step = "next", !.seen = Healthy,
                             !.todo = {s \in Site : status[s] # "none"}]
<1>1. q \in Hourly
  BY IdleTyped DEF Idle, Hourly, Healthy
<1>2. Between(q)
  BY IdleTyped DEF Between, Idle
<1>3. run' = [run EXCEPT ![r] = q] /\ run[r].step = "idle"
      /\ UNCHANGED <<copies, allow, marks, faults, blurred>>
  BY DEF StartRun, Batch
<1> HIDE DEF q
<1>4. run' \in [Run -> Hourly]
  BY <1>t, <1>1, <1>3, EditionsTyped
<1>5. TypeOK'
  BY <1>t, <1>3, <1>4 DEF TypeOK, Hourly, copies, marks
<1>6. QED
  BY <1>1, <1>2, <1>3, <1>5, RunMovesKeeps DEF Between, copies, marks

LEMMA TurnKeeps ==
  ASSUME IInv, NEW r \in Run, NEW s \in Site, Turn(r, s)
  PROVE  IInv'
<1>t. TypeOK /\ run[r] \in Hourly
  BY EditionsTyped DEF IInv
<1>1. run[r].step = "next" /\ UNCHANGED <<copies, allow, marks, faults, blurred>>
  BY DEF Turn
<1>2. PICK q \in Hourly :
        /\ run' = [run EXCEPT ![r] = q]
        /\ q.step \in {"idle", "next", "copying"} /\ q.env = None
        /\ q.step = "copying" => q.site \in Site
        /\ q.step # "copying" => q.site = None
        /\ \A e \in Env : q.copied[e] = 0
  <2>1. CASE Prefixes(s) = {}
    <3>1. Goes(r, run[r].todo \ {s}, run[r].expired)
      BY <2>1 DEF Turn
    <3>2. run[r].todo \ {s} \in SUBSET Site /\ run[r].expired \in BOOLEAN
      BY <1>t DEF Hourly
    <3>3. QED
      BY <1>t, <3>1, <3>2, GoesOn DEF Between
  <2>2. CASE Prefixes(s) # {}
    <3> DEFINE q == [run[r] EXCEPT
                       !.step = "copying", !.site = s, !.todo = run[r].todo \ {s},
                       !.left = Prefixes(s),
                       !.seen = (IF run[r].expired THEN Healthy ELSE run[r].seen) \cap {s}]
    <3>1. Prefixes(s) \in SUBSET Env
      BY <1>t DEF Prefixes, TypeOK
    <3>2. q \in Hourly
      BY <1>t, <3>1 DEF Hourly, Healthy
    <3>3. q.step = "copying" /\ q.site = s /\ q.env = run[r].env /\ q.copied = run[r].copied
      BY <1>t DEF Hourly
    <3>4. run' = [run EXCEPT ![r] = q]
      BY <2>2 DEF Turn
    <3> HIDE DEF q
    <3>5. run[r].env = None /\ \A e \in Env : run[r].copied[e] = 0
      BY <1>1 DEF IInv, Shape
    <3>6. QED
      BY <3>2, <3>3, <3>4, <3>5
  <2>3. QED
    BY <2>1, <2>2
<1>4. run' \in [Run -> Hourly]
  BY <1>t, <1>2, EditionsTyped
<1>5. TypeOK'
  BY <1>t, <1>1, <1>4 DEF TypeOK, Hourly, copies, marks
<1>6. QED
  BY <1>1, <1>2, <1>5, RunMovesKeeps DEF copies, marks

\* The mark is put on.
LEMMA RecordKeeps ==
  ASSUME IInv, NEW r \in Run, Record(r)
  PROVE  IInv'
<1>t. TypeOK /\ run[r] \in Hourly /\ run[r].step = "copying" /\ run[r].site \in Site
  BY EditionsTyped DEF IInv, Shape, Record
<1>2. PICK q \in Hourly : Between(q) /\ run' = [run EXCEPT ![r] = q]
  <2>1. Goes(r, run[r].todo, TRUE)
    BY DEF Record, Recorded
  <2>2. run[r].todo \in SUBSET Site
    BY <1>t DEF Hourly
  <2>3. QED
    BY <1>t, <2>1, <2>2, GoesOn
<1>3. /\ \A s \in Site : carried'[s] = IF s = run[r].site THEN run[r].copied ELSE carried[s]
      /\ \A s \in Site : s # run[r].site => status'[s] = status[s]
      /\ UNCHANGED <<copies, allow, sweep, faults, blurred>>
  BY <1>t DEF Record, TypeOK
<1>4. run' \in [Run -> Hourly]
  BY <1>t, <1>2, EditionsTyped
<1>5. TypeOK'
  <2>1. status' \in [Site -> Status] /\ last' \in [Site -> {"never", "recent", "old"}]
    BY <1>t DEF Record, TypeOK, Status
  <2>2. carried' \in [Site -> [Env -> Edition]]
    <3>1. run[r].copied \in [Env -> Edition]
      BY <1>t DEF Hourly
    <3>2. QED
      BY <1>t, <3>1 DEF Record, TypeOK
  <2>3. QED
    BY <1>t, <1>3, <1>4, <2>1, <2>2 DEF TypeOK, Hourly, copies
<1>6. QED
  BY <1>t, <1>2, <1>3, <1>5, RunMovesKeeps DEF Between, copies

LEMMA RecordFailureKeeps ==
  ASSUME IInv, NEW r \in Run, RecordFailure(r)
  PROVE  IInv'
<1>t. TypeOK /\ run[r] \in Hourly /\ run[r].step = "failing" /\ run[r].site \in Site
  BY EditionsTyped DEF IInv, Shape, RecordFailure
<1>2. PICK q \in Hourly : Between(q) /\ run' = [run EXCEPT ![r] = q]
  <2>1. Goes(r, run[r].todo, TRUE)
    BY DEF RecordFailure, Recorded
  <2>2. run[r].todo \in SUBSET Site
    BY <1>t DEF Hourly
  <2>3. QED
    BY <1>t, <2>1, <2>2, GoesOn
<1>3. /\ \A s \in Site : status'[s] = IF s = run[r].site THEN "failed" ELSE status[s]
      /\ UNCHANGED <<copies, allow, last, carried, sweep, faults, blurred>>
  BY <1>t DEF RecordFailure, TypeOK
<1>4. run' \in [Run -> Hourly]
  BY <1>t, <1>2, EditionsTyped
<1>5. TypeOK'
  <2>1. status' \in [Site -> Status]
    BY <1>t DEF RecordFailure, TypeOK, Status
  <2>2. QED
    BY <1>t, <1>3, <1>4, <2>1 DEF TypeOK, Hourly, copies
<1>6. QED
  BY <1>t, <1>2, <1>3, <1>5, RunMovesKeeps DEF Between, copies

-----------------------------------------------------------------------------
(* A run at a relay.                                                         *)

\* The copy becomes a mixture, while it is under way.
LEMMA TransferKeeps ==
  ASSUME IInv, NEW r \in Run, NEW e \in Env, Transfer(r, e)
  PROVE  IInv'
<1>s. PICK s \in Site : s = run[r].site
  BY DEF IInv, Shape, Transfer
<1> DEFINE q == [run[r] EXCEPT !.step = "transfer", !.env = e, !.copied[e] = published[e]]
<1>t. TypeOK /\ run[r] \in Hourly /\ run[r].step = "copying" /\ run[r].site = s
  BY <1>s, EditionsTyped DEF IInv, Transfer
<1>1. q \in Hourly
  <2>1. published[e] \in Edition
    BY <1>t DEF TypeOK
  <2>2. QED
    BY <1>t, <2>1 DEF Hourly
<1>2. /\ q.step = "transfer" /\ q.site = s /\ q.env = e
      /\ \A d \in Env : q.copied[d] = IF d = e THEN published[e] ELSE run[r].copied[d]
  BY <1>t DEF Hourly
<1>3. run' = [run EXCEPT ![r] = q] /\ UNCHANGED <<assigned, published, edition, allow, marks, faults, blurred>>
  BY <1>t DEF Transfer, TypeOK
<1>d. /\ disk' \in [Site -> [Env -> 0..Torn]]
      /\ \A z \in Site, d \in Env : <<z, d>> # <<s, e>> => disk'[z][d] = disk[z][d]
  <2>1. (IF disk[s][e] = published[e] THEN disk[s][e] ELSE Torn) \in 0..Torn
    BY <1>t, Numbers DEF TypeOK
  <2>2. QED
    BY <1>t, <2>1 DEF Transfer, TypeOK
<1> HIDE DEF q
<1>r. run' \in [Run -> Hourly] /\ run'[r] = q /\ \A p \in Run \ {r} : run'[p] = run[p]
  BY <1>t, <1>1, <1>3, EditionsTyped
<1>4. TypeOK'
  BY <1>t, <1>3, <1>d, <1>r DEF TypeOK, Hourly, marks
<1>5. Shape'
  <2>1. \A p \in Run : p # r => run'[p] = run[p]
    BY <1>r
  <2>2. QED
    BY <1>t, <1>2, <1>r, <2>1 DEF IInv, Shape
<1>6. Published'
  BY <1>2, <1>3, <1>r, <1>t, EditionsTyped DEF IInv, Published, marks
<1>c. /\ Copying(s, e)'
      /\ \A z \in Site, d \in Env : Copying(z, d) => Copying(z, d)'
      /\ \A z \in Site, d \in Env : Failing(z, d) => Failing(z, d)'
  BY <1>t, <1>2, <1>r DEF Copying, Failing
<1>w. \A z \in Site, d \in Env, c \in Nat :
        <<z, d>> # <<s, e>> => (Whole(z, d, c) => Whole(z, d, c)')
  BY <1>3, <1>d DEF Whole
<1>7. RunKeeps'
  <2> SUFFICES ASSUME NEW p \in Run, NEW d \in Env, (run[p].site # None)'
               PROVE  Copying(run[p].site, d)' \/ Whole(run[p].site, d, run[p].copied[d])'
    BY DEF RunKeeps
  <2>1. run'[p].site = run[p].site /\ run[p].site \in Site
    BY <1>2, <1>r, <1>t DEF Hourly
  <2>2. CASE run[p].site = s /\ d = e
    BY <1>c, <2>1, <2>2
  <2>3. CASE ~(run[p].site = s /\ d = e)
    <3>1. run'[p].copied[d] = run[p].copied[d] /\ run[p].copied[d] \in Nat
      BY <1>2, <1>r, <1>t, <2>3, EditionsTyped
    <3>2. <<run[p].site, d>> # <<s, e>>
      BY <2>3
    <3>3. Copying(run[p].site, d) \/ Whole(run[p].site, d, run[p].copied[d])
      BY <2>1 DEF IInv, RunKeeps
    <3>4. QED
      BY <1>c, <1>w, <2>1, <3>1, <3>2, <3>3 DEF Whole
  <2>4. QED
    BY <2>2, <2>3
<1>8. RelayKeeps'
  <2> SUFFICES ASSUME NEW z \in Site, NEW d \in Env, status'[z] = "healthy"
               PROVE  Copying(z, d)' \/ Failing(z, d)' \/ Whole(z, d, carried[z][d])'
    BY DEF RelayKeeps
  <2>1. Copying(z, d) \/ Failing(z, d) \/ Whole(z, d, carried[z][d])
    BY <1>3 DEF IInv, RelayKeeps, marks
  <2>2. CASE <<z, d>> = <<s, e>>
    BY <1>c, <2>2
  <2>3. CASE <<z, d>> # <<s, e>>
    BY <1>c, <1>d, <1>3, <2>1, <2>3 DEF Whole, marks
  <2>4. QED
    BY <2>2, <2>3
<1>9. QED
  BY <1>4, <1>5, <1>6, <1>7, <1>8 DEF IInv

\* The copy is whole again, or is known to be spoilt.
LEMMA TransferEndsKeeps ==
  ASSUME IInv, NEW r \in Run, TransferEnds(r)
  PROVE  IInv'
<1>s. PICK s \in Site : s = run[r].site
  BY DEF IInv, Shape, TransferEnds
<1>e. PICK e \in Env : e = run[r].env
  BY DEF IInv, Shape, TransferEnds
<1> DEFINE whole == published[e] = run[r].copied[e]
           q == [run[r] EXCEPT !.step = "copying", !.env = None, !.left = @ \ {e}]
<1>t. /\ TypeOK /\ run[r] \in Hourly /\ run[r].step = "transfer"
      /\ run[r].site = s /\ run[r].env = e
  BY <1>s, <1>e, EditionsTyped DEF IInv, TransferEnds
<1>1. q \in Hourly
  BY <1>t DEF Hourly
<1>2. q.step = "copying" /\ q.site = s /\ q.env = None /\ q.copied = run[r].copied
  BY <1>t DEF Hourly
<1>3. run' = [run EXCEPT ![r] = q]
      /\ UNCHANGED <<assigned, published, edition, allow, marks, faults>>
  BY <1>t DEF TransferEnds, TypeOK
<1>d. /\ disk' \in [Site -> [Env -> 0..Torn]]
      /\ disk'[s][e] = IF whole THEN published[e] ELSE Torn
      /\ \A z \in Site, d \in Env : <<z, d>> # <<s, e>> => disk'[z][d] = disk[z][d]
  <2>1. (IF whole THEN published[e] ELSE Torn) \in 0..Torn
    BY <1>t, Numbers DEF TypeOK
  <2>2. QED
    BY <1>t, <2>1 DEF TransferEnds, TypeOK
<1>b. /\ blurred' \in SUBSET (Site \X Env) /\ (~whole => <<s, e>> \in blurred')
      /\ \A z \in Site, d \in Env :
           <<z, d>> # <<s, e>> => (<<z, d>> \in blurred => <<z, d>> \in blurred')
  BY <1>t DEF TransferEnds, TypeOK
<1> HIDE DEF q
<1>r. run' \in [Run -> Hourly] /\ run'[r] = q /\ \A p \in Run \ {r} : run'[p] = run[p]
  BY <1>t, <1>1, <1>3, EditionsTyped
<1>4. TypeOK'
  BY <1>t, <1>3, <1>d, <1>b, <1>r DEF TypeOK, Hourly, marks
<1>5. Shape'
  <2>1. \A p \in Run : p # r => run'[p] = run[p]
    BY <1>r
  <2>2. QED
    BY <1>t, <1>2, <1>r, <2>1 DEF IInv, Shape
<1>6. Published'
  BY <1>2, <1>3, <1>r, <1>t, EditionsTyped DEF IInv, Published, marks
<1>c. \A z \in Site, d \in Env : <<z, d>> # <<s, e>> =>
        (Copying(z, d) => Copying(z, d)') /\ (Failing(z, d) => Failing(z, d)')
  BY <1>t, <1>r DEF Copying, Failing
<1>w. \A c \in Nat : c <= published[e] => Whole(s, e, c)'
  <2>1. published[e] \in Nat /\ published[e] <= MaxEditions
    BY <1>t, Numbers DEF TypeOK, Edition
  <2>2. QED
    BY <1>d, <1>b, <2>1, Numbers DEF Whole
<1>7. RunKeeps'
  <2> SUFFICES ASSUME NEW p \in Run, NEW d \in Env, (run[p].site # None)'
               PROVE  Copying(run[p].site, d)' \/ Whole(run[p].site, d, run[p].copied[d])'
    BY DEF RunKeeps
  <2>1. run'[p].site = run[p].site /\ run[p].site \in Site /\ run'[p].copied = run[p].copied
    BY <1>2, <1>r, <1>t DEF Hourly
  <2>2. CASE run[p].site = s /\ d = e
    <3>1. run[p].copied[e] \in Nat /\ run[p].copied[e] <= published[e]
      BY <1>t, EditionsTyped DEF IInv, Published
    <3>2. Whole(s, e, run[p].copied[e])'
      BY <1>d, <1>b, <1>w, <2>1, <3>1 DEF Whole
    <3>3. QED
      BY <2>1, <2>2, <3>2 DEF Whole
  <2>3. CASE ~(run[p].site = s /\ d = e)
    <3>2. <<run[p].site, d>> # <<s, e>>
      BY <2>3
    <3>3. Copying(run[p].site, d) \/ Whole(run[p].site, d, run[p].copied[d])
      BY <2>1 DEF IInv, RunKeeps
    <3>4. QED
      BY <1>c, <1>d, <1>b, <2>1, <3>2, <3>3 DEF Whole
  <2>4. QED
    BY <2>2, <2>3
<1>8. RelayKeeps'
  <2> SUFFICES ASSUME NEW z \in Site, NEW d \in Env, status'[z] = "healthy"
               PROVE  Copying(z, d)' \/ Failing(z, d)' \/ Whole(z, d, carried[z][d])'
    BY DEF RelayKeeps
  <2>1. Copying(z, d) \/ Failing(z, d) \/ Whole(z, d, carried[z][d])
    BY <1>3 DEF IInv, RelayKeeps, marks
  <2>2. CASE z = s /\ d = e
    <3>1. carried[s][e] \in Nat /\ carried[s][e] <= published[e] /\ carried' = carried
      BY <1>t, <1>3, EditionsTyped DEF IInv, Published, marks
    <3>2. QED
      BY <1>w, <2>2, <3>1 DEF Whole
  <2>3. CASE <<z, d>> # <<s, e>>
    BY <1>c, <1>d, <1>b, <1>3, <2>1, <2>3 DEF Whole, marks
  <2>4. QED
    BY <2>2, <2>3
<1>9. QED
  BY <1>4, <1>5, <1>6, <1>7, <1>8 DEF IInv

\* The copy of a play that failed may be a mixture for good.
LEMMA PlayFailsKeeps ==
  ASSUME IInv, NEW r \in Run, PlayFails(r)
  PROVE  IInv'
<1>s. PICK s \in Site : s = run[r].site
  BY DEF IInv, Shape, PlayFails
<1> DEFINE q == [run[r] EXCEPT !.step = "failing", !.left = {}, !.seen = {},
                               !.copied = Idle.copied]
<1>t. /\ TypeOK /\ run[r] \in Hourly /\ run[r].step \in {"copying", "transfer"}
      /\ run[r].site = s
  BY <1>s, EditionsTyped DEF IInv, PlayFails
<1>1. q \in Hourly
  BY <1>t, IdleTyped DEF Hourly
<1>2. /\ q.step = "failing" /\ q.site = s /\ q.env = run[r].env
      /\ \A d \in Env : q.copied[d] = 0
  BY <1>t, IdleTyped DEF Hourly
<1>3. run' = [run EXCEPT ![r] = q] /\ UNCHANGED <<copies, allow, marks>>
  BY <1>t DEF PlayFails, TypeOK
<1>b. /\ blurred' \in SUBSET (Site \X Env) /\ blurred \subseteq blurred'
      /\ \A e \in Env : (run[r].env = e /\ Overlapped(r)) => <<s, e>> \in blurred'
  <2>1. run[r].env \in Env \cup {None}
    BY <1>t DEF Hourly
  <2>2. QED
    BY <1>t, <2>1, NoneAssumption DEF PlayFails, TypeOK
<1>f. faults' \in 0..MaxFaults
  BY <1>t, BoundAssumption DEF PlayFails, TypeOK
<1> HIDE DEF q
<1>r. run' \in [Run -> Hourly] /\ run'[r] = q /\ \A p \in Run \ {r} : run'[p] = run[p]
  BY <1>t, <1>1, <1>3, EditionsTyped
<1>4. TypeOK'
  BY <1>t, <1>3, <1>b, <1>f, <1>r DEF TypeOK, Hourly, copies, marks
<1>5. Shape'
  <2>1. \A p \in Run : p # r => run'[p] = run[p]
    BY <1>r
  <2>2. QED
    BY <1>t, <1>2, <1>r, <2>1 DEF IInv, Shape
<1>6. Published'
  BY <1>2, <1>3, <1>r, <1>t, EditionsTyped DEF IInv, Published, copies, marks
<1>c. \A z \in Site, d \in Env :
        /\ Failing(z, d) => Failing(z, d)'
        /\ Copying(z, d) => Copying(z, d)' \/ (z = s /\ d = run[r].env)
  BY <1>t, <1>r DEF Copying, Failing
<1>w. \A z \in Site, d \in Env, c \in Nat : Whole(z, d, c) => Whole(z, d, c)'
  BY <1>3, <1>b DEF Whole, copies
<1>7. RunKeeps'
  <2> SUFFICES ASSUME NEW p \in Run, NEW d \in Env, (run[p].site # None)'
               PROVE  Copying(run[p].site, d)' \/ Whole(run[p].site, d, run[p].copied[d])'
    BY DEF RunKeeps
  <2>1. CASE p = r
    BY <1>2, <1>r, <2>1 DEF Whole
  <2>2. CASE p # r
    <3>1. run'[p] = run[p] /\ run[p].site \in Site
      BY <1>r, <2>2 DEF Hourly
    <3>2. CASE run[p].site = s /\ d = run[r].env
      <4>1. Overlapped(r)
        BY <1>t, <2>2, <3>2 DEF Overlapped
      <4>2. QED
        BY <1>b, <3>1, <3>2, <4>1 DEF Whole
    <3>3. CASE ~(run[p].site = s /\ d = run[r].env)
      <4>1. Copying(run[p].site, d) \/ Whole(run[p].site, d, run[p].copied[d])
        BY <3>1 DEF IInv, RunKeeps
      <4>2. run[p].copied[d] \in Nat
        BY <1>t, EditionsTyped
      <4>3. QED
        BY <1>c, <1>w, <3>1, <3>3, <4>1, <4>2 DEF Whole
    <3>4. QED
      BY <3>2, <3>3
  <2>3. QED
    BY <2>1, <2>2
<1>8. RelayKeeps'
  <2> SUFFICES ASSUME NEW z \in Site, NEW d \in Env, status'[z] = "healthy"
               PROVE  Copying(z, d)' \/ Failing(z, d)' \/ Whole(z, d, carried[z][d])'
    BY DEF RelayKeeps
  <2>1. Copying(z, d) \/ Failing(z, d) \/ Whole(z, d, carried[z][d])
    BY <1>3 DEF IInv, RelayKeeps, marks
  <2>2. CASE z = s /\ d = run[r].env
    <3>1. Failing(z, d)'
      BY <1>2, <1>r, <2>2 DEF Failing
    <3>2. QED
      BY <3>1
  <2>3. CASE ~(z = s /\ d = run[r].env)
    BY <1>c, <1>3, <1>b, <2>1, <2>3 DEF Whole, copies, marks
  <2>4. QED
    BY <2>2, <2>3
<1>9. QED
  BY <1>4, <1>5, <1>6, <1>7, <1>8 DEF IInv

\* What a worker that died was copying is spoilt; what it had copied stays.
LEMMA CrashKeeps ==
  ASSUME IInv, NEW r \in Run, Crash(r)
  PROVE  IInv'
<1>t. TypeOK /\ run[r] \in Hourly
  BY EditionsTyped DEF IInv
<1>3. run' = [run EXCEPT ![r] = Idle] /\ UNCHANGED <<copies, allow, marks>>
  BY DEF Crash
<1>b. /\ blurred' \in SUBSET (Site \X Env) /\ blurred \subseteq blurred'
      /\ \A e \in Env : run[r].env = e => <<run[r].site, e>> \in blurred'
  <2>1. run[r].env \in Env \cup {None} /\ (run[r].env # None => run[r].site \in Site)
    BY <1>t DEF IInv, Shape, Hourly
  <2>2. QED
    BY <1>t, <2>1, NoneAssumption DEF Crash, TypeOK
<1>f. faults' \in 0..MaxFaults
  BY <1>t, BoundAssumption DEF Crash, TypeOK
<1>r. run' \in [Run -> Hourly] /\ run'[r] = Idle /\ \A p \in Run \ {r} : run'[p] = run[p]
  BY <1>t, <1>3, IdleTyped, EditionsTyped
<1>2. /\ Idle.step = "idle" /\ Idle.site = None /\ Idle.env = None
      /\ \A e \in Env : Idle.copied[e] = 0
  BY DEF Idle
<1>4. TypeOK'
  BY <1>t, <1>3, <1>b, <1>f, <1>r DEF TypeOK, Hourly, copies, marks
<1>5. Shape'
  <2>1. \A p \in Run : p # r => run'[p] = run[p]
    BY <1>r
  <2>2. QED
    BY <1>2, <1>r, <2>1 DEF IInv, Shape
<1>6. Published'
  BY <1>2, <1>3, <1>r, <1>t, EditionsTyped DEF IInv, Published, copies, marks
<1>c. \A z \in Site, d \in Env :
        /\ Failing(z, d) => Failing(z, d)' \/ <<z, d>> \in blurred'
        /\ Copying(z, d) => Copying(z, d)' \/ <<z, d>> \in blurred'
  BY <1>b, <1>r DEF Copying, Failing
<1>w. \A z \in Site, d \in Env, c \in Nat : Whole(z, d, c) => Whole(z, d, c)'
  BY <1>3, <1>b DEF Whole, copies
<1>7. RunKeeps'
  <2> SUFFICES ASSUME NEW p \in Run, NEW d \in Env, (run[p].site # None)'
               PROVE  Copying(run[p].site, d)' \/ Whole(run[p].site, d, run[p].copied[d])'
    BY DEF RunKeeps
  <2>1. run'[p] = run[p] /\ run[p].site \in Site /\ run[p].copied[d] \in Nat
    BY <1>2, <1>r, <1>t, EditionsTyped DEF Hourly
  <2>2. Copying(run[p].site, d) \/ Whole(run[p].site, d, run[p].copied[d])
    BY <2>1 DEF IInv, RunKeeps
  <2>3. QED
    BY <1>c, <1>w, <2>1, <2>2 DEF Whole
<1>8. RelayKeeps'
  BY <1>c, <1>3, <1>b DEF IInv, RelayKeeps, Whole, copies, marks
<1>9. QED
  BY <1>4, <1>5, <1>6, <1>7, <1>8 DEF IInv

-----------------------------------------------------------------------------
LEMMA NextIInv == IInv /\ [Next]_vars => IInv'
<1> SUFFICES ASSUME IInv, [Next]_vars PROVE IInv'
  OBVIOUS
<1>1. ASSUME NEW r \in Run, Copy(r) \/ PlayFails(r) \/ Crash(r)
      PROVE  IInv'
  <2>1. CASE \E s \in Site : Turn(r, s)
    BY <2>1, TurnKeeps
  <2>2. CASE \E e \in Env : Transfer(r, e)
    BY <2>2, TransferKeeps
  <2>3. QED
    BY <1>1, <2>1, <2>2, StartKeeps, RecordKeeps, RecordFailureKeeps, TransferEndsKeeps,
       PlayFailsKeeps, CrashKeeps DEF Copy
<1>2. CASE UNCHANGED vars
  BY <1>2 DEF vars, copies, marks, IInv, TypeOK, Shape, Published, RunKeeps, RelayKeeps,
              Copying, Failing, Whole
<1>3. QED
  BY <1>1, <1>2, PrimaryKeeps, RoutersKeep DEF Next

LEMMA InvariantIInv == Spec => []IInv
  BY InitIInv, NextIInv, PTL DEF Spec

\* Relays, runs and copies keep their types, whatever interleaves.
THEOREM TypeCorrect == Spec => []TypeOK
<1>1. IInv => TypeOK
  BY DEF IInv
<1>2. QED
  BY <1>1, InvariantIInv, PTL

\* A relay that scheduled_sync_relays marked healthy has what the run which
\* marked it had read, whole, with the exceptions that HealthyCarries names.
THEOREM HealthyRelaysCarry == Spec => []HealthyCarries
<1>1. ASSUME IInv PROVE HealthyCarries
  <2> SUFFICES ASSUME NEW s \in Site, status[s] = "healthy", NEW e \in Env
               PROVE  \/ carried[s][e] = 0 \/ <<s, e>> \in blurred
                      \/ \E r \in Run : run[r].site = s /\ run[r].env = e
                      \/ disk[s][e] \in carried[s][e]..MaxEditions
    BY DEF HealthyCarries
  <2>1. Copying(s, e) \/ Failing(s, e) \/ Whole(s, e, carried[s][e])
    BY <1>1 DEF IInv, RelayKeeps
  <2>2. QED
    BY <2>1 DEF Copying, Failing, Whole
<1>2. QED
  BY <1>1, InvariantIInv, PTL


=============================================================================

----------------------------- MODULE Mirrors_proofs -----------------------------
(***************************************************************************)
(* For any names, views, handlers, jobs, settings and bounds: rows and      *)
(* mirrors keep together, what shows as synced is filled, the guard of      *)
(* repositories in use holds and jobs that ended are closed, each with the  *)
(* exceptions its property names.                                           *)
(***************************************************************************)
EXTENDS Mirrors, TLAPS

Busy == {"lock"} \cup Critical

\* What handlers and jobs know at each step.
OpGood(o) ==
  /\ o.step \in {"mirror", "insert"} => o.name \in Name /\ o.set \in Settings
  /\ o.step \in {"link", "cut"} => o.view \in View /\ o.id \in Id
OpShape == \A p \in Handler : OpGood(op[p])

JobGood(x) ==
  /\ x.step = "unused" => x.id = 0
  /\ x.step # "unused" => x.kind # "none" /\ x.id \in Id
  /\ x.step \in Busy => x.name \in Name /\ x.status = "running"
  /\ x.step = "sync" => x.kind = "sync"
  /\ x.step = "drop" => x.kind # "sync"
  /\ x.step = "recreate" => x.kind = "update"
  /\ x.kind = "update" /\ x.step \in Busy \cup {"queued"} => x.set \in Settings
  /\ x.status = "success" => x.step \in {"release", "ended", "dead"}
JobShape == \A j \in Job : JobGood(job[j])

\* Ids are given once, and nobody knows one that was not given.
Ids ==
  /\ \A n \in Name : row[n] # None => row[n].id <= rows
  /\ \A m, n \in Name : row[m] # None /\ row[n] # None /\ row[m].id = row[n].id => m = n
  /\ \A j \in Job : job[j].id <= rows
  /\ \A p \in Handler : op[p].id <= rows
  /\ \A i \in sweep.todo : i <= rows
  /\ sweep.at <= rows

\* The name a task read is the name of its row, as long as there is the row.
NamesKept ==
  \A j \in Job, n \in Name : job[j].step \in Busy /\ n \in Live(job[j].id) => job[j].name = n

Basic == TypeOK /\ OpShape /\ JobShape /\ Ids /\ NamesKept

-----------------------------------------------------------------------------
(* What the helpers do to the jobs and handlers, field by field. *)

Step == {"unused", "queued", "lock", "drop", "recreate", "sync", "record",
         "release", "ended", "dead"}
Status == {"pending", "running", "success", "failed"}

LEMMA SetFields ==
  ASSUME TypeOK, NEW j \in Job, NEW step \in Step, NEW status \in Status,
         Set(j, step, status)
  PROVE  /\ job' \in [Job -> JobRow]
         /\ \A k \in Job : k # j => job'[k] = job[k]
         /\ job'[j].step = step /\ job'[j].status = status
         /\ job'[j].kind = job[j].kind /\ job'[j].id = job[j].id
         /\ job'[j].name = job[j].name /\ job'[j].set = job[j].set
<1> DEFINE new == [job[j] EXCEPT !.step = step, !.status = status]
<1>1. job[j] \in JobRow /\ job \in [Job -> JobRow]
  BY DEF TypeOK
<1>2. new \in JobRow
  BY <1>1 DEF JobRow, Step, Status
<1>3. /\ new.step = step /\ new.status = status /\ new.kind = job[j].kind
      /\ new.id = job[j].id /\ new.name = job[j].name /\ new.set = job[j].set
  BY <1>1 DEF JobRow
<1>4. job' = [job EXCEPT ![j] = new]
  BY <1>1 DEF Set, JobRow
<1> HIDE DEF new
<1>5. QED
  BY <1>1, <1>2, <1>3, <1>4

LEMMA LeaveFields ==
  ASSUME TypeOK, NEW j \in Job, NEW step \in Step, NEW status \in Status,
         Leave(j, step, status)
  PROVE  /\ job' \in [Job -> JobRow]
         /\ \A k \in Job : k # j => job'[k] = job[k]
         /\ job'[j].step = step /\ job'[j].status = status
         /\ job'[j].kind = job[j].kind /\ job'[j].id = job[j].id
         /\ job'[j].name = None /\ job'[j].set = None
<1> DEFINE new == [job[j] EXCEPT !.step = step, !.status = status,
                                 !.name = None, !.set = None]
<1>1. job[j] \in JobRow /\ job \in [Job -> JobRow]
  BY DEF TypeOK
<1>2. new \in JobRow
  BY <1>1 DEF JobRow, Step, Status
<1>3. /\ new.step = step /\ new.status = status /\ new.kind = job[j].kind
      /\ new.id = job[j].id /\ new.name = None /\ new.set = None
  BY <1>1 DEF JobRow
<1>4. job' = [job EXCEPT ![j] = new]
  BY <1>1 DEF Leave
<1> HIDE DEF new
<1>5. QED
  BY <1>1, <1>2, <1>3, <1>4

LEMMA TriggerFields ==
  ASSUME TypeOK, Ids, NEW j \in Job, NEW kind \in {"sync", "update", "delete"},
         NEW n \in Name, NEW s \in Settings, Trigger(j, kind, n, s)
  PROVE  /\ job' \in [Job -> JobRow]
         /\ \A k \in Job : k # j => job'[k] = job[k]
         /\ job[j].step = "unused"
         /\ job'[j].step = "queued" /\ job'[j].status = "pending"
         /\ job'[j].kind = kind /\ job'[j].id = row[n].id
         /\ row[n].id \in Id /\ row[n].id <= rows
         /\ kind = "update" => job'[j].set = s
<1> DEFINE new == [Unused EXCEPT !.kind = kind, !.step = "queued", !.id = row[n].id,
                                 !.set = IF kind = "update" THEN s ELSE None]
<1>1. job \in [Job -> JobRow] /\ row[n] \in Row /\ row[n].id \in Id /\ row[n].id <= rows
  BY DEF TypeOK, Ids, Trigger, Row
<1>2. new \in JobRow
  BY <1>1 DEF JobRow, Unused
<1>3. /\ new.step = "queued" /\ new.status = "pending" /\ new.kind = kind
      /\ new.id = row[n].id
      /\ kind = "update" => new.set = s
  BY DEF Unused
<1>4. job' = [job EXCEPT ![j] = new] /\ job[j].step = "unused"
  BY DEF Trigger, Unused
<1> HIDE DEF new
<1>5. QED
  BY <1>1, <1>2, <1>3, <1>4

LEMMA StartFields ==
  ASSUME TypeOK, NEW j \in Job, Start(j)
  PROVE  /\ job' \in [Job -> JobRow]
         /\ \A k \in Job : k # j => job'[k] = job[k]
         /\ job[j].step = "queued"
         /\ job'[j].kind = job[j].kind /\ job'[j].id = job[j].id
         /\ \/ /\ Exists(job[j].id) /\ (job[j].kind = "sync" \/ ~Used(job[j].id))
               /\ job'[j].step = "lock" /\ job'[j].status = "running"
               /\ job'[j].name = NameOf(job[j].id) /\ job'[j].set = job[j].set
            \/ job'[j].step = "ended" /\ job'[j].status = "failed"
<1> DEFINE i == job[j].id
           good == Exists(i) /\ (job[j].kind = "sync" \/ ~Used(i))
<1>1. good => NameOf(i) \in Name
  BY DEF Exists, NameOf, Live
<1>2. job' = [job EXCEPT
         ![j].name = IF good THEN NameOf(i) ELSE None,
         ![j].set = IF good THEN @ ELSE None,
         ![j].status = IF good THEN "running" ELSE "failed",
         ![j].step = IF good THEN "lock" ELSE "ended"]
  BY DEF Start
<1>3. job[j].step = "queued"
  BY DEF Start
<1>4. CASE good
  <2>1. job' = [job EXCEPT ![j].name = NameOf(i), ![j].set = job[j].set,
                           ![j].status = "running", ![j].step = "lock"]
    BY <1>2, <1>4 DEF TypeOK
  <2>2. NameOf(i) \in Name
    BY <1>1, <1>4
  <2>3. QED
    BY <1>3, <1>4, <2>1, <2>2 DEF TypeOK, JobRow
<1>5. CASE ~good
  <2>1. job' = [job EXCEPT ![j].name = None, ![j].set = None,
                           ![j].status = "failed", ![j].step = "ended"]
    BY <1>2, <1>5 DEF TypeOK
  <2> HIDE DEF good
  <2>2. QED
    BY <1>3, <2>1 DEF TypeOK, JobRow
<1>6. QED
  BY <1>4, <1>5

\* A row that exists is found under one name.
LEMMA NameOfFound ==
  ASSUME TypeOK, Ids, NEW i \in Id, Exists(i)
  PROVE  /\ NameOf(i) \in Name /\ row[NameOf(i)] # None /\ row[NameOf(i)].id = i
         /\ \A n \in Live(i) : n = NameOf(i)
<1>1. NameOf(i) \in Live(i)
  BY DEF Exists, NameOf
<1>2. QED
  BY <1>1 DEF Live, Ids

LEMMA FinishFields ==
  ASSUME TypeOK, NEW p \in Handler, Finish(p)
  PROVE  /\ op' \in [Handler -> Op]
         /\ \A q \in Handler : q # p => op'[q] = op[q]
         /\ op'[p].step = "idle" /\ op'[p].id = 0 /\ op'[p].name = None
<1>1. Idle \in Op /\ Idle.step = "idle" /\ Idle.id = 0 /\ Idle.name = None
  BY DEF Idle, Op
<1>2. op' = [op EXCEPT ![p] = Idle] /\ op \in [Handler -> Op]
  BY DEF Finish, TypeOK
<1>3. QED
  BY <1>1, <1>2

\* What the commits of a sync, of an update and of the sweep do to the rows:
\* one row changes, and keeps its name and id.
LEMMA RecordFields ==
  ASSUME TypeOK, Ids, NEW i \in Id, Exists(i), NEW new \in Row, new.id = i,
         row' = [row EXCEPT ![NameOf(i)] = new]
  PROVE  /\ row' \in [Name -> Row \cup {None}]
         /\ NameOf(i) \in Name /\ row'[NameOf(i)] = new
         /\ \A n \in Name : n # NameOf(i) => row'[n] = row[n]
         /\ \A n \in Name : /\ row'[n] = None <=> row[n] = None
                            /\ row[n] # None => row'[n].id = row[n].id
<1>1. NameOf(i) \in Name /\ row[NameOf(i)] # None /\ row[NameOf(i)].id = i
  BY NameOfFound
<1>2. new # None
  BY NoneAssumption
<1>3. row \in [Name -> Row \cup {None}]
  BY DEF TypeOK
<1>4. QED
  BY <1>1, <1>2, <1>3

\* The ids of rows stay when rows keep theirs or go.
LEMMA IdsKept ==
  ASSUME Ids, TypeOK, rows' = rows, op' = op, sweep' = sweep,
         \A n \in Name : row'[n] # None => row[n] # None /\ row'[n].id = row[n].id,
         \A j \in Job : job'[j].id = job[j].id
  PROVE  Ids'
BY DEF Ids

LEMMA NamesStay ==
  ASSUME NamesKept,
         \A n \in Name : row'[n] # None => row[n] # None /\ row'[n].id = row[n].id,
         \A j \in Job : job'[j].step \in Busy =>
           job[j].step \in Busy /\ job'[j].id = job[j].id /\ job'[j].name = job[j].name
  PROVE  NamesKept'
BY DEF NamesKept, Live, Busy, Critical

\* A step of a handler, and a step of a job, as far as these parts go.
LEMMA HandlerMoves ==
  ASSUME Basic, UNCHANGED <<row, job, sweep, rows>>, NEW p \in Handler,
         \A q \in Handler : q # p => op'[q] = op[q],
         OpGood(op'[p]), op'[p].id <= rows
  PROVE  OpShape' /\ JobShape' /\ Ids' /\ NamesKept'
<1>1. OpShape'
  BY DEF Basic, OpShape, OpGood
<1>2. JobShape'
  BY DEF Basic, JobShape, JobGood, Busy, Critical
<1>3. Ids'
  BY DEF Basic, Ids
<1>4. NamesKept'
  BY DEF Basic, NamesKept, Live, Busy, Critical
<1>5. QED
  BY <1>1, <1>2, <1>3, <1>4

LEMMA JobMoves ==
  ASSUME Basic, UNCHANGED <<op, sweep, rows>>, NEW j \in Job,
         \A n \in Name : row'[n] # None => row[n] # None /\ row'[n].id = row[n].id,
         \A k \in Job : k # j => job'[k] = job[k],
         job'[j].id = job[j].id, JobGood(job'[j]),
         job'[j].step \in Busy => job[j].step \in Busy /\ job'[j].name = job[j].name
  PROVE  OpShape' /\ JobShape' /\ Ids' /\ NamesKept'
<1>1. OpShape'
  BY DEF Basic, OpShape, OpGood
<1>2. JobShape'
  BY DEF Basic, JobShape, JobGood, Busy, Critical
<1>3. Ids'
  <2>1. \A k \in Job : job'[k].id = job[k].id
    OBVIOUS
  <2>2. QED
    BY <2>1, IdsKept DEF Basic
<1>4. NamesKept'
  <2>1. \A k \in Job : job'[k].step \in Busy =>
          job[k].step \in Busy /\ job'[k].id = job[k].id /\ job'[k].name = job[k].name
    OBVIOUS
  <2>2. QED
    BY <2>1, NamesStay DEF Basic
<1>5. QED
  BY <1>1, <1>2, <1>3, <1>4

\* Steps of neither.
LEMMA OthersMove ==
  ASSUME Basic, UNCHANGED <<op, job, rows>>,
         \A n \in Name : row'[n] # None => row[n] # None /\ row'[n].id = row[n].id,
         \A i \in sweep'.todo : i <= rows, sweep'.at <= rows
  PROVE  OpShape' /\ JobShape' /\ Ids' /\ NamesKept'
<1>1. OpShape'
  BY DEF Basic, OpShape, OpGood
<1>2. JobShape'
  BY DEF Basic, JobShape, JobGood, Busy, Critical
<1>3. Ids'
  BY DEF Basic, Ids
<1>4. NamesKept'
  BY NamesStay DEF Basic
<1>5. QED
  BY <1>1, <1>2, <1>3, <1>4

-----------------------------------------------------------------------------
(* The basic part is inductive. *)

LEMMA BasicInit == Init => Basic
<1> SUFFICES ASSUME Init PROVE Basic
  OBVIOUS
<1>1. TypeOK
  <2>1. Idle \in Op
    BY DEF Idle, Op
  <2>2. Unused \in JobRow
    BY DEF Unused, JobRow
  <2>3. QED
    BY <2>1, <2>2, BoundAssumption DEF Init, TypeOK
<1>2. OpShape
  BY DEF Init, OpShape, OpGood, Idle
<1>3. JobShape
  BY DEF Init, JobShape, JobGood, Unused, Busy, Critical
<1>4. Ids
  BY DEF Init, Ids, Unused, Idle
<1>5. NamesKept
  BY DEF Init, NamesKept, Unused, Busy, Critical
<1>6. QED
  BY <1>1, <1>2, <1>3, <1>4, <1>5 DEF Basic

\* Steps of the handlers that change neither rows nor jobs.
HandlerStep(p) ==
  \/ \E n \in Name, s \in Settings : CreateRead(p, n, s)
  \/ CreateMirror(p) \/ CreateRefused(p) \/ CreateLate(p) \/ CreateFails(p)
  \/ \E v \in View, n \in Name : ViewRead(p, v, n)
  \/ ViewCommit(p) \/ ViewCut(p) \/ ViewCutRefused(p)

LEMMA HandlerBasic ==
  ASSUME Basic, NEW p \in Handler, HandlerStep(p)
  PROVE  Basic'
<1>1. TypeOK /\ OpShape /\ Ids /\ op[p] \in Op /\ op \in [Handler -> Op]
  BY DEF Basic, TypeOK
<1>2. rows \in Nat
  BY BoundAssumption DEF Basic, TypeOK
<1>3. ASSUME NEW n \in Name, NEW s \in Settings, CreateRead(p, n, s) PROVE Basic'
  <2> DEFINE new == [Idle EXCEPT !.step = "mirror", !.name = n, !.set = s]
  <2>1. new \in Op /\ OpGood(new) /\ new.id = 0
    BY DEF Idle, Op, OpGood
  <2>2. op' = [op EXCEPT ![p] = new]
    BY <1>3 DEF CreateRead
  <2> HIDE DEF new
  <2>3. OpShape' /\ JobShape' /\ Ids' /\ NamesKept'
    <3>1. /\ OpGood(op'[p]) /\ op'[p].id <= rows
          /\ \A q \in Handler : q # p => op'[q] = op[q]
      BY <1>1, <1>2, <2>1, <2>2
    <3>2. QED
      BY <1>3, <3>1, HandlerMoves DEF CreateRead, store, count
  <2>4. TypeOK'
    BY <1>1, <1>3, <2>1, <2>2 DEF TypeOK, CreateRead, store, count, history
  <2>5. QED
    BY <2>3, <2>4 DEF Basic
<1>4. CASE CreateMirror(p)
  <2> DEFINE new == [op[p] EXCEPT !.step = "insert"]
  <2>1. new \in Op /\ OpGood(new) /\ new.id = op[p].id /\ op[p].id <= rows
    BY <1>1, <1>4 DEF Op, OpGood, OpShape, CreateMirror, Ids
  <2>2. op' = [op EXCEPT ![p] = new]
    BY <1>1, <1>4 DEF CreateMirror
  <2>3. op[p].set \in Settings
    BY <1>1, <1>4 DEF OpShape, OpGood, CreateMirror
  <2> HIDE DEF new
  <2>4. OpShape' /\ JobShape' /\ Ids' /\ NamesKept'
    BY <1>1, <1>4, <2>1, <2>2, HandlerMoves DEF CreateMirror, count
  <2>5. TypeOK'
    BY <1>1, <1>4, <2>1, <2>2, <2>3 DEF TypeOK, CreateMirror, Mirror, count, history
  <2>6. QED
    BY <2>4, <2>5 DEF Basic
<1>5. CASE CreateRefused(p)
  <2>1. op' \in [Handler -> Op] /\ OpShape' /\ JobShape' /\ Ids' /\ NamesKept'
    <3>1. Finish(p) /\ UNCHANGED <<row, job, sweep, rows>>
      BY <1>5 DEF CreateRefused, store
    <3>2. OpGood(op'[p]) /\ op'[p].id <= rows /\ op' \in [Handler -> Op]
          /\ \A q \in Handler : q # p => op'[q] = op[q]
      BY <3>1, <1>1, <1>2, FinishFields DEF OpGood
    <3>3. QED
      BY <3>1, <3>2, HandlerMoves
  <2>2. TypeOK'
    BY <2>1, <1>1, <1>5, BoundAssumption DEF TypeOK, CreateRefused, store, history, Fault, Or
  <2>3. QED
    BY <2>1, <2>2 DEF Basic
<1>6. CASE CreateLate(p)
  <2>1. op' \in [Handler -> Op] /\ OpShape' /\ JobShape' /\ Ids' /\ NamesKept'
    <3>1. Finish(p) /\ UNCHANGED <<row, job, sweep, rows>>
      BY <1>6 DEF CreateLate
    <3>2. OpGood(op'[p]) /\ op'[p].id <= rows /\ op' \in [Handler -> Op]
          /\ \A q \in Handler : q # p => op'[q] = op[q]
      BY <3>1, <1>1, <1>2, FinishFields DEF OpGood
    <3>3. QED
      BY <3>1, <3>2, HandlerMoves
  <2>2. op[p].set \in Settings /\ op[p].name \in Name
    BY <1>1, <1>6 DEF OpShape, OpGood, CreateLate
  <2>3. TypeOK'
    BY <2>1, <2>2, <1>1, <1>6, BoundAssumption DEF TypeOK, CreateLate, Mirror, Fault, Or
  <2>4. QED
    BY <2>1, <2>3 DEF Basic
<1>7. CASE CreateFails(p)
  <2>1. op' \in [Handler -> Op] /\ OpShape' /\ JobShape' /\ Ids' /\ NamesKept'
    <3>1. Finish(p) /\ UNCHANGED <<row, job, sweep, rows>>
      BY <1>7 DEF CreateFails, store
    <3>2. OpGood(op'[p]) /\ op'[p].id <= rows /\ op' \in [Handler -> Op]
          /\ \A q \in Handler : q # p => op'[q] = op[q]
      BY <3>1, <1>1, <1>2, FinishFields DEF OpGood
    <3>3. QED
      BY <3>1, <3>2, HandlerMoves
  <2>2. op[p].name \in Name
    BY <1>1, <1>7 DEF OpShape, OpGood, CreateFails
  <2>3. TypeOK'
    BY <2>1, <2>2, <1>1, <1>7, BoundAssumption DEF TypeOK, CreateFails, store, Fault, Or
  <2>4. QED
    BY <2>1, <2>3 DEF Basic
<1>8. ASSUME NEW v \in View, NEW n \in Name, ViewRead(p, v, n) PROVE Basic'
  <2> DEFINE new == [Idle EXCEPT !.step = "link", !.view = v, !.id = row[n].id]
  <2>1. row[n].id \in Id /\ row[n].id <= rows
    BY <1>1, <1>8 DEF ViewRead, TypeOK, Row, Ids
  <2>2. new \in Op /\ OpGood(new) /\ new.id = row[n].id
    BY <2>1 DEF Idle, Op, OpGood
  <2>3. op' = [op EXCEPT ![p] = new]
    BY <1>8 DEF ViewRead
  <2> HIDE DEF new
  <2>4. OpShape' /\ JobShape' /\ Ids' /\ NamesKept'
    BY <1>8, <1>1, <2>1, <2>2, <2>3, HandlerMoves DEF ViewRead, store, count
  <2>5. TypeOK'
    BY <1>1, <1>8, <2>2, <2>3 DEF TypeOK, ViewRead, store, count, history
  <2>6. QED
    BY <2>4, <2>5 DEF Basic
<1>9. CASE ViewCommit(p)
  <2>1. op[p].view \in View /\ op[p].id \in Id /\ op[p].id <= rows
    BY <1>1, <1>9 DEF ViewCommit, OpShape, OpGood, Ids
  <2>2. op' \in [Handler -> Op] /\ OpGood(op'[p]) /\ op'[p].id <= rows
        /\ \A q \in Handler : q # p => op'[q] = op[q]
    <3>1. CASE Finish(p)
      BY <3>1, <1>1, <1>2, FinishFields DEF OpGood
    <3>2. CASE op' = [op EXCEPT ![p].step = "cut"]
      <4> DEFINE new == [op[p] EXCEPT !.step = "cut"]
      <4>1. new \in Op /\ OpGood(new) /\ new.id = op[p].id
        BY <1>1, <2>1 DEF Op, OpGood
      <4>2. op' = [op EXCEPT ![p] = new]
        BY <3>2, <1>1
      <4> HIDE DEF new
      <4>3. QED
        BY <4>1, <4>2, <2>1, <1>1
    <3>3. QED
      BY <3>1, <3>2, <1>9 DEF ViewCommit
  <2>3. OpShape' /\ JobShape' /\ Ids' /\ NamesKept'
    BY <1>9, <2>2, HandlerMoves DEF ViewCommit, count
  <2>4. uses' \in [View -> Id \cup {0}] /\ raced' \subseteq Job
    BY <1>1, <1>9, <2>1 DEF TypeOK, ViewCommit
  <2>5. TypeOK'
    BY <1>1, <1>9, <2>2, <2>4 DEF TypeOK, ViewCommit, count
  <2>6. QED
    BY <2>3, <2>5 DEF Basic
<1>10. CASE ViewCut(p)
  <2>1. op' \in [Handler -> Op] /\ OpShape' /\ JobShape' /\ Ids' /\ NamesKept'
    <3>1. Finish(p) /\ UNCHANGED <<row, job, sweep, rows>>
      BY <1>10 DEF ViewCut, count
    <3>2. OpGood(op'[p]) /\ op'[p].id <= rows /\ op' \in [Handler -> Op]
          /\ \A q \in Handler : q # p => op'[q] = op[q]
      BY <3>1, <1>1, <1>2, FinishFields DEF OpGood
    <3>3. QED
      BY <3>1, <3>2, HandlerMoves
  <2>2. op[p].view \in View
    BY <1>1, <1>10 DEF OpShape, OpGood, ViewCut
  <2>3. TypeOK'
    BY <2>1, <2>2, <1>1, <1>10, BoundAssumption DEF TypeOK, ViewCut, count, history, Cut, Fault, Or
  <2>4. QED
    BY <2>1, <2>3 DEF Basic
<1>11. CASE ViewCutRefused(p)
  <2>1. op' \in [Handler -> Op] /\ OpShape' /\ JobShape' /\ Ids' /\ NamesKept'
    <3>1. Finish(p) /\ UNCHANGED <<row, job, sweep, rows>>
      BY <1>11 DEF ViewCutRefused, store
    <3>2. OpGood(op'[p]) /\ op'[p].id <= rows /\ op' \in [Handler -> Op]
          /\ \A q \in Handler : q # p => op'[q] = op[q]
      BY <3>1, <1>1, <1>2, FinishFields DEF OpGood
    <3>3. QED
      BY <3>1, <3>2, HandlerMoves
  <2>2. TypeOK'
    BY <2>1, <1>1, <1>11, BoundAssumption DEF TypeOK, ViewCutRefused, store, history, Fault, Or
  <2>3. QED
    BY <2>1, <2>2 DEF Basic
<1>12. QED
  BY <1>3, <1>4, <1>5, <1>6, <1>7, <1>8, <1>9, <1>10, <1>11 DEF HandlerStep

LEMMA InsertBasic ==
  ASSUME Basic, NEW p \in Handler, CreateCommit(p)
  PROVE  Basic'
<1> DEFINE n == op[p].name
           new == [id |-> rows + 1, set |-> op[p].set, synced |-> FALSE]
<1>1. /\ TypeOK /\ OpShape /\ JobShape /\ Ids /\ NamesKept
      /\ op[p] \in Op /\ op \in [Handler -> Op]
  BY DEF Basic, TypeOK
<1>2. n \in Name /\ op[p].set \in Settings /\ row[n] = None
  BY <1>1 DEF OpShape, OpGood, CreateCommit
<1>3. rows \in Nat /\ rows < MaxRows /\ rows' = rows + 1 /\ rows + 1 \in Id
  BY <1>1, BoundAssumption DEF TypeOK, CreateCommit, Id
<1>4. new \in Row /\ new.id = rows + 1
  BY <1>2, <1>3 DEF Row
<1>5. row' = [row EXCEPT ![n] = new] /\ Finish(p) /\ UNCHANGED <<job, sweep>>
  BY DEF CreateCommit
<1> HIDE DEF new, n
<1>6. row' \in [Name -> Row \cup {None}] /\ row'[n] = new
      /\ \A m \in Name : m # n => row'[m] = row[m]
  BY <1>1, <1>2, <1>4, <1>5 DEF TypeOK
<1>7. op' \in [Handler -> Op] /\ op'[p].step = "idle" /\ op'[p].id = 0
      /\ \A q \in Handler : q # p => op'[q] = op[q]
  BY <1>1, <1>5, FinishFields
<1>8. TypeOK'
  <2>1. UNCHANGED <<mirror, uses, cuts, job, lease, sweep, sweeps, faults, torn, blurred, raced>>
    BY DEF CreateCommit, history
  <2>2. rows' \in 0..MaxRows
    BY <1>3, BoundAssumption
  <2>3. QED
    BY <2>1, <2>2, <1>1, <1>6, <1>7 DEF TypeOK
<1>9. OpShape'
  BY <1>1, <1>7 DEF OpShape, OpGood
<1>10. JobShape'
  BY <1>1, <1>5 DEF JobShape, JobGood, Busy, Critical
<1>11. Ids'
  <2>1. /\ \A m \in Name : row[m] # None => row[m].id \in Nat /\ row[m].id <= rows
        /\ \A j \in Job : job[j].id \in Nat /\ job[j].id <= rows
        /\ \A q \in Handler : op[q].id \in Nat /\ op[q].id <= rows
        /\ \A i \in sweep.todo : i \in Nat /\ i <= rows
        /\ sweep.at \in Nat /\ sweep.at <= rows
    BY <1>1 DEF TypeOK, Ids, Row, JobRow, Op, Id
  <2>2. \A m \in Name : row'[m] # None => row'[m].id <= rows'
    BY <2>1, <1>3, <1>4, <1>6
  <2>3. \A l, m \in Name :
          row'[l] # None /\ row'[m] # None /\ row'[l].id = row'[m].id => l = m
    BY <2>1, <1>1, <1>3, <1>4, <1>6 DEF Ids
  <2>4. \A q \in Handler : op'[q].id <= rows'
    BY <2>1, <1>3, <1>7
  <2>5. QED
    BY <2>1, <2>2, <2>3, <2>4, <1>3, <1>5 DEF Ids
<1>12. NamesKept'
  <2>1. \A j \in Job : job[j].id # rows + 1
    BY <1>1, <1>3 DEF TypeOK, Ids, JobRow, Id
  <2>2. \A j \in Job, m \in Name : m \in Live(job[j].id)' => m \in Live(job[j].id)
    BY <2>1, <1>4, <1>5, <1>6 DEF Live
  <2>3. QED
    BY <2>2, <1>1, <1>5 DEF NamesKept, Busy, Critical
<1>13. QED
  BY <1>8, <1>9, <1>10, <1>11, <1>12 DEF Basic
LEMMA TriggerBasic ==
  ASSUME Basic, NEW j \in Job, NEW kind \in {"sync", "update", "delete"},
         NEW n \in Name, NEW s \in Settings, Trigger(j, kind, n, s)
  PROVE  Basic'
<1>1. TypeOK /\ OpShape /\ JobShape /\ Ids /\ NamesKept
  BY DEF Basic
<1>2. /\ job' \in [Job -> JobRow]
      /\ \A k \in Job : k # j => job'[k] = job[k]
      /\ job'[j].step = "queued" /\ job'[j].status = "pending"
      /\ job'[j].kind = kind /\ job'[j].id = row[n].id
      /\ row[n].id \in Id /\ row[n].id <= rows
      /\ kind = "update" => job'[j].set = s
  BY <1>1, TriggerFields
<1>3. UNCHANGED <<row, mirror, uses, cuts, op, lease, sweep, rows, sweeps, faults,
                  torn, blurred, raced>>
  BY DEF Trigger, store, count, history
<1>4. TypeOK'
  BY <1>1, <1>2, <1>3 DEF TypeOK
<1>5. OpShape'
  BY <1>1, <1>3 DEF OpShape, OpGood
<1>6. JobShape'
  <2>1. JobGood(job'[j])
    BY <1>2 DEF JobGood, Busy, Critical
  <2>2. QED
    BY <2>1, <1>1, <1>2 DEF JobShape, JobGood, Busy, Critical
<1>7. Ids'
  BY <1>1, <1>2, <1>3 DEF Ids
<1>8. NamesKept'
  <2>1. job'[j].step \notin Busy
    BY <1>2 DEF Busy, Critical
  <2>2. QED
    BY <2>1, <1>1, <1>2, <1>3 DEF NamesKept, Live, Busy, Critical
<1>9. QED
  BY <1>4, <1>5, <1>6, <1>7, <1>8 DEF Basic

LEMMA StartBasic ==
  ASSUME Basic, NEW j \in Job, Start(j)
  PROVE  Basic'
<1>1. TypeOK /\ OpShape /\ JobShape /\ Ids /\ NamesKept
  BY DEF Basic
<1>2. /\ job' \in [Job -> JobRow]
      /\ \A k \in Job : k # j => job'[k] = job[k]
      /\ job[j].step = "queued"
      /\ job'[j].kind = job[j].kind /\ job'[j].id = job[j].id
      /\ \/ /\ Exists(job[j].id)
            /\ job'[j].step = "lock" /\ job'[j].status = "running"
            /\ job'[j].name = NameOf(job[j].id) /\ job'[j].set = job[j].set
         \/ job'[j].step = "ended" /\ job'[j].status = "failed"
  BY <1>1, StartFields
<1>3. UNCHANGED <<row, mirror, uses, cuts, op, lease, sweep, rows, sweeps, faults,
                  torn, blurred, raced>>
  BY DEF Start, store, count, history
<1>4. job[j].kind # "none" /\ job[j].id \in Id
  BY <1>1, <1>2 DEF JobShape, JobGood
<1>5. job[j].kind = "update" => job[j].set \in Settings
  BY <1>1, <1>2 DEF JobShape, JobGood
<1>6. Exists(job[j].id) => /\ NameOf(job[j].id) \in Name
                          /\ \A n \in Live(job[j].id) : n = NameOf(job[j].id)
  BY <1>1, <1>4, NameOfFound
<1>7. TypeOK'
  BY <1>1, <1>2, <1>3 DEF TypeOK
<1>8. OpShape'
  BY <1>1, <1>3 DEF OpShape, OpGood
<1>9. JobShape'
  <2>1. JobGood(job'[j])
    BY <1>2, <1>4, <1>5, <1>6 DEF JobGood, Busy, Critical
  <2>2. QED
    BY <2>1, <1>1, <1>2 DEF JobShape, JobGood, Busy, Critical
<1>10. Ids'
  BY <1>1, <1>2, <1>3, IdsKept
<1>11. NamesKept'
  <2>1. \A n \in Name : job'[j].step \in Busy /\ n \in Live(job[j].id) => job'[j].name = n
    BY <1>2, <1>6 DEF Busy, Critical
  <2>2. QED
    BY <2>1, <1>1, <1>2, <1>3 DEF NamesKept, Live, Busy, Critical
<1>12. QED
  BY <1>7, <1>8, <1>9, <1>10, <1>11 DEF Basic

\* The steps of a job that is under way.
JobStep(j) ==
  \/ Lock(j) \/ Sync(j) \/ Drop(j) \/ Recreate(j) \/ Refused(j)
  \/ SyncCommit(j) \/ UpdateCommit(j) \/ DeleteCommit(j) \/ CommitRaises(j)
  \/ Release(j) \/ Cancel(j) \/ Crash(j) \/ Reap(j)

\* A job either goes on with what it knows, or forgets it and leaves.
Onward(j) ==
  /\ job[j].step \in Busy
  /\ job'[j].step \in Critical /\ job'[j].status = "running"
  /\ job'[j].name = job[j].name /\ job'[j].set = job[j].set
  /\ job'[j].step = "sync" => job[j].kind = "sync"
  /\ job'[j].step = "drop" => job[j].kind # "sync"
  /\ job'[j].step = "recreate" => job[j].kind = "update"
Away(j) ==
  /\ job[j].step # "unused"
  /\ job'[j].step \in {"release", "ended", "dead"} /\ job'[j].status \in Status

LEMMA JobFields ==
  ASSUME Basic, NEW j \in Job, JobStep(j)
  PROVE  /\ job' \in [Job -> JobRow]
         /\ \A k \in Job : k # j => job'[k] = job[k]
         /\ job'[j].kind = job[j].kind /\ job'[j].id = job[j].id
         /\ Onward(j) \/ Away(j)
<1>1. /\ TypeOK /\ JobShape /\ job \in [Job -> JobRow]
      /\ job[j].kind \in {"none", "sync", "update", "delete"}
      /\ job[j].status \in Status
  BY DEF Basic, TypeOK, JobRow, Status
<1>2. ASSUME NEW step \in Critical, Set(j, step, "running"), job[j].step \in Busy,
             step = "sync" => job[j].kind = "sync",
             step = "drop" => job[j].kind # "sync",
             step = "recreate" => job[j].kind = "update"
      PROVE  /\ job' \in [Job -> JobRow]
             /\ \A k \in Job : k # j => job'[k] = job[k]
             /\ job'[j].kind = job[j].kind /\ job'[j].id = job[j].id
             /\ Onward(j)
  <2>1. step \in Step /\ "running" \in Status
    BY <1>2 DEF Critical, Step, Status
  <2>2. QED
    BY <1>1, <1>2, <2>1, SetFields DEF Onward
<1>3. ASSUME NEW step \in {"release", "ended", "dead"}, NEW status \in Status,
             Leave(j, step, status), job[j].step # "unused"
      PROVE  /\ job' \in [Job -> JobRow]
             /\ \A k \in Job : k # j => job'[k] = job[k]
             /\ job'[j].kind = job[j].kind /\ job'[j].id = job[j].id
             /\ Away(j)
  <2>1. step \in Step
    BY DEF Step
  <2>2. QED
    BY <1>1, <1>3, <2>1, LeaveFields DEF Away
<1>4. "running" \in Status /\ "success" \in Status /\ "failed" \in Status
  BY DEF Status
<1>5. CASE Lock(j)
  <2>1. job[j].step = "lock" /\ job[j].kind # "none"
    BY <1>1, <1>5 DEF Lock, JobShape, JobGood
  <2>2. CASE Set(j, Entry(job[j].kind), "running")
    <3>1. Entry(job[j].kind) \in Critical
      BY DEF Entry, Critical
    <3>2. QED
      BY <2>1, <2>2, <3>1, <1>2 DEF Entry, Busy
  <2>3. CASE Leave(j, "ended", "failed")
    BY <2>1, <2>3, <1>3, <1>4
  <2>4. QED
    BY <2>2, <2>3, <1>5 DEF Lock
<1>6. CASE Sync(j)
  BY <1>6, <1>2 DEF Sync, Busy, Critical
<1>7. CASE Drop(j)
  BY <1>7, <1>2 DEF Drop, Busy, Critical
<1>8. CASE Recreate(j)
  BY <1>8, <1>2 DEF Recreate, Busy, Critical
<1>9. CASE Refused(j)
  BY <1>9, <1>3, <1>4 DEF Refused
<1>10. CASE SyncCommit(j) \/ UpdateCommit(j) \/ DeleteCommit(j)
  BY <1>10, <1>3, <1>4 DEF SyncCommit, UpdateCommit, DeleteCommit
<1>11. CASE CommitRaises(j)
  BY <1>11, <1>3, <1>4 DEF CommitRaises
<1>12. CASE Release(j)
  BY <1>12, <1>1, <1>3 DEF Release
<1>13. CASE Cancel(j)
  <2>1. job[j].step # "unused"
    BY <1>13 DEF Cancel, Critical
  <2>2. PICK step \in {"release", "ended"} : Leave(j, step, "failed")
    BY <1>13 DEF Cancel
  <2>3. QED
    BY <2>1, <2>2, <1>3, <1>4
<1>14. CASE Crash(j)
  <2>1. job[j].step # "unused"
    BY <1>14 DEF Crash, Critical
  <2>2. QED
    BY <2>1, <1>1, <1>3, <1>14 DEF Crash
<1>15. CASE Reap(j)
  <2>1. job[j].step \in {"ended", "dead"} /\ Set(j, job[j].step, "failed")
    BY <1>15 DEF Reap
  <2>2. job[j].step \in Step
    BY <2>1 DEF Step
  <2>3. QED
    BY <2>1, <2>2, <1>1, <1>4, SetFields DEF Away
<1>16. QED
  BY <1>5, <1>6, <1>7, <1>8, <1>9, <1>10, <1>11, <1>12, <1>13, <1>14, <1>15 DEF JobStep
\* What they do to the rows: a row is written anew under its name and id, or
\* rows go.
LEMMA JobRows ==
  ASSUME Basic, NEW j \in Job, JobStep(j)
  PROVE  /\ row' \in [Name -> Row \cup {None}]
         /\ \A n \in Name : row'[n] # None => row[n] # None /\ row'[n].id = row[n].id
<1>1. /\ TypeOK /\ JobShape /\ Ids /\ row \in [Name -> Row \cup {None}]
      /\ job[j].step \in Critical => job[j].id \in Id
  BY DEF Basic, TypeOK, JobShape, JobGood, Critical
<1>2. CASE SyncCommit(j)
  <2> DEFINE i == job[j].id
             new == [row[NameOf(i)] EXCEPT !.synced = TRUE]
  <2>1. i \in Id /\ Exists(i)
    BY <1>1, <1>2 DEF SyncCommit, Critical
  <2>2. row[NameOf(i)] \in Row /\ row[NameOf(i)].id = i
    BY <1>1, <2>1, NameOfFound
  <2>3. new \in Row /\ new.id = i
    BY <2>2 DEF Row
  <2>4. row' = [row EXCEPT ![NameOf(i)] = new]
    BY <1>1, <1>2 DEF SyncCommit
  <2> HIDE DEF i, new
  <2>5. /\ row' \in [Name -> Row \cup {None}]
        /\ \A n \in Name : /\ row'[n] = None <=> row[n] = None
                           /\ row[n] # None => row'[n].id = row[n].id
    BY <1>1, <2>1, <2>3, <2>4, RecordFields
  <2>6. QED
    BY <2>5
<1>3. CASE UpdateCommit(j)
  <2> DEFINE i == job[j].id
             new == [row[NameOf(i)] EXCEPT !.set = job[j].set, !.synced = FALSE]
  <2>1. i \in Id /\ Exists(i) /\ job[j].set \in Settings
    BY <1>1, <1>3 DEF UpdateCommit, Critical, JobShape, JobGood, Busy
  <2>2. row[NameOf(i)] \in Row /\ row[NameOf(i)].id = i
    BY <1>1, <2>1, NameOfFound
  <2>3. new \in Row /\ new.id = i
    BY <2>1, <2>2 DEF Row
  <2>4. row' = [row EXCEPT ![NameOf(i)] = new]
    BY <1>1, <1>3 DEF UpdateCommit
  <2> HIDE DEF i, new
  <2>5. /\ row' \in [Name -> Row \cup {None}]
        /\ \A n \in Name : /\ row'[n] = None <=> row[n] = None
                           /\ row[n] # None => row'[n].id = row[n].id
    BY <1>1, <2>1, <2>3, <2>4, RecordFields
  <2>6. QED
    BY <2>5
<1>4. CASE DeleteCommit(j)
  <2>1. row' = [n \in Name |-> IF n \in Live(job[j].id) THEN None ELSE row[n]]
    BY <1>4 DEF DeleteCommit
  <2>2. QED
    BY <1>1, <2>1
<1>5. CASE UNCHANGED row
  BY <1>1, <1>5
<1>6. QED
  BY <1>2, <1>3, <1>4, <1>5
     DEF JobStep, Lock, Sync, Drop, Recreate, Refused, CommitRaises, Release, Cancel,
         Crash, Reap, store

LEMMA JobBasic ==
  ASSUME Basic, NEW j \in Job, JobStep(j)
  PROVE  Basic'
<1>1. TypeOK /\ JobShape /\ job \in [Job -> JobRow] /\ job[j].id \in Id \cup {0}
  BY DEF Basic, TypeOK, JobRow
<1>2. /\ job' \in [Job -> JobRow]
      /\ \A k \in Job : k # j => job'[k] = job[k]
      /\ job'[j].kind = job[j].kind /\ job'[j].id = job[j].id
      /\ Onward(j) \/ Away(j)
  BY JobFields
<1>3. /\ row' \in [Name -> Row \cup {None}]
      /\ \A n \in Name : row'[n] # None => row[n] # None /\ row'[n].id = row[n].id
  BY JobRows
<1>4. UNCHANGED <<uses, cuts, op, sweep, rows, sweeps, raced>>
  BY DEF JobStep, Lock, Sync, Drop, Recreate, Refused, SyncCommit, UpdateCommit,
         DeleteCommit, CommitRaises, Release, Cancel, Crash, Reap, store, count, history
<1>5. OpShape' /\ JobShape' /\ Ids' /\ NamesKept'
  <2>1. JobGood(job'[j])
    <3>1. CASE Onward(j)
      BY <1>1, <1>2, <3>1 DEF Onward, JobGood, JobShape, Busy, Critical
    <3>2. CASE Away(j)
      BY <1>1, <1>2, <3>2 DEF Away, JobGood, JobShape, Busy, Critical
    <3>3. QED
      BY <1>2, <3>1, <3>2
  <2>2. job'[j].step \in Busy => job[j].step \in Busy /\ job'[j].name = job[j].name
    BY <1>2 DEF Onward, Away, Busy, Critical
  <2>3. QED
    BY <1>2, <1>3, <1>4, <2>1, <2>2, JobMoves
<1>6. mirror' \in [Name -> Mirror \cup {None}]
  <2>1. mirror \in [Name -> Mirror \cup {None}]
    BY <1>1 DEF TypeOK
  <2>2. CASE Sync(j)
    <3> DEFINE n == job[j].name
    <3>1. mirror[n] # None /\ mirror' = [mirror EXCEPT ![n].filled = TRUE] /\ n \in Name
      BY <1>1, <2>2 DEF Sync, JobShape, JobGood, Busy, Critical
    <3> HIDE DEF n
    <3>2. QED
      BY <2>1, <3>1 DEF Mirror
  <2>3. CASE Drop(j)
    BY <2>1, <2>3 DEF Drop
  <2>4. CASE Recreate(j)
    <3>1. job[j].set \in Settings
      BY <1>1, <2>4 DEF Recreate, JobShape, JobGood, Busy, Critical
    <3>2. QED
      BY <2>1, <2>4, <3>1 DEF Recreate, Mirror
  <2>5. CASE UNCHANGED mirror
    BY <2>1, <2>5
  <2>6. QED
    BY <2>2, <2>3, <2>4, <2>5
       DEF JobStep, Lock, Refused, SyncCommit, UpdateCommit, DeleteCommit, CommitRaises,
           Release, Cancel, Crash, Reap, store
<1>7. lease' \in [Id -> Job \cup {None}]
  <2>1. lease \in [Id -> Job \cup {None}]
    BY <1>1 DEF TypeOK
  <2>2. QED
    BY <2>1
       DEF JobStep, Lock, Sync, Drop, Recreate, Refused, SyncCommit, UpdateCommit,
           DeleteCommit, CommitRaises, Release, Cancel, Crash, Reap
<1>8. faults' \in 0..MaxFaults
  BY <1>1, BoundAssumption
     DEF TypeOK, Fault, Or, JobStep, Lock, Sync, Drop, Recreate, Refused, SyncCommit,
         UpdateCommit, DeleteCommit, CommitRaises, Release, Cancel, Crash, Reap, count
<1>9. torn' \subseteq Name /\ blurred' \subseteq Name
  <2>1. torn \subseteq Name /\ blurred \subseteq Name
    BY <1>1 DEF TypeOK
  <2>2. job[j].step \in Busy => job[j].name \in Name
    BY <1>1 DEF JobShape, JobGood
  <2>3. torn' = torn \/ (torn' = torn \cup {job[j].name} /\ job[j].step \in Busy)
    BY DEF JobStep, Lock, Sync, Drop, Recreate, Refused, SyncCommit, UpdateCommit,
           DeleteCommit, CommitRaises, Release, Cancel, Crash, Reap, HalfDone, history,
           Busy, Critical
  <2>4. blurred' = blurred \/ (blurred' = blurred \cup {job[j].name} /\ job[j].step \in Busy)
    BY DEF JobStep, Lock, Sync, Drop, Recreate, Refused, SyncCommit, UpdateCommit,
           DeleteCommit, CommitRaises, Release, Cancel, Crash, Reap, history, Busy, Critical
  <2>5. QED
    BY <2>1, <2>2, <2>3, <2>4
<1>10. TypeOK'
  BY <1>1, <1>2, <1>3, <1>4, <1>6, <1>7, <1>8, <1>9 DEF TypeOK
<1>11. QED
  BY <1>5, <1>10 DEF Basic

\* Leases that lapse, the sweep, and the content views.
OtherStep ==
  \/ \E i \in Id : Lapse(i) \/ SweepSync(i) \/ SweepRefused(i)
  \/ SweepStart \/ SweepCommit \/ SweepAborts
  \/ \E v \in View : ViewPublish(v) \/ ViewDelete(v) \/ VersionsDelete(v)

LEMMA OtherBasic ==
  ASSUME Basic, OtherStep
  PROVE  Basic'
<1>1. /\ TypeOK /\ JobShape /\ Ids /\ row \in [Name -> Row \cup {None}]
      /\ sweep \in [todo : SUBSET Id, at : Id \cup {0}]
  BY DEF Basic, TypeOK
<1>2. UNCHANGED <<op, job, rows>>
  BY DEF OtherStep, Lapse, SweepSync, SweepRefused, SweepStart, SweepCommit, SweepAborts,
         ViewPublish, ViewDelete, VersionsDelete, count
<1>3. /\ row' \in [Name -> Row \cup {None}]
      /\ \A n \in Name : row'[n] # None => row[n] # None /\ row'[n].id = row[n].id
  <2>1. CASE SweepCommit
    <3> DEFINE i == sweep.at
               new == [row[NameOf(i)] EXCEPT !.synced = TRUE]
    <3>1. i \in Id /\ Exists(i)
      BY <1>1, <2>1 DEF SweepCommit
    <3>2. row[NameOf(i)] \in Row /\ row[NameOf(i)].id = i
      BY <1>1, <3>1, NameOfFound
    <3>3. new \in Row /\ new.id = i
      BY <3>2 DEF Row
    <3>4. row' = [row EXCEPT ![NameOf(i)] = new]
      BY <1>1, <2>1 DEF SweepCommit
    <3> HIDE DEF i, new
    <3>5. /\ row' \in [Name -> Row \cup {None}]
          /\ \A n \in Name : /\ row'[n] = None <=> row[n] = None
                             /\ row[n] # None => row'[n].id = row[n].id
      BY <1>1, <3>1, <3>3, <3>4, RecordFields
    <3>6. QED
      BY <3>5
  <2>2. CASE UNCHANGED row
    BY <1>1, <2>2
  <2>3. QED
    BY <2>1, <2>2
       DEF OtherStep, Lapse, SweepSync, SweepRefused, SweepStart, SweepAborts,
           ViewPublish, ViewDelete, VersionsDelete, store
<1>4. /\ sweep' \in [todo : SUBSET Id, at : Id \cup {0}]
      /\ \A i \in sweep'.todo : i <= rows
      /\ sweep'.at <= rows
  <2>1. (\A i \in sweep.todo : i <= rows) /\ sweep.at <= rows /\ rows \in Nat
    BY <1>1, BoundAssumption DEF Ids, TypeOK
  <2>2. CASE SweepStart
    <3>1. PICK auto \in SUBSET {i \in Id : Exists(i)} : sweep' = [sweep EXCEPT !.todo = auto]
      BY <2>2 DEF SweepStart
    <3>2. \A i \in auto : i \in Id /\ i <= rows
      BY <1>1 DEF Exists, Live, Ids
    <3>3. QED
      BY <1>1, <2>1, <3>1, <3>2
  <2>3. CASE \E i \in Id : SweepSync(i)
    BY <1>1, <2>1, <2>3 DEF SweepSync
  <2>4. CASE \E i \in Id : SweepRefused(i)
    BY <1>1, <2>1, <2>4 DEF SweepRefused
  <2>5. CASE SweepCommit
    BY <1>1, <2>1, <2>5 DEF SweepCommit
  <2>6. CASE SweepAborts
    BY <1>1, <2>1, <2>6 DEF SweepAborts
  <2>7. CASE UNCHANGED sweep
    BY <1>1, <2>1, <2>7
  <2>8. QED
    BY <2>2, <2>3, <2>4, <2>5, <2>6, <2>7
       DEF OtherStep, Lapse, ViewPublish, ViewDelete, VersionsDelete
<1>5. OpShape' /\ JobShape' /\ Ids' /\ NamesKept'
  BY <1>2, <1>3, <1>4, OthersMove
<1>6. TypeOK'
  <2>1. CASE \E i \in Id : Lapse(i)
    <3>1. PICK i \in Id : Lapse(i)
      BY <2>1
    <3>2. lease[i] \in Job
      BY <1>1, <3>1 DEF Lapse, TypeOK
    <3>3. blurred' \subseteq Name
      BY <1>1, <3>1, <3>2 DEF Lapse, TypeOK, JobShape, JobGood, Busy
    <3>4. lease' \in [Id -> Job \cup {None}] /\ faults' \in 0..MaxFaults
      BY <1>1, <3>1, BoundAssumption DEF Lapse, TypeOK, Or, Fault
    <3>5. UNCHANGED <<row, mirror, uses, cuts, sweep, sweeps, torn, raced>>
      BY <3>1 DEF Lapse, store
    <3>6. QED
      BY <1>1, <1>2, <3>3, <3>4, <3>5 DEF TypeOK
  <2>2. CASE \E i \in Id : SweepSync(i)
    <3>1. PICK i \in Id : SweepSync(i)
      BY <2>2
    <3>2. NameOf(i) \in Name /\ mirror[NameOf(i)] # None
      BY <1>1, <3>1, NameOfFound DEF SweepSync
    <3>3. mirror' \in [Name -> Mirror \cup {None}]
      <4> DEFINE n == NameOf(i)
      <4>1. n \in Name /\ mirror[n] # None /\ mirror' = [mirror EXCEPT ![n].filled = TRUE]
        BY <3>1, <3>2 DEF SweepSync
      <4> HIDE DEF n
      <4>2. mirror \in [Name -> Mirror \cup {None}] /\ mirror[n] \in Mirror
        BY <1>1, <4>1 DEF TypeOK
      <4>3. [mirror[n] EXCEPT !.filled = TRUE] \in Mirror
        BY <4>2 DEF Mirror
      <4>4. QED
        BY <4>1, <4>2, <4>3
    <3>4. blurred' \subseteq Name
      BY <1>1, <3>1, <3>2 DEF SweepSync, TypeOK
    <3>5. UNCHANGED <<uses, cuts, lease, sweeps, faults, torn, raced>>
      BY <3>1 DEF SweepSync, count
    <3>6. QED
      BY <1>1, <1>2, <1>3, <1>4, <3>3, <3>4, <3>5 DEF TypeOK
  <2>3. CASE \E i \in Id : SweepRefused(i)
    <3>1. faults' \in 0..MaxFaults
      BY <1>1, <2>3, BoundAssumption DEF SweepRefused, TypeOK, Or, Fault
    <3>2. UNCHANGED <<mirror, uses, cuts, lease, sweeps, torn, blurred, raced>>
      BY <2>3 DEF SweepRefused, store, history
    <3>3. QED
      BY <1>1, <1>2, <1>3, <1>4, <3>1, <3>2 DEF TypeOK
  <2>4. CASE SweepStart
    <3>1. sweeps' \in 0..MaxSweeps
      BY <1>1, <2>4, BoundAssumption DEF SweepStart, TypeOK
    <3>2. UNCHANGED <<mirror, uses, cuts, lease, faults, torn, blurred, raced>>
      BY <2>4 DEF SweepStart, store, history
    <3>3. QED
      BY <1>1, <1>2, <1>3, <1>4, <3>1, <3>2 DEF TypeOK
  <2>5. CASE SweepCommit \/ SweepAborts
    <3>1. UNCHANGED <<mirror, uses, cuts, lease, sweeps, faults, torn, blurred, raced>>
      BY <2>5 DEF SweepCommit, SweepAborts, store, count, history
    <3>2. QED
      BY <1>1, <1>2, <1>3, <1>4, <3>1 DEF TypeOK
  <2>6. CASE \E v \in View : ViewPublish(v) \/ ViewDelete(v) \/ VersionsDelete(v)
    <3>1. UNCHANGED <<mirror, lease, sweeps, faults, torn, blurred, raced>>
      BY <2>6 DEF ViewPublish, ViewDelete, VersionsDelete, count, history
    <3>2. uses' \in [View -> Id \cup {0}] /\ cuts' \in [Name -> SUBSET View]
      BY <1>1, <2>6 DEF ViewPublish, ViewDelete, VersionsDelete, Cut, TypeOK
    <3>3. QED
      BY <1>1, <1>2, <1>3, <1>4, <3>1, <3>2 DEF TypeOK
  <2>7. QED
    BY <2>1, <2>2, <2>3, <2>4, <2>5, <2>6 DEF OtherStep
<1>7. QED
  BY <1>5, <1>6 DEF Basic

\* Every step is one of these.
LEMMA Steps ==
  ASSUME Next
  PROVE  \/ \E p \in Handler : HandlerStep(p) \/ CreateCommit(p)
         \/ \E j \in Job, kind \in {"sync", "update", "delete"}, n \in Name,
              s \in Settings : Trigger(j, kind, n, s)
         \/ \E j \in Job : Start(j) \/ JobStep(j)
         \/ OtherStep
BY DEF Next, CreateStep, TaskStep, SweepStep, HandlerStep, JobStep, OtherStep

LEMMA BasicStep ==
  ASSUME Basic, [Next]_vars
  PROVE  Basic'
<1>1. CASE UNCHANGED vars
  <2>1. TypeOK'
    BY <1>1 DEF Basic, TypeOK, vars, store, count, history
  <2>2. OpShape' /\ JobShape' /\ Ids' /\ NamesKept'
    BY <1>1, OthersMove DEF Basic, Ids, vars, store, count
  <2>3. QED
    BY <2>1, <2>2 DEF Basic
<1>2. CASE Next
  BY <1>2, Steps, HandlerBasic, InsertBasic, TriggerBasic, StartBasic, JobBasic, OtherBasic
<1>3. QED
  BY <1>1, <1>2

\* Every store keeps its type: what is in the rows, the mirrors, the snapshots,
\* the jobs and the leases.
THEOREM TypeCorrect == Spec => []TypeOK
<1>1. Spec => []Basic
  BY BasicInit, BasicStep, PTL DEF Spec
<1>2. Basic => TypeOK
  BY DEF Basic
<1>3. QED
  BY <1>1, <1>2, PTL

-----------------------------------------------------------------------------
(* Leases and the guard. *)

\* Who works on a mirror holds the lease of its row, unless a lease lapsed.
Holds ==
  \A j \in Job : job[j].step \in Critical /\ job[j].name \notin blurred => lease[job[j].id] = j

Guarded(j) ==
  /\ job[j].step \in Busy /\ job[j].kind # "sync" /\ Used(job[j].id) => j \in raced
  /\ job[j].status = "success" /\ job[j].kind = "delete" => ~Exists(job[j].id)
  /\ job[j].step \in {"release", "ended"} /\ job[j].status = "running" =>
       j \in raced \/ ~Exists(job[j].id)

GuardInv == Holds /\ \A j \in Job : Guarded(j)

LEMMA HoldsKept ==
  ASSUME Holds, lease' = lease, blurred \subseteq blurred',
         \A j \in Job : job'[j].step \in Critical =>
           job[j].step \in Critical /\ job'[j].id = job[j].id /\ job'[j].name = job[j].name
  PROVE  Holds'
BY DEF Holds, Critical

\* A job that does not move stays guarded while no row comes back and no view
\* starts to use its own unnoticed.
LEMMA GuardedKept ==
  ASSUME NEW j \in Job, Guarded(j), job'[j] = job[j], raced \subseteq raced',
         Exists(job[j].id)' => Exists(job[j].id),
         Used(job[j].id)' /\ job[j].step \in Busy => Used(job[j].id) \/ j \in raced'
  PROVE  Guarded(j)'
BY DEF Guarded, Busy, Critical

\* A row that was there once does not come back.
LEMMA NoReturn ==
  ASSUME \A n \in Name : row'[n] # None => row[n] # None /\ row'[n].id = row[n].id,
         NEW i, Exists(i)'
  PROVE  Exists(i)
BY DEF Exists, Live

LEMMA HandlerGuard ==
  ASSUME Basic, GuardInv, NEW p \in Handler, HandlerStep(p)
  PROVE  GuardInv'
<1>1. /\ UNCHANGED <<row, job, lease>>
      /\ blurred \subseteq blurred' /\ raced \subseteq raced'
  BY DEF HandlerStep, CreateRead, CreateMirror, CreateRefused, CreateLate, CreateFails,
         ViewRead, ViewCommit, ViewCut, ViewCutRefused, store, history
<1>2. Holds'
  BY <1>1, HoldsKept DEF GuardInv
<1>3. ASSUME NEW j \in Job PROVE Guarded(j)'
  <2>1. Used(job[j].id)' /\ job[j].step \in Busy => Used(job[j].id) \/ j \in raced'
    <3>1. CASE ViewCommit(p)
      <4>1. CASE UNCHANGED uses
        BY <4>1, <1>1 DEF Used
      <4>2. CASE uses' = [uses EXCEPT ![op[p].view] = op[p].id]
                 /\ raced' = raced \cup {k \in Job :
                      job[k].id = op[p].id /\ job[k].step \in {"lock"} \cup Critical}
        <5>1. uses \in [View -> Id \cup {0}]
          BY DEF Basic, TypeOK
        <5>2. Used(job[j].id)' => Used(job[j].id) \/ job[j].id = op[p].id
          BY <4>2, <5>1, <1>1 DEF Used
        <5>3. QED
          BY <4>2, <5>2 DEF Busy
      <4>3. QED
        BY <3>1, <4>1, <4>2 DEF ViewCommit
    <3>2. CASE UNCHANGED uses
      BY <3>2, <1>1 DEF Used
    <3>3. QED
      BY <3>1, <3>2
         DEF HandlerStep, CreateRead, CreateMirror, CreateRefused, CreateLate, CreateFails,
             ViewRead, ViewCut, ViewCutRefused, store
  <2>2. Exists(job[j].id)' => Exists(job[j].id)
    BY <1>1 DEF Exists, Live
  <2>3. QED
    BY <1>1, <2>1, <2>2, GuardedKept DEF GuardInv
<1>4. QED
  BY <1>2, <1>3 DEF GuardInv

LEMMA InsertGuard ==
  ASSUME Basic, GuardInv, NEW p \in Handler, CreateCommit(p)
  PROVE  GuardInv'
<1>1. UNCHANGED <<job, lease, uses, blurred, raced>>
  BY DEF CreateCommit, history
<1>2. Holds'
  BY <1>1, HoldsKept DEF GuardInv
<1>3. ASSUME NEW j \in Job PROVE Guarded(j)'
  <2>1. /\ job[j].id \in Nat /\ job[j].id <= rows /\ rows \in Nat
        /\ op[p].name \in Name /\ row \in [Name -> Row \cup {None}]
    BY BoundAssumption DEF Basic, TypeOK, Ids, JobRow, Id, OpShape, OpGood, CreateCommit
  <2>2. Exists(job[j].id)' => Exists(job[j].id)
    BY <2>1, <1>1 DEF CreateCommit, Exists, Live
  <2>3. Used(job[j].id)' => Used(job[j].id)
    BY <1>1 DEF Used
  <2>4. QED
    BY <1>1, <2>2, <2>3, GuardedKept DEF GuardInv
<1>4. QED
  BY <1>2, <1>3 DEF GuardInv

\* A job triggered, and a job started.
LEMMA BeginGuard ==
  ASSUME Basic, GuardInv, NEW j \in Job,
         Start(j) \/ \E kind \in {"sync", "update", "delete"}, n \in Name, s \in Settings :
                      Trigger(j, kind, n, s)
  PROVE  GuardInv'
<1>1. TypeOK /\ Ids
  BY DEF Basic
<1>2. UNCHANGED <<row, uses, lease, blurred, raced>>
  BY DEF Start, Trigger, store, history
<1>3. /\ \A k \in Job : k # j => job'[k] = job[k]
      /\ \/ job'[j].step = "queued" /\ job'[j].status = "pending"
         \/ job'[j].step = "ended" /\ job'[j].status = "failed"
         \/ /\ job'[j].step = "lock" /\ job'[j].status = "running"
            /\ job'[j].kind = "sync" \/ ~Used(job[j].id)
            /\ job'[j].id = job[j].id
  <2>1. CASE Start(j)
    BY <1>1, <2>1, StartFields
  <2>2. CASE \E kind \in {"sync", "update", "delete"}, n \in Name, s \in Settings :
               Trigger(j, kind, n, s)
    BY <1>1, <2>2, TriggerFields
  <2>3. QED
    BY <2>1, <2>2
<1>4. Holds'
  BY <1>2, <1>3, HoldsKept DEF GuardInv, Critical
<1>5. ASSUME NEW k \in Job PROVE Guarded(k)'
  <2>1. CASE k = j
    <3>1. job'[j].id = job[j].id /\ ~Used(job[j].id) => ~Used(job[j].id)'
      BY <1>2 DEF Used
    <3>2. QED
      BY <1>3, <2>1, <3>1 DEF Guarded, Busy, Critical
  <2>2. CASE k # j
    <3>1. (Exists(job[k].id)' => Exists(job[k].id)) /\ (Used(job[k].id)' => Used(job[k].id))
      BY <1>2, <1>3, <2>2 DEF Exists, Live, Used
    <3>2. QED
      BY <1>2, <1>3, <2>2, <3>1, GuardedKept DEF GuardInv
  <2>3. QED
    BY <2>1, <2>2
<1>6. QED
  BY <1>4, <1>5 DEF GuardInv

\* Where a step of a job may come from, by where it leads.
LEMMA JobOutcome ==
  ASSUME Basic, NEW j \in Job, JobStep(j)
  PROVE  /\ job'[j].step \in Critical =>
              job[j].step \in Critical \/ (Lock(j) /\ lease[job[j].id] = None)
         /\ job'[j].status = "success" =>
              job[j].status = "success" \/ DeleteCommit(j) \/ job[j].kind # "delete"
         /\ job'[j].step \in {"release", "ended"} /\ job'[j].status = "running" =>
              \/ CommitRaises(j)
              \/ job[j].step \in {"release", "ended"} /\ job[j].status = "running"
<1>1. TypeOK /\ job[j].status \in Status
  BY DEF Basic, TypeOK, JobRow, Status
<1>2. ASSUME NEW step \in {"release", "ended", "dead"}, NEW status \in Status,
             Leave(j, step, status)
      PROVE  job'[j].step = step /\ job'[j].status = status
  <2>1. step \in Step
    BY DEF Step
  <2>2. QED
    BY <1>1, <1>2, <2>1, LeaveFields
<1>3. ASSUME NEW step \in Critical \cup {"ended", "dead"}, NEW status \in Status,
             Set(j, step, status)
      PROVE  job'[j].step = step /\ job'[j].status = status
  <2>1. step \in Step
    BY DEF Step, Critical
  <2>2. QED
    BY <1>1, <1>3, <2>1, SetFields
<1>4. "running" \in Status /\ "success" \in Status /\ "failed" \in Status
  BY DEF Status
<1>5. CASE Lock(j)
  <2>1. CASE lease[job[j].id] = None
    <3>1. Set(j, Entry(job[j].kind), "running") /\ Entry(job[j].kind) \in Critical
      BY <1>5, <2>1 DEF Lock, Entry, Critical
    <3>2. QED
      BY <1>3, <1>4, <1>5, <2>1, <3>1 DEF Critical
  <2>2. CASE lease[job[j].id] # None
    BY <1>2, <1>4, <1>5, <2>2 DEF Lock, Critical
  <2>3. QED
    BY <2>1, <2>2
<1>6. CASE Sync(j) \/ Drop(j) \/ Recreate(j)
  <2>1. job[j].step \in Critical /\ \E step \in Critical : Set(j, step, "running")
    BY <1>6 DEF Sync, Drop, Recreate, Critical
  <2>2. job'[j].step \in Critical /\ job'[j].status = "running"
    BY <1>3, <1>4, <2>1
  <2>3. QED
    BY <2>1, <2>2 DEF Critical
<1>7. CASE Refused(j)
  BY <1>2, <1>4, <1>7 DEF Refused, Critical
<1>8. CASE SyncCommit(j) \/ UpdateCommit(j) \/ DeleteCommit(j)
  BY <1>2, <1>4, <1>8 DEF SyncCommit, UpdateCommit, DeleteCommit, Critical
<1>9. CASE CommitRaises(j)
  BY <1>2, <1>4, <1>9 DEF CommitRaises, Critical
<1>10. CASE Release(j)
  BY <1>1, <1>2, <1>10 DEF Release, Critical
<1>11. CASE Cancel(j)
  <2>1. PICK step \in {"release", "ended"} : Leave(j, step, "failed")
    BY <1>11 DEF Cancel
  <2>2. QED
    BY <1>2, <1>4, <2>1 DEF Critical
<1>12. CASE Crash(j)
  BY <1>1, <1>2, <1>12 DEF Crash, Critical
<1>13. CASE Reap(j)
  <2>1. job[j].step \in {"ended", "dead"} /\ Set(j, job[j].step, "failed")
    BY <1>13 DEF Reap
  <2>2. QED
    BY <1>3, <1>4, <2>1 DEF Critical
<1>14. QED
  BY <1>5, <1>6, <1>7, <1>8, <1>9, <1>10, <1>11, <1>12, <1>13 DEF JobStep

LEMMA JobGuard ==
  ASSUME Basic, GuardInv, NEW j \in Job, JobStep(j)
  PROVE  GuardInv'
<1>1. /\ TypeOK /\ JobShape /\ job \in [Job -> JobRow] /\ job[j].id \in Id \cup {0}
      /\ lease \in [Id -> Job \cup {None}]
      /\ \A k \in Job : job[k].step # "unused" => job[k].id \in Id
  BY DEF Basic, TypeOK, JobRow, JobShape, JobGood
<1>2. /\ job' \in [Job -> JobRow]
      /\ \A k \in Job : k # j => job'[k] = job[k]
      /\ job'[j].kind = job[j].kind /\ job'[j].id = job[j].id
      /\ Onward(j) \/ Away(j)
  BY JobFields
<1>3. /\ \A n \in Name : row'[n] # None => row[n] # None /\ row'[n].id = row[n].id
      /\ UNCHANGED <<uses, raced>> /\ blurred \subseteq blurred'
  BY JobRows
     DEF JobStep, Lock, Sync, Drop, Recreate, Refused, SyncCommit, UpdateCommit,
         DeleteCommit, CommitRaises, Release, Cancel, Crash, Reap, store, history
<1>4. Holds'
  <2>1. CASE Lock(j) /\ lease[job[j].id] = None
    <3>1. job[j].id \in Id /\ lease' = [lease EXCEPT ![job[j].id] = j]
      BY <1>1, <2>1 DEF Lock
    <3>2. ASSUME NEW k \in Job, job'[k].step \in Critical, job'[k].name \notin blurred'
          PROVE  lease'[job'[k].id] = k
      <4>1. CASE k = j
        BY <1>1, <1>2, <3>1, <4>1
      <4>2. CASE k # j
        <5>1. lease[job[k].id] = k /\ job[k].id \in Id /\ job'[k].id = job[k].id
          BY <1>1, <1>2, <1>3, <3>2, <4>2 DEF GuardInv, Holds, Critical
        <5>2. job[k].id # job[j].id
          BY <2>1, <5>1, NoneAssumption
        <5>3. QED
          BY <1>1, <3>1, <5>1, <5>2
      <4>3. QED
        BY <4>1, <4>2
    <3>3. QED
      BY <3>2 DEF Holds, Critical
  <2>2. CASE Release(j)
    <3>1. job[j].step = "release" /\ job'[j].step = "ended"
      BY <1>1, <2>2, LeaveFields DEF Release, Step, Status, JobRow
    <3>2. ASSUME NEW k \in Job, job'[k].step \in Critical, job'[k].name \notin blurred'
          PROVE  lease'[job'[k].id] = k
      <4>1. k # j
        BY <3>1, <3>2 DEF Critical
      <4>2. lease[job[k].id] = k /\ job[k].id \in Id /\ job'[k].id = job[k].id
        BY <1>1, <1>2, <1>3, <3>2, <4>1 DEF GuardInv, Holds, Critical
      <4>3. QED
        BY <1>1, <2>2, <4>1, <4>2 DEF Release
    <3>3. QED
      BY <3>2 DEF Holds, Critical
  <2>3. CASE lease' = lease /\ ~Lock(j)
    <3>1. job'[j].step \in Critical => job[j].step \in Critical /\ job'[j].name = job[j].name
      BY <1>2, <2>3, JobOutcome DEF Onward, Away, Critical
    <3>2. QED
      BY <1>2, <1>3, <2>3, <3>1, HoldsKept DEF GuardInv
  <2>4. CASE Lock(j) /\ lease[job[j].id] # None
    <3>1. Leave(j, "ended", "failed") /\ lease' = lease
      BY <2>4 DEF Lock
    <3>2. job'[j].step = "ended"
      BY <1>1, <3>1, LeaveFields DEF Step, Status
    <3>3. QED
      BY <1>2, <1>3, <3>1, <3>2, HoldsKept DEF GuardInv, Critical
  <2>5. QED
    BY <2>1, <2>2, <2>3, <2>4
       DEF JobStep, Lock, Sync, Drop, Recreate, Refused, SyncCommit, UpdateCommit,
           DeleteCommit, CommitRaises, Cancel, Crash, Reap
<1>5. ASSUME NEW k \in Job PROVE Guarded(k)'
  <2>1. /\ Exists(job[k].id)' => Exists(job[k].id)
        /\ Used(job[k].id)' => Used(job[k].id)
        /\ job'[k].id = job[k].id /\ job'[k].kind = job[k].kind /\ Guarded(k)
    BY <1>2, <1>3, NoReturn DEF Used, Exists, Live, GuardInv
  <2>2. CASE k # j
    BY <1>2, <1>3, <2>1, <2>2, GuardedKept
  <2>3. CASE k = j
    <3>1. ~Exists(job[j].id)' \/ (Exists(job[j].id) /\ job'[j].id = job[j].id)
      BY <1>2, <1>3, NoReturn DEF Exists, Live
    <3>2. job'[j].step \in Busy /\ job'[j].kind # "sync" /\ Used(job[j].id)' => j \in raced'
      <4>1. Used(job[j].id)' => Used(job[j].id)
        BY <1>2, <1>3 DEF Used
      <4>2. job'[j].step \in Busy => job[j].step \in Busy
        BY <1>2 DEF Onward, Away, Busy, Critical
      <4>3. QED
        BY <1>2, <1>3, <2>1, <2>3, <4>1, <4>2 DEF Guarded
    <3>3. job'[j].status = "success" /\ job'[j].kind = "delete" => ~Exists(job[j].id)'
      <4>1. CASE DeleteCommit(j)
        <5>1. row' = [n \in Name |-> IF n \in Live(job[j].id) THEN None ELSE row[n]]
          BY <4>1 DEF DeleteCommit
        <5>2. QED
          BY <5>1, <1>2, <1>3 DEF Exists, Live
      <4>2. CASE job[j].status = "success"
        BY <4>2, <2>1, <2>3, <1>2, <3>1 DEF Guarded
      <4>3. CASE job'[j].status # "success" \/ job'[j].kind # "delete"
        BY <4>3
      <4>4. QED
        BY <4>1, <4>2, <4>3, <1>2, JobOutcome
    <3>4. job'[j].step \in {"release", "ended"} /\ job'[j].status = "running" =>
            j \in raced' \/ ~Exists(job[j].id)'
      <4>1. CASE CommitRaises(j)
        <5>1. job[j].step \in Busy
          BY <4>1 DEF CommitRaises, Busy, Critical
        <5>2. j \in raced \/ ~Exists(job[j].id)
          BY <4>1, <5>1, <2>1, <2>3 DEF CommitRaises, Guarded
        <5>3. QED
          BY <5>2, <1>2, <1>3, <3>1
      <4>2. CASE job[j].step \in {"release", "ended"} /\ job[j].status = "running"
        BY <4>2, <2>1, <2>3, <1>2, <1>3, <3>1 DEF Guarded
      <4>3. CASE job'[j].step \notin {"release", "ended"} \/ job'[j].status # "running"
        BY <4>3
      <4>4. QED
        BY <4>1, <4>2, <4>3, JobOutcome
    <3>5. QED
      BY <2>3, <3>2, <3>3, <3>4 DEF Guarded, Busy, Critical
  <2>4. QED
    BY <2>2, <2>3
<1>6. QED
  BY <1>4, <1>5 DEF GuardInv
LEMMA OtherGuard ==
  ASSUME Basic, GuardInv, OtherStep
  PROVE  GuardInv'
<1>1. /\ UNCHANGED <<job, raced>> /\ blurred \subseteq blurred'
      /\ \A v \in View : uses'[v] = uses[v] \/ uses'[v] = 0
  BY DEF Basic, TypeOK, OtherStep, Lapse, SweepSync, SweepRefused, SweepStart, SweepCommit,
         SweepAborts, ViewPublish, ViewDelete, VersionsDelete, store, history
<1>2. \A n \in Name : row'[n] # None => row[n] # None /\ row'[n].id = row[n].id
  <2>1. CASE SweepCommit
    <3>1. sweep.at \in Id /\ row \in [Name -> Row \cup {None}]
      BY <2>1 DEF SweepCommit, Basic, TypeOK
    <3>2. NameOf(sweep.at) \in Name /\ row[NameOf(sweep.at)] \in Row
      BY <2>1, <3>1, NameOfFound DEF SweepCommit, Basic
    <3> DEFINE n == NameOf(sweep.at)
               new == [row[n] EXCEPT !.synced = TRUE]
    <3>3. new.id = row[n].id /\ row[n] # None
      BY <3>2, NoneAssumption DEF Row
    <3>4. row' = [row EXCEPT ![n] = new] /\ n \in Name
      BY <2>1, <3>1, <3>2 DEF SweepCommit
    <3> HIDE DEF n, new
    <3>5. QED
      BY <3>1, <3>3, <3>4
  <2>2. CASE UNCHANGED row
    BY <2>2
  <2>3. QED
    BY <2>1, <2>2
       DEF OtherStep, Lapse, SweepSync, SweepRefused, SweepStart, SweepAborts,
           ViewPublish, ViewDelete, VersionsDelete, store
<1>3. Holds'
  <2>1. CASE \E i \in Id : Lapse(i)
    <3>1. PICK i \in Id : Lapse(i)
      BY <2>1
    <3>2. ASSUME NEW k \in Job, job[k].step \in Critical, job[k].name \notin blurred'
          PROVE  lease'[job[k].id] = k
      <4>1. lease[job[k].id] = k /\ job[k].id \in Id
        BY <1>1, <3>2 DEF GuardInv, Holds, Basic, JobShape, JobGood, Critical
      <4>2. job[k].id # i
        BY <3>1, <3>2, <4>1 DEF Lapse
      <4>3. QED
        BY <3>1, <4>1, <4>2 DEF Lapse, Basic, TypeOK
    <3>3. QED
      BY <1>1, <3>2 DEF Holds, Critical
  <2>2. CASE UNCHANGED lease
    BY <1>1, <2>2, HoldsKept DEF GuardInv
  <2>3. QED
    BY <2>1, <2>2
       DEF OtherStep, SweepSync, SweepRefused, SweepStart, SweepCommit, SweepAborts,
           ViewPublish, ViewDelete, VersionsDelete
<1>4. ASSUME NEW j \in Job PROVE Guarded(j)'
  <2>1. Exists(job[j].id)' => Exists(job[j].id)
    BY <1>1, <1>2 DEF Exists, Live
  <2>2. Used(job[j].id)' /\ job[j].step \in Busy => Used(job[j].id)
    <3>1. job[j].step \in Busy => job[j].id \in Id
      BY DEF Basic, JobShape, JobGood, Busy, Critical
    <3>2. 0 \notin Id
      BY BoundAssumption DEF Id
    <3>3. QED
      BY <1>1, <3>1, <3>2 DEF Used
  <2>3. QED
    BY <1>1, <2>1, <2>2, GuardedKept DEF GuardInv
<1>5. QED
  BY <1>3, <1>4 DEF GuardInv

LEMMA GuardInit == Init => GuardInv
<1> SUFFICES ASSUME Init PROVE GuardInv
  OBVIOUS
<1>1. \A j \in Job : job[j].step = "unused" /\ job[j].status = "pending"
  BY DEF Init, Unused
<1>2. QED
  BY <1>1 DEF GuardInv, Holds, Guarded, Busy, Critical

LEMMA GuardStep ==
  ASSUME Basic, GuardInv, [Next]_vars
  PROVE  GuardInv'
<1>1. CASE UNCHANGED vars
  BY <1>1 DEF GuardInv, Holds, Guarded, Used, Exists, Live, Busy, Critical, vars, store, history
<1>2. CASE Next
  BY <1>2, Steps, HandlerGuard, InsertGuard, BeginGuard, JobGuard, OtherGuard
<1>3. QED
  BY <1>1, <1>2

\* delete_repository and update_repository never work on a repository that a
\* content view refers to, except one created after their check; and what is
\* recorded as deleted is.
THEOREM Guard == Spec => []GuardHolds
<1>1. Spec => []Basic
  BY BasicInit, BasicStep, PTL DEF Spec
<1>2. Spec => []GuardInv
  BY <1>1, GuardInit, GuardStep, PTL DEF Spec
<1>3. GuardInv => GuardHolds
  BY DEF GuardInv, Guarded, GuardHolds, Busy
<1>4. QED
  BY <1>2, <1>3, PTL

\* A sync, update or delete task that ran to its end left its job closed, or
\* met a commit that another one's change made impossible.
THEOREM EndedClosed == Spec => []EndedIsClosed
<1>1. Spec => []Basic
  BY BasicInit, BasicStep, PTL DEF Spec
<1>2. Spec => []GuardInv
  BY <1>1, GuardInit, GuardStep, PTL DEF Spec
<1>3. GuardInv => EndedIsClosed
  BY DEF GuardInv, Guarded, EndedIsClosed
<1>4. QED
  BY <1>2, <1>3, PTL

-----------------------------------------------------------------------------
(* Rows and mirrors.  Between the two stores stand the jobs that are half    *)
(* done and the handlers about to insert their row; a name whose halves were *)
(* never left apart, and that no two writers worked on, is in order          *)
(* otherwise.                                                                *)

Half(j, n) == job[j].name = n /\ HalfDone(j)
Inserting(p, n) == op[p].name = n /\ op[p].step = "insert"
Filling(j, n) ==
  /\ job[j].kind = "sync" /\ job[j].step = "record"
  /\ job[j].name = n /\ n \in Live(job[j].id)
Full(n) == mirror[n] # None /\ mirror[n].filled

Matched(n) ==
  /\ row[n] = None <=> mirror[n] = None
  /\ row[n] # None => row[n].set = mirror[n].set
Settled(n) == (\A j \in Job : ~Half(j, n)) /\ (\A p \in Handler : ~Inserting(p, n))

\* A half-done job has a live row, and its mirror is gone, or is the new one;
\* a mirror without a row has one handler that inserts it.
HalfGood(j, n) ==
  /\ n \in Live(job[j].id)
  /\ job[j].kind = "update" /\ job[j].step = "record" =>
       /\ mirror[n] # None /\ mirror[n].set = job[j].set
       /\ \A p \in Handler : ~Inserting(p, n)
  /\ \/ job[j].kind = "update" /\ job[j].step = "record"
     \/ mirror[n] = None
     \/ \E p \in Handler : Inserting(p, n)
InsertGood(p, n) ==
  /\ mirror[n] # None /\ mirror[n].set = op[p].set
  /\ \A q \in Handler : Inserting(q, n) => q = p
  /\ row[n] = None \/ \E j \in Job : Half(j, n)
Pair(n) ==
  /\ Settled(n) => Matched(n)
  /\ \A j \in Job : Half(j, n) => HalfGood(j, n)
  /\ \A p \in Handler : Inserting(p, n) => InsertGood(p, n)

\* What is recorded, or about to be recorded, as synced is filled.
Filled(n) ==
  /\ row[n] # None /\ row[n].synced /\ (\A j \in Job : ~Half(j, n)) => Full(n)
  /\ \A j \in Job : Filling(j, n) => Full(n)
  /\ Swept(n) => Full(n) /\ \A j \in Job : ~Half(j, n)

InOrder == \A n \in Name \ (torn \cup blurred) : Pair(n) /\ Filled(n)

\* The lease keeps two tasks from working on one live row.
LEMMA Alone ==
  ASSUME Basic, GuardInv, NEW n \in Name, n \notin blurred, NEW j \in Job, NEW k \in Job,
         job[j].step \in Critical, job[k].step \in Critical,
         job[j].name = n, job[k].name = n, n \in Live(job[j].id), n \in Live(job[k].id)
  PROVE  j = k
<1>1. job[j].id = job[k].id
  BY DEF Live
<1>2. QED
  BY <1>1 DEF GuardInv, Holds

Kept(n) ==
  /\ row'[n] = row[n] /\ mirror'[n] = mirror[n]
  /\ \A j \in Job : Half(j, n) \/ Half(j, n)' => job'[j] = job[j]
  /\ \A p \in Handler : Inserting(p, n) \/ Inserting(p, n)' => op'[p] = op[p]
  /\ \A j \in Job : Filling(j, n)' => Filling(j, n)
  /\ Swept(n)' => Swept(n)

LEMMA Frame ==
  ASSUME NEW n \in Name, Pair(n), Filled(n), Kept(n)
  PROVE  Pair(n)' /\ Filled(n)'
<1>1. \A j \in Job : Half(j, n)' <=> Half(j, n)
  BY DEF Kept, Half, HalfDone
<1>2. \A p \in Handler : Inserting(p, n)' <=> Inserting(p, n)
  BY DEF Kept, Inserting
<1>3. Settled(n)' => Matched(n)'
  BY <1>1, <1>2 DEF Pair, Settled, Matched, Kept
<1>4. ASSUME NEW j \in Job, Half(j, n)' PROVE HalfGood(j, n)'
  <2>1. Half(j, n) /\ job'[j] = job[j] /\ HalfGood(j, n)
    BY <1>1, <1>4 DEF Pair, Kept
  <2>2. QED
    BY <1>2, <2>1 DEF HalfGood, Kept, Live
<1>5. ASSUME NEW p \in Handler, Inserting(p, n)' PROVE InsertGood(p, n)'
  <2>1. Inserting(p, n) /\ op'[p] = op[p] /\ InsertGood(p, n)
    BY <1>2, <1>5 DEF Pair, Kept
  <2>2. QED
    BY <1>1, <1>2, <2>1 DEF InsertGood, Kept
<1>6. Filled(n)'
  BY <1>1 DEF Filled, Kept, Full
<1>7. QED
  BY <1>3, <1>4, <1>5, <1>6 DEF Pair

\* A name that a step of a job leaves alone.
LEMMA JobKept ==
  ASSUME NEW n \in Name, NEW j \in Job, row'[n] = row[n], mirror'[n] = mirror[n],
         UNCHANGED <<op, sweep>>, \A k \in Job : k # j => job'[k] = job[k],
         ~Half(j, n), ~Half(j, n)', ~Filling(j, n)'
  PROVE  Kept(n)
<1>1. \A k \in Job : Half(k, n) \/ Half(k, n)' => job'[k] = job[k]
  OBVIOUS
<1>2. \A p \in Handler : Inserting(p, n) \/ Inserting(p, n)' => op'[p] = op[p]
  OBVIOUS
<1>3. \A k \in Job : Filling(k, n)' => Filling(k, n)
  BY DEF Filling, Live
<1>4. Swept(n)' => Swept(n)
  BY DEF Swept, Live
<1>5. QED
  BY <1>1, <1>2, <1>3, <1>4 DEF Kept

\* A name that a step of a handler leaves alone.
LEMMA HandlerKept ==
  ASSUME NEW n \in Name, NEW p \in Handler, row'[n] = row[n], mirror'[n] = mirror[n],
         UNCHANGED <<job, sweep>>, \A q \in Handler : q # p => op'[q] = op[q],
         ~Inserting(p, n), ~Inserting(p, n)'
  PROVE  Kept(n)
<1>1. \A k \in Job : Filling(k, n)' => Filling(k, n)
  BY DEF Filling, Live
<1>2. Swept(n)' => Swept(n)
  BY DEF Swept, Live
<1>3. \A q \in Handler : Inserting(q, n) \/ Inserting(q, n)' => op'[q] = op[q]
  OBVIOUS
<1>4. QED
  BY <1>1, <1>2, <1>3 DEF Kept
\* The mirror of a new repository: its handler is the only one about to insert.
LEMMA MirrorPair ==
  ASSUME Basic, NEW n \in Name, Pair(n), Filled(n), NEW p \in Handler,
         CreateMirror(p), op[p].name = n
  PROVE  Pair(n)' /\ Filled(n)'
<1>1. /\ mirror \in [Name -> Mirror \cup {None}] /\ op \in [Handler -> Op]
      /\ op[p] \in Op /\ op[p].set \in Settings
  BY DEF Basic, TypeOK, OpShape, OpGood, CreateMirror
<1>2. mirror[n] = None /\ UNCHANGED <<row, job, sweep>>
  BY DEF CreateMirror
<1>3. mirror'[n] = [set |-> op[p].set, filled |-> FALSE] /\ mirror'[n] # None
  <2>1. [set |-> op[p].set, filled |-> FALSE] \in Mirror
    BY <1>1 DEF Mirror
  <2>2. QED
    BY <1>1, <2>1, NoneAssumption DEF CreateMirror
<1>4. /\ op'[p].step = "insert" /\ op'[p].name = n /\ op'[p].set = op[p].set
      /\ \A q \in Handler : q # p => op'[q] = op[q]
  BY <1>1 DEF CreateMirror, Op
<1>5. \A q \in Handler : ~Inserting(q, n)
  BY <1>2 DEF Pair, InsertGood
<1>6. \A q \in Handler : Inserting(q, n)' <=> q = p
  BY <1>4, <1>5 DEF Inserting
<1>7. \A j \in Job : Half(j, n)' <=> Half(j, n)
  BY <1>2 DEF Half, HalfDone
<1>8. ASSUME NEW j \in Job, Half(j, n)' PROVE HalfGood(j, n)'
  <2>1. HalfGood(j, n)
    BY <1>7, <1>8 DEF Pair
  <2>2. QED
    BY <1>2, <1>6, <2>1 DEF HalfGood, Live
<1>9. InsertGood(p, n)'
  <2>1. row[n] = None \/ \E j \in Job : Half(j, n)
    BY <1>2, <1>5 DEF Pair, Settled, Matched
  <2>2. QED
    BY <1>2, <1>3, <1>4, <1>6, <1>7, <2>1 DEF InsertGood
<1>10. Pair(n)'
  BY <1>6, <1>8, <1>9 DEF Pair, Settled
<1>11. Filled(n)'
  <2>1. ~Full(n)
    BY <1>2 DEF Full
  <2>2. ~(row[n] # None /\ row[n].synced /\ \A j \in Job : ~Half(j, n))
    BY <2>1 DEF Filled
  <2>3. (\A j \in Job : ~Filling(j, n)) /\ ~Swept(n)
    BY <2>1 DEF Filled
  <2>4. QED
    BY <1>2, <1>7, <2>2, <2>3 DEF Filled, Filling, Swept, Live
<1>12. QED
  BY <1>10, <1>11

LEMMA HandlerPair ==
  ASSUME Basic, NEW n \in Name, Pair(n), Filled(n), NEW p \in Handler, HandlerStep(p),
         n \notin torn'
  PROVE  Pair(n)' /\ Filled(n)'
<1>1. TypeOK /\ mirror \in [Name -> Mirror \cup {None}] /\ op \in [Handler -> Op] /\ op[p] \in Op
  BY DEF Basic, TypeOK
<1>2. CASE CreateMirror(p)
  <2>1. CASE op[p].name = n
    BY <1>2, <2>1, MirrorPair
  <2>2. CASE op[p].name # n
    <3>1. /\ mirror'[n] = mirror[n] /\ row'[n] = row[n] /\ UNCHANGED <<job, sweep>>
          /\ \A q \in Handler : q # p => op'[q] = op[q]
      BY <1>1, <1>2, <2>2 DEF CreateMirror
    <3>2. ~Inserting(p, n) /\ ~Inserting(p, n)'
      BY <1>1, <1>2, <2>2 DEF CreateMirror, Inserting, Op
    <3>3. QED
      BY <3>1, <3>2, HandlerKept, Frame
  <2>3. QED
    BY <2>1, <2>2
<1>3. CASE CreateRefused(p) \/ CreateLate(p) \/ CreateFails(p) \/ ViewCut(p) \/ ViewCutRefused(p)
  <2>1. Finish(p) /\ UNCHANGED <<row, job, sweep>>
    BY <1>3 DEF CreateRefused, CreateLate, CreateFails, ViewCut, ViewCutRefused, store
  <2>2. /\ \A q \in Handler : q # p => op'[q] = op[q]
        /\ op'[p].step = "idle"
    BY <1>1, <2>1, FinishFields
  <2>3. mirror'[n] = mirror[n] /\ ~Inserting(p, n)
    BY <1>1, <1>3
       DEF CreateRefused, CreateLate, CreateFails, ViewCut, ViewCutRefused, store, Inserting
  <2>4. ~Inserting(p, n)'
    BY <2>2 DEF Inserting
  <2>5. QED
    BY <2>1, <2>2, <2>3, <2>4, HandlerKept, Frame
<1>4. CASE \E m \in Name, s \in Settings : CreateRead(p, m, s)
  <2>1. UNCHANGED <<row, mirror, job, sweep>> /\ op[p].step = "idle"
    BY <1>4 DEF CreateRead, store, Idle
  <2>2. op'[p].step = "mirror" /\ \A q \in Handler : q # p => op'[q] = op[q]
    BY <1>1, <1>4 DEF CreateRead, Idle
  <2>3. QED
    BY <2>1, <2>2, HandlerKept, Frame DEF Inserting
<1>5. CASE \E v \in View, m \in Name : ViewRead(p, v, m)
  <2>1. UNCHANGED <<row, mirror, job, sweep>> /\ op[p].step = "idle"
    BY <1>5 DEF ViewRead, store, Idle
  <2>2. op'[p].step = "link" /\ \A q \in Handler : q # p => op'[q] = op[q]
    BY <1>1, <1>5 DEF ViewRead, Idle
  <2>3. QED
    BY <2>1, <2>2, HandlerKept, Frame DEF Inserting
<1>6. CASE ViewCommit(p)
  <2>1. UNCHANGED <<row, mirror, job, sweep>> /\ op[p].step = "link"
    BY <1>6 DEF ViewCommit
  <2>2. op'[p].step \in {"cut", "idle"} /\ \A q \in Handler : q # p => op'[q] = op[q]
    BY <1>1, <1>6, FinishFields DEF ViewCommit, Op
  <2>3. QED
    BY <2>1, <2>2, HandlerKept, Frame DEF Inserting
<1>7. QED
  BY <1>2, <1>3, <1>4, <1>5, <1>6 DEF HandlerStep

\* The row of a new repository: no job knows its id yet.
LEMMA InsertPair ==
  ASSUME Basic, NEW n \in Name, Pair(n), Filled(n), NEW p \in Handler, CreateCommit(p)
  PROVE  Pair(n)' /\ Filled(n)'
<1> DEFINE m == op[p].name
           new == [id |-> rows + 1, set |-> op[p].set, synced |-> FALSE]
<1>1. TypeOK /\ row \in [Name -> Row \cup {None}] /\ mirror \in [Name -> Mirror \cup {None}]
  BY DEF Basic, TypeOK
<1>2. /\ UNCHANGED <<mirror, job, sweep>> /\ row[m] = None /\ m \in Name
      /\ row' = [row EXCEPT ![m] = new] /\ op[p].step = "insert"
      /\ op[p].set \in Settings /\ Finish(p)
  BY DEF CreateCommit, Basic, OpShape, OpGood
<1>3. /\ \A q \in Handler : q # p => op'[q] = op[q]
      /\ op'[p].step = "idle"
  BY <1>1, <1>2, FinishFields
<1>4. new.set = op[p].set /\ new.synced = FALSE /\ new.id = rows + 1 /\ new # None
  <2>1. rows + 1 \in Id
    BY <1>1, BoundAssumption DEF CreateCommit, TypeOK, Id
  <2>2. new \in Row
    BY <1>2, <2>1 DEF Row
  <2>3. QED
    BY <2>2, NoneAssumption
<1>5. /\ \A j \in Job : job[j].id # rows + 1
      /\ sweep.at # rows + 1
  BY BoundAssumption DEF Basic, TypeOK, Ids, JobRow, Id
<1> HIDE DEF new
<1>6. CASE m # n
  <2>1. row'[n] = row[n] /\ ~Inserting(p, n) /\ ~Inserting(p, n)'
    BY <1>1, <1>2, <1>3, <1>6 DEF Inserting
  <2>2. QED
    BY <1>2, <1>3, <2>1, HandlerKept, Frame
<1>7. CASE m = n
  <2>1. Inserting(p, n) /\ InsertGood(p, n)
    BY <1>2, <1>7 DEF Inserting, Pair
  <2>2. \A q \in Handler : ~Inserting(q, n)'
    BY <1>3, <2>1 DEF Inserting, InsertGood
  <2>3. \A j \in Job : ~Half(j, n)
    BY <1>2, <1>7 DEF Pair, HalfGood, Live
  <2>4. \A j \in Job : ~Half(j, n)'
    BY <1>2, <2>3 DEF Half, HalfDone
  <2>5. row'[n] = new
    BY <1>1, <1>2, <1>7
  <2>6. Matched(n)'
    BY <1>2, <1>4, <1>7, <2>1, <2>5 DEF Matched, InsertGood
  <2>7. \A j \in Job : ~Filling(j, n)'
    BY <1>2, <1>4, <1>5, <2>5 DEF Filling, Live
  <2>8. ~Swept(n)'
    BY <1>2, <1>4, <1>5, <2>5 DEF Swept, Live
  <2>9. QED
    BY <1>4, <2>2, <2>4, <2>5, <2>6, <2>7, <2>8 DEF Pair, Filled
<1>8. QED
  BY <1>6, <1>7

LEMMA BeginPair ==
  ASSUME Basic, NEW n \in Name, Pair(n), Filled(n), NEW j \in Job,
         Start(j) \/ \E kind \in {"sync", "update", "delete"}, m \in Name, s \in Settings :
                      Trigger(j, kind, m, s)
  PROVE  Pair(n)' /\ Filled(n)'
<1>1. TypeOK /\ Ids
  BY DEF Basic
<1>2. UNCHANGED <<row, mirror, op, sweep>>
  BY DEF Start, Trigger, store
<1>3. /\ \A k \in Job : k # j => job'[k] = job[k]
      /\ job[j].step \in {"unused", "queued"} /\ job'[j].step \in {"queued", "lock", "ended"}
  <2>1. CASE Start(j)
    BY <1>1, <2>1, StartFields
  <2>2. CASE \E kind \in {"sync", "update", "delete"}, m \in Name, s \in Settings :
               Trigger(j, kind, m, s)
    BY <1>1, <2>2, TriggerFields
  <2>3. QED
    BY <2>1, <2>2
<1>4. ~Half(j, n) /\ ~Half(j, n)' /\ ~Filling(j, n)'
  BY <1>3 DEF Half, HalfDone, Filling
<1>5. QED
  BY <1>2, <1>3, <1>4, JobKept, Frame
LEMMA SyncPair ==
  ASSUME Basic, NEW n \in Name, Pair(n), Filled(n), NEW j \in Job, Sync(j)
  PROVE  Pair(n)' /\ Filled(n)'
<1>1. /\ TypeOK /\ mirror \in [Name -> Mirror \cup {None}]
      /\ job[j].name \in Name /\ job[j].kind = "sync" /\ mirror[job[j].name] # None
  BY DEF Basic, TypeOK, JobShape, JobGood, Busy, Critical, Sync
<1>2. /\ UNCHANGED <<row, op, sweep>>
      /\ \A k \in Job : k # j => job'[k] = job[k]
      /\ job'[j].kind = "sync" /\ job'[j].name = job[j].name /\ job[j].step = "sync"
  BY <1>1, JobFields, SetFields DEF Sync, JobStep, Step, Status
<1>3. ~Half(j, n) /\ ~Half(j, n)'
  BY <1>1, <1>2 DEF Half, HalfDone
<1>4. CASE job[j].name # n
  <2>1. mirror'[n] = mirror[n] /\ ~Filling(j, n)'
    BY <1>1, <1>2, <1>4 DEF Sync, Filling
  <2>2. QED
    BY <1>2, <1>3, <2>1, JobKept, Frame
<1>5. CASE job[j].name = n
  <2>1. mirror'[n] # None /\ mirror'[n].set = mirror[n].set /\ mirror'[n].filled
    <3> DEFINE new == [mirror[n] EXCEPT !.filled = TRUE]
    <3>1. mirror[n] \in Mirror
      BY <1>1, <1>5
    <3>2. new \in Mirror /\ new.set = mirror[n].set /\ new.filled
      BY <3>1 DEF Mirror
    <3>3. mirror' = [mirror EXCEPT ![n] = new]
      BY <1>1, <1>5 DEF Sync
    <3> HIDE DEF new
    <3>4. QED
      BY <1>1, <1>5, <3>2, <3>3, NoneAssumption
  <2>2. /\ \A k \in Job : Half(k, n)' <=> Half(k, n)
        /\ \A k \in Job : Half(k, n) => job'[k] = job[k]
    BY <1>2, <1>3 DEF Half, HalfDone
  <2>3. \A p \in Handler : Inserting(p, n)' <=> Inserting(p, n)
    BY <1>2 DEF Inserting
  <2>4. Settled(n)' => Matched(n)'
    BY <1>1, <1>2, <1>5, <2>1, <2>2, <2>3 DEF Pair, Settled, Matched
  <2>5. ASSUME NEW k \in Job, Half(k, n)' PROVE HalfGood(k, n)'
    <3>1. HalfGood(k, n) /\ job'[k] = job[k]
      BY <2>2, <2>5 DEF Pair
    <3>2. QED
      BY <1>1, <1>2, <1>5, <2>1, <2>3, <3>1 DEF HalfGood, Live
  <2>6. ASSUME NEW p \in Handler, Inserting(p, n)' PROVE InsertGood(p, n)'
    <3>1. InsertGood(p, n)
      BY <2>3, <2>6 DEF Pair
    <3>2. QED
      BY <1>2, <2>1, <2>2, <2>3, <3>1 DEF InsertGood
  <2>7. Filled(n)'
    <3>1. Full(n)'
      BY <2>1 DEF Full
    <3>2. Swept(n)' => \A k \in Job : ~Half(k, n)'
      BY <1>2, <2>2 DEF Filled, Swept, Live
    <3>3. QED
      BY <3>1, <3>2 DEF Filled
  <2>8. QED
    BY <2>4, <2>5, <2>6, <2>7 DEF Pair
<1>6. QED
  BY <1>4, <1>5

\* After the drop the row stands alone, and the job knows.
LEMMA DropPair ==
  ASSUME Basic, GuardInv, NEW n \in Name, Pair(n), Filled(n), NEW j \in Job, Drop(j),
         n \notin torn', n \notin blurred'
  PROVE  Pair(n)' /\ Filled(n)'
<1>1. /\ TypeOK /\ mirror \in [Name -> Mirror \cup {None}]
      /\ job[j].kind \in {"update", "delete"} /\ job[j].step = "drop" /\ job[j].name \in Name
  BY DEF Basic, TypeOK, JobRow, JobShape, JobGood, Busy, Critical, Drop
<1>2. /\ UNCHANGED <<row, op, sweep>>
      /\ \A k \in Job : k # j => job'[k] = job[k]
      /\ job'[j].kind = job[j].kind /\ job'[j].name = job[j].name /\ job'[j].id = job[j].id
      /\ job'[j].step = IF job[j].kind = "update" THEN "recreate" ELSE "record"
  BY <1>1, SetFields DEF Drop, Step, Status
<1>3. ~Half(j, n) /\ ~Filling(j, n)'
  BY <1>1, <1>2 DEF Half, HalfDone, Filling
<1>4. CASE job[j].name # n
  <2>1. mirror'[n] = mirror[n] /\ ~Half(j, n)'
    BY <1>1, <1>2, <1>4 DEF Drop, Half
  <2>2. QED
    BY <1>2, <1>3, <2>1, JobKept, Frame
<1>5. CASE job[j].name = n
  <2>1. n \in Live(job[j].id) /\ ~Swept(n) /\ mirror[n] # None /\ mirror'[n] = None
    BY <1>1, <1>5 DEF Drop, Droppable
  <2>2. n \notin blurred
    BY DEF Drop
  <2>3. \A k \in Job : k # j => ~Half(k, n)
    <3>1. SUFFICES ASSUME NEW k \in Job, k # j, Half(k, n) PROVE FALSE
      OBVIOUS
    <3>2. n \in Live(job[k].id) /\ job[k].step \in Critical /\ job[k].name = n
      BY <3>1 DEF Pair, HalfGood, Half, HalfDone, Critical
    <3>3. QED
      BY <1>1, <1>5, <2>1, <2>2, <3>1, <3>2, Alone DEF Critical
  <2>4. \A k \in Job : k # j => ~Filling(k, n)
    <3>1. SUFFICES ASSUME NEW k \in Job, k # j, Filling(k, n) PROVE FALSE
      OBVIOUS
    <3>2. n \in Live(job[k].id) /\ job[k].step \in Critical /\ job[k].name = n
      BY <3>1 DEF Filling, Critical
    <3>3. QED
      BY <1>1, <1>5, <2>1, <2>2, <3>1, <3>2, Alone DEF Critical
  <2>5. \A p \in Handler : ~Inserting(p, n)
    BY <1>3, <2>1, <2>3 DEF Pair, InsertGood, Live
  <2>6. \A p \in Handler : ~Inserting(p, n)'
    BY <1>2, <2>5 DEF Inserting
  <2>7. Half(j, n)' /\ \A k \in Job : Half(k, n)' => k = j
    BY <1>1, <1>2, <1>5, <2>3 DEF Half, HalfDone
  <2>8. HalfGood(j, n)'
    BY <1>1, <1>2, <2>1 DEF HalfGood, Live
  <2>9. \A k \in Job : ~Filling(k, n)'
    BY <1>2, <1>3, <2>4 DEF Filling, Live
  <2>10. ~Swept(n)'
    BY <1>2, <2>1 DEF Swept, Live
  <2>11. QED
    BY <2>6, <2>7, <2>8, <2>9, <2>10 DEF Pair, Filled, Settled
<1>6. QED
  BY <1>4, <1>5

\* The new mirror has the settings the job is about to record.
LEMMA RecreatePair ==
  ASSUME Basic, GuardInv, NEW n \in Name, Pair(n), Filled(n), NEW j \in Job, Recreate(j),
         n \notin blurred'
  PROVE  Pair(n)' /\ Filled(n)'
<1>1. /\ TypeOK /\ mirror \in [Name -> Mirror \cup {None}]
      /\ job[j].kind = "update" /\ job[j].step = "recreate" /\ job[j].name \in Name
      /\ job[j].set \in Settings
  BY DEF Basic, TypeOK, JobRow, JobShape, JobGood, Busy, Critical, Recreate
<1>2. /\ UNCHANGED <<row, op, sweep>>
      /\ \A k \in Job : k # j => job'[k] = job[k]
      /\ job'[j].kind = "update" /\ job'[j].name = job[j].name /\ job'[j].id = job[j].id
      /\ job'[j].step = "record" /\ job'[j].set = job[j].set
  BY <1>1, SetFields DEF Recreate, Step, Status
<1>3. CASE job[j].name # n
  <2>1. mirror'[n] = mirror[n] /\ ~Half(j, n) /\ ~Half(j, n)' /\ ~Filling(j, n)'
    BY <1>1, <1>2, <1>3 DEF Recreate, Half, Filling
  <2>2. QED
    BY <1>2, <2>1, JobKept, Frame
<1>4. CASE job[j].name = n
  <2>1. Half(j, n) /\ HalfGood(j, n) /\ n \in Live(job[j].id)
    BY <1>1, <1>4 DEF Half, HalfDone, Pair, HalfGood
  <2>2. mirror[n] = None /\ ~Swept(n) /\ n \notin blurred
    BY <1>4 DEF Recreate
  <2>3. mirror'[n] # None /\ mirror'[n].set = job[j].set
    <3>1. [set |-> job[j].set, filled |-> FALSE] \in Mirror
      BY <1>1 DEF Mirror
    <3>2. QED
      BY <1>1, <1>4, <3>1, NoneAssumption DEF Recreate
  <2>4. ASSUME NEW k \in Job, Half(k, n) \/ Filling(k, n) PROVE k = j
    <3>1. n \in Live(job[k].id) /\ job[k].step \in Critical /\ job[k].name = n
      BY <2>4 DEF Pair, HalfGood, Half, HalfDone, Filling, Critical
    <3>2. QED
      BY <1>1, <1>4, <2>1, <2>2, <3>1, Alone DEF Critical
  <2>5. \A p \in Handler : ~Inserting(p, n)'
    BY <1>2, <2>2 DEF Inserting, Pair, InsertGood
  <2>6. Half(j, n)' /\ \A k \in Job : Half(k, n)' => k = j
    BY <1>2, <1>4, <2>4 DEF Half, HalfDone
  <2>7. HalfGood(j, n)'
    BY <1>2, <2>1, <2>3, <2>5 DEF HalfGood, Live
  <2>8. \A k \in Job : ~Filling(k, n)'
    BY <1>2, <2>4 DEF Filling, Live
  <2>9. ~Swept(n)'
    BY <1>2, <2>2 DEF Swept, Live
  <2>10. QED
    BY <2>5, <2>6, <2>7, <2>8, <2>9 DEF Pair, Filled, Settled
<1>5. QED
  BY <1>3, <1>4
\* A sync records what it has filled.
LEMMA SyncCommitPair ==
  ASSUME Basic, NEW n \in Name, Pair(n), Filled(n), NEW j \in Job, SyncCommit(j)
  PROVE  Pair(n)' /\ Filled(n)'
<1> DEFINE i == job[j].id
           m == NameOf(i)
           new == [row[m] EXCEPT !.synced = TRUE]
<1>1. /\ TypeOK /\ Ids /\ row \in [Name -> Row \cup {None}]
      /\ job[j].step = "record" /\ job[j].kind = "sync" /\ i \in Id /\ Exists(i)
  BY DEF Basic, TypeOK, JobShape, JobGood, SyncCommit
<1>2. m \in Name /\ row[m] # None /\ row[m].id = i /\ m \in Live(i) /\ job[j].name = m
  BY <1>1, NameOfFound DEF Live, Basic, NamesKept, Busy, Critical
<1>3. /\ UNCHANGED <<mirror, op, sweep>>
      /\ \A k \in Job : k # j => job'[k] = job[k]
      /\ job'[j].step = "release" /\ job'[j].kind = "sync"
  BY <1>1, LeaveFields DEF SyncCommit, Step, Status
<1>4. ~Half(j, n) /\ ~Half(j, n)' /\ ~Filling(j, n)'
  BY <1>1, <1>3 DEF Half, HalfDone, Filling
<1>5. new # None /\ new.id = i /\ new.set = row[m].set
  <2>1. row[m] \in Row
    BY <1>1, <1>2
  <2>2. new \in Row /\ new.id = i /\ new.set = row[m].set
    BY <1>2, <2>1 DEF Row
  <2>3. QED
    BY <2>2, NoneAssumption
<1>6. row' = [row EXCEPT ![m] = new]
  BY DEF SyncCommit
<1> HIDE DEF new, m
<1>7. CASE m # n
  <2>1. row'[n] = row[n]
    BY <1>1, <1>2, <1>6, <1>7
  <2>2. QED
    BY <1>3, <1>4, <2>1, JobKept, Frame
<1>8. CASE m = n
  <2>1. /\ row'[n] # None /\ row[n] # None /\ row'[n].id = row[n].id
        /\ row'[n].set = row[n].set /\ mirror'[n] = mirror[n]
    BY <1>1, <1>2, <1>3, <1>5, <1>6, <1>8
  <2>2. Full(n)
    BY <1>1, <1>2, <1>8 DEF Filling, Filled
  <2>3. /\ \A k \in Job : Half(k, n)' <=> Half(k, n)
        /\ \A k \in Job : Half(k, n) => job'[k] = job[k]
    BY <1>3, <1>4 DEF Half, HalfDone
  <2>4. \A p \in Handler : Inserting(p, n)' <=> Inserting(p, n)
    BY <1>3 DEF Inserting
  <2>5. Settled(n)' => Matched(n)'
    BY <2>1, <2>3, <2>4 DEF Pair, Settled, Matched
  <2>6. ASSUME NEW k \in Job, Half(k, n)' PROVE HalfGood(k, n)'
    <3>1. HalfGood(k, n) /\ job'[k] = job[k]
      BY <2>3, <2>6 DEF Pair
    <3>2. QED
      BY <2>1, <2>4, <3>1 DEF HalfGood, Live
  <2>7. ASSUME NEW p \in Handler, Inserting(p, n)' PROVE InsertGood(p, n)'
    <3>1. InsertGood(p, n) /\ op'[p] = op[p]
      BY <1>3, <2>4, <2>7 DEF Pair
    <3>2. QED
      BY <2>1, <2>3, <2>4, <3>1 DEF InsertGood
  <2>8. Filled(n)'
    <3>1. Full(n)'
      BY <2>1, <2>2 DEF Full
    <3>2. Swept(n)' => \A k \in Job : ~Half(k, n)'
      BY <1>3, <2>1, <2>3 DEF Filled, Swept, Live
    <3>3. QED
      BY <3>1, <3>2 DEF Filled
  <2>9. QED
    BY <2>5, <2>6, <2>7, <2>8 DEF Pair
<1>9. QED
  BY <1>7, <1>8

\* An update brings the row to the settings of the mirror.
LEMMA UpdateCommitPair ==
  ASSUME Basic, GuardInv, NEW n \in Name, n \notin blurred, Pair(n), Filled(n),
         NEW j \in Job, UpdateCommit(j)
  PROVE  Pair(n)' /\ Filled(n)'
<1> DEFINE i == job[j].id
           m == NameOf(i)
           new == [row[m] EXCEPT !.set = job[j].set, !.synced = FALSE]
<1>1. /\ TypeOK /\ Ids /\ row \in [Name -> Row \cup {None}]
      /\ job[j].step = "record" /\ job[j].kind = "update" /\ i \in Id /\ Exists(i)
      /\ job[j].set \in Settings
  BY DEF Basic, TypeOK, JobShape, JobGood, UpdateCommit, Busy, Critical
<1>2. m \in Name /\ row[m] # None /\ row[m].id = i /\ m \in Live(i) /\ job[j].name = m
  BY <1>1, NameOfFound DEF Live, Basic, NamesKept, Busy, Critical
<1>3. /\ UNCHANGED <<mirror, op, sweep>>
      /\ \A k \in Job : k # j => job'[k] = job[k]
      /\ job'[j].step = "release"
  BY <1>1, LeaveFields DEF UpdateCommit, Step, Status
<1>4. ~Half(j, n)' /\ ~Filling(j, n)'
  BY <1>3 DEF Half, HalfDone, Filling
<1>5. new # None /\ new.id = i /\ new.set = job[j].set /\ new.synced = FALSE
  <2>1. row[m] \in Row
    BY <1>1, <1>2
  <2>2. new \in Row /\ new.id = i /\ new.set = job[j].set /\ new.synced = FALSE
    BY <1>1, <1>2, <2>1 DEF Row
  <2>3. QED
    BY <2>2, NoneAssumption
<1>6. row' = [row EXCEPT ![m] = new]
  BY <1>1 DEF UpdateCommit
<1> HIDE DEF new, m
<1>7. CASE m # n
  <2>1. row'[n] = row[n] /\ ~Half(j, n)
    BY <1>1, <1>2, <1>6, <1>7 DEF Half
  <2>2. QED
    BY <1>3, <1>4, <2>1, JobKept, Frame
<1>8. CASE m = n
  <2>1. row'[n] = new
    BY <1>1, <1>2, <1>6, <1>8
  <2>2. Half(j, n) /\ HalfGood(j, n)
    BY <1>1, <1>2, <1>8 DEF Half, HalfDone, Pair
  <2>3. ASSUME NEW k \in Job, Half(k, n) \/ Filling(k, n) PROVE k = j
    <3>1. n \in Live(job[k].id) /\ job[k].step \in Critical /\ job[k].name = n
      BY <2>3 DEF Pair, HalfGood, Half, HalfDone, Filling, Critical
    <3>2. QED
      BY <1>1, <1>2, <1>8, <3>1, Alone DEF Critical
  <2>4. \A k \in Job : ~Half(k, n)'
    BY <1>3, <1>4, <2>3 DEF Half, HalfDone
  <2>5. \A p \in Handler : ~Inserting(p, n)'
    BY <1>1, <1>3, <2>2 DEF HalfGood, Inserting
  <2>6. Matched(n)'
    BY <1>1, <1>3, <1>5, <2>1, <2>2 DEF Matched, HalfGood
  <2>7. \A k \in Job : ~Filling(k, n)'
    BY <1>2, <1>3, <1>4, <1>5, <1>8, <2>1, <2>3 DEF Filling, Live
  <2>8. ~Swept(n)'
    BY <1>2, <1>3, <1>5, <1>8, <2>1, <2>2 DEF Filled, Swept, Live
  <2>9. QED
    BY <1>5, <2>1, <2>4, <2>5, <2>6, <2>7, <2>8 DEF Pair, Filled
<1>9. QED
  BY <1>7, <1>8

\* A deletion takes the row whose mirror it has dropped.
LEMMA DeleteCommitPair ==
  ASSUME Basic, GuardInv, NEW n \in Name, n \notin blurred, Pair(n), Filled(n),
         NEW j \in Job, DeleteCommit(j)
  PROVE  Pair(n)' /\ Filled(n)'
<1>1. /\ TypeOK /\ row \in [Name -> Row \cup {None}]
      /\ job[j].step = "record" /\ job[j].kind = "delete" /\ job[j].name \in Name
  BY DEF Basic, TypeOK, JobShape, JobGood, DeleteCommit, Busy, Critical
<1>2. /\ UNCHANGED <<mirror, op, sweep>>
      /\ \A k \in Job : k # j => job'[k] = job[k]
      /\ job'[j].step = "release"
  BY <1>1, LeaveFields DEF DeleteCommit, Step, Status
<1>3. ~Half(j, n)' /\ ~Filling(j, n)'
  BY <1>2 DEF Half, HalfDone, Filling
<1>4. row'[n] = IF n \in Live(job[j].id) THEN None ELSE row[n]
  BY DEF DeleteCommit
<1>5. CASE job[j].name # n
  <2>1. n \notin Live(job[j].id)
    BY <1>1, <1>5 DEF Basic, NamesKept, Busy, Critical
  <2>2. ~Half(j, n) /\ row'[n] = row[n]
    BY <1>4, <1>5, <2>1 DEF Half
  <2>3. QED
    BY <1>2, <1>3, <2>2, JobKept, Frame
<1>6. CASE job[j].name = n
  <2>1. Half(j, n) /\ HalfGood(j, n) /\ n \in Live(job[j].id)
    BY <1>1, <1>6 DEF Half, HalfDone, Pair, HalfGood
  <2>2. row'[n] = None
    BY <1>4, <2>1
  <2>3. ASSUME NEW k \in Job, Half(k, n) PROVE k = j
    <3>1. n \in Live(job[k].id) /\ job[k].step \in Critical /\ job[k].name = n
      BY <2>3 DEF Pair, HalfGood, Half, HalfDone, Critical
    <3>2. QED
      BY <1>1, <1>6, <2>1, <3>1, Alone DEF Critical
  <2>4. \A k \in Job : ~Half(k, n)'
    BY <1>2, <1>3, <2>3 DEF Half, HalfDone
  <2>5. \A p \in Handler : Inserting(p, n)' <=> Inserting(p, n)
    BY <1>2 DEF Inserting
  <2>6. Settled(n)' => Matched(n)'
    BY <1>1, <1>2, <2>1, <2>2, <2>5 DEF Settled, Matched, HalfGood
  <2>7. ASSUME NEW p \in Handler, Inserting(p, n)' PROVE InsertGood(p, n)'
    <3>1. InsertGood(p, n) /\ op'[p] = op[p]
      BY <1>2, <2>5, <2>7 DEF Pair
    <3>2. QED
      BY <1>2, <2>2, <2>5, <3>1 DEF InsertGood
  <2>8. Filled(n)'
    BY <2>2 DEF Filled, Filling, Swept, Live
  <2>9. QED
    BY <2>4, <2>6, <2>7, <2>8 DEF Pair
<1>7. QED
  BY <1>5, <1>6

LEMMA JobPair ==
  ASSUME Basic, GuardInv, NEW n \in Name, Pair(n), Filled(n), NEW j \in Job, JobStep(j),
         n \notin torn', n \notin blurred'
  PROVE  Pair(n)' /\ Filled(n)'
<1>1. /\ TypeOK /\ job \in [Job -> JobRow]
      /\ job[j].kind \in {"none", "sync", "update", "delete"}
      /\ \A k \in Job : k # j => job'[k] = job[k]
      /\ job'[j].kind = job[j].kind
      /\ n \notin blurred /\ UNCHANGED <<op, sweep>>
  BY JobFields
     DEF Basic, TypeOK, JobRow, JobStep, Lock, Sync, Drop, Recreate, Refused, SyncCommit,
         UpdateCommit, DeleteCommit, CommitRaises, Release, Cancel, Crash, Reap, store, history
<1>2. CASE Sync(j) \/ Drop(j) \/ Recreate(j) \/ SyncCommit(j) \/ UpdateCommit(j) \/ DeleteCommit(j)
  BY <1>1, <1>2, SyncPair, DropPair, RecreatePair, SyncCommitPair, UpdateCommitPair,
     DeleteCommitPair
<1>3. CASE Lock(j)
  <2>1. row'[n] = row[n] /\ mirror'[n] = mirror[n] /\ job[j].step = "lock"
    BY <1>3 DEF Lock, store
  <2>2. job'[j].step \in {"sync", "drop", "ended"}
    <3>1. CASE lease[job[j].id] = None
      <4>1. PICK step \in {"sync", "drop"} : Set(j, step, "running")
        BY <1>3, <3>1 DEF Lock, Entry
      <4>2. QED
        BY <1>1, <4>1, SetFields DEF Step, Status
    <3>2. CASE lease[job[j].id] # None
      BY <1>1, <1>3, <3>2, LeaveFields DEF Lock, Step, Status
    <3>3. QED
      BY <3>1, <3>2
  <2>3. ~Half(j, n) /\ ~Half(j, n)' /\ ~Filling(j, n)'
    BY <2>1, <2>2 DEF Half, HalfDone, Filling
  <2>4. QED
    BY <1>1, <2>1, <2>3, JobKept, Frame
<1>4. CASE Refused(j) \/ CommitRaises(j) \/ Cancel(j) \/ Crash(j) \/ Release(j) \/ Reap(j)
  <2>1. row'[n] = row[n] /\ mirror'[n] = mirror[n]
    BY <1>4 DEF Refused, CommitRaises, Cancel, Crash, Release, Reap, store
  <2>2. ~Half(j, n)
    BY <1>4 DEF Refused, CommitRaises, Cancel, Crash, Release, Reap, Half, HalfDone
  <2>3. job'[j].step \notin Critical
    <3>1. PICK step \in {"release", "ended", "dead"}, status \in Status :
            Leave(j, step, status) \/ Set(j, step, status)
      <4>1. job[j].status \in Status /\ "running" \in Status /\ "failed" \in Status
        BY <1>1 DEF JobRow, Status
      <4>2. QED
        BY <1>4, <4>1 DEF Refused, CommitRaises, Cancel, Crash, Release, Reap
    <3>2. step \in Step
      BY DEF Step
    <3>3. job'[j].step = step
      BY <1>1, <3>1, <3>2, LeaveFields, SetFields
    <3>4. QED
      BY <3>3 DEF Critical
  <2>4. ~Half(j, n)' /\ ~Filling(j, n)'
    BY <2>3 DEF Half, HalfDone, Filling, Critical
  <2>5. QED
    BY <1>1, <2>1, <2>2, <2>4, JobKept, Frame
<1>5. QED
  BY <1>2, <1>3, <1>4 DEF JobStep

LEMMA OtherPair ==
  ASSUME Basic, NEW n \in Name, Pair(n), Filled(n), OtherStep, n \notin blurred'
  PROVE  Pair(n)' /\ Filled(n)'
<1>1. /\ TypeOK /\ Ids /\ row \in [Name -> Row \cup {None}]
      /\ mirror \in [Name -> Mirror \cup {None}]
      /\ sweep \in [todo : SUBSET Id, at : Id \cup {0}] /\ 0 \notin Id
  BY BoundAssumption DEF Basic, TypeOK, Id
<1>2. UNCHANGED <<op, job>>
  BY DEF OtherStep, Lapse, SweepSync, SweepRefused, SweepStart, SweepCommit, SweepAborts,
         ViewPublish, ViewDelete, VersionsDelete
<1>3. /\ \A j \in Job : Half(j, n)' <=> Half(j, n)
      /\ \A p \in Handler : Inserting(p, n)' <=> Inserting(p, n)
  BY <1>2 DEF Half, HalfDone, Inserting
<1>4. ASSUME row'[n] = row[n], mirror'[n] = mirror[n], Swept(n)' => Swept(n)
      PROVE  Pair(n)' /\ Filled(n)'
  <2>1. Kept(n)
    BY <1>2, <1>4 DEF Kept, Filling, Live
  <2>2. QED
    BY <2>1, Frame
<1>5. ASSUME NEW i \in Id, SweepSync(i) PROVE Pair(n)' /\ Filled(n)'
  <2>1. NameOf(i) \in Name /\ mirror[NameOf(i)] # None /\ UNCHANGED row /\ sweep'.at = i
        /\ \A m \in Live(i) : m = NameOf(i)
    BY <1>1, <1>5, NameOfFound DEF SweepSync
  <2>2. CASE n # NameOf(i)
    <3>1. mirror'[n] = mirror[n] /\ ~Swept(n)'
      BY <1>1, <1>5, <2>1, <2>2 DEF SweepSync, Swept, Live
    <3>2. QED
      BY <1>4, <2>1, <3>1
  <2>3. CASE n = NameOf(i)
    <3>1. mirror'[n] # None /\ mirror'[n].set = mirror[n].set /\ mirror'[n].filled
      <4> DEFINE new == [mirror[n] EXCEPT !.filled = TRUE]
      <4>1. mirror[n] \in Mirror
        BY <1>1, <2>1, <2>3
      <4>2. new \in Mirror /\ new.set = mirror[n].set /\ new.filled
        BY <4>1 DEF Mirror
      <4>3. mirror' = [mirror EXCEPT ![n] = new]
        BY <1>1, <1>5, <2>3 DEF SweepSync
      <4> HIDE DEF new
      <4>4. QED
        BY <1>1, <4>2, <4>3, NoneAssumption
    <3>2. \A j \in Job : ~Half(j, n)
      BY <1>5, <2>3 DEF SweepSync, Replacing, AtWork, Half, HalfDone, Critical
    <3>3. Settled(n)' => Matched(n)'
      BY <1>3, <2>1, <2>3, <3>1 DEF Pair, Settled, Matched
    <3>4. ASSUME NEW p \in Handler, Inserting(p, n)' PROVE InsertGood(p, n)'
      <4>1. InsertGood(p, n)
        BY <1>3, <3>4 DEF Pair
      <4>2. QED
        BY <1>2, <1>3, <2>1, <3>1, <4>1 DEF InsertGood
    <3>5. Pair(n)'
      BY <1>3, <3>2, <3>3, <3>4 DEF Pair
    <3>6. Filled(n)'
      BY <1>3, <3>1, <3>2 DEF Filled, Full
    <3>7. QED
      BY <3>5, <3>6
  <2>4. QED
    BY <2>2, <2>3
<1>6. CASE SweepCommit
  <2> DEFINE i == sweep.at
             m == NameOf(i)
             new == [row[m] EXCEPT !.synced = TRUE]
  <2>1. i \in Id /\ Exists(i) /\ sweep'.at = 0 /\ UNCHANGED mirror
    BY <1>1, <1>6 DEF SweepCommit
  <2>2. m \in Name /\ row[m] # None /\ row[m].id = i /\ m \in Live(i)
    BY <1>1, <2>1, NameOfFound DEF Live
  <2>3. new # None /\ new.id = i /\ new.set = row[m].set
    <3>1. row[m] \in Row
      BY <1>1, <2>2
    <3>2. new \in Row /\ new.id = i /\ new.set = row[m].set
      BY <2>2, <3>1 DEF Row
    <3>3. QED
      BY <3>2, NoneAssumption
  <2>4. row' = [row EXCEPT ![m] = new]
    BY <1>1, <1>6 DEF SweepCommit
  <2> HIDE DEF new, m
  <2>5. ~Swept(n)'
    BY <2>1 DEF Swept
  <2>6. CASE m # n
    BY <1>1, <1>4, <2>1, <2>2, <2>4, <2>5, <2>6
  <2>7. CASE m = n
    <3>1. /\ row'[n] # None /\ row[n] # None /\ row'[n].id = row[n].id
          /\ row'[n].set = row[n].set /\ mirror'[n] = mirror[n]
      BY <1>1, <2>1, <2>2, <2>3, <2>4, <2>7
    <3>2. Full(n) /\ \A j \in Job : ~Half(j, n)
      BY <1>1, <2>1, <2>2, <2>7 DEF Swept, Filled
    <3>3. Settled(n)' => Matched(n)'
      BY <1>3, <3>1 DEF Pair, Settled, Matched
    <3>4. ASSUME NEW p \in Handler, Inserting(p, n)' PROVE InsertGood(p, n)'
      <4>1. InsertGood(p, n)
        BY <1>3, <3>4 DEF Pair
      <4>2. QED
        BY <1>2, <1>3, <3>1, <4>1 DEF InsertGood
    <3>5. Pair(n)'
      BY <1>3, <3>2, <3>3, <3>4 DEF Pair
    <3>6. Filled(n)'
      BY <2>5, <3>1, <3>2 DEF Filled, Full
    <3>7. QED
      BY <3>5, <3>6
  <2>8. QED
    BY <2>6, <2>7
<1>7. CASE SweepStart \/ SweepAborts \/ \E i \in Id : SweepRefused(i)
  <2>1. UNCHANGED <<row, mirror>>
    BY <1>7 DEF SweepStart, SweepAborts, SweepRefused, store
  <2>2. sweep'.at = sweep.at \/ sweep'.at = 0
    BY <1>1, <1>7 DEF SweepStart, SweepAborts, SweepRefused
  <2>3. Swept(n)' => Swept(n)
    BY <2>1, <2>2 DEF Swept, Live
  <2>4. QED
    BY <1>4, <2>1, <2>3
<1>8. CASE (\E i \in Id : Lapse(i))
           \/ \E v \in View : ViewPublish(v) \/ ViewDelete(v) \/ VersionsDelete(v)
  <2>1. UNCHANGED <<row, mirror, sweep>>
    BY <1>8 DEF Lapse, ViewPublish, ViewDelete, VersionsDelete, store
  <2>2. Swept(n)' => Swept(n)
    BY <2>1 DEF Swept, Live
  <2>3. QED
    BY <1>4, <2>1, <2>2
<1>9. QED
  BY <1>5, <1>6, <1>7, <1>8 DEF OtherStep

LEMMA OrderInit == Init => InOrder
<1> SUFFICES ASSUME Init PROVE InOrder
  OBVIOUS
<1>1. (\A j \in Job : job[j].step = "unused") /\ (\A p \in Handler : op[p].step = "idle")
  BY DEF Init, Unused, Idle
<1>2. \A n \in Name : Pair(n)
  BY <1>1 DEF Init, Pair, Settled, Matched, Half, HalfDone, Inserting
<1>3. \A n \in Name : Filled(n)
  BY <1>1 DEF Init, Filled, Filling, Swept
<1>4. QED
  BY <1>2, <1>3 DEF InOrder

LEMMA OrderStep ==
  ASSUME Basic, GuardInv, InOrder, [Next]_vars
  PROVE  InOrder'
<1>1. SUFFICES ASSUME NEW n \in Name, n \notin torn', n \notin blurred'
               PROVE  Pair(n)' /\ Filled(n)'
  BY DEF InOrder
<1>2. torn \subseteq torn' /\ blurred \subseteq blurred'
  <2>1. \A p \in Handler : HandlerStep(p) \/ CreateCommit(p) =>
          torn \subseteq torn' /\ blurred \subseteq blurred'
    BY DEF HandlerStep, CreateCommit, CreateRead, CreateMirror, CreateRefused, CreateLate,
           CreateFails, ViewRead, ViewCommit, ViewCut, ViewCutRefused, history
  <2>2. ASSUME NEW j \in Job,
               Start(j) \/ \E kind \in {"sync", "update", "delete"}, m \in Name,
                             s \in Settings : Trigger(j, kind, m, s)
        PROVE  torn \subseteq torn' /\ blurred \subseteq blurred'
    BY <2>2 DEF Start, Trigger, history
  <2>3. \A j \in Job : JobStep(j) => torn \subseteq torn' /\ blurred \subseteq blurred'
    BY DEF JobStep, Lock, Sync, Drop, Recreate, Refused, SyncCommit, UpdateCommit,
           DeleteCommit, CommitRaises, Release, Cancel, Crash, Reap, history
  <2>4. OtherStep => torn \subseteq torn' /\ blurred \subseteq blurred'
    BY DEF OtherStep, Lapse, SweepSync, SweepRefused, SweepStart, SweepCommit, SweepAborts,
           ViewPublish, ViewDelete, VersionsDelete, history
  <2>5. CASE UNCHANGED vars
    BY <2>5 DEF vars, history
  <2>6. QED
    BY <2>1, <2>2, <2>3, <2>4, <2>5, Steps
<1>3. Pair(n) /\ Filled(n) /\ n \notin blurred
  BY <1>1, <1>2 DEF InOrder
<1>4. CASE UNCHANGED vars
  <2>1. Kept(n)
    BY <1>4 DEF Kept, Filling, Swept, Live, vars, store
  <2>2. QED
    BY <1>3, <2>1, Frame
<1>5. CASE Next
  BY <1>1, <1>3, <1>5, Steps, HandlerPair, InsertPair, BeginPair, JobPair, OtherPair
<1>6. QED
  BY <1>4, <1>5

LEMMA AllInOrder == Spec => []InOrder
<1>1. Spec => []Basic
  BY BasicInit, BasicStep, PTL DEF Spec
<1>2. Spec => []GuardInv
  BY <1>1, GuardInit, GuardStep, PTL DEF Spec
<1>3. QED
  BY <1>1, <1>2, OrderInit, OrderStep, PTL DEF Spec

\* Two stores without a common transaction: while nobody is at work on a name
\* it has a row if and only if it has a mirror, with the settings of the row,
\* except the names whose halves a failure left apart or two writers met on.
THEOREM RowsAndMirrors == Spec => []RowsMatchMirrors
<1>1. InOrder => RowsMatchMirrors
  <2>1. SUFFICES ASSUME InOrder, NEW n \in Name \ (torn \cup blurred), Resting(n)
                 PROVE  Matched(n)
    BY DEF RowsMatchMirrors, Matched
  <2>2. Settled(n)
    BY <2>1 DEF Resting, Settled, Half, HalfDone, Inserting, AtWork, Critical
  <2>3. QED
    BY <2>1, <2>2 DEF InOrder, Pair
<1>2. QED
  BY <1>1, AllInOrder, PTL

\* A repository that shows as synced has a mirror that was filled since it was
\* created, with the same exceptions, and apart from the moments an update or
\* a deletion replaces it.
THEOREM FilledWhenSynced == Spec => []SyncedIsFilled
<1>1. InOrder => SyncedIsFilled
  <2>1. SUFFICES ASSUME InOrder, NEW n \in Name \ (torn \cup blurred),
                        row[n] # None, row[n].synced, ~Replacing(n)
                 PROVE  Full(n)
    BY DEF SyncedIsFilled, Full
  <2>2. \A j \in Job : ~Half(j, n)
    BY <2>1 DEF Replacing, AtWork, Half, HalfDone, Critical
  <2>3. QED
    BY <2>1, <2>2 DEF InOrder, Filled
<1>2. QED
  BY <1>1, AllInOrder, PTL
=============================================================================

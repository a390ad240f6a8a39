------------------------ MODULE ContentPromotion_proofs ------------------------
(***************************************************************************)
(* Proofs about ContentPromotion, for any environments, handlers, numbers   *)
(* of repositories, bounds and faults.                                      *)
(***************************************************************************)
EXTENDS ContentPromotion, WellFoundedInduction, TLAPS

-----------------------------------------------------------------------------
(* Snapshots of a cut. *)

FinalOf(c) == Final(c, version[c].filtered)
SnapsOf(c) == {s \in snaps : s[1] = c}
Distinct(names) == \A i, j \in DOMAIN names : names[i] = names[j] => i = j

\* do_publish names what it makes: snapshots of this cut, each once, the ones
\* to be published among them.
LEMMA NamesOfCut ==
  ASSUME NEW c \in Cut, NEW filtered \in BOOLEAN
  PROVE  /\ Names(c, filtered) \in Seq(Snapshot)
         /\ Names(c, filtered) # <<>>
         /\ Distinct(Names(c, filtered))
         /\ \A s \in Elements(Names(c, filtered)) : s[1] = c
         /\ Final(c, filtered) \subseteq Elements(Names(c, filtered))
         /\ Final(c, filtered) # {}
<1> DEFINE half(i) == (i + 1) \div 2
           stage(i) == IF i % 2 = 1 THEN "raw" ELSE "filtered"
<1>0. Repos \in Nat \ {0}
  BY BoundAssumption
<1>1. ASSUME NEW i \in 1..(2 * Repos)
      PROVE  half(i) \in Repo
  BY <1>0 DEF Repo
<1>2. ASSUME NEW i \in 1..(2 * Repos), NEW j \in 1..(2 * Repos),
             half(i) = half(j), stage(i) = stage(j)
      PROVE  i = j
  BY <1>0, <1>2
<1>3. ASSUME NEW r \in Repo
      PROVE  2 * r \in 1..(2 * Repos) /\ half(2 * r) = r /\ stage(2 * r) = "filtered"
  BY <1>0 DEF Repo
<1>4. 1 \in Repo
  BY <1>0 DEF Repo
<1>5. CASE filtered
  <2> DEFINE names == [i \in 1..(2 * Repos) |-> <<c, half(i), stage(i)>>]
  <2>1. Names(c, filtered) = names
    BY <1>5 DEF Names
  <2> HIDE DEF half, stage
  <2>2. \A i \in 1..(2 * Repos) : names[i] = <<c, half(i), stage(i)>> /\ names[i] \in Snapshot
    BY <1>1 DEF Snapshot, stage
  <2>3. names \in Seq(Snapshot) /\ DOMAIN names = 1..(2 * Repos) /\ Len(names) = 2 * Repos
    BY <2>2, <1>0
  <2> HIDE DEF names
  <2>4. names # <<>>
    BY <2>3, <1>0
  <2>5. Distinct(names)
    BY <2>2, <2>3, <1>2 DEF Distinct
  <2>6. \A s \in Elements(names) : s[1] = c
    BY <2>2, <2>3 DEF Elements
  <2>7. Final(c, filtered) \subseteq Elements(names)
    <3> SUFFICES ASSUME NEW r \in Repo
                 PROVE  <<c, r, "filtered">> \in Elements(names)
      BY <1>5 DEF Final
    <3>1. QED
      BY <1>3, <2>2, <2>3 DEF Elements
  <2>8. QED
    BY <2>1, <2>3, <2>4, <2>5, <2>6, <2>7, <1>4 DEF Final
<1>6. CASE ~filtered
  <2> DEFINE names == [i \in Repo |-> <<c, i, "raw">>]
  <2>1. Names(c, filtered) = names
    BY <1>6 DEF Names
  <2>2. \A i \in Repo : names[i] = <<c, i, "raw">> /\ names[i] \in Snapshot
    BY DEF Snapshot
  <2>3. names \in Seq(Snapshot) /\ DOMAIN names = Repo /\ Len(names) = Repos
    BY <2>2, <1>0 DEF Repo
  <2> HIDE DEF names
  <2>4. names # <<>>
    BY <2>3, <1>0
  <2>5. Distinct(names)
    BY <2>2, <2>3 DEF Distinct
  <2>6. \A s \in Elements(names) : s[1] = c
    BY <2>2, <2>3 DEF Elements
  <2>7. Final(c, filtered) \subseteq Elements(names)
    BY <2>2, <2>3, <1>6 DEF Elements, Final
  <2>8. QED
    BY <2>1, <2>3, <2>4, <2>5, <2>6, <2>7, <1>4 DEF Final
<1>7. QED
  BY <1>5, <1>6

\* Taking the first of a list of different names leaves the others.
LEMMA TailOf ==
  ASSUME NEW S, NEW todo \in Seq(S), todo # <<>>
  PROVE  /\ Head(todo) \in Elements(todo) /\ Head(todo) \in S
         /\ Tail(todo) \in Seq(S)
         /\ Len(todo) = 1 <=> Tail(todo) = <<>>
         /\ Elements(todo) \ {Head(todo)} \subseteq Elements(Tail(todo))
         /\ Elements(Tail(todo)) \subseteq Elements(todo)
         /\ Distinct(todo) => /\ Distinct(Tail(todo))
                              /\ Head(todo) \notin Elements(Tail(todo))
<1>1. Len(todo) \in Nat \ {0} /\ DOMAIN todo = 1..Len(todo)
  OBVIOUS
<1>2. /\ Head(todo) = todo[1]
      /\ Tail(todo) \in Seq(S)
      /\ DOMAIN Tail(todo) = 1..(Len(todo) - 1)
      /\ Len(Tail(todo)) = Len(todo) - 1
      /\ \A i \in DOMAIN Tail(todo) : Tail(todo)[i] = todo[i + 1]
  BY <1>1
<1> DEFINE tail == Tail(todo)
<1> HIDE DEF tail
<1>3. tail \in Seq(S) /\ Len(tail) = Len(todo) - 1 /\ DOMAIN tail = 1..(Len(todo) - 1)
      /\ \A i \in DOMAIN tail : tail[i] = todo[i + 1]
  BY <1>2 DEF tail
<1>4. Head(todo) \in Elements(todo) /\ Head(todo) \in S
  BY <1>1, <1>2 DEF Elements
<1>5. Len(todo) = 1 <=> tail = <<>>
  BY <1>1, <1>3
<1>6. Elements(todo) \ {Head(todo)} \subseteq Elements(tail)
  <2> SUFFICES ASSUME NEW i \in DOMAIN todo, i # 1
               PROVE  todo[i] \in Elements(tail)
    BY <1>2 DEF Elements
  <2>1. i - 1 \in DOMAIN tail /\ tail[i - 1] = todo[i]
    BY <1>1, <1>3
  <2>2. QED
    BY <2>1 DEF Elements
<1>7. \A i \in DOMAIN tail : i + 1 \in DOMAIN todo /\ i + 1 # 1 /\ i \in Nat
  BY <1>1, <1>3
<1>8. Elements(tail) \subseteq Elements(todo)
  BY <1>3, <1>7 DEF Elements
<1>9. ASSUME Distinct(todo)
      PROVE  Distinct(tail) /\ Head(todo) \notin Elements(tail)
  <2>1. Distinct(tail)
    BY <1>3, <1>7, <1>9 DEF Distinct
  <2>2. 1 \in DOMAIN todo
    BY <1>1
  <2>3. Head(todo) \notin Elements(tail)
    BY <1>2, <1>3, <1>7, <1>9, <2>2 DEF Distinct, Elements
  <2>4. QED
    BY <2>1, <2>3
<1>10. QED
  BY <1>3, <1>4, <1>5, <1>6, <1>8, <1>9 DEF tail

-----------------------------------------------------------------------------
(* What a step does to the operations. *)

Others(p) == op' \in [Proc -> Operation] /\ \A q \in Proc \ {p} : op'[q] = op[q]
\* p is where it goes on with the same operation.
MovesTo(p, step) ==
  /\ op'[p].step = step
  /\ op'[p].kind = op[p].kind /\ op'[p].env = op[p].env /\ op'[p].ecv = op[p].ecv
  /\ op'[p].alone = op[p].alone
\* p has begun o on environment e; who was there already is not alone now.
Joins(p, e) ==
  /\ op' \in [Proc -> Operation]
  /\ op[p] = Idle
  /\ op'[p].env = e /\ op'[p].alone = (Busy(e) = {})
  /\ op'[p].number = 0 /\ op'[p].todo = <<>>
  /\ \A q \in Proc \ {p} :
       /\ op'[q].kind = op[q].kind /\ op'[q].step = op[q].step /\ op'[q].env = op[q].env
       /\ op'[q].ecv = op[q].ecv /\ op'[q].cut = op[q].cut
       /\ op'[q].number = op[q].number /\ op'[q].filtered = op[q].filtered
       /\ op'[q].todo = op[q].todo
       /\ op'[q].alone = (op[q].alone /\ op[q].env # e)

LEMMA OpFields ==
  ASSUME NEW o \in Operation
  PROVE  /\ o.kind \in Kind /\ o.step \in Step /\ o.env \in Env \cup {NoEnv}
         /\ o.ecv \in 0..MaxAssigns /\ o.cut \in 0..MaxCuts
         /\ o.number \in 0..(MaxCuts + 1) /\ o.filtered \in BOOLEAN
         /\ o.todo \in Seq(Snapshot) /\ o.alone \in BOOLEAN
BY DEF Operation

LEMMA IdleFields ==
  /\ Idle \in Operation
  /\ Idle.kind = "none" /\ Idle.step = "idle" /\ Idle.env = NoEnv /\ Idle.ecv = 0
  /\ Idle.cut = 0 /\ Idle.number = 0 /\ Idle.todo = <<>>
BY BoundAssumption DEF Idle, Operation, Kind, Step

LEMMA VersionFields ==
  ASSUME TypeOK, NEW c \in Cut
  PROVE  /\ version[c].there \in BOOLEAN /\ version[c].filtered \in BOOLEAN
         /\ version[c].number \in 0..(MaxCuts + 1) /\ version[c].names \in Seq(Snapshot)
BY DEF TypeOK, Version

\* The version with the highest number is one that is there.
LEMMA LatestExists ==
  ASSUME TypeOK, Versions # {}
  PROVE  Latest \in Versions
<1> DEFINE S == {MaxCuts + 1 - version[c].number : c \in Versions}
<1>1. \A c \in Versions : version[c].number \in 0..(MaxCuts + 1)
  BY VersionFields DEF Versions
<1>2. S \in SUBSET Nat /\ S # {}
  BY <1>1, BoundAssumption
<1>3. \A c \in Versions : MaxCuts + 1 - version[c].number \in S
  OBVIOUS
<1>4. \A n \in S : \E c \in Versions : n = MaxCuts + 1 - version[c].number
  OBVIOUS
<1> HIDE DEF S
<1>5. PICK n \in S : \A m \in S : n <= m
  <2> DEFINE R == OpToRel(<, Nat)
  <2>1. IsWellFoundedOn(R, Nat)
    BY NatLessThanWellFounded
  <2>2. ASSUME NEW m \in Nat, NEW n \in Nat, m < n PROVE <<m, n>> \in R
    <3>1. R = {ss \in Nat \X Nat : ss[1] < ss[2]}
      BY DEF OpToRel
    <3>2. QED
      BY <2>2, <3>1
  <2> HIDE DEF R
  <2>3. PICK n \in S : \A m \in S : ~(<<m, n>> \in R)
    BY <1>2, <2>1, WFMin
  <2>4. ASSUME NEW m \in S PROVE n <= m
    <3>1. m \in Nat /\ n \in Nat
      BY <1>2
    <3>2. ~(m < n)
      BY <2>2, <2>3, <3>1
    <3>3. QED
      BY <3>1, <3>2
  <2>5. QED
    BY <2>4
<1>6. PICK c \in Versions : n = MaxCuts + 1 - version[c].number
  BY <1>4
<1>7. ASSUME NEW d \in Versions PROVE version[d].number <= version[c].number
  <2>1. MaxCuts + 1 - version[c].number <= MaxCuts + 1 - version[d].number
    BY <1>3, <1>5, <1>6
  <2>2. version[c].number \in Nat /\ version[d].number \in Nat /\ MaxCuts \in Nat
    BY <1>1, BoundAssumption
  <2>3. QED
    BY <2>1, <2>2
<1>8. QED
  BY <1>7 DEF Latest

LEMMA EndOp ==
  ASSUME TypeOK, NEW p \in Proc, End(p)
  PROVE  Others(p) /\ op'[p] = Idle
BY IdleFields DEF End, Others, TypeOK

LEMMA GotoOp ==
  ASSUME TypeOK, NEW p \in Proc, NEW step \in Step, Goto(p, step)
  PROVE  /\ Others(p) /\ MovesTo(p, step)
         /\ op'[p].cut = op[p].cut /\ op'[p].number = op[p].number
         /\ op'[p].filtered = op[p].filtered /\ op'[p].todo = op[p].todo
BY DEF Goto, Others, MovesTo, TypeOK, Operation

LEMMA PublishOp ==
  ASSUME TypeOK, NEW p \in Proc, Publish(p)
  PROVE  /\ Others(p)
         /\ op[p] = Idle
         /\ op'[p].kind = "publish" /\ op'[p].step = "reading" /\ op'[p].env = NoEnv
         /\ op'[p].cut = 0 /\ op'[p].number = 0 /\ op'[p].todo = <<>>
<1> DEFINE new == [Idle EXCEPT !.kind = "publish", !.step = "reading"]
<1>1. /\ new \in Operation /\ new.kind = "publish" /\ new.step = "reading"
      /\ new.env = NoEnv /\ new.cut = 0 /\ new.number = 0 /\ new.todo = <<>>
  BY IdleFields DEF Operation, Kind, Step
<1>2. op[p] = Idle /\ op' = [op EXCEPT ![p] = new]
  BY DEF Publish
<1> HIDE DEF new
<1>3. QED
  BY <1>1, <1>2 DEF Others, TypeOK

\* A publish has its version, or a promotion goes on with it.
LEMMA WithVersionOp ==
  ASSUME TypeOK, NEW p \in Proc, NEW c \in Cut, NEW o, o = WithVersion(p, c)
  PROVE  /\ o \in Operation
         /\ op[p].kind = "publish" => o = Idle
         /\ op[p].kind # "publish" =>
              /\ o.kind = op[p].kind /\ o.step = "switching" /\ o.env = op[p].env
              /\ o.ecv = op[p].ecv /\ o.cut = c /\ o.number = 0 /\ o.alone = op[p].alone
<1> DEFINE new == [op[p] EXCEPT !.step = "switching", !.cut = c, !.number = 0,
                                !.filtered = FALSE]
<1>1. op[p] \in Operation /\ c \in 0..MaxCuts /\ 0 \in 0..(MaxCuts + 1)
  BY BoundAssumption DEF TypeOK, Cut
<1>2. /\ new \in Operation /\ new.kind = op[p].kind /\ new.step = "switching"
      /\ new.env = op[p].env /\ new.ecv = op[p].ecv /\ new.cut = c /\ new.number = 0
      /\ new.alone = op[p].alone
  BY <1>1 DEF Operation, Step
<1>3. o = IF op[p].kind = "publish" THEN Idle ELSE new
  BY DEF WithVersion
<1> HIDE DEF new
<1>4. QED
  BY <1>2, <1>3, IdleFields

LEMMA PublishReadOp ==
  ASSUME TypeOK, NEW p \in Proc, NEW new \in BOOLEAN, NEW filtered \in BOOLEAN,
         PublishRead(p, new, filtered), \A c \in Cut : version[c].number <= cuts
  PROVE  /\ Others(p)
         /\ op[p].step = "reading"
         /\ \/ op[p].kind = "publish" /\ op'[p] = Idle
            \/ /\ op[p].kind # "publish" /\ MovesTo(p, "switching")
               /\ op'[p].cut \in Versions /\ op'[p].number = 0
            \/ MovesTo(p, "cutting") /\ op'[p].cut = op[p].cut /\ op'[p].number <= cuts + 1
<1> DEFINE number == IF Latest = 0 THEN 1 ELSE version[Latest].number + 1
           old == WithVersion(p, Latest)
           cutting == [op[p] EXCEPT !.step = "cutting", !.filtered = filtered,
                                    !.number = number]
<1>1. op[p] \in Operation /\ op[p].step = "reading"
  BY DEF TypeOK, PublishRead
<1>2. op' = [op EXCEPT ![p] = IF ~new /\ Latest # 0 THEN old ELSE cutting]
  BY DEF PublishRead
<1>3. Latest # 0 => Latest \in Versions /\ Latest \in Cut
  <2>1. CASE Versions = {}
    BY <2>1 DEF Latest
  <2>2. CASE Versions # {}
    BY <2>2, LatestExists DEF Versions
  <2>3. QED
    BY <2>1, <2>2
<1>4. number \in 0..(MaxCuts + 1) /\ number <= cuts + 1
  <2>1. Latest # 0 => version[Latest].number \in Nat /\ version[Latest].number <= cuts
    BY <1>3, VersionFields
  <2>2. cuts \in 0..MaxCuts /\ MaxCuts \in Nat
    BY BoundAssumption DEF TypeOK
  <2>3. QED
    BY <2>1, <2>2
<1> HIDE DEF number
<1>5. /\ cutting \in Operation /\ cutting.step = "cutting" /\ cutting.kind = op[p].kind
      /\ cutting.env = op[p].env /\ cutting.ecv = op[p].ecv /\ cutting.cut = op[p].cut
      /\ cutting.number = number /\ cutting.alone = op[p].alone
  BY <1>1, <1>4 DEF Operation, Step
<1>6. Latest # 0 =>
        /\ old \in Operation
        /\ op[p].kind = "publish" => old = Idle
        /\ op[p].kind # "publish" =>
             /\ old.kind = op[p].kind /\ old.step = "switching" /\ old.env = op[p].env
             /\ old.ecv = op[p].ecv /\ old.cut = Latest /\ old.number = 0
             /\ old.alone = op[p].alone
  BY <1>3, WithVersionOp
<1> HIDE DEF old, cutting
<1>7. op \in [Proc -> Operation]
  BY DEF TypeOK
<1>8. CASE ~new /\ Latest # 0
  <2>1. op'[p] = old /\ Others(p)
    BY <1>2, <1>6, <1>7, <1>8 DEF Others
  <2>2. QED
    BY <1>1, <1>3, <1>6, <1>8, <2>1 DEF MovesTo
<1>9. CASE ~(~new /\ Latest # 0)
  <2>1. op'[p] = cutting /\ Others(p)
    BY <1>2, <1>5, <1>7, <1>9 DEF Others
  <2>2. QED
    BY <1>1, <1>4, <1>5, <2>1 DEF MovesTo
<1>10. QED
  BY <1>8, <1>9

LEMMA PublishCutOp ==
  ASSUME TypeOK, NEW p \in Proc, PublishCut(p)
  PROVE  /\ Others(p) /\ op[p].step = "cutting" /\ MovesTo(p, "recording")
         /\ cuts' = cuts + 1 /\ cuts' \in Cut
         /\ op'[p].cut = cuts' /\ op'[p].number = op[p].number
         /\ op'[p].filtered = op[p].filtered
<1> DEFINE new == [op[p] EXCEPT !.step = "recording", !.cut = cuts']
<1>1. cuts' = cuts + 1 /\ cuts' \in Cut /\ cuts' \in 0..MaxCuts /\ op[p] \in Operation /\ op[p].step = "cutting"
  BY BoundAssumption DEF PublishCut, TypeOK, Cut
<1>2. /\ new \in Operation /\ new.step = "recording" /\ new.cut = cuts'
      /\ new.kind = op[p].kind /\ new.env = op[p].env /\ new.ecv = op[p].ecv
      /\ new.number = op[p].number /\ new.filtered = op[p].filtered
      /\ new.alone = op[p].alone
  BY <1>1 DEF Operation, Step
<1>3. op' = [op EXCEPT ![p] = new]
  BY <1>1 DEF PublishCut, TypeOK
<1> HIDE DEF new
<1>4. op'[p] = new /\ Others(p)
  BY <1>2, <1>3 DEF Others, TypeOK
<1>5. QED
  BY <1>1, <1>2, <1>4 DEF MovesTo

LEMMA PublishRecordOp ==
  ASSUME TypeOK, NEW p \in Proc, PublishRecord(p), op[p].cut \in Cut
  PROVE  /\ Others(p) /\ op[p].step = "recording"
         /\ \/ op[p].kind = "publish" /\ op'[p] = Idle
            \/ /\ op[p].kind # "publish" /\ MovesTo(p, "switching")
               /\ op'[p].cut = op[p].cut /\ op'[p].number = 0
<1> DEFINE new == WithVersion(p, op[p].cut)
<1>1. op[p].step = "recording" /\ op' = [op EXCEPT ![p] = new]
  BY DEF PublishRecord
<1>2. /\ new \in Operation
      /\ op[p].kind = "publish" => new = Idle
      /\ op[p].kind # "publish" =>
           /\ new.kind = op[p].kind /\ new.step = "switching" /\ new.env = op[p].env
           /\ new.ecv = op[p].ecv /\ new.cut = op[p].cut /\ new.number = 0
           /\ new.alone = op[p].alone
  BY WithVersionOp
<1> HIDE DEF new
<1>3. op'[p] = new /\ Others(p)
  BY <1>1, <1>2 DEF Others, TypeOK
<1>4. QED
  BY <1>1, <1>2, <1>3 DEF MovesTo

\* An operation on an environment begins, as Assign, Promote and Rollback do.
LEMMA BeginOp ==
  ASSUME TypeOK, NEW p \in Proc, NEW e \in Env, NEW o \in Operation, Begin(p, o),
         o.env = e, o.number = 0, o.todo = <<>>
  PROVE  /\ Joins(p, e)
         /\ op'[p].kind = o.kind /\ op'[p].step = o.step /\ op'[p].ecv = o.ecv
         /\ op'[p].cut = o.cut
<1> DEFINE new == [o EXCEPT !.alone = Busy(o.env) = {}]
           met(q) == [op[q] EXCEPT !.alone = FALSE]
<1>1. /\ new \in Operation /\ new.kind = o.kind /\ new.step = o.step /\ new.env = e
      /\ new.ecv = o.ecv /\ new.cut = o.cut /\ new.number = 0 /\ new.todo = <<>>
      /\ new.alone = (Busy(e) = {})
  BY DEF Operation
<1>2. ASSUME NEW q \in Proc
      PROVE  /\ met(q) \in Operation /\ op[q] \in Operation
             /\ met(q).kind = op[q].kind /\ met(q).step = op[q].step
             /\ met(q).env = op[q].env /\ met(q).ecv = op[q].ecv
             /\ met(q).cut = op[q].cut /\ met(q).number = op[q].number
             /\ met(q).filtered = op[q].filtered /\ met(q).todo = op[q].todo
             /\ met(q).alone = FALSE /\ op[q].alone \in BOOLEAN
  BY DEF TypeOK, Operation
<1>3. /\ op[p] = Idle
      /\ op' = [q \in Proc |-> IF q = p THEN new
                               ELSE IF op[q].env = e THEN met(q) ELSE op[q]]
  BY DEF Begin
<1> HIDE DEF new, met
<1>4. op' \in [Proc -> Operation] /\ op'[p] = new
  BY <1>1, <1>2, <1>3
<1>5. ASSUME NEW q \in Proc \ {p}
      PROVE  /\ op'[q].kind = op[q].kind /\ op'[q].step = op[q].step
             /\ op'[q].env = op[q].env /\ op'[q].ecv = op[q].ecv
             /\ op'[q].cut = op[q].cut /\ op'[q].number = op[q].number
             /\ op'[q].filtered = op[q].filtered /\ op'[q].todo = op[q].todo
             /\ op'[q].alone = (op[q].alone /\ op[q].env # e)
  <2>1. CASE op[q].env = e
    BY <1>2, <1>3, <2>1
  <2>2. CASE op[q].env # e
    BY <1>2, <1>3, <2>2
  <2>3. QED
    BY <2>1, <2>2
<1>6. QED
  BY <1>1, <1>3, <1>4, <1>5 DEF Joins

LEMMA AssignOp ==
  ASSUME TypeOK, NEW p \in Proc, NEW e \in Env, NEW c \in Cut, Assign(p, e, c)
  PROVE  /\ Joins(p, e) /\ c \in Versions /\ assigns' = assigns + 1
         /\ op'[p].kind = "assign" /\ op'[p].step = "switching" /\ op'[p].cut = c
         /\ op'[p].ecv = assigns' /\ assigns' # 0
<1> DEFINE o == [Idle EXCEPT !.kind = "assign", !.step = "switching", !.env = e,
                             !.ecv = assigns', !.cut = c]
<1>1. /\ c \in Versions /\ assigns' = assigns + 1 /\ Begin(p, o)
      /\ assigns' \in 0..MaxAssigns /\ c \in 0..MaxCuts /\ assigns' # 0
  BY BoundAssumption DEF Assign, TypeOK, Cut
<1>2. /\ o \in Operation /\ o.kind = "assign" /\ o.step = "switching" /\ o.env = e
      /\ o.ecv = assigns' /\ o.cut = c /\ o.number = 0 /\ o.todo = <<>>
  BY <1>1, IdleFields DEF Operation, Kind, Step
<1> HIDE DEF o
<1>3. QED
  BY <1>1, <1>2, BeginOp

LEMMA PromoteOp ==
  ASSUME TypeOK, NEW p \in Proc, NEW e \in Env, NEW c \in 0..MaxCuts, Promote(p, e, c)
  PROVE  /\ Joins(p, e)
         /\ op'[p].kind = "promote" /\ op'[p].ecv = ecv[e] /\ op'[p].cut = c
         /\ ecv[e] # 0
         /\ IF c = 0 THEN op'[p].step = "reading"
            ELSE op'[p].step = "switching" /\ c \in Versions
<1> DEFINE o == [Idle EXCEPT !.kind = "promote", !.env = e, !.ecv = ecv[e], !.cut = c,
                             !.step = IF c = 0 THEN "reading" ELSE "switching"]
<1>1. c \in Versions \cup {0} /\ Begin(p, o) /\ ecv[e] \in 0..MaxAssigns /\ ecv[e] # 0
  BY DEF Promote, TypeOK
<1>2. /\ o \in Operation /\ o.kind = "promote" /\ o.env = e /\ o.ecv = ecv[e]
      /\ o.step = (IF c = 0 THEN "reading" ELSE "switching")
      /\ o.cut = c /\ o.number = 0 /\ o.todo = <<>>
  BY <1>1, IdleFields DEF Operation, Kind, Step
<1> HIDE DEF o
<1>3. QED
  BY <1>1, <1>2, BeginOp

LEMMA RollbackOp ==
  ASSUME TypeOK, NEW p \in Proc, NEW e \in Env, NEW c \in Cut, Rollback(p, e, c)
  PROVE  /\ Joins(p, e) /\ c \in Versions
         /\ op'[p].kind = "rollback" /\ op'[p].step = "switching"
         /\ op'[p].ecv = ecv[e] /\ op'[p].cut = c /\ ecv[e] # 0
<1> DEFINE o == [Idle EXCEPT !.kind = "rollback", !.step = "switching", !.env = e,
                             !.ecv = ecv[e], !.cut = c]
<1>1. /\ c \in Versions /\ Begin(p, o)
      /\ ecv[e] \in 0..MaxAssigns /\ c \in 0..MaxCuts /\ ecv[e] # 0
  BY BoundAssumption DEF Rollback, TypeOK, Cut
<1>2. /\ o \in Operation /\ o.kind = "rollback" /\ o.step = "switching" /\ o.env = e
      /\ o.ecv = ecv[e] /\ o.cut = c /\ o.number = 0 /\ o.todo = <<>>
  BY <1>1, IdleFields DEF Operation, Kind, Step
<1> HIDE DEF o
<1>3. QED
  BY <1>1, <1>2, BeginOp

LEMMA DeleteOp ==
  ASSUME TypeOK, NEW p \in Proc, NEW c \in Cut, Delete(p, c)
  PROVE  /\ Others(p) /\ op[p] = Idle /\ c \in Versions
         /\ op'[p].kind = "delete" /\ op'[p].step = "queued" /\ op'[p].env = NoEnv
         /\ op'[p].cut = c /\ op'[p].number = 0 /\ op'[p].todo = <<>>
<1> DEFINE new == [Idle EXCEPT !.kind = "delete", !.step = "queued", !.cut = c]
<1>0. c \in 0..MaxCuts
  BY BoundAssumption DEF Cut
<1>1. /\ new \in Operation /\ new.kind = "delete" /\ new.step = "queued"
      /\ new.env = NoEnv /\ new.cut = c /\ new.number = 0 /\ new.todo = <<>>
  BY <1>0, IdleFields DEF Operation, Kind, Step
<1>2. op[p] = Idle /\ c \in Versions /\ op' = [op EXCEPT ![p] = new]
  BY DEF Delete
<1> HIDE DEF new
<1>3. QED
  BY <1>1, <1>2 DEF Others, TypeOK

LEMMA DeleteStartOp ==
  ASSUME TypeOK, NEW p \in Proc, DeleteStart(p)
  PROVE  /\ Others(p) /\ op[p].step = "queued"
         /\ \/ op'[p] = Idle
            \/ /\ MovesTo(p, "dropping")
               /\ op'[p].cut = op[p].cut /\ op'[p].number = op[p].number
               /\ op[p].cut \in Versions /\ op'[p].todo = version[op[p].cut].names
               /\ Deleting(op[p].cut) = {} /\ ~EverPromoted(op[p].cut)
<1> DEFINE c == op[p].cut
           good == c \in Versions /\ Deleting(c) = {} /\ ~EverPromoted(c)
           new == [op[p] EXCEPT !.step = "dropping", !.todo = version[c].names]
<1>1. op[p].step = "queued" /\ op' = [op EXCEPT ![p] = IF good THEN new ELSE Idle]
  BY DEF DeleteStart
<1>2. ASSUME good
      PROVE  /\ new \in Operation /\ new.step = "dropping" /\ new.kind = op[p].kind
             /\ new.env = op[p].env /\ new.ecv = op[p].ecv /\ new.alone = op[p].alone
             /\ new.cut = c /\ new.number = op[p].number /\ new.todo = version[c].names
  <2>1. version[c].names \in Seq(Snapshot)
    BY <1>2, VersionFields DEF Versions
  <2>2. QED
    BY <2>1 DEF TypeOK, Operation, Step
<1>3. CASE good
  <2> HIDE DEF new
  <2>1. op'[p] = new /\ Others(p)
    BY <1>1, <1>2, <1>3 DEF Others, TypeOK
  <2>2. QED
    BY <1>1, <1>2, <1>3, <2>1 DEF MovesTo
<1>4. CASE ~good
  BY <1>1, <1>4, IdleFields DEF Others, TypeOK
<1>5. QED
  BY <1>3, <1>4

LEMMA DropOp ==
  ASSUME TypeOK, NEW p \in Proc, Drop(p), op[p].todo # <<>>
  PROVE  /\ Others(p) /\ op[p].step = "dropping"
         /\ op'[p].cut = op[p].cut /\ op'[p].number = op[p].number
         /\ op'[p].todo = Tail(op[p].todo)
         /\ \/ MovesTo(p, "dropping") /\ op'[p].todo # <<>>
            \/ MovesTo(p, "erasing") /\ op'[p].todo = <<>>
<1> DEFINE todo == op[p].todo
           step == IF Len(todo) = 1 THEN "erasing" ELSE "dropping"
           new == [op[p] EXCEPT !.todo = Tail(todo), !.step = step]
<1>1. op[p] \in Operation /\ todo \in Seq(Snapshot) /\ op[p].step = "dropping"
  BY OpFields DEF TypeOK, Drop
<1>2. Tail(todo) \in Seq(Snapshot) /\ (Len(todo) = 1 <=> Tail(todo) = <<>>)
  BY <1>1, TailOf
<1>3. /\ new \in Operation /\ new.todo = Tail(todo) /\ new.step = step
      /\ new.kind = op[p].kind /\ new.env = op[p].env /\ new.ecv = op[p].ecv
      /\ new.cut = op[p].cut /\ new.number = op[p].number /\ new.alone = op[p].alone
  BY <1>1, <1>2 DEF Operation, Step
<1>4. op' = [op EXCEPT ![p] = new]
  BY <1>1 DEF Drop, TypeOK
<1> HIDE DEF new
<1>5. op'[p] = new /\ Others(p)
  BY <1>3, <1>4 DEF Others, TypeOK
<1>6. QED
  BY <1>1, <1>2, <1>3, <1>5 DEF MovesTo

-----------------------------------------------------------------------------
(* Types, and the shapes an operation can have.                             *)

ShapeOf(o) ==
  /\ o.kind = "none" <=> o.step = "idle"
  /\ o.kind \in {"none", "publish", "delete"} <=> o.env = NoEnv
  /\ o.step \in {"reading", "cutting", "recording"} => o.kind \in {"publish", "promote"}
  /\ o.step \in {"queued", "dropping", "erasing"} <=> o.kind = "delete"
  /\ o.step \in {"switching", "committing"} => o.kind \in {"assign", "promote", "rollback"}
  /\ o.step \in {"recording", "switching", "committing"} \/ o.kind = "delete"
     => o.cut \in Cut
  /\ o.env # NoEnv => o.ecv # 0
  /\ o.step = "dropping" => o.todo # <<>>
\* The numbers of n cuts, and of the next; a row names something.
NumberOf(o, n) == o.number <= n + 1 /\ (o.step = "recording" => o.number <= n)
RowOf(row, n) == row.number <= n /\ (row.there => row.names # <<>>)

Shape == \A p \in Proc : ShapeOf(op[p])
Numbered ==
  /\ \A c \in Cut : RowOf(version[c], cuts)
  /\ \A p \in Proc : NumberOf(op[p], cuts)
Basic == TypeOK /\ Shape /\ Numbered

LEMMA ElementsIn ==
  ASSUME NEW S, NEW names \in Seq(S)
  PROVE  Elements(names) \subseteq S
BY DEF Elements

LEMMA FinalIn ==
  ASSUME NEW c \in Cut, NEW filtered \in BOOLEAN
  PROVE  Final(c, filtered) \subseteq Snapshot
BY NamesOfCut, ElementsIn

LEMMA IdleBasic ==
  ASSUME NEW n \in Nat
  PROVE  ShapeOf(Idle) /\ NumberOf(Idle, n)
BY IdleFields DEF ShapeOf, NumberOf

\* It is enough to look at the operation that takes the step.
LEMMA OpsBasic ==
  ASSUME Basic, NEW p \in Proc, cuts' \in Nat, cuts <= cuts',
         op' \in [Proc -> Operation],
         \A q \in Proc \ {p} :
           /\ op'[q].kind = op[q].kind /\ op'[q].step = op[q].step
           /\ op'[q].env = op[q].env /\ op'[q].cut = op[q].cut
           /\ op'[q].ecv = op[q].ecv
           /\ op'[q].number = op[q].number /\ op'[q].todo = op[q].todo,
         ShapeOf(op'[p]), NumberOf(op'[p], cuts')
  PROVE  Shape' /\ \A q \in Proc : NumberOf(op'[q], cuts')
<1>1. cuts \in Nat /\ op \in [Proc -> Operation]
  BY BoundAssumption DEF Basic, TypeOK
<1>2. ASSUME NEW q \in Proc \ {p}
      PROVE  ShapeOf(op'[q]) /\ NumberOf(op'[q], cuts')
  <2>1. ShapeOf(op[q]) /\ NumberOf(op[q], cuts) /\ op[q].number \in Nat
    BY <1>1, OpFields DEF Basic, Shape, Numbered
  <2>2. ShapeOf(op'[q])
    BY <2>1 DEF ShapeOf
  <2>3. NumberOf(op'[q], cuts')
    BY <1>1, <2>1 DEF NumberOf
  <2>4. QED
    BY <2>2, <2>3
<1>3. QED
  BY <1>2 DEF Shape

LEMMA OthersBasic ==
  ASSUME Basic, NEW p \in Proc, cuts' \in Nat, cuts <= cuts', Others(p),
         ShapeOf(op'[p]), NumberOf(op'[p], cuts')
  PROVE  Shape' /\ \A q \in Proc : NumberOf(op'[q], cuts')
BY OpsBasic DEF Others

LEMMA InitBasic == Init => Basic
<1> SUFFICES ASSUME Init PROVE Basic
  OBVIOUS
<1>1. 0 \in 0..MaxCuts /\ 0 \in 0..MaxAssigns /\ MaxCuts \in Nat /\ 0 \in 0..(MaxCuts + 1)
  BY BoundAssumption
<1>2. NoVersion \in Version /\ RowOf(NoVersion, 0)
  BY <1>1 DEF NoVersion, Version, RowOf
<1>3. TypeOK
  BY <1>1, <1>2, IdleFields DEF Init, TypeOK
<1>4. Shape /\ Numbered
  BY <1>1, <1>2, IdleBasic DEF Init, Shape, Numbered
<1>5. QED
  BY <1>3, <1>4 DEF Basic

\* What every step keeps.
LEMMA NextBasic ==
  ASSUME Basic, [Next]_vars
  PROVE  Basic'
<1>0. /\ TypeOK /\ Shape /\ Numbered
      /\ cuts \in Nat /\ MaxCuts \in Nat /\ MaxAssigns \in Nat
      /\ op \in [Proc -> Operation]
      /\ \A c \in Cut : version[c] \in Version
  BY BoundAssumption DEF Basic, TypeOK
<1>1. ASSUME UNCHANGED vars
      PROVE  Basic'
  BY <1>0, <1>1 DEF vars, aptlyVars, rowVars, histVars, Basic, TypeOK, Shape, Numbered
<1>2. ASSUME NEW p \in Proc, Others(p), ShapeOf(op'[p]), NumberOf(op'[p], cuts),
             UNCHANGED <<snaps, cuts, assigns>>,
             served' \in [Env -> SUBSET Snapshot],
             version' \in [Cut -> Version], \A c \in Cut : RowOf(version'[c], cuts),
             ecv' \in [Env -> 0..MaxAssigns], current' \in [Env -> 0..MaxCuts],
             audit' \subseteq (1..MaxAssigns) \X Cut,
             lease' \in [Env -> Proc \cup {Free, Stale}],
             blurred' \subseteq Env, raced' \subseteq Cut, torn' \subseteq Cut
      PROVE  Basic'
  <2>1. Shape' /\ \A q \in Proc : NumberOf(op'[q], cuts)
    BY <1>0, <1>2, OthersBasic
  <2>2. TypeOK'
    BY <1>0, <1>2 DEF TypeOK, Others
  <2>3. QED
    BY <1>2, <2>1, <2>2 DEF Basic, Numbered
<1>3. ASSUME NEW p \in Proc
      PROVE  /\ Idle \in Operation /\ ShapeOf(Idle) /\ NumberOf(Idle, cuts)
             /\ op[p] \in Operation /\ ShapeOf(op[p]) /\ NumberOf(op[p], cuts)
             /\ op[p].number \in Nat
             /\ op[p].cut \in Cut => FinalOf(op[p].cut) \subseteq Snapshot
             /\ op[p].env # NoEnv => op[p].env \in Env
             /\ Release(p) => lease' \in [Env -> Proc \cup {Free, Stale}]
  <2>1. /\ op[p] \in Operation /\ ShapeOf(op[p]) /\ NumberOf(op[p], cuts)
        /\ Idle \in Operation /\ ShapeOf(Idle) /\ NumberOf(Idle, cuts)
    BY <1>0, IdleFields, IdleBasic DEF Shape, Numbered
  <2>2. op[p].number \in Nat /\ (op[p].env # NoEnv => op[p].env \in Env)
    BY <1>0, <2>1, OpFields
  <2>3. op[p].cut \in Cut => FinalOf(op[p].cut) \subseteq Snapshot
    BY <1>0, VersionFields, FinalIn DEF FinalOf
  <2>4. Release(p) => lease' \in [Env -> Proc \cup {Free, Stale}]
    BY <1>0 DEF Release, TypeOK
  <2>5. QED
    BY <2>1, <2>2, <2>3, <2>4
<1>4. ASSUME NEW p \in Proc, Publish(p)
      PROVE  Basic'
  <2>1. ShapeOf(op'[p]) /\ NumberOf(op'[p], cuts)
    BY <1>0, <1>4, PublishOp DEF ShapeOf, NumberOf
  <2>2. Others(p)
    BY <1>0, <1>4, PublishOp
  <2>3. QED
    BY <1>0, <1>2, <1>4, <2>1, <2>2
       DEF Publish, aptlyVars, rowVars, histVars, TypeOK, Numbered
<1>5. ASSUME NEW p \in Proc, NEW new \in BOOLEAN, NEW filtered \in BOOLEAN,
             PublishRead(p, new, filtered)
      PROVE  Basic'
  <2>1. /\ Others(p) /\ op[p].step = "reading"
        /\ \/ op[p].kind = "publish" /\ op'[p] = Idle
           \/ /\ op[p].kind # "publish" /\ MovesTo(p, "switching")
              /\ op'[p].cut \in Versions /\ op'[p].number = 0
           \/ MovesTo(p, "cutting") /\ op'[p].cut = op[p].cut /\ op'[p].number <= cuts + 1
    BY <1>0, <1>5, PublishReadOp DEF Numbered, RowOf
  <2>2. ShapeOf(op'[p]) /\ NumberOf(op'[p], cuts)
    BY <1>0, <1>3, <2>1 DEF ShapeOf, NumberOf, MovesTo, Versions
  <2>3. QED
    BY <1>0, <1>2, <1>5, <2>1, <2>2
       DEF PublishRead, aptlyVars, rowVars, histVars, TypeOK, Numbered
<1>6. ASSUME NEW p \in Proc, PublishCut(p)
      PROVE  Basic'
  <2>1. /\ Others(p) /\ op[p].step = "cutting" /\ MovesTo(p, "recording")
        /\ cuts' = cuts + 1 /\ cuts' \in Cut
        /\ op'[p].cut = cuts' /\ op'[p].number = op[p].number
        /\ op'[p].filtered = op[p].filtered
    BY <1>0, <1>6, PublishCutOp
  <2>2. ShapeOf(op'[p]) /\ NumberOf(op'[p], cuts')
    BY <1>0, <1>3, <2>1 DEF ShapeOf, NumberOf, MovesTo
  <2>3. Shape' /\ \A q \in Proc : NumberOf(op'[q], cuts')
    BY <1>0, <2>1, <2>2, OthersBasic
  <2>4. snaps' \subseteq Snapshot
    <3>1. op[p].filtered \in BOOLEAN
      BY <1>3, OpFields
    <3>2. Elements(Names(cuts', op[p].filtered)) \subseteq Snapshot
      BY <2>1, <3>1, NamesOfCut, ElementsIn
    <3>3. QED
      BY <1>0, <1>6, <3>2 DEF PublishCut, TypeOK
  <2>5. TypeOK'
    BY <1>0, <1>6, <2>1, <2>4 DEF PublishCut, TypeOK, histVars, Others, Cut
  <2>6. \A c \in Cut : RowOf(version'[c], cuts')
    BY <1>0, <1>6, <2>1 DEF PublishCut, Numbered, Version, RowOf
  <2>7. QED
    BY <2>3, <2>5, <2>6 DEF Basic, Numbered
<1>7. ASSUME NEW p \in Proc, NEW made \in 0..(2 * Repos), PublishFails(p, made)
      PROVE  Basic'
  <2>1. Others(p) /\ op'[p] = Idle
    BY <1>0, <1>7, EndOp DEF PublishFails
  <2>2. cuts' = cuts + 1 /\ cuts' \in Cut /\ cuts' \in Nat /\ cuts' \in 0..MaxCuts
    BY <1>0, <1>7 DEF PublishFails, Cut, TypeOK
  <2>3. Shape' /\ \A q \in Proc : NumberOf(op'[q], cuts')
    BY <1>0, <2>1, <2>2, IdleBasic, OthersBasic
  <2>4. snaps' \subseteq Snapshot
    <3>1. op[p].filtered \in BOOLEAN
      BY <1>3, OpFields
    <3> DEFINE names == Names(cuts', op[p].filtered)
    <3>2. names \in Seq(Snapshot)
      BY <2>2, <3>1, NamesOfCut
    <3>3. made <= Len(Names(cuts + 1, op[p].filtered)) /\ made \in Nat
      BY <1>7, BoundAssumption DEF PublishFails
    <3>4. made <= Len(names)
      BY <2>2, <3>3
    <3>5. snaps' = snaps \cup {names[i] : i \in 1..made}
      BY <1>7 DEF PublishFails
    <3> HIDE DEF names
    <3>6. \A i \in 1..made : names[i] \in Snapshot
      BY <3>2, <3>3, <3>4
    <3>7. QED
      BY <1>0, <3>5, <3>6 DEF TypeOK
  <2>5. lease' \in [Env -> Proc \cup {Free, Stale}]
    BY <1>3, <1>7 DEF PublishFails
  <2>6. TypeOK'
    BY <1>0, <1>7, <2>1, <2>2, <2>4, <2>5 DEF PublishFails, TypeOK, histVars, Others
  <2>7. \A c \in Cut : RowOf(version'[c], cuts')
    BY <1>0, <1>7, <2>2 DEF PublishFails, Numbered, Version, RowOf
  <2>8. QED
    BY <2>3, <2>6, <2>7 DEF Basic, Numbered
<1>8. ASSUME NEW p \in Proc, PublishRecord(p)
      PROVE  Basic'
  <2>1. op[p].step = "recording" /\ op[p].cut \in Cut /\ op[p].filtered \in BOOLEAN
    BY <1>3, <1>8, OpFields DEF PublishRecord, ShapeOf
  <2>2. /\ Others(p)
        /\ \/ op[p].kind = "publish" /\ op'[p] = Idle
           \/ /\ op[p].kind # "publish" /\ MovesTo(p, "switching")
              /\ op'[p].cut = op[p].cut /\ op'[p].number = 0
    BY <1>0, <1>8, <2>1, PublishRecordOp
  <2>3. ShapeOf(op'[p]) /\ NumberOf(op'[p], cuts)
    BY <1>0, <1>3, <2>1, <2>2 DEF ShapeOf, NumberOf, MovesTo
  <2> DEFINE row == [there |-> TRUE, number |-> op[p].number, filtered |-> op[p].filtered,
                     names |-> Names(op[p].cut, op[p].filtered)]
  <2>4. row \in Version /\ RowOf(row, cuts)
    BY <1>0, <1>3, <2>1, NamesOfCut, OpFields DEF Version, NumberOf, RowOf
  <2>5. version' = [version EXCEPT ![op[p].cut] = row]
    BY <1>8 DEF PublishRecord
  <2> HIDE DEF row
  <2>6. version' \in [Cut -> Version] /\ \A c \in Cut : RowOf(version'[c], cuts)
    BY <1>0, <2>4, <2>5 DEF TypeOK, Numbered
  <2>7. QED
    BY <1>0, <1>2, <1>8, <2>2, <2>3, <2>6 DEF PublishRecord, aptlyVars, histVars, TypeOK
<1>9. ASSUME NEW p \in Proc, PublishClashes(p) \/ SwitchFails(p) \/ CommitFails(p)
      PROVE  Basic'
  <2>1. Others(p) /\ op'[p] = Idle
    BY <1>0, <1>9, EndOp DEF PublishClashes, SwitchFails, CommitFails
  <2>2. /\ lease' \in [Env -> Proc \cup {Free, Stale}]
        /\ UNCHANGED <<aptlyVars, rowVars, histVars>>
    BY <1>3, <1>9 DEF PublishClashes, SwitchFails, CommitFails
  <2>3. QED
    BY <1>0, <1>2, <1>3, <2>1, <2>2 DEF aptlyVars, rowVars, histVars, TypeOK, Numbered
<1>10. ASSUME NEW p \in Proc, NEW e \in Env, Joins(p, e), ShapeOf(op'[p]),
              UNCHANGED <<aptlyVars, version, cuts, ecv, current, audit, raced, torn>>,
              assigns' \in 0..MaxAssigns, lease' \in [Env -> Proc \cup {Free, Stale}],
              blurred' \subseteq Env
       PROVE  Basic'
  <2>1. NumberOf(op'[p], cuts)
    <3>1. op'[p].number = 0 /\ 0 <= cuts + 1 /\ 0 <= cuts
      BY <1>0, <1>10 DEF Joins
    <3>2. QED
      BY <3>1 DEF NumberOf
  <2>2. Shape' /\ \A q \in Proc : NumberOf(op'[q], cuts')
    BY <1>0, <1>10, <2>1, OpsBasic DEF Joins
  <2>3. TypeOK'
    BY <1>0, <1>10 DEF TypeOK, Joins, aptlyVars
  <2>4. QED
    BY <1>0, <1>10, <2>2, <2>3 DEF Basic, Numbered
<1>11. ASSUME NEW p \in Proc, NEW e \in Env, NEW c \in Cut, Assign(p, e, c)
       PROVE  Basic'
  <2>1. /\ Joins(p, e) /\ c \in Versions /\ assigns' = assigns + 1
        /\ op'[p].kind = "assign" /\ op'[p].step = "switching" /\ op'[p].cut = c
        /\ op'[p].ecv # 0
    BY <1>0, <1>11, AssignOp
  <2>2. ShapeOf(op'[p])
    BY <2>1, HolderAssumption DEF ShapeOf, Joins
  <2>3. assigns' \in 0..MaxAssigns
    BY <1>0, <1>11, <2>1 DEF Assign, TypeOK
  <2>4. QED
    BY <1>0, <1>10, <1>11, <2>1, <2>2, <2>3 DEF Assign, BlurredBy, TypeOK
<1>12. ASSUME NEW p \in Proc, NEW e \in Env, NEW c \in 0..MaxCuts, Promote(p, e, c)
       PROVE  Basic'
  <2>1. /\ Joins(p, e)
        /\ op'[p].kind = "promote" /\ op'[p].ecv = ecv[e] /\ op'[p].cut = c
        /\ ecv[e] # 0
        /\ IF c = 0 THEN op'[p].step = "reading"
           ELSE op'[p].step = "switching" /\ c \in Versions
    BY <1>0, <1>12, PromoteOp
  <2>2. ShapeOf(op'[p])
    BY <2>1, HolderAssumption DEF ShapeOf, Joins, Versions
  <2>3. QED
    BY <1>0, <1>10, <1>12, <2>1, <2>2 DEF Promote, BlurredBy, TypeOK, aptlyVars, rowVars
<1>13. ASSUME NEW p \in Proc, NEW e \in Env, NEW c \in Cut, Rollback(p, e, c)
       PROVE  Basic'
  <2>1. /\ Joins(p, e) /\ c \in Versions
        /\ op'[p].kind = "rollback" /\ op'[p].step = "switching"
        /\ op'[p].ecv = ecv[e] /\ op'[p].cut = c /\ ecv[e] # 0
    BY <1>0, <1>13, RollbackOp
  <2>2. ShapeOf(op'[p])
    BY <2>1, HolderAssumption DEF ShapeOf, Joins
  <2>3. QED
    BY <1>0, <1>10, <1>13, <2>1, <2>2 DEF Rollback, BlurredBy, TypeOK, aptlyVars, rowVars
<1>14. ASSUME NEW p \in Proc, Switch(p)
       PROVE  Basic'
  <2>1. op[p].step = "switching" /\ op[p].env \in Env /\ op[p].cut \in Cut
    BY <1>3, <1>14 DEF Switch, ShapeOf
  <2>2. /\ Others(p) /\ MovesTo(p, "committing")
        /\ op'[p].cut = op[p].cut /\ op'[p].number = op[p].number
    BY <1>0, <1>14, GotoOp DEF Switch, Step
  <2>3. ShapeOf(op'[p]) /\ NumberOf(op'[p], cuts)
    BY <1>3, <2>1, <2>2 DEF ShapeOf, NumberOf, MovesTo
  <2>4. served' \in [Env -> SUBSET Snapshot]
    BY <1>0, <1>3, <1>14, <2>1 DEF Switch, Published, FinalOf, TypeOK
  <2>5. QED
    BY <1>0, <1>2, <1>14, <2>2, <2>3, <2>4 DEF Switch, rowVars, histVars, TypeOK, Numbered
<1>15. ASSUME NEW p \in Proc, SwitchLate(p)
       PROVE  Basic'
  <2>1. op[p].step = "switching" /\ op[p].env \in Env /\ op[p].cut \in Cut
    BY <1>3, <1>15 DEF SwitchLate, ShapeOf
  <2>2. Others(p) /\ op'[p] = Idle
    BY <1>0, <1>15, EndOp DEF SwitchLate
  <2>3. served' \in [Env -> SUBSET Snapshot]
    BY <1>0, <1>3, <1>15, <2>1 DEF SwitchLate, Published, FinalOf, TypeOK
  <2>4. lease' \in [Env -> Proc \cup {Free, Stale}] /\ blurred' \subseteq Env
    BY <1>0, <1>3, <1>15, <2>1 DEF SwitchLate, TypeOK
  <2>5. QED
    BY <1>0, <1>2, <1>3, <1>15, <2>2, <2>3, <2>4 DEF SwitchLate, rowVars, TypeOK, Numbered
<1>16. ASSUME NEW p \in Proc, Commit(p)
       PROVE  Basic'
  <2>1. /\ op[p].step = "committing" /\ op[p].env \in Env /\ op[p].cut \in Cut
        /\ op[p].ecv \in 0..MaxAssigns /\ op[p].cut \in 0..MaxCuts
    BY <1>3, <1>16, OpFields DEF Commit, ShapeOf
  <2>2. Others(p) /\ op'[p] = Idle
    BY <1>0, <1>16, EndOp DEF Commit
  <2>3. op[p].ecv \in 1..MaxAssigns
    BY <1>0, <1>3, <2>1, HolderAssumption DEF ShapeOf
  <2>4. audit' \subseteq (1..MaxAssigns) \X Cut
    BY <1>0, <1>16, <2>1, <2>3 DEF Commit, TypeOK
  <2>5. ecv' \in [Env -> 0..MaxAssigns] /\ current' \in [Env -> 0..MaxCuts]
    BY <1>0, <1>16, <2>1 DEF Commit, TypeOK
  <2>6. /\ lease' \in [Env -> Proc \cup {Free, Stale}]
        /\ blurred' \subseteq Env /\ raced' \subseteq Cut
    BY <1>0, <1>3, <1>16, <2>1 DEF Commit, TypeOK
  <2>7. QED
    BY <1>0, <1>2, <1>3, <1>16, <2>2, <2>4, <2>5, <2>6
       DEF Commit, aptlyVars, TypeOK, Numbered
<1>17. ASSUME NEW e \in Env, Unassign(e) \/ Lapse(e)
       PROVE  Basic'
  <2>1. UNCHANGED <<op, version, cuts>>
    BY <1>17 DEF Unassign, Lapse, aptlyVars, rowVars
  <2>2. TypeOK'
    BY <1>0, <1>17 DEF Unassign, Lapse, aptlyVars, rowVars, histVars, TypeOK
  <2>3. QED
    BY <1>0, <2>1, <2>2 DEF Basic, Shape, Numbered
<1>18. ASSUME NEW p \in Proc, NEW c \in Cut, Delete(p, c)
       PROVE  Basic'
  <2>1. /\ Others(p)
        /\ op'[p].kind = "delete" /\ op'[p].step = "queued" /\ op'[p].env = NoEnv
        /\ op'[p].cut = c /\ op'[p].number = 0
    BY <1>0, <1>18, DeleteOp
  <2>2. ShapeOf(op'[p]) /\ NumberOf(op'[p], cuts)
    BY <1>0, <2>1 DEF ShapeOf, NumberOf
  <2>3. QED
    BY <1>0, <1>2, <1>18, <2>1, <2>2
       DEF Delete, aptlyVars, rowVars, histVars, TypeOK, Numbered
<1>19. ASSUME NEW p \in Proc, DeleteStart(p)
       PROVE  Basic'
  <2>0. ASSUME op'[p].todo = version[op[p].cut].names, op[p].cut \in Versions
        PROVE  op'[p].todo # <<>>
    BY <1>0, <2>0 DEF Numbered, RowOf, Versions
  <2>1. /\ Others(p) /\ op[p].step = "queued"
        /\ \/ op'[p] = Idle
           \/ /\ MovesTo(p, "dropping")
              /\ op'[p].cut = op[p].cut /\ op'[p].number = op[p].number
              /\ op'[p].todo # <<>>
    BY <1>0, <1>19, <2>0, DeleteStartOp
  <2>2. ShapeOf(op'[p]) /\ NumberOf(op'[p], cuts)
    BY <1>0, <1>3, <2>1 DEF ShapeOf, NumberOf, MovesTo
  <2>3. QED
    BY <1>0, <1>2, <1>19, <2>1, <2>2
       DEF DeleteStart, aptlyVars, rowVars, histVars, TypeOK, Numbered
<1>20. ASSUME NEW p \in Proc, Drop(p)
       PROVE  Basic'
  <2>1. op[p].step = "dropping" /\ op[p].todo # <<>>
    BY <1>3, <1>20 DEF Drop, ShapeOf
  <2>2. /\ Others(p) /\ op'[p].cut = op[p].cut /\ op'[p].number = op[p].number
        /\ \/ MovesTo(p, "dropping") /\ op'[p].todo # <<>>
           \/ MovesTo(p, "erasing") /\ op'[p].todo = <<>>
    BY <1>0, <1>20, <2>1, DropOp
  <2>3. ShapeOf(op'[p]) /\ NumberOf(op'[p], cuts)
    BY <1>3, <2>1, <2>2 DEF ShapeOf, NumberOf, MovesTo
  <2>4. Shape' /\ (\A q \in Proc : NumberOf(op'[q], cuts')) /\ cuts' = cuts
    BY <1>0, <1>20, <2>2, <2>3, OthersBasic DEF Drop, rowVars
  <2>5. TypeOK'
    BY <1>0, <1>20, <2>2 DEF Drop, rowVars, histVars, TypeOK, Others
  <2>6. QED
    BY <1>0, <1>20, <2>4, <2>5 DEF Basic, Numbered, Drop, rowVars
<1>21. ASSUME NEW p \in Proc, DropFails(p) \/ DropLate(p) \/ Erase(p)
       PROVE  Basic'
  <2>1. /\ op[p].cut \in Cut /\ op[p].todo \in Seq(Snapshot)
        /\ DropFails(p) \/ DropLate(p) => op[p].todo # <<>>
    BY <1>3, <1>21, OpFields DEF DropFails, DropLate, Erase, ShapeOf
  <2>2. Others(p) /\ op'[p] = Idle
    BY <1>0, <1>21, EndOp DEF DropFails, DropLate, Erase
  <2>3. Shape' /\ (\A q \in Proc : NumberOf(op'[q], cuts')) /\ cuts' = cuts
    BY <1>0, <1>3, <1>21, <2>2, OthersBasic DEF DropFails, DropLate, Erase
  <2>4. \/ version' = version
        \/ /\ version' = [version EXCEPT ![op[p].cut].names = op[p].todo]
           /\ op[p].todo # <<>>
        \/ version' = [version EXCEPT ![op[p].cut] = NoVersion]
    BY <1>21, <2>1 DEF DropFails, DropLate, Erase
  <2>5. NoVersion \in Version /\ RowOf(NoVersion, cuts)
    BY <1>0 DEF NoVersion, Version, RowOf
  <2>6. version' \in [Cut -> Version] /\ \A c \in Cut : RowOf(version'[c], cuts)
    <3> DEFINE row == [version[op[p].cut] EXCEPT !.names = op[p].todo]
    <3>1. /\ row \in Version /\ row.number = version[op[p].cut].number
          /\ row.names = op[p].todo
      BY <1>0, <2>1 DEF Version
    <3>2. \/ version' = version
          \/ version' = [version EXCEPT ![op[p].cut] = row] /\ row.names # <<>>
          \/ version' = [version EXCEPT ![op[p].cut] = NoVersion]
      BY <2>4
    <3> HIDE DEF row
    <3>3. QED
      BY <1>0, <2>1, <2>5, <3>1, <3>2 DEF TypeOK, Numbered, RowOf
  <2>7. snaps' \subseteq Snapshot /\ torn' \subseteq Cut
    BY <1>0, <1>21, <2>1 DEF DropFails, DropLate, Erase, TypeOK, aptlyVars, histVars
  <2>8. UNCHANGED <<served, ecv, assigns, current, audit, lease, blurred, raced>>
    BY <1>21 DEF DropFails, DropLate, Erase, aptlyVars, histVars
  <2>9. TypeOK'
    BY <1>0, <2>2, <2>3, <2>6, <2>7, <2>8 DEF TypeOK, Others
  <2>10. QED
    BY <2>3, <2>6, <2>9 DEF Basic, Numbered
<1>22. ASSUME NEW row \in audit, Purge(row)
       PROVE  Basic'
  <2>1. UNCHANGED <<op, version, cuts>>
    BY <1>22 DEF Purge
  <2>2. TypeOK'
    BY <1>0, <1>22 DEF Purge, aptlyVars, histVars, TypeOK
  <2>3. QED
    BY <1>0, <2>1, <2>2 DEF Basic, Shape, Numbered
<1>23. ASSUME NEW p \in Proc, Crash(p)
       PROVE  Basic'
  <2>1. Others(p) /\ op'[p] = Idle
    BY <1>0, <1>23, EndOp DEF Crash
  <2>2. /\ op[p].step = "committing" => op[p].env \in Env
        /\ op[p].step \in {"dropping", "erasing"} => op[p].cut \in Cut
    BY <1>3 DEF ShapeOf
  <2>3. lease' \in [Env -> Proc \cup {Free, Stale}]
    BY <1>0, <1>23 DEF Crash, TypeOK
  <2>4. blurred' \subseteq Env /\ torn' \subseteq Cut
    BY <1>0, <1>23, <2>2 DEF Crash, TypeOK
  <2>5. QED
    BY <1>0, <1>2, <1>3, <1>23, <2>1, <2>3, <2>4
       DEF Crash, aptlyVars, rowVars, TypeOK, Numbered
<1>24. QED
  BY <1>1, <1>4, <1>5, <1>6, <1>7, <1>8, <1>9, <1>11, <1>12, <1>13, <1>14, <1>15, <1>16,
     <1>17, <1>18, <1>19, <1>20, <1>21, <1>22, <1>23 DEF Next


\* Every variable has its type: in particular the counters behind names and
\* ids stay in their bounds, and an operation's fields are those of its kind.
THEOREM TypeCorrect == Spec => []TypeOK
<1>1. Basic /\ [Next]_vars => Basic'
  BY NextBasic
<1>2. Basic => TypeOK
  BY DEF Basic
<1>3. QED
  BY InitBasic, <1>1, <1>2, PTL DEF Spec

-----------------------------------------------------------------------------
(* Versions and their snapshots: from the cut to the row, and from the row   *)
(* to the last snapshot dropped.                                             *)

\* Cuts are numbered as they come.
Counted ==
  /\ \A row \in audit : row[2] <= cuts
  /\ \A p \in Proc : op[p].cut <= cuts
  /\ \A c \in Versions : c <= cuts
  /\ \A s \in snaps : s[1] <= cuts
\* What is about to be recorded is there, and nobody else's.
Recording ==
  \A p \in Proc : op[p].step = "recording" =>
    /\ op[p].cut \notin Versions
    /\ \A row \in audit : row[2] # op[p].cut
    /\ SnapsOf(op[p].cut) = Elements(Names(op[p].cut, op[p].filtered))
    /\ \A q \in Proc \ {p} : op[q].step = "recording" => op[q].cut # op[p].cut
\* A row's names are different ones of its own cut; aptly has no others.
Named ==
  \A c \in Versions :
    /\ Distinct(version[c].names)
    /\ \A s \in Elements(version[c].names) : s[1] = c
    /\ SnapsOf(c) \subseteq Elements(version[c].names)
    /\ c \notin torn /\ Deleting(c) = {} => Elements(version[c].names) = SnapsOf(c)
\* p takes version c apart, alone, and is as far as its list says.
DroppingBy(p, c) ==
  /\ c \in Versions
  /\ Deleting(c) = {p}
  /\ Distinct(op[p].todo)
  /\ \A s \in Elements(op[p].todo) : s[1] = c
  /\ SnapsOf(c) \subseteq Elements(op[p].todo)
  /\ c \notin torn => Elements(op[p].todo) = SnapsOf(c)
  /\ op[p].step = "erasing" => op[p].todo = <<>>
  /\ \A row \in audit : row[2] = c => c \in raced
Dropping == \A c \in Cut : \A p \in Deleting(c) : DroppingBy(p, c)
\* What was ever promoted has its row and what it publishes.
Kept ==
  \A row \in audit : row[2] \notin raced =>
    row[2] \in Versions /\ FinalOf(row[2]) \subseteq SnapsOf(row[2])
\* A version that is gone has left nothing to switch to.
Gone ==
  \A p \in Proc : op[p].step \in {"switching", "committing"} /\ op[p].cut \notin Versions
                  => SnapsOf(op[p].cut) = {}
Store == Counted /\ Recording /\ Named /\ Dropping /\ Kept /\ Gone

LEMMA FinalOwn ==
  ASSUME NEW c, NEW filtered
  PROVE  /\ \A s \in Final(c, filtered) : s[1] = c
         /\ Final(c, filtered) \subseteq snaps <=> Final(c, filtered) \subseteq SnapsOf(c)
BY DEF Final, SnapsOf

LEMMA InitStore == Init => Store
<1> SUFFICES ASSUME Init PROVE Store
  OBVIOUS
<1>1. Versions = {} /\ snaps = {} /\ audit = {} /\ cuts = 0
  BY DEF Init, Versions, NoVersion
<1>2. \A p \in Proc : op[p].step = "idle" /\ op[p].cut = 0
  BY IdleFields DEF Init
<1>3. \A c \in Cut : Deleting(c) = {}
  BY <1>2 DEF Deleting
<1>4. QED
  BY <1>1, <1>2, <1>3 DEF Store, Counted, Recording, Named, Dropping, Kept, Gone

\* Nothing happens in aptly, no version comes or goes; q works on a version that
\* is there, or goes on; who stops taking a version apart says that it is torn.
QuietOp(q) ==
  /\ op'[q].cut <= cuts
  /\ op'[q].step = "recording" =>
       op[q].step = "recording" /\ op'[q].cut = op[q].cut /\ op'[q].filtered = op[q].filtered
  /\ op'[q].step \in {"switching", "committing"} =>
       \/ op'[q].cut \in Versions
       \/ op[q].step \in {"switching", "committing"} /\ op'[q].cut = op[q].cut
  /\ op'[q].step \in {"dropping", "erasing"} =>
       op'[q].step = op[q].step /\ op'[q].cut = op[q].cut /\ op'[q].todo = op[q].todo
  /\ op[q].step \in {"dropping", "erasing"} =>
       op'[q].step \in {"dropping", "erasing"} \/ op[q].cut \in torn'

LEMMA QuietStore ==
  ASSUME Store, UNCHANGED <<snaps, version, cuts>>, audit' \subseteq audit,
         raced \subseteq raced', torn \subseteq torn', \A q \in Proc : QuietOp(q)
  PROVE  Store'
<1>1. /\ \A c : SnapsOf(c)' = SnapsOf(c)
      /\ \A c : FinalOf(c)' = FinalOf(c)
      /\ Versions' = Versions
  BY DEF SnapsOf, FinalOf, Versions
<1>2. ASSUME NEW c
      PROVE  /\ Deleting(c)' \subseteq Deleting(c)
             /\ Deleting(c) # {} => Deleting(c)' # {} \/ c \in torn'
             /\ \A q \in Deleting(c)' : op'[q].step = op[q].step /\ op'[q].todo = op[q].todo
  BY DEF Deleting, QuietOp
<1>3. Counted'
  BY <1>1 DEF Store, Counted, QuietOp
<1>4. Recording'
  BY <1>1 DEF Store, Recording, QuietOp
<1>5. Named'
  BY <1>1, <1>2 DEF Store, Named
<1>6. Dropping'
  <2> SUFFICES ASSUME NEW c \in Cut, NEW p \in Deleting(c)'
               PROVE  DroppingBy(p, c)'
    BY DEF Dropping
  <2>1. p \in Deleting(c) /\ DroppingBy(p, c)
    BY <1>2 DEF Store, Dropping
  <2>2. QED
    BY <1>1, <1>2, <2>1 DEF DroppingBy
<1>7. Kept'
  BY <1>1 DEF Store, Kept
<1>8. Gone'
  BY <1>1 DEF Store, Gone, QuietOp
<1>9. QED
  BY <1>3, <1>4, <1>5, <1>6, <1>7, <1>8 DEF Store

\* A step of p alone that leaves the versions that are there alone.
LEMMA QuietStep ==
  ASSUME Store, NEW p \in Proc, Others(p), QuietOp(p),
         UNCHANGED <<snaps, version, cuts>>, audit' \subseteq audit,
         raced \subseteq raced', torn \subseteq torn'
  PROVE  Store'
<1>1. ASSUME NEW q \in Proc \ {p}
      PROVE  QuietOp(q)
  BY DEF Others, QuietOp, Store, Counted
<1>2. QED
  BY <1>1, QuietStore

\* Snapshots are made for a new cut, by p, which goes on to record them or gives up.
LEMMA CutStore ==
  ASSUME TypeOK, Store, NEW p \in Proc, Others(p), op[p].step = "cutting",
         UNCHANGED <<version, audit, raced, torn>>,
         cuts' = cuts + 1, snaps \subseteq snaps',
         \A s \in snaps' : s \in snaps \/ s[1] = cuts',
         op'[p].cut <= cuts',
         \/ op'[p].step = "idle"
         \/ /\ op'[p].step = "recording" /\ op'[p].cut = cuts'
            /\ Elements(Names(cuts', op'[p].filtered)) = {s \in snaps' : s[1] = cuts'}
  PROVE  Store'
<1>1. /\ cuts \in Nat /\ audit \subseteq (1..MaxAssigns) \X Cut
      /\ \A q \in Proc : op[q].cut \in Nat
      /\ \A s \in snaps : s[1] \in Nat
      /\ Cut \subseteq Nat
  BY BoundAssumption, OpFields DEF TypeOK, Snapshot, Cut
<1>2. /\ \A c \in Nat : c <= cuts => SnapsOf(c)' = SnapsOf(c)
      /\ \A c : FinalOf(c)' = FinalOf(c)
      /\ Versions' = Versions /\ Versions \subseteq Cut
      /\ \A c : Deleting(c)' = Deleting(c)
  <2>1. \A c \in Nat : c <= cuts => c # cuts'
    BY <1>1
  <2>2. \A c \in Nat : c <= cuts => SnapsOf(c)' = SnapsOf(c)
    BY <2>1 DEF SnapsOf
  <2>3. (\A c : FinalOf(c)' = FinalOf(c)) /\ Versions' = Versions /\ Versions \subseteq Cut
    BY DEF FinalOf, Versions
  <2>4. \A c : Deleting(c)' = Deleting(c)
    BY DEF Deleting, Others
  <2>5. QED
    BY <2>2, <2>3, <2>4
<1>0. /\ \A row \in audit : row[2] \in Nat /\ row[2] <= cuts
      /\ \A c \in Versions : c \in Nat /\ c <= cuts
      /\ \A s \in snaps : s[1] \in Nat /\ s[1] <= cuts
      /\ \A q \in Proc : op[q].cut \in Nat /\ op[q].cut <= cuts
      /\ ~(cuts' <= cuts)
  <2>1. \A row \in audit : row[2] \in Nat
    BY <1>1
  <2>2. \A c \in Versions : c \in Nat
    BY <1>1, <1>2
  <2>3. Counted
    BY DEF Store
  <2>4. ~(cuts + 1 <= cuts)
    BY <1>1
  <2>5. QED
    BY <1>1, <2>1, <2>2, <2>3, <2>4 DEF Counted
<1>3. Counted'
  <2>1. /\ \A row \in audit' : row[2] \in Nat /\ row[2] <= cuts
        /\ \A c \in Versions' : c \in Nat /\ c <= cuts
        /\ \A s \in snaps' : s[1] = cuts' \/ (s[1] \in Nat /\ s[1] <= cuts)
    BY <1>0, <1>1, <1>2
  <2>2. \A q \in Proc \ {p} : op'[q].cut \in Nat /\ op'[q].cut <= cuts
    BY <1>0 DEF Others
  <2>3. \A n \in Nat : n <= cuts => n <= cuts'
    BY <1>1
  <2>4. \A q \in Proc : op'[q].cut <= cuts'
    BY <2>2, <2>3
  <2>5. cuts' <= cuts'
    BY <1>1
  <2>6. QED
    BY <2>1, <2>3, <2>4, <2>5 DEF Counted
<1>4. Recording'
  <2>1. ASSUME NEW q \in Proc, op'[q].step = "recording"
        PROVE  /\ op'[q].cut \notin Versions
               /\ \A row \in audit : row[2] # op'[q].cut
               /\ SnapsOf(op[q].cut)' = Elements(Names(op'[q].cut, op'[q].filtered))
               /\ \A r \in Proc \ {q} : op'[r].step = "recording" => op'[r].cut # op'[q].cut
    <3>0. /\ \A row \in audit : row[2] \in Nat /\ row[2] <= cuts
          /\ \A c \in Versions' : c \in Nat /\ c <= cuts
          /\ \A r \in Proc \ {p} : op'[r] = op[r] /\ op[r].cut \in Nat /\ op[r].cut <= cuts
          /\ ~(cuts' <= cuts)
      BY <1>0, <1>2 DEF Others
    <3>1. CASE q = p
      <4>1. op'[q].cut = cuts'
        BY <2>1, <3>1
      <4>2. Elements(Names(op'[q].cut, op'[q].filtered)) = {s \in snaps' : s[1] = cuts'}
        BY <2>1, <3>1, <4>1
      <4>3. SnapsOf(op[q].cut)' = Elements(Names(op'[q].cut, op'[q].filtered))
        BY <4>1, <4>2 DEF SnapsOf
      <4>4. /\ op'[q].cut \notin Versions'
            /\ \A row \in audit : row[2] # op'[q].cut
            /\ \A r \in Proc \ {q} : op'[r].cut # op'[q].cut
        BY <3>0, <3>1, <4>1
      <4>5. QED
        <5>1. \A r \in Proc \ {q} : op'[r].step = "recording" => op'[r].cut # op'[q].cut
          BY <4>4
        <5>2. QED
          BY <1>2, <4>3, <4>4, <5>1
    <3>2. CASE q # p
      <4>1. op'[q] = op[q] /\ op[q].step = "recording" /\ op'[q].cut = op[q].cut
        BY <2>1, <3>0, <3>2
      <4>2. SnapsOf(op[q].cut)' = SnapsOf(op[q].cut)
        <5>1. op[q].cut \in Nat /\ op[q].cut <= cuts
          BY <3>0, <3>2
        <5>2. SnapsOf(op[q].cut)' = {s \in snaps' : s[1] = op[q].cut}
          BY <4>1 DEF SnapsOf
        <5>3. op[q].cut # cuts'
          BY <3>0, <5>1
        <5>4. QED
          BY <5>2, <5>3 DEF SnapsOf
      <4>3. \A r \in Proc \ {q} : op'[r].step = "recording" => op'[r].cut # op'[q].cut
        <5>1. op'[p].step = "recording" => op'[p].cut # op'[q].cut
          BY <3>0, <3>2, <4>1
        <5>2. \A r \in Proc \ {q, p} : op'[r].step = "recording" => op'[r].cut # op'[q].cut
          BY <3>0, <4>1 DEF Store, Recording
        <5>3. QED
          BY <5>1, <5>2
      <4>4. QED
        BY <1>2, <4>1, <4>2, <4>3 DEF Store, Recording
    <3>3. QED
      BY <3>1, <3>2
  <2>2. QED
    BY <1>2, <2>1 DEF Recording
<1>5. Named'
  <2> SUFFICES ASSUME NEW d \in Versions'
               PROVE  /\ Distinct(version'[d].names)
                      /\ \A s \in Elements(version'[d].names) : s[1] = d
                      /\ SnapsOf(d)' \subseteq Elements(version'[d].names)
                      /\ d \notin torn' /\ Deleting(d)' = {}
                         => Elements(version'[d].names) = SnapsOf(d)'
    BY DEF Named
  <2>1. d \in Versions /\ SnapsOf(d)' = SnapsOf(d) /\ Deleting(d)' = Deleting(d)
    BY <1>0, <1>2
  <2>2. QED
    BY <2>1 DEF Store, Named
<1>6. Dropping'
  <2> SUFFICES ASSUME NEW c \in Cut, NEW q \in Deleting(c)'
               PROVE  DroppingBy(q, c)'
    BY DEF Dropping
  <2>1. q \in Deleting(c) /\ DroppingBy(q, c) /\ c \in Versions
    BY <1>2 DEF Store, Dropping, DroppingBy
  <2>2. q # p /\ op'[q] = op[q] /\ SnapsOf(c)' = SnapsOf(c)
    BY <1>1, <1>2, <2>1 DEF Store, Counted, Deleting, Others
  <2>3. QED
    BY <1>2, <2>1, <2>2 DEF DroppingBy
<1>7. Kept'
  <2>1. \A row \in audit : row[2] \in Nat /\ row[2] <= cuts
    BY <1>1 DEF Store, Counted
  <2>2. QED
    BY <1>2, <2>1 DEF Store, Kept
<1>8. Gone'
  <2>1. \A q \in Proc : op[q].cut \in Nat /\ op[q].cut <= cuts
    BY <1>1 DEF Store, Counted
  <2>2. QED
    BY <1>2, <2>1 DEF Store, Gone, Others
<1>9. QED
  BY <1>3, <1>4, <1>5, <1>6, <1>7, <1>8 DEF Store

\* The row is committed: it names what was cut for it.
LEMMA RecordStore ==
  ASSUME Basic, Store, NEW p \in Proc, PublishRecord(p)
  PROVE  Store'
<1> DEFINE c == op[p].cut
           names == Names(c, op[p].filtered)
<1>1. TypeOK /\ op[p].step = "recording" /\ c \in Cut /\ op[p].filtered \in BOOLEAN
  BY OpFields DEF Basic, TypeOK, Shape, ShapeOf, PublishRecord
<1>2. /\ Others(p)
      /\ \/ op'[p].step = "idle" /\ op'[p].cut = 0
         \/ op'[p].step = "switching" /\ op'[p].cut = c
  <2>1. \/ op'[p] = Idle
        \/ op'[p].step = "switching" /\ op'[p].cut = c
    BY <1>1, PublishRecordOp DEF MovesTo
  <2>2. Others(p)
    BY <1>1, PublishRecordOp
  <2>3. QED
    BY <2>1, <2>2, IdleFields
<1>3. /\ UNCHANGED <<snaps, audit, raced, torn, cuts>>
      /\ version'[c].there /\ version'[c].names = names
      /\ \A d \in Cut \ {c} : version'[d] = version[d]
      /\ version'[c].filtered = op[p].filtered
  BY <1>1 DEF PublishRecord, TypeOK, aptlyVars, histVars
<1>4. /\ \A d : SnapsOf(d)' = SnapsOf(d)
      /\ Versions' = Versions \cup {c} /\ Versions \subseteq Cut /\ c \notin Versions
      /\ \A d \in Cut \ {c} : FinalOf(d)' = FinalOf(d)
      /\ SnapsOf(c) = Elements(names)
  BY <1>1, <1>3 DEF SnapsOf, Versions, FinalOf, Store, Recording
<1>5. \A d : Deleting(d)' = Deleting(d)
  BY <1>1, <1>2 DEF Deleting, Others
<1>6. /\ Distinct(names) /\ (\A s \in Elements(names) : s[1] = c)
  BY <1>1, NamesOfCut
<1>7. audit \subseteq (1..MaxAssigns) \X Cut
  BY <1>1 DEF TypeOK
<1> HIDE DEF names
<1>8. Counted'
  BY <1>1, <1>2, <1>3, <1>4, BoundAssumption DEF Store, Counted, Others, TypeOK
<1>9. Recording'
  BY <1>1, <1>2, <1>3, <1>4 DEF Store, Recording, Others
<1>10. Named'
  <2> SUFFICES ASSUME NEW d \in Versions'
               PROVE  /\ Distinct(version'[d].names)
                      /\ \A s \in Elements(version'[d].names) : s[1] = d
                      /\ SnapsOf(d)' \subseteq Elements(version'[d].names)
                      /\ d \notin torn' /\ Deleting(d)' = {}
                         => Elements(version'[d].names) = SnapsOf(d)'
    BY DEF Named
  <2>1. CASE d = c
    BY <1>3, <1>4, <1>6, <2>1
  <2>2. CASE d # c
    BY <1>3, <1>4, <1>5, <2>2 DEF Store, Named
  <2>3. QED
    BY <2>1, <2>2
<1>11. Dropping'
  <2> SUFFICES ASSUME NEW d \in Cut, NEW q \in Deleting(d)'
               PROVE  DroppingBy(q, d)'
    BY DEF Dropping
  <2>1. q \in Deleting(d) /\ DroppingBy(q, d)
    BY <1>5 DEF Store, Dropping
  <2>2. q # p /\ op'[q] = op[q]
    BY <1>1, <1>2, <2>1 DEF Deleting, Others
  <2>3. QED
    BY <1>3, <1>4, <1>5, <2>1, <2>2 DEF DroppingBy
<1>12. Kept'
  BY <1>1, <1>3, <1>4, <1>7 DEF Store, Kept, Recording
<1>13. Gone'
  BY <1>2, <1>3, <1>4 DEF Store, Gone, Others
<1>14. QED
  BY <1>8, <1>9, <1>10, <1>11, <1>12, <1>13 DEF Store

\* A promotion is recorded: its version is there, and so are its snapshots unless
\* the promotion is marked as raced.
LEMMA CommitStore ==
  ASSUME Basic, Store, NEW p \in Proc, Commit(p)
  PROVE  Store'
<1> DEFINE c == op[p].cut
<1>1. /\ TypeOK /\ op[p].step = "committing" /\ c \in Versions /\ c \in Cut
      /\ UNCHANGED <<snaps, version, cuts, torn>>
  BY DEF Basic, Shape, ShapeOf, Commit, Intact, Versions, aptlyVars
<1>2. Others(p) /\ op'[p] = Idle
  BY <1>1, EndOp DEF Commit
<1>3. /\ audit' = audit \cup {<<op[p].ecv, c>>}
      /\ raced' = IF Deleting(c) # {} \/ ~(FinalOf(c) \subseteq snaps)
                  THEN raced \cup {c} ELSE raced
  BY DEF Commit, Published, FinalOf
<1>4. /\ \A d : SnapsOf(d)' = SnapsOf(d)
      /\ \A d : FinalOf(d)' = FinalOf(d)
      /\ Versions' = Versions
      /\ FinalOf(c) \subseteq snaps => FinalOf(c) \subseteq SnapsOf(c)
  BY <1>1, FinalOwn DEF SnapsOf, FinalOf, Versions
<1>5. \A d : Deleting(d)' = Deleting(d)
  BY <1>1, <1>2, IdleFields DEF Deleting, Others
<1>6. Counted'
  <2>1. c <= cuts /\ 0 <= cuts
    BY <1>1, BoundAssumption DEF Store, Counted, TypeOK
  <2>2. \A q \in Proc : op'[q].cut <= cuts
    BY <1>2, <2>1, IdleFields DEF Store, Counted, Others
  <2>3. \A row \in audit' : row[2] <= cuts
    BY <1>3, <2>1 DEF Store, Counted
  <2>4. QED
    BY <1>1, <1>4, <2>2, <2>3 DEF Store, Counted
<1>7. Recording'
  BY <1>1, <1>2, <1>3, <1>4, IdleFields DEF Store, Recording, Others
<1>8. Named'
  BY <1>1, <1>4, <1>5 DEF Store, Named
<1>9. Dropping'
  <2> SUFFICES ASSUME NEW d \in Cut, NEW q \in Deleting(d)'
               PROVE  DroppingBy(q, d)'
    BY DEF Dropping
  <2>1. q \in Deleting(d) /\ DroppingBy(q, d)
    BY <1>5 DEF Store, Dropping
  <2>2. q # p /\ op'[q] = op[q]
    BY <1>1, <1>2, <2>1 DEF Deleting, Others
  <2>3. \A row \in audit' : row[2] = d => d \in raced'
    BY <1>3, <2>1 DEF DroppingBy
  <2>4. QED
    BY <1>1, <1>4, <1>5, <2>1, <2>2, <2>3 DEF DroppingBy
<1>10. Kept'
  BY <1>1, <1>3, <1>4 DEF Store, Kept
<1>11. Gone'
  BY <1>1, <1>2, <1>4, IdleFields DEF Store, Gone, Others
<1>12. QED
  BY <1>6, <1>7, <1>8, <1>9, <1>10, <1>11 DEF Store

\* A delete task has made sure that no promotion is on record, and takes the row's
\* names for its list.
LEMMA DeleteStartStore ==
  ASSUME Basic, Store, NEW p \in Proc, DeleteStart(p)
  PROVE  Store'
<1>0. PICK c : c = op[p].cut
  OBVIOUS
<1>1. /\ TypeOK /\ op[p].step = "queued" /\ c \in Cut
      /\ UNCHANGED <<snaps, version, cuts, audit, raced, torn>>
  BY <1>0 DEF Basic, Shape, ShapeOf, DeleteStart, aptlyVars, rowVars, histVars
<1>2. /\ Others(p)
      /\ \/ op'[p] = Idle
         \/ /\ op'[p].step = "dropping" /\ op'[p].cut = c
            /\ c \in Versions /\ op'[p].todo = version[c].names
            /\ Deleting(c) = {} /\ ~EverPromoted(c)
  BY <1>0, <1>1, DeleteStartOp DEF MovesTo
<1>3. CASE op'[p] = Idle
  <2>1. QuietOp(p)
    BY <1>1, <1>3, IdleFields, BoundAssumption DEF QuietOp, TypeOK
  <2>2. QED
    BY <1>1, <1>2, <2>1, QuietStep
<1>4. CASE op'[p] # Idle
  <2>1. /\ \A d : SnapsOf(d)' = SnapsOf(d)
        /\ \A d : FinalOf(d)' = FinalOf(d)
        /\ Versions' = Versions
    BY <1>1 DEF SnapsOf, FinalOf, Versions
  <2>2. Deleting(c)' = {p} /\ \A d \in Cut \ {c} : Deleting(d)' = Deleting(d)
    BY <1>0, <1>1, <1>2, <1>4 DEF Deleting, Others
  <2>3. \A row \in audit : row[2] # c
    <3>1. audit \subseteq (1..MaxAssigns) \X Cut
      BY <1>1 DEF TypeOK
    <3>2. \A i \in 1..MaxAssigns : <<i, c>> \notin audit
      BY <1>2, <1>4 DEF EverPromoted
    <3>3. QED
      BY <3>1, <3>2
  <2>4. Counted'
    BY <1>0, <1>1, <1>2, <1>4, <2>1 DEF Store, Counted, Others
  <2>5. Recording'
    BY <1>0, <1>1, <1>2, <1>4, <2>1 DEF Store, Recording, Others
  <2>6. Named'
    <3> SUFFICES ASSUME NEW d \in Versions'
                 PROVE  /\ Distinct(version'[d].names)
                        /\ \A s \in Elements(version'[d].names) : s[1] = d
                        /\ SnapsOf(d)' \subseteq Elements(version'[d].names)
                        /\ d \notin torn' /\ Deleting(d)' = {}
                           => Elements(version'[d].names) = SnapsOf(d)'
      BY DEF Named
    <3>1. d \in Cut /\ d \in Versions
      BY <2>1 DEF Versions
    <3>2. Deleting(d)' = {} => Deleting(d) = {}
      BY <2>2, <3>1
    <3>3. QED
      BY <1>1, <2>1, <3>1, <3>2 DEF Store, Named
  <2>7. Dropping'
    <3> SUFFICES ASSUME NEW d \in Cut, NEW q \in Deleting(d)'
                 PROVE  DroppingBy(q, d)'
      BY DEF Dropping
    <3>1. CASE d = c
      <4>1. q = p
        BY <2>2, <3>1
      <4>2. /\ Distinct(version[c].names)
            /\ \A s \in Elements(version[c].names) : s[1] = c
            /\ SnapsOf(c) \subseteq Elements(version[c].names)
            /\ c \notin torn => Elements(version[c].names) = SnapsOf(c)
        BY <1>2, <1>4 DEF Store, Named
      <4>3. QED
        BY <1>1, <1>2, <1>4, <2>1, <2>2, <2>3, <3>1, <4>1, <4>2 DEF DroppingBy
    <3>2. CASE d # c
      <4>1. q \in Deleting(d) /\ DroppingBy(q, d)
        BY <2>2, <3>2 DEF Store, Dropping
      <4>2. q # p /\ op'[q] = op[q]
        BY <1>1, <1>2, <4>1 DEF Deleting, Others
      <4>3. QED
        BY <1>1, <2>1, <2>2, <3>2, <4>1, <4>2 DEF DroppingBy
    <3>3. QED
      BY <3>1, <3>2
  <2>8. Kept'
    BY <1>1, <2>1 DEF Store, Kept
  <2>9. Gone'
    BY <1>0, <1>1, <1>2, <1>4, <2>1 DEF Store, Gone, Others
  <2>10. QED
    BY <2>4, <2>5, <2>6, <2>7, <2>8, <2>9 DEF Store
<1>5. QED
  BY <1>3, <1>4

\* p's task goes on or stops: what is left of version c is on the list todo, which
\* p still has, or which is on the row now.
LEMMA TakingStore ==
  ASSUME Basic, Store, NEW p \in Proc, NEW c \in Cut, p \in Deleting(c), Others(p),
         UNCHANGED <<cuts, audit, raced>>,
         snaps' \subseteq snaps, \A s \in snaps : s \in snaps' \/ s[1] = c,
         torn \subseteq torn',
         NEW todo, Distinct(todo), Elements(todo) \subseteq Elements(op[p].todo),
         SnapsOf(c)' \subseteq Elements(todo),
         c \notin torn' => Elements(todo) = SnapsOf(c)',
         Versions' = Versions,
         \A d \in Cut : version'[d].filtered = version[d].filtered,
         \A d \in Cut \ {c} : version'[d] = version[d],
         op'[p].cut <= cuts,
         \/ /\ op'[p].step \in {"dropping", "erasing"} /\ op'[p].cut = c
            /\ op'[p].todo = todo /\ version' = version
            /\ op'[p].step = "erasing" => todo = <<>>
         \/ /\ op'[p].step = "idle"
            /\ \/ version'[c].names = todo
               \/ version' = version /\ c \in torn'
  PROVE  Store'
<1>1. /\ op[p].step \in {"dropping", "erasing"} /\ op[p].cut = c /\ DroppingBy(p, c)
      /\ c \in Versions /\ Versions \subseteq Cut
      /\ audit \subseteq (1..MaxAssigns) \X Cut
  BY DEF Deleting, Store, Dropping, DroppingBy, Basic, TypeOK, Versions
<1>2. /\ \A d : d # c => SnapsOf(d)' = SnapsOf(d)
      /\ SnapsOf(c)' \subseteq SnapsOf(c)
      /\ \A d \in Cut : FinalOf(d)' = FinalOf(d)
  <2>1. ASSUME NEW d, d # c
        PROVE  SnapsOf(d)' = SnapsOf(d)
    BY <2>1 DEF SnapsOf
  <2>2. SnapsOf(c)' \subseteq SnapsOf(c)
    BY DEF SnapsOf
  <2>3. \A d \in Cut : FinalOf(d)' = FinalOf(d)
    BY DEF FinalOf
  <2>4. QED
    BY <2>1, <2>2, <2>3
<1>3. /\ \A d \in Cut \ {c} : Deleting(d)' = Deleting(d)
      /\ IF op'[p].step = "idle" THEN Deleting(c)' = {} ELSE Deleting(c)' = {p}
  <2>1. Deleting(c) = {p}
    BY <1>1 DEF DroppingBy
  <2>2. QED
    BY <1>1, <2>1 DEF Deleting, Others
<1>4. Counted'
  BY <1>1 DEF Store, Counted, Others
<1>5. Recording'
  <2>1. ASSUME NEW q \in Proc, op'[q].step = "recording"
        PROVE  /\ q # p /\ op'[q] = op[q] /\ op[q].cut # c
               /\ SnapsOf(op[q].cut) = {s \in snaps' : s[1] = op[q].cut}
    <3>1. q # p /\ op'[q] = op[q]
      BY <2>1 DEF Others
    <3>2. op[q].cut # c
      BY <1>1, <2>1, <3>1 DEF Store, Recording
    <3>3. SnapsOf(op[q].cut) = {s \in snaps' : s[1] = op[q].cut}
      BY <3>2 DEF SnapsOf
    <3>4. QED
      BY <3>1, <3>2, <3>3
  <2>2. ASSUME NEW q \in Proc, op'[q].step = "recording"
        PROVE  SnapsOf(op[q].cut)' = SnapsOf(op[q].cut)
    <3>1. SnapsOf(op[q].cut)' = {s \in snaps' : s[1] = op[q].cut}
      BY <2>1, <2>2 DEF SnapsOf
    <3>2. QED
      BY <2>1, <2>2, <3>1
  <2>3. QED
    BY <2>1, <2>2 DEF Store, Recording
<1>6. Named'
  <2> SUFFICES ASSUME NEW d \in Versions'
               PROVE  /\ Distinct(version'[d].names)
                      /\ \A s \in Elements(version'[d].names) : s[1] = d
                      /\ SnapsOf(d)' \subseteq Elements(version'[d].names)
                      /\ d \notin torn' /\ Deleting(d)' = {}
                         => Elements(version'[d].names) = SnapsOf(d)'
    BY DEF Named
  <2>1. d \in Versions /\ d \in Cut
    BY <1>1
  <2>2. /\ Distinct(version[d].names)
        /\ \A s \in Elements(version[d].names) : s[1] = d
        /\ SnapsOf(d) \subseteq Elements(version[d].names)
        /\ d \notin torn /\ Deleting(d) = {} => Elements(version[d].names) = SnapsOf(d)
    BY <2>1 DEF Store, Named
  <2>3. CASE d # c
    BY <1>2, <1>3, <2>1, <2>2, <2>3
  <2>4. CASE d = c
    <3>1. CASE version'[c].names = todo
      BY <1>1, <2>4, <3>1 DEF DroppingBy
    <3>2. CASE version' = version /\ (Deleting(c)' # {} \/ c \in torn')
      BY <1>2, <2>2, <2>4, <3>2
    <3>3. QED
      BY <1>3, <3>1, <3>2
  <2>5. QED
    BY <2>3, <2>4
<1>7. Dropping'
  <2> SUFFICES ASSUME NEW d \in Cut, NEW q \in Deleting(d)'
               PROVE  DroppingBy(q, d)'
    BY DEF Dropping
  <2>1. CASE d = c
    <3>1. q = p /\ op'[p].todo = todo /\ (op'[p].step = "erasing" => todo = <<>>)
          /\ Deleting(c)' = {p}
      BY <1>3, <2>1
    <3>2. \A s \in Elements(todo) : s[1] = c
      BY <1>1 DEF DroppingBy
    <3>3. \A row \in audit : row[2] = c => c \in raced
      BY <1>1 DEF DroppingBy
    <3>4. QED
      BY <1>1, <2>1, <3>1, <3>2, <3>3 DEF DroppingBy
  <2>2. CASE d # c
    <3>1. q \in Deleting(d) /\ DroppingBy(q, d)
      BY <1>3, <2>2 DEF Store, Dropping
    <3>2. q # p /\ op'[q] = op[q]
      BY <1>1, <2>2, <3>1 DEF Deleting, Others
    <3>3. QED
      BY <1>2, <1>3, <2>2, <3>1, <3>2 DEF DroppingBy
  <2>3. QED
    BY <2>1, <2>2
<1>8. Kept'
  <2>1. \A row \in audit : row[2] \in Cut /\ (row[2] \notin raced => row[2] # c)
    BY <1>1 DEF DroppingBy
  <2>2. QED
    BY <1>2, <2>1 DEF Store, Kept
<1>9. Gone'
  <2>1. ASSUME NEW q \in Proc, op'[q].step \in {"switching", "committing"},
               op'[q].cut \notin Versions
        PROVE  {s \in snaps' : s[1] = op'[q].cut} = {}
    <3>1. q # p /\ op'[q] = op[q]
      BY <2>1 DEF Others
    <3>2. SnapsOf(op[q].cut) = {}
      BY <2>1, <3>1 DEF Store, Gone
    <3>3. QED
      BY <3>1, <3>2 DEF SnapsOf
  <2>2. QED
    BY <2>1 DEF Gone, SnapsOf
<1>10. QED
  BY <1>4, <1>5, <1>6, <1>7, <1>8, <1>9 DEF Store

\* The steps of a delete task past its check.
LEMMA DeletingStore ==
  ASSUME Basic, Store, NEW p \in Proc,
         \/ Drop(p) \/ DropFails(p) \/ DropLate(p)
         \/ Erase(p) /\ \E e \in Env : ecv[e] # 0 /\ current[e] = op[p].cut
  PROVE  Store'
<1>0. PICK c : c = op[p].cut
  OBVIOUS
<1>1. /\ TypeOK /\ c \in Cut /\ p \in Deleting(c)
      /\ DroppingBy(p, c) /\ c \in Versions
      /\ op[p].todo \in Seq(Snapshot) /\ op \in [Proc -> Operation]
      /\ version[c] \in Version
  <2>1. TypeOK /\ op[p].step \in {"dropping", "erasing"} /\ ShapeOf(op[p])
    BY DEF Basic, Shape, Drop, DropFails, DropLate, Erase
  <2>2. c \in Cut /\ p \in Deleting(c)
    BY <1>0, <2>1 DEF ShapeOf, Deleting
  <2>3. DroppingBy(p, c)
    BY <2>2 DEF Store, Dropping
  <2>4. op[p].todo \in Seq(Snapshot) /\ op \in [Proc -> Operation] /\ version[c] \in Version
    BY <2>1, <2>2, OpFields DEF TypeOK
  <2>5. QED
    BY <2>1, <2>2, <2>3, <2>4 DEF DroppingBy
<1>2. op[p].step = "dropping" =>
        /\ op[p].todo # <<>>
        /\ Head(op[p].todo)[1] = c
        /\ Distinct(Tail(op[p].todo))
        /\ Elements(Tail(op[p].todo)) = Elements(op[p].todo) \ {Head(op[p].todo)}
  <2>1. op[p].step = "dropping" => op[p].todo # <<>>
    BY DEF Basic, Shape, ShapeOf
  <2>2. QED
    BY <1>1, <2>1, TailOf DEF DroppingBy
<1>3. cuts \in Nat /\ c <= cuts /\ op[p].cut = c
  BY <1>0, <1>1, BoundAssumption DEF Store, Counted, TypeOK
<1>4. CASE Drop(p)
  <2> DEFINE todo == Tail(op[p].todo)
  <2>1. /\ snaps' = snaps \ {Head(op[p].todo)} /\ op[p].step = "dropping"
        /\ UNCHANGED <<version, cuts, audit, raced, torn>>
    BY <1>4 DEF Drop, rowVars, histVars
  <2>2. /\ Others(p) /\ op'[p].cut = c /\ op'[p].todo = todo
        /\ \/ op'[p].step = "dropping"
           \/ op'[p].step = "erasing" /\ todo = <<>>
    BY <1>0, <1>1, <1>2, <1>4, <2>1, DropOp DEF MovesTo
  <2>3. /\ Distinct(todo) /\ Elements(todo) \subseteq Elements(op[p].todo)
        /\ SnapsOf(c)' \subseteq Elements(todo)
        /\ c \notin torn' => Elements(todo) = SnapsOf(c)'
    <3>1. SnapsOf(c)' = SnapsOf(c) \ {Head(op[p].todo)}
      BY <2>1 DEF SnapsOf
    <3>2. QED
      BY <1>1, <1>2, <2>1, <3>1 DEF DroppingBy
  <2>4. Versions' = Versions /\ (\A s \in snaps : s \in snaps' \/ s[1] = c)
    BY <1>2, <2>1 DEF Versions
  <2>5. QED
    <3> HIDE DEF todo
    <3>1. QED
      BY <1>1, <1>3, <2>1, <2>2, <2>3, <2>4, TakingStore
<1>5. ASSUME DropFails(p) \/ DropLate(p)
      PROVE  Store'
  <2> DEFINE todo == op[p].todo
             row == [version[c] EXCEPT !.names = todo]
  <2>1. /\ version' = [version EXCEPT ![c] = row] /\ op[p].step = "dropping"
        /\ snaps' \subseteq snaps
        /\ \/ snaps' = snaps /\ torn' = torn
           \/ snaps' = snaps \ {Head(todo)} /\ torn' = torn \cup {c}
        /\ UNCHANGED <<cuts, audit, raced>>
    BY <1>0, <1>5 DEF DropFails, DropLate, aptlyVars, histVars
  <2>2. row.there = version[c].there /\ row.filtered = version[c].filtered /\ row.names = todo
    BY <1>1 DEF Version
  <2> HIDE DEF row
  <2>3. /\ version'[c] = row /\ (\A d \in Cut \ {c} : version'[d] = version[d])
        /\ \A d \in Cut : version'[d].filtered = version[d].filtered
        /\ Versions' = Versions
    BY <1>1, <2>1, <2>2 DEF TypeOK, Versions
  <2>4. Others(p) /\ op'[p].step = "idle" /\ op'[p].cut = 0
    BY <1>1, <1>5, EndOp, IdleFields DEF DropFails, DropLate
  <2>5. /\ SnapsOf(c)' \subseteq SnapsOf(c)
        /\ c \notin torn' => c \notin torn /\ SnapsOf(c)' = SnapsOf(c)
        /\ torn \subseteq torn' /\ \A s \in snaps : s \in snaps' \/ s[1] = c
    BY <1>2, <2>1 DEF SnapsOf
  <2>6. /\ Distinct(todo) /\ SnapsOf(c)' \subseteq Elements(todo)
        /\ c \notin torn' => Elements(todo) = SnapsOf(c)'
    BY <1>1, <2>5 DEF DroppingBy
  <2> HIDE DEF todo
  <2>7. Elements(todo) \subseteq Elements(op[p].todo) /\ 0 <= cuts
    BY <1>3 DEF todo
  <2>8. QED
    BY <1>1, <2>1, <2>2, <2>3, <2>4, <2>5, <2>6, <2>7, TakingStore
<1>6. ASSUME Erase(p), \E e \in Env : ecv[e] # 0 /\ current[e] = op[p].cut
      PROVE  Store'
  <2>1. /\ version' = version /\ torn' = torn \cup {op[p].cut}
        /\ op[p].step = "erasing" /\ UNCHANGED <<snaps, cuts, audit, raced>>
    BY <1>6 DEF Erase, aptlyVars
  <2>2. Others(p) /\ op'[p] = Idle
    BY <1>1, <1>6, EndOp DEF Erase
  <2>3. QuietOp(p)
    BY <1>3, <2>1, <2>2, IdleFields DEF QuietOp
  <2>4. QED
    BY <2>1, <2>2, <2>3, QuietStep
<1>7. QED
  BY <1>4, <1>5, <1>6

\* The row goes when nothing of the version is left.
LEMMA EraseStore ==
  ASSUME Basic, Store, NEW p \in Proc, Erase(p),
         ~ \E e \in Env : ecv[e] # 0 /\ current[e] = op[p].cut
  PROVE  Store'
<1>0. PICK c : c = op[p].cut
  OBVIOUS
<1>1. /\ TypeOK /\ c \in Cut /\ op[p].step = "erasing"
      /\ version' = [version EXCEPT ![c] = NoVersion] /\ torn' = torn \ {c}
      /\ UNCHANGED <<snaps, cuts, audit, raced>>
  BY <1>0 DEF Basic, Shape, ShapeOf, Erase, aptlyVars
<1>2. Others(p) /\ op'[p].step = "idle" /\ op'[p].cut = 0
  BY <1>1, EndOp, IdleFields DEF Erase
<1>3. /\ DroppingBy(p, c) /\ SnapsOf(c) = {}
      /\ \A row \in audit : row[2] = c => c \in raced
  <2>1. DroppingBy(p, c)
    BY <1>0, <1>1 DEF Store, Dropping, Deleting
  <2>2. Elements(op[p].todo) = {}
    BY <1>1, <2>1 DEF DroppingBy, Elements
  <2>3. QED
    BY <2>1, <2>2 DEF DroppingBy
<1>4. /\ \A d : SnapsOf(d)' = SnapsOf(d)
      /\ Versions' = Versions \ {c} /\ Versions \subseteq Cut
      /\ \A d \in Cut \ {c} : version'[d] = version[d]
      /\ \A d \in Cut \ {c} : FinalOf(d)' = FinalOf(d)
  <2>1. \A d \in Cut \ {c} : version'[d] = version[d]
    BY <1>1 DEF TypeOK
  <2>2. ~version'[c].there
    BY <1>1 DEF TypeOK, NoVersion
  <2>3. QED
    BY <1>1, <2>1, <2>2 DEF SnapsOf, Versions, FinalOf
<1>5. /\ \A d \in Cut \ {c} : Deleting(d)' = Deleting(d)
      /\ Deleting(c)' = {}
  <2>1. Deleting(c) = {p}
    BY <1>3 DEF DroppingBy
  <2>2. QED
    BY <1>0, <1>1, <1>2, <2>1 DEF Deleting, Others
<1>6. Counted'
  <2>1. 0 <= cuts
    BY <1>1, BoundAssumption DEF TypeOK
  <2>2. QED
    BY <1>1, <1>2, <1>4, <2>1 DEF Store, Counted, Others
<1>7. Recording'
  BY <1>1, <1>2, <1>4 DEF Store, Recording, Others
<1>8. Named'
  BY <1>1, <1>4, <1>5 DEF Store, Named
<1>9. Dropping'
  <2> SUFFICES ASSUME NEW d \in Cut, NEW q \in Deleting(d)'
               PROVE  DroppingBy(q, d)'
    BY DEF Dropping
  <2>1. d # c /\ q \in Deleting(d) /\ DroppingBy(q, d)
    BY <1>5 DEF Store, Dropping
  <2>2. q # p /\ op'[q] = op[q]
    BY <1>0, <1>1, <1>2, <2>1 DEF Deleting, Others
  <2>3. QED
    BY <1>1, <1>4, <1>5, <2>1, <2>2 DEF DroppingBy
<1>10. Kept'
  <2>1. audit \subseteq (1..MaxAssigns) \X Cut
    BY <1>1 DEF TypeOK
  <2>2. \A row \in audit : row[2] \in Cut /\ (row[2] \notin raced => row[2] # c)
    BY <1>3, <2>1
  <2>3. QED
    BY <1>1, <1>4, <2>2 DEF Store, Kept
<1>11. Gone'
  BY <1>2, <1>3, <1>4 DEF Store, Gone, Others
<1>12. QED
  BY <1>6, <1>7, <1>8, <1>9, <1>10, <1>11 DEF Store

LEMMA NextStore ==
  ASSUME Basic, Store, [Next]_vars
  PROVE  Store'
<1>0. /\ TypeOK /\ Shape /\ cuts \in Nat
      /\ \A c \in Versions : c <= cuts
      /\ \A p \in Proc : op[p].cut <= cuts /\ op[p].filtered \in BOOLEAN
      /\ 0 <= cuts
  <2>1. TypeOK /\ Shape /\ Counted
    BY DEF Basic, Store
  <2>2. \A p \in Proc : op[p].filtered \in BOOLEAN
    BY <2>1, OpFields DEF TypeOK
  <2>3. cuts \in Nat /\ 0 <= cuts
    BY <2>1, BoundAssumption DEF TypeOK
  <2>4. QED
    BY <2>1, <2>2, <2>3 DEF Counted
<1>1. ASSUME UNCHANGED vars
      PROVE  Store'
  <2>1. /\ UNCHANGED <<snaps, version, cuts, audit, raced, torn>>
        /\ \A q \in Proc : QuietOp(q)
    BY <1>0, <1>1 DEF vars, aptlyVars, rowVars, histVars, QuietOp
  <2>2. QED
    BY <2>1, QuietStore
\* Steps that neither begin nor end anything in the two stores.
<1>2. ASSUME NEW p \in Proc, Others(p),
             UNCHANGED <<snaps, version, cuts, audit, raced, torn>>,
             op[p].step \notin {"dropping", "erasing"},
             \/ op'[p] = Idle
             \/ op'[p].step \in {"reading", "cutting", "queued"} /\ op'[p].cut <= cuts
             \/ op'[p].step = "switching" /\ op'[p].cut \in Versions
             \/ /\ op'[p].step = "committing" /\ op[p].step = "switching"
                /\ op'[p].cut = op[p].cut
      PROVE  Store'
  <2>1. QuietOp(p)
    BY <1>0, <1>2, IdleFields DEF QuietOp
  <2>2. QED
    BY <1>2, <2>1, QuietStep
<1>3. ASSUME NEW p \in Proc, Publish(p)
      PROVE  Store'
  <2>1. Others(p) /\ op[p] = Idle /\ op'[p].step = "reading" /\ op'[p].cut = 0
    BY <1>0, <1>3, PublishOp
  <2>2. QED
    BY <1>0, <1>2, <1>3, <2>1, IdleFields DEF Publish, aptlyVars, rowVars, histVars
<1>4. ASSUME NEW p \in Proc, NEW new \in BOOLEAN, NEW filtered \in BOOLEAN,
             PublishRead(p, new, filtered)
      PROVE  Store'
  <2>1. /\ Others(p) /\ op[p].step = "reading"
        /\ \/ op'[p] = Idle
           \/ op'[p].step = "switching" /\ op'[p].cut \in Versions
           \/ op'[p].step = "cutting" /\ op'[p].cut = op[p].cut
    BY <1>0, <1>4, PublishReadOp DEF Basic, Numbered, RowOf, MovesTo
  <2>2. QED
    BY <1>0, <1>2, <1>4, <2>1 DEF PublishRead, aptlyVars, rowVars, histVars
<1>5. ASSUME NEW p \in Proc, PublishCut(p)
      PROVE  Store'
  <2> DEFINE names == Names(cuts', op[p].filtered)
  <2>1. /\ Others(p) /\ op[p].step = "cutting" /\ op'[p].step = "recording"
        /\ op'[p].cut = cuts' /\ cuts' = cuts + 1 /\ cuts' \in Cut
        /\ op'[p].filtered = op[p].filtered
    BY <1>0, <1>5, PublishCutOp DEF MovesTo
  <2>2. /\ snaps' = snaps \cup Elements(names)
        /\ UNCHANGED <<version, audit, raced, torn>>
    BY <1>5 DEF PublishCut, histVars
  <2>3. \A s \in Elements(names) : s[1] = cuts'
    BY <1>0, <2>1, NamesOfCut
  <2>4. \A s \in snaps : s[1] # cuts'
    <3>1. \A s \in snaps : s[1] \in Nat /\ s[1] <= cuts
      BY <1>0, BoundAssumption DEF Store, Counted, TypeOK, Snapshot, Cut
    <3>2. QED
      BY <1>0, <2>1, <3>1
  <2>5. Elements(names) = {s \in snaps' : s[1] = cuts'}
    BY <2>2, <2>3, <2>4
  <2>6. op'[p].cut <= cuts' /\ names = Names(cuts', op'[p].filtered)
    BY <1>0, <2>1
  <2> HIDE DEF names
  <2>7. QED
    BY <1>0, <2>1, <2>2, <2>3, <2>5, <2>6, CutStore
<1>6. ASSUME NEW p \in Proc, NEW made \in 0..(2 * Repos), PublishFails(p, made)
      PROVE  Store'
  <2> DEFINE names == Names(cuts', op[p].filtered)
  <2>1. /\ op[p].step = "cutting" /\ cuts' = cuts + 1 /\ cuts' \in Cut
        /\ UNCHANGED <<version, audit, raced, torn>>
    BY <1>0, <1>6, BoundAssumption DEF PublishFails, histVars, Cut
  <2>2. Others(p) /\ op'[p].step = "idle" /\ op'[p].cut = 0
    BY <1>0, <1>6, EndOp, IdleFields DEF PublishFails
  <2>3. snaps' = snaps \cup {names[i] : i \in 1..made} /\ made <= Len(names)
    BY <1>6 DEF PublishFails
  <2>4. names \in Seq(Snapshot) /\ \A s \in Elements(names) : s[1] = cuts'
    BY <1>0, <2>1, NamesOfCut
  <2>5. made \in Nat /\ 0 <= cuts'
    BY <1>0, <2>1, BoundAssumption
  <2> HIDE DEF names
  <2>6. \A i \in 1..made : names[i] \in Elements(names)
    BY <2>3, <2>4, <2>5 DEF Elements
  <2>7. snaps \subseteq snaps' /\ \A s \in snaps' : s \in snaps \/ s[1] = cuts'
    BY <2>3, <2>4, <2>6
  <2>8. QED
    BY <1>0, <2>1, <2>2, <2>5, <2>7, CutStore
<1>7. ASSUME NEW p \in Proc, PublishClashes(p) \/ SwitchFails(p) \/ CommitFails(p)
      PROVE  Store'
  <2>1. Others(p) /\ op'[p] = Idle
    BY <1>0, <1>7, EndOp DEF PublishClashes, SwitchFails, CommitFails
  <2>2. /\ UNCHANGED <<snaps, version, cuts, audit, raced, torn>>
        /\ op[p].step \notin {"dropping", "erasing"}
    BY <1>7 DEF PublishClashes, SwitchFails, CommitFails, aptlyVars, rowVars, histVars
  <2>3. QED
    BY <1>2, <2>1, <2>2
<1>8. ASSUME NEW p \in Proc, NEW e \in Env, Joins(p, e),
             \/ op'[p].step = "reading" /\ op'[p].cut = 0
             \/ op'[p].step = "switching" /\ op'[p].cut \in Versions,
             UNCHANGED <<snaps, version, cuts, audit, raced, torn>>
      PROVE  Store'
  <2>1. ASSUME NEW q \in Proc
        PROVE  QuietOp(q)
    <3>1. CASE q = p
      BY <1>0, <1>8, <3>1, IdleFields DEF QuietOp, Joins
    <3>2. CASE q # p
      BY <1>0, <1>8, <3>2 DEF QuietOp, Joins
    <3>3. QED
      BY <3>1, <3>2
  <2>2. QED
    BY <1>8, <2>1, QuietStore
<1>9. ASSUME NEW p \in Proc, NEW e \in Env, NEW c \in Cut, Assign(p, e, c) \/ Rollback(p, e, c)
      PROVE  Store'
  <2>1. Joins(p, e) /\ op'[p].step = "switching" /\ op'[p].cut \in Versions
    BY <1>0, <1>9, AssignOp, RollbackOp
  <2>2. QED
    BY <1>8, <1>9, <2>1 DEF Assign, Rollback, aptlyVars, rowVars
<1>10. ASSUME NEW p \in Proc, NEW e \in Env, NEW c \in 0..MaxCuts, Promote(p, e, c)
       PROVE  Store'
  <2>1. /\ Joins(p, e)
        /\ \/ op'[p].step = "reading" /\ op'[p].cut = 0
           \/ op'[p].step = "switching" /\ op'[p].cut \in Versions
    BY <1>0, <1>10, PromoteOp
  <2>2. QED
    BY <1>8, <1>10, <2>1 DEF Promote, aptlyVars, rowVars
<1>11. ASSUME NEW p \in Proc, Switch(p) \/ SwitchLate(p)
       PROVE  Store'
  <2>1. /\ Others(p) /\ op[p].step = "switching"
        /\ \/ op'[p] = Idle
           \/ op'[p].step = "committing" /\ op'[p].cut = op[p].cut
    BY <1>0, <1>11, EndOp, GotoOp DEF Switch, SwitchLate, Step, MovesTo
  <2>2. QED
    BY <1>2, <1>11, <2>1 DEF Switch, SwitchLate, rowVars, histVars
<1>12. ASSUME NEW p \in Proc, NEW c \in Cut, Delete(p, c)
       PROVE  Store'
  <2>1. /\ Others(p) /\ op[p] = Idle /\ op'[p].step = "queued" /\ op'[p].cut = c
        /\ c \in Versions
    BY <1>0, <1>12, DeleteOp
  <2>2. QED
    BY <1>0, <1>2, <1>12, <2>1, IdleFields DEF Delete, aptlyVars, rowVars, histVars
<1>13. ASSUME NEW p \in Proc, DropFails(p) \/ DropLate(p) \/ Drop(p) \/ Erase(p)
       PROVE  Store'
  BY <1>13, DeletingStore, EraseStore
<1>14. ASSUME NEW e \in Env, Unassign(e) \/ Lapse(e)
       PROVE  Store'
  <2>1. /\ UNCHANGED <<snaps, version, cuts, audit, raced, torn>>
        /\ \A q \in Proc : QuietOp(q)
    BY <1>0, <1>14 DEF Unassign, Lapse, aptlyVars, rowVars, histVars, QuietOp
  <2>2. QED
    BY <2>1, QuietStore
<1>15. ASSUME NEW row \in audit, Purge(row)
       PROVE  Store'
  <2>1. /\ UNCHANGED <<snaps, version, cuts, raced, torn>> /\ audit' \subseteq audit
        /\ \A q \in Proc : QuietOp(q)
    BY <1>0, <1>15 DEF Purge, aptlyVars, histVars, QuietOp
  <2>2. QED
    BY <2>1, QuietStore
<1>16. ASSUME NEW p \in Proc, Crash(p)
       PROVE  Store'
  <2>1. Others(p) /\ op'[p] = Idle
    BY <1>0, <1>16, EndOp DEF Crash
  <2>2. /\ UNCHANGED <<snaps, version, cuts, audit, raced>> /\ torn \subseteq torn'
        /\ op[p].step \in {"dropping", "erasing"} => op[p].cut \in torn'
    BY <1>16 DEF Crash, aptlyVars, rowVars
  <2>3. QuietOp(p)
    BY <1>0, <2>1, <2>2, IdleFields DEF QuietOp
  <2>4. QED
    BY <2>1, <2>2, <2>3, QuietStep
<1>17. QED
  BY <1>1, <1>3, <1>4, <1>5, <1>6, <1>7, <1>9, <1>10, <1>11, <1>12, <1>13, <1>14, <1>15,
     <1>16, RecordStore, CommitStore, DeleteStartStore DEF Next

LEMMA StoreInvariant == Spec => [](Basic /\ Store)
<1>1. Basic /\ Store /\ [Next]_vars => (Basic /\ Store)'
  BY NextBasic, NextStore
<1>2. QED
  BY InitBasic, InitStore, <1>1, PTL DEF Spec

\* No delete takes away what an assignment may be rolled back to: neither the row
\* nor the snapshots of a version with a promotion on record, except where the
\* promotion came between a delete task's last check and its work.
THEOREM RollbackPossible == Spec => []RollbackStillPossible
<1>1. Basic /\ Store => RollbackStillPossible
  <2> SUFFICES ASSUME Basic, Store, NEW e \in Env, NEW c \in Cut,
                      <<ecv[e], c>> \in audit, c \notin raced
               PROVE  version[c].there /\ Final(c, version[c].filtered) \subseteq snaps
    BY DEF RollbackStillPossible
  <2>1. c \in Versions /\ FinalOf(c) \subseteq SnapsOf(c)
    BY DEF Store, Kept
  <2>2. QED
    BY <2>1, FinalOwn DEF Versions, FinalOf
<1>2. QED
  BY StoreInvariant, <1>1, PTL

\* The row of a version and aptly agree on its snapshots whenever no delete task is
\* at it: a publish that failed, and a delete that was refused, leave nothing
\* behind under a version's name that its row does not list.
THEOREM NamesMatch == Spec => []NamesMatchSnapshots
<1>1. Basic /\ Store => NamesMatchSnapshots
  BY DEF Store, Named, NamesMatchSnapshots, SnapsOf
<1>2. QED
  BY StoreInvariant, <1>1, PTL

-----------------------------------------------------------------------------
(* What is served and what is recorded as live.                              *)

\* What is live has its row.
LiveVersion(e) == ecv[e] # 0 => current[e] \in Versions
\* An operation is alone on e if it says so; all are where e is not blurred, and
\* then the ones that take the lease hold it.
Alone(e) == \A p \in Busy(e) : op[p].alone => Busy(e) = {p}
Solo(e) ==
  e \notin blurred => \A p \in Busy(e) :
    Busy(e) = {p} /\ (op[p].kind # "rollback" => lease[e] = p)
\* Nobody has come between p's beginning and where it is.
Calm(p) == op[p].alone \/ op[p].env \notin blurred
Undisturbed(e) ==
  \A p \in Busy(e) : Calm(p) =>
    /\ IF op[p].kind = "assign" THEN ecv[e] = 0 ELSE ecv[e] \in {0, op[p].ecv}
    /\ op[p].step = "committing" =>
         /\ op[p].cut \in Versions
         /\ served[e] = FinalOf(op[p].cut) /\ served[e] \subseteq snaps
\* ServedIsRecorded, also while an operation runs that has not switched yet.
Recorded(e) ==
  e \notin blurred /\ ecv[e] # 0 /\ (\A p \in Busy(e) : op[p].step # "committing")
  => served[e] = FinalOf(current[e])
LiveAt(e) == LiveVersion(e) /\ Alone(e) /\ Solo(e) /\ Undisturbed(e) /\ Recorded(e)
Live == \A e \in Env : LiveAt(e)

LEMMA InitLive == Init => Live
<1> SUFFICES ASSUME Init, NEW e \in Env PROVE LiveAt(e)
  BY DEF Live
<1>1. ecv[e] = 0
  BY DEF Init
<1>2. Busy(e) = {}
  BY IdleFields, HolderAssumption DEF Init, Busy
<1>3. QED
  BY <1>1, <1>2 DEF LiveAt, LiveVersion, Alone, Solo, Undisturbed, Recorded

\* q's step is not one that makes a version live in e: it goes on before the
\* switch or ends, and does not end silently between switch and commit.
OpKeeps(q, e) ==
  /\ op'[q].env = e =>
       /\ op[q].env = e /\ op'[q].kind = op[q].kind /\ op'[q].ecv = op[q].ecv
       /\ op'[q].alone = op[q].alone
       /\ op'[q].step = "committing" => op[q].step = "committing" /\ op'[q].cut = op[q].cut
  /\ op[q].env = e /\ op[q].step = "committing" /\ e \notin blurred' /\ ecv'[e] # 0
     => op'[q].env = e /\ op'[q].step = "committing"

LEMMA OthersKeep ==
  ASSUME NEW p \in Proc, NEW e \in Env, Others(p), OpKeeps(p, e)
  PROVE  \A q \in Proc : OpKeeps(q, e)
BY DEF Others, OpKeeps

\* Nothing is made live in e: what is live there, or about to be, stays as it is.
LEMMA KeepsLive ==
  ASSUME NEW e \in Env, LiveAt(e), \A q \in Proc : OpKeeps(q, e),
         e \in blurred => e \in blurred',
         ecv'[e] = 0 \/ (ecv'[e] = ecv[e] /\ current'[e] = current[e]),
         \A q \in Proc : lease[e] = q /\ op'[q].env = e => lease'[e] = q \/ e \in blurred',
         served'[e] = served[e],
         served[e] \subseteq snaps => served[e] \subseteq snaps',
         \A c \in Versions :
           (ecv'[e] # 0 /\ current[e] = c) \/ FinalOf(c) \subseteq snaps
           => c \in Versions' /\ FinalOf(c)' = FinalOf(c)
  PROVE  LiveAt(e)'
<1>1. /\ Busy(e)' \subseteq Busy(e)
      /\ \A p \in Busy(e)' : Busy(e) = {p} => Busy(e)' = {p}
  BY DEF Busy, OpKeeps
<1>2. LiveVersion(e)'
  BY DEF LiveAt, LiveVersion
<1>3. \A q \in Busy(e)' : /\ op'[q].kind = op[q].kind /\ op'[q].ecv = op[q].ecv
                          /\ op'[q].alone = op[q].alone
                          /\ op'[q].env = e /\ op[q].env = e
                          /\ op'[q].step = "committing" =>
                               op[q].step = "committing" /\ op'[q].cut = op[q].cut
  BY DEF Busy, OpKeeps
<1>4. Alone(e)'
  BY <1>1, <1>3 DEF LiveAt, Alone
<1>5. Solo(e)'
  <2>1. \A q \in Busy(e)' : q \in Proc /\ op'[q].env = e
    BY DEF Busy
  <2>2. QED
    BY <1>1, <1>3, <2>1 DEF LiveAt, Solo
<1>6. Undisturbed(e)'
  <2> SUFFICES ASSUME NEW p \in Busy(e)', Calm(p)'
               PROVE  /\ IF op'[p].kind = "assign" THEN ecv'[e] = 0
                         ELSE ecv'[e] \in {0, op'[p].ecv}
                      /\ op'[p].step = "committing" =>
                           /\ op'[p].cut \in Versions'
                           /\ served'[e] = Final(op'[p].cut, version'[op'[p].cut].filtered)
                           /\ served'[e] \subseteq snaps'
    BY DEF Undisturbed, FinalOf
  <2>1. p \in Busy(e) /\ Calm(p)
    BY <1>1, <1>3 DEF Calm
  <2>2. /\ IF op[p].kind = "assign" THEN ecv[e] = 0 ELSE ecv[e] \in {0, op[p].ecv}
        /\ op[p].step = "committing" =>
             /\ op[p].cut \in Versions
             /\ served[e] = FinalOf(op[p].cut) /\ served[e] \subseteq snaps
    BY <2>1 DEF LiveAt, Undisturbed
  <2>3. IF op'[p].kind = "assign" THEN ecv'[e] = 0 ELSE ecv'[e] \in {0, op'[p].ecv}
    BY <1>3, <2>2
  <2>4. ASSUME op'[p].step = "committing"
        PROVE  /\ op'[p].cut \in Versions'
               /\ served'[e] = Final(op'[p].cut, version'[op'[p].cut].filtered)
               /\ served'[e] \subseteq snaps'
    <3>1. PICK c : c = op[p].cut
      OBVIOUS
    <3>2. /\ op'[p].cut = c /\ c \in Versions
          /\ served[e] = FinalOf(c) /\ served[e] \subseteq snaps
      BY <1>3, <2>2, <2>4, <3>1
    <3>3. c \in Versions' /\ FinalOf(c)' = FinalOf(c)
      BY <3>2
    <3>4. QED
      BY <3>2, <3>3 DEF FinalOf
  <2>5. QED
    BY <2>3, <2>4
<1>7. Recorded(e)'
  <2> SUFFICES ASSUME e \notin blurred', ecv'[e] # 0,
                      \A p \in Busy(e)' : op'[p].step # "committing"
               PROVE  served'[e] = Final(current'[e], version'[current'[e]].filtered)
    BY DEF Recorded, FinalOf
  <2>1. \A p \in Busy(e) : op[p].step # "committing"
    BY DEF Busy, OpKeeps
  <2>2. PICK c : c = current[e]
    OBVIOUS
  <2>3. served[e] = FinalOf(c) /\ current'[e] = c
    BY <2>1, <2>2 DEF LiveAt, Recorded
  <2>4. c \in Versions
    BY <2>2 DEF LiveAt, LiveVersion
  <2>5. FinalOf(c)' = FinalOf(c)
    BY <2>2, <2>4
  <2>6. QED
    BY <2>3, <2>5 DEF FinalOf
<1>8. QED
  BY <1>2, <1>4, <1>5, <1>6, <1>7 DEF LiveAt

\* An operation begins on e: it is the only one there, unless e is blurred.
LEMMA JoinsLive ==
  ASSUME NEW e \in Env, NEW p \in Proc, LiveAt(e), Joins(p, e),
         op'[p].step # "committing",
         UNCHANGED <<snaps, served, version, ecv, current>>,
         blurred' = BlurredBy(e, op'[p].kind),
         IF op'[p].kind = "assign" THEN ecv[e] = 0 ELSE op'[p].ecv = ecv[e],
         op'[p].kind = "rollback" \/ (lease[e] = Free /\ lease'[e] = p)
  PROVE  LiveAt(e)'
<1>1. Busy(e)' = Busy(e) \cup {p} /\ p \notin Busy(e)
  BY HolderAssumption, IdleFields DEF Busy, Joins
<1>2. /\ Versions' = Versions
      /\ \A c : FinalOf(c)' = FinalOf(c)
  BY DEF Versions, FinalOf
<1>3. LiveVersion(e)'
  BY <1>2 DEF LiveAt, LiveVersion
<1>4. \A q \in Busy(e)' : op'[q].alone => q = p /\ Busy(e) = {}
  BY <1>1 DEF Joins, Busy
<1>5. Alone(e)'
  BY <1>1, <1>4 DEF Alone
<1>6. e \notin blurred' => e \notin blurred /\ Busy(e) = {}
  <2> SUFFICES ASSUME e \notin blurred', NEW q \in Busy(e)
               PROVE  FALSE
    BY DEF BlurredBy
  <2>1. e \notin blurred /\ op'[p].kind # "rollback" /\ op[q].kind # "rollback"
    BY DEF BlurredBy
  <2>2. lease[e] = q /\ lease[e] = Free /\ q \in Proc
    BY <2>1 DEF LiveAt, Solo, Busy
  <2>3. QED
    BY <2>2, HolderAssumption
<1>7. Solo(e)'
  BY <1>1, <1>6 DEF Solo
<1>8. Undisturbed(e)'
  <2> SUFFICES ASSUME NEW q \in Busy(e)', Calm(q)'
               PROVE  /\ IF op'[q].kind = "assign" THEN ecv'[e] = 0
                         ELSE ecv'[e] \in {0, op'[q].ecv}
                      /\ op'[q].step # "committing"
    BY DEF Undisturbed
  <2>1. q = p
    <3>1. op'[q].env = e
      BY DEF Busy
    <3>2. op'[q].alone \/ e \notin blurred'
      BY <3>1 DEF Calm
    <3>3. QED
      BY <1>1, <1>4, <1>6, <3>2
  <2>2. QED
    BY <2>1
<1>9. Recorded(e)'
  BY <1>1, <1>2, <1>6 DEF LiveAt, Recorded
<1>10. QED
  BY <1>3, <1>5, <1>7, <1>8, <1>9 DEF LiveAt

\* aptly has switched e to p's version, whose row is there if p was not disturbed:
\* what is erased has no snapshots left to switch to.
LEMMA SwitchLive ==
  ASSUME Basic, Store, NEW p \in Proc, NEW e \in Env, LiveAt(e),
         op[p].env = e, Switch(p)
  PROVE  LiveAt(e)'
<1>0. PICK c : c = op[p].cut
  OBVIOUS
<1>1. /\ TypeOK /\ op[p].step = "switching" /\ c \in Cut
      /\ FinalOf(c) \subseteq snaps /\ served'[e] = FinalOf(c)
      /\ UNCHANGED <<snaps, version, ecv, current, lease, blurred>>
  BY <1>0 DEF Basic, Shape, ShapeOf, TypeOK, Switch, Published, FinalOf, rowVars, histVars
<1>2. /\ Others(p) /\ op'[p].step = "committing" /\ op'[p].cut = c /\ op'[p].env = e
      /\ op'[p].kind = op[p].kind /\ op'[p].ecv = op[p].ecv /\ op'[p].alone = op[p].alone
  BY <1>0, <1>1, GotoOp DEF Switch, MovesTo, Step
<1>3. c \in Versions
  <2>1. FinalOf(c) \subseteq SnapsOf(c) /\ FinalOf(c) # {}
    BY <1>1, FinalOwn, NamesOfCut, VersionFields DEF FinalOf
  <2>2. QED
    BY <1>0, <1>1, <2>1 DEF Store, Gone
<1>4. /\ Busy(e)' = Busy(e) /\ p \in Busy(e)
      /\ Versions' = Versions /\ \A d : FinalOf(d)' = FinalOf(d)
  BY <1>1, <1>2 DEF Busy, Others, Versions, FinalOf
<1>5. \A q \in Busy(e) : /\ op'[q].kind = op[q].kind /\ op'[q].ecv = op[q].ecv
                         /\ op'[q].alone = op[q].alone
                         /\ op'[q].env = e /\ op[q].env = e
  BY <1>2 DEF Busy, Others
<1>6. LiveVersion(e)' /\ Alone(e)' /\ Solo(e)'
  BY <1>1, <1>4, <1>5 DEF LiveAt, LiveVersion, Alone, Solo
<1>7. Undisturbed(e)'
  <2> SUFFICES ASSUME NEW q \in Busy(e), Calm(q)'
               PROVE  /\ IF op'[q].kind = "assign" THEN ecv'[e] = 0
                         ELSE ecv'[e] \in {0, op'[q].ecv}
                      /\ op'[q].cut \in Versions'
                      /\ served'[e] = Final(op'[q].cut, version'[op'[q].cut].filtered)
                      /\ served'[e] \subseteq snaps'
    BY <1>4 DEF Undisturbed, FinalOf
  <2>1. Calm(q)
    BY <1>1, <1>5 DEF Calm
  <2>2. q = p
    BY <1>4, <1>5, <2>1 DEF Calm, LiveAt, Alone, Solo
  <2>3. IF op[q].kind = "assign" THEN ecv[e] = 0 ELSE ecv[e] \in {0, op[q].ecv}
    BY <2>1 DEF LiveAt, Undisturbed
  <2>4. QED
    BY <1>1, <1>2, <1>3, <1>4, <1>5, <2>2, <2>3 DEF FinalOf
<1>8. Recorded(e)'
  BY <1>2, <1>4 DEF Recorded
<1>9. QED
  BY <1>6, <1>7, <1>8 DEF LiveAt

\* What p leaves behind when it ends on e: nobody who counts as alone or undisturbed.
LEMMA LeaveLive ==
  ASSUME NEW p \in Proc, NEW e \in Env, Alone(e), Solo(e), op[p].env = e,
         Others(p), op'[p] = Idle,
         e \in blurred' \/ Busy(e) = {p}
  PROVE  /\ Alone(e)' /\ Solo(e)' /\ Undisturbed(e)'
         /\ Busy(e)' = Busy(e) \ {p}
<1>1. Busy(e)' = Busy(e) \ {p} /\ p \in Busy(e)
  BY IdleFields, HolderAssumption DEF Busy, Others
<1>2. \A q \in Busy(e)' : op'[q] = op[q] /\ ~op[q].alone /\ op'[q].env = e
  BY <1>1 DEF Alone, Busy, Others
<1>3. Alone(e)' /\ Solo(e)' /\ Undisturbed(e)'
  BY <1>1, <1>2 DEF Alone, Solo, Undisturbed, Calm
<1>4. QED
  BY <1>1, <1>3

\* aptly has switched, p has given up: e is blurred.
LEMMA SwitchLateLive ==
  ASSUME Basic, NEW p \in Proc, NEW e \in Env, LiveAt(e), op[p].env = e, SwitchLate(p)
  PROVE  LiveAt(e)'
<1>1. /\ TypeOK /\ e \in blurred' /\ UNCHANGED <<version, ecv, current>>
  BY DEF Basic, SwitchLate, rowVars
<1>2. Others(p) /\ op'[p] = Idle
  BY <1>1, EndOp DEF SwitchLate
<1>3. Alone(e)' /\ Solo(e)' /\ Undisturbed(e)'
  BY <1>1, <1>2, LeaveLive DEF LiveAt
<1>4. LiveVersion(e)' /\ Recorded(e)'
  BY <1>1 DEF LiveAt, LiveVersion, Recorded, Versions
<1>5. QED
  BY <1>3, <1>4 DEF LiveAt

\* The promotion is recorded: if nobody has disturbed it, of what is served.
LEMMA CommitLive ==
  ASSUME Basic, NEW p \in Proc, NEW e \in Env, LiveAt(e), op[p].env = e, Commit(p)
  PROVE  LiveAt(e)'
<1>0. PICK c : c = op[p].cut
  OBVIOUS
<1>1. /\ TypeOK /\ op[p].step = "committing" /\ c \in Versions
      /\ UNCHANGED <<snaps, served, version>>
      /\ current'[e] = c
      /\ blurred' = IF op[p].alone THEN blurred \ {e} ELSE blurred
  BY <1>0 DEF Basic, Shape, ShapeOf, TypeOK, Commit, Intact, Versions, aptlyVars
<1>2. Others(p) /\ op'[p] = Idle
  BY <1>1, EndOp DEF Commit
<1>3. Versions' = Versions /\ FinalOf(c)' = FinalOf(c) /\ p \in Busy(e)
  BY <1>1 DEF Versions, FinalOf, Busy
<1>4. e \in blurred' \/ (Busy(e) = {p} /\ Calm(p))
  BY <1>1, <1>3 DEF LiveAt, Alone, Solo, Calm
<1>5. Alone(e)' /\ Solo(e)' /\ Undisturbed(e)'
  BY <1>2, <1>4, LeaveLive DEF LiveAt
<1>6. LiveVersion(e)'
  BY <1>1, <1>3 DEF LiveVersion
<1>7. Recorded(e)'
  <2> SUFFICES ASSUME e \notin blurred'
               PROVE  served'[e] = Final(current'[e], version'[current'[e]].filtered)
    BY DEF Recorded, FinalOf
  <2>1. served[e] = FinalOf(c)
    BY <1>0, <1>1, <1>3, <1>4 DEF LiveAt, Undisturbed
  <2>2. QED
    BY <1>1, <1>3, <2>1 DEF FinalOf
<1>8. QED
  BY <1>5, <1>6, <1>7 DEF LiveAt

LEMMA NextLive ==
  ASSUME Basic, Store, Live, [Next]_vars
  PROVE  Live'
<1> SUFFICES ASSUME NEW e \in Env
             PROVE  LiveAt(e)'
  BY DEF Live
<1>0. /\ TypeOK /\ Shape /\ LiveAt(e) /\ Versions \subseteq Cut
      /\ \A p \in Proc : op[p] \in Operation
      /\ \A p \in Proc : op[p].env = e => op[p] # Idle
      /\ \A p \in Proc : op[p].env = e => op[p].kind \in {"assign", "promote", "rollback"}
      /\ e # NoEnv
      /\ \A p \in Proc : Release(p) => \A q \in Proc \ {p} : lease[e] = q => lease'[e] = q
  <2>1. TypeOK /\ Shape /\ LiveAt(e) /\ Versions \subseteq Cut /\ e # NoEnv
    BY HolderAssumption DEF Basic, Live, Versions
  <2>2. \A p \in Proc : op[p] \in Operation
    BY <2>1 DEF TypeOK
  <2>3. \A p \in Proc : op[p].env = e => op[p].kind \notin {"none", "publish", "delete"}
    BY <2>1 DEF Shape, ShapeOf
  <2>4. \A p \in Proc : op[p].kind \in Kind
    BY <2>2, OpFields
  <2>5. \A p \in Proc : op[p].env = e => op[p] # Idle
    BY <2>1, IdleFields
  <2>6. \A p \in Proc : Release(p) => \A q \in Proc \ {p} : lease[e] = q => lease'[e] = q
    BY DEF Release
  <2>7. QED
    BY <2>1, <2>2, <2>3, <2>4, <2>5, <2>6 DEF Kind
\* Rows, snapshots and what is served stay; operations go on before the switch.
<1>1. ASSUME \A q \in Proc : OpKeeps(q, e),
             UNCHANGED <<snaps, served, version>>,
             e \in blurred => e \in blurred',
             ecv'[e] = 0 \/ (ecv'[e] = ecv[e] /\ current'[e] = current[e]),
             \A q \in Proc : lease[e] = q /\ op'[q].env = e => lease'[e] = q \/ e \in blurred'
      PROVE  LiveAt(e)'
  <2>1. \A c \in Versions : c \in Versions' /\ FinalOf(c)' = FinalOf(c)
    BY <1>1 DEF Versions, FinalOf
  <2>2. QED
    BY <1>0, <1>1, <2>1, KeepsLive
<1>2. ASSUME UNCHANGED vars
      PROVE  LiveAt(e)'
  <2>1. /\ \A q \in Proc : OpKeeps(q, e)
        /\ UNCHANGED <<snaps, served, version, blurred, ecv, current, lease>>
    BY <1>2 DEF OpKeeps, vars, aptlyVars, rowVars, histVars
  <2>2. QED
    BY <1>1, <2>1
\* p goes on, or ends before the switch, or has nothing to do with e.
<1>3. ASSUME NEW p \in Proc, Others(p), UNCHANGED <<snaps, served, version, ecv, current>>,
             \/ op'[p].env # e
             \/ MovesTo(p, op'[p].step) /\ op'[p].step # "committing",
             op[p].env = e => op[p].step # "committing" \/ e \in blurred' \/ ecv'[e] = 0,
             e \in blurred => e \in blurred',
             \A q \in Proc \ {p} : lease[e] = q => lease'[e] = q \/ e \in blurred',
             op'[p].env = e /\ lease[e] = p => lease'[e] = p
      PROVE  LiveAt(e)'
  <2>1. OpKeeps(p, e)
    BY <1>3 DEF OpKeeps, MovesTo
  <2>2. \A q \in Proc : OpKeeps(q, e)
    BY <1>3, <2>1, OthersKeep
  <2>3. \A q \in Proc : lease[e] = q /\ op'[q].env = e => lease'[e] = q \/ e \in blurred'
    BY <1>3
  <2>4. QED
    BY <1>1, <1>3, <2>2, <2>3
<1>4. ASSUME NEW p \in Proc, Publish(p)
      PROVE  LiveAt(e)'
  <2>1. Others(p) /\ op[p] = Idle /\ op'[p].env = NoEnv
    BY <1>0, <1>4, PublishOp
  <2>2. UNCHANGED <<snaps, served, version, ecv, current, lease, blurred>>
    BY <1>4 DEF Publish, aptlyVars, rowVars, histVars
  <2>3. QED
    BY <1>0, <1>3, <2>1, <2>2, IdleFields
<1>5. ASSUME NEW p \in Proc, NEW new \in BOOLEAN, NEW filtered \in BOOLEAN,
             PublishRead(p, new, filtered)
      PROVE  LiveAt(e)'
  <2>1. /\ Others(p) /\ op[p].step = "reading"
        /\ op'[p] = Idle \/ MovesTo(p, "switching") \/ MovesTo(p, "cutting")
    BY <1>0, <1>5, PublishReadOp DEF Basic, Numbered, RowOf
  <2>2. UNCHANGED <<snaps, served, version, ecv, current, lease, blurred>>
    BY <1>5 DEF PublishRead, aptlyVars, rowVars, histVars
  <2>3. \/ op'[p].env # e
        \/ MovesTo(p, op'[p].step) /\ op'[p].step # "committing"
    BY <1>0, <2>1, IdleFields DEF MovesTo
  <2>4. QED
    BY <1>3, <2>1, <2>2, <2>3
<1>6. ASSUME NEW p \in Proc, PublishClashes(p) \/ SwitchFails(p)
      PROVE  LiveAt(e)'
  <2>1. Others(p) /\ op'[p] = Idle
    BY <1>0, <1>6, EndOp DEF PublishClashes, SwitchFails
  <2>2. /\ UNCHANGED <<snaps, served, version, ecv, current, blurred>>
        /\ op[p].step # "committing" /\ Release(p)
    BY <1>6 DEF PublishClashes, SwitchFails, aptlyVars, rowVars, histVars
  <2>3. QED
    BY <1>0, <1>3, <2>1, <2>2, IdleFields
\* Snapshots are made.
<1>7. ASSUME NEW p \in Proc, Others(p), UNCHANGED <<served, version, ecv, current, blurred>>,
             snaps \subseteq snaps',
             op'[p].env # e \/ (MovesTo(p, "recording") /\ UNCHANGED lease),
             op[p].step = "cutting", UNCHANGED lease \/ Release(p)
      PROVE  LiveAt(e)'
  <2>1. OpKeeps(p, e)
    BY <1>7 DEF OpKeeps, MovesTo
  <2>2. \A q \in Proc : OpKeeps(q, e)
    BY <1>7, <2>1, OthersKeep
  <2>3. \A q \in Proc : lease[e] = q /\ op'[q].env = e => lease'[e] = q
    BY <1>0, <1>7
  <2>4. \A c \in Versions : c \in Versions' /\ FinalOf(c)' = FinalOf(c)
    BY <1>7 DEF Versions, FinalOf
  <2>5. QED
    BY <1>0, <1>7, <2>2, <2>3, <2>4, KeepsLive
<1>8. ASSUME NEW p \in Proc, PublishCut(p)
      PROVE  LiveAt(e)'
  <2>1. Others(p) /\ op[p].step = "cutting" /\ MovesTo(p, "recording")
    BY <1>0, <1>8, PublishCutOp
  <2>2. /\ UNCHANGED <<served, version, ecv, current, blurred, lease>>
        /\ snaps \subseteq snaps'
    BY <1>8 DEF PublishCut, histVars
  <2>3. QED
    BY <1>7, <2>1, <2>2
<1>9. ASSUME NEW p \in Proc, NEW made \in 0..(2 * Repos), PublishFails(p, made)
      PROVE  LiveAt(e)'
  <2>1. Others(p) /\ op'[p] = Idle
    BY <1>0, <1>9, EndOp DEF PublishFails
  <2>2. /\ UNCHANGED <<served, version, ecv, current, blurred>>
        /\ snaps \subseteq snaps' /\ op[p].step = "cutting" /\ Release(p)
    BY <1>9 DEF PublishFails, histVars
  <2>3. QED
    BY <1>0, <1>7, <2>1, <2>2, IdleFields
<1>10. ASSUME NEW p \in Proc, PublishRecord(p)
       PROVE  LiveAt(e)'
  <2>1. op[p].step = "recording" /\ op[p].cut \in Cut /\ op[p].cut \notin Versions
    BY <1>0, <1>10 DEF PublishRecord, Shape, ShapeOf, Store, Recording
  <2>2. Others(p) /\ (op'[p] = Idle \/ MovesTo(p, "switching"))
    BY <1>0, <1>10, <2>1, PublishRecordOp
  <2>3. OpKeeps(p, e)
    BY <1>0, <2>1, <2>2, IdleFields DEF OpKeeps, MovesTo
  <2>4. \A q \in Proc : OpKeeps(q, e)
    BY <2>2, <2>3, OthersKeep
  <2>5. /\ UNCHANGED <<snaps, served, ecv, current, blurred, lease>>
        /\ \A c \in Cut \ {op[p].cut} : version'[c] = version[c]
    BY <1>0, <1>10 DEF PublishRecord, TypeOK, aptlyVars, histVars
  <2>6. \A c \in Versions : c \in Versions' /\ FinalOf(c)' = FinalOf(c)
    BY <1>0, <2>1, <2>5 DEF Versions, FinalOf
  <2>7. QED
    BY <1>0, <2>4, <2>5, <2>6, KeepsLive
\* An operation begins on environment d.
<1>11. ASSUME NEW p \in Proc, NEW d \in Env, Joins(p, d), op'[p].step # "committing",
              UNCHANGED <<snaps, served, version, ecv, current>>,
              blurred' = BlurredBy(d, op'[p].kind),
              IF op'[p].kind = "assign" THEN ecv[d] = 0 ELSE op'[p].ecv = ecv[d],
              \/ op'[p].kind = "rollback" /\ lease' = lease
              \/ lease[d] = Free /\ lease' = [lease EXCEPT ![d] = p]
       PROVE  LiveAt(e)'
  <2>1. CASE d = e
    <3>1. op'[p].kind = "rollback" \/ (lease[e] = Free /\ lease'[e] = p)
      BY <1>0, <1>11, <2>1 DEF TypeOK
    <3>2. QED
      BY <1>0, <1>11, <2>1, <3>1, JoinsLive
  <2>2. CASE d # e
    <3>1. ASSUME NEW q \in Proc
          PROVE  OpKeeps(q, e)
      <4>1. CASE q = p
        BY <1>0, <1>11, <2>2, <4>1, IdleFields DEF OpKeeps, Joins
      <4>2. CASE q # p
        <5>1. op[q].env = e => op'[q].alone = op[q].alone
          <6>1. op[q].alone \in BOOLEAN /\ op'[q].alone = (op[q].alone /\ op[q].env # d)
            BY <1>0, <1>11, <4>2, OpFields DEF Joins
          <6>2. QED
            BY <2>2, <6>1
        <5>2. QED
          BY <1>11, <4>2, <5>1 DEF OpKeeps, Joins
      <4>3. QED
        BY <4>1, <4>2
    <3>2. lease'[e] = lease[e] /\ (e \in blurred => e \in blurred')
      BY <1>0, <1>11, <2>2 DEF BlurredBy, TypeOK
    <3>3. QED
      BY <1>1, <1>11, <3>1, <3>2
  <2>3. QED
    BY <2>1, <2>2
<1>12. ASSUME NEW p \in Proc, NEW d \in Env, NEW c \in Cut, Assign(p, d, c)
       PROVE  LiveAt(e)'
  <2>1. Joins(p, d) /\ op'[p].kind = "assign" /\ op'[p].step = "switching"
    BY <1>0, <1>12, AssignOp
  <2>2. QED
    BY <1>11, <1>12, <2>1 DEF Assign, aptlyVars
<1>13. ASSUME NEW p \in Proc, NEW d \in Env, NEW c \in 0..MaxCuts, Promote(p, d, c)
       PROVE  LiveAt(e)'
  <2>1. /\ Joins(p, d) /\ op'[p].kind = "promote" /\ op'[p].step # "committing"
        /\ op'[p].ecv = ecv[d]
    BY <1>0, <1>13, PromoteOp
  <2>2. QED
    BY <1>11, <1>13, <2>1 DEF Promote, aptlyVars, rowVars
<1>14. ASSUME NEW p \in Proc, NEW d \in Env, NEW c \in Cut, Rollback(p, d, c)
       PROVE  LiveAt(e)'
  <2>1. /\ Joins(p, d) /\ op'[p].kind = "rollback" /\ op'[p].step # "committing"
        /\ op'[p].ecv = ecv[d]
    BY <1>0, <1>14, RollbackOp
  <2>2. QED
    BY <1>11, <1>14, <2>1 DEF Rollback, aptlyVars, rowVars
\* Something is made live in another environment.
<1>15. ASSUME NEW p \in Proc, Others(p), op[p].env # e, op'[p].env # e,
              UNCHANGED <<snaps, version>>, served'[e] = served[e],
              ecv'[e] = ecv[e], current'[e] = current[e],
              e \in blurred => e \in blurred', UNCHANGED lease \/ Release(p)
       PROVE  LiveAt(e)'
  <2>1. OpKeeps(p, e)
    BY <1>15 DEF OpKeeps
  <2>2. \A q \in Proc : OpKeeps(q, e)
    BY <1>15, <2>1, OthersKeep
  <2>3. \A q \in Proc : lease[e] = q /\ op'[q].env = e => lease'[e] = q
    BY <1>0, <1>15
  <2>4. \A c \in Versions : c \in Versions' /\ FinalOf(c)' = FinalOf(c)
    BY <1>15 DEF Versions, FinalOf
  <2>5. QED
    BY <1>0, <1>15, <2>2, <2>3, <2>4, KeepsLive
<1>16. ASSUME NEW p \in Proc, Switch(p) \/ SwitchLate(p) \/ Commit(p)
       PROVE  LiveAt(e)'
  <2>1. CASE op[p].env = e
    BY <1>0, <1>16, <2>1, SwitchLive, SwitchLateLive, CommitLive
  <2>2. CASE op[p].env # e
    <3>1. Others(p) /\ op'[p].env # e
      BY <1>0, <1>16, <2>2, EndOp, GotoOp, IdleFields
         DEF Switch, SwitchLate, Commit, MovesTo, Step
    <3>2. /\ UNCHANGED <<snaps, version>> /\ served'[e] = served[e]
          /\ ecv'[e] = ecv[e] /\ current'[e] = current[e]
          /\ e \in blurred => e \in blurred'
          /\ UNCHANGED lease \/ Release(p)
      BY <1>0, <1>16, <2>2 DEF Switch, SwitchLate, Commit, TypeOK, aptlyVars, rowVars, histVars
    <3>3. QED
      BY <1>15, <2>2, <3>1, <3>2
  <2>3. QED
    BY <2>1, <2>2
\* The assignment has been removed: nothing is live.
<1>17. ASSUME NEW p \in Proc, CommitFails(p)
       PROVE  LiveAt(e)'
  <2>1. Others(p) /\ op'[p] = Idle
    BY <1>0, <1>17, EndOp DEF CommitFails
  <2>2. /\ UNCHANGED <<snaps, served, version, ecv, current, blurred>> /\ Release(p)
        /\ op[p].step = "committing"
    BY <1>17 DEF CommitFails, aptlyVars, rowVars, histVars
  <2>3. ASSUME op[p].env = e, e \notin blurred
        PROVE  ecv[e] = 0
    <3>1. p \in Busy(e) /\ Calm(p)
      BY <2>3 DEF Busy, Calm
    <3>2. /\ op[p].cut \in Versions
          /\ IF op[p].kind = "assign" THEN ecv[e] = 0 ELSE ecv[e] \in {0, op[p].ecv}
      BY <1>0, <2>2, <3>1 DEF LiveAt, Undisturbed
    <3>3. ~Intact(p)
      BY <1>17 DEF CommitFails
    <3>4. QED
      BY <2>3, <3>2, <3>3 DEF Intact, Versions
  <2>4. QED
    BY <1>0, <1>3, <2>1, <2>2, <2>3, IdleFields
<1>18. ASSUME NEW d \in Env, Unassign(d)
       PROVE  LiveAt(e)'
  <2>1. /\ UNCHANGED <<snaps, served, version, lease, blurred, op>>
        /\ ecv'[e] = 0 \/ (ecv'[e] = ecv[e] /\ current'[e] = current[e])
    BY <1>0, <1>18 DEF Unassign, TypeOK, aptlyVars, histVars
  <2>2. \A q \in Proc : OpKeeps(q, e)
    BY <2>1 DEF OpKeeps
  <2>3. QED
    BY <1>1, <2>1, <2>2
<1>19. ASSUME NEW p \in Proc, NEW c \in Cut, Delete(p, c)
       PROVE  LiveAt(e)'
  <2>1. Others(p) /\ op[p] = Idle /\ op'[p].env = NoEnv
    BY <1>0, <1>19, DeleteOp
  <2>2. UNCHANGED <<snaps, served, version, ecv, current, lease, blurred>>
    BY <1>19 DEF Delete, aptlyVars, rowVars, histVars
  <2>3. QED
    BY <1>0, <1>3, <2>1, <2>2, IdleFields
<1>20. ASSUME NEW p \in Proc, DeleteStart(p)
       PROVE  LiveAt(e)'
  <2>1. Others(p) /\ op[p].step = "queued" /\ (op'[p] = Idle \/ MovesTo(p, "dropping"))
    BY <1>0, <1>20, DeleteStartOp
  <2>2. UNCHANGED <<snaps, served, version, ecv, current, lease, blurred>>
    BY <1>20 DEF DeleteStart, aptlyVars, rowVars, histVars
  <2>3. \/ op'[p].env # e
        \/ MovesTo(p, op'[p].step) /\ op'[p].step # "committing"
    BY <1>0, <2>1, IdleFields DEF MovesTo
  <2>4. QED
    BY <1>3, <2>1, <2>2, <2>3
\* aptly lets go of no snapshot that is served, the database of no row that is live
\* or whose snapshots are all there.
<1>21. ASSUME NEW p \in Proc, Drop(p) \/ DropFails(p) \/ DropLate(p) \/ Erase(p)
       PROVE  LiveAt(e)'
  <2>0. PICK c : c = op[p].cut
    OBVIOUS
  <2>1. /\ op[p].step \in {"dropping", "erasing"} /\ op[p].env # e /\ c \in Cut
        /\ UNCHANGED <<served, ecv, current, lease, blurred>>
    BY <1>0, <1>21, <2>0 DEF Drop, DropFails, DropLate, Erase, Shape, ShapeOf,
                             aptlyVars, rowVars, histVars
  <2>2. Others(p) /\ op'[p].env # e
    <3>1. op[p].step = "dropping" => op[p].todo # <<>>
      BY <1>0 DEF Shape, ShapeOf
    <3>2. CASE Drop(p)
      BY <1>0, <2>1, <3>1, <3>2, DropOp DEF Drop, MovesTo
    <3>3. CASE DropFails(p) \/ DropLate(p) \/ Erase(p)
      BY <1>0, <3>3, EndOp, IdleFields DEF DropFails, DropLate, Erase
    <3>4. QED
      BY <1>21, <3>2, <3>3
  <2>3. \A q \in Proc : OpKeeps(q, e)
    BY <2>1, <2>2, OthersKeep DEF OpKeeps
  <2>4. served[e] \subseteq snaps => served[e] \subseteq snaps'
    BY <1>21 DEF Drop, DropFails, DropLate, Erase, Droppable, aptlyVars
  <2>5. ASSUME NEW d \in Versions, (ecv'[e] # 0 /\ current[e] = d) \/ FinalOf(d) \subseteq snaps
        PROVE  d \in Versions' /\ FinalOf(d)' = FinalOf(d)
    <3>1. version'[d].there = version[d].there /\ version'[d].filtered = version[d].filtered
      <4>1. CASE d # c
        BY <1>0, <1>21, <2>0, <2>1, <4>1
           DEF Drop, DropFails, DropLate, Erase, TypeOK, rowVars, Versions
      <4>2. CASE d = c /\ (Drop(p) \/ DropFails(p) \/ DropLate(p))
        <5>1. version[c] \in Version
          BY <1>0, <2>1 DEF TypeOK
        <5>2. \/ version' = version
              \/ version' = [version EXCEPT ![c].names = op[p].todo]
          BY <2>0, <4>2 DEF Drop, DropFails, DropLate, rowVars
        <5>3. QED
          BY <1>0, <2>1, <4>2, <5>1, <5>2 DEF TypeOK, Version
      <4>3. CASE d = c /\ Erase(p)
        <5>1. DroppingBy(p, c) /\ op[p].step = "erasing"
          BY <2>0, <2>1, <4>3 DEF Store, Dropping, Deleting, Erase
        <5>2. SnapsOf(c) = {}
          BY <5>1 DEF DroppingBy, Elements
        <5>3. ~(FinalOf(c) \subseteq snaps)
          BY <1>0, <2>1, <5>2, FinalOwn, NamesOfCut, VersionFields DEF FinalOf
        <5>4. ecv[e] # 0 /\ current[e] = c
          BY <2>1, <2>5, <4>3, <5>3
        <5>5. QED
          BY <2>0, <4>3, <5>4 DEF Erase
      <4>4. QED
        BY <1>21, <4>1, <4>2, <4>3
    <3>2. QED
      BY <3>1 DEF Versions, FinalOf
  <2>6. QED
    BY <1>0, <2>1, <2>3, <2>4, <2>5, KeepsLive
<1>22. ASSUME NEW p \in Proc, Crash(p)
       PROVE  LiveAt(e)'
  <2>1. Others(p) /\ op'[p] = Idle
    BY <1>0, <1>22, EndOp DEF Crash
  <2>2. /\ UNCHANGED <<snaps, served, version, ecv, current>>
        /\ e \in blurred => e \in blurred'
        /\ op[p].env = e => op[p].step # "committing" \/ e \in blurred'
    BY <1>22 DEF Crash, aptlyVars, rowVars
  <2>3. \A q \in Proc \ {p} : lease[e] = q => lease'[e] = q
    BY <1>22 DEF Crash
  <2>4. QED
    BY <1>0, <1>3, <2>1, <2>2, <2>3, IdleFields
<1>23. ASSUME NEW d \in Env, Lapse(d)
       PROVE  LiveAt(e)'
  <2>1. /\ UNCHANGED <<snaps, served, version, ecv, current, op>>
        /\ e \in blurred => e \in blurred'
    BY <1>23 DEF Lapse, aptlyVars, rowVars
  <2>2. \A q \in Proc : lease[e] = q => lease'[e] = q \/ e \in blurred'
    BY <1>0, <1>23 DEF Lapse, TypeOK
  <2>3. \A q \in Proc : OpKeeps(q, e)
    BY <2>1 DEF OpKeeps
  <2>4. QED
    BY <1>1, <2>1, <2>2, <2>3
<1>24. ASSUME NEW row \in audit, Purge(row)
       PROVE  LiveAt(e)'
  <2>1. UNCHANGED <<snaps, served, version, ecv, current, op, lease, blurred>>
    BY <1>24 DEF Purge, aptlyVars, histVars
  <2>2. \A q \in Proc : OpKeeps(q, e)
    BY <2>1 DEF OpKeeps
  <2>3. QED
    BY <1>1, <2>1, <2>2
<1>25. QED
  BY <1>2, <1>4, <1>5, <1>6, <1>8, <1>9, <1>10, <1>12, <1>13, <1>14, <1>16, <1>17, <1>18,
     <1>19, <1>20, <1>21, <1>22, <1>23, <1>24 DEF Next

\* What aptly serves is what the database says is live, in every environment that is
\* at rest and not blurred: a promotion holds the lease from before it looks at the
\* version until its commit, and no delete takes what is live.
THEOREM ServedRecorded == Spec => []ServedIsRecorded
<1>1. Basic /\ Store /\ Live /\ [Next]_vars => (Basic /\ Store /\ Live)'
  BY NextBasic, NextStore, NextLive
<1>2. Live => ServedIsRecorded
  BY DEF Live, LiveAt, Recorded, ServedIsRecorded, FinalOf
<1>3. QED
  BY InitBasic, InitStore, InitLive, <1>1, <1>2, PTL DEF Spec
=============================================================================

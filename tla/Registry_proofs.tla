---------------------------- MODULE Registry_proofs ----------------------------
(***************************************************************************)
(* For any environments, hosts, keys, handlers and bounds: the variables of *)
(* Registry keep their types, nothing refers to an environment that is      *)
(* gone, keys count their registrations, a host has one row, assignments    *)
(* and memberships are those asked for, and the promotion path keeps its    *)
(* order, each with the exceptions its property names.                      *)
(***************************************************************************)
EXTENDS Registry, FiniteSetTheorems, WellFoundedInduction, TLAPS

\* Ids are given once.
Ids == Live \subseteq 1..envs /\ Known \subseteq 1..servers

\* A position that was read leaves room behind it.
Fits ==
  \A p \in Handler :
    op[p].kind = "create" => Behind(op[p].prior, op[p].from) <= MaxEnvs

\* What a registration and a replacement read of keys and rows that are only
\* added to is still so.
Read ==
  \A p \in Handler :
    LET o == op[p]
    IN  /\ o.kind = "register" =>
             /\ key[o.key].env # 0 /\ o.uses < key[o.key].max
             /\ o.server = 0 => o.env = key[o.key].env
             /\ o.server # 0 => o.server \in Known
             /\ o.server = 0 /\ ~o.late => Found(o.host) = {}
        /\ o.kind = "replace" => o.to \subseteq Known

\* Nobody registered with a key that is not there.
Unissued == \A k \in Key : key[k].env = 0 => key[k].uses = 0 /\ used[k] = 0

Once == \A h \in Host \ twice : \A s, t \in Found(h) : s = t

IInv ==
  /\ TypeOK /\ Ids /\ Fits /\ Read /\ Unissued /\ Once /\ Unique(env)
  /\ NothingDangles /\ UsesCounted /\ AssignmentsStick /\ GroupAsAsked

-----------------------------------------------------------------------------
LEMMA RestIsOp == Rest \in Op /\ Rest.kind = "rest"
BY DEF Rest, Op

\* The fields of an operation, by its kind.
LEMMA OpFields ==
  ASSUME NEW o \in Op
  PROVE  /\ o.kind = "create" =>
              /\ o.name \in EnvName /\ o.prior \in EnvId \cup {0} /\ o.from \in Pos
              /\ o.seed \in BOOLEAN /\ o.seen \in SUBSET EnvId
         /\ o.kind = "delete" => o.env \in EnvId
         /\ o.kind = "assign" => o.server \in ServerId /\ o.env \in EnvId
         /\ o.kind = "register" =>
              /\ o.key \in Key /\ o.host \in Host /\ o.server \in ServerId \cup {0}
              /\ o.env \in EnvId /\ o.uses \in Nat /\ o.joins \in BOOLEAN
              /\ o.late \in BOOLEAN
         /\ o.kind = "replace" => o.seen \in SUBSET ServerId /\ o.to \in SUBSET ServerId
BY DEF Op

\* A registration that is too late differs in that only.
LEMMA LateFields ==
  ASSUME NEW q \in Handler, NEW h \in Host, op[q] \in Op
  PROVE  /\ Late(h, q) \in Op /\ Late(h, q).kind = op[q].kind
         /\ op[q].kind # "register" => Late(h, q) = op[q]
         /\ op[q].kind = "register" =>
              /\ Late(h, q).key = op[q].key /\ Late(h, q).host = op[q].host
              /\ Late(h, q).server = op[q].server /\ Late(h, q).env = op[q].env
              /\ Late(h, q).uses = op[q].uses /\ Late(h, q).joins = op[q].joins
              /\ ~Late(h, q).late => op[q].host # h /\ ~op[q].late
<1>1. CASE op[q].kind = "register"
  <2> DEFINE new == [op[q] EXCEPT !.late = TRUE]
             Reg == [kind : {"register"}, key : Key, host : Host, server : ServerId \cup {0},
                     env : EnvId, uses : Nat, joins : BOOLEAN, late : BOOLEAN]
  <2>1. op[q] \in Reg
    BY <1>1 DEF Op
  <2>2. /\ new \in Reg /\ new.kind = "register" /\ new.late = TRUE
        /\ new.key = op[q].key /\ new.host = op[q].host /\ new.server = op[q].server
        /\ new.env = op[q].env /\ new.uses = op[q].uses /\ new.joins = op[q].joins
    BY <2>1
  <2>3. new \in Op
    BY <2>2 DEF Op
  <2>4. CASE op[q].host = h
    <3>1. Late(h, q) = new
      BY <1>1, <2>4 DEF Late
    <3> HIDE DEF new
    <3>2. QED
      BY <1>1, <2>2, <2>3, <3>1
  <2>5. CASE op[q].host # h
    BY <1>1, <2>1, <2>5 DEF Late
  <2>6. QED
    BY <2>4, <2>5
<1>2. CASE op[q].kind # "register"
  BY <1>2 DEF Late
<1>3. QED
  BY <1>1, <1>2

\* A path that is not empty has a last environment.
LEMMA LastExists ==
  ASSUME TypeOK, Live # {}
  PROVE  Last \in Live
<1> DEFINE S == {MaxEnvs - env[i].pos : i \in Live}
<1>1. \A i \in Live : env[i].pos \in 0..MaxEnvs
  BY DEF TypeOK, Live, Pos
<1>2. S \in SUBSET Nat /\ S # {}
  BY <1>1, BoundAssumption
<1>3. \A i \in Live : MaxEnvs - env[i].pos \in S
  OBVIOUS
<1>4. \A n \in S : \E i \in Live : n = MaxEnvs - env[i].pos
  OBVIOUS
<1> HIDE DEF S
<1>5. PICK n \in S : \A m \in S : n <= m
  <2> DEFINE R == OpToRel(<, Nat)
  <2>1. IsWellFoundedOn(R, Nat)
    BY NatLessThanWellFounded
  <2>2. ASSUME NEW m \in Nat, NEW n \in Nat, m < n PROVE <<m, n>> \in R
    <3>1. R = {ss \in Nat \X Nat : ss[1] < ss[2]}
      BY DEF OpToRel
    <3>2. QED
      BY <2>2, <3>1
  <2> HIDE DEF R
  <2>3. PICK n \in S : \A m \in S : ~(<<m, n>> \in R)
    BY <1>2, <2>1, WFMin
  <2>4. ASSUME NEW m \in S PROVE n <= m
    <3>1. m \in Nat /\ n \in Nat
      BY <1>2
    <3>2. ~(m < n)
      BY <2>2, <2>3, <3>1
    <3>3. QED
      BY <3>1, <3>2
  <2>5. QED
    BY <2>4
<1>6. PICK i \in Live : n = MaxEnvs - env[i].pos
  BY <1>4
<1>7. ASSUME NEW j \in Live PROVE env[j].pos <= env[i].pos
  <2>1. MaxEnvs - env[i].pos <= MaxEnvs - env[j].pos
    BY <1>3, <1>5, <1>6
  <2>2. env[i].pos \in Nat /\ env[j].pos \in Nat /\ MaxEnvs \in Nat
    BY <1>1, BoundAssumption
  <2>3. QED
    BY <2>1, <2>2
<1>8. QED
  BY <1>7 DEF Last

-----------------------------------------------------------------------------
LEMMA InitIInv == Init => IInv
<1> SUFFICES ASSUME Init PROVE IInv
  OBVIOUS
<1>1. Live = {} /\ Known = {}
  BY DEF Init, Live, Known, NoEnv, NoServer
<1>2. TypeOK
  <2>1. NoEnv \in [name : EnvName \cup {None}, pos : Pos]
    BY BoundAssumption DEF NoEnv, Pos
  <2>2. NoServer \in [host : Host \cup {None}, env : EnvId \cup {0}, active : BOOLEAN]
    BY DEF NoServer
  <2>3. NoKey \in [env : EnvId \cup {0}, group : BOOLEAN, max : 1..MaxUses, uses : Nat,
                   revoked : BOOLEAN]
    BY BoundAssumption DEF NoKey
  <2>4. 0 \in 0..MaxEnvs /\ 0 \in 0..MaxServers /\ 0 \in 0..MaxRequests
    BY BoundAssumption
  <2> HIDE DEF Live, Known
  <2>5. QED
    BY <1>1, <2>1, <2>2, <2>3, <2>4, RestIsOp DEF Init, TypeOK
<1>3. Ids /\ Fits /\ Read /\ Unique(env) /\ NothingDangles /\ AssignmentsStick /\ GroupAsAsked
  BY <1>1, RestIsOp DEF Init, Ids, Fits, Read, Unique, NothingDangles, AssignmentsStick,
     GroupAsAsked, NoEnv, NoKey
<1>4. Unissued /\ UsesCounted
  BY BoundAssumption DEF Init, Unissued, UsesCounted, NoKey
<1>5. Once
  BY <1>1 DEF Once, Found
<1>6. QED
  BY <1>2, <1>3, <1>4, <1>5 DEF IInv


-----------------------------------------------------------------------------
\* A handler that takes up o reads what it reads, and nothing changes.
LEMMA HoldsIInv ==
  ASSUME IInv, NEW p \in Handler, NEW o \in Op, Asks, Holds(p, o),
         o.kind = "create" => Behind(o.prior, o.from) <= MaxEnvs,
         o.kind = "register" =>
           /\ key[o.key].env # 0 /\ o.uses < key[o.key].max
           /\ o.server = 0 => o.env = key[o.key].env
           /\ o.server # 0 => o.server \in Known
           /\ o.server = 0 /\ ~o.late => Found(o.host) = {},
         o.kind = "replace" => o.to \subseteq Known
  PROVE  IInv'
<1>1. op \in [Handler -> Op] /\ op' = [op EXCEPT ![p] = o]
      /\ requests' \in 0..MaxRequests
  BY BoundAssumption DEF IInv, TypeOK, Holds, Asks
<1>2. /\ UNCHANGED <<env, server, key, member, viewed, envs, servers>>
      /\ UNCHANGED <<used, blurred, twice, placed, asked, mixed>>
  BY DEF Holds, rows, history
<1>3. TypeOK'
  BY <1>1, <1>2 DEF IInv, TypeOK, Known, Live
<1>4. Fits'
  BY <1>1 DEF IInv, Fits
<1>5. Known' = Known /\ \A h \in Host : Found(h)' = Found(h)
  BY <1>2 DEF Known, Found
<1>6. Read'
  <2> SUFFICES ASSUME NEW q \in Handler
               PROVE  LET r == op'[q]
                      IN  /\ r.kind = "register" =>
                               /\ key[r.key].env # 0 /\ r.uses < key[r.key].max
                               /\ r.server = 0 => r.env = key[r.key].env
                               /\ r.server # 0 => r.server \in Known
                               /\ r.server = 0 /\ ~r.late => Found(r.host) = {}
                          /\ r.kind = "replace" => r.to \subseteq Known
    BY <1>1, <1>2, <1>5 DEF Read, Found, Known
  <2>1. CASE q = p
    BY <1>1, <2>1
  <2>2. CASE q # p
    <3>1. op'[q] = op[q]
      BY <1>1, <2>2
    <3>2. QED
      BY <3>1 DEF IInv, Read
  <2>3. QED
    BY <2>1, <2>2
<1>7. Ids' /\ Unissued' /\ Unique(env)'
  BY <1>2 DEF IInv, Ids, Live, Known, Unissued, Unique
<1>8. Once' /\ NothingDangles' /\ UsesCounted' /\ AssignmentsStick' /\ GroupAsAsked'
  BY <1>2 DEF IInv, Once, Found, Known, Live, NothingDangles, UsesCounted, AssignmentsStick,
     GroupAsAsked
<1>9. QED
  BY <1>3, <1>4, <1>6, <1>7, <1>8 DEF IInv

LEMMA CreateReadIInv ==
  ASSUME IInv, NEW p \in Handler, NEW n \in EnvName, NEW i \in EnvId \cup {0},
         CreateRead(p, n, i)
  PROVE  IInv'
<1> DEFINE after == IF i = 0 /\ Live # {} THEN Last ELSE i
           from == IF after = 0 THEN 0 ELSE env[after].pos
           seed == i = 0 /\ ~HasLibrary
           seen == {j \in Live : env[j].pos >= Behind(after, from)}
           o == [kind |-> "create", name |-> n, prior |-> after, from |-> from,
                 seed |-> seed, seen |-> seen]
<1>1. Asks /\ Holds(p, o) /\ Behind(after, from) <= MaxEnvs
  BY DEF CreateRead
<1>2. TypeOK
  BY DEF IInv
<1>3. after \in EnvId \cup {0}
  BY <1>2, LastExists DEF Live
<1>4. from \in Pos /\ seen \in SUBSET EnvId /\ seed \in BOOLEAN
  BY <1>2, <1>3, BoundAssumption DEF TypeOK, Pos, Live
<1> HIDE DEF after, from, seed, seen
<1>5. o \in Op /\ o.kind = "create" /\ o.prior = after /\ o.from = from
  BY <1>3, <1>4 DEF Op
<1> HIDE DEF o
<1>6. QED
  BY <1>1, <1>5, HoldsIInv

LEMMA OtherReadsIInv ==
  ASSUME IInv, NEW p \in Handler,
         \/ \E i \in EnvId : DeleteRead(p, i)
         \/ \E s \in ServerId, i \in EnvId : AssignRead(p, s, i)
         \/ \E to \in SUBSET ServerId : ReplaceRead(p, to)
  PROVE  IInv'
<1>1. ASSUME NEW i \in EnvId, DeleteRead(p, i)
      PROVE  IInv'
  <2> DEFINE o == [kind |-> "delete", env |-> i]
  <2>1. Asks /\ Holds(p, o) /\ o \in Op /\ o.kind = "delete"
    BY <1>1 DEF DeleteRead, Op
  <2> HIDE DEF o
  <2>2. QED
    BY <2>1, HoldsIInv
<1>2. ASSUME NEW s \in ServerId, NEW i \in EnvId, AssignRead(p, s, i)
      PROVE  IInv'
  <2> DEFINE o == [kind |-> "assign", server |-> s, env |-> i]
  <2>1. Asks /\ Holds(p, o) /\ o \in Op /\ o.kind = "assign"
    BY <1>2 DEF AssignRead, Op
  <2> HIDE DEF o
  <2>2. QED
    BY <2>1, HoldsIInv
<1>3. ASSUME NEW to \in SUBSET ServerId, ReplaceRead(p, to)
      PROVE  IInv'
  <2> DEFINE o == [kind |-> "replace", seen |-> member, to |-> to]
  <2>1. member \in SUBSET ServerId
    BY DEF IInv, TypeOK, Known
  <2>2. Asks /\ Holds(p, o) /\ o \in Op /\ o.kind = "replace" /\ o.to \subseteq Known
    BY <1>3, <2>1 DEF ReplaceRead, Op
  <2> HIDE DEF o
  <2>3. QED
    BY <2>2, HoldsIInv
<1>4. QED
  BY <1>1, <1>2, <1>3

LEMMA RegisterReadIInv ==
  ASSUME IInv, NEW p \in Handler, NEW k \in Key, NEW h \in Host, RegisterRead(p, k, h)
  PROVE  IInv'
<1>1. PICK s \in IF Found(h) = {} THEN {0} ELSE Found(h) :
        Holds(p, [kind |-> "register", key |-> k, host |-> h, server |-> s,
                  env |-> IF s = 0 THEN key[k].env ELSE server[s].env,
                  uses |-> key[k].uses, joins |-> key[k].group /\ s \notin member,
                  late |-> FALSE])
  BY DEF RegisterRead
<1> DEFINE i == IF s = 0 THEN key[k].env ELSE server[s].env
           joins == key[k].group /\ s \notin member
           o == [kind |-> "register", key |-> k, host |-> h, server |-> s, env |-> i,
                 uses |-> key[k].uses, joins |-> joins, late |-> FALSE]
<1>2. Asks /\ key[k].env # 0 /\ key[k].uses < key[k].max
  BY DEF RegisterRead, Accepted
<1>3. /\ key[k].env \in EnvId \cup {0} /\ key[k].uses \in Nat /\ key[k].group \in BOOLEAN
      /\ \A t \in Known : server[t].env \in EnvId
  BY DEF IInv, TypeOK, NothingDangles, Live
<1>4. Found(h) \subseteq Known /\ 0 \notin ServerId /\ Known \subseteq ServerId
  BY BoundAssumption DEF Found, Known, ServerId
<1>5. s \in ServerId \cup {0} /\ (s # 0 => s \in Known) /\ (s = 0 => Found(h) = {})
  BY <1>4
<1>6. i \in EnvId /\ joins \in BOOLEAN
  BY <1>2, <1>3, <1>5
<1>7. Holds(p, o)
  BY <1>1
<1>8. s = 0 => i = key[k].env
  OBVIOUS
<1> HIDE DEF i, joins
<1>9. o \in Op /\ o.kind = "register" /\ o.key = k /\ o.host = h /\ o.server = s /\ o.env = i
      /\ o.uses = key[k].uses /\ o.late = FALSE
  BY <1>3, <1>5, <1>6 DEF Op
<1> HIDE DEF o
<1>10. QED
  BY <1>2, <1>5, <1>7, <1>8, <1>9, HoldsIInv


-----------------------------------------------------------------------------
\* What the handlers hold stays so while rows are added and keys are counted.
LEMMA OpsGoOn ==
  ASSUME IInv, op' \in [Handler -> Op],
         \A q \in Handler : \/ op'[q] = Rest \/ op'[q] = op[q]
                            \/ \E h \in Host : op'[q] = Late(h, q),
         \A k \in Key : key[k].env # 0 => /\ key'[k].env = key[k].env
                                          /\ key'[k].max = key[k].max,
         Known \subseteq Known',
         \A q \in Handler, h \in Host :
           op'[q].kind = "register" /\ op'[q].host = h /\ ~op'[q].late
           => Found(h)' = Found(h)
  PROVE  Fits' /\ Read'
<1>1. op \in [Handler -> Op]
  BY DEF IInv, TypeOK
<1>2. ASSUME NEW q \in Handler
      PROVE  /\ op'[q].kind = "create" =>
                  op'[q] = op[q] /\ Behind(op'[q].prior, op'[q].from) <= MaxEnvs
             /\ op'[q].kind = "replace" => op'[q] = op[q]
             /\ op'[q].kind = "register" =>
                  /\ op[q].kind = "register" /\ op'[q].key = op[q].key
                  /\ op'[q].host = op[q].host /\ op'[q].server = op[q].server
                  /\ op'[q].env = op[q].env /\ op'[q].uses = op[q].uses
                  /\ ~op'[q].late => ~op[q].late
  <2>1. CASE op'[q] = Rest
    BY <2>1, RestIsOp
  <2>2. CASE op'[q] = op[q]
    BY <2>2 DEF IInv, Fits
  <2>3. ASSUME NEW h \in Host, op'[q] = Late(h, q)
        PROVE  /\ op'[q].kind = op[q].kind
               /\ op[q].kind # "register" => op'[q] = op[q]
               /\ op'[q].kind = "register" =>
                    /\ op'[q].key = op[q].key
                    /\ op'[q].host = op[q].host /\ op'[q].server = op[q].server
                    /\ op'[q].env = op[q].env /\ op'[q].uses = op[q].uses
                    /\ ~op'[q].late => ~op[q].late
    BY <1>1, <2>3, LateFields
  <2>4. QED
    BY <2>1, <2>2, <2>3 DEF IInv, Fits
<1>3. Fits'
  BY <1>2 DEF Fits
<1>4. Read'
  <2> SUFFICES ASSUME NEW q \in Handler
               PROVE  LET r == op'[q]
                      IN  /\ r.kind = "register" =>
                               /\ key'[r.key].env # 0 /\ r.uses < key'[r.key].max
                               /\ r.server = 0 => r.env = key'[r.key].env
                               /\ r.server # 0 => r.server \in Known'
                               /\ r.server = 0 /\ ~r.late =>
                                    {s \in Known' : server'[s].host = r.host} = {}
                          /\ r.kind = "replace" => r.to \subseteq Known'
    BY DEF Read, Found
  <2>1. CASE op'[q].kind = "register"
    <3>1. /\ op[q].kind = "register" /\ op'[q].key = op[q].key
          /\ op'[q].host = op[q].host /\ op'[q].server = op[q].server
          /\ op'[q].env = op[q].env /\ op'[q].uses = op[q].uses
          /\ ~op'[q].late => ~op[q].late
      BY <1>2, <2>1
    <3>2. /\ key[op[q].key].env # 0 /\ op[q].uses < key[op[q].key].max
          /\ op[q].server = 0 => op[q].env = key[op[q].key].env
          /\ op[q].server # 0 => op[q].server \in Known
          /\ op[q].server = 0 /\ ~op[q].late => Found(op[q].host) = {}
      BY <3>1 DEF IInv, Read
    <3>3. op[q].key \in Key /\ op[q].host \in Host
      BY <1>1, <3>1, OpFields
    <3>4. key'[op[q].key].env = key[op[q].key].env /\ key'[op[q].key].max = key[op[q].key].max
      BY <3>2, <3>3
    <3>5. ASSUME op[q].server = 0, ~op'[q].late
          PROVE  {s \in Known' : server'[s].host = op[q].host} = {}
      <4>1. PICK h \in Host : h = op[q].host
        BY <3>3
      <4>2. Found(h)' = Found(h)
        BY <2>1, <3>1, <3>5, <4>1
      <4>3. Found(h) = {}
        BY <3>1, <3>2, <3>5, <4>1
      <4>4. QED
        BY <4>1, <4>2, <4>3 DEF Found
    <3>6. QED
      BY <2>1, <3>1, <3>2, <3>4, <3>5
  <2>2. CASE op'[q].kind = "replace"
    BY <1>2, <2>2 DEF IInv, Read
  <2>3. QED
    BY <2>1, <2>2
<1>5. QED
  BY <1>3, <1>4

\* The same when servers and keys are left alone.
LEMMA OpsGoOnAlone ==
  ASSUME IInv, UNCHANGED <<server, key>>,
         op' = op \/ \E p \in Handler : Done(p)
  PROVE  Fits' /\ Read' /\ op' \in [Handler -> Op]
<1>1. op \in [Handler -> Op]
  BY DEF IInv, TypeOK
<1>2. op' \in [Handler -> Op] /\ \A q \in Handler : op'[q] = Rest \/ op'[q] = op[q]
  BY <1>1, RestIsOp DEF Done
<1>3. Known' = Known /\ \A h \in Host : Found(h)' = Found(h)
  BY DEF Known, Found
<1>4. QED
  BY <1>2, <1>3, OpsGoOn

\* Servers, keys, members and their histories stay as they are.
LEMMA EnrolledStay ==
  ASSUME IInv, UNCHANGED <<server, key, member, servers>>,
         UNCHANGED <<used, blurred, twice, placed, asked, mixed>>
  PROVE  /\ Known' = Known /\ Unissued' /\ Once'
         /\ UsesCounted' /\ AssignmentsStick' /\ GroupAsAsked'
BY DEF IInv, Unissued, Once, Found, Known, UsesCounted, AssignmentsStick, GroupAsAsked

-----------------------------------------------------------------------------
(* The promotion path. *)

\* What a new environment does to the others.
LEMMA WithNewRows ==
  ASSUME IInv, NEW o \in Op, o.kind = "create", Behind(o.prior, o.from) <= MaxEnvs,
         \A i \in Live : env[i].pos < MaxEnvs,
         envs + (IF o.seed THEN 2 ELSE 1) <= MaxEnvs
  PROVE  LET grown == envs + (IF o.seed THEN 2 ELSE 1)
             new == WithNew(o)
         IN  /\ new \in [EnvId -> [name : EnvName \cup {None}, pos : Pos]]
             /\ \A i \in EnvId :
                  new[i] = IF o.seed /\ i = envs + 1 THEN [name |-> Library, pos |-> 0]
                           ELSE IF i = grown
                           THEN [name |-> o.name, pos |-> Behind(o.prior, o.from)]
                           ELSE IF i \in o.seen /\ i \in Live
                                   /\ env[i].pos >= Behind(o.prior, o.from)
                           THEN [name |-> env[i].name, pos |-> env[i].pos + 1]
                           ELSE env[i]
<1> DEFINE grown == envs + (IF o.seed THEN 2 ELSE 1)
           at == Behind(o.prior, o.from)
           new == WithNew(o)
<1>1. /\ env \in [EnvId -> [name : EnvName \cup {None}, pos : Pos]]
      /\ envs \in 0..MaxEnvs /\ o.name \in EnvName /\ o.from \in Pos
      /\ MaxEnvs \in Nat /\ Library \in EnvName
  BY OpFields, BoundAssumption, NameAssumption DEF IInv, TypeOK
<1>2. at \in Pos
  BY <1>1 DEF Behind, Pos
<1>3. grown = IF o.seed THEN envs + 2 ELSE envs + 1
  BY <1>1
<1>4. ASSUME NEW i \in EnvId
      PROVE  /\ new[i] = IF o.seed /\ i = envs + 1 THEN [name |-> Library, pos |-> 0]
                         ELSE IF i = grown THEN [name |-> o.name, pos |-> at]
                         ELSE IF i \in o.seen /\ i \in Live /\ env[i].pos >= at
                         THEN [name |-> env[i].name, pos |-> env[i].pos + 1]
                         ELSE env[i]
             /\ new[i] \in [name : EnvName \cup {None}, pos : Pos]
  <2>1. env[i] \in [name : EnvName \cup {None}, pos : Pos]
    BY <1>1
  <2>2. Shifted(o)[i] = IF i \in o.seen /\ i \in Live /\ env[i].pos >= at
                        THEN [env[i] EXCEPT !.pos = @ + 1] ELSE env[i]
    BY DEF Shifted
  <2>3. [env[i] EXCEPT !.pos = @ + 1] = [name |-> env[i].name, pos |-> env[i].pos + 1]
    BY <2>1
  <2>4. new[i] = IF o.seed /\ i = envs + 1 THEN [name |-> Library, pos |-> 0]
                 ELSE IF i = grown THEN [name |-> o.name, pos |-> at] ELSE Shifted(o)[i]
    BY <1>3 DEF WithNew
  <2>5. i \in Live => env[i].pos + 1 \in Pos
    BY <1>1, <2>1 DEF Pos
  <2> HIDE DEF at, new, grown
  <2>6. 0 \in Pos
    BY <1>1 DEF Pos
  <2> HIDE DEF Pos
  <2>7. QED
    BY <1>1, <1>2, <2>1, <2>2, <2>3, <2>4, <2>5, <2>6
<1>5. new = [i \in EnvId |-> new[i]]
  BY DEF WithNew
<1> HIDE DEF new
<1>6. new \in [EnvId -> [name : EnvName \cup {None}, pos : Pos]]
  BY <1>4, <1>5
<1>7. QED
  BY <1>4, <1>6 DEF new

LEMMA CreateCommitIInv ==
  ASSUME IInv, NEW p \in Handler, CreateCommit(p)
  PROVE  IInv'
<1> DEFINE o == op[p]
           grown == envs + (IF o.seed THEN 2 ELSE 1)
<1>1. /\ o \in Op /\ o.kind = "create" /\ Behind(o.prior, o.from) <= MaxEnvs
      /\ o.seed \in BOOLEAN /\ envs \in 0..MaxEnvs /\ MaxEnvs \in Nat
  BY OpFields, BoundAssumption DEF IInv, TypeOK, Fits, CreateCommit
<1>2. /\ grown <= MaxEnvs /\ \A i \in Live : env[i].pos < MaxEnvs
      /\ \/ Unique(WithNew(o)) /\ env' = WithNew(o) /\ envs' = grown
         \/ UNCHANGED <<env, envs>>
      /\ Done(p)
      /\ UNCHANGED <<server, key, member, viewed, servers, requests>>
      /\ UNCHANGED <<used, blurred, twice, placed, asked, mixed>>
  BY DEF CreateCommit, history
<1>3. Fits' /\ Read' /\ op' \in [Handler -> Op]
  BY <1>2, OpsGoOnAlone
<1>4. /\ Known' = Known /\ Unissued' /\ Once'
      /\ UsesCounted' /\ AssignmentsStick' /\ GroupAsAsked'
  BY <1>2, EnrolledStay
<1>5. /\ env' \in [EnvId -> [name : EnvName \cup {None}, pos : Pos]]
      /\ envs' \in 0..MaxEnvs /\ Live \subseteq Live' /\ Live' \subseteq 1..envs'
      /\ Unique(env')
  <2>1. CASE UNCHANGED <<env, envs>>
    BY <2>1 DEF IInv, TypeOK, Ids, Live
  <2>2. CASE Unique(WithNew(o)) /\ env' = WithNew(o) /\ envs' = grown
    <3>1. /\ env' \in [EnvId -> [name : EnvName \cup {None}, pos : Pos]]
          /\ \A i \in EnvId :
               env'[i] = IF o.seed /\ i = envs + 1 THEN [name |-> Library, pos |-> 0]
                         ELSE IF i = grown
                         THEN [name |-> o.name, pos |-> Behind(o.prior, o.from)]
                         ELSE IF i \in o.seen /\ i \in Live
                                 /\ env[i].pos >= Behind(o.prior, o.from)
                         THEN [name |-> env[i].name, pos |-> env[i].pos + 1]
                         ELSE env[i]
      BY <1>1, <1>2, <2>2, WithNewRows
    <3>2. o.name \in EnvName /\ o.name # None /\ Library # None
      BY <1>1, OpFields, NameAssumption
    <3>3. \A i \in EnvId :
            env'[i].name # None <=> (env[i].name # None \/ i = grown \/ (o.seed /\ i = envs + 1))
      BY <3>1, <3>2 DEF Live
    <3>4. envs' \in 0..MaxEnvs
      BY <1>1, <1>2, <2>2
    <3>5. \A i \in Live : i \in EnvId /\ i \in 1..envs
      BY DEF IInv, Ids, Live
    <3>6. Live \subseteq Live'
      BY <3>3 DEF Live
    <3>7. Live' \subseteq 1..envs'
      <4> SUFFICES ASSUME NEW i \in Live' PROVE i \in 1..envs'
        OBVIOUS
      <4>1. i \in EnvId /\ (i \in Live \/ i = grown \/ (o.seed /\ i = envs + 1))
        BY <3>3 DEF Live
      <4>2. i \in 1..MaxEnvs
        BY <4>1 DEF EnvId
      <4>3. i \in Live => i \in 1..envs
        BY <3>5
      <4>4. QED
        BY <1>1, <2>2, <4>1, <4>2, <4>3
    <3>8. QED
      BY <2>2, <3>1, <3>4, <3>6, <3>7
  <2>3. QED
    BY <1>2, <2>1, <2>2
<1>6. TypeOK'
  <2>1. viewed' \subseteq Live' /\ member' \subseteq Known'
    BY <1>2, <1>4, <1>5 DEF IInv, TypeOK
  <2> HIDE DEF Known, Live
  <2>2. QED
    BY <1>2, <1>3, <1>5, <2>1 DEF IInv, TypeOK
<1>7. Ids' /\ Unique(env)'
  BY <1>2, <1>4, <1>5 DEF IInv, Ids
<1>8. NothingDangles'
  BY <1>2, <1>4, <1>5 DEF IInv, NothingDangles
<1>9. QED
  BY <1>3, <1>4, <1>6, <1>7, <1>8 DEF IInv


LEMMA DeleteCommitIInv ==
  ASSUME IInv, NEW p \in Handler, DeleteCommit(p)
  PROVE  IInv'
<1> DEFINE i == op[p].env
<1>1. i \in EnvId /\ env \in [EnvId -> [name : EnvName \cup {None}, pos : Pos]]
  BY OpFields DEF IInv, TypeOK, DeleteCommit
<1>2. /\ env' = IF Referred(i) THEN env ELSE [env EXCEPT ![i] = NoEnv]
      /\ Done(p)
      /\ UNCHANGED <<server, key, member, viewed, envs, servers, requests>>
      /\ UNCHANGED <<used, blurred, twice, placed, asked, mixed>>
  BY DEF DeleteCommit, history
<1> HIDE DEF i
<1>3. Fits' /\ Read' /\ op' \in [Handler -> Op]
  BY <1>2, OpsGoOnAlone
<1>4. /\ Known' = Known /\ Unissued' /\ Once'
      /\ UsesCounted' /\ AssignmentsStick' /\ GroupAsAsked'
  BY <1>2, EnrolledStay
<1>5. NoEnv \in [name : EnvName \cup {None}, pos : Pos] /\ NoEnv.name = None
  BY BoundAssumption DEF NoEnv, Pos
<1>6. /\ env' \in [EnvId -> [name : EnvName \cup {None}, pos : Pos]]
      /\ \A j \in EnvId : env'[j] = IF Referred(i) \/ j # i THEN env[j] ELSE NoEnv
  BY <1>1, <1>2, <1>5
<1>7. Live' = IF Referred(i) THEN Live ELSE Live \ {i}
  BY <1>5, <1>6 DEF Live
<1>8. viewed' \subseteq Live' /\ NothingDangles'
  <2>1. CASE Referred(i)
    BY <1>2, <1>4, <1>7, <2>1 DEF IInv, TypeOK, NothingDangles
  <2>2. CASE ~Referred(i)
    <3>1. i \notin viewed /\ (\A s \in Known : server[s].env # i) /\ (\A k \in Key : key[k].env # i)
      BY <2>2 DEF Referred
    <3>2. QED
      BY <1>2, <1>4, <1>7, <2>2, <3>1 DEF IInv, TypeOK, NothingDangles
  <2>3. QED
    BY <2>1, <2>2
<1>9. TypeOK'
  <2>1. member' \subseteq Known'
    BY <1>2, <1>4 DEF IInv, TypeOK
  <2> HIDE DEF Known, Live
  <2>2. QED
    BY <1>2, <1>3, <1>6, <1>8, <2>1 DEF IInv, TypeOK
<1>10. Ids'
  BY <1>2, <1>4, <1>7 DEF IInv, Ids
<1>11. Unique(env)'
  BY <1>5, <1>6 DEF IInv, Unique
<1>12. QED
  BY <1>3, <1>4, <1>8, <1>9, <1>10, <1>11 DEF IInv

LEMMA AssignedIInv ==
  ASSUME IInv, NEW i \in EnvId, Assigned(i)
  PROVE  IInv'
<1>1. /\ viewed' \subseteq Live /\ requests' \in 0..MaxRequests
      /\ UNCHANGED <<env, server, key, member, op, envs, servers>>
      /\ UNCHANGED <<used, blurred, twice, placed, asked, mixed>>
  BY BoundAssumption DEF IInv, TypeOK, Assigned, Asks, history
<1>2. Fits' /\ Read' /\ op' \in [Handler -> Op]
  BY <1>1, OpsGoOnAlone
<1>3. /\ Known' = Known /\ Unissued' /\ Once'
      /\ UsesCounted' /\ AssignmentsStick' /\ GroupAsAsked'
  BY <1>1, EnrolledStay
<1>4. Live' = Live /\ Ids' /\ Unique(env)'
  BY <1>1 DEF IInv, Ids, Unique, Live, Known
<1>5. TypeOK' /\ NothingDangles'
  BY <1>1, <1>2, <1>3, <1>4 DEF IInv, TypeOK, NothingDangles
<1>6. QED
  BY <1>2, <1>3, <1>4, <1>5 DEF IInv

-----------------------------------------------------------------------------
(* Servers. *)

\* The environments stay, rows of servers are changed.
LEMMA PathStays ==
  ASSUME IInv, UNCHANGED <<env, envs, viewed>>
  PROVE  /\ Live' = Live /\ Unique(env)' /\ Live' \subseteq 1..envs'
         /\ viewed' \subseteq Live'
BY DEF IInv, TypeOK, Ids, Unique, Live

\* A new row is known, under its id, and is where it was put.
LEMMA InsertsRows ==
  ASSUME IInv, NEW h \in Host, NEW i \in EnvId, Inserts(h, i)
  PROVE  /\ server' \in [ServerId -> [host : Host \cup {None}, env : EnvId \cup {0}, active : BOOLEAN]]
         /\ placed' \in [ServerId -> EnvId \cup {0}]
         /\ servers' \in 0..MaxServers /\ servers' # servers
         /\ servers + 1 \in ServerId \ Known
         /\ Known' = Known \cup {servers + 1} /\ Known' \subseteq 1..servers'
         /\ server'[servers + 1] = [host |-> h, env |-> i, active |-> TRUE]
         /\ placed'[servers + 1] = i
         /\ \A s \in Known : server'[s] = server[s] /\ placed'[s] = placed[s]
<1>1. /\ server \in [ServerId -> [host : Host \cup {None}, env : EnvId \cup {0}, active : BOOLEAN]]
      /\ placed \in [ServerId -> EnvId \cup {0}] /\ servers \in 0..MaxServers
      /\ Known \subseteq 1..servers /\ MaxServers \in Nat
  BY BoundAssumption DEF IInv, TypeOK, Ids
<1>2. /\ servers < MaxServers /\ servers' = servers + 1
      /\ server' = [server EXCEPT ![servers + 1] = [host |-> h, env |-> i, active |-> TRUE]]
      /\ placed' = [placed EXCEPT ![servers + 1] = i]
  BY DEF Inserts
<1>3. servers + 1 \in ServerId /\ servers + 1 \notin Known
  BY <1>1, <1>2 DEF ServerId
<1>4. /\ server' \in [ServerId -> [host : Host \cup {None}, env : EnvId \cup {0}, active : BOOLEAN]]
      /\ placed' \in [ServerId -> EnvId \cup {0}]
      /\ server'[servers + 1] = [host |-> h, env |-> i, active |-> TRUE]
      /\ placed'[servers + 1] = i
      /\ \A s \in ServerId \ {servers + 1} : server'[s] = server[s] /\ placed'[s] = placed[s]
  BY <1>1, <1>2, <1>3
<1>5. h # None
  BY NameAssumption
<1>6. Known' = Known \cup {servers + 1}
  BY <1>3, <1>4, <1>5 DEF Known
<1>7. \A s \in Known : server'[s] = server[s] /\ placed'[s] = placed[s]
  BY <1>3, <1>4 DEF Known
<1>8. Known' \subseteq 1..servers' /\ servers' \in 0..MaxServers /\ servers' # servers
  BY <1>1, <1>2, <1>6
<1>9. QED
  BY <1>3, <1>4, <1>6, <1>7, <1>8

\* What a new row of a host does to the properties of servers.
LEMMA InsertsKeeps ==
  ASSUME IInv, NEW h \in Host, NEW i \in Live, Inserts(h, i), UNCHANGED <<env, envs, viewed>>,
         twice \subseteq twice', h \notin twice' => Found(h) = {}
  PROVE  /\ Once' /\ AssignmentsStick'
         /\ \A s \in Known' : server'[s].env \in Live'
         /\ \A g \in Host \ {h} : Found(g)' = Found(g)
<1>1. i \in EnvId
  BY DEF Live
<1>2. /\ Known' = Known \cup {servers + 1} /\ servers + 1 \notin Known
      /\ server'[servers + 1] = [host |-> h, env |-> i, active |-> TRUE]
      /\ placed'[servers + 1] = i
      /\ \A s \in Known : server'[s] = server[s] /\ placed'[s] = placed[s]
  BY <1>1, InsertsRows
<1>3. \A g \in Host \ {h} : Found(g)' = Found(g)
  BY <1>2 DEF Found
<1>4. Found(h)' = Found(h) \cup {servers + 1}
  BY <1>2 DEF Found
<1>5. Once'
  <2> SUFFICES ASSUME NEW g \in Host \ twice', NEW s \in Found(g)', NEW t \in Found(g)'
               PROVE  s = t
    BY DEF Once
  <2>1. CASE g = h
    BY <1>4, <2>1
  <2>2. CASE g # h
    BY <1>3, <2>2 DEF IInv, Once
  <2>3. QED
    BY <2>1, <2>2
<1>6. AssignmentsStick'
  BY <1>2 DEF IInv, AssignmentsStick
<1>7. \A s \in Known' : server'[s].env \in Live'
  BY <1>2, PathStays DEF IInv, NothingDangles
<1>8. QED
  BY <1>3, <1>5, <1>6, <1>7

LEMMA CreateServerIInv ==
  ASSUME IInv, NEW h \in Host, NEW i \in EnvId, CreateServer(h, i)
  PROVE  IInv'
<1>1. /\ i \in Live /\ Inserts(h, i) /\ requests' \in 0..MaxRequests
      /\ twice' = IF \E s \in Known : server[s].host = h THEN twice \cup {h} ELSE twice
      /\ op' = [q \in Handler |-> Late(h, q)]
      /\ UNCHANGED <<env, key, member, viewed, envs, used, blurred, asked, mixed>>
  BY BoundAssumption DEF IInv, TypeOK, CreateServer, Asks
<1>2. op \in [Handler -> Op] /\ twice \subseteq Host
  BY DEF IInv, TypeOK
<1>3. h \notin twice' => Found(h) = {}
  BY <1>1 DEF Found
<1>4. /\ Once' /\ AssignmentsStick'
      /\ \A s \in Known' : server'[s].env \in Live'
      /\ \A g \in Host \ {h} : Found(g)' = Found(g)
  BY <1>1, <1>3, InsertsKeeps
<1>5. /\ server' \in [ServerId -> [host : Host \cup {None}, env : EnvId \cup {0}, active : BOOLEAN]]
      /\ placed' \in [ServerId -> EnvId \cup {0}] /\ servers' \in 0..MaxServers
      /\ Known \subseteq Known' /\ Known' \subseteq 1..servers'
  BY <1>1, InsertsRows
<1>6. op' \in [Handler -> Op]
      /\ \A q \in Handler : op'[q].kind = "register" /\ ~op'[q].late => op'[q].host # h
  BY <1>1, <1>2, LateFields
<1>7. Fits' /\ Read'
  <2>1. \A q \in Handler : \E g \in Host : op'[q] = Late(g, q)
    BY <1>1
  <2>2. QED
    BY <1>1, <1>4, <1>5, <1>6, <2>1, OpsGoOn
<1>8. Live' = Live /\ Unique(env)' /\ Live' \subseteq 1..envs' /\ viewed' \subseteq Live'
  BY <1>1, PathStays
<1>9. TypeOK'
  <2>1. member' \subseteq Known' /\ twice' \subseteq Host
    BY <1>1, <1>2, <1>5 DEF IInv, TypeOK
  <2> HIDE DEF Known, Live
  <2>2. QED
    BY <1>1, <1>5, <1>6, <1>8, <2>1 DEF IInv, TypeOK
<1>10. Unissued' /\ UsesCounted' /\ GroupAsAsked' /\ Ids' /\ NothingDangles'
  BY <1>1, <1>4, <1>5, <1>8 DEF IInv, Unissued, UsesCounted, GroupAsAsked, Ids, NothingDangles
<1>11. QED
  BY <1>4, <1>7, <1>8, <1>9, <1>10 DEF IInv

\* Rows keep their hosts.
LEMMA HostsKeep ==
  ASSUME IInv, UNCHANGED <<key, member, twice, servers>>,
         \A s \in ServerId : server'[s].host = server[s].host,
         op' = op \/ \E p \in Handler : Done(p)
  PROVE  /\ Known' = Known /\ Once' /\ Fits' /\ Read' /\ op' \in [Handler -> Op]
<1>1. op \in [Handler -> Op]
  BY DEF IInv, TypeOK
<1>2. op' \in [Handler -> Op] /\ \A q \in Handler : op'[q] = Rest \/ op'[q] = op[q]
  BY <1>1, RestIsOp DEF Done
<1>3. Known' = Known
  BY DEF Known
<1>4. \A h \in Host : Found(h)' = Found(h)
  BY <1>3 DEF Found, Known
<1>5. Once'
  BY <1>4 DEF IInv, Once
<1>6. QED
  BY <1>2, <1>3, <1>4, <1>5, OpsGoOn

LEMMA DecommissionIInv ==
  ASSUME IInv, NEW s \in ServerId, Decommission(s)
  PROVE  IInv'
<1>1. /\ requests' \in 0..MaxRequests /\ server' = [server EXCEPT ![s].active = FALSE]
      /\ UNCHANGED <<env, key, member, viewed, op, envs, servers>>
      /\ UNCHANGED <<used, blurred, twice, placed, asked, mixed>>
  BY BoundAssumption DEF IInv, TypeOK, Decommission, Asks, history
<1>2. server \in [ServerId -> [host : Host \cup {None}, env : EnvId \cup {0}, active : BOOLEAN]]
  BY DEF IInv, TypeOK
<1>3. /\ server' \in [ServerId -> [host : Host \cup {None}, env : EnvId \cup {0}, active : BOOLEAN]]
      /\ \A t \in ServerId : server'[t].host = server[t].host /\ server'[t].env = server[t].env
  BY <1>1, <1>2
<1>4. Known' = Known /\ Once' /\ Fits' /\ Read' /\ op' \in [Handler -> Op]
  BY <1>1, <1>3, HostsKeep
<1>5. Live' = Live /\ Unique(env)' /\ Live' \subseteq 1..envs' /\ viewed' \subseteq Live'
  BY <1>1, PathStays
<1>6. AssignmentsStick' /\ NothingDangles'
  BY <1>1, <1>3, <1>4, <1>5 DEF IInv, AssignmentsStick, NothingDangles, Known
<1>7. Unissued' /\ UsesCounted' /\ GroupAsAsked' /\ Ids'
  BY <1>1, <1>4, <1>5 DEF IInv, Unissued, UsesCounted, GroupAsAsked, Ids
<1>8. TypeOK'
  BY <1>1, <1>3, <1>4, <1>5 DEF IInv, TypeOK
<1>9. QED
  BY <1>4, <1>5, <1>6, <1>7, <1>8 DEF IInv

LEMMA AssignCommitIInv ==
  ASSUME IInv, NEW p \in Handler, AssignCommit(p)
  PROVE  IInv'
<1> DEFINE s == op[p].server
           i == op[p].env
<1>1. /\ server \in [ServerId -> [host : Host \cup {None}, env : EnvId \cup {0}, active : BOOLEAN]]
      /\ placed \in [ServerId -> EnvId \cup {0}] /\ s \in ServerId /\ i \in EnvId
  BY OpFields DEF IInv, TypeOK, AssignCommit
<1>2. /\ \/ /\ i \in Live /\ server' = [server EXCEPT ![s].env = i]
            /\ placed' = [placed EXCEPT ![s] = i]
         \/ UNCHANGED <<server, placed>>
      /\ Done(p)
      /\ UNCHANGED <<env, key, member, viewed, envs, servers, requests>>
      /\ UNCHANGED <<used, blurred, twice, asked, mixed>>
  BY DEF AssignCommit
<1> HIDE DEF s, i
<1>3. /\ server' \in [ServerId -> [host : Host \cup {None}, env : EnvId \cup {0}, active : BOOLEAN]]
      /\ placed' \in [ServerId -> EnvId \cup {0}]
      /\ \A t \in ServerId :
           /\ server'[t].host = server[t].host
           /\ \/ server'[t].env = server[t].env /\ placed'[t] = placed[t]
              \/ server'[t].env = i /\ placed'[t] = i /\ i \in Live
  BY <1>1, <1>2
<1>4. Known' = Known /\ Once' /\ Fits' /\ Read' /\ op' \in [Handler -> Op]
  BY <1>2, <1>3, HostsKeep
<1>5. Live' = Live /\ Unique(env)' /\ Live' \subseteq 1..envs' /\ viewed' \subseteq Live'
  BY <1>2, PathStays
<1>6. AssignmentsStick' /\ NothingDangles'
  BY <1>2, <1>3, <1>4, <1>5 DEF IInv, AssignmentsStick, NothingDangles, Known
<1>7. Unissued' /\ UsesCounted' /\ GroupAsAsked' /\ Ids'
  BY <1>2, <1>4, <1>5 DEF IInv, Unissued, UsesCounted, GroupAsAsked, Ids
<1>8. TypeOK'
  BY <1>2, <1>3, <1>4, <1>5 DEF IInv, TypeOK
<1>9. QED
  BY <1>4, <1>5, <1>6, <1>7, <1>8 DEF IInv


-----------------------------------------------------------------------------
(* Keys and members. *)

LEMMA KeysIInv ==
  ASSUME IInv, NEW k \in Key,
         \/ \E i \in EnvId, g \in BOOLEAN, m \in 1..MaxUses : CreateKey(k, i, g, m)
         \/ RevokeKey(k)
  PROVE  IInv'
<1>1. /\ requests' \in 0..MaxRequests
      /\ UNCHANGED <<env, server, member, viewed, op, envs, servers>>
      /\ UNCHANGED <<used, blurred, twice, placed, asked, mixed>>
  <2>1. /\ Asks /\ UNCHANGED <<env, server, member, viewed, op, envs, servers>>
        /\ UNCHANGED <<used, blurred, twice, placed, asked, mixed>>
    BY DEF CreateKey, RevokeKey, history
  <2>2. requests \in 0..MaxRequests /\ MaxRequests \in Nat
    BY BoundAssumption DEF IInv, TypeOK
  <2>3. QED
    BY <2>1, <2>2 DEF Asks
<1>2. /\ key \in [Key -> [env : EnvId \cup {0}, group : BOOLEAN, max : 1..MaxUses, uses : Nat,
                          revoked : BOOLEAN]]
      /\ used \in [Key -> Nat]
  BY DEF IInv, TypeOK
<1> DEFINE KeyRow == [env : EnvId \cup {0}, group : BOOLEAN, max : 1..MaxUses, uses : Nat,
                      revoked : BOOLEAN]
<1>3. PICK new \in KeyRow :
        /\ key' = [key EXCEPT ![k] = new]
        /\ new.env \in Live
        /\ key[k].env # 0 => new.env = key[k].env /\ new.max = key[k].max
        /\ new.uses = key[k].uses
  <2>1. CASE RevokeKey(k)
    <3> DEFINE r == [key[k] EXCEPT !.revoked = TRUE]
    <3>1. key[k].env \in Live
      BY <2>1 DEF RevokeKey, IInv, NothingDangles
    <3>2. key[k] \in KeyRow
      BY <1>2
    <3>3. r \in KeyRow /\ r.env = key[k].env /\ r.max = key[k].max /\ r.uses = key[k].uses
      BY <3>2
    <3>4. key' = [key EXCEPT ![k] = r]
      BY <2>1 DEF RevokeKey
    <3> HIDE DEF r, KeyRow
    <3>5. QED
      BY <3>1, <3>3, <3>4
  <2>2. ASSUME NEW i \in EnvId, NEW g \in BOOLEAN, NEW m \in 1..MaxUses, CreateKey(k, i, g, m)
        PROVE  \E new \in KeyRow :
                 /\ key' = [key EXCEPT ![k] = new]
                 /\ new.env \in Live
                 /\ key[k].env # 0 => new.env = key[k].env /\ new.max = key[k].max
                 /\ new.uses = key[k].uses
    <3> DEFINE r == [NoKey EXCEPT !.env = i, !.group = g, !.max = m]
    <3>1. NoKey \in KeyRow /\ NoKey.uses = 0
      BY BoundAssumption DEF NoKey
    <3>2. r \in KeyRow /\ r.env = i /\ r.uses = 0
      BY <3>1
    <3>3. key' = [key EXCEPT ![k] = r] /\ i \in Live /\ key[k].env = 0
      BY <2>2 DEF CreateKey
    <3>4. key[k].uses = 0
      BY <3>3 DEF IInv, Unissued
    <3> HIDE DEF r, KeyRow
    <3>5. QED
      BY <3>2, <3>3, <3>4
  <2>3. QED
    BY <2>1, <2>2
<1>4. /\ key' \in [Key -> [env : EnvId \cup {0}, group : BOOLEAN, max : 1..MaxUses, uses : Nat,
                           revoked : BOOLEAN]]
      /\ \A j \in Key : key'[j] = IF j = k THEN new ELSE key[j]
  BY <1>2, <1>3
<1>5. \A j \in Key : /\ key[j].env # 0 => key'[j].env = key[j].env /\ key'[j].max = key[j].max
                     /\ key'[j].uses = key[j].uses
                     /\ key'[j].env # 0 => key'[j].env \in Live
  BY <1>3, <1>4 DEF IInv, NothingDangles
<1>6. Known' = Known /\ \A h \in Host : Found(h)' = Found(h)
  BY <1>1 DEF Known, Found
<1>7. Fits' /\ Read' /\ op' \in [Handler -> Op]
  <2>1. op' \in [Handler -> Op] /\ \A q \in Handler : op'[q] = op[q]
    BY <1>1 DEF IInv, TypeOK
  <2>2. QED
    BY <1>5, <1>6, <2>1, OpsGoOn
<1>8. Live' = Live /\ Unique(env)' /\ Live' \subseteq 1..envs' /\ viewed' \subseteq Live'
  BY <1>1, PathStays
<1>9. Unissued' /\ NothingDangles'
  BY <1>1, <1>5, <1>6, <1>8 DEF IInv, Unissued, NothingDangles
<1>10. UsesCounted'
  <2> SUFFICES ASSUME NEW j \in Key \ blurred
               PROVE  key'[j].uses = used[j] /\ used[j] <= key'[j].max
    BY <1>1 DEF UsesCounted
  <2>1. key[j].uses = used[j] /\ used[j] <= key[j].max
    BY DEF IInv, UsesCounted
  <2>2. CASE key[j].env # 0
    BY <1>5, <2>1, <2>2
  <2>3. CASE key[j].env = 0
    <3>1. key[j].uses = 0 /\ used[j] = 0
      BY <2>3 DEF IInv, Unissued
    <3>2. key'[j].max \in 1..MaxUses
      BY <1>4
    <3>3. QED
      BY <1>5, <3>1, <3>2
  <2>4. QED
    BY <2>2, <2>3
<1>11. Once' /\ AssignmentsStick' /\ GroupAsAsked' /\ Ids'
  BY <1>1, <1>6, <1>8 DEF IInv, Once, AssignmentsStick, GroupAsAsked, Ids
<1>12. TypeOK'
  BY <1>1, <1>4, <1>6, <1>7, <1>8 DEF IInv, TypeOK
<1>13. QED
  BY <1>7, <1>8, <1>9, <1>10, <1>11, <1>12 DEF IInv

LEMMA ReplaceCommitIInv ==
  ASSUME IInv, NEW p \in Handler, ReplaceCommit(p)
  PROVE  IInv'
<1>1. /\ op[p].kind = "replace" /\ op[p].to \subseteq Known /\ op[p].to \in SUBSET ServerId
      /\ member \subseteq Known /\ asked \subseteq ServerId /\ mixed \in BOOLEAN
      /\ mixed \/ member = asked
  BY OpFields DEF IInv, TypeOK, Read, ReplaceCommit, GroupAsAsked
<1>2. /\ \/ /\ member' = (member \ op[p].seen) \cup op[p].to
            /\ asked' = op[p].to /\ mixed' = (mixed \/ member # op[p].seen)
         \/ UNCHANGED <<member, asked, mixed>>
      /\ Done(p)
      /\ UNCHANGED <<env, server, key, viewed, envs, servers, requests>>
      /\ UNCHANGED <<used, blurred, twice, placed>>
  BY DEF ReplaceCommit
<1>3. member' \subseteq Known /\ asked' \subseteq ServerId /\ mixed' \in BOOLEAN
  <2>1. member' \subseteq Known /\ asked' \subseteq ServerId
    BY <1>1, <1>2
  <2>2. mixed' \in BOOLEAN
    BY <1>1, <1>2, Zenon
  <2>3. QED
    BY <2>1, <2>2
<1>4. mixed' \/ member' = asked'
  <2>1. CASE UNCHANGED <<member, asked, mixed>>
    BY <1>1, <2>1
  <2>2. CASE /\ member' = (member \ op[p].seen) \cup op[p].to
             /\ asked' = op[p].to /\ mixed' = (mixed \/ member # op[p].seen)
    <3>1. CASE member = op[p].seen
      BY <2>2, <3>1
    <3>2. CASE member # op[p].seen
      BY <2>2, <3>2, Zenon
    <3>3. QED
      BY <3>1, <3>2
  <2>3. QED
    BY <1>2, <2>1, <2>2
<1>5. Fits' /\ Read' /\ op' \in [Handler -> Op]
  BY <1>2, OpsGoOnAlone
<1>6. Live' = Live /\ Unique(env)' /\ Live' \subseteq 1..envs' /\ viewed' \subseteq Live'
  BY <1>2, PathStays
<1>7. Known' = Known /\ \A h \in Host : Found(h)' = Found(h)
  BY <1>2 DEF Known, Found
<1>8. Once' /\ AssignmentsStick' /\ Ids' /\ Unissued' /\ UsesCounted' /\ NothingDangles'
  BY <1>2, <1>6, <1>7 DEF IInv, Once, AssignmentsStick, Ids, Unissued, UsesCounted,
     NothingDangles
<1>9. TypeOK'
  BY <1>2, <1>3, <1>5, <1>6, <1>7 DEF IInv, TypeOK
<1>10. QED
  BY <1>4, <1>5, <1>6, <1>8, <1>9 DEF IInv, GroupAsAsked

LEMMA RegisterCommitIInv ==
  ASSUME IInv, NEW p \in Handler, RegisterCommit(p)
  PROVE  IInv'
<1> DEFINE o == op[p]
           s == IF o.server = 0 THEN servers + 1 ELSE o.server
           KeyRow == [env : EnvId \cup {0}, group : BOOLEAN, max : 1..MaxUses, uses : Nat,
                      revoked : BOOLEAN]
<1>1. /\ o.key \in Key /\ o.host \in Host /\ o.server \in ServerId \cup {0}
      /\ o.env \in EnvId /\ o.uses \in Nat /\ o.joins \in BOOLEAN /\ o.late \in BOOLEAN
      /\ o.kind = "register" /\ op \in [Handler -> Op]
  BY OpFields DEF IInv, TypeOK, RegisterCommit
<1>2. /\ key[o.key].env # 0 /\ o.uses < key[o.key].max
      /\ o.server = 0 => o.env = key[o.key].env
      /\ o.server # 0 => o.server \in Known
      /\ o.server = 0 /\ ~o.late => Found(o.host) = {}
  BY <1>1 DEF IInv, Read
<1>3. /\ UNCHANGED <<env, viewed, envs, requests, mixed>>
      /\ op' = [q \in Handler |-> IF q = p THEN Rest
                                  ELSE IF servers' # servers THEN Late(o.host, q) ELSE op[q]]
  BY DEF RegisterCommit
<1>4. \/ /\ RegisterServer(o)
         /\ member' = IF o.joins THEN member \cup {s} ELSE member
         /\ asked' = IF o.joins THEN asked \cup {s} ELSE asked
         /\ key' = [key EXCEPT ![o.key].uses = o.uses + 1]
         /\ used' = [used EXCEPT ![o.key] = @ + 1]
         /\ blurred' = IF key[o.key].uses # o.uses THEN blurred \cup {o.key} ELSE blurred
      \/ UNCHANGED <<server, servers, member, key, used, blurred, twice, placed, asked>>
  BY DEF RegisterCommit
<1>5. /\ key \in [Key -> KeyRow] /\ used \in [Key -> Nat] /\ twice \subseteq Host
      /\ member \subseteq Known /\ asked \subseteq ServerId /\ blurred \subseteq Key
      /\ mixed \/ member = asked
  BY DEF IInv, TypeOK, GroupAsAsked
<1>6. Live' = Live /\ Unique(env)' /\ Live' \subseteq 1..envs' /\ viewed' \subseteq Live'
  BY <1>3, PathStays
\* The row: a new one in the environment of the key, or nothing.
<1>7. \/ /\ o.server = 0 /\ Inserts(o.host, o.env) /\ o.env \in Live
         /\ twice' = IF o.late THEN twice \cup {o.host} ELSE twice
         /\ s = servers + 1
      \/ /\ UNCHANGED <<server, servers, placed, twice>>
         /\ (o.server = 0 \/ s \in Known)
         /\ o.server = 0 => UNCHANGED <<member, asked>>
  <2>1. o.server = 0 => o.env \in Live
    BY <1>1, <1>2 DEF IInv, NothingDangles
  <2>2. CASE RegisterServer(o)
    BY <1>2, <2>1, <2>2 DEF RegisterServer
  <2>3. CASE UNCHANGED <<server, servers, member, key, used, blurred, twice, placed, asked>>
    BY <1>2, <2>3
  <2>4. QED
    BY <1>4, <2>2, <2>3
<1>8. /\ server' \in [ServerId -> [host : Host \cup {None}, env : EnvId \cup {0}, active : BOOLEAN]]
      /\ placed' \in [ServerId -> EnvId \cup {0}]
      /\ servers' \in 0..MaxServers /\ Known \subseteq Known' /\ Known' \subseteq 1..servers'
      /\ twice' \subseteq Host
      /\ Once' /\ AssignmentsStick'
      /\ \A t \in Known' : server'[t].env \in Live'
      /\ \A g \in Host : g # o.host \/ servers' = servers => Found(g)' = Found(g)
      /\ member' # member \/ asked' # asked => s \in Known'
  <2>1. CASE /\ o.server = 0 /\ Inserts(o.host, o.env) /\ o.env \in Live
             /\ twice' = IF o.late THEN twice \cup {o.host} ELSE twice
             /\ s = servers + 1
    <3>1. o.host \notin twice' => Found(o.host) = {}
      BY <1>2, <2>1
    <3>2. /\ Once' /\ AssignmentsStick' /\ (\A t \in Known' : server'[t].env \in Live')
          /\ \A g \in Host \ {o.host} : Found(g)' = Found(g)
      BY <1>1, <1>3, <2>1, <3>1, InsertsKeeps
    <3>3. /\ server' \in [ServerId -> [host : Host \cup {None}, env : EnvId \cup {0}, active : BOOLEAN]]
          /\ placed' \in [ServerId -> EnvId \cup {0}]
          /\ servers' \in 0..MaxServers /\ servers' # servers
          /\ Known' = Known \cup {servers + 1} /\ Known' \subseteq 1..servers'
      BY <1>1, <2>1, InsertsRows
    <3>4. QED
      BY <1>1, <1>5, <2>1, <3>2, <3>3
  <2>2. CASE /\ UNCHANGED <<server, servers, placed, twice>>
             /\ (o.server = 0 \/ s \in Known)
             /\ o.server = 0 => UNCHANGED <<member, asked>>
    <3>1. Known' = Known /\ \A g \in Host : Found(g)' = Found(g)
      BY <2>2 DEF Known, Found
    <3>2. Once' /\ AssignmentsStick' /\ (\A t \in Known' : server'[t].env \in Live')
      BY <1>6, <2>2, <3>1 DEF IInv, Once, AssignmentsStick, NothingDangles
    <3>3. QED
      BY <2>2, <3>1, <3>2 DEF IInv, TypeOK, Ids
  <2>3. QED
    BY <1>7, <2>1, <2>2
\* The count.
<1>9. /\ key' \in [Key -> KeyRow] /\ used' \in [Key -> Nat] /\ blurred' \subseteq Key
      /\ \A k \in Key : key'[k].env = key[k].env /\ key'[k].max = key[k].max
      /\ \A k \in Key \ {o.key} : key'[k] = key[k] /\ used'[k] = used[k]
      /\ blurred \subseteq blurred'
      /\ o.key \notin blurred' =>
           \/ key'[o.key].uses = key[o.key].uses /\ used'[o.key] = used[o.key]
           \/ /\ key[o.key].uses = o.uses /\ key'[o.key].uses = o.uses + 1
              /\ used'[o.key] = used[o.key] + 1
  <2>1. CASE UNCHANGED <<server, servers, member, key, used, blurred, twice, placed, asked>>
    BY <1>5, <2>1
  <2>2. CASE /\ key' = [key EXCEPT ![o.key].uses = o.uses + 1]
             /\ used' = [used EXCEPT ![o.key] = @ + 1]
             /\ blurred' = IF key[o.key].uses # o.uses THEN blurred \cup {o.key} ELSE blurred
    <3> HIDE DEF o
    <3>1. o.uses + 1 \in Nat /\ \A k \in Key : used[k] + 1 \in Nat
      BY <1>1, <1>5
    <3>2. key' \in [Key -> KeyRow] /\ used' \in [Key -> Nat] /\ blurred' \subseteq Key
      BY <1>1, <1>5, <2>2, <3>1
    <3>3. /\ \A k \in Key : key'[k].env = key[k].env /\ key'[k].max = key[k].max
          /\ \A k \in Key \ {o.key} : key'[k] = key[k] /\ used'[k] = used[k]
          /\ key'[o.key].uses = o.uses + 1 /\ used'[o.key] = used[o.key] + 1
      BY <1>1, <1>5, <2>2
    <3>4. QED
      BY <2>2, <3>2, <3>3
  <2>3. QED
    BY <1>4, <2>1, <2>2
<1>10. UsesCounted'
  <2> SUFFICES ASSUME NEW k \in Key \ blurred'
               PROVE  key'[k].uses = used'[k] /\ used'[k] <= key'[k].max
    BY DEF UsesCounted
  <2>1. key[k].uses = used[k] /\ used[k] <= key[k].max
    BY <1>9 DEF IInv, UsesCounted
  <2>2. CASE k # o.key
    BY <1>9, <2>1, <2>2
  <2>3. CASE k = o.key
    <3>1. key[k].max \in 1..MaxUses /\ used[k] \in Nat /\ key'[k].max = key[k].max
      BY <1>5, <1>9
    <3>2. MaxUses \in Nat
      BY BoundAssumption
    <3>3. QED
      BY <1>1, <1>2, <1>9, <2>1, <2>3, <3>1, <3>2
  <2>4. QED
    BY <2>2, <2>3
<1>11. Unissued' /\ NothingDangles'
  <2>1. \A k \in Key : key'[k].env # 0 => key'[k].env \in Live'
    BY <1>6, <1>9 DEF IInv, NothingDangles
  <2>2. ASSUME NEW k \in Key, key'[k].env = 0 PROVE key'[k].uses = 0 /\ used'[k] = 0
    <3>1. key[k].env = 0 /\ k # o.key
      BY <1>2, <1>9, <2>2
    <3>2. QED
      BY <1>9, <3>1 DEF IInv, Unissued
  <2>3. QED
    BY <1>8, <2>1, <2>2 DEF Unissued, NothingDangles
\* The membership.
<1>12. /\ member' \subseteq Known' /\ asked' \subseteq ServerId /\ GroupAsAsked'
  <2>1. \/ member' = member /\ asked' = asked
        \/ member' = member \cup {s} /\ asked' = asked \cup {s}
    BY <1>4
  <2>2. s \in Known' => s \in ServerId
    BY DEF Known
  <2>3. QED
    BY <1>3, <1>5, <1>8, <2>1, <2>2 DEF GroupAsAsked
\* The others' reads.
<1>13. op' \in [Handler -> Op]
       /\ \A q \in Handler : /\ op'[q] = Rest \/ op'[q] = op[q] \/ op'[q] = Late(o.host, q)
                             /\ op'[q].kind = "register" /\ ~op'[q].late /\ servers' # servers
                                => op'[q].host # o.host
  <2> SUFFICES ASSUME NEW q \in Handler
               PROVE  /\ op'[q] \in Op
                      /\ op'[q] = Rest \/ op'[q] = op[q] \/ op'[q] = Late(o.host, q)
                      /\ op'[q].kind = "register" /\ ~op'[q].late /\ servers' # servers
                         => op'[q].host # o.host
    BY <1>3
  <2>1. CASE q = p
    BY <1>3, <2>1, RestIsOp
  <2>2. CASE q # p /\ servers' # servers
    <3>1. op'[q] = Late(o.host, q) /\ op[q] \in Op
      BY <1>1, <1>3, <2>2
    <3>2. QED
      BY <1>1, <3>1, LateFields
  <2>3. CASE q # p /\ servers' = servers
    BY <1>1, <1>3, <2>3
  <2>4. QED
    BY <2>1, <2>2, <2>3
<1> HIDE DEF o, s
<1>14. Fits' /\ Read'
  <2>1. \A q \in Handler, h \in Host :
          op'[q].kind = "register" /\ op'[q].host = h /\ ~op'[q].late
          => Found(h)' = Found(h)
    BY <1>8, <1>13
  <2>2. \A q \in Handler : \/ op'[q] = Rest \/ op'[q] = op[q]
                           \/ \E h \in Host : op'[q] = Late(h, q)
    BY <1>1, <1>13
  <2>3. QED
    BY <1>8, <1>9, <1>13, <2>1, <2>2, OpsGoOn
<1>15. TypeOK'
  <2> HIDE DEF Known, Live
  <2>1. QED
    BY <1>3, <1>6, <1>8, <1>9, <1>12, <1>13 DEF IInv, TypeOK
<1>16. QED
  BY <1>6, <1>8, <1>10, <1>11, <1>12, <1>14, <1>15 DEF IInv, Ids

\* Every step keeps it.
LEMMA NextIInv == IInv /\ [Next]_vars => IInv'
<1> SUFFICES ASSUME IInv, [Next]_vars PROVE IInv'
  OBVIOUS
<1>1. ASSUME NEW p \in Handler, NEW n \in EnvName, NEW i \in EnvId \cup {0}, CreateRead(p, n, i)
      PROVE  IInv'
  BY <1>1, CreateReadIInv
<1>2. ASSUME NEW p \in Handler,
             \/ \E i \in EnvId : DeleteRead(p, i)
             \/ \E s \in ServerId, i \in EnvId : AssignRead(p, s, i)
             \/ \E to \in SUBSET ServerId : ReplaceRead(p, to)
      PROVE  IInv'
  BY <1>2, OtherReadsIInv
<1>3. ASSUME NEW p \in Handler, NEW k \in Key, NEW h \in Host, RegisterRead(p, k, h)
      PROVE  IInv'
  BY <1>3, RegisterReadIInv
<1>4. ASSUME NEW p \in Handler,
             \/ CreateCommit(p) \/ DeleteCommit(p) \/ AssignCommit(p)
             \/ RegisterCommit(p) \/ ReplaceCommit(p)
      PROVE  IInv'
  BY <1>4, CreateCommitIInv, DeleteCommitIInv, AssignCommitIInv, RegisterCommitIInv,
     ReplaceCommitIInv
<1>5. ASSUME NEW i \in EnvId, Assigned(i)
      PROVE  IInv'
  BY <1>5, AssignedIInv
<1>6. ASSUME NEW h \in Host, NEW i \in EnvId, CreateServer(h, i)
      PROVE  IInv'
  BY <1>6, CreateServerIInv
<1>7. ASSUME NEW s \in ServerId, Decommission(s)
      PROVE  IInv'
  BY <1>7, DecommissionIInv
<1>8. ASSUME NEW k \in Key,
             \/ \E i \in EnvId, g \in BOOLEAN, m \in 1..MaxUses : CreateKey(k, i, g, m)
             \/ RevokeKey(k)
      PROVE  IInv'
  BY <1>8, KeysIInv
<1>9. CASE UNCHANGED vars
  <2>1. /\ UNCHANGED <<env, server, key, member, viewed, envs, servers, op, requests>>
        /\ UNCHANGED <<used, blurred, twice, placed, asked, mixed>>
    BY <1>9 DEF vars, rows, history
  <2>2. Fits' /\ Read' /\ op' \in [Handler -> Op]
    BY <2>1, OpsGoOnAlone
  <2>3. /\ Known' = Known /\ Unissued' /\ Once'
        /\ UsesCounted' /\ AssignmentsStick' /\ GroupAsAsked'
    BY <2>1, EnrolledStay
  <2>4. Live' = Live /\ Unique(env)' /\ Live' \subseteq 1..envs' /\ viewed' \subseteq Live'
    BY <2>1, PathStays
  <2>5. TypeOK' /\ NothingDangles' /\ Ids'
    BY <2>1, <2>2, <2>3, <2>4 DEF IInv, TypeOK, NothingDangles, Ids
  <2>6. QED
    BY <2>2, <2>3, <2>4, <2>5 DEF IInv
<1>10. QED
  BY <1>1, <1>2, <1>3, <1>4, <1>5, <1>6, <1>7, <1>8, <1>9 DEF Next


-----------------------------------------------------------------------------
(* The order of the path. *)

OrderKept ==
  \A i, j \in Live :
    (env'[i].name # None /\ env'[j].name # None) =>
      (env[i].pos < env[j].pos <=> env'[i].pos < env'[j].pos)
BehindPrior(p) ==
  LET o == op[p]
  IN (o.kind = "create" /\ op'[p] = Rest /\ envs' # envs /\ o.prior \in Live
      /\ env[o.prior].pos = o.from) =>
       /\ env'[o.prior].pos < env'[envs'].pos
       /\ \A i \in Live : ~(env'[o.prior].pos < env'[i].pos /\ env'[i].pos <= env'[envs'].pos)

\* A new environment moves those behind it by one, which the unique positions
\* before and after the commit do not let pass one another.
LEMMA CreateKeepsOrder ==
  ASSUME IInv, IInv', NEW p \in Handler, CreateCommit(p), envs' # envs
  PROVE  OrderKept /\ BehindPrior(p)
<1> DEFINE o == op[p]
           grown == envs + (IF o.seed THEN 2 ELSE 1)
           at == Behind(o.prior, o.from)
<1>1. /\ o \in Op /\ o.kind = "create" /\ at <= MaxEnvs
      /\ o.seed \in BOOLEAN /\ o.from \in Pos /\ o.name # None
      /\ envs \in 0..MaxEnvs /\ MaxEnvs \in Nat
  BY OpFields, BoundAssumption, NameAssumption DEF IInv, TypeOK, Fits, CreateCommit
<1>2. /\ grown <= MaxEnvs /\ \A i \in Live : env[i].pos < MaxEnvs
      /\ env' = WithNew(o) /\ envs' = grown
  BY DEF CreateCommit
<1>3. \A i \in EnvId :
        env'[i] = IF o.seed /\ i = envs + 1 THEN [name |-> Library, pos |-> 0]
                  ELSE IF i = grown THEN [name |-> o.name, pos |-> at]
                  ELSE IF i \in o.seen /\ i \in Live /\ env[i].pos >= at
                  THEN [name |-> env[i].name, pos |-> env[i].pos + 1]
                  ELSE env[i]
  BY <1>1, <1>2, WithNewRows
<1>4. \A i \in Live : i \in EnvId /\ i \in 1..envs /\ env[i].name # None /\ env[i].pos \in Nat
  BY DEF IInv, TypeOK, Ids, Live, Pos
<1>5. grown \in EnvId /\ grown > envs /\ at \in Nat /\ o.from \in Nat /\ envs \in Nat
  BY <1>1, <1>2 DEF EnvId, Pos, Behind
<1> HIDE DEF o, grown, at
<1>6. ASSUME NEW i \in Live
      PROVE  /\ env'[i].name = env[i].name
             /\ env'[i].pos = IF i \in o.seen /\ env[i].pos >= at
                              THEN env[i].pos + 1 ELSE env[i].pos
             /\ i # grown
  <2>1. i # grown /\ i # envs + 1
    BY <1>4, <1>5
  <2>2. i \in EnvId
    BY <1>4
  <2>3. env'[i] = IF i \in o.seen /\ i \in Live /\ env[i].pos >= at
                  THEN [name |-> env[i].name, pos |-> env[i].pos + 1] ELSE env[i]
    BY <1>3, <2>1, <2>2, Zenon
  <2>4. QED
    BY <2>1, <2>3
<1>7. env'[grown].name = o.name /\ env'[grown].pos = at
  <2>1. ~(o.seed /\ grown = envs + 1)
    BY <1>1, <1>5 DEF grown
  <2>2. env'[grown] = [name |-> o.name, pos |-> at]
    BY <1>3, <1>5, <2>1, Zenon
  <2>3. QED
    BY <2>2
<1>8. OrderKept
  <2> SUFFICES ASSUME NEW i \in Live, NEW j \in Live
               PROVE  env[i].pos < env[j].pos <=> env'[i].pos < env'[j].pos
    BY DEF OrderKept
  <2>1. i = j \/ (env[i].pos # env[j].pos /\ env'[i].pos # env'[j].pos)
    <3>1. i \in EnvId /\ j \in EnvId /\ env[i].name # None /\ env[j].name # None
          /\ env'[i].name # None /\ env'[j].name # None
      BY <1>4, <1>6
    <3>2. QED
      BY <3>1 DEF IInv, Unique
  <2>2. /\ env[i].pos \in Nat /\ env'[i].pos \in {env[i].pos, env[i].pos + 1}
        /\ env[j].pos \in Nat /\ env'[j].pos \in {env[j].pos, env[j].pos + 1}
    BY <1>4, <1>6
  <2>3. QED
    BY <2>1, <2>2
<1>9. BehindPrior(p)
  <2> SUFFICES ASSUME o.prior \in Live, env[o.prior].pos = o.from
               PROVE  /\ env'[o.prior].pos < env'[grown].pos
                      /\ \A i \in Live : ~(/\ env'[o.prior].pos < env'[i].pos
                                           /\ env'[i].pos <= env'[grown].pos)
    BY <1>2 DEF BehindPrior, o
  <2>1. at = o.from + 1
    <3>1. o.prior # 0
      BY <1>4
    <3>2. QED
      BY <3>1 DEF at, Behind
  <2>2. env'[o.prior].pos = o.from
    BY <1>5, <1>6, <2>1
  <2>3. ASSUME NEW i \in Live PROVE env'[i].pos \in Nat /\ env'[i].pos # at
    <3>1. i \in EnvId /\ env'[i].name # None /\ i # grown
      BY <1>4, <1>6
    <3>2. env'[i].pos # env'[grown].pos
      BY <1>1, <1>5, <1>7, <3>1 DEF IInv, Unique, o
    <3>3. QED
      BY <1>4, <1>6, <1>7, <3>2
  <2>4. QED
    BY <1>5, <1>7, <2>1, <2>2, <2>3
<1>10. QED
  BY <1>8, <1>9

\* Nothing else adds environments, and only a deletion touches one.
LEMMA NextKeepsOrder ==
  ASSUME IInv, IInv', [Next]_vars
  PROVE  OrderKept /\ \A p \in Handler : BehindPrior(p)
<1>1. ASSUME NEW p \in Handler, CreateCommit(p), envs' # envs
      PROVE  OrderKept /\ \A q \in Handler : BehindPrior(q)
  <2>1. \A q \in Handler \ {p} : op'[q] = op[q]
    BY <1>1 DEF CreateCommit, Done, IInv, TypeOK
  <2>2. \A q \in Handler : op[q].kind = "create" => op[q] # Rest
    BY RestIsOp
  <2>3. QED
    BY <1>1, <2>1, <2>2, CreateKeepsOrder DEF BehindPrior
<1>2. ASSUME envs' = envs, NEW i \in EnvId, env' = [env EXCEPT ![i] = NoEnv]
      PROVE  OrderKept /\ \A q \in Handler : BehindPrior(q)
  <2>1. \A j \in EnvId : env'[j] = IF j = i THEN NoEnv ELSE env[j]
    BY <1>2 DEF IInv, TypeOK
  <2>2. NoEnv.name = None
    BY DEF NoEnv
  <2>3. QED
    BY <1>2, <2>1, <2>2 DEF OrderKept, BehindPrior, Live
<1>3. ASSUME envs' = envs, env' = env
      PROVE  OrderKept /\ \A q \in Handler : BehindPrior(q)
  BY <1>3 DEF OrderKept, BehindPrior
<1>4. ASSUME NEW p \in Handler, CreateCommit(p), envs' = envs
      PROVE  env' = env
  <2>1. envs \in Nat
    BY DEF IInv, TypeOK
  <2>2. QED
    BY <1>4, <2>1 DEF CreateCommit
<1>5. ASSUME NEW p \in Handler, DeleteCommit(p)
      PROVE  envs' = envs /\ (env' = env \/ \E i \in EnvId : env' = [env EXCEPT ![i] = NoEnv])
  <2>1. op[p].env \in EnvId
    BY <1>5, OpFields DEF IInv, TypeOK, DeleteCommit
  <2>2. QED
    BY <1>5, <2>1 DEF DeleteCommit
<1>6. ASSUME NEW p \in Handler,
             \/ \E n \in EnvName, i \in EnvId \cup {0} : CreateRead(p, n, i)
             \/ \E i \in EnvId : DeleteRead(p, i)
             \/ \E s \in ServerId, i \in EnvId : AssignRead(p, s, i)
             \/ \E k \in Key, h \in Host : RegisterRead(p, k, h)
             \/ \E to \in SUBSET ServerId : ReplaceRead(p, to)
      PROVE  envs' = envs /\ env' = env
  BY <1>6 DEF CreateRead, DeleteRead, AssignRead, RegisterRead, ReplaceRead, Holds, rows
<1>7. ASSUME NEW p \in Handler, AssignCommit(p) \/ RegisterCommit(p) \/ ReplaceCommit(p)
      PROVE  envs' = envs /\ env' = env
  BY <1>7 DEF AssignCommit, RegisterCommit, ReplaceCommit
<1>8. ASSUME \/ \E i \in EnvId : Assigned(i)
             \/ \E h \in Host, i \in EnvId : CreateServer(h, i)
             \/ \E s \in ServerId : Decommission(s)
             \/ \E k \in Key, i \in EnvId, g \in BOOLEAN, m \in 1..MaxUses : CreateKey(k, i, g, m)
             \/ \E k \in Key : RevokeKey(k)
             \/ UNCHANGED vars
      PROVE  envs' = envs /\ env' = env
  BY <1>8 DEF Assigned, CreateServer, Decommission, CreateKey, RevokeKey, vars, rows
<1>9. QED
  BY <1>1, <1>2, <1>3, <1>4, <1>5, <1>6, <1>7, <1>8 DEF Next

-----------------------------------------------------------------------------
LEMMA SpecIInv == Spec => []IInv
BY InitIInv, NextIInv, PTL DEF Spec

\* Every row, what every handler has read and the histories keep their types;
\* among them that members and assigned views are rows that are there.
THEOREM TypeCorrect == Spec => []TypeOK
BY SpecIInv, PTL DEF IInv

\* No server and no activation key names an environment that was deleted
\* (delete_lifecycle_environment, src/app/routers/lifecycle_environments.py),
\* whatever registered while the deletion was being checked.
THEOREM ReferencesHold == Spec => []NothingDangles
BY SpecIInv, PTL DEF IInv

\* Where its registrations did not overlap, an activation key counts every
\* one and admits no more than its limit (register, src/app/routers/enrollment.py).
THEOREM KeysCount == Spec => []UsesCounted
BY SpecIInv, PTL DEF IInv

\* Registrations alone leave one row per host, unless two first ones overlap
\* or an operator adds a host that is there.
THEOREM OneRowPerHost == Spec => []HostKnownOnce
<1>1. IInv => HostKnownOnce
  <2> SUFFICES ASSUME IInv, NEW h \in Host \ twice
               PROVE  Cardinality(Found(h)) <= 1
    BY DEF HostKnownOnce, Found
  <2>1. \A s, t \in Found(h) : s = t
    BY DEF IInv, Once
  <2>2. CASE Found(h) = {}
    BY <2>2, FS_EmptySet
  <2>3. CASE Found(h) # {}
    <3>1. PICK s : Found(h) = {s}
      BY <2>1, <2>3
    <3>2. QED
      BY <3>1, FS_Singleton
  <2>4. QED
    BY <2>2, <2>3
<1>2. QED
  BY <1>1, SpecIInv, PTL

\* A host that registers again stays in the environment it was put into, also
\* while an operator moves it (assign_server_environment).
THEOREM AssignmentsHold == Spec => []AssignmentsStick
BY SpecIInv, PTL DEF IInv

\* Without an overlapping replacement, a group has the members last asked for
\* and those who registered since (replace_host_group_members,
\* src/app/routers/host_groups.py).
THEOREM MembersAsAsked == Spec => []GroupAsAsked
BY SpecIInv, PTL DEF IInv

\* No handler reorders the environments of the path, and a new one comes right
\* behind its prior: the renumbering from stale positions
\* (create_lifecycle_environment) is either right or refused by the constraint.
THEOREM OrderOfPath == Spec => PathKeepsOrder
<1>1. IInv /\ IInv' /\ [Next]_vars => [OrderKept /\ \A p \in Handler : BehindPrior(p)]_vars
  BY NextKeepsOrder
<1>2. QED
  BY <1>1, SpecIInv, PTL DEF Spec, PathKeepsOrder, OrderKept, BehindPrior
=============================================================================

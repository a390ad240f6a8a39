-------------------------- MODULE BeaconConfig_proofs --------------------------
(***************************************************************************)
(* For any hosts, environments, views and editors, any bounds and faults:   *)
(* the variables of BeaconConfig keep their types, what a host has is what  *)
(* it was asked to have at some time, every host follows what it is asked   *)
(* for (BeaconConfig implements Follower, safety part), and a host that     *)
(* shows as reconciled is, unless its serial is known to have missed a      *)
(* change.                                                                  *)
(***************************************************************************)
EXTENDS BeaconConfig, FiniteSetTheorems, TLAPS

\* Changes begun and not ended, and the number of those that ended.
Open == {p \in Editor : edit[p] # Idle}
Ended == changes - Cardinality(Open)

\* No serial is ahead of the changes that ended, and none that an editor read.
Counted ==
  /\ IsFiniteSet(Open) /\ Cardinality(Open) <= changes
  /\ \A h \in Host : serial[h] <= Ended + 1
  /\ \A p \in Editor, h \in Host : edit[p].read[h] <= Ended + 1

\* Editors, answers and sources name an environment.
Located ==
  /\ \A p \in Editor : edit[p].step # "idle" => edit[p].env \in Env
  /\ \A h \in Host : agent[h].step \in {"answering", "installing"} => agent[h].env \in Env
  /\ \A h \in Host : disk[h].views # {} => disk[h].env \in Env

\* The newest entry of the history is what the rows say.
AskedLast ==
  \A h \in Host : /\ Len(asked[h]) >= 1
                  /\ Wanted(h) = [env |-> home[h], views |-> assigned[home[h]]]

\* An answer the agent works on is an entry of the history that is no older
\* than what the host has.
Ahead ==
  \A h \in Host :
    /\ disk[h].at <= Len(asked[h])
    /\ agent[h].step \in {"answering", "installing"} =>
         /\ agent[h].at \in 1..Len(asked[h]) /\ disk[h].at <= agent[h].at
         /\ asked[h][agent[h].at] = [env |-> agent[h].env, views |-> agent[h].views]

IInv == TypeOK /\ Counted /\ Located /\ AskedLast /\ Ahead /\ OnRecord

-----------------------------------------------------------------------------
LEMMA InitIInv == Init => IInv
<1> SUFFICES ASSUME Init PROVE IInv
  OBVIOUS
<1>1. Open = {}
  BY DEF Init, Open
<1>2. Counted
  BY <1>1, FS_EmptySet DEF Init, Counted, Ended, Idle
<1>3. TypeOK
  <2>1. Idle \in Edit
    BY BoundAssumption DEF Idle, Edit, Serial
  <2>2. Asleep \in Agent
    BY BoundAssumption DEF Asleep, Agent, Serial
  <2>3. Blank \in Disk
    BY BoundAssumption DEF Blank, Disk, Publication
  <2>4. [env |-> FirstEnv, views |-> {}] \in Sources
    BY EnvAssumption DEF Sources
  <2>5. <<[env |-> FirstEnv, views |-> {}]>> \in Seq(Sources)
    BY <2>4
  <2>6. QED
    BY <2>1, <2>2, <2>3, <2>5, BoundAssumption, EnvAssumption
       DEF Init, TypeOK, Serial, Publication
<1>4. Located
  BY DEF Init, Located, Idle, Asleep, Blank
<1>5. AskedLast
  BY EnvAssumption DEF Init, AskedLast, Wanted
<1>6. Ahead /\ OnRecord
  BY DEF Init, Ahead, OnRecord, Asleep, Blank
<1>7. QED
  BY <1>2, <1>3, <1>4, <1>5, <1>6 DEF IInv

-----------------------------------------------------------------------------
\* The history grows by what is new and keeps what it had.
LEMMA AskedGrows ==
  ASSUME TypeOK, AskedLast, NEW newHome \in [Host -> Env],
         NEW newAssigned \in [Env -> SUBSET View],
         NEW h \in Host
  PROVE  LET new == AskedFrom(newHome, newAssigned)[h]
         IN  /\ new \in Seq(Sources)
             /\ Len(new) \in {Len(asked[h]), Len(asked[h]) + 1}
             /\ \A i \in 1..Len(asked[h]) : new[i] = asked[h][i]
             /\ new = asked[h] \/ Len(new) = Len(asked[h]) + 1
             /\ new[Len(new)] = [env |-> newHome[h], views |-> newAssigned[newHome[h]]]
<1> DEFINE want == [env |-> newHome[h], views |-> newAssigned[newHome[h]]]
<1> DEFINE new == AskedFrom(newHome, newAssigned)[h]
<1>1. want \in Sources
  BY DEF Sources
<1>2. asked[h] \in Seq(Sources) /\ Len(asked[h]) >= 1
  BY DEF TypeOK, AskedLast
<1>3. new = IF want = Wanted(h) THEN asked[h] ELSE Append(asked[h], want)
  BY DEF AskedFrom
<1>4. CASE want = Wanted(h)
  BY <1>2, <1>3, <1>4 DEF Wanted
<1>5. CASE want # Wanted(h)
  <2>1. new = Append(asked[h], want)
    BY <1>3, <1>5
  <2> HIDE DEF want, new
  <2>2. /\ new \in Seq(Sources) /\ Len(new) = Len(asked[h]) + 1
        /\ \A i \in 1..Len(asked[h]) : new[i] = asked[h][i]
        /\ new[Len(new)] = want
    BY <1>1, <1>2, <2>1
  <2>3. QED
    BY <2>2 DEF want, new
<1>6. QED
  BY <1>4, <1>5

\* Rows that change keep the history and what hosts and answers have of it.
LEMMA RowsChange ==
  ASSUME IInv, home' \in [Host -> Env], assigned' \in [Env -> SUBSET View],
         asked' = AskedFrom(home', assigned'), agent' = agent, disk' = disk
  PROVE  /\ asked' \in [Host -> Seq(Sources)]
         /\ AskedLast' /\ Ahead' /\ OnRecord'
<1>1. \A h \in Host :
        /\ asked'[h] \in Seq(Sources)
        /\ Len(asked'[h]) \in {Len(asked[h]), Len(asked[h]) + 1}
        /\ \A i \in 1..Len(asked[h]) : asked'[h][i] = asked[h][i]
        /\ asked'[h][Len(asked'[h])] = [env |-> home'[h], views |-> assigned'[home'[h]]]
  BY AskedGrows DEF IInv
<1>2. asked' \in [Host -> Seq(Sources)]
  BY <1>1 DEF AskedFrom
<1>3. \A h \in Host : Len(asked[h]) \in Nat /\ Len(asked[h]) >= 1 /\ disk[h].at \in Nat
                      /\ agent[h].at \in Nat
  BY DEF IInv, TypeOK, AskedLast, Disk, Agent
<1>4. AskedLast'
  BY <1>1, <1>3 DEF AskedLast, Wanted
<1>a. ASSUME NEW h \in Host, NEW i \in 1..Len(asked[h])
      PROVE  i \in 1..Len(asked'[h]) /\ asked'[h][i] = asked[h][i]
  <2>1. asked'[h][i] = asked[h][i]
    BY <1>1
  <2>2. Len(asked[h]) \in Nat /\ Len(asked'[h]) \in {Len(asked[h]), Len(asked[h]) + 1}
    BY <1>1, <1>3
  <2>3. QED
    BY <2>1, <2>2
<1>b. \A h \in Host : disk[h].at <= Len(asked[h])
  BY Zenon DEF IInv, Ahead
<1>5. Ahead'
  <2> SUFFICES ASSUME NEW h \in Host
               PROVE  /\ disk[h].at <= Len(asked'[h])
                      /\ agent[h].step \in {"answering", "installing"} =>
                           /\ agent[h].at \in 1..Len(asked'[h]) /\ disk[h].at <= agent[h].at
                           /\ asked'[h][agent[h].at] = [env |-> agent[h].env, views |-> agent[h].views]
    BY DEF Ahead
  <2>0. disk[h].at \in Nat /\ Len(asked[h]) \in Nat
    BY <1>3
  <2>a. disk[h].at <= Len(asked[h])
    BY <1>b
  <2>b. Len(asked'[h]) \in {Len(asked[h]), Len(asked[h]) + 1}
    BY <1>1
  <2>1. disk[h].at <= Len(asked'[h])
    BY <2>0, <2>a, <2>b
  <2>2. ASSUME agent[h].step \in {"answering", "installing"}
        PROVE  /\ agent[h].at \in 1..Len(asked[h]) /\ disk[h].at <= agent[h].at
               /\ asked[h][agent[h].at] = [env |-> agent[h].env, views |-> agent[h].views]
    BY <2>2 DEF IInv, Ahead
  <2>3. QED
    BY <2>1, <2>2, <1>a
<1>6. OnRecord'
  <2> SUFFICES ASSUME NEW h \in Host, disk[h].at # 0
               PROVE  asked'[h][disk[h].at] = asked[h][disk[h].at]
    BY DEF IInv, OnRecord
  <2>0. disk[h].at \in Nat /\ Len(asked[h]) \in Nat
    BY <1>3
  <2>a. disk[h].at <= Len(asked[h])
    BY <1>b
  <2>1. disk[h].at \in 1..Len(asked[h])
    BY <2>0, <2>a
  <2>2. QED
    BY <2>1, <1>a
<1>7. QED
  BY <1>2, <1>4, <1>5, <1>6

-----------------------------------------------------------------------------
(* The count of changes. *)

LEMMA IdleIsIdle == Idle.step = "idle" /\ Idle \in Edit /\ \A h \in Host : Idle.read[h] = 0
  BY BoundAssumption DEF Idle, Edit, Serial

LEMMA BeginCounts ==
  ASSUME TypeOK, Counted, NEW p \in Editor, NEW o \in Edit, Begin(p, o),
         o.step # "idle", serial' = serial,
         \A h \in Host : o.read[h] <= Ended + 1
  PROVE  Counted' /\ edit' \in [Editor -> Edit] /\ changes' \in 0..MaxChanges
<1>1. edit' = [edit EXCEPT ![p] = o] /\ changes' = changes + 1 /\ changes < MaxChanges
      /\ edit[p] = Idle /\ edit \in [Editor -> Edit] /\ changes \in Nat /\ MaxChanges \in Nat
  BY BoundAssumption DEF Begin, TypeOK
<1>2. o # Idle
  BY IdleIsIdle
<1>3. Open' = Open \cup {p} /\ p \notin Open
  BY <1>1, <1>2 DEF Open
<1>4. IsFiniteSet(Open') /\ Cardinality(Open') = Cardinality(Open) + 1
  BY <1>3, FS_AddElement DEF Counted
<1>5. Cardinality(Open) \in Nat
  BY FS_CardinalityType DEF Counted
<1>6. Ended' = Ended /\ Cardinality(Open') <= changes'
  BY <1>1, <1>4, <1>5 DEF Ended, Counted
<1>7. \A q \in Editor, h \in Host : edit'[q].read[h] <= Ended + 1
  BY <1>1 DEF Counted
<1>8. QED
  BY <1>1, <1>4, <1>6, <1>7 DEF Counted

LEMMA EndCounts ==
  ASSUME TypeOK, Counted, NEW p \in Editor, End(p), edit[p].step # "idle",
         changes' = changes, \A h \in Host : serial'[h] <= Ended + 2
  PROVE  Counted' /\ edit' \in [Editor -> Edit]
<1>1. edit' = [edit EXCEPT ![p] = Idle] /\ edit[p] # Idle
      /\ edit \in [Editor -> Edit] /\ changes \in Nat
  BY IdleIsIdle, BoundAssumption DEF End, TypeOK
<1>2. Open' = Open \ {p} /\ p \in Open
  BY <1>1 DEF Open
<1>3. IsFiniteSet(Open') /\ Cardinality(Open') = Cardinality(Open) - 1
  BY <1>2, FS_RemoveElement DEF Counted
<1>4. Cardinality(Open) \in Nat
  BY FS_CardinalityType DEF Counted
<1>5. Ended' = Ended + 1 /\ Cardinality(Open') <= changes' /\ Ended \in Nat
  BY <1>1, <1>3, <1>4 DEF Ended, Counted
<1>6. \A q \in Editor, h \in Host : edit[q].read[h] \in Int /\ edit[q].read[h] <= Ended + 1
  BY <1>1 DEF Counted, Edit, Serial
<1>7. \A q \in Editor, h \in Host : edit'[q].read[h] <= Ended' + 1
  BY <1>1, <1>5, <1>6, IdleIsIdle
<1>8. \A h \in Host : serial'[h] <= Ended' + 1
  BY <1>5
<1>9. QED
  BY <1>1, IdleIsIdle, <1>3, <1>5, <1>7, <1>8 DEF Counted

\* What an editor writes is one more than a change that ended.
LEMMA BumpedTyped ==
  ASSUME TypeOK, Counted, NEW p \in Editor, edit[p].step # "idle"
  PROVE  /\ Bumped(p) \in [Host -> Serial]
         /\ \A h \in Host : Bumped(p)[h] <= Ended + 2
<1>1. edit[p].read \in [Host -> Serial] /\ serial \in [Host -> Serial]
      /\ changes \in 0..MaxChanges /\ MaxChanges \in Nat
  BY BoundAssumption DEF TypeOK, Edit
<1>2. edit[p] # Idle
  BY IdleIsIdle
<1>3. Cardinality(Open) \in Nat /\ Cardinality(Open) # 0
  <2>1. IsFiniteSet(Open) /\ p \in Open
    BY <1>2 DEF Counted, Open
  <2>2. QED
    BY <2>1, FS_CardinalityType, FS_EmptySet
<1>4. Ended \in Nat /\ Ended + 1 <= MaxChanges
  BY <1>1, <1>3 DEF Counted, Ended
<1>5. ASSUME NEW h \in Host
      PROVE  Bumped(p)[h] \in Serial /\ Bumped(p)[h] <= Ended + 2
  <2>1. /\ serial[h] \in 0..(MaxChanges + 1) /\ edit[p].read[h] \in 0..(MaxChanges + 1)
        /\ serial[h] <= Ended + 1 /\ edit[p].read[h] <= Ended + 1
    BY <1>1 DEF Counted, Serial
  <2>2. Bumped(p)[h] = IF edit[p].read[h] = 0 THEN serial[h] ELSE edit[p].read[h] + 1
    BY DEF Bumped
  <2>3. QED
    BY <1>1, <1>4, <2>1, <2>2 DEF Serial
<1>6. QED
  BY <1>5 DEF Bumped

-----------------------------------------------------------------------------
\* The agent goes on with the answer it has, or drops it.
LEMMA AgentGoesOn ==
  ASSUME IInv, UNCHANGED <<assigned, home, edit, asked>>,
         \A g \in Host :
           /\ disk'[g].env = disk[g].env /\ disk'[g].views = disk[g].views
           /\ disk'[g].at = disk[g].at /\ disk'[g].whole = disk[g].whole,
         \A g \in Host :
           agent'[g].step \in {"answering", "installing"} =>
             /\ agent[g].step \in {"answering", "installing"}
             /\ agent'[g].env = agent[g].env /\ agent'[g].views = agent[g].views
             /\ agent'[g].at = agent[g].at
  PROVE  Located' /\ AskedLast' /\ Ahead' /\ OnRecord'
<1>1. Located'
  BY DEF IInv, Located
<1>2. AskedLast'
  BY DEF IInv, AskedLast, Wanted
<1>3. Ahead'
  BY ZenonT(60) DEF IInv, Ahead
<1>4. OnRecord'
  BY DEF IInv, OnRecord
<1>5. QED
  BY <1>1, <1>2, <1>3, <1>4


\* Nothing is counted that did not change.
LEMMA CountedStays ==
  ASSUME Counted, UNCHANGED <<edit, changes, serial>>
  PROVE  Counted'
BY DEF Counted, Open, Ended

\* Hosts, rows and the history stay as they are.
LEMMA HostsStay ==
  ASSUME IInv, UNCHANGED <<assigned, home, agent, disk, asked>>
  PROVE  AskedLast' /\ Ahead' /\ OnRecord'
<1>1. AskedLast'
  BY DEF IInv, AskedLast, Wanted
<1>2. Ahead'
  BY DEF IInv, Ahead
<1>3. OnRecord'
  BY DEF IInv, OnRecord
<1>4. QED
  BY <1>1, <1>2, <1>3

-----------------------------------------------------------------------------
(* The steps of editors. *)

LEMMA SwitchIInv ==
  ASSUME IInv, NEW p \in Editor, NEW e \in Env, NEW v \in View,
         Promote(p, e, v) \/ Rollback(p, e, v)
  PROVE  IInv'
<1> DEFINE o(kind) == [Idle EXCEPT !.kind = kind, !.step = "bump", !.env = e, !.views = {v}]
<1>1. PICK kind \in {"promote", "rollback"} :
        /\ Begin(p, o(kind))
        /\ served' = [served EXCEPT ![e][v] = changes + 1]
        /\ UNCHANGED <<rowVars, agent, disk, late, losses, asked, doubtful>>
  BY DEF Promote, Rollback
<1>2. o(kind) \in Edit /\ o(kind).step = "bump" /\ o(kind).env \in Env
      /\ \A h \in Host : o(kind).read[h] = 0
  <2>1. Idle \in Edit /\ \A h \in Host : Idle.read[h] = 0
    BY IdleIsIdle
  <2>2. QED
    BY <2>1 DEF Edit
<1>3. TypeOK /\ Counted /\ Located
  BY DEF IInv
<1>4. \A h \in Host : o(kind).read[h] <= Ended + 1
  <2>1. Cardinality(Open) \in Nat /\ changes \in Nat /\ Cardinality(Open) <= changes
    BY <1>3, BoundAssumption, FS_CardinalityType DEF Counted, TypeOK
  <2>2. 0 <= Ended + 1
    BY <2>1 DEF Ended
  <2>3. QED
    BY <1>2, <2>2
<1> HIDE DEF o
<1>5. Counted' /\ edit' \in [Editor -> Edit] /\ changes' \in 0..MaxChanges
  <2>1. o(kind).step # "idle" /\ serial' = serial
    BY <1>1, <1>2 DEF rowVars
  <2>2. QED
    BY <1>1, <1>2, <1>3, <1>4, <2>1, BeginCounts
<1>6. served' \in [Env -> [View -> Publication]]
  <2>1. changes + 1 \in Publication
    BY <1>1, <1>3, BoundAssumption DEF Begin, TypeOK, Publication
  <2>2. QED
    BY <1>1, <1>3, <2>1 DEF TypeOK
<1>7. TypeOK'
  BY <1>1, <1>3, <1>5, <1>6 DEF TypeOK, rowVars
<1>8. Located'
  <2>1. edit' = [edit EXCEPT ![p] = o(kind)] /\ edit \in [Editor -> Edit]
    BY <1>1, <1>3 DEF Begin, TypeOK
  <2>2. QED
    BY <1>1, <1>2, <1>3, <2>1 DEF Located
<1>9. QED
  BY <1>1, <1>5, <1>7, <1>8, HostsStay DEF IInv, rowVars

LEMMA ReassignIInv ==
  ASSUME IInv, NEW p \in Editor, NEW g \in Host, NEW e \in Env, Reassign(p, g, e)
  PROVE  IInv'
<1> DEFINE o == [Idle EXCEPT !.kind = "reassign", !.step = "commit", !.env = e,
                   !.hosts = {g}, !.read = [h \in Host |-> IF h = g THEN serial[g] ELSE 0]]
<1>1. Begin(p, o) /\ UNCHANGED <<rowVars, served, agent, disk, late, losses, asked, doubtful>>
  BY DEF Reassign
<1>2. TypeOK /\ Counted /\ Located
  BY DEF IInv
<1>3. o \in Edit /\ o.step = "commit" /\ o.env \in Env
      /\ \A h \in Host : o.read[h] = IF h = g THEN serial[g] ELSE 0
  <2> DEFINE r == [h \in Host |-> IF h = g THEN serial[g] ELSE 0]
  <2>1. r \in [Host -> Serial]
    BY <1>2, BoundAssumption DEF Serial, TypeOK
  <2>2. \A h \in Host : r[h] = IF h = g THEN serial[g] ELSE 0
    OBVIOUS
  <2>3. Idle \in Edit
    BY IdleIsIdle
  <2> HIDE DEF r
  <2>4. o = [Idle EXCEPT !.kind = "reassign", !.step = "commit", !.env = e,
                         !.hosts = {g}, !.read = r]
    BY DEF r
  <2>5. o \in Edit /\ o.step = "commit" /\ o.env = e /\ o.read = r
    BY <2>1, <2>3, <2>4 DEF Edit
  <2>6. QED
    BY <2>2, <2>5
<1> HIDE DEF o
<1>4. \A h \in Host : o.read[h] <= Ended + 1
  <2>1. Cardinality(Open) \in Nat /\ changes \in Nat /\ Cardinality(Open) <= changes
    BY <1>2, BoundAssumption, FS_CardinalityType DEF Counted, TypeOK
  <2>2. 0 <= Ended + 1
    BY <2>1 DEF Ended
  <2>3. serial[g] <= Ended + 1
    BY <1>2 DEF Counted
  <2>4. QED
    BY <1>3, <2>2, <2>3
<1>5. Counted' /\ edit' \in [Editor -> Edit] /\ changes' \in 0..MaxChanges
  <2>1. o.step # "idle" /\ serial' = serial
    BY <1>1, <1>3 DEF rowVars
  <2>2. QED
    BY <1>1, <1>2, <1>3, <1>4, <2>1, BeginCounts
<1>6. TypeOK'
  BY <1>1, <1>2, <1>5 DEF TypeOK, rowVars
<1>7. Located'
  <2>1. edit' = [edit EXCEPT ![p] = o] /\ edit \in [Editor -> Edit]
    BY <1>1, <1>2 DEF Begin, TypeOK
  <2>2. QED
    BY <1>1, <1>2, <1>3, <2>1 DEF Located
<1>8. QED
  BY <1>1, <1>5, <1>6, <1>7, HostsStay DEF IInv, rowVars

LEMMA BumpReadIInv ==
  ASSUME IInv, NEW p \in Editor, BumpRead(p)
  PROVE  IInv'
<1> DEFINE new == [edit[p] EXCEPT !.step = "commit",
                     !.read = [h \in Host |-> IF home[h] = edit[p].env THEN serial[h] ELSE 0]]
<1>1. TypeOK /\ Counted /\ Located /\ edit[p].step = "bump" /\ edit \in [Editor -> Edit]
  BY DEF IInv, BumpRead, TypeOK
<1>2. edit' = [edit EXCEPT ![p] = new]
      /\ UNCHANGED <<rowVars, served, agent, disk, late, countVars, asked, doubtful>>
  BY DEF BumpRead
<1>3. new \in Edit /\ new.step = "commit" /\ new.env = edit[p].env
      /\ \A h \in Host : new.read[h] \in {serial[h], 0}
  <2> DEFINE r == [h \in Host |-> IF home[h] = edit[p].env THEN serial[h] ELSE 0]
  <2>1. r \in [Host -> Serial]
    BY <1>1, BoundAssumption DEF Serial, TypeOK
  <2>2. \A h \in Host : r[h] \in {serial[h], 0}
    OBVIOUS
  <2> HIDE DEF r
  <2>3. edit[p] \in Edit
    BY <1>1
  <2>4. new = [edit[p] EXCEPT !.step = "commit", !.read = r]
    BY DEF r
  <2>5. new.read = r /\ new.step = "commit" /\ new.env = edit[p].env
    BY <2>3, <2>4 DEF Edit
  <2>6. new \in Edit
    BY <2>1, <2>3, <2>4 DEF Edit
  <2>7. QED
    BY <2>2, <2>5, <2>6
<1> HIDE DEF new
<1>4. edit' \in [Editor -> Edit]
  BY <1>1, <1>2, <1>3
<1>5. Open' = Open /\ Ended' = Ended
  <2>1. edit[p] # Idle /\ new # Idle
    BY <1>1, <1>3, IdleIsIdle
  <2>2. Open' = Open
    BY <1>1, <1>2, <2>1 DEF Open
  <2>3. QED
    BY <1>2, <2>2 DEF Ended, countVars
<1>6. Counted'
  <2>1. Cardinality(Open) \in Nat /\ changes \in Nat /\ Cardinality(Open) <= changes
    BY <1>1, BoundAssumption, FS_CardinalityType DEF Counted, TypeOK
  <2>2. 0 <= Ended + 1
    BY <2>1 DEF Ended
  <2>3. \A h \in Host : new.read[h] <= Ended + 1
    BY <1>1, <1>3, <2>2 DEF Counted
  <2>4. \A q \in Editor, h \in Host : edit'[q].read[h] <= Ended + 1
    BY <1>1, <1>2, <2>3 DEF Counted
  <2>5. QED
    BY <1>1, <1>2, <1>5, <2>4 DEF Counted, rowVars, countVars
<1>7. TypeOK'
  BY <1>1, <1>2, <1>4 DEF TypeOK, rowVars, countVars
<1>8. Located'
  BY <1>1, <1>2, <1>3 DEF Located
<1>9. QED
  BY <1>2, <1>6, <1>7, <1>8, HostsStay DEF IInv, rowVars

\* An editor that is done no longer counts, and names nothing.
LEMMA EndLocated ==
  ASSUME TypeOK, Located, NEW p \in Editor, End(p), UNCHANGED <<agent, disk>>
  PROVE  Located'
<1>1. edit' = [edit EXCEPT ![p] = Idle] /\ edit \in [Editor -> Edit]
  BY DEF End, TypeOK
<1>2. QED
  BY <1>1, IdleIsIdle DEF Located

LEMMA BumpCommitIInv ==
  ASSUME IInv, NEW p \in Editor, BumpCommit(p)
  PROVE  IInv'
<1>1. TypeOK /\ Counted /\ Located /\ edit[p] \in Edit /\ edit[p].step = "commit"
  BY DEF IInv, BumpCommit, TypeOK
<1>2. /\ assigned' = [assigned EXCEPT ![edit[p].env] = @ \cup edit[p].views]
      /\ serial' = Bumped(p) /\ asked' = AskedFrom(home, assigned')
      /\ doubtful' = doubtful \cup Missed(p, Residents(edit[p].env))
      /\ End(p) /\ UNCHANGED <<served, home, token, applied, agent, disk, late, countVars>>
  BY DEF BumpCommit
<1>3. serial' \in [Host -> Serial] /\ \A h \in Host : serial'[h] <= Ended + 2
  BY <1>1, <1>2, BumpedTyped
<1>4. Counted' /\ edit' \in [Editor -> Edit]
  <2>1. edit[p].step # "idle" /\ changes' = changes
    BY <1>1, <1>2 DEF countVars
  <2>2. QED
    BY <1>1, <1>2, <1>3, <2>1, EndCounts
<1>5. assigned' \in [Env -> SUBSET View] /\ home' \in [Host -> Env]
  <2>1. edit[p].views \in SUBSET View /\ assigned \in [Env -> SUBSET View]
        /\ home \in [Host -> Env]
    BY <1>1 DEF Edit, TypeOK
  <2>2. QED
    BY <1>2, <2>1
<1>6. asked' \in [Host -> Seq(Sources)] /\ AskedLast' /\ Ahead' /\ OnRecord'
  BY <1>2, <1>5, RowsChange
<1>7. doubtful' \subseteq Host
  BY <1>1, <1>2 DEF Missed, Residents, TypeOK
<1>8. TypeOK'
  BY <1>1, <1>2, <1>3, <1>4, <1>5, <1>6, <1>7 DEF TypeOK, countVars
<1>9. Located'
  BY <1>1, <1>2, EndLocated
<1>10. QED
  BY <1>4, <1>6, <1>8, <1>9 DEF IInv

LEMMA ReassignCommitIInv ==
  ASSUME IInv, NEW p \in Editor, ReassignCommit(p)
  PROVE  IInv'
<1>1. TypeOK /\ Counted /\ Located /\ edit[p] \in Edit /\ edit[p].step = "commit"
  BY DEF IInv, ReassignCommit, TypeOK
<1>2. /\ home' = [h \in Host |-> IF h \in edit[p].hosts THEN edit[p].env ELSE home[h]]
      /\ serial' = Bumped(p) /\ asked' = AskedFrom(home', assigned)
      /\ doubtful' = doubtful \cup Missed(p, edit[p].hosts)
      /\ End(p) /\ UNCHANGED <<assigned, served, token, applied, agent, disk, late, countVars>>
  BY DEF ReassignCommit
<1>3. serial' \in [Host -> Serial] /\ \A h \in Host : serial'[h] <= Ended + 2
  BY <1>1, <1>2, BumpedTyped
<1>4. Counted' /\ edit' \in [Editor -> Edit]
  <2>1. edit[p].step # "idle" /\ changes' = changes
    BY <1>1, <1>2 DEF countVars
  <2>2. QED
    BY <1>1, <1>2, <1>3, <2>1, EndCounts
<1>5. assigned' \in [Env -> SUBSET View] /\ home' \in [Host -> Env]
  <2>1. edit[p].env \in Env
    BY <1>1 DEF Located
  <2>2. QED
    BY <1>1, <1>2, <2>1 DEF TypeOK
<1>6. asked' \in [Host -> Seq(Sources)] /\ AskedLast' /\ Ahead' /\ OnRecord'
  BY <1>2, <1>5, RowsChange
<1>7. doubtful' \subseteq Host
  BY <1>1, <1>2 DEF Missed, TypeOK, Edit
<1>8. TypeOK'
  BY <1>1, <1>2, <1>3, <1>4, <1>5, <1>6, <1>7 DEF TypeOK, countVars
<1>9. Located'
  BY <1>1, <1>2, EndLocated
<1>10. QED
  BY <1>4, <1>6, <1>8, <1>9 DEF IInv

LEMMA BumpFailsIInv ==
  ASSUME IInv, NEW p \in Editor, BumpFails(p)
  PROVE  IInv'
<1>1. TypeOK /\ Counted /\ Located /\ edit[p].step # "idle"
  BY DEF IInv, BumpFails
<1>2. /\ doubtful' = doubtful \cup Residents(edit[p].env)
      /\ End(p) /\ UNCHANGED <<rowVars, served, agent, disk, late, countVars, asked>>
  BY DEF BumpFails
<1>3. \A h \in Host : serial'[h] <= Ended + 2
  <2>1. \A h \in Host : serial[h] \in Nat /\ serial[h] <= Ended + 1
    BY <1>1, BoundAssumption DEF Counted, TypeOK, Serial
  <2>2. Ended \in Int
    BY <1>1, BoundAssumption, FS_CardinalityType DEF Ended, Counted, TypeOK
  <2>3. QED
    BY <1>2, <2>1, <2>2 DEF rowVars
<1>4. Counted' /\ edit' \in [Editor -> Edit]
  <2>1. changes' = changes
    BY <1>2 DEF countVars
  <2>2. QED
    BY <1>1, <1>2, <1>3, <2>1, EndCounts
<1>5. TypeOK'
  BY <1>1, <1>2, <1>4 DEF TypeOK, rowVars, countVars, Residents
<1>6. Located'
  BY <1>1, <1>2, EndLocated
<1>7. QED
  BY <1>2, <1>4, <1>5, <1>6, HostsStay DEF IInv, rowVars

LEMMA UnassignIInv ==
  ASSUME IInv, NEW e \in Env, NEW v \in View, Unassign(e, v)
  PROVE  IInv'
<1>1. TypeOK /\ Counted /\ Located
  BY DEF IInv
<1>2. /\ assigned' = [assigned EXCEPT ![e] = @ \ {v}]
      /\ asked' = AskedFrom(home, assigned') /\ doubtful' = doubtful \cup Residents(e)
      /\ UNCHANGED <<served, home, token, serial, applied, edit, agent, disk, late, countVars>>
  BY DEF Unassign
<1>3. assigned' \in [Env -> SUBSET View] /\ home' \in [Host -> Env]
  BY <1>1, <1>2 DEF TypeOK
<1>4. asked' \in [Host -> Seq(Sources)] /\ AskedLast' /\ Ahead' /\ OnRecord'
  BY <1>2, <1>3, RowsChange
<1>5. TypeOK'
  BY <1>1, <1>2, <1>3, <1>4 DEF TypeOK, countVars, Residents
<1>6. Counted' /\ Located'
  BY <1>1, <1>2, CountedStays DEF Located, countVars
<1>7. QED
  BY <1>4, <1>5, <1>6 DEF IInv


-----------------------------------------------------------------------------
(* The steps of agents. *)

LEMMA AsleepIsAsleep ==
  Asleep \in Agent /\ Asleep.step = "asleep"
BY BoundAssumption DEF Asleep, Agent, Serial

LEMMA CheckinReadIInv ==
  ASSUME IInv, NEW h \in Host, CheckinRead(h)
  PROVE  IInv'
<1> DEFINE new == [Asleep EXCEPT !.step = "answering", !.env = home[h],
                     !.views = assigned[home[h]], !.at = Len(asked[h])]
<1>1. TypeOK /\ Counted /\ Located /\ agent \in [Host -> Agent]
      /\ home[h] \in Env /\ assigned[home[h]] \in SUBSET View /\ disk[h].at \in Nat
      /\ asked[h] \in Seq(Sources)
  BY DEF IInv, TypeOK, Disk
<1>2. agent' = [agent EXCEPT ![h] = new]
      /\ UNCHANGED <<rowVars, served, edit, disk, late, countVars, asked, doubtful>>
  BY DEF CheckinRead
<1>3. Len(asked[h]) \in Nat
  BY <1>1
<1>4. new \in Agent /\ new.step = "answering" /\ new.env = home[h]
      /\ new.views = assigned[home[h]] /\ new.at = Len(asked[h])
  BY <1>1, <1>3, AsleepIsAsleep DEF Agent
<1> HIDE DEF new
<1>5. TypeOK'
  BY <1>1, <1>2, <1>4 DEF TypeOK, rowVars, countVars
<1>6. Counted'
  BY <1>1, <1>2, CountedStays DEF rowVars, countVars
<1>7. Located'
  BY <1>1, <1>2, <1>4 DEF Located
<1>8. AskedLast' /\ OnRecord'
  BY <1>2 DEF IInv, AskedLast, OnRecord, Wanted, rowVars
<1>9. Ahead'
  <2> SUFFICES ASSUME NEW g \in Host
               PROVE  /\ disk[g].at <= Len(asked[g])
                      /\ agent'[g].step \in {"answering", "installing"} =>
                           /\ agent'[g].at \in 1..Len(asked[g]) /\ disk[g].at <= agent'[g].at
                           /\ asked[g][agent'[g].at] = [env |-> agent'[g].env, views |-> agent'[g].views]
    BY <1>2 DEF Ahead
  <2>1. disk[g].at <= Len(asked[g])
    BY Zenon DEF IInv, Ahead
  <2>2. CASE g # h
    <3>1. agent'[g] = agent[g]
      BY <1>1, <1>2, <2>2
    <3>2. QED
      BY <2>1, <3>1, Zenon DEF IInv, Ahead
  <2>3. CASE g = h
    <3>1. agent'[g] = new
      BY <1>1, <1>2, <2>3
    <3>2. Len(asked[h]) >= 1
          /\ asked[h][Len(asked[h])] = [env |-> home[h], views |-> assigned[home[h]]]
      BY DEF IInv, AskedLast, Wanted
    <3>3. Len(asked[h]) \in 1..Len(asked[h])
      BY <1>3, <3>2
    <3>4. QED
      BY <1>4, <2>1, <2>3, <3>1, <3>2, <3>3
  <2>4. QED
    BY <2>2, <2>3
<1>10. QED
  BY <1>5, <1>6, <1>7, <1>8, <1>9 DEF IInv

LEMMA CheckinCommitIInv ==
  ASSUME IInv, NEW h \in Host, CheckinCommit(h)
  PROVE  IInv'
<1>1. TypeOK /\ Counted /\ Located /\ agent \in [Host -> Agent] /\ serial \in [Host -> Serial]
  BY DEF IInv, TypeOK
<1>2. /\ agent[h].step = "answering"
      /\ serial' = [serial EXCEPT ![h] = IF @ = 0 THEN 1 ELSE @]
      /\ agent' = [agent EXCEPT ![h].step = IF Understood THEN "installing" ELSE "asleep",
                                ![h].serial = serial'[h]]
      /\ UNCHANGED <<assigned, served, home, token, applied, edit, disk, late,
                     countVars, asked>>
  BY DEF CheckinCommit
<1>3. serial' \in [Host -> Serial]
  BY <1>1, <1>2, BoundAssumption DEF Serial
<1>4. agent' \in [Host -> Agent]
  <2>1. serial'[h] \in Serial /\ agent[h] \in Agent
    BY <1>1, <1>3
  <2> HIDE DEF Serial
  <2>2. QED
    BY <1>1, <1>2, <2>1 DEF Agent
<1>5. TypeOK'
  <2>1. doubtful' \subseteq Host
    BY <1>1 DEF CheckinCommit, TypeOK
  <2>2. QED
    BY <1>1, <1>2, <1>3, <1>4, <2>1 DEF TypeOK, countVars
<1>6. Counted'
  <2>1. Cardinality(Open) \in Nat /\ changes \in Nat /\ Cardinality(Open) <= changes
    BY <1>1, BoundAssumption, FS_CardinalityType DEF Counted, TypeOK
  <2>2. 1 <= Ended + 1
    BY <2>1 DEF Ended
  <2>3. \A g \in Host : serial'[g] \in {serial[g], 1}
    BY <1>1, <1>2
  <2>4. \A g \in Host : serial'[g] <= Ended + 1
    BY <1>1, <2>2, <2>3 DEF Counted
  <2>5. Open' = Open /\ Ended' = Ended
    BY <1>2 DEF Open, Ended, countVars
  <2>6. QED
    BY <1>1, <1>2, <2>4, <2>5 DEF Counted, countVars
<1>7. \A g \in Host :
        agent'[g].step \in {"answering", "installing"} =>
          /\ agent[g].step \in {"answering", "installing"}
          /\ agent'[g].env = agent[g].env /\ agent'[g].views = agent[g].views
          /\ agent'[g].at = agent[g].at
  BY <1>1, <1>2 DEF Agent
<1>8. QED
  BY <1>2, <1>5, <1>6, <1>7, AgentGoesOn DEF IInv

\* An answer is taken up, whole or in part.
LEMMA DiskTakesUp ==
  ASSUME IInv, NEW h \in Host, agent[h].step = "installing",
         NEW kept \in SUBSET View, NEW whole \in BOOLEAN,
         kept \subseteq agent[h].views, whole => kept = agent[h].views,
         disk' = [disk EXCEPT ![h] = [@ EXCEPT !.env = agent[h].env, !.views = kept,
                                               !.at = agent[h].at, !.whole = whole]],
         agent' \in [Host -> Agent], agent'[h].step \notin {"answering", "installing"},
         \A g \in Host \ {h} : agent'[g] = agent[g],
         UNCHANGED <<assigned, home, edit, asked>>
  PROVE  disk' \in [Host -> Disk] /\ Located' /\ AskedLast' /\ Ahead' /\ OnRecord'
<1>1. disk \in [Host -> Disk] /\ agent[h] \in Agent /\ disk[h] \in Disk
  BY DEF IInv, TypeOK
<1>2. agent[h].env \in Env
  BY DEF IInv, Located
<1>3. /\ disk'[h].env = agent[h].env /\ disk'[h].views = kept
      /\ disk'[h].at = agent[h].at /\ disk'[h].whole = whole
      /\ disk'[h] \in Disk
  BY <1>1, <1>2 DEF Disk, Agent
<1>4. \A g \in Host \ {h} : disk'[g] = disk[g]
  BY <1>1
<1>5. disk' \in [Host -> Disk]
  BY <1>1, <1>3, <1>4
<1>6. /\ agent[h].at \in 1..Len(asked[h])
      /\ asked[h][agent[h].at] = [env |-> agent[h].env, views |-> agent[h].views]
  BY DEF IInv, Ahead
<1>7. Located'
  BY <1>2, <1>3, <1>4 DEF IInv, Located
<1>8. AskedLast'
  BY DEF IInv, AskedLast, Wanted
<1>9. Ahead'
  <2>1. asked[h] \in Seq(Sources)
    BY DEF IInv, TypeOK
  <2>2. Len(asked[h]) \in Nat
    BY <2>1
  <2>3. disk'[h].at <= Len(asked[h])
    BY <1>3, <1>6, <2>2
  <2>4. ASSUME NEW g \in Host
        PROVE  /\ disk'[g].at <= Len(asked[g])
               /\ agent'[g].step \in {"answering", "installing"} =>
                    /\ agent'[g].at \in 1..Len(asked[g]) /\ disk'[g].at <= agent'[g].at
                    /\ asked[g][agent'[g].at] = [env |-> agent'[g].env, views |-> agent'[g].views]
    <3>1. CASE g = h
      BY <2>3, <3>1
    <3>2. CASE g # h
      <4>1. agent'[g] = agent[g] /\ disk'[g] = disk[g]
        BY <1>4, <3>2
      <4>2. QED
        BY <4>1, Zenon DEF IInv, Ahead
    <3>3. QED
      BY <3>1, <3>2
  <2>5. QED
    BY <2>4 DEF Ahead
<1>10. OnRecord'
  <2> SUFFICES ASSUME NEW g \in Host, disk'[g].at # 0
               PROVE  /\ disk'[g].env = asked[g][disk'[g].at].env
                      /\ IF disk'[g].whole THEN disk'[g].views = asked[g][disk'[g].at].views
                         ELSE disk'[g].views \subseteq asked[g][disk'[g].at].views
    BY DEF OnRecord
  <2>1. CASE g = h
    BY <1>3, <1>6, <2>1
  <2>2. CASE g # h
    <3>1. disk'[g] = disk[g]
      BY <1>4, <2>2
    <3>2. QED
      BY <3>1 DEF IInv, OnRecord
  <2>3. QED
    BY <2>1, <2>2
<1>11. QED
  BY <1>5, <1>7, <1>8, <1>9, <1>10

LEMMA InstallIInv ==
  ASSUME IInv, NEW h \in Host, Install(h)
  PROVE  IInv'
<1>1. TypeOK /\ Counted /\ agent \in [Host -> Agent] /\ disk \in [Host -> Disk]
      /\ agent[h].step = "installing" /\ agent[h] \in Agent /\ disk[h] \in Disk
  BY DEF IInv, TypeOK, Install
<1>2. /\ disk' = [disk EXCEPT ![h] = [@ EXCEPT !.env = agent[h].env,
                    !.views = agent[h].views, !.at = agent[h].at, !.whole = TRUE]]
      /\ agent' = [agent EXCEPT ![h].step = "updating"]
      /\ UNCHANGED <<rowVars, served, edit, late, countVars, asked, doubtful>>
  BY DEF Install, Step
<1>3. agent' \in [Host -> Agent] /\ agent'[h].step = "updating"
      /\ \A g \in Host \ {h} : agent'[g] = agent[g]
  BY <1>1, <1>2 DEF Agent
<1>4. agent[h].views \in SUBSET View
  BY <1>1 DEF Agent
<1>5. disk' \in [Host -> Disk] /\ Located' /\ AskedLast' /\ Ahead' /\ OnRecord'
  BY <1>1, <1>2, <1>3, <1>4, DiskTakesUp DEF rowVars
<1>6. TypeOK'
  BY <1>1, <1>2, <1>3, <1>5 DEF TypeOK, rowVars, countVars
<1>7. Counted'
  BY <1>1, <1>2, CountedStays DEF rowVars, countVars
<1>8. QED
  BY <1>5, <1>6, <1>7 DEF IInv

LEMMA InstallFailsIInv ==
  ASSUME IInv, NEW h \in Host, InstallFails(h)
  PROVE  IInv'
<1> DEFINE kept == IF disk[h].env = agent[h].env THEN disk[h].views \cap agent[h].views ELSE {}
<1>1. TypeOK /\ Counted /\ agent \in [Host -> Agent] /\ disk \in [Host -> Disk]
      /\ agent[h].step = "installing" /\ agent[h] \in Agent /\ disk[h] \in Disk
  BY DEF IInv, TypeOK, InstallFails
<1>2. /\ disk' = [disk EXCEPT ![h] = [@ EXCEPT !.env = agent[h].env,
                    !.views = kept, !.at = agent[h].at, !.whole = FALSE]]
      /\ agent' = [agent EXCEPT ![h].step = "closing", ![h].ok = FALSE]
      /\ losses < MaxLosses /\ losses' = losses + 1
      /\ doubtful' = doubtful \cup {h}
      /\ UNCHANGED <<rowVars, served, edit, late, changes, asked>>
  BY <1>1 DEF InstallFails, Lose, Disk
<1>3. agent' \in [Host -> Agent] /\ agent'[h].step = "closing"
      /\ \A g \in Host \ {h} : agent'[g] = agent[g]
  BY <1>1, <1>2 DEF Agent
<1>4. kept \in SUBSET View /\ kept \subseteq agent[h].views
  BY <1>1 DEF Agent
<1> HIDE DEF kept
<1>5. disk' \in [Host -> Disk] /\ Located' /\ AskedLast' /\ Ahead' /\ OnRecord'
  BY <1>1, <1>2, <1>3, <1>4, DiskTakesUp DEF rowVars
<1>6. losses' \in 0..MaxLosses
  BY <1>1, <1>2, BoundAssumption DEF TypeOK
<1>7. TypeOK'
  BY <1>1, <1>2, <1>3, <1>5, <1>6 DEF TypeOK, rowVars
<1>8. Counted'
  BY <1>1, <1>2, CountedStays DEF rowVars
<1>9. QED
  BY <1>5, <1>7, <1>8 DEF IInv


\* The agent goes on, and only it, its reports and credentials change.
LEMMA GoingOnIInv ==
  ASSUME IInv, UNCHANGED <<assigned, served, home, serial, edit, changes, asked>>,
         token' \in [Host -> {"valid", "revoked", "retired"}],
         applied' \in [Host -> Serial], agent' \in [Host -> Agent],
         disk' \in [Host -> Disk], late' \in [Host -> SUBSET Report],
         losses' \in 0..MaxLosses, doubtful' \subseteq Host,
         \A g \in Host :
           /\ disk'[g].env = disk[g].env /\ disk'[g].views = disk[g].views
           /\ disk'[g].at = disk[g].at /\ disk'[g].whole = disk[g].whole,
         \A g \in Host :
           agent'[g].step \in {"answering", "installing"} => agent'[g] = agent[g]
  PROVE  IInv'
<1>1. TypeOK'
  BY DEF IInv, TypeOK
<1>2. Counted'
  BY CountedStays DEF IInv
<1>3. Located' /\ AskedLast' /\ Ahead' /\ OnRecord'
  BY AgentGoesOn
<1>4. QED
  BY <1>1, <1>2, <1>3 DEF IInv

\* The lists the host fetches are of its own environment.
LEMMA FetchedTyped ==
  ASSUME IInv, NEW h \in Host
  PROVE  LET new == [disk EXCEPT ![h].lists = Fetched(h)]
         IN  /\ new \in [Host -> Disk]
             /\ \A g \in Host :
                  /\ new[g].env = disk[g].env /\ new[g].views = disk[g].views
                  /\ new[g].at = disk[g].at /\ new[g].whole = disk[g].whole
<1>1. disk \in [Host -> Disk] /\ disk[h] \in Disk
      /\ served \in [Env -> [View -> Publication]]
  BY DEF IInv, TypeOK
<1>2. disk[h].views # {} => disk[h].env \in Env
  BY DEF IInv, Located
<1>3. Fetched(h) \in [View -> Publication]
  <2>1. \A v \in View : disk[h].lists[v] \in Publication
    BY <1>1 DEF Disk
  <2>2. \A v \in disk[h].views : served[disk[h].env][v] \in Publication
    BY <1>1, <1>2 DEF Disk
  <2>3. QED
    BY <2>1, <2>2 DEF Fetched
<1>4. QED
  BY <1>1, <1>3 DEF Disk

\* What every step of an agent starts from, and what a report leaves.
LEMMA AgentTypes ==
  ASSUME TypeOK, NEW h \in Host
  PROVE  /\ agent \in [Host -> Agent] /\ agent[h] \in Agent
         /\ disk \in [Host -> Disk] /\ applied \in [Host -> Serial]
         /\ token \in [Host -> {"valid", "revoked", "retired"}]
         /\ late \in [Host -> SUBSET Report] /\ ReportOf(h) \in Report
         /\ doubtful \subseteq Host /\ losses \in 0..MaxLosses
         /\ Lose => losses' \in 0..MaxLosses
         /\ [agent EXCEPT ![h] = Asleep] \in [Host -> Agent]
         /\ \A r \in Report : AppliedBy(h, r) \in [Host -> Serial]
                              /\ Cleared(h, r) \subseteq Host
<1>1. agent \in [Host -> Agent] /\ agent[h] \in Agent /\ losses \in 0..MaxLosses
  BY DEF TypeOK
<1>2. ReportOf(h) \in Report
  BY <1>1 DEF ReportOf, Report, Agent
<1>3. Lose => losses' \in 0..MaxLosses
  BY <1>1, BoundAssumption DEF Lose
<1>4. \A r \in Report : AppliedBy(h, r) \in [Host -> Serial] /\ Cleared(h, r) \subseteq Host
  BY DEF TypeOK, Report, AppliedBy, Cleared
<1>5. QED
  BY <1>1, <1>2, <1>3, <1>4, AsleepIsAsleep DEF TypeOK

\* The agent's run ends.
LEMMA EndOfRunIInv ==
  ASSUME IInv, NEW h \in Host,
         CheckinLost(h) \/ ReportRefused(h) \/ ReportLost(h) \/ ReportDelayed(h) \/ Sleep(h)
  PROVE  IInv'
<1>1. TypeOK
  BY DEF IInv
<1>2. /\ agent' = [agent EXCEPT ![h] = Asleep]
      /\ UNCHANGED <<rowVars, served, edit, disk, changes, asked, doubtful>>
      /\ late' \in {late, [late EXCEPT ![h] = @ \cup {ReportOf(h)}]}
      /\ losses' = losses \/ Lose
  BY DEF CheckinLost, ReportRefused, ReportLost, ReportDelayed, Sleep, countVars
<1>3. late' \in [Host -> SUBSET Report] /\ losses' \in 0..MaxLosses
      /\ agent' \in [Host -> Agent]
  <2>1. late' \in [Host -> SUBSET Report]
    <3>1. late \in [Host -> SUBSET Report] /\ ReportOf(h) \in Report
      BY <1>1, AgentTypes
    <3>2. CASE late' = late
      BY <3>1, <3>2
    <3>3. CASE late' = [late EXCEPT ![h] = @ \cup {ReportOf(h)}]
      BY <3>1, <3>3
    <3>. QED  BY <1>2, <3>2, <3>3
  <2>2. losses' \in 0..MaxLosses
    BY <1>1, <1>2, AgentTypes
  <2>3. agent' \in [Host -> Agent]
    BY <1>1, <1>2, AgentTypes, AsleepIsAsleep
  <2>. QED  BY <2>1, <2>2, <2>3
<1>4. \A g \in Host : agent'[g].step \in {"answering", "installing"} => agent'[g] = agent[g]
  BY <1>1, <1>2, AgentTypes, AsleepIsAsleep
<1>5. UNCHANGED <<assigned, served, home, serial, edit, changes, asked>>
      /\ UNCHANGED <<token, applied, disk, doubtful>>
  BY <1>2 DEF rowVars
<1>6. QED
  BY <1>1, <1>3, <1>4, <1>5, AgentTypes, GoingOnIInv

\* The lists are fetched, or they are not.
LEMMA UpdateIInv ==
  ASSUME IInv, NEW h \in Host,
         Update(h) \/ UpdateFails(h) \/ (\E ok \in BOOLEAN : Act(h, ok))
  PROVE  IInv'
<1>1. TypeOK
  BY DEF IInv
<1>2. PICK step \in {"reporting", "closing"}, ok \in BOOLEAN :
        /\ agent' = [agent EXCEPT ![h].step = step, ![h].ok = ok]
        /\ disk' \in {disk, [disk EXCEPT ![h].lists = Fetched(h)]}
        /\ losses' = losses \/ Lose
        /\ UNCHANGED <<rowVars, served, edit, late, changes, asked, doubtful>>
  BY DEF Update, UpdateFails, Act, countVars
<1>3. agent' \in [Host -> Agent]
      /\ \A g \in Host : agent'[g].step \in {"answering", "installing"} => agent'[g] = agent[g]
  <2> DEFINE new == [agent[h] EXCEPT !.step = step, !.ok = ok]
  <2>1. agent \in [Host -> Agent] /\ agent[h] \in Agent
    BY <1>1, AgentTypes
  <2>2. agent' = [agent EXCEPT ![h] = new]
    BY <1>2, <2>1
  <2>3. new \in Agent /\ new.step = step
    BY <2>1 DEF Agent
  <2> HIDE DEF new
  <2>4. QED
    BY <2>1, <2>2, <2>3
<1>4. /\ disk' \in [Host -> Disk]
      /\ \A g \in Host :
           /\ disk'[g].env = disk[g].env /\ disk'[g].views = disk[g].views
           /\ disk'[g].at = disk[g].at /\ disk'[g].whole = disk[g].whole
  <2> DEFINE new == [disk EXCEPT ![h].lists = Fetched(h)]
  <2>1. /\ new \in [Host -> Disk]
        /\ \A g \in Host :
             /\ new[g].env = disk[g].env /\ new[g].views = disk[g].views
             /\ new[g].at = disk[g].at /\ new[g].whole = disk[g].whole
    BY FetchedTyped
  <2>2. disk' = disk \/ disk' = new
    BY <1>2
  <2> HIDE DEF new
  <2>3. disk \in [Host -> Disk]
    BY <1>1, AgentTypes
  <2>4. QED
    BY <2>1, <2>2, <2>3
<1>5. losses' \in 0..MaxLosses
  BY <1>1, <1>2, AgentTypes
<1>6. UNCHANGED <<assigned, served, home, serial, edit, changes, asked>>
      /\ UNCHANGED <<token, applied, late, doubtful>>
  BY <1>2 DEF rowVars
<1>7. QED
  BY <1>1, <1>3, <1>4, <1>5, <1>6, AgentTypes, GoingOnIInv

\* A report is handled, in time or later.
LEMMA ReportIInv ==
  ASSUME IInv, NEW h \in Host,
         ReportArrives(h) \/ (\E r \in late[h] : ReportHandled(h, r))
  PROVE  IInv'
<1>1. TypeOK
  BY DEF IInv
<1>2. UNCHANGED <<assigned, served, home, serial, edit, changes, asked>>
      /\ UNCHANGED <<token, disk, losses>>
  BY DEF ReportArrives, ReportHandled, countVars
<1>3. late' \in [Host -> SUBSET Report] /\ applied' \in [Host -> Serial]
      /\ doubtful' \subseteq Host
  <2>1. CASE ReportArrives(h)
    <3>1. /\ applied' = AppliedBy(h, ReportOf(h)) /\ doubtful' = Cleared(h, ReportOf(h))
          /\ late' = late
      BY <2>1 DEF ReportArrives
    <3>2. QED
      BY <1>1, <3>1, AgentTypes
  <2>2. CASE \E r \in late[h] : ReportHandled(h, r)
    <3>1. PICK r \in late[h] : /\ late' = [late EXCEPT ![h] = @ \ {r}]
                               /\ applied' = AppliedBy(h, r) /\ doubtful' = doubtful
      BY <2>2 DEF ReportHandled
    <3>2. late \in [Host -> SUBSET Report] /\ r \in Report
      BY <1>1, AgentTypes
    <3>3. QED
      BY <1>1, <3>1, <3>2, AgentTypes
  <2>3. QED
    BY <2>1, <2>2
<1>4. agent' \in [Host -> Agent]
      /\ \A g \in Host : agent'[g].step \in {"answering", "installing"} => agent'[g] = agent[g]
  <2>1. CASE ReportArrives(h)
    <3>1. agent' = [agent EXCEPT ![h] = Asleep]
          \/ agent' = [agent EXCEPT ![h] = [@ EXCEPT !.step = "acting"]]
      BY <2>1 DEF ReportArrives, After, Following
    <3> DEFINE new == [agent[h] EXCEPT !.step = "acting"]
    <3>2. agent \in [Host -> Agent] /\ agent[h] \in Agent
      BY <1>1, AgentTypes
    <3>3. new \in Agent /\ new.step = "acting"
      BY <3>2 DEF Agent
    <3>4. agent' = [agent EXCEPT ![h] = Asleep] \/ agent' = [agent EXCEPT ![h] = new]
      BY <3>1
    <3> HIDE DEF new
    <3>5. QED
      BY <3>2, <3>3, <3>4, AsleepIsAsleep
  <2>2. CASE \E r \in late[h] : ReportHandled(h, r)
    <3>1. agent' = agent
      BY <2>2 DEF ReportHandled
    <3>2. QED
      BY <1>1, <3>1, AgentTypes
  <2>3. QED
    BY <2>1, <2>2
<1>5. QED
  BY <1>1, <1>2, <1>3, <1>4, AgentTypes, GoingOnIInv

LEMMA CredentialsIInv ==
  ASSUME IInv, NEW h \in Host,
         Admit(h) \/ (\E state \in {"revoked", "retired"} : Bar(h, state))
  PROVE  IInv'
<1>1. TypeOK
  BY DEF IInv
<1>2. UNCHANGED <<assigned, served, home, serial, edit, changes, asked>>
      /\ UNCHANGED <<applied, agent, disk, late, losses, doubtful>>
      /\ \E state \in {"valid", "revoked", "retired"} : token' = [token EXCEPT ![h] = state]
  BY DEF Admit, Bar, countVars
<1>3. token' \in [Host -> {"valid", "revoked", "retired"}]
  BY <1>1, <1>2, AgentTypes
<1>4. QED
  BY <1>1, <1>2, <1>3, AgentTypes, GoingOnIInv

LEMMA StutterIInv ==
  ASSUME IInv, UNCHANGED vars
  PROVE  IInv'
<1>1. UNCHANGED <<assigned, served, home, serial, edit, changes, asked>>
      /\ UNCHANGED <<token, applied, agent, disk, late, losses, doubtful>>
  BY DEF vars, rowVars, countVars
<1>2. TypeOK
  BY DEF IInv
<1>3. QED
  BY <1>1, <1>2, GoingOnIInv DEF TypeOK

\* Every step keeps it.
LEMMA NextIInv == IInv /\ [Next]_vars => IInv'
<1> SUFFICES ASSUME IInv, [Next]_vars PROVE IInv'
  OBVIOUS
<1>1. ASSUME NEW p \in Editor, NEW e \in Env, NEW v \in View,
             Promote(p, e, v) \/ Rollback(p, e, v)
      PROVE  IInv'
  BY <1>1, SwitchIInv
<1>2. ASSUME NEW p \in Editor, NEW h \in Host, NEW e \in Env, Reassign(p, h, e)
      PROVE  IInv'
  BY <1>2, ReassignIInv
<1>3. ASSUME NEW p \in Editor, EditStep(p) \/ BumpFails(p)
      PROVE  IInv'
  BY <1>3, BumpReadIInv, BumpCommitIInv, ReassignCommitIInv, BumpFailsIInv DEF EditStep
<1>4. ASSUME NEW e \in Env, NEW v \in View, Unassign(e, v)
      PROVE  IInv'
  BY <1>4, UnassignIInv
<1>5. ASSUME NEW h \in Host, AgentStep(h)
      PROVE  IInv'
  BY <1>5, CheckinReadIInv, CheckinCommitIInv, InstallIInv, UpdateIInv, ReportIInv,
     EndOfRunIInv DEF AgentStep
<1>6. ASSUME NEW h \in Host,
             \/ CheckinLost(h) \/ InstallFails(h) \/ UpdateFails(h)
             \/ ReportLost(h) \/ ReportDelayed(h)
             \/ \E r \in late[h] : ReportHandled(h, r)
             \/ \E ok \in BOOLEAN : Act(h, ok)
             \/ \E state \in {"revoked", "retired"} : Bar(h, state)
             \/ Admit(h)
      PROVE  IInv'
  BY <1>6, EndOfRunIInv, InstallFailsIInv, UpdateIInv, ReportIInv, CredentialsIInv
<1>7. QED
  BY <1>1, <1>2, <1>3, <1>4, <1>5, <1>6, StutterIInv DEF Next


-----------------------------------------------------------------------------
(* Following. *)

\* New rows are another configuration asked of some hosts, of none if they
\* make no difference to them.
LEMMA RowsAsk ==
  ASSUME IInv, home' \in [Host -> Env], assigned' \in [Env -> SUBSET View],
         asked' = AskedFrom(home', assigned'), disk' = disk, NEW h \in Host
  PROVE  [Follows(h)!Next]_<<asked[h], disk[h].at>>
<1>1. /\ \A i \in 1..Len(asked[h]) : asked'[h][i] = asked[h][i]
      /\ asked'[h] = asked[h] \/ Len(asked'[h]) = Len(asked[h]) + 1
  BY AskedGrows DEF IInv
<1>2. DOMAIN asked[h] = 1..Len(asked[h])
  BY DEF IInv, TypeOK
<1>3. QED
  BY <1>1, <1>2 DEF Follows!Next, Follows!Ask

\* A host takes up an answer that is an entry of its history.
LEMMA InstallFollows ==
  ASSUME IInv, NEW g \in Host, Install(g) \/ InstallFails(g), NEW h \in Host
  PROVE  [Follows(h)!Next]_<<asked[h], disk[h].at>>
<1>1. disk \in [Host -> Disk] /\ asked' = asked /\ agent[g].step = "installing"
      /\ agent[g] \in Agent
  BY DEF IInv, TypeOK, Install, InstallFails
<1>2. disk'[h].at = IF h = g THEN agent[g].at ELSE disk[h].at
  BY ZenonT(60), <1>1 DEF Install, InstallFails, Disk
<1>3. agent[g].at \in 1..Len(asked[g]) /\ disk[g].at <= agent[g].at
  BY <1>1 DEF IInv, Ahead
<1>4. disk[g].at \in Nat /\ asked[g] \in Seq(Sources)
  BY DEF IInv, TypeOK, Disk
<1>5. h = g => disk'[h].at \in disk[h].at..Len(asked[h])
  <2>1. Len(asked[g]) \in Nat
    BY <1>4
  <2>2. agent[g].at \in disk[g].at..Len(asked[g])
    BY <1>3, <1>4, <2>1
  <2>3. QED
    BY <1>2, <2>2
<1>6. QED
  BY <1>1, <1>2, <1>5 DEF Follows!Next, Follows!Follow

\* Everything else leaves alone what was asked for and what the hosts took up.
LEMMA NextFollows ==
  ASSUME IInv, IInv', [Next]_vars, NEW h \in Host
  PROVE  [Follows(h)!Next]_<<asked[h], disk[h].at>>
<1>1. ASSUME asked' = asked, disk' = disk
      PROVE  [Follows(h)!Next]_<<asked[h], disk[h].at>>
  BY <1>1
<1>2. ASSUME NEW p \in Editor, NEW e \in Env, NEW v \in View,
             Promote(p, e, v) \/ Rollback(p, e, v)
      PROVE  asked' = asked /\ disk' = disk
  BY <1>2 DEF Promote, Rollback
<1>3. ASSUME NEW p \in Editor, NEW g \in Host, NEW e \in Env, Reassign(p, g, e)
      PROVE  asked' = asked /\ disk' = disk
  BY <1>3 DEF Reassign
<1>4. ASSUME NEW p \in Editor, BumpRead(p) \/ BumpFails(p)
      PROVE  asked' = asked /\ disk' = disk
  BY <1>4 DEF BumpRead, BumpFails
<1>5. home' \in [Host -> Env] /\ assigned' \in [Env -> SUBSET View]
  BY DEF IInv, TypeOK
<1>6. ASSUME NEW p \in Editor, BumpCommit(p) \/ ReassignCommit(p)
      PROVE  asked' = AskedFrom(home', assigned') /\ disk' = disk
  BY <1>6 DEF BumpCommit, ReassignCommit, AskedFrom
<1>7. ASSUME NEW e \in Env, NEW v \in View, Unassign(e, v)
      PROVE  asked' = AskedFrom(home', assigned') /\ disk' = disk
  BY <1>7 DEF Unassign, AskedFrom
<1>8. ASSUME NEW g \in Host,
             \/ CheckinRead(g) \/ CheckinCommit(g) \/ ReportArrives(g) \/ ReportRefused(g)
             \/ Sleep(g) \/ CheckinLost(g) \/ UpdateFails(g) \/ ReportLost(g)
             \/ ReportDelayed(g) \/ Admit(g)
             \/ \E r \in late[g] : ReportHandled(g, r)
             \/ \E state \in {"revoked", "retired"} : Bar(g, state)
      PROVE  asked' = asked /\ disk' = disk
  BY <1>8 DEF CheckinRead, CheckinCommit, ReportArrives, ReportRefused, Sleep, CheckinLost,
     UpdateFails, ReportLost, ReportDelayed, Admit, ReportHandled, Bar
<1>9. ASSUME NEW g \in Host, Update(g) \/ \E ok \in BOOLEAN : Act(g, ok)
      PROVE  asked' = asked /\ disk'[h].at = disk[h].at
  <2>1. asked' = asked /\ (disk' = disk \/ disk' = [disk EXCEPT ![g].lists = Fetched(g)])
    BY <1>9 DEF Update, Act
  <2>2. disk \in [Host -> Disk]
    BY DEF IInv, TypeOK
  <2>3. QED
    BY <2>1, <2>2 DEF Disk
<1>10. ASSUME UNCHANGED vars
       PROVE  asked' = asked /\ disk' = disk
  BY <1>10 DEF vars
<1>11. QED
  BY <1>1, <1>2, <1>3, <1>4, <1>5, <1>6, <1>7, <1>8, <1>9, <1>10, RowsAsk, InstallFollows
     DEF Next, AgentStep, EditStep

-----------------------------------------------------------------------------
LEMMA SpecIInv == Spec => []IInv
BY InitIInv, NextIInv, PTL DEF Spec

\* The rows, the serials, the agents' answers and the hosts' files keep their
\* types; the serials stay within the changes that were made, however the
\* increments of several editors (src/app/routers/lifecycle_environments.py)
\* interleave.
THEOREM TypeCorrect == Spec => []TypeOK
BY SpecIInv, PTL DEF IInv

\* What a host has of its apt sources is what it was asked to have at some
\* time, or after a failed installation a part of it, never a mixture:
\* reconcile_apt_sources (src/beacon/groundctl_beacon.py) on answers that may
\* be stale when they are installed.
THEOREM HostsOnRecord == Spec => []OnRecord
BY SpecIInv, PTL DEF IInv

\* The checkin, the agent and the handlers that change the rows implement
\* Follower for every host: no host goes back to an older configuration, and
\* none gets one that nobody asked for.
THEOREM ImplementsFollower == Spec => EveryHostFollows
<1>1. Init => \A h \in Host : Follows(h)!Init
  BY DEF Init, Follows!Init, Blank
<1>2. IInv /\ IInv' /\ [Next]_vars
      => [\A h \in Host : [Follows(h)!Next]_<<asked[h], disk[h].at>>]_vars
  BY NextFollows
<1>3. QED
  BY <1>1, <1>2, SpecIInv, PTL DEF Spec, EveryHostFollows
-----------------------------------------------------------------------------
(* A host shown as reconciled is. *)


\* The agent works on an answer.
Busy(h) == agent[h].step \in {"installing", "updating", "reporting", "acting", "closing"}

\* No answer and no report carries the serial of a host without a row.
Numbered ==
  \A h \in Host : /\ Busy(h) => agent[h].serial # 0
                  /\ \A r \in late[h] : r.serial # 0

\* The host has the sources it should have, whatever its lists are.
Placed(h) ==
  disk[h].whole /\ disk[h].env = home[h] /\ disk[h].views = assigned[home[h]]

\* What a host that shows as reconciled should look like.
Settled(h) == Underway(home[h]) # {} \/ Current(h)

\* Serials only move forward: nothing reported is ahead of the row, and no
\* report still under way was made of a later answer than the agent's.
InOrder(h) ==
  /\ applied[h] <= serial[h]
  /\ \A r \in late[h] : r.serial <= serial[h]
  /\ Busy(h) => /\ agent[h].serial <= serial[h] /\ applied[h] <= agent[h].serial
                /\ \A r \in late[h] : r.serial <= agent[h].serial

\* A success for the serial of the row is recorded, on its way, or about to
\* be reported.
Claimed(h) ==
  \/ applied[h] # 0 /\ applied[h] = serial[h]
  \/ \E r \in late[h] : r.ok /\ r.serial = serial[h]
  \/ /\ agent[h].step \in {"reporting", "acting", "closing"} /\ agent[h].ok
     /\ agent[h].serial = serial[h]

\* An agent whose answer has the serial of the row works on what the rows say.
UpToDate(h) ==
  Busy(h) /\ agent[h].serial = serial[h] =>
    /\ agent[h].step = "installing" =>
         agent[h].env = home[h] /\ agent[h].views = assigned[home[h]]
    /\ agent[h].step \in {"updating", "reporting", "acting"} => Placed(h)

Sound(h) == InOrder(h) /\ UpToDate(h) /\ (Claimed(h) => Settled(h))

\* All of it holds of a host no change passed by.
ShownInv == Numbered /\ \A h \in Host \ doubtful : Sound(h)

LEMMA InitShown == Init => ShownInv
  BY DEF Init, ShownInv, Numbered, Sound, InOrder, UpToDate, Claimed, Busy, Asleep

LEMMA NumbersAreNat ==
  ASSUME TypeOK, NEW h \in Host
  PROVE  /\ serial[h] \in Nat /\ applied[h] \in Nat /\ agent[h].serial \in Nat
         /\ \A r \in late[h] : r \in Report /\ r.serial \in Nat
         /\ \A p \in Editor : edit[p].read[h] \in Nat
<1>1. Serial \subseteq Nat
  BY BoundAssumption DEF Serial
<1>2. serial[h] \in Serial /\ applied[h] \in Serial /\ agent[h] \in Agent
      /\ late[h] \subseteq Report
  BY DEF TypeOK
<1>3. \A p \in Editor : edit[p].read \in [Host -> Serial]
  BY DEF TypeOK, Edit
<1>. QED  BY <1>1, <1>2, <1>3 DEF Agent, Report

\* Nothing that concerns h moves, and no change of its environment ends.
LEMMA SoundStays ==
  ASSUME NEW h \in Host, Sound(h),
         serial'[h] = serial[h], applied'[h] = applied[h], late'[h] = late[h],
         agent'[h] = agent[h], disk'[h] = disk[h], home'[h] = home[h],
         assigned'[home[h]] = assigned[home[h]],
         \/ /\ served'[home[h]] = served[home[h]]
            /\ \A p \in Editor : edit[p].env = home[h] /\ edit[p].kind # "reassign"
                 => edit'[p].env = home[h] /\ edit'[p].kind # "reassign"
         \/ \E p \in Editor : edit'[p].env = home[h] /\ edit'[p].kind # "reassign"
  PROVE  Sound(h)'
<1>1. Settled(h) => Settled(h)'
  BY DEF Settled, Underway, Current
<1>2. InOrder(h)' /\ UpToDate(h)' /\ (Claimed(h)' => Claimed(h))
  BY DEF Sound, InOrder, UpToDate, Claimed, Placed, Busy
<1>. QED  BY <1>1, <1>2 DEF Sound

\* The serial leaves all that was reported behind, or there is none yet.
LEMMA SoundAhead ==
  ASSUME TypeOK, Numbered, NEW h \in Host, InOrder(h), serial'[h] \in Nat,
         applied'[h] = applied[h], late'[h] = late[h], agent'[h] = agent[h],
         serial'[h] > serial[h] \/ (serial[h] = 0 /\ serial'[h] = 0)
  PROVE  Sound(h)'
<1>1. /\ serial[h] \in Nat /\ applied[h] \in Nat /\ agent[h].serial \in Nat
      /\ \A r \in late[h] : r.serial \in Nat
  BY NumbersAreNat
<1>2. InOrder(h)'
  BY <1>1 DEF InOrder, Busy
<1>3. ~ (applied'[h] # 0 /\ applied'[h] = serial'[h])
  BY <1>1 DEF InOrder
<1>4. \A r \in late'[h] : r.serial # serial'[h]
  BY <1>1 DEF InOrder, Numbered
<1>5. Busy(h) => agent'[h].serial # serial'[h]
  BY <1>1 DEF InOrder, Numbered
<1>6. Busy(h)' <=> Busy(h)
  BY DEF Busy
<1>7. ~ Claimed(h)' /\ UpToDate(h)'
  BY <1>3, <1>4, <1>5, <1>6 DEF Claimed, UpToDate, Busy
<1>. QED  BY <1>2, <1>7 DEF Sound

-----------------------------------------------------------------------------
\* A step changes serials only as far as they keep telling, or doubts.
LEMMA SwitchShown ==
  ASSUME TypeOK, ShownInv, NEW p \in Editor, NEW e \in Env, NEW v \in View,
         Promote(p, e, v) \/ Rollback(p, e, v)
  PROVE  ShownInv'
<1>1. /\ UNCHANGED <<assigned, home, serial, applied, agent, disk, late, doubtful>>
      /\ edit[p] = Idle
      /\ \A q \in Editor \ {p} : edit'[q] = edit[q]
      /\ edit'[p].env = e /\ edit'[p].kind # "reassign"
      /\ \A d \in Env \ {e} : served'[d] = served[d]
  <2>1. CASE Promote(p, e, v)
    BY <2>1 DEF Promote, Begin, TypeOK, Idle, rowVars
  <2>2. CASE Rollback(p, e, v)
    BY <2>2 DEF Rollback, Begin, TypeOK, Idle, rowVars
  <2>. QED  BY <2>1, <2>2
<1>2. Numbered'
  BY <1>1 DEF ShownInv, Numbered, Busy
<1>3. ASSUME NEW h \in Host \ doubtful PROVE Sound(h)'
  <2>1. Sound(h) /\ home[h] \in Env /\ NoEnv \notin Env
    BY EnvAssumption DEF ShownInv, TypeOK
  <2>2. CASE home[h] = e
    BY <1>1, <2>1, <2>2, SoundStays
  <2>3. CASE home[h] # e
    <3>1. edit[p].env # home[h]
      BY <1>1, <2>1 DEF Idle
    <3>. QED  BY <1>1, <2>1, <2>3, <3>1, SoundStays
  <2>. QED  BY <2>2, <2>3
<1>. QED  BY <1>1, <1>2, <1>3 DEF ShownInv

LEMMA ReadShown ==
  ASSUME TypeOK, ShownInv, NEW p \in Editor,
         BumpRead(p) \/ (\E h \in Host, e \in Env : Reassign(p, h, e))
  PROVE  ShownInv'
<1>1. /\ UNCHANGED <<assigned, served, home, serial, applied, agent, disk, late, doubtful>>
      /\ \A q \in Editor : \/ edit'[q].env = edit[q].env /\ edit'[q].kind = edit[q].kind
                           \/ edit[q] = Idle
  <2>1. CASE BumpRead(p)
    BY <2>1 DEF BumpRead, TypeOK, Edit, rowVars
  <2>2. CASE \E h \in Host, e \in Env : Reassign(p, h, e)
    BY <2>2 DEF Reassign, Begin, TypeOK, rowVars
  <2>. QED  BY <2>1, <2>2
<1>2. Numbered'
  BY <1>1 DEF ShownInv, Numbered, Busy
<1>3. ASSUME NEW h \in Host \ doubtful PROVE Sound(h)'
  <2>1. Sound(h) /\ home[h] \in Env /\ NoEnv \notin Env
    BY EnvAssumption DEF ShownInv, TypeOK
  <2>2. \A q \in Editor : edit[q].env = home[h] => edit[q] # Idle
    BY <2>1 DEF Idle
  <2>. QED  BY <1>1, <2>1, <2>2, SoundStays
<1>. QED  BY <1>1, <1>2, <1>3 DEF ShownInv

\* An editor that commits was the only one since it read, or leaves a doubt.
LEMMA CommitShown ==
  ASSUME TypeOK, TypeOK', ShownInv, NEW p \in Editor, BumpCommit(p) \/ ReassignCommit(p)
  PROVE  ShownInv'
<1>. DEFINE o == edit[p]
<1>1. /\ UNCHANGED <<served, applied, agent, disk, late>>
      /\ serial' = Bumped(p)
      /\ \A q \in Editor \ {p} : edit'[q] = edit[q]
      /\ doubtful \subseteq doubtful'
  BY DEF BumpCommit, ReassignCommit, End, TypeOK
<1>2. Numbered'
  BY <1>1 DEF ShownInv, Numbered, Busy
<1>3. ASSUME NEW h \in Host \ doubtful' PROVE Sound(h)'
  <2>1. Sound(h) /\ home[h] \in Env /\ Numbered
    BY <1>1 DEF ShownInv, TypeOK
  <2>2. /\ serial'[h] = IF o.read[h] = 0 THEN serial[h] ELSE o.read[h] + 1
        /\ serial[h] \in Nat /\ serial'[h] \in Nat /\ o.read[h] \in Nat
    <3>1. serial'[h] = IF o.read[h] = 0 THEN serial[h] ELSE o.read[h] + 1
      BY <1>1 DEF Bumped
    <3>. QED  BY <3>1, NumbersAreNat
  <2>3. CASE o.read[h] # 0
    <3>1. serial[h] = o.read[h]
      BY <2>3 DEF BumpCommit, ReassignCommit, Missed
    <3>. QED  BY <1>1, <2>1, <2>2, <2>3, <3>1, SoundAhead DEF Sound
  <2>4. CASE o.read[h] = 0 /\ serial[h] = 0
    BY <1>1, <2>1, <2>2, <2>4, SoundAhead DEF Sound
  <2>5. CASE o.read[h] = 0 /\ serial[h] # 0
    <3>1. serial'[h] = serial[h]
      BY <2>2, <2>5
    <3>2. CASE BumpCommit(p)
      <4>1. home[h] # o.env
        BY <2>5, <3>2 DEF BumpCommit, Missed, Residents
      <4>2. home' = home /\ assigned'[home[h]] = assigned[home[h]]
        BY <2>1, <3>2, <4>1 DEF BumpCommit, TypeOK
      <4>. QED  BY <1>1, <2>1, <3>1, <4>1, <4>2, SoundStays
    <3>3. CASE ReassignCommit(p)
      <4>1. h \notin o.hosts /\ o.kind = "reassign"
        BY <2>5, <3>3 DEF ReassignCommit, Missed
      <4>2. home'[h] = home[h] /\ assigned' = assigned
        BY <3>3, <4>1 DEF ReassignCommit
      <4>. QED  BY <1>1, <2>1, <3>1, <4>1, <4>2, SoundStays
    <3>. QED  BY <3>2, <3>3
  <2>. QED  BY <2>3, <2>4, <2>5
<1>. QED  BY <1>2, <1>3 DEF ShownInv

\* A change that leaves the serials alone leaves a doubt.
LEMMA UnannouncedShown ==
  ASSUME TypeOK, ShownInv,
         \/ \E p \in Editor : BumpFails(p)
         \/ \E e \in Env, v \in View : Unassign(e, v)
  PROVE  ShownInv'
<1>1. /\ UNCHANGED <<served, home, serial, applied, agent, disk, late>>
      /\ doubtful \subseteq doubtful'
  BY DEF BumpFails, Unassign, rowVars
<1>2. Numbered'
  BY <1>1 DEF ShownInv, Numbered, Busy
<1>3. ASSUME NEW h \in Host \ doubtful' PROVE Sound(h)'
  <2>1. Sound(h) /\ home[h] \in Env
    BY <1>1 DEF ShownInv, TypeOK
  <2>2. ASSUME NEW p \in Editor, BumpFails(p) PROVE Sound(h)'
    <3>1. home[h] # edit[p].env /\ assigned' = assigned
          /\ \A q \in Editor \ {p} : edit'[q] = edit[q]
      BY <2>2 DEF BumpFails, Residents, End, TypeOK, rowVars
    <3>. QED  BY <1>1, <2>1, <3>1, SoundStays
  <2>3. ASSUME NEW e \in Env, NEW v \in View, Unassign(e, v) PROVE Sound(h)'
    <3>1. home[h] # e /\ assigned'[home[h]] = assigned[home[h]] /\ edit' = edit
      BY <2>1, <2>3 DEF Unassign, Residents, TypeOK
    <3>. QED  BY <1>1, <2>1, <3>1, SoundStays
  <2>. QED  BY <2>2, <2>3
<1>. QED  BY <1>2, <1>3 DEF ShownInv

-----------------------------------------------------------------------------
\* A step of one host's agent concerns that host only.
LEMMA HostStep ==
  ASSUME TypeOK, ShownInv, NEW g \in Host, UNCHANGED <<assigned, served, home, edit>>,
         \A h \in Host \ {g} :
           /\ serial'[h] = serial[h] /\ applied'[h] = applied[h] /\ late'[h] = late[h]
           /\ agent'[h] = agent[h] /\ disk'[h] = disk[h]
           /\ h \in doubtful => h \in doubtful',
         Busy(g)' => agent'[g].serial # 0,
         \A r \in late'[g] : r.serial # 0,
         g \in doubtful' \/ Sound(g)'
  PROVE  ShownInv'
<1>1. Numbered'
  BY DEF ShownInv, Numbered, Busy
<1>2. ASSUME NEW h \in Host \ doubtful' PROVE Sound(h)'
  <2>1. CASE h = g
    BY <2>1
  <2>2. CASE h # g
    <3>1. Sound(h)
      BY <2>2 DEF ShownInv
    <3>. QED  BY <2>2, <3>1, SoundStays
  <2>. QED  BY <2>1, <2>2
<1>. QED  BY <1>1, <1>2 DEF ShownInv

\* The run of the agent ends without a report, or a new one asks.
LEMMA RestShown ==
  ASSUME TypeOK, ShownInv, NEW h \in Host,
         \/ CheckinRead(h) \/ ReportRefused(h) \/ Sleep(h)
         \/ CheckinLost(h) \/ ReportLost(h)
  PROVE  ShownInv'
<1>1. /\ UNCHANGED <<assigned, served, home, edit>>
      /\ UNCHANGED <<serial, applied, disk, late, doubtful>>
  BY DEF CheckinRead, ReportRefused, Sleep, CheckinLost, ReportLost, rowVars
<1>2. /\ \A g \in Host \ {h} : agent'[g] = agent[g]
      /\ agent'[h].step \in {"asleep", "answering"}
  <2>1. agent \in [Host -> Agent]
    BY DEF TypeOK
  <2>2. CASE CheckinRead(h)
    <3>. DEFINE new == [Asleep EXCEPT !.step = "answering", !.env = home[h],
                                      !.views = assigned[home[h]], !.at = Len(asked[h])]
    <3>1. new.step = "answering"
      BY DEF Asleep
    <3>2. agent' = [agent EXCEPT ![h] = new]
      BY <2>2 DEF CheckinRead
    <3>. HIDE DEF new
    <3>. QED  BY <2>1, <3>1, <3>2
  <2>3. CASE ~ CheckinRead(h)
    <3>1. agent' = [agent EXCEPT ![h] = Asleep]
      BY <2>3 DEF ReportRefused, Sleep, CheckinLost, ReportLost
    <3>. QED  BY <2>1, <3>1, AsleepIsAsleep
  <2>. QED  BY <2>2, <2>3
<1>3. h \in doubtful \/ Sound(h)'
  <2>1. SUFFICES ASSUME Sound(h) PROVE Sound(h)'
    BY DEF ShownInv
  <2>2. Settled(h) => Settled(h)'
    BY <1>1 DEF Settled, Underway, Current
  <2>3. ~ Busy(h)'
    BY <1>2 DEF Busy
  <2>4. InOrder(h)' /\ UpToDate(h)'
    BY <1>1, <2>1, <2>3 DEF Sound, InOrder, UpToDate
  <2>5. Claimed(h)' => Claimed(h)
    BY <1>1, <1>2 DEF Claimed
  <2>. QED  BY <2>1, <2>2, <2>4, <2>5 DEF Sound
<1>4. /\ ~ Busy(h)'
      /\ \A r \in late'[h] : r.serial # 0
  BY <1>1, <1>2 DEF Busy, ShownInv, Numbered
<1>. QED  BY <1>1, <1>2, <1>3, <1>4, HostStep

\* The serial is read after the rows: if those moved between, it is doubted,
\* else the answer is what they say.
LEMMA CheckinCommitShown ==
  ASSUME IInv, ShownInv, NEW h \in Host, CheckinCommit(h)
  PROVE  ShownInv'
<1>1. TypeOK /\ agent[h] \in Agent /\ serial \in [Host -> Serial]
  BY DEF IInv, TypeOK
<1>2. /\ agent[h].step = "answering"
      /\ serial' = [serial EXCEPT ![h] = IF @ = 0 THEN 1 ELSE @]
      /\ agent' = [agent EXCEPT ![h].step = IF Understood THEN "installing" ELSE "asleep",
                                ![h].serial = serial'[h]]
      /\ doubtful' = IF agent[h].at # Len(asked[h]) THEN doubtful \cup {h} ELSE doubtful
      /\ UNCHANGED <<assigned, served, home, edit>>
      /\ UNCHANGED <<applied, disk, late>>
  BY DEF CheckinCommit
<1>3. /\ agent'[h].serial = serial'[h] /\ agent'[h].step \in {"installing", "asleep"}
      /\ agent'[h].env = agent[h].env /\ agent'[h].views = agent[h].views
      /\ \A g \in Host \ {h} : agent'[g] = agent[g] /\ serial'[g] = serial[g]
      /\ serial'[h] = IF serial[h] = 0 THEN 1 ELSE serial[h]
  <2>1. agent \in [Host -> Agent]
    BY <1>1 DEF TypeOK
  <2>. QED  BY <1>1, <1>2, <2>1 DEF Agent
<1>4. /\ serial[h] \in Nat /\ applied[h] \in Nat
      /\ \A r \in late[h] : r.serial \in Nat /\ r.serial # 0
  BY <1>1, NumbersAreNat DEF ShownInv, Numbered
<1>5. serial'[h] # 0 /\ serial'[h] \in Nat /\ serial'[h] >= serial[h]
  BY <1>3, <1>4
<1>6. ASSUME h \notin doubtful' PROVE Sound(h)'
  <2>1. Sound(h) /\ agent[h].at = Len(asked[h])
    BY <1>2, <1>6 DEF ShownInv
  <2>2. agent[h].env = home[h] /\ agent[h].views = assigned[home[h]]
    <3>1. /\ asked[h][agent[h].at] = [env |-> agent[h].env, views |-> agent[h].views]
          /\ asked[h][Len(asked[h])] = [env |-> home[h], views |-> assigned[home[h]]]
      BY <1>2 DEF IInv, Ahead, AskedLast, Wanted
    <3>. QED  BY <2>1, <3>1
  <2>3. UpToDate(h)'
    BY <1>2, <1>3, <2>2 DEF UpToDate, Busy
  <2>4. InOrder(h)'
    <3>1. applied[h] <= serial[h] /\ \A r \in late[h] : r.serial <= serial[h]
      BY <2>1 DEF Sound, InOrder
    <3>2. applied[h] <= serial'[h] /\ \A r \in late[h] : r.serial <= serial'[h]
      BY <1>4, <1>5, <3>1
    <3>3. serial'[h] <= serial'[h] /\ applied' = applied /\ late' = late
      BY <1>2, <1>5
    <3>. QED  BY <1>3, <3>2, <3>3 DEF InOrder
  <2>5. Settled(h) => Settled(h)'
    BY <1>2 DEF Settled, Underway, Current
  <2>6. Claimed(h)' => Claimed(h)
    <3>1. CASE serial[h] # 0
      BY <1>2, <1>3, <3>1 DEF Claimed
    <3>2. CASE serial[h] = 0
      <4>1. applied[h] = 0 /\ late[h] = {}
        BY <1>4, <2>1, <3>2 DEF Sound, InOrder
      <4>. QED  BY <1>2, <1>3, <4>1 DEF Claimed
    <3>. QED  BY <3>1, <3>2
  <2>. QED  BY <2>1, <2>3, <2>4, <2>5, <2>6 DEF Sound
<1>. QED  BY <1>1, <1>2, <1>3, <1>4, <1>5, <1>6, HostStep

\* What an answer with the serial of the row brings is what the rows say.
LEMMA InstallShown ==
  ASSUME TypeOK, ShownInv, NEW h \in Host, Install(h) \/ InstallFails(h)
  PROVE  ShownInv'
<1>1. agent \in [Host -> Agent] /\ disk \in [Host -> Disk] /\ agent[h].step = "installing"
  BY DEF TypeOK, Install, InstallFails
<1>2. /\ UNCHANGED <<assigned, served, home, edit>>
      /\ UNCHANGED <<serial, applied, late>>
      /\ \A g \in Host \ {h} : agent'[g] = agent[g] /\ disk'[g] = disk[g]
      /\ agent'[h].serial = agent[h].serial
  BY <1>1 DEF Install, InstallFails, Step, rowVars, Agent
<1>3. CASE InstallFails(h)
  <2>1. doubtful' = doubtful \cup {h}
    BY <1>3 DEF InstallFails
  <2>. QED  BY <1>1, <1>2, <2>1, HostStep DEF ShownInv, Numbered, Busy
<1>4. CASE Install(h)
  <2>1. /\ doubtful' = doubtful /\ agent'[h].step = "updating"
        /\ disk'[h] = [disk[h] EXCEPT !.env = agent[h].env, !.views = agent[h].views,
                                      !.at = agent[h].at, !.whole = TRUE]
    BY <1>1, <1>4 DEF Install, Step, Agent
  <2>2. /\ disk'[h].env = agent[h].env /\ disk'[h].views = agent[h].views
        /\ disk'[h].whole /\ disk'[h].lists = disk[h].lists
    BY <1>1, <2>1 DEF Disk
  <2>3. ASSUME h \notin doubtful PROVE Sound(h)'
    <3>1. Sound(h)
      BY <2>3 DEF ShownInv
    <3>2. InOrder(h)'
      BY <1>1, <1>2, <2>1, <3>1 DEF Sound, InOrder, Busy
    <3>3. agent[h].serial = serial[h] => Placed(h)'
      BY <1>1, <1>2, <2>2, <3>1 DEF Sound, UpToDate, Busy, Placed
    <3>4. UpToDate(h)'
      BY <1>2, <2>1, <3>3 DEF UpToDate
    <3>5. Claimed(h)' => Claimed(h) /\ agent[h].serial = serial[h]
      <4>1. /\ serial[h] \in Nat /\ applied[h] \in Nat /\ agent[h].serial \in Nat
            /\ \A r \in late[h] : r.serial \in Nat
        BY NumbersAreNat
      <4>2. /\ agent[h].serial <= serial[h] /\ applied[h] <= agent[h].serial
            /\ \A r \in late[h] : r.serial <= agent[h].serial
        BY <1>1, <3>1 DEF Sound, InOrder, Busy
      <4>3. Claimed(h)' => Claimed(h) /\ (\/ applied[h] = serial[h]
                                          \/ \E r \in late[h] : r.serial = serial[h])
        BY <1>2, <2>1 DEF Claimed
      <4>. QED  BY <4>1, <4>2, <4>3
    <3>6. Current(h) /\ Placed(h)' => Current(h)'
      BY <1>2, <2>2 DEF Current, Placed
    <3>7. Settled(h) /\ Placed(h)' => Settled(h)'
      BY <1>2, <3>6 DEF Settled, Underway
    <3>. QED  BY <3>1, <3>2, <3>3, <3>4, <3>5, <3>7 DEF Sound
  <2>4. Busy(h) /\ \A r \in late[h] : r.serial # 0
    BY <1>1 DEF ShownInv, Numbered, Busy
  <2>. QED  BY <1>1, <1>2, <2>1, <2>3, <2>4, HostStep DEF ShownInv, Numbered
<1>. QED  BY <1>3, <1>4

\* Lists that were fetched from the right sources are the ones aptly serves.
LEMMA UpdateShown ==
  ASSUME TypeOK, ShownInv, NEW h \in Host,
         Update(h) \/ UpdateFails(h) \/ (\E ok \in BOOLEAN : Act(h, ok))
  PROVE  ShownInv'
<1>1. agent \in [Host -> Agent] /\ disk \in [Host -> Disk]
      /\ agent[h].step \in {"updating", "acting"}
  BY DEF TypeOK, Update, UpdateFails, Act
<1>2. PICK step \in {"reporting", "closing"}, ok \in BOOLEAN :
        /\ agent' = [agent EXCEPT ![h].step = step, ![h].ok = ok]
        /\ disk' = [disk EXCEPT ![h].lists = Fetched(h)] \/ (disk' = disk /\ ~ok)
        /\ UNCHANGED <<rowVars, served, edit, late, doubtful>>
  BY DEF Update, UpdateFails, Act, countVars
<1>3. /\ UNCHANGED <<assigned, served, home, edit>>
      /\ UNCHANGED <<serial, applied, late, doubtful>>
      /\ \A g \in Host \ {h} : agent'[g] = agent[g] /\ disk'[g] = disk[g]
  BY <1>1, <1>2 DEF rowVars
<1>4. /\ agent'[h].serial = agent[h].serial /\ agent'[h].step = step /\ agent'[h].ok = ok
      /\ disk'[h].env = disk[h].env /\ disk'[h].views = disk[h].views
      /\ disk'[h].whole = disk[h].whole
      /\ disk'[h].lists = Fetched(h) \/ (disk'[h].lists = disk[h].lists /\ ~ok)
  BY <1>1, <1>2 DEF Agent, Disk
<1>5. ASSUME h \notin doubtful PROVE Sound(h)'
  <2>1. Sound(h) /\ Busy(h)
    BY <1>1, <1>5 DEF ShownInv, Busy
  <2>2. InOrder(h)'
    BY <1>3, <1>4, <2>1 DEF Sound, InOrder
  <2>3. Placed(h)' <=> Placed(h)
    BY <1>3, <1>4 DEF Placed
  <2>4. UpToDate(h)'
    BY <1>1, <1>3, <1>4, <2>1, <2>3 DEF Sound, UpToDate, Busy
  <2>5. CASE disk'[h].lists = Fetched(h)
    <3>1. Placed(h) => Current(h)'
      <4>1. SUFFICES ASSUME Placed(h), NEW v \in disk[h].views
                     PROVE  disk'[h].lists[v] = served[home[h]][v]
        BY <1>3, <1>4 DEF Placed, Current
      <4>2. disk[h].env = home[h] /\ v \in View
        BY <1>1, <4>1 DEF Placed, Disk
      <4>. QED  BY <2>5, <4>1, <4>2 DEF Fetched
    <3>2. Settled(h) => Settled(h)'
      BY <1>3, <3>1 DEF Settled, Underway, Current, Placed
    <3>3. Claimed(h)' => Claimed(h) \/ Placed(h)
      <4>1. Claimed(h)' => Claimed(h) \/ agent[h].serial = serial[h]
        BY <1>3, <1>4 DEF Claimed
      <4>2. agent[h].serial = serial[h] => Placed(h)
        BY <1>1, <2>1 DEF Sound, UpToDate
      <4>. QED  BY <4>1, <4>2
    <3>. QED  BY <2>1, <2>2, <2>4, <3>1, <3>2, <3>3 DEF Sound, Settled
  <2>6. CASE disk'[h].lists = disk[h].lists /\ ~ok
    <3>1. Claimed(h)' => Claimed(h)
      BY <1>3, <1>4, <2>6 DEF Claimed
    <3>2. Settled(h) => Settled(h)'
      BY <1>3, <1>4, <2>6 DEF Settled, Underway, Current
    <3>. QED  BY <2>1, <2>2, <2>4, <3>1, <3>2 DEF Sound
  <2>. QED  BY <1>4, <2>5, <2>6
<1>6. Busy(h) /\ agent[h].serial # 0 /\ \A r \in late[h] : r.serial # 0
  BY <1>1 DEF ShownInv, Numbered, Busy
<1>. QED  BY <1>3, <1>4, <1>5, <1>6, HostStep

\* What the agent claims is on its way, and stays the newest that is.
LEMMA DelayedShown ==
  ASSUME TypeOK, ShownInv, NEW h \in Host, ReportDelayed(h)
  PROVE  ShownInv'
<1>1. /\ UNCHANGED <<assigned, served, home, edit>>
      /\ UNCHANGED <<serial, applied, disk, doubtful>>
      /\ \A g \in Host \ {h} : agent'[g] = agent[g] /\ late'[g] = late[g]
      /\ agent'[h].step = "asleep"
      /\ late'[h] = late[h] \cup {ReportOf(h)}
      /\ agent[h].step \in {"reporting", "closing"}
  BY DEF ReportDelayed, TypeOK, rowVars, Asleep
<1>2. ReportOf(h).serial = agent[h].serial /\ ReportOf(h).ok = agent[h].ok
  BY DEF ReportOf
<1>3. ASSUME h \notin doubtful PROVE Sound(h)'
  <2>1. Sound(h) /\ Busy(h)
    BY <1>1, <1>3 DEF ShownInv, Busy
  <2>2. InOrder(h)' /\ UpToDate(h)'
    BY <1>1, <1>2, <2>1 DEF Sound, InOrder, UpToDate, Busy
  <2>3. Claimed(h)' => Claimed(h)
    BY <1>1, <1>2 DEF Claimed
  <2>4. Settled(h) => Settled(h)'
    BY <1>1 DEF Settled, Underway, Current
  <2>. QED  BY <2>1, <2>2, <2>3, <2>4 DEF Sound
<1>4. ~ Busy(h)' /\ \A r \in late'[h] : r.serial # 0
  BY <1>1, <1>2 DEF ShownInv, Numbered, Busy
<1>. QED  BY <1>1, <1>3, <1>4, HostStep

\* A late success says no more than it said when it was due.
LEMMA HandledShown ==
  ASSUME TypeOK, ShownInv, NEW h \in Host, NEW r \in late[h], ReportHandled(h, r)
  PROVE  ShownInv'
<1>1. /\ UNCHANGED <<assigned, served, home, edit>>
      /\ UNCHANGED <<serial, disk, agent, doubtful>>
      /\ \A g \in Host \ {h} : applied'[g] = applied[g] /\ late'[g] = late[g]
      /\ applied'[h] = IF r.ok THEN r.serial ELSE applied[h]
      /\ late'[h] = late[h] \ {r}
  BY DEF ReportHandled, AppliedBy, TypeOK
<1>2. ASSUME h \notin doubtful PROVE Sound(h)'
  <2>1. Sound(h)
    BY <1>2 DEF ShownInv
  <2>2. InOrder(h)' /\ UpToDate(h)'
    BY <1>1, <2>1 DEF Sound, InOrder, UpToDate, Busy, Placed
  <2>3. Claimed(h)' => Claimed(h)
    BY <1>1 DEF Claimed
  <2>4. Settled(h) => Settled(h)'
    BY <1>1 DEF Settled, Underway, Current
  <2>. QED  BY <2>1, <2>2, <2>3, <2>4 DEF Sound
<1>3. /\ Busy(h)' => agent'[h].serial # 0
      /\ \A q \in late'[h] : q.serial # 0
  BY <1>1 DEF ShownInv, Numbered, Busy
<1>. QED  BY <1>1, <1>2, <1>3, HostStep

\* A success in time; it ends a doubt when it is for what the host has.
LEMMA ReportShown ==
  ASSUME TypeOK, ShownInv, NEW h \in Host, ReportArrives(h)
  PROVE  ShownInv'
<1>1. /\ UNCHANGED <<assigned, served, home, edit>>
      /\ UNCHANGED <<serial, disk, late>>
      /\ applied' = AppliedBy(h, ReportOf(h)) /\ doubtful' = Cleared(h, ReportOf(h))
      /\ agent' = After(h, Following(h))
      /\ agent[h].step \in {"reporting", "closing"}
  BY DEF ReportArrives
<1>2. /\ \A g \in Host \ {h} : applied'[g] = applied[g] /\ agent'[g] = agent[g]
                               /\ (g \in doubtful => g \in doubtful')
      /\ applied'[h] = IF agent[h].ok THEN agent[h].serial ELSE applied[h]
  BY <1>1 DEF AppliedBy, ReportOf, Cleared, After, TypeOK
<1>3. \/ agent'[h].step = "asleep"
      \/ /\ agent[h].step = "reporting" /\ agent'[h].step = "acting"
         /\ agent'[h].serial = agent[h].serial /\ agent'[h].ok = agent[h].ok
  <2>1. agent \in [Host -> Agent]
    BY DEF TypeOK
  <2>2. CASE agent[h].step = "reporting"
    <3>1. agent' = [agent EXCEPT ![h] = [@ EXCEPT !.step = "acting"]]
      BY <1>1, <2>2 DEF After, Following
    <3>. QED  BY <2>1, <2>2, <3>1 DEF Agent
  <2>3. CASE agent[h].step # "reporting"
    <3>1. agent' = [agent EXCEPT ![h] = Asleep]
      BY <1>1, <2>3 DEF After, Following
    <3>. QED  BY <2>1, <3>1, AsleepIsAsleep
  <2>. QED  BY <2>2, <2>3
<1>4. Settled(h) => Settled(h)'
  BY <1>1 DEF Settled, Underway, Current
<1>5. /\ serial[h] \in Nat /\ applied[h] \in Nat /\ agent[h].serial \in Nat
      /\ \A r \in late[h] : r.serial \in Nat
  BY NumbersAreNat
<1>6. ASSUME h \notin doubtful PROVE Sound(h)'
  <2>1. Sound(h) /\ Busy(h)
    BY <1>1, <1>6 DEF ShownInv, Busy
  <2>2. InOrder(h)'
    BY <1>1, <1>2, <1>3, <1>5, <2>1 DEF Sound, InOrder, Busy
  <2>3. UpToDate(h)'
    BY <1>1, <1>3, <2>1 DEF Sound, UpToDate, Busy, Placed
  <2>4. Claimed(h)' => Claimed(h)
    BY <1>1, <1>2, <1>3 DEF Claimed
  <2>. QED  BY <1>4, <2>1, <2>2, <2>3, <2>4 DEF Sound
<1>7. ASSUME h \in doubtful, h \notin doubtful' PROVE Sound(h)'
  <2>1. agent[h].ok /\ Current(h) /\ agent[h].serial = serial[h] /\ late[h] = {}
    BY <1>1, <1>7 DEF Cleared, ReportOf
  <2>2. InOrder(h)'
    <3>1. /\ applied'[h] = serial[h] /\ serial'[h] = serial[h] /\ late'[h] = {}
          /\ Busy(h)' => agent'[h].serial = serial[h]
      BY <1>1, <1>2, <1>3, <2>1 DEF Busy
    <3>. QED  BY <1>5, <3>1 DEF InOrder
  <2>3. Current(h)' /\ Placed(h)'
    BY <1>1, <2>1 DEF Current, Placed
  <2>. QED  BY <1>3, <2>2, <2>3 DEF Sound, UpToDate, Settled, Busy
<1>8. /\ Busy(h)' => agent'[h].serial # 0
      /\ \A r \in late'[h] : r.serial # 0
  BY <1>1, <1>3 DEF ShownInv, Numbered, Busy
<1>9. h \in doubtful' \/ Sound(h)'
  BY <1>6, <1>7
<1>. QED  BY <1>1, <1>2, <1>8, <1>9, HostStep

\* Tokens say nothing about serials.
LEMMA TokenShown ==
  ASSUME TypeOK, ShownInv,
         \/ \E h \in Host : \/ Admit(h)
                            \/ \E state \in {"revoked", "retired"} : Bar(h, state)
         \/ UNCHANGED vars
  PROVE  ShownInv'
<1>1. /\ UNCHANGED <<assigned, served, home, edit>>
      /\ UNCHANGED <<serial, applied, agent, disk, late, doubtful>>
  BY DEF Admit, Bar, vars, rowVars
<1>2. \A h \in Host \ doubtful : Sound(h)'
  BY <1>1, SoundStays DEF ShownInv
<1>. QED  BY <1>1, <1>2 DEF ShownInv, Numbered, Busy

LEMMA NextShown == IInv /\ IInv' /\ ShownInv /\ [Next]_vars => ShownInv'
<1>. SUFFICES ASSUME IInv, IInv', ShownInv, [Next]_vars PROVE ShownInv'
  OBVIOUS
<1>1. TypeOK /\ TypeOK'
  BY DEF IInv
<1>2. ASSUME NEW p \in Editor, NEW e \in Env, NEW v \in View,
             Promote(p, e, v) \/ Rollback(p, e, v)
      PROVE  ShownInv'
  BY <1>1, <1>2, SwitchShown
<1>3. ASSUME NEW p \in Editor, NEW h \in Host, NEW e \in Env, Reassign(p, h, e)
      PROVE  ShownInv'
  BY <1>1, <1>3, ReadShown
<1>4. ASSUME NEW p \in Editor, EditStep(p) PROVE ShownInv'
  BY <1>1, <1>4, ReadShown, CommitShown DEF EditStep
<1>5. ASSUME NEW p \in Editor, BumpFails(p) PROVE ShownInv'
  BY <1>1, <1>5, UnannouncedShown
<1>6. ASSUME NEW e \in Env, NEW v \in View, Unassign(e, v) PROVE ShownInv'
  BY <1>1, <1>6, UnannouncedShown
<1>7. ASSUME NEW h \in Host, AgentStep(h) PROVE ShownInv'
  BY <1>1, <1>7, RestShown, CheckinCommitShown, InstallShown, UpdateShown, ReportShown
     DEF AgentStep
<1>8. ASSUME NEW h \in Host,
             \/ CheckinLost(h) \/ InstallFails(h) \/ UpdateFails(h)
             \/ ReportLost(h) \/ ReportDelayed(h)
             \/ \E r \in late[h] : ReportHandled(h, r)
             \/ \E ok \in BOOLEAN : Act(h, ok)
      PROVE  ShownInv'
  BY <1>1, <1>8, RestShown, InstallShown, UpdateShown, DelayedShown, HandledShown
<1>9. CASE \/ \E h \in Host : \/ Admit(h)
                              \/ \E state \in {"revoked", "retired"} : Bar(h, state)
           \/ UNCHANGED vars
  BY <1>1, <1>9, TokenShown
<1>. QED
  BY <1>2, <1>3, <1>4, <1>5, <1>6, <1>7, <1>8, <1>9 DEF Next

\* Whatever is lost, late, retried or dies: a host whose serials agree has
\* what the rows and aptly say, or a promotion to its environment is underway,
\* or it is one of those a serial is known to have failed (the reads and writes
\* of ServerBeaconState in src/app/routers/beacon.py and the bump of
\* src/app/routers/lifecycle_environments.py are separate statements).
THEOREM ReconciledIsTrue == Spec => []ShownIsTrue
<1>1. ShownInv => ShownIsTrue
  BY DEF ShownInv, Sound, Claimed, Settled, ShownIsTrue
<1>. QED
  BY <1>1, InitShown, NextShown, SpecIInv, PTL DEF Spec
=============================================================================

----------------------------- MODULE BeaconConfig -----------------------------
(***************************************************************************)
(* How a host with a beacon gets its apt configuration.  Handlers and tasks *)
(* change what an environment offers, or a server's environment, and bump   *)
(* config_serial; the agent fetches the configuration with a checkin,       *)
(* installs it and reports the serial it fetched with it, which becomes     *)
(* applied_config_serial.  Equal serials are what shows a host as           *)
(* reconciled.  The serial is read and written by separate statements on    *)
(* both sides, so it is more a hint than a version.                         *)
(***************************************************************************)
EXTENDS Naturals, Sequences, FiniteSets

CONSTANTS
  Host,        \* servers with a beacon token
  Env,         \* lifecycle environments
  View,        \* content views
  FirstEnv,    \* the environment the servers are created in
  Editor,      \* API handlers and Celery tasks that may run at once
  MaxChanges,  \* bound: changes of configuration begun
  MaxLosses,   \* bound: messages lost or late, local failures
  Faults,      \* what may go wrong: crash, lost, late, disk, apt
  Understood,  \* whether the agent finds what it looks for in the answer
  NoEnv        \* no environment yet

ASSUME BoundAssumption == MaxChanges \in Nat /\ MaxLosses \in Nat
ASSUME EnvAssumption == FirstEnv \in Env /\ NoEnv \notin Env
ASSUME UnderstoodAssumption == Understood \in BOOLEAN

Publication == 0..MaxChanges   \* numbers the switches of aptly, 0 for none
Serial == 0..(MaxChanges + 1)  \* 0 stands for no row, or NULL

VARIABLES
  assigned,  \* assigned[e]: the views with a published row for e
  served,    \* served[e][v]: what aptly serves under the pair's prefix
  home,      \* home[h]: Server.environment_id
  token,     \* token[h]: whether the token in the agent's file is accepted
  serial,    \* serial[h]: ServerBeaconState.config_serial
  applied,   \* applied[h]: its applied_config_serial
  edit,      \* edit[p]: the change p makes and how far it is
  agent,     \* agent[h]: the run of the agent and the answer it works on
  disk,      \* disk[h]: the apt sources and lists of the host
  late,      \* late[h]: reports that will arrive after the agent gave up
  changes,   \* changes begun, for the bound and for fresh publications
  losses,    \* losses so far, for the bound
  asked,     \* history: the sources h was meant to have, oldest first
  doubtful   \* history: hosts whose serial missed a change

rowVars == <<assigned, home, token, serial, applied>>
countVars == <<changes, losses>>
vars == <<rowVars, served, edit, agent, disk, late, countVars, asked, doubtful>>

Sources == [env : Env \cup {NoEnv}, views : SUBSET View]
Idle == [kind |-> "none", step |-> "idle", env |-> NoEnv, views |-> {},
         hosts |-> {}, read |-> [h \in Host |-> 0]]
Edit == [kind : {"none", "promote", "rollback", "reassign"},
         step : {"idle", "bump", "commit"}, env : Env \cup {NoEnv},
         views : SUBSET View, hosts : SUBSET Host, read : [Host -> Serial]]
Asleep == [step |-> "asleep", env |-> NoEnv, views |-> {}, at |-> 0, serial |-> 0,
           ok |-> FALSE]
Agent == [step : {"asleep", "answering", "installing", "updating", "reporting",
                  "acting", "closing"},
          env : Env \cup {NoEnv}, views : SUBSET View, at : Nat,
          serial : Serial, ok : BOOLEAN]
Blank == [env |-> NoEnv, views |-> {}, lists |-> [v \in View |-> 0],
          at |-> 0, whole |-> FALSE]
Disk == [env : Env \cup {NoEnv}, views : SUBSET View,
         lists : [View -> Publication], at : Nat, whole : BOOLEAN]
Report == [serial : Serial, ok : BOOLEAN]

TypeOK ==
  /\ assigned \in [Env -> SUBSET View]
  /\ served \in [Env -> [View -> Publication]]
  /\ home \in [Host -> Env]
  /\ token \in [Host -> {"valid", "revoked", "retired"}]
  /\ serial \in [Host -> Serial] /\ applied \in [Host -> Serial]
  /\ edit \in [Editor -> Edit]
  /\ agent \in [Host -> Agent]
  /\ disk \in [Host -> Disk]
  /\ late \in [Host -> SUBSET Report]
  /\ changes \in 0..MaxChanges /\ losses \in 0..MaxLosses
  /\ asked \in [Host -> Seq(Sources)]
  /\ doubtful \subseteq Host

\* The first answer a host may get: its environment, nothing assigned.
Init ==
  /\ assigned = [e \in Env |-> {}]
  /\ served = [e \in Env |-> [v \in View |-> 0]]
  /\ home = [h \in Host |-> FirstEnv]
  /\ token = [h \in Host |-> "valid"]
  /\ serial = [h \in Host |-> 0] /\ applied = [h \in Host |-> 0]
  /\ edit = [p \in Editor |-> Idle]
  /\ agent = [h \in Host |-> Asleep]
  /\ disk = [h \in Host |-> Blank]
  /\ late = [h \in Host |-> {}]
  /\ changes = 0 /\ losses = 0
  /\ asked = [h \in Host |-> <<[env |-> FirstEnv, views |-> {}]>>]
  /\ doubtful = {}

-----------------------------------------------------------------------------
(* What a host should have, and whether it has it. *)

Wanted(h) == asked[h][Len(asked[h])]
\* The sources of h under new rows join the history if they differ.
AskedFrom(newHome, newAssigned) ==
  [h \in Host |->
     LET want == [env |-> newHome[h], views |-> newAssigned[newHome[h]]]
     IN  IF want = Wanted(h) THEN asked[h] ELSE Append(asked[h], want)]

Current(h) ==
  /\ disk[h].whole
  /\ disk[h].env = home[h] /\ disk[h].views = assigned[home[h]]
  /\ \A v \in disk[h].views : disk[h].lists[v] = served[home[h]][v]

\* Changes of e that aptly has and the rows do not.
Underway(e) == {p \in Editor : edit[p].env = e /\ edit[p].kind # "reassign"}

Begin(p, o) ==
  /\ edit[p] = Idle
  /\ changes < MaxChanges
  /\ changes' = changes + 1
  /\ edit' = [edit EXCEPT ![p] = o]
End(p) == edit' = [edit EXCEPT ![p] = Idle]

-----------------------------------------------------------------------------
(* Promotions, rollbacks, reassignments. *)

\* create_environment_content_view, promote_environment_content_view and
\* publish_and_promote_task: aptly is switched first.  The pair's lease keeps
\* promotions apart.
Promote(p, e, v) ==
  /\ \A q \in Editor : ~(/\ edit[q].kind = "promote"
                         /\ edit[q].env = e /\ v \in edit[q].views)
  /\ Begin(p, [Idle EXCEPT !.kind = "promote", !.step = "bump", !.env = e,
                           !.views = {v}])
  /\ served' = [served EXCEPT ![e][v] = changes + 1]
  /\ UNCHANGED <<rowVars, agent, disk, late, losses, asked, doubtful>>

\* rollback_environment_content_view: without the lease.
Rollback(p, e, v) ==
  /\ v \in assigned[e]
  /\ Begin(p, [Idle EXCEPT !.kind = "rollback", !.step = "bump", !.env = e,
                           !.views = {v}])
  /\ served' = [served EXCEPT ![e][v] = changes + 1]
  /\ UNCHANGED <<rowVars, agent, disk, late, losses, asked, doubtful>>

\* The serials of the environment's hosts are read, of those that have a row.
BumpRead(p) ==
  /\ edit[p].step = "bump"
  /\ edit' = [edit EXCEPT ![p].step = "commit",
       ![p].read = [h \in Host |->
          IF home[h] = edit[p].env THEN serial[h] ELSE 0]]
  /\ UNCHANGED <<rowVars, served, agent, disk, late, countVars, asked, doubtful>>

\* The serials an editor wrote, and the hosts whose serial says too little:
\* it changed between the read and the write, or nobody read it.
Bumped(p) ==
  [h \in Host |-> IF edit[p].read[h] = 0 THEN serial[h] ELSE edit[p].read[h] + 1]
Missed(p, hosts) ==
  {h \in Host : edit[p].read[h] # 0 /\ serial[h] # edit[p].read[h]}
  \cup {h \in hosts : edit[p].read[h] = 0 /\ serial[h] # 0}
Residents(e) == {h \in Host : home[h] = e}

\* The assignment, its version and the serials are committed together.
BumpCommit(p) ==
  LET o == edit[p]
  IN  /\ o.step = "commit" /\ o.kind # "reassign"
      /\ o.kind = "rollback" => o.views \subseteq assigned[o.env]
      /\ assigned' = [assigned EXCEPT ![o.env] = @ \cup o.views]
      /\ serial' = Bumped(p)
      /\ asked' = AskedFrom(home, assigned')
      /\ doubtful' = doubtful \cup Missed(p, Residents(o.env))
      /\ End(p)
      /\ UNCHANGED <<served, home, token, applied, agent, disk, late, countVars>>

\* The row was removed meanwhile, or the process dies: aptly keeps the switch.
BumpFails(p) ==
  LET o == edit[p]
  IN  /\ o.step \in {"bump", "commit"} /\ o.kind # "reassign"
      /\ \/ "crash" \in Faults
         \/ o.step = "commit" /\ o.kind = "rollback" /\ ~(o.views \subseteq assigned[o.env])
      /\ doubtful' = doubtful \cup Residents(o.env)
      /\ End(p)
      /\ UNCHANGED <<rowVars, served, agent, disk, late, countVars, asked>>

\* delete_environment_content_view: the row goes, no serial changes.
Unassign(e, v) ==
  /\ v \in assigned[e]
  /\ assigned' = [assigned EXCEPT ![e] = @ \ {v}]
  /\ asked' = AskedFrom(home, assigned')
  /\ doubtful' = doubtful \cup Residents(e)
  /\ UNCHANGED <<served, home, token, serial, applied, edit, agent, disk, late,
                 countVars>>

\* assign_server_environment: its reads ...
Reassign(p, h, e) ==
  /\ token[h] # "retired" /\ e # home[h]
  /\ Begin(p, [Idle EXCEPT !.kind = "reassign", !.step = "commit", !.env = e,
                           !.hosts = {h}, !.read = [g \in Host |-> IF g = h THEN serial[h] ELSE 0]])
  /\ UNCHANGED <<rowVars, served, agent, disk, late, losses, asked, doubtful>>

\* ... and its commit.  A server without a row has no serial to bump.
ReassignCommit(p) ==
  LET o == edit[p]
  IN  /\ o.step = "commit" /\ o.kind = "reassign"
      /\ home' = [h \in Host |-> IF h \in o.hosts THEN o.env ELSE home[h]]
      /\ serial' = Bumped(p)
      /\ asked' = AskedFrom(home', assigned)
      /\ doubtful' = doubtful \cup Missed(p, o.hosts)
      /\ End(p)
      /\ UNCHANGED <<assigned, served, token, applied, agent, disk, late, countVars>>

-----------------------------------------------------------------------------
(* The agent's run: checkin, install, update, report, facts and actions. *)

Step(h, step) == agent' = [agent EXCEPT ![h].step = step]

\* Mutant: nothing is fetched while the host shows as reconciled.
CheckinReadPending(h) ==
  /\ agent[h] = Asleep
  /\ token[h] = "valid"
  /\ applied[h] = 0 \/ applied[h] # serial[h]
  /\ agent' = [agent EXCEPT ![h] = [Asleep EXCEPT !.step = "answering",
       !.env = home[h], !.views = assigned[home[h]], !.at = Len(asked[h])]]
  /\ UNCHANGED <<rowVars, served, edit, disk, late, countVars, asked, doubtful>>

\* The checkin handler reads the environment and what is published there ...
CheckinRead(h) ==
  /\ agent[h] = Asleep
  /\ token[h] = "valid"
  /\ agent' = [agent EXCEPT ![h] = [Asleep EXCEPT !.step = "answering",
       !.env = home[h], !.views = assigned[home[h]], !.at = Len(asked[h])]]
  /\ UNCHANGED <<rowVars, served, edit, disk, late, countVars, asked, doubtful>>

\* Mutant: every checkin counts as a change.
CheckinCommitCounts(h) ==
  /\ agent[h].step = "answering"
  /\ serial' = [serial EXCEPT ![h] = @ + 1]
  /\ agent' = [agent EXCEPT ![h].step = IF Understood THEN "installing" ELSE "asleep",
                            ![h].serial = serial'[h]]
  /\ doubtful' = IF agent[h].at # Len(asked[h]) THEN doubtful \cup {h} ELSE doubtful
  /\ UNCHANGED <<assigned, served, home, token, applied, edit, disk, late,
                 countVars, asked>>

\* ... creates the state row if there is none, commits, and only then reads
\* the serial that goes into the answer.
CheckinCommit(h) ==
  /\ agent[h].step = "answering"
  /\ serial' = [serial EXCEPT ![h] = IF @ = 0 THEN 1 ELSE @]
  /\ agent' = [agent EXCEPT ![h].step = IF Understood THEN "installing" ELSE "asleep",
                            ![h].serial = serial'[h]]
  /\ doubtful' = IF agent[h].at # Len(asked[h]) THEN doubtful \cup {h} ELSE doubtful
  /\ UNCHANGED <<assigned, served, home, token, applied, edit, disk, late,
                 countVars, asked>>

\* Something goes wrong, within the bound.
Lose == losses < MaxLosses /\ losses' = losses + 1

\* The request or its answer is lost: the agent waits for the next run.
CheckinLost(h) ==
  /\ "lost" \in Faults /\ Lose
  /\ agent[h].step \in {"answering", "installing"}
  /\ agent' = [agent EXCEPT ![h] = Asleep]
  /\ UNCHANGED <<rowVars, served, edit, disk, late, changes, asked, doubtful>>

\* Mutant: the files of the last configuration are left in place.
InstallAdding(h) ==
  /\ agent[h].step = "installing"
  /\ disk' = [disk EXCEPT ![h] = [@ EXCEPT !.env = agent[h].env,
       !.views = @ \cup agent[h].views, !.at = agent[h].at, !.whole = TRUE]]
  /\ Step(h, "updating")
  /\ UNCHANGED <<rowVars, served, edit, late, countVars, asked, doubtful>>

\* reconcile_apt_sources: stale files are removed, the new ones written.
Install(h) ==
  /\ agent[h].step = "installing"
  /\ disk' = [disk EXCEPT ![h] = [@ EXCEPT !.env = agent[h].env,
       !.views = agent[h].views, !.at = agent[h].at, !.whole = TRUE]]
  /\ Step(h, "updating")
  /\ UNCHANGED <<rowVars, served, edit, late, countVars, asked, doubtful>>

\* Mutant: a failed attempt leaves the host without sources.
InstallFailsBlank(h) ==
  /\ "disk" \in Faults /\ Lose
  /\ agent[h].step = "installing"
  /\ disk' = [disk EXCEPT ![h] = Blank]
  /\ agent' = [agent EXCEPT ![h].step = "closing", ![h].ok = FALSE]
  /\ doubtful' = doubtful \cup {h}
  /\ UNCHANGED <<rowVars, served, edit, late, changes, asked>>

\* A file cannot be written, after the stale ones are gone: reported failed.
InstallFails(h) ==
  /\ "disk" \in Faults /\ Lose
  /\ agent[h].step = "installing"
  /\ disk' = [disk EXCEPT ![h] = [@ EXCEPT !.env = agent[h].env,
       !.views = IF disk[h].env = agent[h].env THEN disk[h].views \cap agent[h].views
                 ELSE {},
       !.at = agent[h].at, !.whole = FALSE]]
  /\ agent' = [agent EXCEPT ![h].step = "closing", ![h].ok = FALSE]
  /\ doubtful' = doubtful \cup {h}
  /\ UNCHANGED <<rowVars, served, edit, late, changes, asked>>

\* apt_get_update: the lists become what aptly serves now.
Fetched(h) == [v \in View |-> IF v \in disk[h].views
                              THEN served[disk[h].env][v] ELSE disk[h].lists[v]]
Update(h) ==
  /\ agent[h].step = "updating"
  /\ disk' = [disk EXCEPT ![h].lists = Fetched(h)]
  /\ agent' = [agent EXCEPT ![h].step = "reporting", ![h].ok = TRUE]
  /\ UNCHANGED <<rowVars, served, edit, late, countVars, asked, doubtful>>

\* Three attempts failed.
UpdateFails(h) ==
  /\ "apt" \in Faults /\ Lose
  /\ agent[h].step = "updating"
  /\ agent' = [agent EXCEPT ![h].step = "reporting", ![h].ok = FALSE]
  /\ UNCHANGED <<rowVars, served, edit, disk, late, changes, asked, doubtful>>

\* The report handler: a success sets applied_config_serial.
AppliedBy(h, r) == IF r.ok THEN [applied EXCEPT ![h] = r.serial] ELSE applied
ReportOf(h) == [serial |-> agent[h].serial, ok |-> agent[h].ok]
\* The doubt about h is over when a success is recorded for what it has.
Cleared(h, r) ==
  IF r.ok /\ Current(h) /\ r.serial = serial[h] /\ late[h] = {}
     /\ \A p \in Editor : edit[p] = Idle
  THEN doubtful \ {h} ELSE doubtful

\* After the report on the configuration come the actions, which update
\* again and report again; after a failed install there are none.
Following(h) == IF agent[h].step = "reporting" THEN "acting" ELSE "asleep"
After(h, step) == [agent EXCEPT ![h] = IF step = "asleep" THEN Asleep
                                       ELSE [@ EXCEPT !.step = step]]

\* Mutant: what a failed attempt reports is recorded as well.
ReportArrivesAnyway(h) ==
  /\ agent[h].step \in {"reporting", "closing"}
  /\ token[h] = "valid"
  /\ applied' = AppliedBy(h, [ReportOf(h) EXCEPT !.ok = TRUE])
  /\ doubtful' = Cleared(h, ReportOf(h))
  /\ agent' = After(h, Following(h))
  /\ UNCHANGED <<assigned, served, home, token, serial, edit, disk, late, countVars,
                 asked>>

ReportArrives(h) ==
  /\ agent[h].step \in {"reporting", "closing"}
  /\ token[h] = "valid"
  /\ applied' = AppliedBy(h, ReportOf(h))
  /\ doubtful' = Cleared(h, ReportOf(h))
  /\ agent' = After(h, Following(h))
  /\ UNCHANGED <<assigned, served, home, token, serial, edit, disk, late, countVars,
                 asked>>

\* 401, or no answer: the run is over.
ReportRefused(h) ==
  /\ agent[h].step \in {"reporting", "closing", "answering"}
  /\ token[h] # "valid"
  /\ agent' = [agent EXCEPT ![h] = Asleep]
  /\ UNCHANGED <<rowVars, served, edit, disk, late, countVars, asked, doubtful>>
ReportLost(h) ==
  /\ "lost" \in Faults /\ Lose
  /\ agent[h].step \in {"reporting", "closing"}
  /\ agent' = [agent EXCEPT ![h] = Asleep]
  /\ UNCHANGED <<rowVars, served, edit, disk, late, changes, asked, doubtful>>
\* The agent gives up after its timeout, the request is handled later ...
ReportDelayed(h) ==
  /\ "late" \in Faults /\ Lose
  /\ agent[h].step \in {"reporting", "closing"} /\ token[h] = "valid"
  /\ late' = [late EXCEPT ![h] = @ \cup {ReportOf(h)}]
  /\ agent' = [agent EXCEPT ![h] = Asleep]
  /\ UNCHANGED <<rowVars, served, edit, disk, changes, asked, doubtful>>
\* ... in any order.
ReportHandled(h, r) ==
  /\ r \in late[h]
  /\ late' = [late EXCEPT ![h] = @ \ {r}]
  /\ applied' = AppliedBy(h, r)
  /\ UNCHANGED <<assigned, served, home, token, serial, edit, agent, disk, countVars,
                 asked, doubtful>>

\* An action was delivered with the answer: it updates the lists itself, and
\* its outcome is reported with the serial of the answer.
Act(h, ok) ==
  /\ agent[h].step = "acting"
  /\ disk' = IF ok THEN [disk EXCEPT ![h].lists = Fetched(h)] ELSE disk
  /\ agent' = [agent EXCEPT ![h].step = "closing", ![h].ok = ok]
  /\ UNCHANGED <<rowVars, served, edit, late, countVars, asked, doubtful>>
\* There was none.
Sleep(h) ==
  /\ agent[h].step = "acting"
  /\ agent' = [agent EXCEPT ![h] = Asleep]
  /\ UNCHANGED <<rowVars, served, edit, disk, late, countVars, asked, doubtful>>

-----------------------------------------------------------------------------
(* Credentials. *)

\* revoke_beacon_token, decommission_server.
Bar(h, state) ==
  /\ token[h] # "retired" /\ state \in {"revoked", "retired"}
  /\ token' = [token EXCEPT ![h] = state]
  /\ UNCHANGED <<assigned, served, home, serial, applied, edit, agent, disk, late,
                 countVars, asked, doubtful>>
\* issue_beacon_token, and the agent's file is written anew.
Admit(h) ==
  /\ token[h] = "revoked"
  /\ token' = [token EXCEPT ![h] = "valid"]
  /\ UNCHANGED <<assigned, served, home, serial, applied, edit, agent, disk, late,
                 countVars, asked, doubtful>>

-----------------------------------------------------------------------------
AgentStep(h) ==
  \/ CheckinRead(h) \/ CheckinCommit(h) \/ Install(h) \/ Update(h)
  \/ ReportArrives(h) \/ ReportRefused(h) \/ Sleep(h)
EditStep(p) == BumpRead(p) \/ BumpCommit(p) \/ ReassignCommit(p)

Next ==
  \/ \E p \in Editor :
       \/ \E e \in Env, v \in View : Promote(p, e, v) \/ Rollback(p, e, v)
       \/ \E h \in Host, e \in Env : Reassign(p, h, e)
       \/ EditStep(p) \/ BumpFails(p)
  \/ \E e \in Env, v \in View : Unassign(e, v)
  \/ \E h \in Host :
       \/ AgentStep(h)
       \/ CheckinLost(h) \/ InstallFails(h) \/ UpdateFails(h)
       \/ ReportLost(h) \/ ReportDelayed(h)
       \/ \E r \in late[h] : ReportHandled(h, r)
       \/ \E ok \in BOOLEAN : Act(h, ok)
       \/ \E state \in {"revoked", "retired"} : Bar(h, state)
       \/ Admit(h)

Spec == Init /\ [][Next]_vars

\* The timer starts the agent again and again, handlers and tasks go on, a
\* request the agent gave up is handled in the end.
FairSpec ==
  /\ Spec
  /\ \A h \in Host : WF_vars(AgentStep(h)) /\ WF_vars(\E r \in late[h] : ReportHandled(h, r))
  /\ \A p \in Editor : WF_vars(EditStep(p))

-----------------------------------------------------------------------------
(* Properties. *)

\* A host that shows as reconciled has the sources and the lists it should
\* have, unless a promotion is still underway.  Every way this fails is one
\* of those recorded in doubtful: two editors of one serial, rows that change
\* while a checkin is answered, an unassignment, a promotion that died half
\* way, a failed reinstallation of what had been applied.
ShownIsTrue ==
  \A h \in Host :
    applied[h] # 0 /\ applied[h] = serial[h] /\ h \notin doubtful
    => Underway(home[h]) # {} \/ Current(h)

\* What a host has is what it was asked to have at some time, never a mixture
\* of two environments; after a failed installation it may be a part of it.
OnRecord ==
  \A h \in Host :
    LET then == asked[h][disk[h].at]
    IN  disk[h].at # 0 => /\ disk[h].env = then.env
                          /\ IF disk[h].whole THEN disk[h].views = then.views
                             ELSE disk[h].views \subseteq then.views

\* Each host follows what it is asked for, whatever its serials say.
Follows(h) == INSTANCE Follower WITH asked <- asked[h], at <- disk[h].at
EveryHostFollows ==
  /\ \A h \in Host : Follows(h)!Init
  /\ [][\A h \in Host : [Follows(h)!Next]_<<asked[h], disk[h].at>>]_vars

\* A host whose token stays valid ends up with what it should have, shown as
\* reconciled, and with no serial in doubt that would matter: the agent
\* installs at every checkin, so also what no serial announced.
EveryHostGetsThere ==
  \A h \in Host :
    <>[](token[h] = "valid")
    => /\ Follows(h)!CatchesUp
       /\ <>[](Current(h) /\ applied[h] = serial[h])

\* What docs/beacon.md says: the agent reports the outcome of a checkin.
CheckinIsReported ==
  \A h \in Host :
    agent[h].step = "answering"
    ~> (agent[h].step \in {"reporting", "closing"} \/ token[h] # "valid")
=============================================================================

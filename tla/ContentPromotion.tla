--------------------------- MODULE ContentPromotion ---------------------------
(***************************************************************************)
(* The versions of one content view: cut by do_publish,                    *)
(* made live in lifecycle environments (do_promote, rollback), deleted.    *)
(* Every operation works on two stores that share no transaction, the      *)
(* database and aptly, and is split where it goes from one to the other.   *)
(*                                                                         *)
(* Assigning and promoting hold a lease on the pair (environment, content  *)
(* view); rolling back and unassigning hold none.                          *)
(***************************************************************************)
EXTENDS Naturals, Sequences, FiniteSets

CONSTANTS
  Env,        \* lifecycle environments
  Proc,       \* API handlers and Celery tasks that may run at once
  Repos,      \* the number of the content view's repositories
  Filtering,  \* whether filters are set: a subset of BOOLEAN
  MaxCuts,    \* bound: versions ever cut
  MaxAssigns, \* bound: assignments ever made
  Faults,     \* what may go wrong: refuse, late, crash, lapse
  Free,       \* the holder of a free lease
  Stale,      \* the holder of the lease of a process that died
  NoEnv       \* the environment of an operation that needs none

ASSUME BoundAssumption == Repos \in Nat \ {0} /\ {MaxCuts, MaxAssigns} \subseteq Nat
ASSUME FilteringAssumption == Filtering \subseteq BOOLEAN
ASSUME HolderAssumption == Free \notin Proc /\ Stale \notin Proc /\ NoEnv \notin Env

Cut == 1..MaxCuts
Repo == 1..Repos
\* An aptly snapshot: of a mirror, or the filtered one built on top of it.
Snapshot == Cut \X Repo \X {"raw", "filtered"}

VARIABLES
  snaps,     \* aptly: the snapshots that exist
  served,    \* aptly: served[e], the snapshots published under e's prefix
  version,   \* version[c]: the ContentViewVersion row of cut c
  cuts,      \* cuts so far, for fresh names and the bound
  ecv,       \* ecv[e]: id of e's EnvironmentContentView row, 0 for none
  assigns,   \* assignments so far, for fresh ids and the bound
  current,   \* current[e]: its current_version_id, 0 for none
  audit,     \* switch_publish/rollback_environment rows: <<ecv id, cut>>
  lease,     \* lease[e]: holder of the pair's Redis lease
  op,        \* op[p]: the operation p runs and how far it is
  blurred,   \* history: environments hit by a fault or an unlocked overlap
  raced,     \* history: cuts promoted while a delete task took them apart
  torn       \* history: cuts whose delete stopped without its bookkeeping

aptlyVars == <<snaps, served>>
rowVars == <<version, cuts, ecv, assigns, current, audit>>
histVars == <<blurred, raced, torn>>
vars == <<aptlyVars, rowVars, lease, op, histVars>>

\* all_snapshot_names of a cut: per repository the raw snapshot, then the
\* filtered one if there are filters.
Names(c, filtered) ==
  IF filtered
  THEN [i \in 1..(2 * Repos) |->
          <<c, (i + 1) \div 2, IF i % 2 = 1 THEN "raw" ELSE "filtered">>]
  ELSE [i \in Repo |-> <<c, i, "raw">>]
Elements(names) == {names[i] : i \in DOMAIN names}
\* The snapshots a version publishes: the last of each repository.
Final(c, filtered) ==
  {<<c, r, IF filtered THEN "filtered" ELSE "raw">> : r \in Repo}

NoVersion == [there |-> FALSE, number |-> 0, filtered |-> FALSE, names |-> <<>>]
Idle == [kind |-> "none", step |-> "idle", env |-> NoEnv, ecv |-> 0, cut |-> 0,
         number |-> 0, filtered |-> FALSE, todo |-> <<>>, alone |-> FALSE]

Kind == {"none", "publish", "assign", "promote", "rollback", "delete"}
Step == {"idle", "reading", "cutting", "recording", "switching", "committing",
         "queued", "dropping", "erasing"}
Version == [there : BOOLEAN, number : 0..(MaxCuts + 1), filtered : BOOLEAN,
            names : Seq(Snapshot)]
Operation == [kind : Kind, step : Step, env : Env \cup {NoEnv},
              ecv : 0..MaxAssigns, cut : 0..MaxCuts, number : 0..(MaxCuts + 1),
              filtered : BOOLEAN, todo : Seq(Snapshot), alone : BOOLEAN]

TypeOK ==
  /\ snaps \subseteq Snapshot
  /\ served \in [Env -> SUBSET Snapshot]
  /\ version \in [Cut -> Version]
  /\ cuts \in 0..MaxCuts /\ assigns \in 0..MaxAssigns
  /\ ecv \in [Env -> 0..MaxAssigns]
  /\ current \in [Env -> 0..MaxCuts]
  /\ audit \subseteq (1..MaxAssigns) \X Cut
  /\ lease \in [Env -> Proc \cup {Free, Stale}]
  /\ op \in [Proc -> Operation]
  /\ blurred \subseteq Env /\ raced \subseteq Cut /\ torn \subseteq Cut

Init ==
  /\ snaps = {}
  /\ served = [e \in Env |-> {}]
  /\ version = [c \in Cut |-> NoVersion]
  /\ cuts = 0 /\ assigns = 0
  /\ ecv = [e \in Env |-> 0]
  /\ current = [e \in Env |-> 0]
  /\ audit = {}
  /\ lease = [e \in Env |-> Free]
  /\ op = [p \in Proc |-> Idle]
  /\ blurred = {} /\ raced = {} /\ torn = {}

-----------------------------------------------------------------------------
(* Beginnings and ends of operations. *)

Versions == {c \in Cut : version[c].there}
\* The version with the highest number, 0 if there is none.
Latest == IF Versions = {} THEN 0
          ELSE CHOOSE c \in Versions : \A d \in Versions :
                 version[d].number <= version[c].number

\* version_ever_promoted: live somewhere now, or an audit row remembers it.
EverPromoted(c) ==
  \/ \E e \in Env : ecv[e] # 0 /\ current[e] = c
  \/ \E i \in 1..MaxAssigns : <<i, c>> \in audit

\* The operations on e, and the delete tasks of c past their check.
Busy(e) == {p \in Proc : op[p].env = e}
Deleting(c) == {p \in Proc : op[p].step \in {"dropping", "erasing"} /\ op[p].cut = c}

\* p begins operation o; the others on the same environment are not alone
\* any more, and where one of them holds no lease, the outcome is blurred.
Begin(p, o) ==
  /\ op[p] = Idle
  /\ op' = [q \in Proc |->
       IF q = p THEN [o EXCEPT !.alone = Busy(o.env) = {}]
       ELSE IF op[q].env = o.env THEN [op[q] EXCEPT !.alone = FALSE] ELSE op[q]]
BlurredBy(e, kind) ==
  IF \E p \in Busy(e) : "rollback" \in {kind, op[p].kind}
  THEN blurred \cup {e} ELSE blurred

Goto(p, step) == op' = [op EXCEPT ![p].step = step]
End(p) == op' = [op EXCEPT ![p] = Idle]
Release(p) == lease' = [e \in Env |-> IF lease[e] = p THEN Free ELSE lease[e]]

-----------------------------------------------------------------------------
(* do_publish, alone or on the way to a promotion. *)

\* POST /content-views/{id}/publish.
Publish(p) ==
  /\ op[p] = Idle
  /\ op' = [op EXCEPT ![p] = [Idle EXCEPT !.kind = "publish", !.step = "reading"]]
  /\ UNCHANGED <<aptlyVars, rowVars, lease, histVars>>

\* What a publish goes on to once it has its version.
WithVersion(p, c) ==
  IF op[p].kind = "publish" THEN Idle
  ELSE [op[p] EXCEPT !.step = "switching", !.cut = c, !.number = 0,
                     !.filtered = FALSE]

\* Mutant: the new number counts versions from the one after the latest.
PublishReadSkipping(p, new, filtered) ==
  /\ op[p].step = "reading"
  /\ filtered \in Filtering
  /\ op' = [op EXCEPT ![p] =
       IF ~new /\ Latest # 0 THEN WithVersion(p, Latest)
       ELSE [op[p] EXCEPT !.step = "cutting", !.filtered = filtered,
               !.number = IF Latest = 0 THEN 1 ELSE version[Latest].number + 2]]
  /\ UNCHANGED <<aptlyVars, rowVars, lease, histVars>>

\* The mirrors' packages are hashed and compared with the latest version:
\* nothing new and no force, and that version is the result; else the next
\* number is taken.
PublishRead(p, new, filtered) ==
  /\ op[p].step = "reading"
  /\ filtered \in Filtering
  /\ op' = [op EXCEPT ![p] =
       IF ~new /\ Latest # 0 THEN WithVersion(p, Latest)
       ELSE [op[p] EXCEPT !.step = "cutting", !.filtered = filtered,
               !.number = IF Latest = 0 THEN 1 ELSE version[Latest].number + 1]]
  /\ UNCHANGED <<aptlyVars, rowVars, lease, histVars>>

\* The snapshots are made, under names of this cut.
PublishCut(p) ==
  /\ op[p].step = "cutting"
  /\ cuts < MaxCuts
  /\ cuts' = cuts + 1
  /\ snaps' = snaps \cup Elements(Names(cuts', op[p].filtered))
  /\ op' = [op EXCEPT ![p].step = "recording", ![p].cut = cuts']
  /\ UNCHANGED <<served, version, ecv, assigns, current, audit, lease,
                 histVars>>

\* aptly fails on the way, or when their packages are counted: the ones made
\* so far stay, nobody knows them.
PublishFails(p, made) ==
  /\ "refuse" \in Faults
  /\ op[p].step = "cutting"
  /\ cuts < MaxCuts
  /\ made <= Len(Names(cuts + 1, op[p].filtered))
  /\ cuts' = cuts + 1
  /\ snaps' = snaps \cup {Names(cuts', op[p].filtered)[i] : i \in 1..made}
  /\ End(p) /\ Release(p)
  /\ UNCHANGED <<served, version, ecv, assigns, current, audit, histVars>>

\* The row is committed ...
PublishRecord(p) ==
  LET o == op[p]
  IN  /\ o.step = "recording"
      /\ \A c \in Versions : version[c].number # o.number
      /\ version' = [version EXCEPT ![o.cut] =
           [there |-> TRUE, number |-> o.number, filtered |-> o.filtered,
            names |-> Names(o.cut, o.filtered)]]
      /\ op' = [op EXCEPT ![p] = WithVersion(p, o.cut)]
      /\ UNCHANGED <<aptlyVars, cuts, ecv, assigns, current, audit, lease, histVars>>

\* ... unless another publish took the number: UNIQUE (content_view_id,
\* version) raises.
PublishClashes(p) ==
  /\ op[p].step = "recording"
  /\ \E c \in Versions : version[c].number = op[p].number
  /\ End(p) /\ Release(p)
  /\ UNCHANGED <<aptlyVars, rowVars, histVars>>

-----------------------------------------------------------------------------
(* Making a version live. *)

\* POST .../content-views: the first promotion.  The row it inserts is
\* uncommitted until do_promote commits; a second insert waits on it.
Assign(p, e, c) ==
  /\ ecv[e] = 0 /\ lease[e] = Free
  /\ assigns < MaxAssigns
  /\ c \in Versions
  /\ \A q \in Busy(e) : op[q].kind # "assign"
  /\ assigns' = assigns + 1
  /\ lease' = [lease EXCEPT ![e] = p]
  /\ Begin(p, [Idle EXCEPT !.kind = "assign", !.step = "switching", !.env = e,
                           !.ecv = assigns', !.cut = c])
  /\ blurred' = BlurredBy(e, "assign")
  /\ UNCHANGED <<aptlyVars, version, cuts, ecv, current, audit, raced, torn>>

\* Mutant: promoting looks at the lease but does not take it.
PromoteUnlocked(p, e, c) ==
  /\ ecv[e] # 0 /\ lease[e] = Free
  /\ c \in Versions \cup {0}
  /\ Begin(p, [Idle EXCEPT !.kind = "promote", !.env = e, !.ecv = ecv[e], !.cut = c,
                           !.step = IF c = 0 THEN "reading" ELSE "switching"])
  /\ blurred' = BlurredBy(e, "promote")
  /\ UNCHANGED <<aptlyVars, rowVars, lease, raced, torn>>

\* POST .../promote and publish_and_promote_task: of version c, or with c = 0
\* of what do_publish returns.
Promote(p, e, c) ==
  /\ ecv[e] # 0 /\ lease[e] = Free
  /\ c \in Versions \cup {0}
  /\ lease' = [lease EXCEPT ![e] = p]
  /\ Begin(p, [Idle EXCEPT !.kind = "promote", !.env = e, !.ecv = ecv[e], !.cut = c,
                           !.step = IF c = 0 THEN "reading" ELSE "switching"])
  /\ blurred' = BlurredBy(e, "promote")
  /\ UNCHANGED <<aptlyVars, rowVars, raced, torn>>

\* POST .../rollback: to a version this assignment had live.  No lease.
Rollback(p, e, c) ==
  /\ ecv[e] # 0
  /\ c \in Versions /\ <<ecv[e], c>> \in audit
  /\ Begin(p, [Idle EXCEPT !.kind = "rollback", !.step = "switching", !.env = e,
                           !.ecv = ecv[e], !.cut = c])
  /\ blurred' = BlurredBy(e, "rollback")
  /\ UNCHANGED <<aptlyVars, rowVars, lease, raced, torn>>

\* aptly publishes or switches the prefix; it needs every snapshot.
Published(p) == Final(op[p].cut, version[op[p].cut].filtered)
Switch(p) ==
  /\ op[p].step = "switching"
  /\ Published(p) \subseteq snaps
  /\ served' = [served EXCEPT ![op[p].env] = Published(p)]
  /\ Goto(p, "committing")
  /\ UNCHANGED <<snaps, rowVars, lease, histVars>>

\* aptly refuses, or cannot be reached: nothing is recorded.
SwitchFails(p) ==
  /\ op[p].step = "switching"
  /\ ~(Published(p) \subseteq snaps) \/ "refuse" \in Faults
  /\ End(p) /\ Release(p)
  /\ UNCHANGED <<aptlyVars, rowVars, histVars>>

\* The answer is late: aptly switched, the client gave up.
SwitchLate(p) ==
  /\ "late" \in Faults
  /\ op[p].step = "switching"
  /\ Published(p) \subseteq snaps
  /\ served' = [served EXCEPT ![op[p].env] = Published(p)]
  /\ End(p) /\ Release(p)
  /\ blurred' = blurred \cup {op[p].env}
  /\ UNCHANGED <<snaps, rowVars, raced, torn>>

\* The rows an operation on e updates or refers to are still there.
Intact(p) ==
  LET o == op[p]
  IN  /\ version[o.cut].there
      /\ ecv[o.env] = (IF o.kind = "assign" THEN 0 ELSE o.ecv)

\* current_version_id and the audit row are committed.
Commit(p) ==
  LET o == op[p]
  IN  /\ o.step = "committing"
      /\ Intact(p)
      /\ ecv' = [ecv EXCEPT ![o.env] = o.ecv]
      /\ current' = [current EXCEPT ![o.env] = o.cut]
      /\ audit' = audit \cup {<<o.ecv, o.cut>>}
      /\ End(p) /\ Release(p)
      /\ blurred' = IF o.alone THEN blurred \ {o.env} ELSE blurred
      /\ raced' = IF Deleting(o.cut) # {} \/ ~(Published(p) \subseteq snaps)
                  THEN raced \cup {o.cut} ELSE raced
      /\ UNCHANGED <<aptlyVars, version, cuts, assigns, torn>>

\* The assignment was removed meanwhile: the commit raises.
CommitFails(p) ==
  /\ op[p].step = "committing"
  /\ ~Intact(p)
  /\ End(p) /\ Release(p)
  /\ UNCHANGED <<aptlyVars, rowVars, histVars>>

\* DELETE .../content-views/{id}: the row goes, the prefix stays published.
Unassign(e) ==
  /\ ecv[e] # 0
  /\ ecv' = [ecv EXCEPT ![e] = 0]
  /\ current' = [current EXCEPT ![e] = 0]
  /\ UNCHANGED <<aptlyVars, version, cuts, assigns, audit, lease, op, histVars>>

-----------------------------------------------------------------------------
(* Deleting a version. *)

\* POST .../delete checks, and queues the task ...
Delete(p, c) ==
  /\ op[p] = Idle
  /\ c \in Versions
  /\ ~EverPromoted(c)
  /\ op' = [op EXCEPT ![p] = [Idle EXCEPT !.kind = "delete", !.step = "queued",
                                          !.cut = c]]
  /\ UNCHANGED <<aptlyVars, rowVars, lease, histVars>>

\* Mutant: the task relies on the check of the endpoint.
DeleteStartUnchecked(p) ==
  LET c == op[p].cut
  IN  /\ op[p].step = "queued"
      /\ op' = [op EXCEPT ![p] =
           IF c \in Versions /\ Deleting(c) = {}
           THEN [op[p] EXCEPT !.step = "dropping", !.todo = version[c].names]
           ELSE Idle]
      /\ UNCHANGED <<aptlyVars, rowVars, lease, histVars>>

\* ... which locks the version and checks again.
DeleteStart(p) ==
  LET c == op[p].cut
  IN  /\ op[p].step = "queued"
      /\ op' = [op EXCEPT ![p] =
           IF c \in Versions /\ Deleting(c) = {} /\ ~EverPromoted(c)
           THEN [op[p] EXCEPT !.step = "dropping", !.todo = version[c].names]
           ELSE Idle]
      /\ UNCHANGED <<aptlyVars, rowVars, lease, histVars>>

\* aptly keeps a snapshot that is published or that another is built on.
Droppable(s) ==
  /\ s \in snaps
  /\ \A e \in Env : s \notin served[e]
  /\ s[3] = "raw" => <<s[1], s[2], "filtered">> \notin snaps

\* The snapshots are deleted one by one.
Drop(p) ==
  LET todo == op[p].todo
  IN  /\ op[p].step = "dropping"
      /\ Droppable(Head(todo))
      /\ snaps' = snaps \ {Head(todo)}
      /\ op' = [op EXCEPT ![p].todo = Tail(todo),
                          ![p].step = IF Len(todo) = 1 THEN "erasing" ELSE @]
      /\ UNCHANGED <<served, rowVars, lease, histVars>>

\* Mutant: the rollback restores the row as it was.
DropFailsRestoring(p) ==
  LET o == op[p]
  IN  /\ o.step = "dropping"
      /\ ~Droppable(Head(o.todo)) \/ "refuse" \in Faults
      /\ End(p)
      /\ UNCHANGED <<aptlyVars, rowVars, lease, histVars>>

\* aptly refuses one: the names of those that are left are written to the row.
DropFails(p) ==
  LET o == op[p]
  IN  /\ o.step = "dropping"
      /\ ~Droppable(Head(o.todo)) \/ "refuse" \in Faults
      /\ version' = [version EXCEPT ![o.cut].names = o.todo]
      /\ End(p)
      /\ UNCHANGED <<aptlyVars, cuts, ecv, assigns, current, audit, lease, histVars>>

\* The answer is late: the snapshot is gone, its name is kept.
DropLate(p) ==
  LET o == op[p]
  IN  /\ "late" \in Faults
      /\ o.step = "dropping"
      /\ Droppable(Head(o.todo))
      /\ snaps' = snaps \ {Head(o.todo)}
      /\ version' = [version EXCEPT ![o.cut].names = o.todo]
      /\ torn' = torn \cup {o.cut}
      /\ End(p)
      /\ UNCHANGED <<served, cuts, ecv, assigns, current, audit, lease, blurred,
                     raced>>

\* The row goes last, unless an assignment refers to it: the commit raises.
Erase(p) ==
  LET c == op[p].cut
      used == \E e \in Env : ecv[e] # 0 /\ current[e] = c
  IN  /\ op[p].step = "erasing"
      /\ version' = IF used THEN version ELSE [version EXCEPT ![c] = NoVersion]
      /\ torn' = IF used THEN torn \cup {c} ELSE torn \ {c}
      /\ End(p)
      /\ UNCHANGED <<aptlyVars, cuts, ecv, assigns, current, audit, lease,
                     blurred, raced>>

-----------------------------------------------------------------------------
(* The surroundings. *)

\* scheduled_purge_audit_logs forgets a promotion.
Purge(row) ==
  /\ row \in audit
  /\ audit' = audit \ {row}
  /\ UNCHANGED <<aptlyVars, version, cuts, ecv, assigns, current, lease, op, histVars>>

\* The process dies where it stands; its lease stays until it runs out.
Crash(p) ==
  LET o == op[p]
  IN  /\ "crash" \in Faults
      /\ o # Idle
      /\ End(p)
      /\ lease' = [e \in Env |-> IF lease[e] = p THEN Stale ELSE lease[e]]
      /\ blurred' = IF o.step = "committing" THEN blurred \cup {o.env} ELSE blurred
      /\ torn' = IF o.step \in {"dropping", "erasing"} THEN torn \cup {o.cut} ELSE torn
      /\ UNCHANGED <<aptlyVars, rowVars, raced>>

\* LOCK_TIMEOUT_SECONDS are over, for a dead holder or under a live one.
Lapse(e) ==
  /\ lease[e] = Stale \/ (lease[e] \in Proc /\ "lapse" \in Faults)
  /\ lease' = [lease EXCEPT ![e] = Free]
  /\ blurred' = IF lease[e] \in Proc THEN blurred \cup {e} ELSE blurred
  /\ UNCHANGED <<aptlyVars, rowVars, op, raced, torn>>

-----------------------------------------------------------------------------
Next ==
  \/ \E p \in Proc :
       \/ Publish(p)
       \/ \E new, filtered \in BOOLEAN : PublishRead(p, new, filtered)
       \/ PublishCut(p)
       \/ \E made \in 0..(2 * Repos) : PublishFails(p, made)
       \/ PublishRecord(p) \/ PublishClashes(p)
       \/ \E e \in Env, c \in Cut : Assign(p, e, c) \/ Rollback(p, e, c)
       \/ \E e \in Env, c \in 0..MaxCuts : Promote(p, e, c)
       \/ Switch(p) \/ SwitchFails(p) \/ SwitchLate(p)
       \/ Commit(p) \/ CommitFails(p)
       \/ \E c \in Cut : Delete(p, c)
       \/ DeleteStart(p) \/ Drop(p) \/ DropFails(p) \/ DropLate(p) \/ Erase(p)
       \/ Crash(p)
  \/ \E e \in Env : Unassign(e) \/ Lapse(e)
  \/ \E row \in audit : Purge(row)

Spec == Init /\ [][Next]_vars

-----------------------------------------------------------------------------
(* Properties. *)

\* What aptly serves under an environment's prefix is what the database says
\* is live there, whenever no promotion is on its way: the lease is enough for
\* assigning and promoting.  It is not for a rollback that runs beside
\* another operation, nor after a crash, a late answer or a lease that ran
\* out between the two stores (blurred); the next promotion that runs alone
\* mends it.
ServedIsRecorded ==
  \A e \in Env :
    ecv[e] # 0 /\ Busy(e) = {} /\ e \notin blurred
    => served[e] = Final(current[e], version[current[e]].filtered)

\* Every version an assignment had live can be rolled back to: its row and its
\* snapshots outlive every delete, except one that had passed its last check
\* before the promotion was committed.
RollbackStillPossible ==
  \A e \in Env, c \in Cut :
    ecv[e] # 0 /\ <<ecv[e], c>> \in audit /\ c \notin raced
    => version[c].there /\ Final(c, version[c].filtered) \subseteq snaps

\* Between deletes a version's row names exactly the snapshots it has in
\* aptly, also after a delete that was refused half way: trying again meets
\* what is left, and nothing else.
NamesMatchSnapshots ==
  \A c \in Versions \ torn :
    Deleting(c) = {} => Elements(version[c].names) = {s \in snaps : s[1] = c}

\* What delete_content_view_version_task's docstring says: it deletes every
\* snapshot the version's publish cut.  With aptly at its best, it does not
\* end before that unless the version was promoted meanwhile.
DeleteFinishes ==
  [][\A p \in Proc : op[p].step = "dropping" /\ op'[p].step = "idle"
                     => EverPromoted(op[p].cut)]_vars
=============================================================================

------------------------------- MODULE Registry -------------------------------
(***************************************************************************)
(* What a host is registered into: the promotion path of environments, the *)
(* servers and the activation keys that name an environment each, and the   *)
(* host group.  Every handler reads first and commits later, in a database  *)
(* that isolates statements, not handlers; foreign keys and the deferred    *)
(* unique constraint on positions are checked when it commits.              *)
(***************************************************************************)
EXTENDS Naturals, FiniteSets

CONSTANTS
  EnvName,      \* names of environments, Library among them
  Library,      \* the name of the root of the path
  Host,         \* hostnames
  Key,          \* activation keys
  Handler,      \* API handlers that may run at once
  MaxEnvs,      \* bound: environment rows ever inserted
  MaxServers,   \* bound: server rows ever inserted
  MaxUses,      \* the max_uses a key may have
  MaxRequests,  \* bound: requests made
  None          \* no name, no host

EnvId == 1..MaxEnvs
ServerId == 1..MaxServers
Pos == 0..MaxEnvs

ASSUME BoundAssumption ==
  /\ MaxEnvs \in Nat /\ MaxServers \in Nat /\ MaxRequests \in Nat
  /\ MaxUses \in Nat \ {0}
ASSUME NameAssumption == Library \in EnvName /\ None \notin EnvName \cup Host

VARIABLES
  env,       \* env[i]: the lifecycle_environments row, name None when there is none
  server,    \* server[s]: the servers row, host None when there is none
  key,       \* key[k]: the activation_keys row, env 0 when there is none
  member,    \* the servers in the host group
  viewed,    \* the environments content views are assigned to
  op,        \* op[p]: what handler p has read
  envs,      \* environment rows ever inserted, the last id
  servers,   \* server rows ever inserted, the last id
  requests,  \* requests made, for the bound
  used,      \* history: used[k], registrations committed with key k
  blurred,   \* history: keys whose registrations overlapped
  twice,     \* history: hosts inserted while they had a row
  placed,    \* history: placed[s], where s was put last
  asked,     \* history: the members the group should have
  mixed      \* history: a replacement overlapped another change of members

rows == <<env, server, key, member, viewed, envs, servers>>
history == <<used, blurred, twice, placed, asked, mixed>>
vars == <<rows, op, requests, history>>

NoEnv == [name |-> None, pos |-> 0]
NoServer == [host |-> None, env |-> 0, active |-> FALSE]
NoKey == [env |-> 0, group |-> FALSE, max |-> 1, uses |-> 0, revoked |-> FALSE]
Rest == [kind |-> "rest"]

Op == [kind : {"rest"}]
  \cup [kind : {"create"}, name : EnvName, prior : EnvId \cup {0}, from : Pos,
        seed : BOOLEAN, seen : SUBSET EnvId]
  \cup [kind : {"delete"}, env : EnvId]
  \cup [kind : {"assign"}, server : ServerId, env : EnvId]
  \cup [kind : {"register"}, key : Key, host : Host, server : ServerId \cup {0},
        env : EnvId, uses : Nat, joins : BOOLEAN, late : BOOLEAN]
  \cup [kind : {"replace"}, seen : SUBSET ServerId, to : SUBSET ServerId]

Live == {i \in EnvId : env[i].name # None}
Known == {s \in ServerId : server[s].host # None}

TypeOK ==
  /\ env \in [EnvId -> [name : EnvName \cup {None}, pos : Pos]]
  /\ server \in [ServerId -> [host : Host \cup {None}, env : EnvId \cup {0}, active : BOOLEAN]]
  /\ key \in [Key -> [env : EnvId \cup {0}, group : BOOLEAN, max : 1..MaxUses, uses : Nat,
                      revoked : BOOLEAN]]
  /\ member \subseteq Known
  /\ viewed \subseteq Live
  /\ op \in [Handler -> Op]
  /\ envs \in 0..MaxEnvs /\ servers \in 0..MaxServers /\ requests \in 0..MaxRequests
  /\ used \in [Key -> Nat] /\ blurred \subseteq Key /\ twice \subseteq Host
  /\ placed \in [ServerId -> EnvId \cup {0}] /\ asked \subseteq ServerId /\ mixed \in BOOLEAN

Init ==
  /\ env = [i \in EnvId |-> NoEnv]
  /\ server = [s \in ServerId |-> NoServer]
  /\ key = [k \in Key |-> NoKey]
  /\ member = {} /\ viewed = {}
  /\ op = [p \in Handler |-> Rest]
  /\ envs = 0 /\ servers = 0 /\ requests = 0
  /\ used = [k \in Key |-> 0] /\ blurred = {} /\ twice = {}
  /\ placed = [s \in ServerId |-> 0] /\ asked = {} /\ mixed = FALSE

Asks == requests < MaxRequests /\ requests' = requests + 1

\* Handler p has read and holds o until it commits.
Holds(p, o) ==
  /\ op[p] = Rest
  /\ op' = [op EXCEPT ![p] = o]
  /\ UNCHANGED <<rows, history>>

Done(p) == op' = [op EXCEPT ![p] = Rest]

-----------------------------------------------------------------------------
(* The promotion path.                                                     *)

\* _get_or_create_library looks for the root by name and position.
HasLibrary == \E i \in Live : env[i].name = Library /\ env[i].pos = 0
Last == CHOOSE i \in Live : \A j \in Live : env[j].pos <= env[i].pos

\* Mutant: the new environment takes the position of its prior.
BehindNot(prior, from) == IF prior = 0 THEN 1 ELSE from

\* The position behind a prior found at position from; 1 if there is none.
Behind(prior, from) == IF prior = 0 THEN 1 ELSE from + 1

\* create_lifecycle_environment with a prior reads its position, without one
\* appends, after the Library it seeds if there is none.  The UPDATE that
\* shifts the rest sees the rows its statement's snapshot holds.
CreateRead(p, n, prior) ==
  LET seed == prior = 0 /\ ~HasLibrary
      after == IF prior = 0 /\ Live # {} THEN Last ELSE prior
      from == IF after = 0 THEN 0 ELSE env[after].pos
      at == Behind(after, from)
  IN /\ Asks
     /\ prior = 0 \/ prior \in Live
     /\ ~(\E i \in Live : env[i].name = n) /\ ~(seed /\ n = Library)
     /\ at <= MaxEnvs
     /\ Holds(p, [kind |-> "create", name |-> n, prior |-> after, from |-> from,
                  seed |-> seed, seen |-> {i \in Live : env[i].pos >= at}])

\* Rows the snapshot held move back by one, if they still are at or past the
\* new position.
Shifted(o) ==
  [i \in EnvId |-> IF i \in o.seen /\ i \in Live /\ env[i].pos >= Behind(o.prior, o.from)
                     THEN [env[i] EXCEPT !.pos = @ + 1] ELSE env[i]]

\* The rows as create leaves them: the Library it seeds, then the new one.
WithNew(o) ==
  LET lib == envs + 1
      new == IF o.seed THEN envs + 2 ELSE envs + 1
  IN [i \in EnvId |-> IF o.seed /\ i = lib THEN [name |-> Library, pos |-> 0]
                      ELSE IF i = new THEN [name |-> o.name, pos |-> Behind(o.prior, o.from)]
                      ELSE Shifted(o)[i]]

\* UNIQUE (name) and the deferred UNIQUE (path_name, position).
Unique(e) ==
  \A i, j \in EnvId :
    (i # j /\ e[i].name # None /\ e[j].name # None) =>
      e[i].name # e[j].name /\ e[i].pos # e[j].pos

\* It commits, or a constraint refuses what two handlers did at once.
CreateCommit(p) ==
  LET o == op[p]
      grown == envs + (IF o.seed THEN 2 ELSE 1)
  IN /\ o.kind = "create"
     /\ grown <= MaxEnvs /\ \A i \in Live : env[i].pos < MaxEnvs
     /\ IF Unique(WithNew(o)) THEN env' = WithNew(o) /\ envs' = grown
        ELSE UNCHANGED <<env, envs>>
     /\ Done(p)
     /\ UNCHANGED <<server, key, member, viewed, servers, requests, history>>

\* delete_lifecycle_environment counts servers and content views.
DeleteRead(p, i) ==
  /\ Asks
  /\ i \in Live \ viewed
  /\ \A s \in Known : server[s].env # i
  /\ Holds(p, [kind |-> "delete", env |-> i])

\* Mutant: activation keys do not keep an environment.
ReferredButKeys(i) == i \in viewed \/ \E s \in Known : server[s].env = i

\* What refers to environment i: the foreign keys.
Referred(i) ==
  \/ i \in viewed
  \/ \E s \in Known : server[s].env = i
  \/ \E k \in Key : key[k].env = i

\* The foreign keys refuse what came since, and activation keys, which
\* nobody counted.
DeleteCommit(p) ==
  LET i == op[p].env
  IN /\ op[p].kind = "delete"
     /\ env' = IF Referred(i) THEN env ELSE [env EXCEPT ![i] = NoEnv]
     /\ Done(p)
     /\ UNCHANGED <<server, key, member, viewed, envs, servers, requests, history>>

\* Content views come and go (ContentPromotion).
Assigned(i) ==
  /\ Asks
  /\ i \in Live
  /\ viewed' = IF i \in viewed THEN viewed \ {i} ELSE viewed \cup {i}
  /\ UNCHANGED <<env, server, key, member, op, envs, servers, history>>

-----------------------------------------------------------------------------
(* Servers.                                                                *)

\* A new row for host h in environment i.
Inserts(h, i) ==
  /\ servers < MaxServers
  /\ servers' = servers + 1
  /\ server' = [server EXCEPT ![servers + 1] = [host |-> h, env |-> i, active |-> TRUE]]
  /\ placed' = [placed EXCEPT ![servers + 1] = i]

\* For history: the other registrations of h under way looked too early.
Late(h, q) ==
  IF op[q].kind = "register" /\ op[q].host = h THEN [op[q] EXCEPT !.late = TRUE] ELSE op[q]

\* create_server does not look for the hostname.
CreateServer(h, i) ==
  /\ Asks
  /\ i \in Live
  /\ Inserts(h, i)
  /\ twice' = IF \E s \in Known : server[s].host = h THEN twice \cup {h} ELSE twice
  /\ op' = [q \in Handler |-> Late(h, q)]
  /\ UNCHANGED <<env, key, member, viewed, envs, used, blurred, asked, mixed>>

Decommission(s) ==
  /\ Asks
  /\ s \in Known
  /\ server' = [server EXCEPT ![s].active = FALSE]
  /\ UNCHANGED <<env, key, member, viewed, op, envs, servers, history>>

AssignRead(p, s, i) ==
  /\ Asks
  /\ s \in Known /\ server[s].active /\ server[s].env # i /\ i \in Live
  /\ Holds(p, [kind |-> "assign", server |-> s, env |-> i])

\* The foreign key refuses an environment deleted meanwhile.
AssignCommit(p) ==
  LET s == op[p].server
      i == op[p].env
  IN /\ op[p].kind = "assign"
     /\ IF i \in Live
          THEN /\ server' = [server EXCEPT ![s].env = i]
               /\ placed' = [placed EXCEPT ![s] = i]
          ELSE UNCHANGED <<server, placed>>
     /\ Done(p)
     /\ UNCHANGED <<env, key, member, viewed, envs, servers, requests,
                    used, blurred, twice, asked, mixed>>

-----------------------------------------------------------------------------
(* Enrollment.                                                             *)

CreateKey(k, i, g, m) ==
  /\ Asks
  /\ key[k].env = 0 /\ i \in Live
  /\ key' = [key EXCEPT ![k] = [NoKey EXCEPT !.env = i, !.group = g, !.max = m]]
  /\ UNCHANGED <<env, server, member, viewed, op, envs, servers, history>>

\* Revoked by an operator, or past its expiry: register treats them alike.
RevokeKey(k) ==
  /\ Asks
  /\ key[k].env # 0 /\ ~key[k].revoked
  /\ key' = [key EXCEPT ![k].revoked = TRUE]
  /\ UNCHANGED <<env, server, member, viewed, op, envs, servers, history>>

\* Mutant: a decommissioned host is not found.
FoundActive(h) == {s \in Known : server[s].host = h /\ server[s].active}

Found(h) == {s \in Known : server[s].host = h}

\* Mutant: the limit of a key is off by one.
AcceptedOnceMore(k) == key[k].env # 0 /\ ~key[k].revoked /\ key[k].uses <= key[k].max

\* _key_valid.
Accepted(k) == key[k].env # 0 /\ ~key[k].revoked /\ key[k].uses < key[k].max

\* Two rows of one hostname and the lookup raises: the request fails.
RegisterRead(p, k, h) ==
  LET found == Found(h)
  IN /\ Asks
     /\ Accepted(k)
     /\ Cardinality(found) <= 1
     /\ \E s \in IF found = {} THEN {0} ELSE found :
          Holds(p, [kind |-> "register", key |-> k, host |-> h, server |-> s,
                    env |-> IF s = 0 THEN key[k].env ELSE server[s].env,
                    uses |-> key[k].uses, joins |-> key[k].group /\ s \notin member,
                    late |-> FALSE])

\* Mutant: the row is written back with the environment that was read.
RegisterServerStale(o) ==
  IF o.server = 0
    THEN /\ Inserts(o.host, o.env)
         /\ twice' = IF o.late THEN twice \cup {o.host} ELSE twice
    ELSE /\ server' = [server EXCEPT ![o.server].env = o.env]
         /\ UNCHANGED <<servers, placed, twice>>

\* The host's row: a new one in the key's environment, or the old one with a
\* new address, its environment untouched.
RegisterServer(o) ==
  IF o.server = 0
    THEN /\ Inserts(o.host, o.env)
         /\ twice' = IF o.late THEN twice \cup {o.host} ELSE twice
    ELSE UNCHANGED <<server, servers, placed, twice>>

\* One commit: the row, the membership, which the primary key refuses if it
\* was added meanwhile, and the count as it was read, plus one.
RegisterCommit(p) ==
  LET o == op[p]
      s == IF o.server = 0 THEN servers + 1 ELSE o.server
  IN /\ o.kind = "register"
     /\ \/ /\ ~(o.joins /\ s \in member)
           /\ RegisterServer(o)
           /\ member' = IF o.joins THEN member \cup {s} ELSE member
           /\ asked' = IF o.joins THEN asked \cup {s} ELSE asked
           /\ key' = [key EXCEPT ![o.key].uses = o.uses + 1]
           /\ used' = [used EXCEPT ![o.key] = @ + 1]
           /\ blurred' = IF key[o.key].uses # o.uses THEN blurred \cup {o.key} ELSE blurred
        \/ /\ o.joins /\ s \in member
           /\ UNCHANGED <<server, servers, member, key, used, blurred, twice, placed, asked>>
     /\ op' = [q \in Handler |-> IF q = p THEN Rest
                               ELSE IF servers' # servers THEN Late(o.host, q) ELSE op[q]]
     /\ UNCHANGED <<env, viewed, envs, requests, mixed>>

ReplaceRead(p, to) ==
  /\ Asks
  /\ to \subseteq Known
  /\ Holds(p, [kind |-> "replace", seen |-> member, to |-> to])

\* Mutant: the former members stay.
ReplaceCommitAdds(p) ==
  LET o == op[p]
  IN /\ o.kind = "replace"
     /\ member' = member \cup o.to
     /\ asked' = o.to
     /\ mixed' = (mixed \/ member # o.seen)
     /\ Done(p)
     /\ UNCHANGED <<env, server, key, viewed, envs, servers, requests,
                    used, blurred, twice, placed>>

\* The DELETE takes the members its snapshot held; the primary key refuses to
\* add one that came since.
ReplaceCommit(p) ==
  LET o == op[p]
      kept == member \ o.seen
  IN /\ o.kind = "replace"
     /\ IF kept \cap o.to = {}
          THEN /\ member' = kept \cup o.to
               /\ asked' = o.to
               /\ mixed' = (mixed \/ member # o.seen)
          ELSE UNCHANGED <<member, asked, mixed>>
     /\ Done(p)
     /\ UNCHANGED <<env, server, key, viewed, envs, servers, requests,
                    used, blurred, twice, placed>>

Next ==
  \/ \E p \in Handler :
       \/ \E n \in EnvName, i \in EnvId \cup {0} : CreateRead(p, n, i)
       \/ \E i \in EnvId : DeleteRead(p, i)
       \/ \E s \in ServerId, i \in EnvId : AssignRead(p, s, i)
       \/ \E k \in Key, h \in Host : RegisterRead(p, k, h)
       \/ \E to \in SUBSET ServerId : ReplaceRead(p, to)
       \/ CreateCommit(p) \/ DeleteCommit(p) \/ AssignCommit(p)
       \/ RegisterCommit(p) \/ ReplaceCommit(p)
  \/ \E i \in EnvId : Assigned(i)
  \/ \E h \in Host, i \in EnvId : CreateServer(h, i)
  \/ \E s \in ServerId : Decommission(s)
  \/ \E k \in Key, i \in EnvId, g \in BOOLEAN, m \in 1..MaxUses : CreateKey(k, i, g, m)
  \/ \E k \in Key : RevokeKey(k)

Spec == Init /\ [][Next]_vars

-----------------------------------------------------------------------------
(* Properties.                                                             *)

\* Hazard: handlers renumber the path from positions they read earlier
\* (lifecycle_environments.py:223).  No step reorders the environments that
\* stay, and a new one stands right behind the prior it was given, if that
\* still is where it was read.
PathKeepsOrder ==
  [][/\ \A i, j \in Live :
          (env'[i].name # None /\ env'[j].name # None) =>
            (env[i].pos < env[j].pos <=> env'[i].pos < env'[j].pos)
     /\ \A p \in Handler :
          LET o == op[p]
          IN (o.kind = "create" /\ op'[p] = Rest /\ envs' # envs /\ o.prior \in Live
              /\ env[o.prior].pos = o.from) =>
               /\ env'[o.prior].pos < env'[envs'].pos
               /\ \A i \in Live : ~(env'[o.prior].pos < env'[i].pos /\ env'[i].pos <= env'[envs'].pos)
    ]_vars

\* Hazard: an environment is checked for use before it is deleted
\* (lifecycle_environments.py:320), and activation keys are not counted.
\* Nothing ever refers to an environment that is gone.
NothingDangles ==
  /\ \A s \in Known : server[s].env \in Live
  /\ \A k \in Key : key[k].env # 0 => key[k].env \in Live

\* Hazard: the use count is checked, and incremented from what was read, in
\* two steps (enrollment.py:42, 79).  Unless its registrations overlapped, a
\* key counts every one and never admits more than its limit.
UsesCounted ==
  \A k \in Key \ blurred : key[k].uses = used[k] /\ used[k] <= key[k].max

\* Hazard: no constraint makes hostnames unique, and a second row breaks every
\* later registration of that host (enrollment.py:48).  Registrations alone
\* keep one row per host, if no two first ones overlap.
HostKnownOnce ==
  \A h \in Host \ twice : Cardinality({s \in Known : server[s].host = h}) <= 1

\* Hazard: a host registers again while an operator moves it (servers.py:231).
\* A server is where it was put last; re-registration never moves it.
AssignmentsStick == \A s \in Known : server[s].env = placed[s]

\* Hazard: membership is replaced while hosts register into the group
\* (host_groups.py:118).  The members are those last asked for and those who
\* registered since, unless a replacement overlapped another change.
GroupAsAsked == mixed \/ member = asked

=============================================================================

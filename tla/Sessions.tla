------------------------------- MODULE Sessions -------------------------------
(***************************************************************************)
(* Sessions.  A session is a refresh token: every use revokes it and issues *)
(* the next.  The client keeps the newest in a store, the command line's    *)
(* config file or the browser's cookie, which several invocations or tabs   *)
(* share; requests and answers may be lost.                                 *)
(***************************************************************************)
EXTENDS Naturals

CONSTANTS
  Cli,        \* config files of the command line client
  Web,        \* cookie jars of browsers
  Run,        \* invocations and tabs with a request of /auth under way
  MaxTokens,  \* bound: refresh tokens ever issued
  MaxFaults,  \* bound: lost requests and answers, expired tokens
  None        \* no client

Client == Cli \cup Web
Token == 1..MaxTokens

ASSUME BoundAssumption == MaxTokens \in Nat /\ MaxFaults \in Nat
ASSUME ClientAssumption == Cli \cap Web = {} /\ None \notin Client

VARIABLES
  token,      \* token[t]: the refresh_tokens row
  userActive, \* the user's account is active
  store,      \* store[c]: the token the client keeps, 0 for none
  run,        \* run[r]: the request of /auth that r has under way
  faults,     \* faults so far, for the bound
  lost,       \* history: clients whose session went with a lost answer
  left        \* history: tokens no client keeps any more

vars == <<token, userActive, store, run, faults, lost, left>>

Away == [step |-> "away", kind |-> "none", client |-> None, shown |-> 0, new |-> 0]
Request == [step : {"away", "sent", "checked", "answered"},
            kind : {"none", "login", "refresh", "logout"},
            client : Client \cup {None}, shown : Token \cup {0}, new : Token \cup {0}]

Issued == {t \in Token : token[t] # "none"}

TypeOK ==
  /\ token \in [Token -> {"none", "valid", "revoked", "expired"}]
  /\ userActive \in BOOLEAN
  /\ store \in [Client -> Issued \cup {0}]
  /\ run \in [Run -> Request]
  /\ faults \in 0..MaxFaults
  /\ lost \in SUBSET Client
  /\ left \in SUBSET Issued

Init ==
  /\ token = [t \in Token |-> "none"]
  /\ userActive = TRUE
  /\ store = [c \in Client |-> 0]
  /\ run = [r \in Run |-> Away]
  /\ faults = 0
  /\ lost = {}
  /\ left = {}

-----------------------------------------------------------------------------
\* Client c keeps t, 0 for nothing, in place of what it has.  What it has and
\* never presented with this request is left behind.
Keeps(c, t, shown) ==
  /\ store' = [store EXCEPT ![c] = t]
  /\ left' = left \cup ({store[c]} \ {shown, 0})
  /\ lost' = lost \ {c}

\* A run reads its client's store and sends the request.  The command line
\* forgets its token before it logs in.
Send(r, k, c) ==
  /\ run[r].step = "away"
  /\ k # "login" => store[c] # 0
  /\ run' = [run EXCEPT ![r] = [step |-> "sent", kind |-> k, client |-> c, new |-> 0,
                                shown |-> IF k = "login" THEN 0 ELSE store[c]]]
  /\ IF k = "login" /\ c \in Cli THEN Keeps(c, 0, 0) ELSE UNCHANGED <<store, left, lost>>
  /\ UNCHANGED <<userActive, token, faults>>

\* The handler reads: login finds an active account, consume_refresh_token a
\* row that is good.
Check(r) ==
  /\ run[r].step = "sent"
  /\ IF run[r].kind = "login" THEN userActive ELSE token[run[r].shown] = "valid"
  /\ run' = [run EXCEPT ![r].step = "checked"]
  /\ UNCHANGED <<userActive, token, store, faults, lost, left>>

\* 401 or 429: login and refresh leave the store as it is, a logout of a dead
\* token is answered like any other.
Refuse(r) ==
  /\ run[r].step = "sent"
  /\ run' = [run EXCEPT ![r] = Away]
  /\ \/ /\ run[r].kind # "logout"
        /\ UNCHANGED <<store, lost, left>>
     \/ /\ run[r].kind = "logout" /\ token[run[r].shown] # "valid"
        /\ Keeps(run[r].client, 0, run[r].shown)
  /\ UNCHANGED <<userActive, token, faults>>

IsNext(t) == token[t] = "none" /\ \A s \in 1..(t - 1) : token[s] # "none"

\* Mutant: a refresh revokes every token there is.
RevokeAll(tokens) ==
  [t \in Token |-> IF tokens # {0} /\ token[t] = "valid" THEN "revoked" ELSE token[t]]

\* Mutant: consume_refresh_token does not revoke.
RevokeNone(tokens) == token

Revoke(tokens) == [t \in Token |-> IF t \in tokens THEN "revoked" ELSE token[t]]

\* The commit of refresh revokes the token shown, whoever revoked it since the
\* check, and issues the next; login only issues, logout only revokes.
Serve(r) ==
  /\ run[r].step = "checked"
  /\ \/ /\ run[r].kind = "logout"
        /\ token' = Revoke({run[r].shown})
        /\ run' = [run EXCEPT ![r].step = "answered"]
     \/ /\ run[r].kind # "logout"
        /\ \E t \in Token :
             /\ IsNext(t)
             /\ token' = [Revoke({run[r].shown}) EXCEPT ![t] = "valid"]
             /\ run' = [run EXCEPT ![r].step = "answered", ![r].new = t]
  /\ UNCHANGED <<userActive, store, faults, lost, left>>

\* The answer arrives: the client keeps the new token, or none after logout.
Answer(r) ==
  /\ run[r].step = "answered"
  /\ Keeps(run[r].client, run[r].new, run[r].shown)
  /\ run' = [run EXCEPT ![r] = Away]
  /\ UNCHANGED <<userActive, token, faults>>

\* The request never arrives or dies with the API before the commit.  The
\* command line logs out all the same.
LoseRequest(r) ==
  /\ run[r].step \in {"sent", "checked"}
  /\ faults < MaxFaults
  /\ faults' = faults + 1
  /\ run' = [run EXCEPT ![r] = Away]
  /\ IF run[r].kind = "logout" /\ run[r].client \in Cli
       THEN Keeps(run[r].client, 0, 0) ELSE UNCHANGED <<store, lost, left>>
  /\ UNCHANGED <<userActive, token>>

\* The answer is lost, or the client dies before it writes its store.
LoseAnswer(r) ==
  /\ run[r].step = "answered"
  /\ faults < MaxFaults
  /\ faults' = faults + 1
  /\ run' = [run EXCEPT ![r] = Away]
  /\ \/ /\ run[r].kind = "logout" /\ run[r].client \in Cli
        /\ Keeps(run[r].client, 0, run[r].shown)
     \/ /\ left' = left \cup ({run[r].new} \ {0})
        /\ lost' = IF store[run[r].client] = run[r].shown
                     THEN lost \cup {run[r].client} ELSE lost
        /\ UNCHANGED store
  /\ UNCHANGED <<userActive, token>>

\* refresh_token_expire_days.
Expire(t) ==
  /\ token[t] = "valid"
  /\ faults < MaxFaults
  /\ faults' = faults + 1
  /\ token' = [token EXCEPT ![t] = "expired"]
  /\ UNCHANGED <<userActive, store, run, lost, left>>

\* Administrators deactivate the account and activate it again (Accounts).
SwitchAccount ==
  /\ userActive' = ~userActive
  /\ UNCHANGED <<token, store, run, faults, lost, left>>

Next ==
  \/ \E r \in Run :
       \/ \E k \in {"login", "refresh", "logout"}, c \in Client : Send(r, k, c)
       \/ Check(r) \/ Refuse(r) \/ Serve(r) \/ Answer(r)
       \/ LoseRequest(r) \/ LoseAnswer(r)
  \/ \E t \in Token : Expire(t)
  \/ SwitchAccount

Spec == Init /\ [][Next]_vars

-----------------------------------------------------------------------------
\* Hazard: rotation revokes a token before its answer arrives, and invocations
\* or tabs share a store (auth.py:126).  A store never keeps a revoked token
\* unless an answer is on its way or was lost: two refreshes at once, a late
\* answer or a refusal log nobody out.
SessionContinues ==
  \A c \in Client :
    (store[c] # 0 /\ token[store[c]] = "revoked") =>
      c \in lost \/ \E r \in Run : /\ run[r].step = "answered"
                                   /\ run[r].client = c /\ run[r].shown = store[c]

\* Hazard: sessions that fork.  A token that still works is the one its client
\* keeps or is about to keep, unless the client replaced it unpresented or its
\* answer was lost: rotation and logout leave nothing behind.
NothingLeftBehind ==
  \A t \in Token :
    token[t] = "valid" =>
      \/ t \in left
      \/ \E c \in Client : store[c] = t
      \/ \E r \in Run : run[r].step = "answered" /\ run[r].new = t

=============================================================================

---------------------------- MODULE Identity_proofs ----------------------------
(***************************************************************************)
(* Who may do what: the proofs about Sessions and about Accounts, which    *)
(* share nothing but the user a token was issued to.                       *)
(*                                                                         *)
(* Sessions, for any number of clients, runs, tokens and faults: the types, *)
(* that a store keeps no revoked token unless an answer is on its way or    *)
(* was lost, and that rotation and logout leave no working token behind.    *)
(* Two facts carry both: a token that was issued and not yet kept is        *)
(* nowhere else, and a token that is kept or presented belongs to one       *)
(* client.                                                                  *)
(*                                                                         *)
(* Accounts, for any number of users and of requests at once: accounts keep *)
(* their types, and an active administrator is left unless one went between *)
(* another's count and commit.  The guard alone is not inductive: what      *)
(* carries it is that a removal which has been decided on, and has not seen *)
(* an administrator go since, still leaves one when it commits.             *)
(***************************************************************************)
EXTENDS Sessions, Accounts, TLAPS

-----------------------------------------------------------------------------
(* Sessions.                                                                 *)

\* What the place of a run says of its tokens.
RunOK ==
  \A r \in Run :
    /\ run[r].step # "away" => run[r].client \in Client
    /\ run[r].shown # 0 => token[run[r].shown] # "none"
    /\ run[r].step = "away" => run[r].shown = 0
    /\ run[r].step # "answered" => run[r].new = 0
    /\ (run[r].step = "answered" /\ run[r].shown # 0) => token[run[r].shown] = "revoked"
    /\ run[r].kind = "logout" => run[r].new = 0
    /\ run[r].new # 0 => token[run[r].new] \in {"valid", "expired"}

\* A token in an answer is nowhere else.
Fresh ==
  \A r \in Run :
    run[r].new # 0 =>
      /\ \A c \in Client : store[c] # run[r].new
      /\ \A q \in Run : run[q].shown # run[r].new
      /\ \A q \in Run : q # r => run[q].new # run[r].new

\* A token that is kept is kept, and presented, by one client.
Own ==
  \A c \in Client :
    store[c] # 0 =>
      /\ \A d \in Client : d # c => store[d] # store[c]
      /\ \A r \in Run : run[r].shown = store[c] => run[r].client = c

Parts == RunOK /\ Fresh /\ Own /\ SessionContinues /\ NothingLeftBehind
IInv == TypeOK /\ Parts

-----------------------------------------------------------------------------
LEMMA InitIInv == Init => IInv
  BY BoundAssumption DEF Init, IInv, Parts, TypeOK, Request, Away, Issued, RunOK, Fresh, Own,
                         SessionContinues, NothingLeftBehind, Token

\* What a client keeps is typed if what it is given is.
LEMMA KeepsTyped ==
  ASSUME TypeOK, NEW c \in Client, NEW t \in Issued \cup {0}, NEW shown, Keeps(c, t, shown),
         token' = token
  PROVE  store' \in [Client -> Issued' \cup {0}] /\ lost' \in SUBSET Client
         /\ left' \in SUBSET Issued'
<1>1. Issued' = Issued
  BY DEF Issued
<1>2. store[c] \in Issued \cup {0}
  BY DEF TypeOK
<1>3. QED
  BY <1>1, <1>2 DEF TypeOK, Keeps

LEMMA AwayTyped == Away \in Request
  BY DEF Away, Request

\* One run's request may change.
LEMMA RunTyped ==
  ASSUME TypeOK, NEW r \in Run, NEW q \in Request, run' = [run EXCEPT ![r] = q]
  PROVE  run' \in [Run -> Request]
  BY DEF TypeOK

LEMMA NextIInv == IInv /\ [Next]_vars => IInv'
<1> SUFFICES ASSUME IInv, [Next]_vars PROVE IInv'
  OBVIOUS
<1> USE BoundAssumption, ClientAssumption DEF IInv, Parts
<1>t. \A r \in Run : run[r] \in Request /\ (run[r].step # "away" => run[r].client \in Client)
  BY DEF TypeOK, RunOK
<1>1. ASSUME NEW r \in Run, NEW k \in {"login", "refresh", "logout"}, NEW c \in Client,
             Send(r, k, c)
      PROVE  IInv'
  <2>t. /\ Issued' = Issued /\ store[c] \in Issued \cup {0}
        /\ token \in [Token -> {"none", "valid", "revoked", "expired"}]
    BY <1>1 DEF Send, TypeOK, Issued
  <2>q. run' \in [Run -> Request]
    <3>1. Issued \subseteq Token
      BY DEF Issued
    <3>2. [step |-> "sent", kind |-> k, client |-> c, new |-> 0,
           shown |-> IF k = "login" THEN 0 ELSE store[c]] \in Request
      BY <2>t, <3>1 DEF Request
    <3>3. QED
      BY <1>1, <3>2, RunTyped DEF Send
  <2>k. /\ store' \in [Client -> Issued' \cup {0}] /\ lost' \in SUBSET Client
        /\ left' \in SUBSET Issued'
    <3>1. CASE k = "login" /\ c \in Cli
      BY <1>1, <3>1, KeepsTyped DEF Send
    <3>2. CASE ~(k = "login" /\ c \in Cli)
      BY <1>1, <2>t, <3>2 DEF Send, TypeOK
    <3>3. QED
      BY <3>1, <3>2
  <2>1. TypeOK'
    BY <1>1, <2>q, <2>k DEF Send, TypeOK
  <2>2. RunOK'
    <3>1. store[c] # 0 => token[store[c]] # "none"
      BY <1>1 DEF TypeOK, Issued
    <3>2. QED
      BY <1>1, <3>1 DEF Send, TypeOK, RunOK, Request
  <2>3. Fresh'
    BY <1>1 DEF Send, Keeps, TypeOK, Fresh, RunOK, Request, Issued
  <2>4. Own'
    BY <1>1 DEF Send, Keeps, TypeOK, Own, Fresh, RunOK, Request, Issued
  <2>5. SessionContinues'
    BY <1>1 DEF Send, Keeps, TypeOK, SessionContinues, RunOK, Fresh, Own, Request, Issued
  <2>6. NothingLeftBehind'
    BY <1>1 DEF Send, Keeps, TypeOK, NothingLeftBehind, RunOK, Fresh, Request
  <2>7. QED
    BY <2>1, <2>2, <2>3, <2>4, <2>5, <2>6
<1>2. ASSUME NEW r \in Run, Check(r) PROVE IInv'
  <2>1. TypeOK'
    BY <1>2 DEF Check, TypeOK, Request, Issued
  <2>2. RunOK'
    BY <1>2 DEF Check, TypeOK, RunOK, Request
  <2>3. Fresh'
    BY <1>2 DEF Check, TypeOK, Fresh, RunOK, Request, Issued
  <2>4. Own'
    BY <1>2 DEF Check, TypeOK, Own, Fresh, RunOK, Request, Issued
  <2>5. SessionContinues'
    BY <1>2 DEF Check, TypeOK, SessionContinues, RunOK, Fresh, Own, Request, Issued
  <2>6. NothingLeftBehind'
    BY <1>2 DEF Check, TypeOK, NothingLeftBehind, RunOK, Fresh, Request
  <2>7. QED
    BY <2>1, <2>2, <2>3, <2>4, <2>5, <2>6
<1>3. ASSUME NEW r \in Run, Refuse(r) PROVE IInv'
  <2>q. run' \in [Run -> Request]
    BY <1>3, AwayTyped, RunTyped DEF Refuse
  <2>k. /\ store' \in [Client -> Issued' \cup {0}] /\ lost' \in SUBSET Client
        /\ left' \in SUBSET Issued'
    <3>1. ASSUME NEW s, Keeps(run[r].client, 0, s) 
                 PROVE  /\ store' \in [Client -> Issued' \cup {0}] /\ lost' \in SUBSET Client
                        /\ left' \in SUBSET Issued'
      BY <1>3, <1>t, <3>1, KeepsTyped DEF Refuse
    <3>2. CASE UNCHANGED <<store, lost, left>>
      BY <1>3, <3>2 DEF Refuse, TypeOK, Issued
    <3>3. QED
      BY <1>3, <3>1, <3>2 DEF Refuse
  <2>1. TypeOK'
    BY <1>3, <2>q, <2>k DEF Refuse, TypeOK
  <2>2. RunOK'
    BY <1>3 DEF Refuse, Keeps, Away, TypeOK, RunOK, Request
  <2>3. Fresh'
    BY <1>3 DEF Refuse, Keeps, Away, TypeOK, Fresh, RunOK, Request, Issued
  <2>4. Own'
    BY <1>3 DEF Refuse, Keeps, Away, TypeOK, Own, Fresh, RunOK, Request, Issued
  <2>5. SessionContinues'
    BY <1>3 DEF Refuse, Keeps, Away, TypeOK, SessionContinues, RunOK, Fresh, Own, Request, Issued
  <2>6. NothingLeftBehind'
    BY <1>3 DEF Refuse, Keeps, Away, TypeOK, NothingLeftBehind, RunOK, Fresh, Request
  <2>7. QED
    BY <2>1, <2>2, <2>3, <2>4, <2>5, <2>6
<1>4. ASSUME NEW r \in Run, Serve(r) PROVE IInv'
  <2>s. PICK n \in Token \cup {0} :
          /\ n # 0 => token[n] = "none" /\ n # run[r].shown
          /\ run[r].kind = "logout" => n = 0
          /\ token' = [s \in Token |-> IF s = n THEN "valid"
                                       ELSE IF s = run[r].shown THEN "revoked" ELSE token[s]]
          /\ run' = [run EXCEPT ![r] = [run[r] EXCEPT !.step = "answered", !.new = n]]
    <3>1. run[r].new = 0 /\ run[r] \in Request /\ 0 \notin Token
      BY <1>4, <1>t DEF Serve, RunOK, Token
    <3>2. CASE run[r].kind = "logout"
      <4>1. token' = Revoke({run[r].shown}) /\ run' = [run EXCEPT ![r].step = "answered"]
        BY <1>4, <3>2 DEF Serve
      <4>2. run' = [run EXCEPT ![r] = [run[r] EXCEPT !.step = "answered", !.new = 0]]
        <5>1. [run[r] EXCEPT !.step = "answered", !.new = 0] = [run[r] EXCEPT !.step = "answered"]
          BY <3>1 DEF Request
        <5>2. QED
          BY <4>1, <5>1
      <4>3. token' = [s \in Token |-> IF s = 0 THEN "valid"
                                      ELSE IF s = run[r].shown THEN "revoked" ELSE token[s]]
        <5>1. \A s \in Token : s # 0
          BY <3>1
        <5>2. QED
          BY <4>1, <5>1 DEF Revoke
      <4>4. QED
        BY <4>2, <4>3
    <3>3. CASE run[r].kind # "logout"
      <4>1. PICK t \in Token :
              /\ token[t] = "none"
              /\ token' = [Revoke({run[r].shown}) EXCEPT ![t] = "valid"]
              /\ run' = [run EXCEPT ![r].step = "answered", ![r].new = t]
        BY <1>4, <3>3 DEF Serve, IsNext
      <4>2. run' = [run EXCEPT ![r] = [run[r] EXCEPT !.step = "answered", !.new = t]]
        BY <4>1 DEF TypeOK
      <4>3. t # 0 /\ t # run[r].shown
        BY <3>1, <4>1 DEF RunOK
      <4>4. token' = [s \in Token |-> IF s = t THEN "valid"
                                      ELSE IF s = run[r].shown THEN "revoked" ELSE token[s]]
        BY <4>1 DEF Revoke
      <4>5. QED
        BY <3>3, <4>1, <4>2, <4>3, <4>4
    <3>4. QED
      BY <3>2, <3>3
  <2>u. UNCHANGED <<userActive, store, faults, lost, left>>
    BY <1>4 DEF Serve
  <2>c. run[r].step = "checked" /\ run[r] \in Request
    BY <1>4, <1>t DEF Serve
  <2>z. 0 \notin Token
    BY DEF Token
  <2>i. Issued \subseteq Issued'
    BY <2>s DEF Issued
  <2>1. TypeOK'
    <3>1. run' \in [Run -> Request]
      BY <2>s, <2>c, RunTyped DEF Request
    <3>2. token' \in [Token -> {"none", "valid", "revoked", "expired"}]
      BY <2>s DEF TypeOK
    <3>3. QED
      BY <3>1, <3>2, <2>u, <2>i DEF TypeOK
  <2>2. RunOK'
    <3> SUFFICES ASSUME NEW q \in Run
                 PROVE  /\ run'[q].step # "away" => run'[q].client \in Client
                        /\ run'[q].shown # 0 => token'[run'[q].shown] # "none"
                        /\ run'[q].step = "away" => run'[q].shown = 0
                        /\ run'[q].step # "answered" => run'[q].new = 0
                        /\ (run'[q].step = "answered" /\ run'[q].shown # 0) =>
                             token'[run'[q].shown] = "revoked"
                        /\ run'[q].kind = "logout" => run'[q].new = 0
                        /\ run'[q].new # 0 => token'[run'[q].new] \in {"valid", "expired"}
      BY DEF RunOK
    <3>0. run[q] \in Request
      BY <1>t
    <3>1. CASE q = r
      BY <2>s, <2>c, <2>z, <3>0, <3>1 DEF TypeOK, RunOK, Request
    <3>2. CASE q # r
      <4>1. run'[q] = run[q]
        BY <2>s, <3>2 DEF TypeOK
      <4>2. run[q].shown \in Token \cup {0} /\ run[q].new \in Token \cup {0}
        BY <3>0 DEF Request
      <4>3. run[q].new # 0 => run[q].new # run[r].shown
        BY DEF Fresh
      <4>4. QED
        BY <2>s, <2>z, <4>1, <4>2, <4>3 DEF RunOK
    <3>3. QED
      BY <3>1, <3>2
  <2>3. Fresh'
    BY <2>s, <2>u, <2>c, <1>t DEF TypeOK, Fresh, RunOK, Request, Issued
  <2>4. Own'
    BY <2>s, <2>u, <2>c, <1>t DEF TypeOK, Own, Request
  <2>5. SessionContinues'
    <3> SUFFICES ASSUME NEW c \in Client, store[c] # 0, token'[store[c]] = "revoked"
                 PROVE  c \in lost \/ \E q \in Run : /\ run'[q].step = "answered"
                                                     /\ run'[q].client = c
                                                     /\ run'[q].shown = store[c]
      BY <2>u DEF SessionContinues
    <3>0. store[c] \in Token
      BY DEF TypeOK, Issued
    <3>1. CASE store[c] = run[r].shown
      <4>1. run[r].client = c
        BY <3>1 DEF Own
      <4>2. QED
        BY <2>s, <2>c, <3>1, <4>1 DEF TypeOK, Request
    <3>2. CASE store[c] # run[r].shown
      <4>1. token[store[c]] = "revoked"
        BY <2>s, <3>0, <3>2
      <4>2. CASE c \in lost
        BY <4>2
      <4>3. CASE \E q \in Run : run[q].step = "answered" /\ run[q].client = c
                                /\ run[q].shown = store[c]
        BY <2>s, <2>c, <4>3 DEF TypeOK
      <4>4. QED
        BY <4>1, <4>2, <4>3 DEF SessionContinues
    <3>3. QED
      BY <3>1, <3>2
  <2>6. NothingLeftBehind'
    <3> SUFFICES ASSUME NEW t \in Token, token'[t] = "valid"
                 PROVE  \/ t \in left
                        \/ \E c \in Client : store[c] = t
                        \/ \E q \in Run : run'[q].step = "answered" /\ run'[q].new = t
      BY <2>u DEF NothingLeftBehind
    <3>1. CASE \E q \in Run : run[q].step = "answered" /\ run[q].new = t
      BY <2>s, <2>c, <3>1 DEF TypeOK
    <3>2. CASE token[t] # "valid"
      <4>1. run'[r].step = "answered" /\ run'[r].new = t
        BY <2>s, <2>c, <3>2 DEF TypeOK, Request
      <4>2. QED
        BY <4>1
    <3>3. QED
      BY <3>1, <3>2 DEF NothingLeftBehind
  <2>7. QED
    BY <2>1, <2>2, <2>3, <2>4, <2>5, <2>6
<1>5. ASSUME NEW r \in Run, Answer(r) PROVE IInv'
  <2>q. run' \in [Run -> Request]
    BY <1>5, AwayTyped, RunTyped DEF Answer
  <2>k. run[r].new \in Issued \cup {0}
    BY <1>5, <1>t DEF RunOK, Request, Issued
  <2>1. TypeOK'
    BY <1>5, <1>t, <2>q, <2>k, KeepsTyped DEF Answer, TypeOK
  <2>2. RunOK'
    BY <1>5 DEF Answer, Keeps, Away, TypeOK, RunOK, Request
  <2>3. Fresh'
    BY <1>5 DEF Answer, Keeps, Away, TypeOK, Fresh, RunOK, Request, Issued
  <2>4. Own'
    BY <1>5 DEF Answer, Keeps, Away, TypeOK, Own, Fresh, RunOK, Request, Issued
  <2>5. SessionContinues'
    <3> SUFFICES ASSUME NEW c \in Client, store'[c] # 0, token[store'[c]] = "revoked"
                 PROVE  c \in lost' \/ \E q \in Run : /\ run'[q].step = "answered"
                                                      /\ run'[q].client = c
                                                      /\ run'[q].shown = store'[c]
      BY <1>5 DEF Answer, SessionContinues
    <3>1. c # run[r].client
      BY <1>5, <1>t DEF Answer, Keeps, TypeOK, RunOK
    <3>2. store'[c] = store[c] /\ (c \in lost => c \in lost')
      BY <1>5, <3>1 DEF Answer, Keeps, TypeOK
    <3>3. CASE c \in lost
      BY <3>2, <3>3
    <3>4. CASE c \notin lost
      <4>1. PICK q \in Run : run[q].step = "answered" /\ run[q].client = c
                             /\ run[q].shown = store[c]
        BY <3>2, <3>4 DEF SessionContinues
      <4>2. run'[q] = run[q]
        BY <1>5, <3>1, <4>1 DEF Answer, TypeOK
      <4>3. QED
        BY <3>2, <4>1, <4>2
    <3>5. QED
      BY <3>3, <3>4
  <2>6. NothingLeftBehind'
    <3> SUFFICES ASSUME NEW t \in Token, token[t] = "valid"
                 PROVE  \/ t \in left'
                        \/ \E c \in Client : store'[c] = t
                        \/ \E q \in Run : run'[q].step = "answered" /\ run'[q].new = t
      BY <1>5 DEF Answer, NothingLeftBehind
    <3>0. t # 0 /\ t # run[r].shown /\ run[r].client \in Client
      BY <1>5, <1>t DEF Answer, RunOK, Token
    <3>1. CASE t \in left
      BY <1>5, <3>1 DEF Answer, Keeps
    <3>2. CASE \E c \in Client : store[c] = t
      BY <1>5, <3>0, <3>2 DEF Answer, Keeps, TypeOK
    <3>3. ASSUME NEW q \in Run, run[q].step = "answered", run[q].new = t
          PROVE  \/ t \in left' \/ \E c \in Client : store'[c] = t
                 \/ \E p \in Run : run'[p].step = "answered" /\ run'[p].new = t
      <4>1. CASE q = r
        BY <1>5, <3>0, <3>3, <4>1 DEF Answer, Keeps, TypeOK, RunOK
      <4>2. CASE q # r
        <5>1. run'[q] = run[q]
          BY <1>5, <4>2 DEF Answer, TypeOK
        <5>2. QED
          BY <3>3, <5>1
      <4>3. QED
        BY <4>1, <4>2
    <3>4. QED
      BY <3>1, <3>2, <3>3 DEF NothingLeftBehind
  <2>7. QED
    BY <2>1, <2>2, <2>3, <2>4, <2>5, <2>6
<1>6. ASSUME NEW r \in Run, LoseRequest(r) PROVE IInv'
  <2>q. run' \in [Run -> Request]
    BY <1>6, AwayTyped, RunTyped DEF LoseRequest
  <2>k. /\ store' \in [Client -> Issued' \cup {0}] /\ lost' \in SUBSET Client
        /\ left' \in SUBSET Issued'
    <3>1. ASSUME NEW s, Keeps(run[r].client, 0, s) 
                 PROVE  /\ store' \in [Client -> Issued' \cup {0}] /\ lost' \in SUBSET Client
                        /\ left' \in SUBSET Issued'
      BY <1>6, <1>t, <3>1, KeepsTyped DEF LoseRequest
    <3>2. CASE UNCHANGED <<store, lost, left>>
      BY <1>6, <3>2 DEF LoseRequest, TypeOK, Issued
    <3>3. QED
      BY <1>6, <3>1, <3>2 DEF LoseRequest
  <2>1. TypeOK'
    BY <1>6, <2>q, <2>k DEF LoseRequest, TypeOK
  <2>2. RunOK'
    BY <1>6 DEF LoseRequest, Keeps, Away, TypeOK, RunOK, Request
  <2>3. Fresh'
    BY <1>6 DEF LoseRequest, Keeps, Away, TypeOK, Fresh, RunOK, Request, Issued
  <2>4. Own'
    BY <1>6 DEF LoseRequest, Keeps, Away, TypeOK, Own, Fresh, RunOK, Request, Issued
  <2>5. SessionContinues'
    BY <1>6 DEF LoseRequest, Keeps, Away, TypeOK, SessionContinues, RunOK, Fresh, Own,
                Request, Issued
  <2>6. NothingLeftBehind'
    BY <1>6 DEF LoseRequest, Keeps, Away, TypeOK, NothingLeftBehind, RunOK, Fresh, Request
  <2>7. QED
    BY <2>1, <2>2, <2>3, <2>4, <2>5, <2>6
<1>7. ASSUME NEW r \in Run, LoseAnswer(r) PROVE IInv'
  <2>q. run' \in [Run -> Request]
    BY <1>7, AwayTyped, RunTyped DEF LoseAnswer
  <2>k. run[r].new \in Issued \cup {0}
    BY <1>7, <1>t DEF RunOK, Request, Issued
  <2>k2. /\ store' \in [Client -> Issued' \cup {0}] /\ lost' \in SUBSET Client
         /\ left' \in SUBSET Issued'
    <3>1. CASE Keeps(run[r].client, 0, run[r].shown)
      BY <1>7, <1>t, <3>1, KeepsTyped DEF LoseAnswer
    <3>2. CASE ~Keeps(run[r].client, 0, run[r].shown)
      <4>1. Issued' = Issued
        BY <1>7 DEF LoseAnswer, Issued
      <4>2. QED
        BY <1>7, <1>t, <2>k, <3>2, <4>1 DEF LoseAnswer, TypeOK
    <3>3. QED
      BY <3>1, <3>2
  <2>1. TypeOK'
    BY <1>7, <2>q, <2>k2 DEF LoseAnswer, TypeOK
  <2>2. RunOK'
    BY <1>7 DEF LoseAnswer, Keeps, Away, TypeOK, RunOK, Request
  <2>3. Fresh'
    BY <1>7 DEF LoseAnswer, Keeps, Away, TypeOK, Fresh, RunOK, Request, Issued
  <2>4. Own'
    BY <1>7 DEF LoseAnswer, Keeps, Away, TypeOK, Own, Fresh, RunOK, Request, Issued
  <2>5. SessionContinues'
    <3> SUFFICES ASSUME NEW c \in Client, store'[c] # 0, token[store'[c]] = "revoked"
                 PROVE  c \in lost' \/ \E q \in Run : /\ run'[q].step = "answered"
                                                      /\ run'[q].client = c
                                                      /\ run'[q].shown = store'[c]
      BY <1>7 DEF LoseAnswer, SessionContinues
    <3>1. CASE c = run[r].client /\ store[c] = run[r].shown
      <4>1. store'[c] = 0 \/ c \in lost'
        BY <1>7, <1>t, <3>1 DEF LoseAnswer, Keeps, TypeOK
      <4>2. QED
        BY <4>1
    <3>2. CASE ~(c = run[r].client /\ store[c] = run[r].shown)
      <4>1. store'[c] = store[c] /\ (c \in lost => c \in lost')
        BY <1>7, <1>t, <3>2 DEF LoseAnswer, Keeps, TypeOK
      <4>2. CASE c \in lost
        BY <4>1, <4>2
      <4>3. CASE c \notin lost
        <5>1. PICK q \in Run : run[q].step = "answered" /\ run[q].client = c
                               /\ run[q].shown = store[c]
          BY <4>1, <4>3 DEF SessionContinues
        <5>2. run'[q] = run[q]
          BY <1>7, <3>2, <5>1 DEF LoseAnswer, TypeOK
        <5>3. QED
          BY <4>1, <5>1, <5>2
      <4>4. QED
        BY <4>2, <4>3
    <3>3. QED
      BY <3>1, <3>2
  <2>6. NothingLeftBehind'
    <3> SUFFICES ASSUME NEW t \in Token, token[t] = "valid"
                 PROVE  \/ t \in left'
                        \/ \E c \in Client : store'[c] = t
                        \/ \E q \in Run : run'[q].step = "answered" /\ run'[q].new = t
      BY <1>7 DEF LoseAnswer, NothingLeftBehind
    <3>0. t # 0 /\ t # run[r].shown /\ run[r].client \in Client
      BY <1>7, <1>t DEF LoseAnswer, RunOK, Token
    <3>1. CASE t \in left
      BY <1>7, <3>1 DEF LoseAnswer, Keeps
    <3>2. CASE \E c \in Client : store[c] = t
      BY <1>7, <3>0, <3>2 DEF LoseAnswer, Keeps, TypeOK
    <3>3. ASSUME NEW q \in Run, run[q].step = "answered", run[q].new = t
          PROVE  \/ t \in left' \/ \E c \in Client : store'[c] = t
                 \/ \E p \in Run : run'[p].step = "answered" /\ run'[p].new = t
      <4>1. CASE q = r
        BY <1>7, <3>0, <3>3, <4>1 DEF LoseAnswer, Keeps, TypeOK, RunOK
      <4>2. CASE q # r
        <5>1. run'[q] = run[q]
          BY <1>7, <4>2 DEF LoseAnswer, TypeOK
        <5>2. QED
          BY <3>3, <5>1
      <4>3. QED
        BY <4>1, <4>2
    <3>4. QED
      BY <3>1, <3>2, <3>3 DEF NothingLeftBehind
  <2>7. QED
    BY <2>1, <2>2, <2>3, <2>4, <2>5, <2>6
<1>8. ASSUME NEW t \in Token, Expire(t) PROVE IInv'
  <2>1. TypeOK'
    BY <1>8 DEF Expire, TypeOK, Request, Issued
  <2>2. RunOK'
    BY <1>8 DEF Expire, TypeOK, RunOK, Request
  <2>3. Fresh'
    BY <1>8 DEF Expire, TypeOK, Fresh, RunOK, Request, Issued
  <2>4. Own'
    BY <1>8 DEF Expire, TypeOK, Own, Fresh, RunOK, Request, Issued
  <2>5. SessionContinues'
    BY <1>8 DEF Expire, TypeOK, SessionContinues, RunOK, Fresh, Own, Request, Issued
  <2>6. NothingLeftBehind'
    BY <1>8 DEF Expire, TypeOK, NothingLeftBehind, RunOK, Fresh, Request
  <2>7. QED
    BY <2>1, <2>2, <2>3, <2>4, <2>5, <2>6
<1>9. ASSUME SwitchAccount PROVE IInv'
  <2>1. TypeOK'
    BY <1>9 DEF SwitchAccount, TypeOK, Request, Issued
  <2>2. RunOK'
    BY <1>9 DEF SwitchAccount, TypeOK, RunOK, Request
  <2>3. Fresh'
    BY <1>9 DEF SwitchAccount, TypeOK, Fresh, RunOK, Request, Issued
  <2>4. Own'
    BY <1>9 DEF SwitchAccount, TypeOK, Own, Fresh, RunOK, Request, Issued
  <2>5. SessionContinues'
    BY <1>9 DEF SwitchAccount, TypeOK, SessionContinues, RunOK, Fresh, Own, Request, Issued
  <2>6. NothingLeftBehind'
    BY <1>9 DEF SwitchAccount, TypeOK, NothingLeftBehind, RunOK, Fresh, Request
  <2>7. QED
    BY <2>1, <2>2, <2>3, <2>4, <2>5, <2>6
<1>10. CASE UNCHANGED vars
  BY <1>10 DEF vars, TypeOK, Issued, RunOK, Fresh, Own, SessionContinues, NothingLeftBehind
<1>11. QED
  BY <1>1, <1>2, <1>3, <1>4, <1>5, <1>6, <1>7, <1>8, <1>9, <1>10 DEF Next

LEMMA InvariantIInv == Spec => []IInv
  BY InitIInv, NextIInv, PTL DEF Spec

\* Tokens, stores and requests keep their types; only issued tokens are kept.
THEOREM TypeCorrect == Spec => []TypeOK
<1>1. IInv => TypeOK
  BY DEF IInv
<1>2. QED
  BY <1>1, InvariantIInv, PTL

\* Refreshes at once, late answers and refusals log nobody out.
THEOREM SessionsContinue == Spec => []SessionContinues
<1>1. IInv => SessionContinues
  BY DEF IInv, Parts
<1>2. QED
  BY <1>1, InvariantIInv, PTL

\* Every token that works is kept, on its way, or given up unpresented.
THEOREM NoTokenLeftBehind == Spec => []NothingLeftBehind
<1>1. IInv => NothingLeftBehind
  BY DEF IInv, Parts
<1>2. QED
  BY <1>1, InvariantIInv, PTL

-----------------------------------------------------------------------------
(* Accounts.                                                                 *)

\* A decided removal that saw nobody go leaves an administrator.
SafeToCommit ==
  \A p \in Handler :
    (change[p].step = "commit" /\ Removes(change[p].kind) /\ ~change[p].stale) =>
      OthersLeft(change[p].of)

\* A decided change has a target.
Aimed == \A p \in Handler : change[p].step # "rest" => change[p].of \in User

\* Only an account that exists is ever activated again.
Known ==
  \A p \in Handler :
    (change[p].step = "commit" /\ change[p].kind = "reactivate") => role[change[p].of] # "none"

AccountsInv ==
  /\ AccountsTypeOK /\ Aimed /\ Known
  /\ crossed \/ (ActiveAdmins # {} /\ SafeToCommit)

-----------------------------------------------------------------------------
LEMMA InitAccounts ==
  ASSUME AccountsInit
  PROVE  AccountsInv
<1>1. PICK u \in User : role = [v \in User |-> IF v = u THEN "admin" ELSE "none"] /\ active = {u}
  BY DEF AccountsInit
<1>2. role \in [User -> {"none", "other", "admin"}]
      /\ active \in SUBSET {v \in User : role[v] # "none"} /\ u \in ActiveAdmins
  BY <1>1 DEF ActiveAdmins
<1>3. change \in [Handler -> Change] /\ \A p \in Handler : change[p].step = "rest"
  BY DEF AccountsInit, Resting, Change
<1>4. changes \in 0..MaxChanges /\ crossed = FALSE
  BY ChangesAssumption DEF AccountsInit
<1>5. QED
  BY <1>2, <1>3, <1>4 DEF AccountsInv, AccountsTypeOK, Aimed, Known, SafeToCommit

\* What the commit of every kind of change does to the requests.
LEMMA FinishesTyped ==
  ASSUME AccountsInv, NEW p \in Handler, NEW k, Finishes(p, k)
  PROVE  /\ change' \in [Handler -> Change] /\ Aimed' /\ changes' \in 0..MaxChanges
         /\ crossed' \in BOOLEAN /\ change[p].of \in User
         /\ (crossed => crossed')
         /\ ~crossed' => (crossed = FALSE /\ (Removes(k) => ~change[p].stale))
         /\ \A q \in Handler :
              (change'[q].step = "commit") =>
                /\ q # p /\ change[q].step = "commit"
                /\ change'[q].kind = change[q].kind /\ change'[q].of = change[q].of
                /\ (~change'[q].stale => ~change[q].stale /\ ~Removes(k))
<1>1. change \in [Handler -> Change] /\ crossed \in BOOLEAN /\ changes \in 0..MaxChanges
  BY DEF AccountsInv, AccountsTypeOK
<1>2. change' \in [Handler -> Change]
  BY <1>1 DEF Finishes, Change, Resting
<1>3. Aimed' /\ change[p].of \in User
  BY <1>1 DEF AccountsInv, Aimed, Finishes, Change, Resting
<1>4. \A q \in Handler :
        (change'[q].step = "commit") =>
          /\ q # p /\ change[q].step = "commit"
          /\ change'[q].kind = change[q].kind /\ change'[q].of = change[q].of
          /\ (~change'[q].stale => ~change[q].stale /\ ~Removes(k))
  BY <1>1 DEF Finishes, Change, Resting
<1>5. QED
  BY <1>1, <1>2, <1>3, <1>4 DEF Finishes

\* A change that takes no administrator away keeps the invariant.
LEMMA AddingKeeps ==
  ASSUME AccountsInv, NEW p \in Handler, NEW k,
         \A u \in User : role[u] # "none" => role'[u] # "none",
         Finishes(p, k), ~Removes(k),
         role' \in [User -> {"none", "other", "admin"}],
         active' \in SUBSET {u \in User : role'[u] # "none"},
         ActiveAdmins \subseteq ActiveAdmins'
  PROVE  AccountsInv'
<1>t. AccountsTypeOK' /\ Aimed'
  BY FinishesTyped DEF AccountsTypeOK
<1>k. Known'
  <2>1. \A q \in Handler :
          change'[q].step = "commit" =>
            /\ change[q].step = "commit"
            /\ change'[q].kind = change[q].kind /\ change'[q].of = change[q].of
    BY FinishesTyped
  <2>2. QED
    BY <2>1 DEF AccountsInv, Known, Aimed
<1>1. AccountsTypeOK' /\ Aimed' /\ Known'
  BY <1>t, <1>k
<1>2. ASSUME ~crossed' PROVE ActiveAdmins' # {} /\ SafeToCommit'
  <2>1. ActiveAdmins # {} /\ SafeToCommit
    BY <1>2, FinishesTyped DEF AccountsInv
  <2>2. SafeToCommit'
    BY <2>1, FinishesTyped DEF SafeToCommit, OthersLeft
  <2>3. QED
    BY <2>1, <2>2
<1>3. QED
  BY <1>1, <1>2 DEF AccountsInv

\* A change that takes its target away and saw nobody go leaves another, and
\* tells every decided handler.
LEMMA RemovingKeeps ==
  ASSUME AccountsInv, NEW p \in Handler, NEW k,
         \A u \in User : role[u] # "none" => role'[u] # "none",
         Finishes(p, k), Removes(k),
         role' \in [User -> {"none", "other", "admin"}],
         active' \in SUBSET {u \in User : role'[u] # "none"},
         ActiveAdmins \ {change[p].of} \subseteq ActiveAdmins'
  PROVE  AccountsInv'
<1>t. AccountsTypeOK' /\ Aimed'
  BY FinishesTyped DEF AccountsTypeOK
<1>k. Known'
  <2>1. \A q \in Handler :
          change'[q].step = "commit" =>
            /\ change[q].step = "commit"
            /\ change'[q].kind = change[q].kind /\ change'[q].of = change[q].of
    BY FinishesTyped
  <2>2. QED
    BY <2>1 DEF AccountsInv, Known, Aimed
<1>1. AccountsTypeOK' /\ Aimed' /\ Known'
  BY <1>t, <1>k
<1>2. ASSUME ~crossed' PROVE ActiveAdmins' # {} /\ SafeToCommit'
  <2>1. SafeToCommit /\ ~change[p].stale /\ change[p].step = "commit" /\ change[p].kind = k
    BY <1>2, FinishesTyped DEF AccountsInv, Finishes
  <2>2. ActiveAdmins' # {}
    BY <2>1 DEF SafeToCommit, OthersLeft
  <2>3. ASSUME NEW q \in Handler, change'[q].step = "commit" PROVE change'[q].stale
    BY <2>3, FinishesTyped
  <2>4. SafeToCommit'
    BY <2>3 DEF SafeToCommit
  <2>5. QED
    BY <2>2, <2>4
<1>3. QED
  BY <1>1, <1>2 DEF AccountsInv

LEMMA NextAccounts ==
  ASSUME AccountsInv, [AccountsNext]_accountVars
  PROVE  AccountsInv'
<1>t. /\ role \in [User -> {"none", "other", "admin"}]
      /\ active \in SUBSET {u \in User : role[u] # "none"}
      /\ change \in [Handler -> Change]
  BY DEF AccountsInv, AccountsTypeOK
<1>1. ASSUME NEW p \in Handler, NEW k \in Kinds, NEW a \in User, NEW u \in User,
             Authorise(p, k, a, u)
      PROVE  AccountsInv'
  <2>1. AccountsTypeOK' /\ Aimed'
    BY <1>1, <1>t, ChangesAssumption DEF AccountsInv, AccountsTypeOK, Aimed,
                      Authorise, Change
  <2>k. Known'
    BY <1>1, <1>t DEF AccountsInv, Known, Authorise
  <2>2. SafeToCommit => SafeToCommit'
    BY <1>1, <1>t DEF SafeToCommit, Authorise, OthersLeft, ActiveAdmins
  <2>3. ActiveAdmins' = ActiveAdmins /\ crossed' = crossed
    BY <1>1 DEF Authorise, ActiveAdmins
  <2>4. QED
    BY <2>1, <2>k, <2>2, <2>3 DEF AccountsInv
<1>2. ASSUME NEW p \in Handler, Decide(p)
      PROVE  AccountsInv'
  <2>1. AccountsTypeOK' /\ Aimed'
    BY <1>2, <1>t DEF AccountsInv, AccountsTypeOK, Aimed, Decide, Change, Resting
  <2>k. Known'
    BY <1>2, <1>t DEF AccountsInv, Known, Decide, Allowed, Resting
  <2>2. ActiveAdmins' = ActiveAdmins /\ crossed' = crossed
    BY <1>2 DEF Decide, ActiveAdmins
  <2>3. ASSUME ActiveAdmins # {}, SafeToCommit PROVE SafeToCommit'
    <3> SUFFICES ASSUME NEW q \in Handler, change'[q].step = "commit",
                        Removes(change'[q].kind), ~change'[q].stale
                 PROVE  OthersLeft(change'[q].of)
      BY <2>2 DEF SafeToCommit, OthersLeft
    <3>1. CASE q # p
      BY <1>2, <1>t, <2>3, <3>1 DEF Decide, SafeToCommit
    <3>2. CASE q = p
      <4>1. Allowed(change[p].kind, change[p].by, change[p].of)
            /\ change'[p].kind = change[p].kind /\ change'[p].of = change[p].of
        BY <1>2, <1>t, <3>2 DEF Decide, Resting, Change
      <4>2. QED
        BY <2>3, <3>2, <4>1 DEF Allowed, Removes, OthersLeft, ActiveAdmins
    <3>3. QED
      BY <3>1, <3>2
  <2>4. QED
    BY <2>1, <2>k, <2>2, <2>3 DEF AccountsInv
<1>3. ASSUME NEW p \in Handler, Register(p) PROVE AccountsInv'
  <2>1. Finishes(p, "register") /\ change[p].of \in User
    BY <1>3, FinishesTyped DEF Register
  <2>2. /\ role' \in [User -> {"none", "other", "admin"}]
        /\ active' \in SUBSET {u \in User : role'[u] # "none"}
        /\ (\A u \in User : role[u] # "none" => role'[u] # "none")
        /\ ActiveAdmins \subseteq ActiveAdmins'
    BY <1>3, <1>t, <2>1 DEF Register, ActiveAdmins
  <2>3. QED
    BY <2>1, <2>2, AddingKeeps DEF Removes
<1>4. ASSUME NEW p \in Handler, Promote(p) PROVE AccountsInv'
  <2>1. Finishes(p, "promote") /\ change[p].of \in User
    BY <1>4, FinishesTyped DEF Promote
  <2>2. /\ role' \in [User -> {"none", "other", "admin"}]
        /\ active' \in SUBSET {u \in User : role'[u] # "none"}
        /\ (\A u \in User : role[u] # "none" => role'[u] # "none")
        /\ ActiveAdmins \subseteq ActiveAdmins'
    BY <1>4, <1>t, <2>1 DEF Promote, ActiveAdmins
  <2>3. QED
    BY <2>1, <2>2, AddingKeeps DEF Removes
<1>5. ASSUME NEW p \in Handler, Demote(p) PROVE AccountsInv'
  <2>1. Finishes(p, "demote") /\ change[p].of \in User
    BY <1>5, FinishesTyped DEF Demote
  <2>2. /\ role' \in [User -> {"none", "other", "admin"}]
        /\ active' \in SUBSET {u \in User : role'[u] # "none"}
        /\ (\A u \in User : role[u] # "none" => role'[u] # "none")
        /\ ActiveAdmins \ {change[p].of} \subseteq ActiveAdmins'
    BY <1>5, <1>t, <2>1 DEF Demote, ActiveAdmins
  <2>3. QED
    BY <2>1, <2>2, RemovingKeeps DEF Removes
<1>6. ASSUME NEW p \in Handler, Deactivate(p) PROVE AccountsInv'
  <2>1. Finishes(p, "deactivate")
    BY <1>6 DEF Deactivate
  <2>2. /\ role' \in [User -> {"none", "other", "admin"}]
        /\ active' \in SUBSET {u \in User : role'[u] # "none"}
        /\ (\A u \in User : role[u] # "none" => role'[u] # "none")
        /\ ActiveAdmins \ {change[p].of} \subseteq ActiveAdmins'
    BY <1>6, <1>t DEF Deactivate, ActiveAdmins
  <2>3. QED
    BY <2>1, <2>2, RemovingKeeps DEF Removes
<1>7. ASSUME NEW p \in Handler, Reactivate(p) PROVE AccountsInv'
  <2>1. Finishes(p, "reactivate") /\ change[p].of \in User
    BY <1>7, FinishesTyped DEF Reactivate
  <2>2. role[change[p].of] # "none"
    BY <2>1 DEF AccountsInv, Known, Finishes
  <2>3. /\ role' \in [User -> {"none", "other", "admin"}]
        /\ active' \in SUBSET {u \in User : role'[u] # "none"}
        /\ (\A u \in User : role[u] # "none" => role'[u] # "none")
        /\ ActiveAdmins \subseteq ActiveAdmins'
    BY <1>7, <1>t, <2>1, <2>2 DEF Reactivate, ActiveAdmins
  <2>4. QED
    BY <2>1, <2>3, AddingKeeps DEF Removes
<1>8. CASE UNCHANGED accountVars
  BY <1>8 DEF accountVars, AccountsInv, AccountsTypeOK, Aimed, Known, SafeToCommit,
              OthersLeft, ActiveAdmins
<1>9. QED
  BY <1>1, <1>2, <1>3, <1>4, <1>5, <1>6, <1>7, <1>8 DEF AccountsNext

LEMMA AccountsInvariant == AccountsSpec => []AccountsInv
<1>1. AccountsInit => AccountsInv
  BY InitAccounts
<1>2. AccountsInv /\ [AccountsNext]_accountVars => AccountsInv'
  BY NextAccounts
<1>3. QED
  BY <1>1, <1>2, PTL DEF AccountsSpec

\* Every user keeps a role and a state the schema knows, whatever interleaves.
THEOREM AccountsTyped == AccountsSpec => []AccountsTypeOK
<1>1. AccountsInv => AccountsTypeOK
  BY DEF AccountsInv
<1>2. QED
  BY <1>1, AccountsInvariant, PTL

\* An active administrator is left, unless two removals crossed (the count and
\* the commit of src/app/routers/users.py are separate statements).
THEOREM AdministratorLeft == AccountsSpec => []AdminLeft
<1>1. AccountsInv => AdminLeft
  BY DEF AccountsInv, AdminLeft
<1>2. QED
  BY <1>1, AccountsInvariant, PTL

=============================================================================

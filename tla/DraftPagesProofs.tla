--------------------------- MODULE DraftPagesProofs ---------------------------
(***************************************************************************)
(* Proofs about DraftPages.  First what the HTTP layer keeps, for any      *)
(* callers and whoever uses it: the invariant HttpInv, the history         *)
(* HistInv, and that the two together give AtMostOnce and                  *)
(* RefusedOnlyIfDisturbed.  Then the pages as steps of EditBuffer.         *)
(***************************************************************************)
EXTENDS DraftPages, TLAPS

Reqs == [step : Steps, token : Nat, status : Statuses, retried : BOOLEAN]

(* A good status is only found in an answer that has not been read yet.    *)
HttpInv ==
    /\ HttpTypeOK
    /\ \A c \in Callers : req[c].status = 200 => req[c].step = "served"

-----------------------------------------------------------------------------
(* The HTTP layer keeps its invariant whoever uses it. *)

(* An answer put on a request is a request of the same kind.                *)
LEMMA ServedGood ==
    ASSUME NEW S, NEW T, "served" \in S, NEW s \in T,
           NEW r \in [step : S, token : Nat, status : T, retried : BOOLEAN]
    PROVE  /\ Served(r, s) \in [step : S, token : Nat, status : T, retried : BOOLEAN]
           /\ Served(r, s).step = "served"
BY Zenon DEF Served

(* The same for the requests and statuses of the page.                      *)
LEMMA AnswerGood ==
    ASSUME NEW r \in Reqs, NEW s \in Statuses
    PROVE  Served(r, s) \in Reqs /\ Served(r, s).step = "served"
<1>1. "served" \in Steps
  BY Zenon DEF Steps
<1> QED
  BY <1>1, ServedGood DEF Reqs

(* Replacing the request of one caller.                                     *)
LEMMA Put ==
    ASSUME NEW r \in [Callers -> Reqs], NEW x \in Reqs, NEW c \in Callers, NEW q,
           q = [r EXCEPT ![c] = x]
    PROVE  q \in [Callers -> Reqs] /\ q[c] = x /\ \A d \in Callers \ {c} : q[d] = r[d]
BY Zenon

(* Starting a request keeps the invariant and the other requests.           *)
LEMMA RequestKeeps ==
    ASSUME HttpInv, NEW r \in [Callers -> Reqs], NEW c \in Callers,
           \A d \in Callers : r[d].status = 200 => r[d].step = "served",
           Request(r, c)
    PROVE  /\ HttpInv'
           /\ req'[c].status # 200
           /\ \A d \in Callers \ {c} : req'[d] = r[d]
<1>1. performFetch(c) \in Reqs /\ performFetch(c).status = 0
  <2>1. Ensured \in Nat
    BY Zenon DEF HttpInv, HttpTypeOK, Ensured
  <2>2. ASSUME NEW t \in Nat PROVE Sent(t, FALSE) \in Reqs /\ Sent(t, FALSE).status = 0
    BY ZenonT(30) DEF Sent, Reqs, Steps, Statuses
  <2>3. [Idle EXCEPT !.step = "token"] \in Reqs /\ [Idle EXCEPT !.step = "token"].status = 0
    BY ZenonT(30) DEF Idle, Reqs, Steps, Statuses
  <2>4. CASE c \in SafeCallers
    <3>1. performFetch(c) = Sent(0, FALSE)
      BY <2>4, Zenon DEF performFetch
    <3> QED
      BY <2>2, <3>1, Zenon
  <2>5. CASE c \notin SafeCallers /\ Ensured # 0
    <3>1. performFetch(c) = Sent(Ensured, FALSE)
      BY <2>5, Zenon DEF performFetch
    <3> QED
      BY <2>1, <2>2, <3>1, Zenon
  <2>6. CASE c \notin SafeCallers /\ Ensured = 0
    BY <2>3, <2>6, Zenon DEF performFetch
  <2> QED
    BY <2>4, <2>5, <2>6, Zenon
<1>2. req' \in [Callers -> Reqs] /\ req'[c] = performFetch(c)
      /\ \A d \in Callers \ {c} : req'[d] = r[d]
  BY <1>1, Zenon DEF Request
<1>3. csrfToken' \in Nat /\ metaToken' \in Nat /\ sessionToken' \in Nat \ {0}
  BY Zenon DEF Request, HttpInv, HttpTypeOK, Ensured, serverVars
<1>4. csrfFetchPromise' \in [step : {"none", "sent", "answered"}, token : Nat]
  BY Zenon DEF Request, HttpInv, HttpTypeOK
<1>5. sessionExpired' \in BOOLEAN /\ loggedIn' \in BOOLEAN
  BY Zenon DEF Request, HttpInv, HttpTypeOK, serverVars
<1>6. applied' \in [Callers -> Nat] /\ disturbed' \in [Callers -> BOOLEAN]
  BY Zenon DEF Request, Forget, HttpInv, HttpTypeOK
<1>7. \A d \in Callers : req'[d].status = 200 => req'[d].step = "served"
  BY <1>1, <1>2
<1> QED
  BY <1>1, <1>2, <1>3, <1>4, <1>5, <1>6, <1>7 DEF HttpInv, HttpTypeOK, Reqs

(* A caller that takes its answer is idle, the others are as before.        *)
LEMMA ResumedGood ==
    ASSUME HttpInv, NEW c \in Callers
    PROVE  /\ Resumed(c) \in [Callers -> Reqs]
           /\ \A d \in Callers : Resumed(c)[d].status = 200 => Resumed(c)[d].step = "served"
           /\ Resumed(c)[c].status = 0
           /\ \A d \in Callers \ {c} : Resumed(c)[d] = req[d]
<1>1. Idle \in Reqs /\ Idle.status = 0
  BY Zenon DEF Idle, Reqs, Steps, Statuses
<1> QED
  BY <1>1 DEF HttpInv, HttpTypeOK, Resumed, Reqs

(* Taking an answer keeps the invariant.                                    *)
LEMMA ResumeKeeps ==
    ASSUME HttpInv, NEW c \in Callers, Resume(c)
    PROVE  HttpInv' /\ req'[c].status # 200 /\ \A d \in Callers \ {c} : req'[d] = req[d]
<1>1. applied' \in [Callers -> Nat] /\ disturbed' \in [Callers -> BOOLEAN]
  BY Zenon DEF Resume, Forget, HttpInv, HttpTypeOK
<1>2. req' = Resumed(c)
  BY Zenon DEF Resume
<1> QED
  BY <1>1, <1>2, ResumedGood DEF Resume, HttpInv, HttpTypeOK, Reqs, cacheVars, serverVars

(* The server answering a request keeps the invariant.                      *)
LEMMA ServeKeeps ==
    ASSUME HttpInv, NEW c \in Callers, Serve(c)
    PROVE  HttpInv' /\ \A d \in Callers \ {c} : req'[d] = req[d]
<1>1. req \in [Callers -> Reqs]
  BY Zenon DEF HttpInv, HttpTypeOK, Reqs
<1>a. Status(c) \in Statuses
  BY DEF Status, Statuses
<1>b. Served(req[c], Status(c)) \in Reqs /\ Served(req[c], Status(c)).step = "served"
  <2>1. req[c] \in Reqs
    BY <1>1, Zenon
  <2> QED
    BY <2>1, <1>a, AnswerGood, Zenon
<1>2. req' \in [Callers -> Reqs] /\ req'[c].step = "served"
      /\ \A d \in Callers \ {c} : req'[d] = req[d]
  BY <1>1, <1>b, Zenon DEF Serve
<1>3. applied' \in [Callers -> Nat]
  BY DEF Serve, HttpInv, HttpTypeOK
<1>4. HttpTypeOK'
  BY <1>2, <1>3, Zenon DEF Serve, HttpInv, HttpTypeOK, Reqs, cacheVars, serverVars
<1>5. \A d \in Callers : req'[d].status = 200 => req'[d].step = "served"
  BY <1>2 DEF HttpInv
<1> QED
  BY <1>2, <1>4, <1>5, Zenon DEF HttpInv

(* The steps no caller sees leave no request with a good status it had not *)
(* before.                                                                 *)
SilentHttp ==
    \/ TokenServed \/ TokenArrives \/ TokenFails \/ SessionChanges
    \/ \E c \in Callers : \/ Rejected(c) \/ FreshServed(c) \/ FreshArrives(c)
                           \/ Unauthorized(c) \/ FreshFails(c)

(* The token request ending keeps the invariant.                            *)
LEMMA TokenKnownKeeps ==
    ASSUME HttpInv, NEW f \in Nat, TokenKnown(f)
    PROVE  HttpInv' /\ \A c \in Callers : req'[c].status = 200 => req[c].status = 200
<1> DEFINE t == IF f # 0 THEN f ELSE csrfToken
<1>1. t \in Nat
  BY Zenon DEF HttpInv, HttpTypeOK
<1>2. Sent(t, FALSE) \in Reqs /\ Sent(t, FALSE).status = 0
  BY <1>1, Zenon DEF Sent, Reqs, Steps, Statuses
<1>3. req \in [Callers -> Reqs]
  BY Zenon DEF HttpInv, HttpTypeOK, Reqs
<1>4. \A c \in Callers : req'[c] = req[c] \/ req'[c] = Sent(t, FALSE)
  BY Zenon DEF TokenKnown
<1>5. req' \in [Callers -> Reqs]
  BY <1>2, <1>3, Zenon DEF TokenKnown
<1>6. csrfToken' \in Nat
  BY <1>1, Zenon DEF TokenKnown
<1>7. csrfFetchPromise' \in [step : {"none", "sent", "answered"}, token : Nat]
  BY Zenon DEF TokenKnown, NoPromise
<1>8. HttpTypeOK'
  BY <1>5, <1>6, <1>7, Zenon DEF TokenKnown, HttpInv, HttpTypeOK, Reqs, serverVars, historyVars
<1>9. \A c \in Callers : req'[c].status = 200 => req'[c] = req[c]
  <2> SUFFICES ASSUME NEW c \in Callers, req'[c] # req[c]
               PROVE  req'[c].status = 0
    OBVIOUS
  <2> QED
    BY <1>2, <1>4, Zenon
<1> QED
  BY <1>8, <1>9 DEF HttpInv

(* So does every step no caller sees.                                       *)
LEMMA SilentKeeps ==
    ASSUME HttpInv, SilentHttp
    PROVE  HttpInv' /\ \A c \in Callers : req'[c].status = 200 => req[c].status = 200
<1>0. req \in [Callers -> Reqs]
  BY Zenon DEF HttpInv, HttpTypeOK, Reqs
<1>1. CASE TokenServed
  <2>1. csrfFetchPromise' \in [step : {"none", "sent", "answered"}, token : Nat]
    BY <1>1, Zenon DEF TokenServed, HttpInv, HttpTypeOK
  <2> QED
    BY <1>1, <2>1, Zenon DEF TokenServed, HttpInv, HttpTypeOK, serverVars, historyVars
<1>2. CASE TokenArrives
  <2>1. csrfFetchPromise.token \in Nat
    BY Zenon DEF HttpInv, HttpTypeOK
  <2> QED
    BY <1>2, <2>1, TokenKnownKeeps DEF TokenArrives
<1>3. CASE TokenFails
  BY <1>3, TokenKnownKeeps DEF TokenFails
<1>4. CASE SessionChanges
  <2>1. sessionToken' \in Nat \ {0} /\ disturbed' \in [Callers -> BOOLEAN]
    BY <1>4 DEF SessionChanges, HttpInv, HttpTypeOK
  <2> QED
    BY <1>4, <2>1, Zenon DEF SessionChanges, HttpInv, HttpTypeOK, cacheVars
<1>5. ASSUME NEW c \in Callers, Rejected(c) \/ FreshServed(c) \/ FreshArrives(c)
                                \/ Unauthorized(c) \/ FreshFails(c)
      PROVE  HttpInv' /\ \A d \in Callers : req'[d].status = 200 => req[d].status = 200
  <2>0. sessionToken \in Nat /\ req[c] \in Reqs /\ req[c].token \in Nat
    BY <1>0, Zenon DEF HttpInv, HttpTypeOK, Reqs
  <2>1. req' \in [Callers -> Reqs] /\ req'[c].status # 200
        /\ \A d \in Callers \ {c} : req'[d] = req[d]
    <3>1. CASE Rejected(c)
      BY <1>0, <3>1 DEF Rejected, Reqs, Steps, Statuses
    <3>2. CASE FreshServed(c)
      <4> DEFINE r == [req[c] EXCEPT !.step = "fresh", !.token = sessionToken]
      <4>0. "fresh" \in Steps
        BY Zenon DEF Steps
      <4>1. r \in Reqs /\ r.status = req[c].status
        BY <2>0, <4>0, Zenon DEF Reqs
      <4>2. req[c].status # 200
        BY <3>2 DEF FreshServed, HttpInv
      <4> QED
        BY <1>0, <3>2, <4>1, <4>2 DEF FreshServed
    <3>3. CASE FreshArrives(c)
      <4>1. Sent(req[c].token, TRUE) \in Reqs /\ Sent(req[c].token, TRUE).status = 0
        BY <2>0 DEF Sent, Reqs, Steps, Statuses
      <4>2. req' = [req EXCEPT ![c] = Sent(req[c].token, TRUE)]
        BY <3>3, Zenon DEF FreshArrives
      <4>3. req' \in [Callers -> Reqs] /\ req'[c] = Sent(req[c].token, TRUE)
            /\ \A d \in Callers \ {c} : req'[d] = req[d]
        BY <1>0, <4>1, <4>2, Put, Zenon
      <4>4. req'[c].status = 0
        BY <4>1, <4>3, Zenon
      <4>5. req'[c].status # 200
        BY <4>4
      <4> QED
        BY <4>3, <4>5, Zenon
    <3>4. CASE Unauthorized(c)
      <4>1. [Idle EXCEPT !.step = "held"] \in Reqs /\ [Idle EXCEPT !.step = "held"].status = 0
        BY Zenon DEF Idle, Reqs, Steps, Statuses
      <4> QED
        BY <1>0, <3>4, <4>1 DEF Unauthorized
    <3>5. CASE FreshFails(c)
      <4> DEFINE r == [req[c] EXCEPT !.step = "served", !.retried = TRUE]
      <4>0. "served" \in Steps
        BY Zenon DEF Steps
      <4>1. r \in Reqs /\ r.status = req[c].status
        BY <2>0, <4>0, Zenon DEF Reqs
      <4>2. req[c].status # 200
        BY <3>5 DEF FreshFails, HttpInv
      <4> QED
        BY <1>0, <3>5, <4>1, <4>2 DEF FreshFails
    <3> QED
      BY <1>5, <3>1, <3>2, <3>3, <3>4, <3>5, Zenon
  <2>2. csrfToken' \in Nat
    <3>1. csrfToken' = csrfToken \/ csrfToken' = 0 \/ csrfToken' = req[c].token
      BY <1>5, Zenon DEF Rejected, FreshServed, FreshArrives, Unauthorized, FreshFails, cacheVars
    <3> QED
      BY <2>0, <3>1 DEF HttpInv, HttpTypeOK
  <2>3. disturbed' \in [Callers -> BOOLEAN] /\ sessionExpired' \in BOOLEAN
    <3>1. sessionExpired' = sessionExpired \/ sessionExpired' = TRUE
      BY <1>5, Zenon DEF Rejected, FreshServed, FreshArrives, Unauthorized, FreshFails
    <3>2. disturbed' = disturbed \/ disturbed' = [disturbed EXCEPT ![c] = TRUE]
      BY <1>5, Zenon DEF Rejected, FreshServed, FreshArrives, Unauthorized, FreshFails, historyVars
    <3>3. disturbed \in [Callers -> BOOLEAN] /\ sessionExpired \in BOOLEAN
      BY Zenon DEF HttpInv, HttpTypeOK
    <3>4. [disturbed EXCEPT ![c] = TRUE] \in [Callers -> BOOLEAN]
      BY <3>3, Zenon
    <3> QED
      BY <3>1, <3>2, <3>3, <3>4, Zenon
  <2>4. UNCHANGED <<metaToken, csrfFetchPromise, sessionToken, loggedIn, applied>>
    BY <1>5, Zenon DEF Rejected, FreshServed, FreshArrives, Unauthorized, FreshFails,
                cacheVars, serverVars, historyVars
  <2>5. HttpTypeOK'
    BY <2>1, <2>2, <2>3, <2>4, Zenon DEF HttpInv, HttpTypeOK, Reqs
  <2> QED
    BY <2>1, <2>5 DEF HttpInv
<1> QED
  BY <1>1, <1>2, <1>3, <1>4, <1>5 DEF SilentHttp

-----------------------------------------------------------------------------
(* What the history of a request says of it: a request that was handled    *)
(* has a good answer, and one the session did not change under carries     *)
(* the session's token from its first refusal on.                          *)
Honest(c) ==
    /\ applied[c] = 0 \/ (applied[c] = 1 /\ req[c].status = 200)
    /\ ~disturbed[c] =>
         /\ req[c].step = "fresh" => req[c].token = sessionToken
         /\ req[c].retried => req[c].token = sessionToken
         /\ req[c].step = "served" /\ req[c].status = 403
               => c \notin SafeCallers /\ req[c].token # sessionToken

HistInv == \A c \in Callers : Honest(c)

(* Starting a request keeps the history.                                    *)
LEMMA RequestHonest ==
    ASSUME HttpInv, HistInv, NEW r \in [Callers -> Reqs], NEW c \in Callers,
           \A d \in Callers : r[d] = req[d] \/ r[d] = Idle,
           Request(r, c)
    PROVE  HistInv'
<1> SUFFICES ASSUME NEW d \in Callers PROVE Honest(d)'
  BY Zenon DEF HistInv
<1>0. sessionToken' = sessionToken
  BY Zenon DEF Request, serverVars
<1>1. CASE d = c
  <2>1. req'[c] = performFetch(c) /\ applied'[c] = 0
    BY Zenon DEF Request, Forget
  <2>2. /\ performFetch(c).step \in {"sent", "token"}
        /\ performFetch(c).retried = FALSE
    BY Zenon DEF performFetch, Sent, Idle
  <2> QED
    BY <1>1, <2>1, <2>2, Zenon DEF Honest
<1>2. CASE d # c /\ r[d] = Idle
  <2>1. req'[d] = Idle /\ applied'[d] = 0
    BY <1>2, Zenon DEF Request, Forget
  <2> QED
    BY <2>1 DEF Honest, Idle
<1>3. CASE d # c /\ r[d] # Idle
  <2>1. req'[d] = req[d] /\ applied'[d] = applied[d] /\ disturbed'[d] = disturbed[d]
    BY <1>3, Zenon DEF Request, Forget, HttpInv, HttpTypeOK
  <2> QED
    BY <2>1, <1>0 DEF Honest, HistInv
<1> QED
  BY <1>1, <1>2, <1>3, Zenon

(* Taking an answer keeps the history.                                      *)
LEMMA ResumeHonest ==
    ASSUME HttpInv, HistInv, NEW c \in Callers, Resume(c)
    PROVE  HistInv'
<1> SUFFICES ASSUME NEW d \in Callers PROVE Honest(d)'
  BY Zenon DEF HistInv
<1>0. sessionToken' = sessionToken
  BY Zenon DEF Resume, serverVars
<1>1. CASE d = c
  <2>1. req'[d] = Idle /\ applied'[d] = 0
    BY <1>1, Zenon DEF Resume, Resumed, Forget, HttpInv, HttpTypeOK
  <2> QED
    BY <2>1 DEF Honest, Idle
<1>2. CASE d # c
  <2>1. req'[d] = req[d] /\ applied'[d] = applied[d] /\ disturbed'[d] = disturbed[d]
    BY <1>2, Zenon DEF Resume, Resumed, Forget, HttpInv, HttpTypeOK
  <2> QED
    BY <2>1, <1>0 DEF Honest, HistInv
<1> QED
  BY <1>1, <1>2, Zenon

(* The server answering a request keeps the history.                        *)
LEMMA ServeHonest ==
    ASSUME HttpInv, HistInv, NEW c \in Callers, Serve(c)
    PROVE  HistInv'
<1> SUFFICES ASSUME NEW d \in Callers PROVE Honest(d)'
  BY Zenon DEF HistInv
<1>0. sessionToken' = sessionToken /\ disturbed' = disturbed
  BY Zenon DEF Serve, serverVars
<1>1. CASE d = c
  <2>0. req[c] \in Reqs
    BY Zenon DEF HttpInv, HttpTypeOK, Reqs
  <2>1. req'[c] = Served(req[c], Status(c))
    BY Zenon DEF Serve, HttpInv, HttpTypeOK
  <2>2. /\ req'[c].step = "served" /\ req'[c].status = Status(c)
        /\ req'[c].token = req[c].token /\ req'[c].retried = req[c].retried
    BY <2>0, <2>1, Zenon DEF Served, Reqs
  <2>3. applied[c] = 0
    BY DEF Serve, HttpInv, HistInv, Honest
  <2>4. applied'[c] = IF Admitted(c) THEN 1 ELSE 0
    BY <2>3 DEF Serve, HttpInv, HttpTypeOK
  <2>5. Admitted(c) => Status(c) = 200
    BY Zenon DEF Admitted, Status
  <2>6. Status(c) = 403 => c \notin SafeCallers /\ req[c].token # sessionToken
    BY DEF Admitted, Status
  <2>7. applied'[c] = 0 \/ (applied'[c] = 1 /\ req'[c].status = 200)
    BY <2>2, <2>4, <2>5, Zenon
  <2> QED
    BY <1>0, <1>1, <2>2, <2>6, <2>7 DEF Honest, HistInv
<1>2. CASE d # c
  <2>1. req'[d] = req[d] /\ applied'[d] = applied[d]
    BY <1>2, Zenon DEF Serve, HttpInv, HttpTypeOK
  <2> QED
    BY <2>1, <1>0 DEF Honest, HistInv
<1> QED
  BY <1>1, <1>2, Zenon

(* A step no caller sees changes a request only if it has no good answer,  *)
(* and starts none.                                                        *)
LEMMA SilentHonest ==
    ASSUME HttpInv, HistInv, SilentHttp
    PROVE  HistInv' /\ \A c \in Callers : req[c].step = "idle" => req'[c].step = "idle"
<1> SUFFICES ASSUME NEW d \in Callers
             PROVE  Honest(d)' /\ (req[d].step = "idle" => req'[d].step = "idle")
  BY Zenon DEF HistInv
<1>0. req \in [Callers -> Reqs] /\ req[d] \in Reqs /\ Honest(d)
  BY Zenon DEF HttpInv, HttpTypeOK, Reqs, HistInv
<1>1. CASE TokenServed
  <2>1. UNCHANGED <<req, sessionToken, applied, disturbed>>
    BY <1>1, Zenon DEF TokenServed, serverVars, historyVars
  <2> QED
    BY <1>0, <2>1, Zenon DEF Honest
<1>2. ASSUME NEW f, TokenKnown(f)
      PROVE  Honest(d)' /\ (req[d].step = "idle" => req'[d].step = "idle")
  <2>1. UNCHANGED <<sessionToken, applied, disturbed>>
    BY <1>2, Zenon DEF TokenKnown, serverVars, historyVars
  <2>2. CASE req[d].step = "token"
    <3>1. req'[d].step = "sent" /\ req'[d].retried = FALSE
      BY <1>2, <2>2, Zenon DEF TokenKnown, Sent
    <3>2. applied[d] = 0
      BY <1>0, <2>2 DEF Honest, HttpInv
    <3> QED
      BY <2>1, <2>2, <3>1, <3>2, Zenon DEF Honest
  <2>3. CASE req[d].step # "token"
    <3>1. req'[d] = req[d]
      BY <1>2, <2>3, Zenon DEF TokenKnown
    <3> QED
      BY <1>0, <2>1, <3>1 DEF Honest
  <2> QED
    BY <2>2, <2>3, Zenon
<1>3. CASE SessionChanges
  <2>1. UNCHANGED <<req, applied>> /\ disturbed'[d] = (disturbed[d] \/ req[d] # Idle)
    BY <1>3, Zenon DEF SessionChanges
  <2>2. CASE req[d] = Idle
    BY <1>0, <2>1, <2>2 DEF Honest, Idle
  <2>3. CASE req[d] # Idle
    BY <1>0, <2>1, <2>3, Zenon DEF Honest
  <2> QED
    BY <2>2, <2>3, Zenon
<1>4. ASSUME NEW c \in Callers, Rejected(c) \/ FreshServed(c) \/ FreshArrives(c)
                                \/ Unauthorized(c) \/ FreshFails(c)
      PROVE  Honest(d)' /\ (req[d].step = "idle" => req'[d].step = "idle")
  <2>0. /\ UNCHANGED <<sessionToken, applied>>
        /\ disturbed' = disturbed \/ disturbed' = [disturbed EXCEPT ![c] = TRUE]
    BY <1>4, Zenon DEF Rejected, FreshServed, FreshArrives, Unauthorized, FreshFails,
                serverVars, historyVars
  <2>1. CASE d # c
    <3>1. disturbed'[d] = disturbed[d]
      BY <2>0, <2>1, Zenon DEF HttpInv, HttpTypeOK
    <3>2. CASE Rejected(c)
      BY <1>0, <2>0, <2>1, <3>1, <3>2 DEF Honest, Rejected
    <3>3. CASE FreshServed(c)
      BY <1>0, <2>0, <2>1, <3>1, <3>3 DEF Honest, FreshServed
    <3>4. CASE FreshArrives(c)
      BY <1>0, <2>0, <2>1, <3>1, <3>4 DEF Honest, FreshArrives
    <3>5. CASE Unauthorized(c)
      BY <1>0, <2>0, <2>1, <3>1, <3>5 DEF Honest, Unauthorized
    <3>6. CASE FreshFails(c)
      BY <1>0, <2>0, <2>1, <3>1, <3>6 DEF Honest, FreshFails
    <3> QED
      BY <1>4, <3>2, <3>3, <3>4, <3>5, <3>6, Zenon
  <2>2. CASE d = c
    <3>0. req[c].step # "idle" /\ applied[c] = 0
      <4>1. req[c].step # "idle" /\ req[c].status # 200
        <5>1. \/ req[c].step \in {"refresh", "fresh"}
              \/ req[c].step = "served" /\ req[c].status \in {401, 403}
          BY <1>4, ZenonT(30) DEF Rejected, FreshServed, FreshArrives, Unauthorized, FreshFails
        <5> QED
          BY <5>1 DEF HttpInv
      <4> QED
        BY <4>1, <1>0, <2>2, Zenon DEF Honest
    <3>1. CASE Rejected(c)
      <4>1. req'[c].step = "refresh" /\ req'[c].retried = FALSE
        BY <1>0, <2>2, <3>1 DEF Rejected, Reqs
      <4> QED
        BY <2>0, <2>2, <3>0, <4>1, Zenon DEF Honest
    <3>2. CASE FreshServed(c)
      <4>1. req'[c].step = "fresh" /\ req'[c].token = sessionToken
        BY <1>0, <2>2, <3>2, Zenon DEF FreshServed, Reqs
      <4> QED
        BY <2>0, <2>2, <3>0, <4>1, Zenon DEF Honest
    <3>3. CASE FreshArrives(c)
      <4>1. req'[c].step = "sent" /\ req'[c].token = req[c].token /\ disturbed' = disturbed
        BY <1>0, <3>3, Zenon DEF FreshArrives, Sent, historyVars
      <4>2. ~disturbed[c] => req[c].token = sessionToken
        BY <1>0, <2>2, <3>3, Zenon DEF FreshArrives, Honest
      <4> QED
        BY <2>0, <2>2, <3>0, <4>1, <4>2, Zenon DEF Honest
    <3>4. CASE Unauthorized(c)
      <4>1. req'[c].step = "held" /\ req'[c].retried = FALSE
        BY <1>0, <3>4 DEF Unauthorized, Idle
      <4> QED
        BY <2>0, <2>2, <3>0, <4>1, Zenon DEF Honest
    <3>5. CASE FreshFails(c)
      <4>1. disturbed'[c] = TRUE
        BY <3>5, Zenon DEF FreshFails, HttpInv, HttpTypeOK
      <4> QED
        BY <2>0, <2>2, <3>0, <4>1, Zenon DEF Honest
    <3> QED
      BY <1>4, <3>1, <3>2, <3>3, <3>4, <3>5, Zenon
  <2> QED
    BY <2>1, <2>2, Zenon
<1> QED
  BY <1>1, <1>2, <1>3, <1>4, Zenon DEF SilentHttp, TokenArrives, TokenFails

(* What the history implies is what the requests promise.                  *)
LEMMA HonestIsEnough ==
    ASSUME HttpInv, HistInv
    PROVE  AtMostOnce /\ RefusedOnlyIfDisturbed
<1>1. AtMostOnce
  <2> SUFFICES ASSUME NEW c \in Callers PROVE applied[c] <= 1
    BY Zenon DEF AtMostOnce
  <2>1. applied[c] = 0 \/ applied[c] = 1
    BY Zenon DEF HistInv, Honest
  <2> QED
    BY <2>1
<1>2. RefusedOnlyIfDisturbed
  BY DEF HistInv, Honest, RefusedOnlyIfDisturbed, Answers
<1> QED
  BY <1>1, <1>2, Zenon
-----------------------------------------------------------------------------

(* What a save may take with it: never a text that does not parse.         *)
SentForms ==
    IF Settings THEN SettingsForms \cup {NoForm}
                ELSE {f \in XrayForms : f.text.format # "broken"} \cup {NoForm}

TextMatches(f) ==
    ~Settings /\ f # NoForm /\ f.text.format # "broken" => f.template = f.text.value

(* What the server shows of its data is a view.                             *)
LEMMA ViewGood ==
    ASSUME NEW s \in Stores PROVE View(s) \in Views
BY Zenon DEF Stores, Views, View

(* A reformatted text says what it was made of.                             *)
LEMMA PrettyGood ==
    ASSUME NEW v \in Values
    PROVE  pretty(v) \in Texts /\ pretty(v).format = "pretty" /\ pretty(v).value = v
BY Zenon DEF pretty, Texts

(* A view becomes a form whose text and template agree.                     *)
LEMMA FormGood ==
    ASSUME NEW v \in Views
    PROVE  Form(v) \in Forms /\ TextMatches(Form(v)) /\ (~Settings => Form(v) \in XrayForms)
<1>1. CASE Settings
  <2>1. Form(v) \in SettingsForms
    BY <1>1, Zenon DEF Views, Form, SettingsForms
  <2> QED
    BY <1>1, <2>1, Zenon DEF Forms, TextMatches
<1>2. CASE ~Settings
  <2>1. v.template \in Values /\ v.url \in Values
    BY <1>2, Zenon DEF Views
  <2>2. Form(v) \in XrayForms
    BY <1>2, <2>1, PrettyGood, Zenon DEF Form, XrayForms
  <2>3. Form(v).template = Form(v).text.value
    BY <1>2, <2>1, PrettyGood, Zenon DEF Form
  <2> QED
    BY <1>2, <2>2, <2>3, Zenon DEF Forms, TextMatches
<1> QED
  BY <1>1, <1>2, Zenon

(* What a form shows is in the range of the refinement mapping.             *)
LEMMA ShownGood ==
    ASSUME NEW f \in Forms PROVE Shown(f) \in ShownForms
<1>1. CASE f = NoForm
  BY <1>1, Zenon DEF Shown, ShownForms
<1>2. CASE f # NoForm /\ Settings
  BY <1>2, Zenon DEF Shown, ShownForms, Forms
<1>3. CASE f # NoForm /\ ~Settings
  <2>1. f.text \in Texts /\ f.url \in Values \cup {Blank}
    BY <1>3, Zenon DEF Forms, XrayForms
  <2>2. normalizeOutboundTestUrl(f.url) \in Values
    BY <2>1, DefaultAssumption, Zenon DEF normalizeOutboundTestUrl
  <2> QED
    BY <1>3, <2>1, <2>2, Zenon DEF Shown, ShownForms
<1> QED
  BY <1>1, <1>2, <1>3, Zenon

(* An edit leaves a form whose text and template agree.                     *)
LEMMA EditsGood ==
    ASSUME draft \in Forms, draft # NoForm, TextMatches(draft),
           NEW f \in IF Settings THEN SettingsEdits ELSE XrayEdits
    PROVE  f \in Forms /\ TextMatches(f) /\ (~Settings => f \in XrayForms)
<1>1. CASE Settings
  <2>1. draft \in SettingsForms
    BY <1>1, Zenon DEF Forms
  <2>2. f \in SettingsForms
    <3>1. CASE \E v \in Values : f = [draft EXCEPT !.plain = v]
      BY <2>1, <3>1, Zenon DEF SettingsForms
    <3>2. CASE \E s \in Secrets \cup {Blank} : f = [draft EXCEPT !.secret = s, !.clear = FALSE]
      BY <2>1, <3>2, Zenon DEF SettingsForms
    <3>3. CASE f = [draft EXCEPT !.secret = Blank, !.clear = ~draft.clear]
      BY <2>1, <3>3, Zenon DEF SettingsForms
    <3> QED
      BY <1>1, <3>1, <3>2, <3>3, Zenon DEF SettingsEdits
  <2> QED
    BY <1>1, <2>2, Zenon DEF Forms, TextMatches
<1>2. CASE ~Settings
  <2>1. draft \in XrayForms
    BY <1>2, Zenon DEF Forms
  <2>2. CASE \E t \in Texts :
             f = [draft EXCEPT !.text = t, !.template = IF t.format = "broken" THEN @ ELSE t.value]
    <3>1. PICK t \in Texts :
             f = [draft EXCEPT !.text = t, !.template = IF t.format = "broken" THEN @ ELSE t.value]
      BY <2>2, Zenon
    <3>2. t.format # "broken" => t.value \in Values
      BY Zenon DEF Texts
    <3>3. f \in XrayForms /\ f.text = t /\ (t.format # "broken" => f.template = t.value)
      BY <2>1, <3>1, <3>2, Zenon DEF XrayForms
    <3> QED
      BY <1>2, <3>3, Zenon DEF Forms, TextMatches
  <2>3. CASE \E v \in Values : f = [draft EXCEPT !.text = pretty(v), !.template = v]
    <3>1. PICK v \in Values : f = [draft EXCEPT !.text = pretty(v), !.template = v]
      BY <2>3, Zenon
    <3>2. f \in XrayForms /\ f.text = pretty(v) /\ f.template = v
      BY <2>1, <3>1, PrettyGood, Zenon DEF XrayForms
    <3> QED
      BY <1>2, <3>2, PrettyGood, Zenon DEF Forms, TextMatches
  <2>4. CASE \E u \in Values \cup {Blank} : f = [draft EXCEPT !.url = u]
    <3>1. PICK u \in Values \cup {Blank} : f = [draft EXCEPT !.url = u]
      BY <2>4, Zenon
    <3>2. f \in XrayForms /\ f.text = draft.text /\ f.template = draft.template
      BY <2>1, <3>1, Zenon DEF XrayForms
    <3> QED
      BY <1>2, <3>2, Zenon DEF Forms, TextMatches
  <2> QED
    BY <1>2, <2>2, <2>3, <2>4, Zenon DEF XrayEdits
<1> QED
  BY <1>1, <1>2, Zenon

(* The template written out as text, by a save or a reset.                 *)
LEMMA RewrittenGood ==
    ASSUME ~Settings, draft \in XrayForms, NEW v \in Values
    PROVE  LET f == [draft EXCEPT !.text = pretty(v), !.template = v]
           IN  f \in XrayForms /\ f.text.format = "pretty" /\ TextMatches(f)
<1> DEFINE f == [draft EXCEPT !.text = pretty(v), !.template = v]
<1>1. f \in XrayForms /\ f.text = pretty(v) /\ f.template = v
  BY PrettyGood, Zenon DEF XrayForms
<1> QED
  BY <1>1, PrettyGood, Zenon DEF TextMatches

(* A save that is handled leaves data the server may hold.                  *)
LEMMA UpdatedGood ==
    ASSUME NEW s \in Stores, NEW f \in SentForms, f # NoForm
    PROVE  Updated(s, f) \in Stores
<1>1. CASE Settings
  <2>1. f \in SettingsForms /\ s.secret \in Secrets \cup {Blank}
    BY <1>1, Zenon DEF SentForms, Stores
  <2>2. Kept(s, f) \in Secrets \cup {Blank} /\ f.plain \in Values
    BY <2>1, Zenon DEF Kept, SettingsForms
  <2> QED
    BY <1>1, <2>2, Zenon DEF Updated, Stores
<1>2. CASE ~Settings
  <2>1. f.text.value \in Values /\ f.url \in Values \cup {Blank}
    BY <1>2, Zenon DEF SentForms, XrayForms, Texts
  <2>2. normalizeOutboundTestUrl(f.url) \in Values
    BY <2>1, DefaultAssumption, Zenon DEF normalizeOutboundTestUrl
  <2> QED
    BY <1>2, <2>1, <2>2, Zenon DEF Updated, Stores
<1> QED
  BY <1>1, <1>2, Zenon

-----------------------------------------------------------------------------
(* The steps of EditBuffer the pages take.                                 *)

(* What the next form shows depends on the form alone.                      *)
LEMMA ShownNext ==
    ASSUME world' = world
    PROVE  Shown(draft)' = Shown(draft')
BY Zenon DEF Shown, Settings

(* A change of the form by its user is a Type step.                         *)
LEMMA TypeStep ==
    ASSUME UNCHANGED <<world, told, baseline>>, baseline \in told, draft' \in Forms
    PROVE  Buffer!Next
<1>1. Shown(draft)' \in ShownForms
  BY ShownNext, ShownGood, Zenon
<1> QED
  BY <1>1, Zenon DEF Buffer!Next, Buffer!Type, isDirty

(* An answer that is adopted, or only noted, is a Learn step.               *)
LEMMA LearnStep ==
    ASSUME UNCHANGED world, NEW t \in ShownForms, told' = told \cup {t}, baseline' \in told',
           Shown(draft') = Shown(draft) \/ (~isDirty /\ Shown(draft') = t)
    PROVE  Buffer!Next
<1>1. Shown(draft)' = Shown(draft')
  BY ShownNext, Zenon
<1>2. (~isDirty)' => Shown(draft)' \in told'
  BY Zenon DEF isDirty
<1>3. (~isDirty)' \in BOOLEAN
  BY Zenon DEF isDirty
<1> QED
  BY <1>1, <1>2, <1>3, Zenon DEF Buffer!Next, Buffer!Learn

(* A step that leaves the form alone stutters.                              *)
LEMMA StutterStep ==
    ASSUME UNCHANGED <<world, draft, baseline, told>>
    PROVE  UNCHANGED Buffer!bufferVars
BY ShownNext, Zenon DEF Buffer!bufferVars, isDirty

-----------------------------------------------------------------------------
(* The invariant *)

PageInv ==
    /\ HttpInv /\ HistInv
    /\ store \in Stores
    /\ body \in [Callers -> Views \cup {NoForm}]
    /\ \A c \in Loads : req[c].status = 200 => body[c] \in Views
    /\ draft \in Forms /\ sent \in SentForms
    /\ req["save"].step # "idle" => sent # NoForm
    /\ req["reset"].step # "idle" => ~Settings /\ draft \in XrayForms
    /\ baseline \in told
    /\ TextMatches(draft)

(* The invariant and the abstract initial state hold at the start.          *)
LEMMA InitPage ==
    ASSUME Init
    PROVE  PageInv /\ Buffer!Init
<1>1. HttpInv
  <2>1. Idle \in Reqs /\ Idle.status = 0
    BY Zenon DEF Idle, Reqs, Steps, Statuses
  <2>2. /\ csrfToken \in Nat /\ metaToken \in Nat /\ sessionToken \in Nat \ {0}
        /\ csrfFetchPromise \in [step : {"none", "sent", "answered"}, token : Nat]
    BY DEF Init, HttpInit, NoPromise
  <2>3. sessionExpired \in BOOLEAN /\ loggedIn \in BOOLEAN
    BY Zenon DEF Init, HttpInit
  <2>4. /\ req \in [Callers -> Reqs] /\ applied \in [Callers -> Nat]
        /\ disturbed \in [Callers -> BOOLEAN]
    BY <2>1, Zenon DEF Init, HttpInit
  <2>5. HttpTypeOK
    BY <2>2, <2>3, <2>4, Zenon DEF HttpTypeOK, Reqs
  <2> QED
    BY <2>1, <2>5 DEF HttpInv, Init, HttpInit
<1>2. HistInv
  BY Zenon DEF Init, HttpInit, HistInv, Honest, Idle
<1>3. /\ body \in [Callers -> Views \cup {NoForm}]
      /\ \A c \in Loads : req[c].status # 200
      /\ req["save"].step = "idle" /\ req["reset"].step = "idle"
  BY RequestAssumption DEF Init, HttpInit, Loads, Idle
<1>4. /\ store \in Stores /\ draft \in Forms /\ sent \in SentForms
      /\ baseline \in told /\ TextMatches(draft)
  BY Zenon DEF Init, Forms, SentForms, TextMatches
<1>5. Buffer!Init
  BY Zenon DEF Init, Buffer!Init, Shown, isDirty, ShownForms
<1> QED
  BY <1>1, <1>2, <1>3, <1>4, <1>5, Zenon DEF PageInv

(* The rest of the invariant follows from what a step does to it.          *)
LEMMA PageKept ==
    ASSUME PageInv, HttpInv', HistInv', UNCHANGED world,
           store' \in Stores,
           body' \in [Callers -> Views \cup {NoForm}],
           \A c \in Loads : req'[c].status = 200 => body'[c] \in Views,
           draft' \in Forms, TextMatches(draft'), sent' \in SentForms,
           req'["save"].step # "idle" => sent' # NoForm,
           req'["reset"].step # "idle" => ~Settings /\ draft' \in XrayForms,
           baseline' \in told'
    PROVE  PageInv'
<1>1. Stores' = Stores /\ Views' = Views /\ Forms' = Forms /\ SentForms' = SentForms
  BY Zenon DEF Stores, Views, Forms, SentForms, Settings
<1>2. TextMatches(draft)' /\ (Settings' <=> Settings)
  BY Zenon DEF TextMatches, Settings
<1> QED
  BY <1>1, <1>2, Zenon DEF PageInv

(* A step that leaves the page alone keeps the invariant.                   *)
LEMMA PageSame ==
    ASSUME PageInv, HttpInv', HistInv',
           UNCHANGED <<world, store, body, draft, baseline, sent, told>>,
           \A c \in Loads : req'[c].status = 200 => req[c].status = 200,
           \A c \in {"save", "reset"} : req[c].step = "idle" => req'[c].step = "idle"
    PROVE  PageInv'
<1>1. /\ \A c \in Loads : req'[c].status = 200 => body'[c] \in Views
      /\ req'["save"].step # "idle" => sent' # NoForm
      /\ req'["reset"].step # "idle" => ~Settings /\ draft' \in XrayForms
  BY DEF PageInv
<1>2. /\ store' \in Stores /\ body' \in [Callers -> Views \cup {NoForm}]
      /\ draft' \in Forms /\ TextMatches(draft') /\ sent' \in SentForms /\ baseline' \in told'
  BY Zenon DEF PageInv
<1> QED
  BY <1>1, <1>2, PageKept, Zenon

(* A step that leaves the requests alone keeps what is said of them.        *)
LEMMA HttpSame ==
    ASSUME HttpInv, HistInv, UNCHANGED httpVars
    PROVE  HttpInv' /\ HistInv' /\ req' = req
<1>1. HttpInv'
  BY Zenon DEF httpVars, HttpInv, HttpTypeOK
<1>2. HistInv' /\ req' = req
  BY DEF httpVars, HistInv, Honest
<1> QED
  BY <1>1, <1>2, Zenon

(* A caller's request, after its own step or as the end of another's.      *)
LEMMA RequestPage ==
    ASSUME PageInv, NEW c \in Callers, NEW x \in Callers, NEW r, r = req \/ r = Resumed(x),
           Request(r, c)
    PROVE  /\ HttpInv' /\ HistInv'
           /\ \A d \in Callers : req'[d].status = 200 => d # c /\ req'[d] = req[d] /\ r[d] = req[d]
           /\ \A d \in Callers \ {c} : req'[d] = r[d]
<1>1. req \in [Callers -> Reqs] /\ HttpInv /\ HistInv
  BY Zenon DEF PageInv, HttpInv, HttpTypeOK, Reqs
<1>2. /\ r \in [Callers -> Reqs]
      /\ \A d \in Callers : r[d].status = 200 => r[d].step = "served" /\ r[d] = req[d]
      /\ \A d \in Callers : r[d] = req[d] \/ r[d] = Idle
  <2>1. CASE r = req
    BY <1>1, <2>1, Zenon DEF HttpInv
  <2>2. CASE r = Resumed(x)
    <3>1. r[x] = Idle
      BY <1>1, <2>2, Zenon DEF Resumed
    <3> QED
      BY <1>1, <2>2, <3>1, ResumedGood
  <2> QED
    BY <2>1, <2>2, Zenon
<1>3. /\ HttpInv' /\ req'[c].status # 200
      /\ \A d \in Callers \ {c} : req'[d] = r[d]
  BY <1>1, <1>2, RequestKeeps
<1>4. HistInv'
  BY <1>1, <1>2, RequestHonest, Zenon
<1> QED
  BY <1>2, <1>3, <1>4

(* A caller that takes its answer, seen from the page.                      *)
LEMMA ResumePage ==
    ASSUME PageInv, NEW c \in Callers, Resume(c)
    PROVE  /\ HttpInv' /\ HistInv'
           /\ \A d \in Callers : req'[d].status = 200 => d # c /\ req'[d] = req[d]
           /\ \A d \in Callers \ {c} : req'[d] = req[d]
           /\ req'[c].step = "idle"
<1>1. /\ HttpInv' /\ req'[c].status # 200 /\ \A d \in Callers \ {c} : req'[d] = req[d]
  BY ResumeKeeps, Zenon DEF PageInv
<1>2. HistInv'
  BY ResumeHonest, Zenon DEF PageInv
<1>3. req'[c].step = "idle"
  BY Zenon DEF Resume, Resumed, Idle, PageInv, HttpInv, HttpTypeOK
<1> QED
  BY <1>1, <1>2, <1>3

(* The answer that was read is put away.                                    *)
LEMMA ReadGood ==
    ASSUME PageInv, NEW c \in Callers, Read(c)
    PROVE  /\ body' \in [Callers -> Views \cup {NoForm}]
           /\ \A d \in Callers \ {c} : body'[d] = body[d]
BY Zenon DEF Read, PageInv

(* The callers of the page.                                                 *)
LEMMA Places ==
    /\ "save" \in Callers /\ "reset" \in Callers /\ Loads \subseteq Callers
    /\ "save" \notin Loads /\ "reset" \notin Loads
BY RequestAssumption, Zenon DEF Loads

-----------------------------------------------------------------------------
(* The answers *)

(* Each action keeps the invariant and is a step of EditBuffer or none.    *)
Implements == PageInv' /\ (Buffer!Next \/ UNCHANGED Buffer!bufferVars)

(* A load answered: adopted if the form is clean.                           *)
LEMMA LoadedStep ==
    ASSUME PageInv, NEW c \in Loads, Loaded(c) PROVE Implements
<1>0. c \in Callers /\ UNCHANGED <<world, store, sent>>
  BY Places, Zenon DEF Loaded
<1>1. /\ HttpInv' /\ HistInv' /\ req'["save"] = req["save"] /\ req'["reset"] = req["reset"]
      /\ \A d \in Callers : req'[d].status = 200 => d # c /\ req'[d] = req[d]
  BY <1>0, ResumePage, Places DEF Loaded
<1>2. /\ body' \in [Callers -> Views \cup {NoForm}]
      /\ \A d \in Callers \ {c} : body'[d] = body[d]
  BY <1>0, ReadGood DEF Loaded
<1>3. \A d \in Loads : req'[d].status = 200 => body'[d] \in Views
  BY <1>1, <1>2, Places DEF PageInv
<1>4. store' \in Stores /\ sent' \in SentForms /\ (req'["save"].step # "idle" => sent' # NoForm)
  BY <1>0, <1>1, Zenon DEF PageInv
<1>5. CASE load # c
  <2>1. UNCHANGED <<told, draft, baseline>>
    BY <1>5, Zenon DEF Loaded
  <2>2. PageInv'
    BY <1>0, <1>1, <1>2, <1>3, <1>4, <2>1, PageKept, Zenon DEF PageInv
  <2> QED
    BY <1>0, <2>1, <2>2, StutterStep, Zenon DEF Implements
<1>6. CASE load = c
  <2> DEFINE view == body[c]
             t == Shown(Form(view))
  <2>0. Adopt(view) /\ req[c].status = 200
    BY <1>6, Zenon DEF Loaded
  <2>1. Adopt(view) /\ view \in Views
    BY <2>0 DEF PageInv
  <2>2. /\ Form(view) \in Forms /\ TextMatches(Form(view)) /\ t \in ShownForms
        /\ ~Settings => Form(view) \in XrayForms
    BY <2>1, FormGood, ShownGood, Zenon
  <2> HIDE DEF view
  <2>3. told' = told \cup {t} /\ baseline' \in {baseline, t}
    BY <2>1, Zenon DEF Adopt
  <2>4. draft' = draft \/ (~isDirty /\ draft' = Form(view))
    BY <2>1, Zenon DEF Adopt
  <2>5. baseline' \in told' /\ draft' \in Forms /\ TextMatches(draft')
    BY <2>2, <2>3, <2>4, Zenon DEF PageInv
  <2>6. req'["reset"].step # "idle" => ~Settings /\ draft' \in XrayForms
    BY <1>1, <2>2, <2>4, Zenon DEF PageInv
  <2>7. PageInv'
    BY <1>0, <1>1, <1>2, <1>3, <1>4, <2>5, <2>6, PageKept, Zenon
  <2>8. Buffer!Next
    BY <1>0, <2>2, <2>3, <2>4, <2>5, LearnStep, Zenon
  <2> QED
    BY <2>7, <2>8, Zenon DEF Implements
<1> QED
  BY <1>5, <1>6, Zenon

(* A load that fails, tried again or given up.                              *)
LEMMA LoadFailsStep ==
    ASSUME PageInv, NEW c \in Loads, LoadFails(c) PROVE Implements
<1>0. c \in Callers /\ UNCHANGED <<world, store, draft, baseline, sent, told>>
  BY Places, Zenon DEF LoadFails
<1>1. Request(Resumed(c), c) \/ Resume(c)
  BY Zenon DEF LoadFails
<1>2. \A d \in Callers \ {c} : Resumed(c)[d] = req[d]
  BY <1>0, ResumedGood, Zenon DEF PageInv
<1>3. /\ HttpInv' /\ HistInv' /\ req'["save"] = req["save"] /\ req'["reset"] = req["reset"]
      /\ \A d \in Callers : req'[d].status = 200 => d # c /\ req'[d] = req[d]
  <2>1. CASE Request(Resumed(c), c)
    BY <1>0, <1>2, <2>1, RequestPage, Places
  <2>2. CASE Resume(c)
    BY <1>0, <2>2, ResumePage, Places
  <2> QED
    BY <1>1, <2>1, <2>2, Zenon
<1>4. /\ body' \in [Callers -> Views \cup {NoForm}]
      /\ \A d \in Callers \ {c} : body'[d] = body[d]
  BY <1>0, ReadGood, Zenon, Zenon DEF LoadFails
<1>5. \A d \in Loads : req'[d].status = 200 => body'[d] \in Views
  BY <1>3, <1>4, Places DEF PageInv
<1>6. PageInv'
  BY <1>0, <1>3, <1>4, <1>5, PageKept, Zenon DEF PageInv
<1> QED
  BY <1>0, <1>6, StutterStep, Zenon DEF Implements

(* A save answered: the baseline moves to what was sent.                    *)
LEMMA SavedStep ==
    ASSUME PageInv, Saved PROVE Implements
<1>1. /\ UNCHANGED <<world, store, draft>> /\ sent' = NoForm /\ baseline' = Shown(sent)
      /\ told' = told \cup {Shown(sent)}
      /\ \E c \in Loads : Request(Resumed("save"), c)
  BY Zenon DEF Saved, Fetch
<1>2. PICK c \in Loads : Request(Resumed("save"), c)
  BY <1>1, Zenon
<1>3. /\ Resumed("save")["save"] = Idle
      /\ \A d \in Callers \ {"save"} : Resumed("save")[d] = req[d]
  BY Places, Zenon DEF PageInv, HttpInv, HttpTypeOK, Resumed
<1>4. /\ HttpInv' /\ HistInv' /\ req'["save"] = Idle /\ req'["reset"] = req["reset"]
      /\ \A d \in Callers : req'[d].status = 200 => req'[d] = req[d]
  BY <1>2, <1>3, RequestPage, Places
<1>5. /\ body' \in [Callers -> Views \cup {NoForm}]
      /\ \A d \in Callers \ {"save"} : body'[d] = body[d]
  BY ReadGood, Places, Zenon DEF Saved
<1>6. \A d \in Loads : req'[d].status = 200 => body'[d] \in Views
  BY <1>4, <1>5, Places DEF PageInv
<1>7. sent' \in SentForms /\ req'["save"].step = "idle"
  BY <1>1, <1>4 DEF SentForms, Idle
<1>8. PageInv'
  BY <1>1, <1>4, <1>5, <1>6, <1>7, PageKept, Zenon DEF PageInv
<1>9. Shown(sent) \in ShownForms
  BY ShownGood, Zenon DEF PageInv, SentForms, Forms
<1> QED
  BY <1>1, <1>8, <1>9, LearnStep, Zenon DEF Implements

(* A save that fails leaves the form unsaved.                               *)
LEMMA SaveFailsStep ==
    ASSUME PageInv, SaveFails PROVE Implements
<1>1. /\ UNCHANGED <<world, store, draft, baseline, told>> /\ sent' = NoForm
      /\ Resume("save")
  BY Zenon DEF SaveFails
<1>2. /\ HttpInv' /\ HistInv' /\ req'["save"].step = "idle" /\ req'["reset"] = req["reset"]
      /\ \A d \in Callers : req'[d].status = 200 => req'[d] = req[d]
  BY <1>1, ResumePage, Places
<1>3. /\ body' \in [Callers -> Views \cup {NoForm}]
      /\ \A d \in Callers \ {"save"} : body'[d] = body[d]
  BY ReadGood, Places, Zenon DEF SaveFails
<1>4. sent' \in SentForms /\ \A d \in Loads : req'[d].status = 200 => body'[d] \in Views
  BY <1>1, <1>2, <1>3, Places DEF PageInv, SentForms
<1>5. PageInv'
  BY <1>1, <1>2, <1>3, <1>4, PageKept, Zenon, Zenon DEF PageInv
<1> QED
  BY <1>1, <1>5, StutterStep, Zenon DEF Implements

(* The default template arrives, or does not.                               *)
LEMMA ResetEndsStep ==
    ASSUME PageInv, ResetAnswered \/ ResetFails PROVE Implements
<1>1. /\ UNCHANGED <<world, store, baseline, sent, told>>
      /\ Resume("reset") /\ Read("reset")
  BY Zenon DEF ResetAnswered, ResetFails
<1>2. /\ HttpInv' /\ HistInv' /\ req'["reset"].step = "idle" /\ req'["save"] = req["save"]
      /\ \A d \in Callers : req'[d].status = 200 => req'[d] = req[d]
  BY <1>1, ResumePage, Places
<1>3. /\ body' \in [Callers -> Views \cup {NoForm}]
      /\ \A d \in Callers \ {"reset"} : body'[d] = body[d]
  BY <1>1, ReadGood, Places, Zenon
<1>4. \A d \in Loads : req'[d].status = 200 => body'[d] \in Views
  BY <1>2, <1>3, Places DEF PageInv
<1>5. draft' \in Forms /\ TextMatches(draft')
  <2>1. CASE draft' = draft
    BY <2>1, Zenon DEF PageInv
  <2>2. CASE /\ req["reset"].step # "idle"
             /\ draft' = [draft EXCEPT !.text = pretty(Default), !.template = Default]
    <3>1. ~Settings /\ draft \in XrayForms
      BY <2>2, Zenon DEF PageInv
    <3> QED
      BY <2>2, <3>1, RewrittenGood, DefaultAssumption, Zenon DEF Forms
  <2> QED
    BY <2>1, <2>2, Zenon DEF ResetAnswered, ResetFails, Answers
<1>6. PageInv'
  BY <1>1, <1>2, <1>3, <1>4, <1>5, PageKept, Zenon DEF PageInv
<1> QED
  BY <1>1, <1>5, <1>6, TypeStep, Zenon DEF Implements, PageInv
-------------------------------------------------------------------------------
(* The first load, and a refresh.                                           *)
LEMMA MountStep ==
    ASSUME PageInv, Mount \/ Refresh PROVE Implements
<1>1. /\ UNCHANGED <<world, store, body, draft, baseline, sent, told>>
      /\ \E c \in Loads : Request(req, c)
  BY Zenon DEF Mount, Refresh, Fetch
<1>2. PICK c \in Loads : Request(req, c)
  BY <1>1, Zenon
<1>3. /\ HttpInv' /\ HistInv' /\ req'["save"] = req["save"] /\ req'["reset"] = req["reset"]
      /\ \A d \in Loads : req'[d].status = 200 => req'[d] = req[d]
  BY <1>2, RequestPage, Places, SMTT(20)
<1>4. PageInv'
  <2>1. \A d \in Loads : req'[d].status = 200 => req[d].status = 200
    BY <1>3, Zenon
  <2>2. \A d \in {"save", "reset"} : req[d].step = "idle" => req'[d].step = "idle"
    BY <1>3, Zenon
  <2> QED
    BY <1>1, <1>3, <2>1, <2>2, PageSame, Zenon
<1> QED
  BY <1>1, <1>4, StutterStep, Zenon DEF Implements

(* The user types.                                                          *)
LEMMA EditStep ==
    ASSUME PageInv, Edit PROVE Implements
<1>1. UNCHANGED <<httpVars, world, store, body, baseline, sent, told>>
  BY Zenon DEF Edit
<1>2. /\ draft' \in Forms /\ TextMatches(draft')
      /\ ~Settings => draft' \in XrayForms
  BY EditsGood, Zenon DEF Edit, PageInv
<1>3. HttpInv' /\ HistInv' /\ req' = req
  BY <1>1, HttpSame, Zenon DEF PageInv
<1>4. PageInv'
  BY <1>1, <1>2, <1>3, PageKept, Zenon DEF PageInv
<1> QED
  BY <1>1, <1>2, <1>4, TypeStep, Zenon DEF Implements, PageInv

(* The user saves: the text is rewritten from the template.                 *)
LEMMA SaveStep ==
    ASSUME PageInv, Save PROVE Implements
<1>1. UNCHANGED <<world, store, body, baseline, told>> /\ Request(req, "save")
  BY Zenon DEF Save
<1>2. /\ HttpInv' /\ HistInv' /\ req'["reset"] = req["reset"]
      /\ \A d \in Callers : req'[d].status = 200 => req'[d] = req[d]
  BY <1>1, RequestPage, Places
<1>3. /\ draft' \in Forms /\ TextMatches(draft') /\ draft' \in SentForms /\ draft' # NoForm
      /\ ~Settings => draft' \in XrayForms
  <2>1. CASE Settings
    BY <2>1, Zenon DEF Save, Forms, SentForms, PageInv, TextMatches
  <2>2. CASE ~Settings
    <3>1. draft \in XrayForms /\ draft # NoForm
      BY <2>2, Zenon DEF Save, Forms, PageInv
    <3>2. draft.template \in Values
      BY <3>1, Zenon DEF XrayForms
    <3>3. draft' = [draft EXCEPT !.text = pretty(draft.template), !.template = draft.template]
      BY <2>2, <3>1, Zenon DEF Save, XrayForms
    <3>4. draft' \in XrayForms /\ draft'.text.format = "pretty" /\ TextMatches(draft')
      BY <2>2, <3>1, <3>2, <3>3, RewrittenGood, Zenon
    <3> QED
      BY <2>2, <3>4, FormAssumption, Zenon DEF Forms, SentForms
  <2> QED
    BY <2>1, <2>2, Zenon
<1>4. PageInv'
  BY <1>1, <1>2, <1>3, PageKept, Places DEF PageInv, Save
<1> QED
  BY <1>1, <1>3, <1>4, TypeStep, Zenon DEF Implements, PageInv

(* The user asks for the default template.                                  *)
LEMMA ResetStep ==
    ASSUME PageInv, Reset PROVE Implements
<1>1. /\ UNCHANGED <<world, store, body, draft, baseline, sent, told>> /\ ~Settings
      /\ draft # NoForm /\ Request(req, "reset")
  BY SMTT(30) DEF Reset
<1>2. /\ HttpInv' /\ HistInv' /\ req'["save"] = req["save"]
      /\ \A d \in Callers : req'[d].status = 200 => req'[d] = req[d]
  BY <1>1, RequestPage, Places
<1>3. draft' \in XrayForms
  BY <1>1, Zenon DEF PageInv, Forms
<1>4. /\ \A d \in Loads : req'[d].status = 200 => body'[d] \in Views
      /\ req'["save"].step # "idle" => sent' # NoForm
  BY <1>1, <1>2, Places DEF PageInv
<1>5. PageInv'
  BY <1>1, <1>2, <1>3, <1>4, PageKept, Zenon DEF PageInv
<1> QED
  BY <1>1, <1>5, StutterStep, Zenon DEF Implements

(* The answer put down for c: a view, or for a save that is refused none.  *)
Bodied(c) == \/ \E b \in Views : body' = [body EXCEPT ![c] = b]
             \/ c \notin Loads /\ body' = [body EXCEPT ![c] = NoForm]

(* An answer put down for a caller keeps what is known of answers.          *)
LEMMA BodyGood ==
    ASSUME PageInv, NEW c \in Callers, Bodied(c), \A d \in Callers \ {c} : req'[d] = req[d]
    PROVE  /\ body' \in [Callers -> Views \cup {NoForm}]
           /\ \A d \in Loads : req'[d].status = 200 => body'[d] \in Views
<1>1. body \in [Callers -> Views \cup {NoForm}]
  BY Zenon DEF PageInv
<1>2. /\ body' \in [Callers -> Views \cup {NoForm}]
      /\ c \in Loads => body'[c] \in Views
      /\ \A d \in Callers \ {c} : body'[d] = body[d]
  BY <1>1, Zenon DEF Bodied
<1>3. ASSUME NEW d \in Loads, req'[d].status = 200 PROVE body'[d] \in Views
  <2>1. CASE d = c
    BY <1>2, <2>1, Zenon
  <2>2. CASE d # c
    <3>1. req[d].status = 200 => body[d] \in Views
      BY Zenon DEF PageInv
    <3> QED
      BY <1>2, <1>3, <2>2, <3>1, Places
  <2> QED
    BY <2>1, <2>2, Zenon
<1> QED
  BY <1>2, <1>3, Zenon

(* The server handles a request and puts down its answer.                   *)
LEMMA HandleStep ==
    ASSUME PageInv, NEW c \in Callers, Handle(c) PROVE Implements
<1>1. UNCHANGED <<world, draft, baseline, sent, told>> /\ Serve(c) /\ req[c].step = "sent"
  BY Zenon DEF Handle, Serve
<1>2. HttpInv' /\ HistInv' /\ \A d \in Callers \ {c} : req'[d] = req[d]
  BY <1>1, ServeKeeps, ServeHonest, Zenon, Zenon DEF PageInv
<1>3. CASE c = "save" /\ store' = Updated(store, sent) /\ body' = [body EXCEPT ![c] = View(store')]
  <2>1. store' \in Stores
    BY <1>1, <1>3, UpdatedGood, Zenon DEF PageInv
  <2>2. View(store') \in Views
    BY <2>1, ViewGood, Zenon
  <2>3. /\ body' \in [Callers -> Views \cup {NoForm}]
        /\ \A d \in Loads : req'[d].status = 200 => body'[d] \in Views
    <3>1. Bodied(c)
      BY <1>3, <2>2, Zenon, Zenon DEF Bodied
    <3> QED
      BY <1>2, <3>1, BodyGood, Zenon
  <2>4. req'["reset"] = req["reset"] /\ sent' # NoForm
    BY <1>1, <1>2, <1>3, Places, Zenon DEF PageInv
  <2> QED
    BY <1>1, <1>2, <2>1, <2>3, <2>4, PageKept, StutterStep, Zenon DEF Implements, PageInv
<1>4. CASE c = "save" /\ store' = store /\ body' = [body EXCEPT ![c] = NoForm]
  <2>1. /\ body' \in [Callers -> Views \cup {NoForm}]
        /\ \A d \in Loads : req'[d].status = 200 => body'[d] \in Views
    <3>1. Bodied(c)
      BY <1>4, Places, Zenon DEF Bodied
    <3> QED
      BY <1>2, <3>1, BodyGood, Zenon
  <2>2. req'["reset"] = req["reset"] /\ sent' # NoForm
    BY <1>1, <1>2, <1>4, Places, Zenon DEF PageInv
  <2> QED
    BY <1>1, <1>2, <1>4, <2>1, <2>2, PageKept, StutterStep, Zenon DEF Implements, PageInv
<1>5. CASE store' = store /\ body' = [body EXCEPT ![c] = View(store)]
  <2>1. View(store) \in Views
    BY ViewGood, Zenon DEF PageInv
  <2>2. /\ body' \in [Callers -> Views \cup {NoForm}]
        /\ \A d \in Loads : req'[d].status = 200 => body'[d] \in Views
    <3>1. Bodied(c)
      BY <1>5, <2>1, Zenon DEF Bodied
    <3> QED
      BY <1>2, <3>1, BodyGood, Zenon
  <2>3. /\ req'["save"].step # "idle" => sent' # NoForm
        /\ req'["reset"].step # "idle" => ~Settings /\ draft' \in XrayForms
    BY <1>1, <1>2, Places, Zenon DEF PageInv
  <2> QED
    BY <1>1, <1>2, <1>5, <2>2, <2>3, PageKept, StutterStep, Zenon DEF Implements, PageInv
<1> QED
  BY <1>3, <1>4, <1>5, Zenon DEF Handle

(* Another admin saves.                                                     *)
LEMMA OtherSavesStep ==
    ASSUME PageInv, OtherSaves PROVE Implements
<1>1. UNCHANGED <<httpVars, world, body, draft, baseline, sent, told>> /\ store' \in Stores
  BY Zenon DEF OtherSaves
<1>2. HttpInv' /\ HistInv' /\ req' = req
  BY <1>1, HttpSame, Zenon DEF PageInv
<1> QED
  BY <1>1, <1>2, PageKept, StutterStep, Zenon DEF Implements, PageInv

(* A step of the HTTP layer no caller sees.                                 *)
LEMMA SilentStep ==
    ASSUME PageInv, Silent PROVE Implements
<1>1. UNCHANGED <<world, store, body, draft, baseline, sent, told>> /\ SilentHttp
  BY Zenon DEF Silent, SilentHttp
<1>2. /\ HttpInv' /\ HistInv'
      /\ \A c \in Callers : req'[c].status = 200 => req[c].status = 200
      /\ \A c \in Callers : req[c].step = "idle" => req'[c].step = "idle"
  BY <1>1, SilentKeeps, SilentHonest, Zenon DEF PageInv
<1>3. PageInv'
  <2>1. \A c \in Loads : req'[c].status = 200 => req[c].status = 200
    BY <1>2, Places
  <2>2. \A c \in {"save", "reset"} : req[c].step = "idle" => req'[c].step = "idle"
    BY <1>2, Places
  <2> QED
    BY <1>1, <1>2, <2>1, <2>2, PageSame, Zenon
<1> QED
  BY <1>1, <1>3, StutterStep, Zenon DEF Implements

(* A step that changes nothing.                                             *)
LEMMA StutterPage ==
    ASSUME PageInv, UNCHANGED vars PROVE Implements
<1>1. UNCHANGED <<httpVars, world, store, body, draft, baseline, sent, told>>
  BY Zenon DEF vars, pageVars
<1>2. HttpInv' /\ HistInv' /\ req' = req
  BY <1>1, HttpSame, Zenon DEF PageInv
<1> QED
  BY <1>1, <1>2, PageKept, StutterStep, Zenon DEF Implements, PageInv

(* Every step of the page.                                                  *)
LEMMA PageStep ==
    ASSUME PageInv, [Next]_vars PROVE Implements
BY MountStep, LoadedStep, LoadFailsStep, EditStep, SaveStep, SavedStep, SaveFailsStep, ResetStep,
   ResetEndsStep, HandleStep, OtherSavesStep, SilentStep, StutterPage DEF Next

-----------------------------------------------------------------------------
(* The editing pages implement EditBuffer: no answer, refetch, failure or  *)
(* change of session, in any order and number, changes an unsaved form,    *)
(* and the Save button is off only while the form is one the server said   *)
(* it holds (useServerDraft, useXraySetting).                              *)
THEOREM PagesImplementBuffer == Spec => EditsSafe
<1>1. Init => PageInv /\ Buffer!Init
  BY InitPage, Zenon
<1>2. PageInv /\ [Next]_vars => PageInv' /\ [Buffer!Next]_(Buffer!bufferVars)
  BY PageStep, Zenon DEF Implements
<1> QED
  BY <1>1, <1>2, PTL DEF Spec, EditsSafe, Buffer!Spec

(* For any callers and any number of refusals, faults and new sessions, a  *)
(* request is handled once at most (httpRequest's retry).                  *)
THEOREM HandledOnce == Spec => []AtMostOnce
<1>1. Init => PageInv
  BY InitPage, Zenon
<1>2. PageInv /\ [Next]_vars => PageInv'
  BY PageStep, Zenon DEF Implements
<1>3. PageInv => AtMostOnce
  BY HonestIsEnough, Zenon DEF PageInv
<1> QED
  BY <1>1, <1>2, <1>3, PTL DEF Spec

(* A request is refused for good only if the session changed, or a token   *)
(* request failed, while it was under way (ensureCsrfToken, httpRequest).  *)
THEOREM StaleTokensReplaced == Spec => []RefusedOnlyIfDisturbed
<1>1. Init => PageInv
  BY InitPage, Zenon
<1>2. PageInv /\ [Next]_vars => PageInv'
  BY PageStep, Zenon DEF Implements
<1>3. PageInv => RefusedOnlyIfDisturbed
  BY HonestIsEnough, Zenon DEF PageInv
<1> QED
  BY <1>1, <1>2, <1>3, PTL DEF Spec

(* The tabs' template and the text that is saved agree while the text      *)
(* parses (setXraySetting, setTemplateSettings, resetDefaultMut).          *)
THEOREM TemplateKeepsText == Spec => []TemplateIsText
<1>1. Init => PageInv
  BY InitPage, Zenon
<1>2. PageInv /\ [Next]_vars => PageInv'
  BY PageStep, Zenon DEF Implements
<1>3. PageInv => TemplateIsText
  BY Zenon DEF PageInv, TextMatches, TemplateIsText
<1> QED
  BY <1>1, <1>2, <1>3, PTL DEF Spec
=============================================================================

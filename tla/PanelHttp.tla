------------------------------ MODULE PanelHttp ------------------------------
(***************************************************************************)
(* The panel page's HTTP layer (src/frontend/src/api/http-init.ts) and the *)
(* session checks it meets on the server (controller/api.go checkAPIAuth,  *)
(* middleware/security.go CSRFMiddleware, session/csrf.go).                *)
(*                                                                         *)
(* Several requests of one page may be under way, and share the token      *)
(* cache: csrfToken, the page's meta tag and one token request.  A caller  *)
(* is a place in the page that sends at most one request at a time.        *)
(***************************************************************************)
EXTENDS Integers, FiniteSets

CONSTANTS Callers,      \* places of the page that send requests
          SafeCallers   \* those whose method needs no CSRF token (GET)

ASSUME CallerAssumption == SafeCallers \subseteq Callers

VARIABLES csrfToken,        \* 0: null
          metaToken,        \* readMetaToken(), fixed when the page was served
          csrfFetchPromise, \* the shared token request: its step and answer
          sessionExpired,
          req,              \* per caller, its request
          sessionToken,     \* the token of the browser's session on the server
          loggedIn,         \* whether that session is logged in
          applied,          \* history: how often the caller's request was handled
          disturbed         \* history: the session changed, or a token request
                            \* failed, while the caller's request was under way

httpVars == <<csrfToken, metaToken, csrfFetchPromise, sessionExpired, req,
              sessionToken, loggedIn, applied, disturbed>>
serverVars == <<sessionToken, loggedIn>>
historyVars == <<applied, disturbed>>
cacheVars == <<csrfToken, csrfFetchPromise>>

Steps == {"idle", "token", "sent", "served", "refresh", "fresh", "held"}
Statuses == {0, 200, 401, 403}   \* 0: none yet
Idle == [step |-> "idle", token |-> 0, status |-> 0, retried |-> FALSE]
Sent(t, again) == [step |-> "sent", token |-> t, status |-> 0, retried |-> again]
Served(r, status) == [r EXCEPT !.step = "served", !.status = status]
NoPromise == [step |-> "none", token |-> 0]

HttpTypeOK ==
    /\ csrfToken \in Nat /\ metaToken \in Nat /\ sessionToken \in Nat \ {0}
    /\ csrfFetchPromise \in [step : {"none", "sent", "answered"}, token : Nat]
    /\ sessionExpired \in BOOLEAN /\ loggedIn \in BOOLEAN
    /\ req \in [Callers -> [step : Steps, token : Nat, status : Statuses,
                            retried : BOOLEAN]]
    /\ applied \in [Callers -> Nat]
    /\ disturbed \in [Callers -> BOOLEAN]

(* The shell is served with the session's token in a meta tag, or without  *)
(* one; setupHttp reads it.                                                *)
HttpInit ==
    /\ sessionToken = 1 /\ loggedIn = TRUE
    /\ metaToken \in {0, 1}
    /\ csrfToken = metaToken
    /\ csrfFetchPromise = NoPromise
    /\ sessionExpired = FALSE
    /\ req = [c \in Callers |-> Idle]
    /\ applied = [c \in Callers |-> 0]
    /\ disturbed = [c \in Callers |-> FALSE]

-----------------------------------------------------------------------------
(* ensureCsrfToken as far as it goes without waiting. *)
Ensured == IF csrfToken # 0 THEN csrfToken ELSE metaToken

(* performFetch: an unsafe request without a token at hand waits for the   *)
(* shared token request.                                                   *)
performFetch(c) ==
    IF c \in SafeCallers THEN Sent(0, FALSE)
    ELSE IF Ensured # 0 THEN Sent(Ensured, FALSE)
    ELSE [Idle EXCEPT !.step = "token"]

(* The history of a request ends with it. *)
Forget(cs) ==
    /\ applied' = [c \in Callers |-> IF c \in cs THEN 0 ELSE applied[c]]
    /\ disturbed' = [c \in Callers |-> c \notin cs /\ disturbed[c]]

(* httpRequest starts for c; r is req as the caller's step leaves it.      *)
Request(r, c) ==
    /\ r[c] = Idle
    /\ req' = [r EXCEPT ![c] = performFetch(c)]
    /\ csrfToken' = IF c \in SafeCallers THEN csrfToken ELSE Ensured
    /\ csrfFetchPromise' = IF performFetch(c).step = "token" /\ csrfFetchPromise = NoPromise
                           THEN [step |-> "sent", token |-> 0] ELSE csrfFetchPromise
    /\ Forget({d \in Callers : r[d] = Idle})
    /\ UNCHANGED <<metaToken, sessionExpired, serverVars>>

(* GET /csrf-token answers with the session's token (EnsureCSRFToken).     *)
TokenServed ==
    /\ csrfFetchPromise.step = "sent"
    /\ csrfFetchPromise' = [step |-> "answered", token |-> sessionToken]
    /\ UNCHANGED <<csrfToken, metaToken, sessionExpired, req, serverVars, historyVars>>

\* Mutant: whoever waited goes on only if the token came.
TokenKnownIfFetched(fetched) ==
    /\ csrfToken' = IF fetched # 0 THEN fetched ELSE csrfToken
    /\ csrfFetchPromise' = NoPromise
    /\ req' = [c \in Callers |-> IF req[c].step = "token" /\ fetched # 0
                                 THEN Sent(fetched, FALSE) ELSE req[c]]
    /\ UNCHANGED <<metaToken, sessionExpired, serverVars, historyVars>>

(* The rest of ensureCsrfToken, for everyone who waited: the answer, if    *)
(* there is one, becomes csrfToken, and what csrfToken then holds is sent. *)
TokenKnown(fetched) ==
    LET t == IF fetched # 0 THEN fetched ELSE csrfToken
    IN  /\ csrfToken' = t
        /\ csrfFetchPromise' = NoPromise
        /\ req' = [c \in Callers |-> IF req[c].step = "token" THEN Sent(t, FALSE) ELSE req[c]]
        /\ UNCHANGED <<metaToken, sessionExpired, serverVars, historyVars>>

TokenArrives == csrfFetchPromise.step = "answered" /\ TokenKnown(csrfFetchPromise.token)
TokenFails == csrfFetchPromise # NoPromise /\ TokenKnown(0)

-----------------------------------------------------------------------------
(* On the server: no session, 401; no or a wrong token, 403. *)
Admitted(c) == loggedIn /\ (c \in SafeCallers \/ req[c].token = sessionToken)

Status(c) == IF ~loggedIn THEN 401 ELSE IF Admitted(c) THEN 200 ELSE 403

Serve(c) ==
    /\ req[c].step = "sent"
    /\ req' = [req EXCEPT ![c] = Served(req[c], Status(c))]
    /\ applied' = [applied EXCEPT ![c] = IF Admitted(c) THEN @ + 1 ELSE @]
    /\ UNCHANGED <<cacheVars, metaToken, sessionExpired, serverVars, disturbed>>

(* Another tab of the browser logs out, or out and in again: the cookie's  *)
(* session, and with it the token, is a new one.                           *)
SessionChanges ==
    /\ sessionToken' = sessionToken + 1
    /\ loggedIn' \in BOOLEAN
    /\ disturbed' = [c \in Callers |-> disturbed[c] \/ req[c] # Idle]
    /\ UNCHANGED <<cacheVars, metaToken, sessionExpired, req, applied>>

-----------------------------------------------------------------------------
\* Mutant: the retry takes the token at hand instead of asking for a new one.
RejectedAtHand(c) ==
    /\ req[c].step = "served" /\ req[c].status = 403
    /\ c \notin SafeCallers /\ ~req[c].retried
    /\ csrfToken' = metaToken
    /\ req' = [req EXCEPT ![c] = IF metaToken # 0 THEN Sent(metaToken, TRUE)
                                 ELSE [@ EXCEPT !.step = "refresh"]]
    /\ UNCHANGED <<csrfFetchPromise, metaToken, sessionExpired, serverVars, historyVars>>

(* httpRequest's first 403: the cached token is dropped and a new one asked *)
(* for, outside the shared promise.                                        *)
Rejected(c) ==
    /\ req[c].step = "served" /\ req[c].status = 403
    /\ c \notin SafeCallers /\ ~req[c].retried
    /\ csrfToken' = 0
    /\ req' = [req EXCEPT ![c].step = "refresh"]
    /\ UNCHANGED <<csrfFetchPromise, metaToken, sessionExpired, serverVars, historyVars>>

FreshServed(c) ==
    /\ req[c].step = "refresh"
    /\ req' = [req EXCEPT ![c] = [req[c] EXCEPT !.step = "fresh", !.token = sessionToken]]
    /\ UNCHANGED <<cacheVars, metaToken, sessionExpired, serverVars, historyVars>>

(* The one retry, with the fresh token. *)
FreshArrives(c) ==
    /\ req[c].step = "fresh"
    /\ csrfToken' = req[c].token
    /\ req' = [req EXCEPT ![c] = Sent(req[c].token, TRUE)]
    /\ UNCHANGED <<csrfFetchPromise, metaToken, sessionExpired, serverVars, historyVars>>

(* The token request failed: the 403 stands. *)
FreshFails(c) ==
    /\ req[c].step \in {"refresh", "fresh"}
    /\ req' = [req EXCEPT ![c] = [req[c] EXCEPT !.step = "served", !.retried = TRUE]]
    /\ disturbed' = [disturbed EXCEPT ![c] = TRUE]
    /\ UNCHANGED <<cacheVars, metaToken, sessionExpired, serverVars, applied>>

(* 401: the page is sent to the login once, and the caller never resumes.  *)
Unauthorized(c) ==
    /\ req[c].step = "served" /\ req[c].status = 401
    /\ sessionExpired' = TRUE
    /\ req' = [req EXCEPT ![c] = [Idle EXCEPT !.step = "held"]]
    /\ UNCHANGED <<cacheVars, metaToken, serverVars, historyVars>>

(* The caller resumes with an answer; its status tells whether it is good. *)
Answers(c) ==
    /\ req[c].step = "served"
    /\ \/ req[c].status = 200
       \/ req[c].status = 403 /\ (c \in SafeCallers \/ req[c].retried)

(* The connection breaks before or after the request was handled; fetch()  *)
(* rejects and HttpUtil makes a failed Msg of it.                          *)
Breaks(c) == req[c].step \in {"sent", "served"}

Resumed(c) == [req EXCEPT ![c] = Idle]
Resume(c) ==
    /\ req' = Resumed(c)
    /\ Forget({c})
    /\ UNCHANGED <<cacheVars, metaToken, sessionExpired, serverVars>>

-----------------------------------------------------------------------------
(* A request is handled at most once, though it may be sent twice: only a  *)
(* request that was refused is sent again.                                 *)
AtMostOnce == \A c \in Callers : applied[c] <= 1

(* A request is refused for good only if the session changed, or the       *)
(* request for its token failed, while it was under way: a stale token,    *)
(* wherever it came from (the cache, the meta tag, another request that    *)
(* was refused meanwhile), is always replaced.                             *)
RefusedOnlyIfDisturbed ==
    \A c \in Callers : Answers(c) /\ req[c].status = 403 => disturbed[c]
=============================================================================

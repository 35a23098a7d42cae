----------------------------- MODULE ProviderClient -----------------------------
(***************************************************************************)
(* The HTTP client all requests to one courier go through                  *)
(* (backend/src/modules/courier/http/providerHttpClient.ts): a limit on    *)
(* the requests in flight with a queue of waiting calls, one cached token  *)
(* and one login at a time, a second try after a 401, retries of reads.    *)
(*                                                                         *)
(* A step is what the client does between two events of the Node loop (an  *)
(* answer, the end of a login, a timer, a call that arrives).  A release   *)
(* and the start of the waiting call it resumes are one step: releaseSlot  *)
(* resolves the promise that call awaits, and Node runs its continuation   *)
(* before the next event.                                                  *)
(*                                                                         *)
(* Tokens, and the requests sent with them, are "good" until the courier   *)
(* revokes them, and "bad" from then on.                                   *)
(***************************************************************************)
EXTENDS Naturals, FiniteSets, Sequences

CONSTANTS
  Calls,          \* callers of request(), each with one call at a time
  Creates,        \* those that send a POST and do not ask for retries
  MaxConcurrent,  \* opts.maxConcurrentRequests
  MaxRetries      \* opts.maxTransientRetries

ASSUME ClientAssumption ==
  /\ IsFiniteSet(Calls) /\ Creates \subseteq Calls
  /\ MaxConcurrent \in Nat \ {0}
  /\ MaxRetries \in Nat

VARIABLES
  pc,        \* where each call is
  attempt,   \* its failed attempts
  again,     \* its attempt was answered 401 and logs in again
  held,      \* the token its request went out with
  inFlight,
  queue,     \* waitQueue
  token,     \* tokenCache
  login,     \* authPromise: none, asked, or the token on its way back
  acted,     \* history: how often the courier acted on a create
  revoked    \* history: the courier revoked its tokens during the attempt

callVars == <<attempt, again, acted, revoked>>
clientVars == <<pc, held, inFlight, queue, token, login, callVars>>

Pc == {"idle", "queued", "login", "sent", "backoff"}
Tokens == {"none", "good", "bad"}

ClientTypeOK ==
  /\ pc \in [Calls -> Pc]
  /\ attempt \in [Calls -> 0 .. MaxRetries]
  /\ again \in [Calls -> BOOLEAN]
  /\ held \in [Calls -> Tokens]
  /\ inFlight \in Nat
  /\ queue \in Seq(Calls)
  /\ token \in Tokens
  /\ login \in Tokens \cup {"asked"}
  /\ acted \in [Calls -> Nat]
  /\ revoked \in [Calls -> BOOLEAN]

ClientInit ==
  /\ pc = [c \in Calls |-> "idle"]
  /\ attempt = [c \in Calls |-> 0]
  /\ again = [c \in Calls |-> FALSE]
  /\ held = [c \in Calls |-> "none"]
  /\ inFlight = 0 /\ queue = <<>>
  /\ token = "none" /\ login = "none"
  /\ acted = [c \in Calls |-> 0]
  /\ revoked = [c \in Calls |-> FALSE]

-----------------------------------------------------------------------------
\* getToken for the calls cs, the others being at p: they go out with the
\* cached token, or wait for the login l; if there is none they start it.
GetToken(cs, p, l) ==
  /\ pc' = [c \in Calls |->
              IF c \notin cs THEN p[c]
              ELSE IF token' = "none" THEN "login" ELSE "sent"]
  /\ held' = [c \in Calls |-> IF c \in cs THEN token' ELSE held[c]]
  /\ login' = IF cs # {} /\ token' = "none" /\ l = "none" THEN "asked" ELSE l

\* acquireSlot.
HasSlotOverrun == inFlight <= MaxConcurrent
HasSlot == inFlight < MaxConcurrent

\* releaseSlot by all calls of off: every one wakes a waiting call, which
\* counts itself again.
Woken(off) ==
  IF Len(queue) < Cardinality(off) THEN Len(queue) ELSE Cardinality(off)

Resumed(off) == {queue[i] : i \in 1 .. Woken(off)}

ReleaseUnheard(off) ==
  /\ inFlight' = inFlight - Cardinality(off)
  /\ UNCHANGED queue

Release(off) ==
  /\ inFlight' = (inFlight - Cardinality(off)) + Woken(off)
  /\ queue' = SubSeq(queue, Woken(off) + 1, Len(queue))

\* Call c is done, well or badly.
End(c) ==
  /\ UNCHANGED token
  /\ Release({c})
  /\ GetToken(Resumed({c}), [pc EXCEPT ![c] = "idle"], login)

Enter(c) ==
  /\ pc[c] = "idle"
  /\ attempt' = [attempt EXCEPT ![c] = 0]
  /\ again' = [again EXCEPT ![c] = FALSE]
  /\ acted' = [acted EXCEPT ![c] = 0]
  /\ revoked' = [revoked EXCEPT ![c] = FALSE]
  /\ UNCHANGED token
  /\ \/ /\ HasSlot
        /\ inFlight' = inFlight + 1
        /\ UNCHANGED queue
        /\ GetToken({c}, pc, login)
     \/ /\ ~HasSlot
        /\ queue' = Append(queue, c)
        /\ pc' = [pc EXCEPT ![c] = "queued"]
        /\ UNCHANGED <<inFlight, held, login>>

-----------------------------------------------------------------------------
\* The answers of the courier.
CountActed(c) ==
  acted' = IF c \in Creates THEN [acted EXCEPT ![c] = @ + 1] ELSE acted

Accepted(c) ==
  /\ pc[c] = "sent" /\ held[c] = "good"
  /\ CountActed(c)
  /\ End(c)
  /\ UNCHANGED <<attempt, again, revoked>>

\* A 4xx: not retryable.
Refused(c) ==
  /\ pc[c] = "sent" /\ held[c] = "good"
  /\ End(c)
  /\ UNCHANGED callVars

UnauthorizedKeepingToken(c) ==
  /\ pc[c] = "sent" /\ held[c] = "bad" /\ ~again[c]
  /\ again' = [again EXCEPT ![c] = TRUE]
  /\ UNCHANGED token
  /\ GetToken({c}, pc, login)
  /\ UNCHANGED <<inFlight, queue, attempt, acted, revoked>>

\* The first 401 of an attempt: invalidateToken, whatever is cached by now,
\* and the same request once more, a create too.
Unauthorized(c) ==
  /\ pc[c] = "sent" /\ held[c] = "bad" /\ ~again[c]
  /\ again' = [again EXCEPT ![c] = TRUE]
  /\ token' = "none"
  /\ GetToken({c}, pc, login)
  /\ UNCHANGED <<inFlight, queue, attempt, acted, revoked>>

UnauthorizedAgain(c) ==
  /\ pc[c] = "sent" /\ held[c] = "bad" /\ again[c]
  /\ End(c)
  /\ UNCHANGED callVars

RetriesAll(c) == attempt[c] < MaxRetries
Retries(c) == c \notin Creates /\ attempt[c] < MaxRetries

\* A time-out, a broken connection, a 5xx or a 429: the courier may have acted.
NoAnswer(c) ==
  /\ pc[c] = "sent"
  /\ UNCHANGED acted \/ (held[c] = "good" /\ CountActed(c))
  /\ UNCHANGED <<attempt, again, revoked>>
  /\ \/ ~Retries(c) /\ End(c)
     \/ /\ Retries(c)
        /\ pc' = [pc EXCEPT ![c] = "backoff"]
        /\ UNCHANGED <<held, inFlight, queue, token, login>>

\* The next attempt; the slot was kept during the back-off.
WakeUp(c) ==
  /\ pc[c] = "backoff"
  /\ attempt' = [attempt EXCEPT ![c] = @ + 1]
  /\ again' = [again EXCEPT ![c] = FALSE]
  /\ revoked' = [revoked EXCEPT ![c] = FALSE]
  /\ UNCHANGED token
  /\ GetToken({c}, pc, login)
  /\ UNCHANGED <<inFlight, queue, acted>>

-----------------------------------------------------------------------------
\* ensureAuth, without a slot: health probes and the start of a booking.
EnsureAuth ==
  /\ token = "none" /\ login = "none"
  /\ login' = "asked"
  /\ UNCHANGED <<pc, held, inFlight, queue, token, callVars>>

\* The courier makes out a token and sends it.
LoginIssued ==
  /\ login = "asked"
  /\ login' = "good"
  /\ UNCHANGED <<pc, held, inFlight, queue, token, callVars>>

Awaiting == {c \in Calls : pc[c] = "login"}

\* The token is cached, and every call that waits for it goes out.
LoginArrives ==
  /\ login \in {"good", "bad"}
  /\ token' = login
  /\ GetToken(Awaiting, pc, "none")
  /\ UNCHANGED <<inFlight, queue, callVars>>

\* The login fails, or its answer is lost: a failed attempt for every call that
\* waits for it.
LoginFails ==
  LET off == {c \in Awaiting : ~Retries(c)}
  IN /\ login # "none"
     /\ UNCHANGED token
     /\ Release(off)
     /\ GetToken(Resumed(off),
                 [c \in Calls |-> CASE c \in off -> "idle"
                                    [] c \in Awaiting \ off -> "backoff"
                                    [] OTHER -> pc[c]],
                 "none")
     /\ UNCHANGED callVars

\* The cached token comes to the end of its time, or a provider invalidates it.
TokenExpires ==
  /\ token # "none"
  /\ token' = "none"
  /\ UNCHANGED <<pc, held, inFlight, queue, login, callVars>>

Spoilt(t) == IF t = "good" THEN "bad" ELSE t

\* The courier revokes the tokens it has given out.
Revoke ==
  /\ token' = Spoilt(token)
  /\ login' = Spoilt(login)
  /\ held' = [c \in Calls |-> Spoilt(held[c])]
  /\ revoked' = [c \in Calls |-> revoked[c] \/ pc[c] \in {"login", "sent"}]
  /\ UNCHANGED <<pc, inFlight, queue, attempt, again, acted>>

-----------------------------------------------------------------------------
Answer(c) ==
  \/ Accepted(c) \/ Refused(c) \/ NoAnswer(c)
  \/ Unauthorized(c) \/ UnauthorizedAgain(c)

ClientNext ==
  \/ \E c \in Calls : Enter(c) \/ Answer(c) \/ WakeUp(c)
  \/ EnsureAuth \/ LoginIssued \/ LoginArrives \/ LoginFails
  \/ TokenExpires \/ Revoke

ClientSpec == ClientInit /\ [][ClientNext]_clientVars

\* fetchWithTimeout and the logins of the couriers abort a request that is not
\* answered in requestTimeoutMs, and the back-off is a timer.
ClientFairness ==
  /\ \A c \in Calls : WF_clientVars(Answer(c)) /\ WF_clientVars(WakeUp(c))
  /\ WF_clientVars(LoginArrives \/ LoginFails)

ClientFairSpec == ClientSpec /\ ClientFairness

-----------------------------------------------------------------------------
\* The calls that hold a slot.
Holding == {c \in Calls : pc[c] \in {"login", "sent", "backoff"}}

\* "Max in-flight requests for this client (provider concurrency limit)" (line
\* 32): the counter is right whatever fails, it never passes the limit, and a
\* call waits only while every slot is taken.
SlotsAccounted ==
  /\ inFlight = Cardinality(Holding)
  /\ inFlight <= MaxConcurrent
  /\ queue # <<>> => inFlight = MaxConcurrent

\* "POST/PUT/PATCH never auto-retry (prevents duplicate bookings)" (line 5): for
\* all the second tries after a 401, the courier acts on a create at most once.
CreatedOnce == \A c \in Creates : acted[c] <= 1

\* A request is sent for the second time with a token the courier refuses only
\* if it revoked its tokens while the attempt was on: whoever invalidated the
\* cache, and whichever login the call joined, a new token follows a 401.
SecondTryIsAuthorized ==
  \A c \in Calls : pc[c] = "sent" /\ again[c] /\ held[c] = "bad" => revoked[c]

\* Every call ends, a waiting one too: no slot and no waiting call is forgotten,
\* and no login keeps its calls for ever.
EveryCallEnds == \A c \in Calls : pc[c] # "idle" ~> pc[c] = "idle"
=============================================================================

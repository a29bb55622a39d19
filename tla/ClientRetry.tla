---------------------------- MODULE ClientRetry ----------------------------
(***************************************************************************)
(* One call of the BigQuery client inside one execution of the Lambda, in  *)
(* time: the retry loop of google.api_core with its back-off and deadline, *)
(* the authorized session with its token, the request, which is served at  *)
(* some time or never, and the execution's own limit.  Ingest has the same *)
(* calls without time (SendInsert, ConnectionError, Timeout, Forget).      *)
(***************************************************************************)
EXTENDS Naturals

CONSTANTS
    Initial, Maximum, Multiplier,   \* of the back-off
    RetryTimeout,   \* how long the loop retries
    Limit,          \* the latest end of the execution, after the call's start
    MaxRefresh,     \* refreshes after a 401
    GrantTries,     \* requests of one refresh
    Delay,          \* a request is served within this time, or never
    Memory,         \* BigQuery knows an insertId for at least this long
    MaxSends        \* bound: requests of the call

ASSUME RetryAssumption ==
    /\ {Initial, Maximum, Multiplier, RetryTimeout, Limit, MaxRefresh, Delay,
        Memory, MaxSends} \subseteq Nat
    /\ GrantTries \in Nat \ {0}

Horizon == Limit + Delay
Time == 0..Horizon

VARIABLES
    now,        \* time since the call began
    limit,      \* when the execution ends, whatever it does
    pc,         \* where the call is
    token,      \* the credentials have a token
    refreshes,  \* _credential_refresh_attempt of the request
    tries,      \* requests to the token endpoint
    delay,      \* max_delay of the sleep generator
    wakeAt,     \* the end of the last sleep
    outcome,    \* how the call ended
    net,        \* requests on their way to BigQuery: number and time sent
    sends,      \* requests sent
    answers,    \* numbers of the requests BigQuery has stored or known
    known,      \* the time BigQuery stored the insertIds, if it did
    stored      \* copies of the batch in the table

client == <<limit, pc, token, refreshes, tries, delay, wakeAt, outcome>>
server == <<net, sends, answers, known, stored>>
vars == <<now, client, server>>

Running == {"grant", "send", "wait", "sleep"}
Outcomes == {"none", "ok", "refused", "refresh_error", "retry_error", "killed"}

TypeOK ==
    /\ now \in Time /\ limit \in 0..Limit
    /\ pc \in Running \cup {"done"}
    /\ token \in BOOLEAN
    /\ refreshes \in 0..MaxRefresh /\ tries \in 0..GrantTries
    /\ delay \in 0..Maximum
    /\ wakeAt \in Nat
    /\ outcome \in Outcomes
    /\ net \subseteq [nr : 1..MaxSends, at : Time]
    /\ sends \in 0..MaxSends
    /\ answers \subseteq 1..MaxSends
    /\ known \subseteq Time
    /\ stored \in Nat

Least(a, b) == IF a <= b THEN a ELSE b

(* The execution may be young or old; an earlier call may have got a token. *)
Init ==
    /\ now = 0 /\ limit \in 0..Limit
    /\ token \in BOOLEAN
    /\ pc = IF token THEN "send" ELSE "grant"
    /\ refreshes = 0 /\ tries = 0
    /\ delay = Least(Initial, Maximum)
    /\ wakeAt = 0
    /\ outcome = "none"
    /\ net = {} /\ sends = 0 /\ answers = {}
    /\ known = {} /\ stored = 0

-----------------------------------------------------------------------------
(* The retry loop. *)

Return(how) ==
    /\ pc' = "done" /\ outcome' = how
    /\ UNCHANGED <<now, limit, token, refreshes, tries, delay, wakeAt, server>>

GivesUp_Now(nap) == now > RetryTimeout

(* time.monotonic() + next_sleep > deadline *)
GivesUp(nap) == now + nap > RetryTimeout

NextDelay_Uncapped == delay * Multiplier

NextDelay == Least(delay * Multiplier, Maximum)

(* A transient error: the loop sleeps a random part of max_delay, or gives *)
(* up with a RetryError if it would wake up too late.                      *)
TransientError ==
    \E nap \in 0..delay :
        \/ GivesUp(nap) /\ Return("retry_error")
        \/ /\ ~GivesUp(nap)
           /\ pc' = "sleep"
           /\ wakeAt' = now + nap
           /\ delay' = NextDelay
           /\ UNCHANGED <<now, limit, token, refreshes, tries, outcome, server>>

(* The next attempt starts: with the token there is, or by asking for one. *)
Wake ==
    /\ pc = "sleep" /\ now >= wakeAt
    /\ pc' = IF token THEN "send" ELSE "grant"
    /\ refreshes' = 0 /\ tries' = 0
    /\ UNCHANGED <<now, limit, token, delay, wakeAt, outcome, server>>

-----------------------------------------------------------------------------
(* The authorized session. *)

(* The token endpoint grants a token; in a refresh after a 401 as well as  *)
(* before the first request.                                               *)
Granted ==
    /\ pc = "grant"
    /\ pc' = "send" /\ token' = TRUE /\ tries' = 0
    /\ UNCHANGED <<now, limit, refreshes, delay, wakeAt, outcome, server>>

(* It answers with an error that may pass: asked again, a few times.       *)
GrantAgain ==
    /\ pc = "grant" /\ tries + 1 < GrantTries
    /\ tries' = tries + 1
    /\ UNCHANGED <<now, limit, pc, token, refreshes, delay, wakeAt, outcome, server>>

(* It refuses, or that was the last time: a RefreshError, which the loop   *)
(* does not retry, whether its flag says retryable or not.                 *)
GrantRefused == pc = "grant" /\ Return("refresh_error")

(* It cannot be reached: a TransportError, which the loop does retry.      *)
GrantUnreachable == pc = "grant" /\ TransientError

Send ==
    /\ pc = "send" /\ sends < MaxSends
    /\ pc' = "wait"
    /\ sends' = sends + 1
    /\ net' = net \cup {[nr |-> sends + 1, at |-> now]}
    /\ UNCHANGED <<now, limit, token, refreshes, tries, delay, wakeAt, outcome,
                   answers, known, stored>>

(* 401: refreshed and sent again, as often as the session allows. *)
Unauthorized ==
    /\ pc = "wait"
    /\ \E r \in net : r.nr = sends /\ net' = net \ {r}
    /\ \/ /\ refreshes < MaxRefresh
          /\ pc' = "grant" /\ refreshes' = refreshes + 1 /\ tries' = 0
          /\ UNCHANGED outcome
       \/ /\ refreshes = MaxRefresh
          /\ pc' = "done" /\ outcome' = "refused"
          /\ UNCHANGED <<refreshes, tries>>
    /\ UNCHANGED <<now, limit, token, delay, wakeAt, sends, answers, known, stored>>

Answered_Unseen == pc = "wait" /\ (sends \in answers \/ net = {}) /\ Return("ok")

(* The response to the last request: its batch is stored. *)
Answered == pc = "wait" /\ sends \in answers /\ Return("ok")

(* Any error _should_retry does not know: 404, 409, an invalid request.    *)
Refused ==
    /\ pc = "wait"
    /\ \E r \in net : r.nr = sends /\ net' = net \ {r}
    /\ pc' = "done" /\ outcome' = "refused"
    /\ UNCHANGED <<now, limit, token, refreshes, tries, delay, wakeAt, sends,
                   answers, known, stored>>

(* 429, 500, 502, 503, or no answer: served or not, nobody knows. *)
Unanswered == pc = "wait" /\ TransientError

-----------------------------------------------------------------------------
(* BigQuery, the network, the clock. *)

Remembers(at) == now <= at + Memory

Serve_IdPerSend(r) ==
    /\ net' = net \ {r} /\ answers' = answers \cup {r.nr}
    /\ known' = {now} /\ stored' = stored + 1
    /\ UNCHANGED <<now, client, sends>>

(* tabledata.insertAll: rows whose insertIds are known are not stored again. *)
Serve(r) ==
    /\ net' = net \ {r} /\ answers' = answers \cup {r.nr}
    /\ \/ known # {} /\ UNCHANGED <<known, stored>>
       \/ /\ \A at \in known : ~Remembers(at)
          /\ known' = {now} /\ stored' = stored + 1
    /\ UNCHANGED <<now, client, sends>>

Lose(r) ==
    /\ net' = net \ {r}
    /\ UNCHANGED <<now, client, sends, answers, known, stored>>

Kill_BetweenRequests ==
    /\ pc \notin {"wait", "done"} /\ now >= limit
    /\ Return("killed")

(* The execution is killed; what it has sent is on its way. *)
Kill ==
    /\ pc # "done" /\ now >= limit
    /\ Return("killed")

Tick ==
    /\ now < Horizon
    /\ pc # "done" => now < limit
    /\ pc = "sleep" => now < wakeAt
    /\ \A r \in net : now < r.at + Delay
    /\ now' = now + 1
    /\ UNCHANGED <<client, server>>

-----------------------------------------------------------------------------
Session ==
    \/ Granted \/ GrantAgain \/ GrantRefused \/ GrantUnreachable
    \/ Send \/ Unauthorized \/ Answered \/ Refused \/ Unanswered

Next ==
    \/ Wake \/ Session
    \/ \E r \in net : Serve(r) \/ Lose(r)
    \/ Kill \/ Tick

Spec == Init /\ [][Next]_vars

(* A sleep ends, an execution over its limit is killed, a request reaches  *)
(* BigQuery or is lost, and time passes, be the sleeps as short as they    *)
(* may.  Nothing is said of answers.                                       *)
Fairness ==
    /\ WF_vars(Wake) /\ SF_vars(Tick) /\ WF_vars(Kill)
    /\ WF_vars(\E r \in net : Serve(r) \/ Lose(r))

LiveSpec == Spec /\ Fairness

-----------------------------------------------------------------------------
(* However often the batch is sent, and however late a request is served,  *)
(* it is stored once: where BigQuery knows an insertId for as long as an   *)
(* execution and a request on its way last together.                       *)
StoredOnce == Memory >= limit + Delay => stored <= 1

(* Where the execution ends well before the retries do, as in the Lambda,  *)
(* no call runs out of retries: the execution is killed before, so that no *)
(* except and no print of the code ever sees a RetryError.                 *)
NeverOutOfRetries ==
    limit + Maximum <= RetryTimeout => outcome # "retry_error"

(* No attempt starts after the deadline, the sleep before it included. *)
RetriesStartInTime == [][Wake => now <= RetryTimeout]_vars

(* A call has an end, though a request waits for its answer without any    *)
(* timeout: at the latest the execution's.                                 *)
CallEnds == <>(pc = "done")

(* The call keeps the promise it makes to the Lambda, in time: the answer  *)
(* it returns with is about its batch, not about a request that was lost,  *)
(* and a request that is served late adds nothing.                         *)
Result == CASE outcome = "none" -> "open"
            [] outcome = "ok"   -> "ok"
            [] OTHER            -> "failed"

Copies == CASE stored = 0 -> "none"
            [] stored = 1 -> "once"
            [] OTHER      -> "more"

Call == INSTANCE InsertCalls WITH
            Calls <- {"insert"},
            remembers <- (Memory >= limit + Delay),
            result <- [c \in {"insert"} |-> Result],
            stored <- [c \in {"insert"} |-> Copies]

ImplementsInsertCalls == Call!Spec

=============================================================================

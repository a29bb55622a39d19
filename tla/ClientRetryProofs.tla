------------------------- MODULE ClientRetryProofs -------------------------
(* Theorems about ClientRetry, for every back-off, limit and memory. *)
EXTENDS ClientRetry, TLAPS

USE RetryAssumption

(* A sleep ends before the deadline, and nothing of the execution happens  *)
(* after its limit.                                                        *)
ClockInv ==
    /\ pc # "done" => now <= limit
    /\ pc = "sleep" => now <= wakeAt /\ wakeAt <= RetryTimeout

(* A request was sent within the limit and is served within the delay; the *)
(* batch is stored with its insertIds and not before.                      *)
StoreInv ==
    /\ \A r \in net : r.at <= limit /\ now <= r.at + Delay
    /\ known = {} => stored = 0
    /\ Memory >= limit + Delay => stored <= 1

RetryInv == TypeOK /\ ClockInv /\ StoreInv

(* max_delay stays in its range. *)
LEMMA DelayCapped ==
    ASSUME NEW d \in 0..Maximum
    PROVE  Least(d * Multiplier, Maximum) \in 0..Maximum
<1>1. Multiplier \in Nat /\ Maximum \in Nat
  OBVIOUS
<1>2. d * Multiplier \in Nat
  BY <1>1
<1> QED
  BY <1>1, <1>2 DEF Least

LEMMA InitHolds == Init => RetryInv
<1> SUFFICES ASSUME Init PROVE RetryInv
  OBVIOUS
<1>1. TypeOK
  BY DEF Init, TypeOK, Running, Outcomes, Time, Horizon, Least
<1>2. ClockInv /\ StoreInv
  BY DEF Init, ClockInv, StoreInv
<1> QED
  BY <1>1, <1>2 DEF RetryInv

(* A transient error, wherever the loop meets it. *)
LEMMA TransientKeeps ==
    ASSUME RetryInv, pc \in {"grant", "wait"}, TransientError
    PROVE  RetryInv'
<1>1. PICK nap \in 0..delay :
        \/ GivesUp(nap) /\ Return("retry_error")
        \/ /\ ~GivesUp(nap)
           /\ pc' = "sleep"
           /\ wakeAt' = now + nap
           /\ delay' = NextDelay
           /\ UNCHANGED <<now, limit, token, refreshes, tries, outcome, server>>
  BY DEF TransientError
<1>2. nap \in 0..Maximum /\ now \in Nat
  BY DEF RetryInv, TypeOK, Time, Horizon
<1>3. CASE GivesUp(nap) /\ Return("retry_error")
  BY <1>3 DEF RetryInv, TypeOK, ClockInv, StoreInv, Return, server, Running, Outcomes
<1>4. CASE /\ ~GivesUp(nap)
           /\ pc' = "sleep"
           /\ wakeAt' = now + nap
           /\ delay' = NextDelay
           /\ UNCHANGED <<now, limit, token, refreshes, tries, outcome, server>>
  <2>1. delay' \in 0..Maximum
    BY <1>4, DelayCapped DEF RetryInv, TypeOK, NextDelay
  <2>2. wakeAt' \in Nat
    BY <1>2, <1>4
  <2>3. TypeOK'
    BY <1>4, <2>1, <2>2 DEF RetryInv, TypeOK, server, Running
  <2>4. ClockInv'
    BY <1>2, <1>4 DEF RetryInv, ClockInv, GivesUp
  <2>5. StoreInv'
    BY <1>4 DEF RetryInv, StoreInv, server
  <2> QED
    BY <2>3, <2>4, <2>5 DEF RetryInv
<1> QED
  BY <1>1, <1>3, <1>4

LEMMA SessionKeeps == RetryInv /\ Session => RetryInv'
<1> SUFFICES ASSUME RetryInv, Session PROVE RetryInv'
  OBVIOUS
<1> USE DEF RetryInv, TypeOK, ClockInv, StoreInv, Running, Outcomes, server
<1>1. CASE Granted
  BY <1>1 DEF Granted
<1>2. CASE GrantAgain
  BY <1>2 DEF GrantAgain
<1>3. CASE GrantRefused
  BY <1>3 DEF GrantRefused, Return
<1>4. CASE GrantUnreachable
  <2>1. pc \in {"grant", "wait"} /\ TransientError
    BY <1>4 DEF GrantUnreachable
  <2> QED
    BY <2>1, TransientKeeps
<1>5. CASE Send
  <2>1. sends + 1 \in 1..MaxSends /\ now \in Time /\ now \in Nat
    BY <1>5 DEF Send, Time, Horizon
  <2>2. net' \subseteq [nr : 1..MaxSends, at : Time]
    BY <1>5, <2>1 DEF Send
  <2>3. TypeOK'
    BY <1>5, <2>1, <2>2 DEF Send
  <2>4. ClockInv'
    BY <1>5 DEF Send
  <2>5. \A r \in net' : r.at <= limit' /\ now' <= r.at + Delay
    BY <1>5, <2>1 DEF Send
  <2> QED
    BY <1>5, <2>3, <2>4, <2>5 DEF Send
<1>6. CASE Unauthorized
  <2>1. net' \subseteq net
    BY <1>6 DEF Unauthorized
  <2>2. TypeOK'
    BY <1>6, <2>1 DEF Unauthorized
  <2>3. ClockInv' /\ StoreInv'
    BY <1>6, <2>1 DEF Unauthorized
  <2> QED
    BY <2>2, <2>3
<1>7. CASE Answered
  BY <1>7 DEF Answered, Return
<1>8. CASE Refused
  <2>1. net' \subseteq net
    BY <1>8 DEF Refused
  <2> QED
    BY <1>8, <2>1 DEF Refused
<1>9. CASE Unanswered
  <2>1. pc \in {"grant", "wait"} /\ TransientError
    BY <1>9 DEF Unanswered
  <2> QED
    BY <2>1, TransientKeeps
<1> QED
  BY <1>1, <1>2, <1>3, <1>4, <1>5, <1>6, <1>7, <1>8, <1>9 DEF Session

(* BigQuery still knows the insertIds when the last request can be served. *)
LEMMA ServeKeeps ==
    ASSUME RetryInv, NEW r \in net, Serve(r)
    PROVE  RetryInv'
<1> USE DEF RetryInv, TypeOK, ClockInv, StoreInv, Running, Outcomes, client
<1>1. net' \subseteq net /\ now' = now
  BY DEF Serve
<1>2. r.nr \in 1..MaxSends /\ r.at \in Nat /\ now \in Nat /\ now \in Time
  BY DEF Time, Horizon
<1>3. TypeOK'
  <2>1. \/ known' = known /\ stored' = stored
        \/ known' = {now} /\ stored' = stored + 1
    BY DEF Serve
  <2>2. net' \subseteq [nr : 1..MaxSends, at : Time] /\ answers' \subseteq 1..MaxSends
    BY <1>1, <1>2 DEF Serve
  <2> QED
    BY <2>1, <2>2 DEF Serve
<1>4. ClockInv'
  BY DEF Serve
<1>5. Memory >= limit + Delay => \A at \in known : Remembers(at)
  <2> SUFFICES ASSUME Memory >= limit + Delay, NEW at \in known
               PROVE  Remembers(at)
    OBVIOUS
  <2>1. now <= limit + Delay
    BY <1>2
  <2>2. at \in Nat
    BY DEF Time, Horizon
  <2> QED
    BY <1>2, <2>1, <2>2 DEF Remembers
<1>6. StoreInv'
  <2>1. CASE known # {} /\ UNCHANGED <<known, stored>>
    BY <1>1, <2>1 DEF Serve
  <2>2. CASE /\ \A at \in known : ~Remembers(at)
             /\ known' = {now} /\ stored' = stored + 1
    <3>1. Memory >= limit + Delay => known = {}
      BY <1>5, <2>2
    <3> QED
      BY <1>1, <2>2, <3>1 DEF Serve
  <2> QED
    BY <2>1, <2>2 DEF Serve
<1> QED
  BY <1>3, <1>4, <1>6

LEMMA StepKeeps == RetryInv /\ [Next]_vars => RetryInv'
<1> SUFFICES ASSUME RetryInv, [Next]_vars PROVE RetryInv'
  OBVIOUS
<1> USE DEF RetryInv, TypeOK, ClockInv, StoreInv, Running, Outcomes, client, server
<1>1. CASE Wake
  BY <1>1 DEF Wake
<1>2. CASE Session
  BY <1>2, SessionKeeps
<1>3. ASSUME NEW r \in net, Serve(r) PROVE RetryInv'
  BY <1>3, ServeKeeps
<1>4. ASSUME NEW r \in net, Lose(r) PROVE RetryInv'
  BY <1>4 DEF Lose
<1>5. CASE Kill
  BY <1>5 DEF Kill, Return
<1>6. CASE Tick
  <2>1. now \in Nat /\ now' = now + 1 /\ now' \in Time /\ limit \in Nat
    BY <1>6 DEF Tick, Time, Horizon
  <2>2. TypeOK'
    BY <1>6, <2>1 DEF Tick
  <2>3. ClockInv'
    BY <1>6, <2>1 DEF Tick
  <2>4. \A r \in net : r.at \in Nat
    BY DEF Time, Horizon
  <2>5. StoreInv'
    BY <1>6, <2>1, <2>4 DEF Tick
  <2> QED
    BY <2>2, <2>3, <2>5
<1>7. CASE UNCHANGED vars
  BY <1>7 DEF vars
<1> QED
  BY <1>1, <1>2, <1>3, <1>4, <1>5, <1>6, <1>7 DEF Next

LEMMA RetryInvariant == Spec => []RetryInv
BY InitHolds, StepKeeps, PTL DEF Spec

-----------------------------------------------------------------------------
(* The types; max_delay never exceeds the maximum. *)
THEOREM RetryTypeCorrect == Spec => []TypeOK
<1>1. RetryInv => TypeOK
  BY DEF RetryInv
<1> QED
  BY <1>1, RetryInvariant, PTL

(* insertIds suffice: a batch that is resent for as long as the execution  *)
(* lives, and served as late as the network allows, is stored once.        *)
THEOREM BatchStoredOnce == Spec => []StoredOnce
<1>1. RetryInv => StoredOnce
  BY DEF RetryInv, StoreInv, StoredOnce
<1> QED
  BY <1>1, RetryInvariant, PTL

(* The Lambda's limit always strikes before the client's deadline. *)
THEOREM KilledFirst == Spec => []NeverOutOfRetries
<1> DEFINE I == RetryInv /\ NeverOutOfRetries
<1>1. Init => I
  BY InitHolds DEF Init, NeverOutOfRetries
<1>2. I /\ [Next]_vars => I'
  <2> SUFFICES ASSUME I, [Next]_vars PROVE NeverOutOfRetries'
    BY StepKeeps
  <2>1. \A nap \in 0..delay :
           GivesUp(nap) /\ pc \in {"grant", "wait"} => ~(limit + Maximum <= RetryTimeout)
    BY DEF RetryInv, TypeOK, ClockInv, GivesUp, Time, Horizon
  <2>2. pc \in {"grant", "wait"} /\ TransientError => NeverOutOfRetries'
    BY <2>1 DEF TransientError, Return, NeverOutOfRetries
  <2>3. CASE Session
    BY <2>2, <2>3 DEF Session, Granted, GrantAgain, GrantRefused, GrantUnreachable, Send,
       Unauthorized, Answered, Refused, Unanswered, Return, NeverOutOfRetries
  <2>4. CASE \E r \in net : Serve(r) \/ Lose(r)
    BY <2>4 DEF Serve, Lose, client, NeverOutOfRetries
  <2>5. CASE Wake \/ Kill \/ Tick \/ UNCHANGED vars
    BY <2>5 DEF Wake, Kill, Return, Tick, vars, client, NeverOutOfRetries
  <2> QED
    BY <2>3, <2>4, <2>5 DEF Next
<1>3. I => NeverOutOfRetries
  OBVIOUS
<1> QED
  BY <1>1, <1>2, <1>3, PTL DEF Spec

(* The deadline bounds the start of the last attempt, not its end. *)
THEOREM LastStartInTime == Spec => RetriesStartInTime
<1>1. RetryInv /\ [Next]_vars => [Wake => now <= RetryTimeout]_vars
  BY DEF RetryInv, TypeOK, ClockInv, Wake, Time, Horizon
<1> QED
  BY <1>1, RetryInvariant, PTL DEF Spec, RetriesStartInTime

-----------------------------------------------------------------------------
(* The call keeps its promise.  It has a result once it is done, and what  *)
(* BigQuery has answered, it has stored.                                   *)
PromiseInv ==
    /\ pc = "done" <=> outcome # "none"
    /\ answers # {} \/ known # {} => stored > 0

(* What a step of the client, of the server or of the clock changes. *)
LEMMA PromiseStep ==
    ASSUME RetryInv, PromiseInv, [Next]_vars
    PROVE  /\ PromiseInv'
           /\ limit' = limit
           /\ \/ UNCHANGED <<outcome, stored>>
              \/ /\ outcome = "none" /\ outcome' # "none" /\ stored' = stored
                 /\ outcome' = "ok" => stored > 0
              \/ /\ outcome' = outcome /\ stored' = stored + 1
                 /\ Memory >= limit + Delay => stored = 0
<1> USE DEF PromiseInv, client, server
<1>1. ASSUME TransientError, pc \in {"grant", "wait"}
      PROVE  /\ PromiseInv' /\ limit' = limit /\ stored' = stored
             /\ outcome = "none" /\ outcome' # "ok"
  BY <1>1 DEF TransientError, Return
<1>2. CASE Session
  BY <1>1, <1>2 DEF Session, Granted, GrantAgain, GrantRefused, GrantUnreachable, Send,
     Unauthorized, Answered, Refused, Unanswered, Return
<1>3. ASSUME NEW r \in net, Serve(r)
      PROVE  /\ PromiseInv' /\ limit' = limit /\ outcome' = outcome
             /\ stored' # stored => /\ stored' = stored + 1
                                    /\ Memory >= limit + Delay => stored = 0
  <2>1. stored \in Nat
    BY DEF RetryInv, TypeOK
  <2>2. CASE known # {} /\ UNCHANGED <<known, stored>>
    BY <1>3, <2>2 DEF Serve
  <2>3. CASE /\ \A at \in known : ~Remembers(at)
             /\ known' = {now} /\ stored' = stored + 1
    <3>1. Memory >= limit + Delay => stored' <= 1
      BY <1>3, ServeKeeps DEF RetryInv, StoreInv, Serve
    <3> QED
      BY <1>3, <2>1, <2>3, <3>1 DEF Serve
  <2> QED
    BY <1>3, <2>2, <2>3 DEF Serve
<1>4. ASSUME NEW r \in net, Lose(r)
      PROVE  PromiseInv' /\ limit' = limit /\ UNCHANGED <<outcome, stored>>
  BY <1>4 DEF Lose
<1>5. CASE Kill
  BY <1>5 DEF Kill, Return
<1>6. CASE Wake \/ Tick \/ UNCHANGED vars
  BY <1>6 DEF Wake, Tick, vars
<1> QED
  BY <1>2, <1>3, <1>4, <1>5, <1>6 DEF Next

CallResult == [c \in {"insert"} |-> Result]
CallCopies == [c \in {"insert"} |-> Copies]

LEMMA CallStep ==
    ASSUME RetryInv, PromiseInv, [Next]_vars
    PROVE  [Call!Next]_<<Memory >= limit + Delay, CallResult, CallCopies>>
<1>1. stored \in Nat /\ outcome \in Outcomes /\ outcome' \in Outcomes /\ limit' = limit
  BY StepKeeps, PromiseStep DEF RetryInv, TypeOK
<1>2. (Memory >= limit + Delay)' = (Memory >= limit + Delay)
  BY <1>1
<1>3. CASE UNCHANGED <<outcome, stored>>
  BY <1>2, <1>3 DEF CallResult, CallCopies, Result, Copies
<1>4. CASE /\ outcome = "none" /\ outcome' # "none" /\ stored' = stored
           /\ outcome' = "ok" => stored > 0
  <2>1. CallCopies' = CallCopies
    BY <1>4 DEF CallCopies, Copies
  <2>2. CallResult["insert"] = "open"
    BY <1>4 DEF CallResult, Result
  <2>3. CASE outcome' = "ok"
    <3>1. CallCopies["insert"] # "none"
      BY <1>1, <1>4, <2>3 DEF CallCopies, Copies
    <3>2. CallResult' = [CallResult EXCEPT !["insert"] = "ok"]
      BY <2>3 DEF CallResult, Result
    <3> QED
      BY <1>2, <2>1, <2>2, <3>1, <3>2 DEF Call!Next, Call!Return, CallResult, CallCopies
  <2>4. CASE outcome' # "ok"
    <3>1. CallResult' = [CallResult EXCEPT !["insert"] = "failed"]
      BY <1>4, <2>4 DEF CallResult, Result
    <3> QED
      BY <1>2, <2>1, <2>2, <3>1 DEF Call!Next, Call!Fail, CallResult, CallCopies
  <2> QED
    BY <2>3, <2>4
<1>5. CASE /\ outcome' = outcome /\ stored' = stored + 1
           /\ Memory >= limit + Delay => stored = 0
  <2>1. CallResult' = CallResult
    BY <1>5 DEF CallResult, Result
  <2>2. CallCopies' = [CallCopies EXCEPT !["insert"] = IF @ = "none" THEN "once" ELSE "more"]
    BY <1>1, <1>5 DEF CallCopies, Copies
  <2>3. Memory >= limit + Delay => CallCopies["insert"] = "none"
    BY <1>5 DEF CallCopies, Copies
  <2> QED
    BY <1>2, <2>1, <2>2, <2>3 DEF Call!Next, Call!Store, CallResult, CallCopies
<1> QED
  BY <1>3, <1>4, <1>5, PromiseStep

(* In time, too, a call that returns has stored its batch, and once where  *)
(* BigQuery remembers for as long as it takes.                             *)
THEOREM CallImplementsPromise == Spec => ImplementsInsertCalls
<1>1. Init => Call!Init
  <2> SUFFICES ASSUME Init PROVE Call!Init
    OBVIOUS
  <2>1. Result = "open" /\ Copies = "none"
    BY DEF Init, Result, Copies
  <2>2. (Memory >= limit + Delay) \in BOOLEAN
    OBVIOUS
  <2> QED
    BY <2>1, <2>2 DEF Call!Init
<1>2. Init => PromiseInv
  BY DEF Init, PromiseInv
<1>3. RetryInv /\ PromiseInv /\ [Next]_vars => PromiseInv'
  BY PromiseStep
<1>4. RetryInv /\ PromiseInv /\ [Next]_vars => [Call!Next]_(Call!vars)
  BY CallStep DEF Call!vars, CallResult, CallCopies
<1> QED
  BY RetryInvariant, <1>1, <1>2, <1>3, <1>4, PTL
     DEF Spec, ImplementsInsertCalls, Call!Spec

=============================================================================

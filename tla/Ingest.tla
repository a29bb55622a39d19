------------------------------- MODULE Ingest -------------------------------
(***************************************************************************)
(* The ingestion Lambda: lambda_handler (src/lambda/main.py), the helpers  *)
(* it runs on (src/lambda/utils.py), and what it runs between: EventBridge *)
(* and Lambda's asynchronous invocation queue, which deliver an event at   *)
(* least once and retry a failed attempt, and BigQuery behind the retrying *)
(* client library.                                                         *)
(*                                                                         *)
(* An attempt is one execution of lambda_handler.  Each of its HTTP calls  *)
(* that changes BigQuery (create_table, insert_rows_json) is a request     *)
(* message BigQuery serves in a step of its own, so that a response can be *)
(* lost, a request resent, or served after its sender is dead.             *)
(***************************************************************************)
EXTENDS Naturals, Sequences

CONSTANTS
    Events,         \* ticks of the two EventBridge rules
    Schedule,       \* event -> its "schedule" field
    Payloads,       \* what one fetch from the Binance API may return
    Malformed,      \* the payloads BigQuery refuses for the table's schema
    NoData,         \* no payload fetched yet
    MaxDeliveries,  \* bound: how often EventBridge delivers one event
    MaxAttempts,    \* Lambda runs a failed asynchronous event up to 3 times
    MaxSends,       \* bound: how often the client library sends one request
    MaxDay,         \* bound: midnights the model lives through
    SleepSuffices,  \* a created table accepts rows within the 60 s sleep
    DedupForgets    \* BigQuery may forget an insertId before the last resend

Tables == {"ticker_prices", "ticker_price_change", "account_snaphsot"}
Attempts == Events \X (1..MaxDeliveries) \X (1..MaxAttempts)
Days == 0..MaxDay
Data == [payload : Payloads, day : Days]

ASSUME BoundsAssumption ==
    /\ MaxDeliveries \in Nat \ {0} /\ MaxAttempts \in Nat \ {0}
    /\ MaxSends \in Nat \ {0} /\ MaxDay \in Nat
ASSUME DataAssumption == Malformed \subseteq Payloads /\ NoData \notin Data
ASSUME FlagsAssumption == SleepSuffices \in BOOLEAN /\ DedupForgets \in BOOLEAN

(* Slips of the code the properties must notice are operators of their     *)
(* own, named for the slip after the definition they stand beside; nothing *)
(* in the specification uses them.                                         *)

LoadsOf_SnapshotFirst(s) ==
    CASE s = "every_30_min"  -> <<"ticker_prices">>
      [] s = "2_times_a_day" -> <<"account_snaphsot", "ticker_price_change">>
      [] OTHER               -> <<>>

(* The tables the handler loads for a schedule, in order; no table for a   *)
(* schedule it does not know.                                              *)
LoadsOf(s) ==
    CASE s = "every_30_min"  -> <<"ticker_prices">>
      [] s = "2_times_a_day" -> <<"ticker_price_change", "account_snaphsot">>
      [] OTHER               -> <<>>

Loads(i) == LoadsOf(Schedule[i[1]])

CreateRequest == [inv : Attempts, table : Tables, send : 1..MaxSends]
InsertRequest == [inv : Attempts, table : Tables, send : 1..MaxSends,
                  data : Data, key : Attempts \X Tables]

VARIABLES
    delivered,  \* event -> how often EventBridge has delivered it
    pc,         \* attempt -> the step lambda_handler is at
    load,       \* attempt -> which of Loads it is working on
    stamp,      \* attempt -> the day of _current_timestamp
    data,       \* attempt -> the list it fetched for this load
    call,       \* attempt -> state of the request it has outstanding
    sends,      \* attempt -> how often it sent that request
    created,    \* attempt -> it created the table of this load
    outcome,    \* attempt -> table -> what insert_json_into_table printed
    creates,    \* create_table requests BigQuery has not served
    inserts,    \* insertAll requests BigQuery has not served
    tbl,        \* table -> "absent", "fresh" (no rows accepted yet), "ready"
    rows,       \* the batches the tables hold: the requests that added them
    seen,       \* insertIds BigQuery remembers
    today

locals == <<load, stamp, data, sends, created>>
bigquery == <<tbl, rows, seen>>
network == <<creates, inserts>>
vars == <<delivered, pc, locals, call, outcome, network, bigquery, today>>

Steps == {"idle", "init", "fetch", "get_table", "create_table", "sleep",
          "insert", "done", "failed"}
Replies == {"ok", "conflict", "not_found", "row_errors", "refused"}

TypeOK ==
    /\ delivered \in [Events -> 0..MaxDeliveries]
    /\ pc \in [Attempts -> Steps]
    /\ load \in [Attempts -> {1, 2}]
    /\ stamp \in [Attempts -> Days]
    /\ data \in [Attempts -> Data \cup {NoData}]
    /\ call \in [Attempts -> {"idle", "waiting", "transient"} \cup Replies]
    /\ sends \in [Attempts -> 0..MaxSends]
    /\ created \in [Attempts -> BOOLEAN]
    /\ outcome \in [Attempts -> [Tables -> {"none", "inserted", "errors"}]]
    /\ creates \subseteq CreateRequest
    /\ inserts \subseteq InsertRequest
    /\ tbl \in [Tables -> {"absent", "fresh", "ready"}]
    /\ rows \subseteq InsertRequest
    /\ seen \subseteq Attempts \X Tables
    /\ today \in Days

Init ==
    /\ delivered = [e \in Events |-> 0]
    /\ pc = [i \in Attempts |-> "idle"]
    /\ load = [i \in Attempts |-> 1]
    /\ stamp = [i \in Attempts |-> 0]
    /\ data = [i \in Attempts |-> NoData]
    /\ call = [i \in Attempts |-> "idle"]
    /\ sends = [i \in Attempts |-> 0]
    /\ created = [i \in Attempts |-> FALSE]
    /\ outcome = [i \in Attempts |-> [t \in Tables |-> "none"]]
    /\ creates = {} /\ inserts = {}
    /\ tbl \in [Tables -> {"absent", "ready"}]
    /\ rows = {} /\ seen = {}
    /\ today = 0

Running(i) == pc[i] \notin {"idle", "done", "failed"}
Table(i) == Loads(i)[load[i]]

-----------------------------------------------------------------------------
(* EventBridge and Lambda's invocation queue. *)

(* A rule fires, or delivers an event it already delivered once more. *)
Deliver(e) ==
    /\ delivered[e] < MaxDeliveries
    /\ delivered' = [delivered EXCEPT ![e] = @ + 1]
    /\ UNCHANGED <<pc, locals, call, outcome, network, bigquery, today>>

(* Attempt k of a delivery is due once the attempt before it has failed. *)
Due(i) ==
    /\ i[2] <= delivered[i[1]]
    /\ i[3] > 1 => pc[<<i[1], i[2], i[3] - 1>>] = "failed"

Invoke(i) ==
    /\ pc[i] = "idle" /\ Due(i)
    /\ pc' = [pc EXCEPT ![i] = "init"]
    /\ UNCHANGED <<delivered, locals, call, outcome, network, bigquery, today>>

(* The execution ends; its memory is gone, its log and requests are not. *)
End(i, how) ==
    /\ pc' = [pc EXCEPT ![i] = how]
    /\ load' = [load EXCEPT ![i] = 1]
    /\ stamp' = [stamp EXCEPT ![i] = 0]
    /\ data' = [data EXCEPT ![i] = NoData]
    /\ call' = [call EXCEPT ![i] = "idle"]
    /\ sends' = [sends EXCEPT ![i] = 0]
    /\ created' = [created EXCEPT ![i] = FALSE]
    /\ UNCHANGED <<delivered, network, bigquery, today>>

(* An exception leaves the handler. *)
Raise(i) == End(i, "failed") /\ UNCHANGED outcome

(* Lambda kills an execution after 300 s, whatever it is doing. *)
Timeout(i) == Running(i) /\ Raise(i)

-----------------------------------------------------------------------------
(* The handler up to the data it loads. *)

CurrentTimestamp_OfContainer == 0

(* _current_timestamp, fixed when the helper is constructed. *)
CurrentTimestamp == today

(* BinanceHelper(): config, secrets, client, and the timestamp of all rows. *)
Construct(i) ==
    /\ pc[i] = "init"
    /\ pc' = [pc EXCEPT ![i] = "fetch"]
    /\ stamp' = [stamp EXCEPT ![i] = CurrentTimestamp]
    /\ UNCHANGED <<delivered, load, data, sends, created, call, outcome,
                   network, bigquery, today>>

(* A missing config key, a secret that cannot be read, a bad credential. *)
ConstructRaises(i) == pc[i] = "init" /\ Raise(i)

(* The else branch of the handler: an event of an unknown schedule. *)
RejectSchedule(i) == pc[i] = "fetch" /\ Loads(i) = <<>> /\ Raise(i)

AddMetadata_Now(i, p) == [payload |-> p, day |-> today]

AddMetadata(i, p) == [payload |-> p, day |-> stamp[i]]

(* get_latest_ticker_prices, get_ticker_price_change_24hrs or             *)
(* get_account_snapshot returns.                                          *)
Fetch(i) ==
    /\ pc[i] = "fetch" /\ Loads(i) # <<>>
    /\ \E p \in Payloads : data' = [data EXCEPT ![i] = AddMetadata(i, p)]
    /\ pc' = [pc EXCEPT ![i] = "get_table"]
    /\ UNCHANGED <<delivered, load, stamp, sends, created, call, outcome,
                   network, bigquery, today>>

(* A status other than 200, no connection, or an empty snapshotVos. *)
FetchRaises(i) == pc[i] = "fetch" /\ Loads(i) # <<>> /\ Raise(i)

-----------------------------------------------------------------------------
(* _create_table_if_not_exists *)

GetTableReturns(i) ==
    /\ pc[i] = "get_table" /\ tbl[Table(i)] # "absent"
    /\ pc' = [pc EXCEPT ![i] = "insert"]
    /\ UNCHANGED <<delivered, locals, call, outcome, network, bigquery, today>>

(* The bare except: 404 and any other error alike lead to create_table. *)
GetTableRaises(i) ==
    /\ pc[i] = "get_table"
    /\ pc' = [pc EXCEPT ![i] = "create_table"]
    /\ UNCHANGED <<delivered, locals, call, outcome, network, bigquery, today>>

(* A request goes out, or goes out again after a transient error. *)
Sending(i, step) ==
    /\ pc[i] = step
    /\ call[i] \in {"idle", "transient"}
    /\ sends[i] < MaxSends
    /\ sends' = [sends EXCEPT ![i] = @ + 1]
    /\ call' = [call EXCEPT ![i] = "waiting"]
    /\ UNCHANGED <<delivered, pc, load, stamp, data, created, outcome,
                   bigquery, today>>

SendCreate(i) ==
    /\ Sending(i, "create_table")
    /\ creates' = creates \cup
           {[inv |-> i, table |-> Table(i), send |-> sends[i] + 1]}
    /\ UNCHANGED inserts

(* The connection breaks; the request may have reached BigQuery or not. *)
ConnectionError(i) ==
    /\ call[i] = "waiting" /\ sends[i] < MaxSends
    /\ call' = [call EXCEPT ![i] = "transient"]
    /\ UNCHANGED <<delivered, pc, locals, outcome, network, bigquery, today>>

OnCreated(i) ==
    /\ pc[i] = "create_table" /\ call[i] = "ok"
    /\ pc' = [pc EXCEPT ![i] = "sleep"]
    /\ call' = [call EXCEPT ![i] = "idle"]
    /\ sends' = [sends EXCEPT ![i] = 0]
    /\ created' = [created EXCEPT ![i] = TRUE]
    /\ UNCHANGED <<delivered, load, stamp, data, outcome, network, bigquery,
                   today>>

SleepOver_AtOnce(i) == TRUE

(* What the 60 s are taken to be enough for. *)
SleepOver(i) == SleepSuffices => tbl[Table(i)] = "ready"

(* time.sleep(60) is over. *)
Wake(i) ==
    /\ pc[i] = "sleep" /\ SleepOver(i)
    /\ pc' = [pc EXCEPT ![i] = "insert"]
    /\ UNCHANGED <<delivered, locals, call, outcome, network, bigquery, today>>

-----------------------------------------------------------------------------
(* insert_json_into_table *)

InsertId_PerSend(i) == <<i, Table(i), sends[i]>>

(* The insertIds insert_rows_json draws once per call, for all resends. *)
InsertId(i) == <<i, Table(i)>>

SendInsert(i) ==
    /\ Sending(i, "insert")
    /\ inserts' = inserts \cup
           {[inv |-> i, table |-> Table(i), send |-> sends[i] + 1,
             data |-> data[i], key |-> InsertId(i)]}
    /\ UNCHANGED creates

LastLoad_OneMore(i) == load[i] > Len(Loads(i))

LastLoad(i) == load[i] = Len(Loads(i))

Printed_Swapped(i) == IF call[i] = "ok" THEN "errors" ELSE "inserted"

Printed(i) == IF call[i] = "ok" THEN "inserted" ELSE "errors"

(* Both outcomes are only printed; the handler goes on as if all was well. *)
OnInserted(i) ==
    /\ pc[i] = "insert" /\ call[i] \in {"ok", "row_errors"}
    /\ outcome' = [outcome EXCEPT ![i][Table(i)] = Printed(i)]
    /\ IF LastLoad(i)
       THEN End(i, "done")
       ELSE /\ pc' = [pc EXCEPT ![i] = "fetch"]
            /\ load' = [load EXCEPT ![i] = @ + 1]
            /\ data' = [data EXCEPT ![i] = NoData]
            /\ call' = [call EXCEPT ![i] = "idle"]
            /\ sends' = [sends EXCEPT ![i] = 0]
            /\ created' = [created EXCEPT ![i] = FALSE]
            /\ UNCHANGED <<delivered, stamp, network, bigquery, today>>

OnRefused_TriesAgain(i) ==
    /\ pc[i] \in {"create_table", "insert"}
    /\ call[i] \in {"conflict", "not_found", "refused"}
    /\ pc' = [pc EXCEPT ![i] = "get_table"]
    /\ call' = [call EXCEPT ![i] = "idle"]
    /\ sends' = [sends EXCEPT ![i] = 0]
    /\ UNCHANGED <<delivered, load, stamp, data, created, outcome, network,
                   bigquery, today>>

(* 409 Conflict, 404 or any other answer the client library does not retry. *)
OnRefused(i) ==
    /\ pc[i] \in {"create_table", "insert"}
    /\ call[i] \in {"conflict", "not_found", "refused"}
    /\ Raise(i)

-----------------------------------------------------------------------------
(* BigQuery, as the client library meets it. *)

(* Its answer reaches only a sender still waiting for this very request. *)
Awaited(m, step) ==
    /\ pc[m.inv] = step /\ call[m.inv] = "waiting"
    /\ Table(m.inv) = m.table /\ sends[m.inv] = m.send

Reply(m, step, answer) ==
    /\ call' = IF Awaited(m, step) THEN [call EXCEPT ![m.inv] = answer] ELSE call
    /\ UNCHANGED <<delivered, pc, locals, outcome, today>>

ServeCreate(m) ==
    /\ m \in creates
    /\ creates' = creates \ {m}
    /\ \/ /\ tbl[m.table] = "absent"
          /\ tbl' = [tbl EXCEPT ![m.table] = "fresh"]
          /\ Reply(m, "create_table", "ok")
       \/ /\ tbl[m.table] # "absent"
          /\ UNCHANGED tbl
          /\ Reply(m, "create_table", "conflict")
    /\ UNCHANGED <<inserts, rows, seen>>

(* All rows of a request are stored or none; an insertId it remembers is   *)
(* acknowledged without storing the rows again.                            *)
ServeInsert(m) ==
    /\ m \in inserts
    /\ inserts' = inserts \ {m}
    /\ \/ /\ tbl[m.table] # "ready"
          /\ UNCHANGED <<rows, seen>>
          /\ Reply(m, "insert", "not_found")
       \/ /\ tbl[m.table] = "ready" /\ m.data.payload \in Malformed
          /\ UNCHANGED <<rows, seen>>
          /\ Reply(m, "insert", "row_errors")
       \/ /\ tbl[m.table] = "ready" /\ m.data.payload \notin Malformed
          /\ rows' = IF m.key \in seen THEN rows ELSE rows \cup {m}
          /\ seen' = seen \cup {m.key}
          /\ Reply(m, "insert", "ok")
    /\ UNCHANGED <<creates, tbl>>

(* The request is lost, or answered with an error that is not retried. *)
Refuse(m) ==
    /\ \/ /\ m \in creates /\ creates' = creates \ {m}
          /\ Reply(m, "create_table", "refused") /\ UNCHANGED inserts
       \/ /\ m \in inserts /\ inserts' = inserts \ {m}
          /\ Reply(m, "insert", "refused") /\ UNCHANGED creates
    /\ UNCHANGED bigquery

(* A created table starts to accept streamed rows. *)
TableReady(t) ==
    /\ tbl[t] = "fresh"
    /\ tbl' = [tbl EXCEPT ![t] = "ready"]
    /\ UNCHANGED <<delivered, pc, locals, call, outcome, network, rows, seen,
                   today>>

(* De-duplication by insertId is best effort. *)
Forget(k) ==
    /\ DedupForgets /\ k \in seen
    /\ seen' = seen \ {k}
    /\ UNCHANGED <<delivered, pc, locals, call, outcome, network, tbl, rows,
                   today>>

(* An execution lives 300 s and its last request hardly longer, so neither *)
(* sees a second midnight.                                                 *)
Midnight ==
    /\ today < MaxDay
    /\ \A i \in Attempts : Running(i) /\ pc[i] # "init" => stamp[i] = today
    /\ \A m \in inserts : m.data.day = today
    /\ today' = today + 1
    /\ UNCHANGED <<delivered, pc, locals, call, outcome, network, bigquery>>

-----------------------------------------------------------------------------
Handler(i) ==
    \/ Invoke(i)
    \/ Construct(i) \/ ConstructRaises(i) \/ RejectSchedule(i)
    \/ Fetch(i) \/ FetchRaises(i)
    \/ GetTableReturns(i) \/ GetTableRaises(i)
    \/ SendCreate(i) \/ OnCreated(i) \/ Wake(i)
    \/ SendInsert(i) \/ OnInserted(i) \/ OnRefused(i)

Serve(m) == ServeCreate(m) \/ ServeInsert(m) \/ Refuse(m)

Environment ==
    \/ \E e \in Events : Deliver(e)
    \/ \E i \in Attempts : Timeout(i) \/ ConnectionError(i)
    \/ \E m \in creates \cup inserts : Serve(m)
    \/ \E t \in Tables : TableReady(t)
    \/ \E k \in seen : Forget(k)
    \/ Midnight

Next == (\E i \in Attempts : Handler(i)) \/ Environment

Spec == Init /\ [][Next]_vars

(* The answer to the request an attempt is waiting for. *)
Answer(i) ==
    \E m \in creates \cup inserts :
        /\ m.inv = i
        /\ Awaited(m, "create_table") \/ Awaited(m, "insert")
        /\ Serve(m)

(* Lambda runs what is due, the interpreter goes on, BigQuery answers a    *)
(* request that is still awaited and makes a created table usable.  No     *)
(* fault and no delivery is owed.                                          *)
Fairness ==
    /\ \A i \in Attempts : WF_vars(Handler(i)) /\ WF_vars(Answer(i))
    /\ \A t \in Tables : WF_vars(TableReady(t))

LiveSpec == Spec /\ Fairness

-----------------------------------------------------------------------------
(* A batch is in the raw tables at most once, however often its request    *)
(* was sent, resent and served (insert_rows_json and its row ids).         *)
UniqueRowId ==
    \A a, b \in rows : a.inv = b.inv /\ a.table = b.table => a = b

(* What insert_json_into_table prints is so: "successfully inserted" only  *)
(* for a batch that is stored, errors only for one of which no row is, and *)
(* a handler that returns has printed one of the two for every table.      *)
LoggedOutcomeIsTrue ==
    \A i \in Attempts :
        /\ \A t \in Tables :
              LET Stored == \E r \in rows : r.inv = i /\ r.table = t
              IN  /\ outcome[i][t] = "inserted" => Stored
                  /\ outcome[i][t] = "errors" => ~Stored
        /\ pc[i] = "done" =>
              \A n \in 1..Len(Loads(i)) : outcome[i][Loads(i)[n]] # "none"

(* No account snapshot of an attempt whose price change was not inserted   *)
(* or refused row by row before: the twice-a-day branch loads in order.    *)
LoadsInOrder ==
    \A r \in rows : r.table = "account_snaphsot" =>
        outcome[r.inv]["ticker_price_change"] # "none"

(* Every row of one attempt has the day the helper was constructed on,     *)
(* even when midnight passes between its two loads or a request is late:   *)
(* the dbt models join the two tables on that day.                         *)
OneDatePerInvocation ==
    \A a, b \in rows \cup inserts : a.inv = b.inv => a.data.day = b.data.day

(* The attempt that created a table is never told the table is not there:  *)
(* what the 60 s sleep is for.  (An attempt that only found it may be.)    *)
CreatorNotRefused ==
    \A i \in Attempts : created[i] => call[i] # "not_found"

(* One delivery leaves a table two batches only when the attempt that sent *)
(* the first one failed.  The price change may have been reported as       *)
(* inserted before, as the snapshot was still to come; of the other tables *)
(* nothing was reported, since their load is the last thing an attempt     *)
(* does: lambda_handler can fail no more once it has printed.              *)
DuplicateHasCause ==
    \A a, b \in rows :
        /\ a.table = b.table
        /\ a.inv[1] = b.inv[1] /\ a.inv[2] = b.inv[2] /\ a.inv[3] < b.inv[3]
        => /\ pc[a.inv] = "failed"
           /\ a.table # "ticker_price_change" => outcome[a.inv][a.table] = "none"

(* Every delivered event ends: an attempt of it returns, or all of its     *)
(* attempts fail.                                                          *)
EventEnds ==
    \A e \in Events, d \in 1..MaxDeliveries :
        delivered[e] >= d ~>
            \/ \E k \in 1..MaxAttempts : pc[<<e, d, k>>] = "done"
            \/ \A k \in 1..MaxAttempts : pc[<<e, d, k>>] = "failed"

(* The raw tables implement the append-only log the dbt project reads. *)
Log == {[id |-> <<r.inv, r.table>>, day |-> r.data.day,
         payload |-> r.data.payload] : r \in rows}

Raw == INSTANCE RawLog WITH BatchIds <- Attempts \X Tables, log <- Log

ImplementsRawLog == Raw!LogSpec

(* Each insert of an attempt, with what insert_json_into_table prints for  *)
(* its result, keeps the promise of one call of the client: "inserted" is  *)
(* printed of a batch that is stored, once unless BigQuery forgets, and    *)
(* nothing printed is ever taken back, the execution killed or not.        *)
Inserts == {c \in Attempts \X Tables : \E n \in DOMAIN Loads(c[1]) : Loads(c[1])[n] = c[2]}

ResultOf(c) ==
    CASE outcome[c[1]][c[2]] = "none"     -> "open"
      [] outcome[c[1]][c[2]] = "inserted" -> "ok"
      [] OTHER                            -> "failed"

CopiesOf(c) ==
    LET copies == {r \in rows : r.inv = c[1] /\ r.table = c[2]}
    IN  IF copies = {} THEN "none"
        ELSE IF \E r \in copies : copies = {r} THEN "once" ELSE "more"

Insert == INSTANCE InsertCalls WITH
              Calls <- Inserts,
              remembers <- ~DedupForgets,
              result <- [c \in Inserts |-> ResultOf(c)],
              stored <- [c \in Inserts |-> CopiesOf(c)]

ImplementsInsertCalls == Insert!Spec

=============================================================================

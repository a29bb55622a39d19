------------------------------- MODULE RawLog -------------------------------
(***************************************************************************)
(* What the ingestion Lambda promises to the dbt project: the raw tables   *)
(* (ticker_prices, ticker_price_change, account_snaphsot) are an           *)
(* append-only log of batches.  A batch is the list of rows one            *)
(* insert_json_into_table call sends; it becomes visible as a whole, its   *)
(* rows all carry the day of one invocation, a batch appears at most once, *)
(* and it is stamped with the current day or the day before (an invocation *)
(* and its requests in flight outlive at most one midnight).               *)
(***************************************************************************)
EXTENDS Naturals

CONSTANTS
    BatchIds,   \* identities of the calls: <<invocation, table>>
    Payloads,   \* what the Binance API may answer
    MaxDay      \* bound of the clock

VARIABLES
    log,        \* the batches the raw tables hold
    today       \* the current day (UTC), as a number

Batch == [id : BatchIds, day : 0..MaxDay, payload : Payloads]

LogTypeOK ==
    /\ log \subseteq Batch
    /\ today \in 0..MaxDay

LogInit ==
    /\ log = {}
    /\ today = 0

(* One streaming insert of a whole batch becomes visible. *)
AppendBatch(b) ==
    /\ \A c \in log : c.id # b.id
    /\ b.day <= today
    /\ today <= b.day + 1
    /\ log' = log \cup {b}
    /\ UNCHANGED today

Midnight ==
    /\ today < MaxDay
    /\ today' = today + 1
    /\ UNCHANGED log

LogNext ==
    \/ \E b \in Batch : AppendBatch(b)
    \/ Midnight

LogSpec == LogInit /\ [][LogNext]_<<log, today>>

=============================================================================

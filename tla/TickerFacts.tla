---------------------------- MODULE TickerFacts ----------------------------
(***************************************************************************)
(* The dbt models dim_tickers and fact_ticker_prices of one symbol, built  *)
(* once a day by src/scripts/run_dbt.sh from raw tables that grow          *)
(* meanwhile (RawLog).  A fact row keeps what its surrogate key is made of, *)
(* its updated_timestamp, and the batch it came from in place of its other *)
(* columns.                                                                *)
(***************************************************************************)
EXTENDS RawLog

CONSTANTS
    Names,          \* full names the seed may give the symbol
    DaysToIngest,   \* the dbt variable days_to_ingest
    Week,           \* days from one full refresh to the next
    Repeats,        \* two fetches may observe the same price and open time
    Clock           \* the time of day in the timestamp of each batch

ASSUME FactsAssumption ==
    /\ MaxDay \in Nat /\ DaysToIngest \in Nat /\ Week \in Nat \ {0}
    /\ Repeats \in BOOLEAN
    /\ Clock \in [BatchIds -> Nat]

Days == 0..MaxDay

(* A timestamp is a day and a time of that day. *)
Stamps == Days \X {Clock[i] : i \in BatchIds}
Stamp(b) == <<b.day, Clock[b.id]>>
Upto(s, t) == s[1] < t[1] \/ (s[1] = t[1] /\ s[2] <= t[2])

Symbol == [name : Names, start : Stamps]
Fact == [symbol : Symbol, day : Days, observed : Payloads, from : BatchIds,
         updated : Days]

VARIABLES
    image,      \* the name in the name_mapping.csv that is deployed
    seed,       \* the name_mapping table: the names it holds
    dim,        \* dim_tickers: the rows of the symbol
    built,      \* the table fact_ticker_prices exists
    facts,      \* its rows
    step,       \* where run_dbt.sh is
    ran,        \* today's run has started
    good,       \* history: the builds of fact_ticker_prices that succeeded
    renamed     \* history: dim's row changed since the last full build

marts == <<seed, dim, built, facts>>
vars == <<log, today, image, marts, step, ran, good, renamed>>

TypeOK ==
    /\ LogTypeOK
    /\ image \in Names
    /\ seed \in {{}} \cup {{n} : n \in Names}
    /\ dim \in {{}} \cup {{s} : s \in Symbol}
    /\ built \in BOOLEAN
    /\ facts \subseteq Fact
    /\ step \in {"idle", "dim", "facts"}
    /\ ran \in BOOLEAN
    /\ good \subseteq [day : Days, full : BOOLEAN]
    /\ renamed \in BOOLEAN

Init ==
    /\ LogInit
    /\ image \in Names
    /\ seed = {} /\ dim = {}
    /\ built = FALSE /\ facts = {}
    /\ step = "idle" /\ ran = FALSE
    /\ good = {} /\ renamed = FALSE

-----------------------------------------------------------------------------
(* What happens around the runs. *)

BatchesOf(table) == {b \in log : b.id[2] = table}

(* Ingestion adds a batch.  What is late after midnight is there before    *)
(* the run of 2 AM.                                                        *)
Ingested(b) ==
    /\ AppendBatch(b)
    /\ b.day < today => ~ran
    /\ ~Repeats /\ b.id[2] = "ticker_price_change" =>
          \A c \in BatchesOf("ticker_price_change") : c.payload # b.payload
    /\ UNCHANGED <<image, marts, step, ran, good, renamed>>

(* An image with another name_mapping.csv is deployed. *)
Deploy(n) ==
    /\ n # image /\ image' = n
    /\ UNCHANGED <<log, today, marts, step, ran, good, renamed>>

(* A run is over long before midnight. *)
NextDay ==
    /\ step = "idle"
    /\ Midnight
    /\ ran' = FALSE
    /\ UNCHANGED <<image, marts, step, good, renamed>>

-----------------------------------------------------------------------------
(* One run of the script. *)

Sunday == (today + 1) % Week = 0

(* The task starts; dbt seed loads the mapping, or fails and is ignored.   *)
StartRun ==
    /\ step = "idle" /\ ~ran
    /\ ran' = TRUE
    /\ step' = "dim"
    /\ seed' \in {seed, {image}}
    /\ UNCHANGED <<log, today, image, dim, built, facts, good, renamed>>

Start_Last(batches) ==
    CHOOSE s \in {Stamp(b) : b \in batches} : \A b \in batches : Upto(Stamp(b), s)

(* min(timestamp) over the symbol's prices. *)
Start(batches) ==
    CHOOSE s \in {Stamp(b) : b \in batches} : \A b \in batches : Upto(s, Stamp(b))

Tickers_Ungrouped ==
    [name : seed, start : {Stamp(b) : b \in BatchesOf("ticker_prices")}]

(* The query of dim_tickers: no row before the first price. *)
Tickers ==
    LET prices == BatchesOf("ticker_prices")
    IN  IF prices = {} THEN {} ELSE [name : seed, start : {Start(prices)}]

(* dim_tickers is a table: replaced by every run.  It needs the seed. *)
BuildDim ==
    /\ step = "dim" /\ seed # {}
    /\ dim' = Tickers
    /\ renamed' = (renamed \/ (dim # {} /\ dim' # dim))
    /\ step' = "facts"
    /\ UNCHANGED <<log, today, image, seed, built, facts, ran, good>>

(* The incremental filter keeps the last days; a full build has none.      *)
InWindow_Strict(b) == b.day + DaysToIngest > today

InWindow(b) == b.day + DaysToIngest >= today

FullBuild == Sunday \/ ~built

(* The query of fact_ticker_prices, joined with dim_tickers.               *)
Result ==
    {[symbol |-> s, day |-> b.day, observed |-> b.payload, from |-> b.id,
      updated |-> today] :
        s \in dim,
        b \in {c \in BatchesOf("ticker_price_change") : FullBuild \/ InWindow(c)}}

Key_WithUpdated(r) == <<r.symbol, r.day, r.observed, r.updated>>

(* What generate_surrogate_key hashes. *)
Key(r) == <<r.symbol, r.day, r.observed>>

Table == INSTANCE Incremental

(* A build of the symbol's facts counts only with the symbol to join.      *)
BuildFacts ==
    /\ step = "facts"
    /\ \/ FullBuild /\ facts' = Result
       \/ /\ ~FullBuild /\ ~Table!Ambiguous(facts, Result)
          /\ facts' = Table!Merge(facts, Result)
    /\ built' = TRUE
    /\ renamed' = (renamed /\ ~FullBuild)
    /\ good' = IF dim = {} THEN good
               ELSE good \cup {[day |-> today, full |-> FullBuild]}
    /\ step' = "idle"
    /\ UNCHANGED <<log, today, image, seed, dim, ran>>

(* A model fails, what is downstream of it is skipped, the script exits.   *)
(* (An ambiguous MERGE leaves no other way.)                               *)
Fail ==
    /\ step # "idle"
    /\ step' = "idle"
    /\ UNCHANGED <<log, today, image, marts, ran, good, renamed>>

-----------------------------------------------------------------------------
Next ==
    \/ \E b \in Batch : Ingested(b)
    \/ \E n \in Names : Deploy(n)
    \/ NextDay
    \/ StartRun \/ BuildDim \/ BuildFacts \/ Fail

Spec == Init /\ [][Next]_vars

-----------------------------------------------------------------------------
(* unique_key = ['id'] of fact_ticker_prices: however often the window is  *)
(* built again, no two rows share what the id is made of.                  *)
UniqueKey ==
    \A r, s \in facts :
        r.symbol = s.symbol /\ r.day = s.day /\ r.observed = s.observed => r = s

(* The builds that owe a batch of a day: one of the next DaysToIngest      *)
(* days, or any later full one.                                            *)
Owed(day) ==
    \E g \in good : day < g.day /\ (g.full \/ g.day <= day + DaysToIngest)

(* However many days failed, a price change is in the facts when one run   *)
(* within its window, or a later full refresh, built them.                 *)
NothingMissed ==
    \A b \in BatchesOf("ticker_price_change") :
        Owed(b.day) => \E r \in facts : r.from = b.id

(* And it is found under the symbol dim_tickers has, unless the symbol     *)
(* was given another id, by a new name or by an earlier start, and no full *)
(* refresh has followed.                                                   *)
JoinedUnlessRenamed ==
    \A b \in BatchesOf("ticker_price_change") :
        Owed(b.day) /\ ~renamed =>
            \E r \in facts : r.from = b.id /\ r.symbol \in dim

(* The start that the symbol's id is made of moves only when a batch with  *)
(* an earlier timestamp of the same day comes after dim_tickers was built: *)
(* it moves back within its day, and never once a run of a later day has   *)
(* built the facts.                                                        *)
StartSettles ==
    [][\A s \in dim, t \in dim' : t.start # s.start =>
           /\ t.start[1] = s.start[1] /\ t.start[2] < s.start[2]
           /\ \A g \in good : g.day <= s.start[1]]_vars

=============================================================================

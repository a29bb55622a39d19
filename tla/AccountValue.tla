---------------------------- MODULE AccountValue ----------------------------
(***************************************************************************)
(* The dbt model fact_daily_account_value: what the wallet was worth on    *)
(* each day.  It joins the prices of fact_ticker_prices, which the same    *)
(* run built before it, with the account snapshots of the raw table, under *)
(* the ids of dim_tickers.  The log (RawLog) holds ticker_price_change,    *)
(* whose payload is every asset's price in cents, and account_snaphsot,    *)
(* whose payload is every asset's balance, free and locked, in units of    *)
(* 1/Unit.  An asset's id is made of its name and its start; a name here   *)
(* stands for both, and a start that moves is like another name.           *)
(***************************************************************************)
EXTENDS RawLog, Integers, FiniteSets, FiniteSetsExt, Functions

CONSTANTS
    Assets,         \* the symbols ingested, all of them in ticker_prices
    Names,          \* what the seed and the start may make of an asset
    DaysToIngest,   \* the dbt variable days_to_ingest
    Week,           \* days from one full refresh to the next
    Scale,          \* a common multiple of the numbers of snapshots in a day
    Unit            \* units of balance that make one coin

ASSUME ValueAssumption ==
    /\ Payloads \subseteq [Assets -> Nat] /\ IsFiniteSet(Assets)
    /\ MaxDay \in Nat /\ DaysToIngest \in Nat /\ Week \in Nat \ {0}
    /\ Scale \in Nat \ {0} /\ Unit \in Nat \ {0}

Days == 0..MaxDay
Mapping == [Assets -> Names]
Price == [asset : Assets, name : Names, from : BatchIds]
Value == [day : Days, value : Nat, change : Int, updated : Days]

VARIABLES
    late,       \* the prices fetched after the midnight that followed their stamp
    image,      \* the name_mapping.csv that is deployed
    seed,       \* the name_mapping table: the mapping loaded last, if any
    dim,        \* dim_tickers: the mapping its ids are made of, if any
    builtP,     \* the table fact_ticker_prices exists
    prices,     \* its rows: the asset's id and the batch each comes from
    builtV,     \* the table fact_daily_account_value exists
    values,     \* its rows, in cents
    step,       \* where run_dbt.sh is
    ran,        \* today's run has started
    good        \* history: the days whose run built the values

marts == <<seed, dim, builtP, prices, builtV, values>>
vars == <<log, today, late, image, marts, step, ran, good>>

TypeOK ==
    /\ LogTypeOK
    /\ late \subseteq BatchIds \X Assets
    /\ image \in Mapping
    /\ seed \in {{}} \cup {{f} : f \in Mapping}
    /\ dim \in {{}} \cup {{f} : f \in Mapping}
    /\ builtP \in BOOLEAN /\ builtV \in BOOLEAN
    /\ prices \subseteq Price
    /\ values \subseteq Value
    /\ \A r, s \in values : r.day = s.day /\ r.updated = s.updated => r = s
    /\ step \in {"idle", "dim", "prices", "value"}
    /\ ran \in BOOLEAN
    /\ good \subseteq Days

Init ==
    /\ LogInit
    /\ late = {}
    /\ image \in Mapping
    /\ seed = {} /\ dim = {}
    /\ builtP = FALSE /\ prices = {}
    /\ builtV = FALSE /\ values = {}
    /\ step = "idle" /\ ran = FALSE
    /\ good = {}

BatchesOf(table) == {b \in log : b.id[2] = table}

-----------------------------------------------------------------------------
(* What happens around the runs. *)

(* Prices are positive; what is late after midnight is there before 2 AM.  *)
(* A batch is stamped before its prices are fetched, and each asset has an *)
(* open time of its own: of a batch that is late, some or all may be those *)
(* of a fetch on the next day.                                             *)
Ingested(b, slipped) ==
    /\ AppendBatch(b)
    /\ b.id[2] = "ticker_price_change" => \A a \in Assets : b.payload[a] > 0
    /\ b.day < today => ~ran
    /\ slipped # {} => b.id[2] = "ticker_price_change" /\ b.day < today
    /\ late' = late \cup ({b.id} \X slipped)
    /\ UNCHANGED <<image, marts, step, ran, good>>

(* An image whose name_mapping.csv gives an asset another name. *)
Deploy(a, n) ==
    /\ image[a] # n
    /\ image' = [image EXCEPT ![a] = n]
    /\ UNCHANGED <<log, today, late, marts, step, ran, good>>

NextDay ==
    /\ step = "idle"
    /\ Midnight
    /\ ran' = FALSE
    /\ UNCHANGED <<late, image, marts, step, good>>

-----------------------------------------------------------------------------
(* One run of the script. *)

IsSunday(day) == (day + 1) % Week = 0

(* dbt seed loads the mapping, or fails and is ignored. *)
StartRun ==
    /\ step = "idle" /\ ~ran
    /\ ran' = TRUE
    /\ step' = "dim"
    /\ seed' \in {seed, {image}}
    /\ UNCHANGED <<log, today, late, image, dim, builtP, prices, builtV, values, good>>

(* dim_tickers is replaced by every run.  It needs the seed. *)
BuildDim ==
    /\ step = "dim" /\ seed # {}
    /\ dim' = seed
    /\ step' = "prices"
    /\ UNCHANGED <<log, today, late, image, seed, builtP, prices, builtV, values,
                   ran, good>>

(* extract(date from timestamp) >= current_date - days_to_ingest *)
InWindow(b) == b.day + DaysToIngest >= today

(* fact_ticker_prices: the rows of the window under the ids of today; the  *)
(* key holds the id, the day, the price and its open time.                 *)
PricesSelected ==
    {[asset |-> a, name |-> names[a], from |-> b.id] : a \in Assets, names \in dim,
        b \in {c \in BatchesOf("ticker_price_change") :
                  IsSunday(today) \/ ~builtP \/ InWindow(c)}}

BuildPrices ==
    /\ step = "prices"
    /\ prices' = IF IsSunday(today) \/ ~builtP
                 THEN PricesSelected
                 ELSE prices \cup PricesSelected
    /\ builtP' = TRUE
    /\ step' = "value"
    /\ UNCHANGED <<log, today, late, image, seed, dim, builtV, values, ran, good>>

FullBuild == IsSunday(today) \/ ~builtV

Held_Zero(b, a) == TRUE

(* a.free > 0.0 or a.locked > 0.0 *)
Held(b, a) == b.payload[a] > 0

Snapshots_WindowOnly == {b \in BatchesOf("account_snaphsot") : InWindow(b)}

Snapshots ==
    {b \in BatchesOf("account_snaphsot") : FullBuild \/ InWindow(b)}

(* open_time: the day before the fetch, so the stamp's own if that was late. *)
OpenDay(b, a) == IF <<b.id, a>> \in late THEN b.day ELSE b.day - 1

OpenInWindow_Strict(b, a) == OpenDay(b, a) + DaysToIngest > today

(* The window of the prices is on open_time. *)
OpenInWindow(b, a) == OpenDay(b, a) + DaysToIngest >= today

(* The batches that fact_ticker_prices has under the present id of an asset. *)
Joined(a) ==
    {b \in log :
        /\ \E r \in prices, names \in dim :
              r.from = b.id /\ r.asset = a /\ r.name = names[a]
        /\ FullBuild \/ OpenInWindow(b, a)}

Rounded(n, d) == (2 * n + d) \div (2 * d)
SumOf(batches, a) == SumFunction([b \in batches |-> b.payload[a]])

(* round(avg(price), 2) *)
AvgPrice(batches, a) == Rounded(SumOf(batches, a), Cardinality(batches))

(* avg(free) + avg(locked), in units of 1/(Unit * Scale) *)
Quantity(batches, a) == (Scale * SumOf(batches, a)) \div Cardinality(batches)

(* A day's batches of each asset, of its prices and of its holdings. *)
OfDay(batches, day) == {b \in batches : b.day = day}
Priced(quotes, day) == [a \in Assets |-> OfDay(quotes[a], day)]
Holding(snapshots, day) ==
    [a \in Assets |-> {b \in OfDay(snapshots, day) : Held(b, a)}]

(* The assets that have both. *)
Counted(priced, holding) == {a \in Assets : priced[a] # {} /\ holding[a] # {}}

(* round(sum(avg_price * quantity), 2) *)
WalletOf(priced, holding) ==
    Rounded(
        SumFunction([a \in Counted(priced, holding) |->
                        AvgPrice(priced[a], a) * Quantity(holding[a], a)]),
        Scale * Unit)

ValuedDays(quotes, snapshots) ==
    {d \in Days : Counted(Priced(quotes, d), Holding(snapshots, d)) # {}}

Wallet(quotes, snapshots, day) ==
    WalletOf(Priced(quotes, day), Holding(snapshots, day))

(* lag(...) over (order by date_id) *)
Lag(days, day) == Max({d \in days : d < day})

Change_FromZero(quotes, snapshots, day) ==
    LET days == ValuedDays(quotes, snapshots)
    IN  IF \E d \in days : d < day
        THEN Wallet(quotes, snapshots, day)
             - Wallet(quotes, snapshots, Lag(days, day))
        ELSE Wallet(quotes, snapshots, day)

(* wallet_value - lag(wallet_value), 0 where there is no lag *)
Change(quotes, snapshots, day) ==
    LET days == ValuedDays(quotes, snapshots)
    IN  IF \E d \in days : d < day
        THEN Wallet(quotes, snapshots, day)
             - Wallet(quotes, snapshots, Lag(days, day))
        ELSE 0

Result_PerAsset ==
    UNION {{[day |-> d, value |-> Wallet(quotes, Snapshots, d),
             change |-> Change(quotes, Snapshots, d), updated |-> today] :
               d \in ValuedDays(quotes, Snapshots)} :
           quotes \in {[x \in Assets |-> IF x = a THEN Joined(a) ELSE {}] : a \in Assets}}

Result ==
    LET quotes == [a \in Assets |-> Joined(a)]
        snapshots == Snapshots
    IN  {[day |-> d, value |-> Wallet(quotes, snapshots, d),
          change |-> Change(quotes, snapshots, d), updated |-> today] :
            d \in ValuedDays(quotes, snapshots)}

(* What generate_surrogate_key hashes. *)
Key(r) == <<r.day, r.value>>

Table == INSTANCE Incremental

(* percentage_change divides by the lag: the query fails if one is zero.   *)
Divides(result) == \A r, s \in result : r.day < s.day => r.value # 0

BuildValue ==
    /\ step = "value"
    /\ LET result == Result
       IN  /\ Divides(result)
           /\ \/ FullBuild /\ values' = result
              \/ /\ ~FullBuild /\ ~Table!Ambiguous(values, result)
                 /\ values' = Table!Merge(values, result)
    /\ builtV' = TRUE
    /\ good' = good \cup {today}
    /\ step' = "idle"
    /\ UNCHANGED <<log, today, late, image, seed, dim, builtP, prices, ran>>

(* A model fails, what is downstream of it is skipped, the script exits.   *)
Fail ==
    /\ step # "idle"
    /\ step' = "idle"
    /\ UNCHANGED <<log, today, late, image, marts, ran, good>>

Run == StartRun \/ BuildDim \/ BuildPrices \/ BuildValue \/ Fail

Next ==
    \/ \E b \in Batch, slipped \in SUBSET Assets : Ingested(b, slipped)
    \/ \E a \in Assets, n \in Names : Deploy(a, n)
    \/ NextDay
    \/ Run

Spec == Init /\ [][Next]_vars

-----------------------------------------------------------------------------
(* What the rows should say, from all that was ever ingested.              *)
AllQuotes == [a \in Assets |-> BatchesOf("ticker_price_change")]
AllSnapshots == BatchesOf("account_snaphsot")
TrueDays == ValuedDays(AllQuotes, AllSnapshots)
TrueWallet(day) == Wallet(AllQuotes, AllSnapshots, day)
Before(day) == {d \in TrueDays : d < day}

(* The builds that saw the whole of a day: in the window of the prices,    *)
(* which is a day shorter than days_to_ingest, or on a Sunday.             *)
Owing(day) ==
    {g \in good : day < g /\ (IsSunday(g) \/ g + 1 <= day + DaysToIngest)}

Latest(day) ==
    {r \in values : r.day = day /\ \A s \in values : s.day = day => s.updated <= r.updated}

(* At the edge, where a day has left the window of the prices but not that *)
(* of the snapshots, an incremental build has its late prices only.        *)
LateQuotes == [a \in Assets |-> {b \in AllQuotes[a] : <<b.id, a>> \in late}]

Edge(day, g) ==
    /\ g = day + DaysToIngest /\ ~IsSunday(g)
    /\ day \in ValuedDays(LateQuotes, AllSnapshots)

(* What the build of day g makes of a day. *)
Shown(day, g) ==
    IF Edge(day, g) THEN Wallet(LateQuotes, AllSnapshots, day) ELSE TrueWallet(day)

(* A day's row that was updated last has the whole wallet, every asset at  *)
(* the day's average price, once a run saw the whole day, and neither a    *)
(* new name of an asset, nor a seed or a run that failed in between makes  *)
(* a total of a part of it.  One thing does until the next full refresh:   *)
(* the build at the edge, of a day some of whose prices were fetched after *)
(* midnight; it makes the total of those prices alone.                     *)
ValueRight ==
    \A d \in TrueDays : Owing(d) # {} =>
        /\ Cardinality(Latest(d)) = 1
        /\ \A r \in Latest(d) : r.value = Shown(d, r.updated)

(* The change on that row is the change since the last day before that has *)
(* a value, as the build shows both, or 0, which the edge of the window    *)
(* leaves behind.  Only the very first build may compare with another      *)
(* part, when it is not built together with all of the prices.             *)
ValueChangeTrueOrZero ==
    \A d \in TrueDays : Owing(d) # {} =>
        \A r \in Latest(d) :
            \/ r.change = 0
            \/ ~IsSunday(r.updated) /\ r.updated = Min(good)
            \/ /\ Before(d) # {}
               /\ r.change = r.value - Shown(Max(Before(d)), r.updated)

(* The query fails on a division by zero only if what it shows of some day *)
(* rounds to 0.00: the whole wallet, or what the late prices make of it at *)
(* the edge, but never for a day on which nothing was held.  The first     *)
(* build is excepted again.                                                *)
FailsOnDustOnly ==
    step = "value" /\ ~Divides(Result) /\ (IsSunday(today) \/ builtV) =>
        \E d \in TrueDays :
            /\ d < today /\ Shown(d, today) = 0
            /\ \E b \in OfDay(AllSnapshots, d), a \in Assets : b.payload[a] > 0

-----------------------------------------------------------------------------
(* To its readers the table is a fact that settles, in a window that is a  *)
(* day shorter: a day that a build saw whole has the whole wallet on the   *)
(* row updated last, or no row if nothing had both price and balance, and  *)
(* neither a late batch, nor a new name, nor a later build changes that;   *)
(* but for the days divided by midnight, only some of whose prices are     *)
(* late.                                                                   *)
Truth ==
    [d \in Days |-> IF Counted(Priced(AllQuotes, d), Holding(AllSnapshots, d)) # {}
                    THEN {TrueWallet(d)} ELSE {}]

Divided(day) ==
    LET rows == {b.id : b \in OfDay(BatchesOf("ticker_price_change"), day)} \X Assets
    IN  rows \cap late # {} /\ ~(rows \subseteq late)

DividedDays == {d \in Days : Divided(d)}
Settled == {d \in Days \ DividedDays : Owing(d) # {}}
Report == [d \in Days |-> {r.value : r \in Latest(d)}]

Settling == INSTANCE SettledFact WITH
    Window <- DaysToIngest - 1, Values <- Nat, divided <- DividedDays,
    runs <- good, truth <- Truth, settled <- Settled, report <- Report

ImplementsSettledFact == Settling!Spec

=============================================================================

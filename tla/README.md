# Verification of the Binance ELT pipeline

TLA+ specifications of the program in this repository: an AWS Lambda function
that loads prices and an account snapshot from the Binance API into BigQuery,
and a dbt project that turns the raw tables into facts once a day.  TLC checks
the specifications on small instances; TLAPS proves the safety properties, the types
and the refinements for every instance.

## 1. The system

| part | state it keeps | operations |
|---|---|---|
| EventBridge rules (`src/infrastructure/AWS/lambda_triggers.tf`) | - | every 30 minutes `{"schedule": "every_30_min"}`, at noon and midnight `{"schedule": "2_times_a_day"}`; at least once |
| Lambda's invocation queue (`lambda.tf`, timeout 300 s) | the events not yet done | runs an event, again after a failure, at most three times in all |
| `lambda_handler` (`src/lambda/main.py`) and its helpers (`src/lambda/utils.py`) | one helper object per execution: secrets, client, `_current_timestamp` | fetch, create the table if needed, insert; for one table or for two in order |
| BigQuery client library (vendored under `src/lambda/google/`) | the request it is retrying | resends on transient errors for up to 600 s, with the insertIds drawn once per call |
| BigQuery (external) | tables, rows, insertIds it remembers | `tables.get`, `tables.insert`, `tabledata.insertAll`, queries, MERGE |
| `run_dbt.sh` on Fargate, 2 AM daily (`src/scripts/run_dbt.sh`, `fargate.tf`) | exit code | `dbt deps`, `dbt seed` (failures ignored), `dbt run` (`--full-refresh` on Sunday), `dbt test` |
| dbt models (`src/dbt_binance/models/prices`) | `dim_tickers`, `fact_ticker_prices`, `fact_daily_tickers_quantity`, `fact_daily_account_value`, `dim_date` | table rebuild, incremental MERGE over the last `days_to_ingest` days, full refresh |
| alarms (`lambda.tf`, `fargate.tf`, `sns.tf`) | - | mail on a Lambda error, on a container that stops with an exit code other than 0 |
| deployment (`.circleci/config.yml`, `Dockerfile`, `.tf`) | the images and resources deployed | build and apply |

The parts meet in three places only.  EventBridge starts executions of the
handler, which share nothing but BigQuery.  The handler appends to the raw
tables, which the dbt project only reads.  The script runs the dbt models in
the order of their `ref`s, and its exit code is all the alarm sees.

What is hard here:

* **Executions overlap and repeat.**  An event may be delivered twice, is
  retried after a failure, and its executions race to create a table that
  BigQuery accepts rows for only a while later.
* **Requests outlive their senders.**  A response may be lost, the request
  resent, and served after the execution was killed at 300 s.
* **Failures are partial.**  The twice-a-day branch commits its first load
  before it fetches the second; a retry repeats the first.  Errors of an insert
  are printed and forgotten; the bare `except` takes every error of `get_table`
  for a missing table.
* **The clock moves.**  An execution started at 23:59 loads its second table
  tomorrow; the timestamp is fixed at construction, the open times of the prices
  by the fetch, and the two may be on different days.
* **One exit code stands for a graph.**  `dbt run` builds four models with four
  threads; the script ignores the exit codes of `dbt deps` and `dbt seed`; the
  task may be started twice on a day, and nothing locks the tables the two replace.
* **Daily builds see a moving window.**  A run that fails for longer than the
  window leaves a gap until Sunday; a surrogate key that hashes values, a
  dimension whose id changes with the seed, and duplicates in the raw tables
  all meet in MERGE.

What makes each part correct:

* the client library: a call ends, and stores its batch at most once however
  often it is resent;
* ingestion: a batch is stored at most once per call, what is printed is true,
  loads come in order, one date per execution, a second batch of an event has a
  failed attempt behind it, every delivered event ends;
* dbt: ids are unique, no batch is missed that a run in its window or a later
  full refresh could see, facts join with the dimension unless its ids moved,
  which they do within narrow limits; of a day's quantities and wallet values the
  row updated last is right, or it is known how it can be wrong;
* the script: the exit code tells whether the data are up to date, and somebody
  hears of it when they are not.

The complete list of hazards, each at its line with the properties that guard
it, is in `PROJECT.json`.

## 2. The modules

| module | models | relation |
|---|---|---|
| `RawLog` | what ingestion promises: an append-only log of dated batches | abstract specification |
| `InsertCalls` | what `insert_rows_json` promises: a call that returns has stored its batch, and once | abstract specification |
| `Ingest` | EventBridge, Lambda, `lambda_handler`, the helpers, the client library's retries, BigQuery | implements `RawLog` and, per insert, `InsertCalls` |
| `MCIngest` | instances of `Ingest` for TLC | extends `Ingest` |
| `IngestProofs` | theorems about `Ingest` | extends `Ingest` |
| `Incremental` | dbt's MERGE with a `unique_key` | operators, instantiated by the fact models |
| `TickerFacts` | `run_dbt.sh`, `dim_tickers`, `fact_ticker_prices` of one symbol | extends `RawLog`, its environment |
| `MCTickerFacts` | instances of `TickerFacts` for TLC | extends `TickerFacts` |
| `TickerFactsProofs` | theorems about `TickerFacts` | extends `TickerFacts` |
| `SettledFact` | what a daily fact promises: a day some run saw whole is right and stays so | abstract specification |
| `DailyQuantity` | `fact_daily_tickers_quantity` of one asset | extends `RawLog`, its environment; implements `SettledFact` |
| `MCDailyQuantity` | instances of `DailyQuantity` for TLC | extends `DailyQuantity` |
| `DailyQuantityProofs` | theorems about `DailyQuantity` | extends `DailyQuantity`, `Sums` |
| `AccountValue` | `fact_daily_account_value` over several assets, after `dim_tickers` and `fact_ticker_prices` of the same run | extends `RawLog`, its environment; implements `SettledFact` |
| `MCAccountValue` | an instance of `AccountValue` for TLC | extends `AccountValue` |
| `AccountValueProofs` | theorems about `AccountValue` | extends `AccountValue`, `Sums` |
| `Extrema` | lemmas about the least and the greatest of a set of days | extended by `Sums` |
| `Sums` | lemmas about sums over finite sets, and about quotients and products of naturals | used by the two above |
| `DbtRun` | the task: `run_dbt.sh`, dbt's scheduler and threads, the exit code, the mail | the rows of the models are left to the modules above |
| `DbtRunProofs` | theorems about `DbtRun` | extends `DbtRun` |
| `ClientRetry` | one call of the BigQuery client, in time: back-off, deadline, token, the Lambda's limit | implements `InsertCalls`, as `Ingest` does |
| `ClientRetryProofs` | theorems about `ClientRetry` | extends `ClientRetry` |

`RawLog` is where the two halves of the system meet.  `Ingest` is shown to
implement it, and the dbt modules take it as all they know of ingestion: what
is proved of the facts rests on what is proved of the Lambda.  In particular
`RawLog` allows a batch to arrive dated yesterday, because `Ingest` does.

`InsertCalls` is where `Ingest` and `ClientRetry` meet.  The first has the resends
of a call without time, among other executions; the second has one call alone, with
its back-off, token, deadline and limit.  Both are shown to keep the one promise:
success is reported only of a batch that is stored, and it is stored once where
BigQuery remembers (`~DedupForgets` in the one, `Memory >= limit + Delay` in the
other).  The result of a call is its exception or return value in `ClientRetry`, and
what is printed in `Ingest`, where a killed attempt leaves its call open.

`SettledFact` is what the readers of the two daily facts may rely on, and says
nothing of how a row is computed: a run that succeeds settles the days of its
window that are over, and perhaps others; from then on the row updated last says of
such a day what the raw tables say, whatever is ingested, fails or is built later,
and there is none if they say nothing.  That raw tables never say anything new of a
settled day is part of it: a late batch comes before the run of 2 AM.

A definition named after another with a suffix (`LoadsOf_SnapshotFirst` beside
`LoadsOf`) is a slip of that code, kept so that each property can be seen to
fail for it; no specification uses it.

### 2.1 `Ingest`

An *attempt* `<<event, delivery, k>>` is one execution of `lambda_handler`.

| TLA+ | code |
|---|---|
| `Deliver`, `Due`, `Invoke` | the two rules and their targets; Lambda's asynchronous invocation: at least once, up to three attempts |
| `pc`, `load` | where in `lambda_handler` the attempt is; which of the tables of its branch it is loading |
| `Construct`, `stamp` | `BinanceHelper()`, which fixes `_current_timestamp` |
| `RejectSchedule` | the `else` branch and its `ValueError` |
| `Fetch`, `AddMetadata`, `data` | the three getters; the list of rows, one payload and one day |
| `FetchRaises`, `ConstructRaises` | any exception there (`raise response.text`, a missing key, `snapshotVos[-1]`) |
| `GetTableReturns`, `GetTableRaises` | `_create_table_if_not_exists`: the `try` and the bare `except`, which a table that exists does not rule out |
| `SendCreate`, `SendInsert`, `ConnectionError`, `sends`, `call` | `create_table` and `insert_rows_json` with the client library's resends; each is a message of its own in `creates` or `inserts` |
| `OnCreated`, `Wake` | the 60 s sleep after a creation |
| `OnInserted`, `outcome` | the two `print`s at the end of `insert_json_into_table`, after which the handler goes on or returns |
| `OnRefused` | any error the library raises: 409 for an existing table, 404 for a table not ready, and the others |
| `Timeout` | the 300 s limit: memory is lost, messages and tables are not |
| `ServeCreate`, `ServeInsert`, `Refuse`, `TableReady`, `Forget` | BigQuery |
| `rows`, `tbl`, `seen` | what the tables hold, by request; the tables; the insertIds BigQuery remembers |

A batch stands for all rows of one fetch.  The code sends them in one request
and looks at the answer only as a whole, so that nothing tells them apart.
`get_table` only reads; its answer, true or an error, is one step.

Two flags state what the code relies on and cannot enforce.  `SleepSuffices`:
60 s after its creation a table accepts rows.  `DedupForgets`: BigQuery may
forget an insertId before the last resend.  Properties that need one name the
run, or the theorem's hypothesis, where it is set.

### 2.2 `TickerFacts`

One run is `StartRun`, `BuildDim`, `BuildFacts`, with `Fail` possible at each
point and at most one run a day; a day without `StartRun` is a run that never
came.  `StartRun` includes `dbt seed`, which loads the mapping of the deployed
image or fails without consequence.  `Sunday` is every `Week`th day, when
`FullBuild` replaces the table; otherwise the result of the query over the
window is merged, which MERGE refuses when two source rows match one target
(`Incremental!Ambiguous`; the run then can only `Fail`).  Ingestion appends
batches between any two of these steps.  `good` and `renamed` are history:
which builds succeeded, and whether the symbol's id changed since the last
full one.

A fact row keeps the three things its surrogate key is made of, the symbol's
id, the day, and what was observed (price and open time), with the batch it
came from in place of its other columns.  Symbols do not meet in these two
models, so that one is enough.

A batch has a day and, by `Clock`, a time of that day (`Stamp`), as `dim_tickers`
hashes the least full timestamp of the symbol into its id (`Start`).  Batches of one
day arrive in any order: the one that was stamped first may have slept, or been
resent, while the others were stored.  So the start can move after a run has built
the dimension, on the very day of the first batch, and then the facts outside the
next window keep the old id until a full refresh.  `StartSettles` says how far this
goes: it moves back within that day, and never once a run of a later day has built
the facts.  `renamed` counts such a move as it counts a new name.

A batch that is late after midnight is there before the run of 2 AM: its
execution started before midnight and lives 300 s.

### 2.3 `DailyQuantity`

A payload is an asset's balance.  `Build` is the whole model:
`Selected` (holdings in the window), `Quantity` (the `Average`
over a day, in units of `1/Scale`), `Lag` and `Change`, then MERGE on an id that
holds the quantity.  `Divides` says that the query's division succeeds.  Sums are
`SumFunction` of the community modules.  To `SettledFact` a day is settled when a
build that succeeded saw it whole (`Settled`), the truth is the average over all
snapshots there are (`Truth`), and the report is the quantity of the row updated
last (`Report`).

### 2.4 `AccountValue`

One run is `StartRun` (with the seed), `BuildDim`, `BuildPrices`, `BuildValue`,
with `Fail` possible at each point and ingestion between any two.  The query is
followed step by step:

| TLA+ | `fact_daily_account_value.sql` |
|---|---|
| `Snapshots`, `Held`, `InWindow`, `Quantity` | `current_portfolio` |
| `Joined`, `OpenInWindow`, `AvgPrice` | `avg_daily_ticker_prices`: the rows of `fact_ticker_prices` under the asset's present id, within a window of `open_time` |
| `Counted` | the join of the two |
| `WalletOf`, `Rounded` | `total_value` |
| `Lag`, `Change`, `Divides` | `total_value_change` |
| `Key`, `BuildValue` | the id and the MERGE |

A price has the day of its stamp, as the holdings do, but leaves the window by its
open time, a day before the fetch (`OpenDay`).  The stamp is fixed when the helper
is constructed, and midnight may pass between it and the fetch, as it may in
`Ingest`.  `late` holds the prices this happened to, for each asset on its own as
each has an open time of its own: they stay in the window a day longer than the
others of their day.  Such a batch reaches the table after that midnight, and
before the run of 2 AM, which `Ingested` says.  So there is an *edge*, the day on
which the holdings of a day are in their window and of its prices the late ones
only; an incremental build then makes a wallet of these alone (`Shown`), or none if
there are none.

Three things are taken as given.  Binance's clock and that of the Lambda agree on
the day, and the open time is 24 hours before the fetch, which is never before
the stamp.  Two batches never have both price and open time in common; what happens
when they do is `facts_repeats`.  Every asset has been seen in `ticker_prices`, so
that the dimension has it.  An asset's id is made of its name and its start; a name
here stands for both, so that a start that moves is a renaming like any other.

To `SettledFact` this is a fact with a window of `DaysToIngest - 1` days, as the
prices of the day before that have left theirs, but for the days that midnight
divided (`Divided`: some of the prices are late and some are not).  What a build
says of such a day depends on whether it comes at the edge, so that it never
settles; a day all of whose prices are late, or none, does.

### 2.5 `DbtRun`

A task `<<day, k>>` goes through the commands of `run_dbt.sh` in order; `pc` is
the command.  Of a table it is kept how recent the raw data are that it reflects
(`asOf`), through everything it is built from.  The measure is a *moment*, the task
that was launched last (`now`) when the data were read; `Earlier` is a day before
the first, `Never` a table that does not exist.  `Reads` takes the oldest at the
moment the query starts, `ModelOk` stores it when the query is done, over whatever
is there by then: of two tasks that overlap, the first may put its older result in
the place of the second's newer one, and in the instance does.  `since` is history:
the launch with which the unbroken overlap of tasks began that a task is part of,
its own if nobody was working (`Working`) when it was launched.

Freshness is that of raw data.  The seed has none: a run over the mapping of an
earlier day reads raw data as recent as any other, and what the stale names do to
the rows is the subject of `TickerFacts` and `AccountValue`, where the seed may fail
unseen (`StartRun`).

| TLA+ | code |
|---|---|
| `Launch`, `TaskLost`, `Killed` | the schedule, at least once; a task the platform loses; a container killed for want of memory |
| `SecretUnset`, `SecretSet`, `Deps`, `Seed`, `RunDbt`, `RunAborts`, `RunFails`, `RunSucceeds`, `Test` | the script, line by line; the exit codes of `dbt deps` and `dbt seed` are not looked at |
| `Refs`, `Ready`, `StartModel`, `ModelOk`, `ModelError`, `Skip`, `Threads` | the graph of the four models that `--exclude tag:static` leaves, and what dbt does with it |
| `asOf["dim_date"]` | built by hand or missing; no run builds it |
| `Init` | the dataset as earlier runs left it: new, or with the tables of earlier days, each with those it is built of |
| `Matches`, `Notify` | the event pattern of the container-stopped rule and its target |

A query that runs when its task dies is finished by BigQuery.

### 2.6 `ClientRetry`

One call, from its start (`now = 0`) to the moment the last request on its way
has been served.  `TransientError`, `GivesUp`, `NextDelay` and `Wake` are
`retry_target` with its helpers; `Granted`, `GrantAgain`, `GrantRefused` and
`GrantUnreachable` the refresh of the token; `Send` and `Unauthorized` the
authorized session, which after a 401 refreshes and sends again by itself, up to
`MaxRefresh` times inside one attempt of the loop; `Kill` the Lambda's limit.
`limit` is what is left of the execution when the call starts, so that the
instances have calls that are killed long before the client would give up, as
in the Lambda (300 s against 600 s), and calls for which the deadline strikes
first.  Time is abstract; only the order of the limits matters.

Read from the code, and in the model: a request has no timeout of its own
(`DEFAULT_TIMEOUT` is `None`); a `RefreshError` ends the call even when its flag
says that it is retryable; after a refresh that failed on the network the next
attempt sends the old token again; a sleep is anything between 0 and
`max_delay`, although the docstring of `exponential_sleep_generator` calls
`initial` the least one.

## 3. Runs

| run | instance | what it shows |
|---|---|---|
| `ingest_twice` | one twice-a-day event, two attempts, two sends of a request, two midnights | `OneDatePerInvocation`; `ImplementsRawLog`, `ImplementsInsertCalls`: the Lambda refines `RawLog`, and each of its inserts a call; the types |
| `ingest_race` | one half-hourly event delivered twice, two attempts each, so up to two executions at once | `UniqueRowId` and `CreatorNotRefused` under resends, kills and a race to create the table |
| `ingest_forgets` | the twice-a-day event, malformed batches, `DedupForgets`, `~SleepSuffices` | `LoggedOutcomeIsTrue`, `LoadsInOrder` and `DuplicateHasCause` need neither assumption |
| `ingest_live` | a half-hourly event and one of an unknown schedule, three attempts each, fairness | `EventEnds` |
| `facts_daily` | two batches of prices, stamped at two times of day, in any order and possibly late, two price changes, two names, window of a day, week of 4, 5 days | `UniqueKey`, `NothingMissed`, `JoinedUnlessRenamed`, `StartSettles`; the types |
| `facts_repeats` | one batch of prices and two price changes that may observe the same | `UniqueKey` is violated, see below |
| `quantity_daily` | three snapshots of balance 0, 1 or 3, window of 2 days, week of 5, 7 days | `LatestIsRight`, `ChangeTrueOrZero`, `ChangeTrueInside`, `SundayExact`, `NeverDividesByZero`; `ImplementsSettledFact`; the types |
| `value_daily` | two assets, two price changes of which one may be fetched after midnight for one asset or both, two snapshots of which one may be dust or nothing, a renaming, window of 2 days, week of 4, 4 days | `ValueRight`, `ValueChangeTrueOrZero`, `FailsOnDustOnly`; `ImplementsSettledFact`; the types |
| `dbt_overlap` | two tasks on one day, overlapping or one after the other, over tables of earlier days or none, four threads | `GreenMeansFresh`, `OthersAreBuilt`; the types |
| `dbt_days` | a task a day for two days, over tables of earlier days or none, two threads, fairness | `FreshOrMailed` |
| `dbt_codes` | one task | `MailMeansExitOne` is violated, see below |
| `retry_call` | up to four requests, a deadline of 4, a limit of 0 to 6, fairness | `StoredOnce`, `NeverOutOfRetries`, `RetriesStartInTime`, `CallEnds`, `ImplementsInsertCalls`; the types |

**The findings.**  `fact_ticker_prices` declares `unique_key = ['id']`, but its
query returns one row per batch.  When two batches of a day observe the same
price and open time, a full build stores two rows with one id (`facts_repeats`
needs one run for it), and every incremental build that has one of the two in
its window fails in MERGE.  Two executions of one event that was delivered
twice can fetch the same answer, and a resent insert that BigQuery did not
recognise stores one answer twice; `DuplicateHasCause` tells that the retries of
one delivery add a second batch only after a failed attempt.

The rule on stopped containers is described as one for exit code 1
(`fargate.tf:94`), its pattern matches all but 0 (`fargate.tf:118`), which is
the better choice: with exit code 1 only, `FreshOrMailed` fails (its mutant
`Matches_One`), as nobody would hear of a dbt that aborts or is killed.

**What else the models say.**  A snapshot row of
`fact_daily_tickers_quantity` can be stale until Sunday, and the change at the
trailing edge of the window turns to 0 on each run; `LatestIsRight` and
`ChangeTrueOrZero` say how far this goes: the row updated last is right, and
its change is the true one or 0, never another number.  `CreatorNotRefused`
holds for the creator of a table only: another execution that finds the new
table in `get_table` goes straight on to insert, is refused with 404, and
relies on its retry.

The wallet's value of a day is a total over the assets that have both a price
and a balance.  `ValueRight` says that, once one run saw the whole day, the row
updated last has the whole wallet, with one exception.  Where midnight passed
between the stamp and the fetch of a batch, the build at the edge of the window
replaces the value of that day by the one of the late prices alone, which may be
an average of fewer prices or a total of fewer assets; it stays until Sunday's full
refresh, as no other build has the day in its window again.  On all other days the
prices of a day leave their window together, and the day then has no row at all in
the result.  The changes follow: a change at the edge is that of what is shown
there.  Apart from this, the first
build after a day on which `fact_ticker_prices` was built but this model failed
is a full one over prices that are not complete, and compares with a total of a
part until Sunday; `ValueChangeTrueOrZero` and `FailsOnDustOnly` except it by
name.  A wallet that was worth less than half a cent on some day makes the query
divide by zero, and the model fails until that day has left the window, on each
Sunday after too; the wallet of the late prices may do the same at the edge.
`FailsOnDustOnly` says that nothing else does.

`GreenMeansFresh` says what exit code 0 is worth.  Without overlap, every table
reflects raw data from after the launch of the task.  With it, a task may end with
0 and leave a table that the other replaced by an older read, but by none from
before the first of the overlapping tasks was launched.  It holds although two exit
codes are ignored: without the packages `dbt run` does not compile, and without the
seed's table, on a new dataset, `dim_tickers` fails.  It says nothing of names: a
seed that failed leaves the mapping of an earlier day, and the exit code is 0.  On a
dataset without `dim_date` every run fails, and every day a mail is sent.  The one
case in which data are stale and nobody hears of it is a task that does not end by
itself (`TaskLost`): its `stoppedReason` is not the one the pattern asks for, and the
metric of the other alarm, `EcsTaskFailures`, is written by nothing in the
repository.

`StoredOnce` and, in `Ingest`, `UniqueRowId` rest on BigQuery knowing an
insertId for as long as the execution and a late request last, which BigQuery
does not promise for 300 s; `ingest_forgets` and `DuplicateHasCause` are about the
other case.  `CallEnds` rests on the Lambda's limit: outside of it, a call whose
answer never comes does not end.

**Bounds.**  `MaxDeliveries` 2 and `MaxAttempts` 2 or 3 give two executions of
one event side by side, and one after the other; Lambda itself stops at 3, and
the third attempt differs from the second only in that nothing follows it, which
only `EventEnds` is about.  `MaxSends` 2 is one resend: a request served twice, or
served after a later one.  `MaxDay` 2 in `Ingest` is one midnight inside an
attempt and one between two attempts.  In `TickerFacts` and
`DailyQuantity`, days exceed the week, and the week exceeds the window by two days
and more, so that a batch can be inside the window, beyond it, and reached by a
full refresh after that; two
batches are the fewest that collide, three snapshots the fewest that give a day
two and its predecessor one.  `Scale` 6 makes the averages of one to three
snapshots exact.  The second batch of prices of `facts_daily` is stamped later in its
day than the first and may arrive before it, which is the order that moves the
start; nothing looks at the time of day of a price change.  In `AccountValue` two assets are the fewest of which a total
can be a part, and `Scale` 2 and `Unit` 4 make a balance of one unit dust; both
snapshots can be on one day, and the last day is a Sunday, whose full refresh
reaches a day beyond the window: with a week shorter by a day, a build that sees no
more than its window on a Sunday would go unnoticed.  To keep this instance within
reach, `MCAccountValue` lets the second batch of each table come before the run of
its day only, and the first at any time, late or not, its prices of one asset or of
both slipped; and an image is deployed only after some prices were built and before
the run of a day, as one that is deployed after it is read by the next run, too.
The theorems have none of these limits.  In `DbtRun`, two tasks
of a day are the fewest that meet, and four models take at most four threads.
Two tasks on each of two days have about the square of the 2.5 million states of
one day; instead, `Init` has all the tables that earlier days may have left, which
is all that a day inherits from another, since a day ends when its runs have
(`Midnight`).  So every table can be missing, stale or fresh in `dbt_overlap`, and
`dbt_days` has the second day itself.  In `ClientRetry`, the delay doubles once before it is capped, the
deadline lies between the smallest and the largest limit, and `Memory` lies
between them, too, so that hypotheses of `StoredOnce` and `NeverOutOfRetries` are
true in some behaviours and false in others.

**Deadlock** is not checked: every instance stops when its bounds are used up.
`EventEnds`, `FreshOrMailed` and `CallEnds` are what guards against waiting for
ever.

**Fairness** (`LiveSpec`).  Weak fairness of an attempt's own steps: Lambda
runs what is in its queue, and an execution that is not killed goes on.  Weak
fairness of the answer to a request some attempt still awaits: the HTTP call
returns or raises.  Weak fairness of `TableReady`.  Nothing is assumed of
faults, deliveries, late requests or the clock; in particular not `Timeout`,
so that `EventEnds` does not rest on executions being killed.  In `DbtRun`: the
script goes on, dbt's threads go on, a query ends one way or the other
(`job_execution_timeout_seconds`), and a state change reaches the rule; nothing
makes a task start.  In `ClientRetry`: a sleep ends, a request reaches BigQuery
or is lost, an execution over its limit is killed, and time passes.  The clock
has strong fairness, because sleeps of length 0 keep disabling it and enabling
it again: time passes all the same.  Nothing is said of answers.

**Symmetry** is declared for price changes, observations and names in the instances
of `TickerFacts` (not for the batches of prices, whose times of day differ), and for batches in that of `DailyQuantity`, in runs without
liveness properties.

## 4. Proofs

The theorems hold for every value of the constants that satisfies the named
assumptions (`BoundsAssumption`, `DataAssumption`, `FlagsAssumption`,
`FactsAssumption`, `QuantityAssumption`, `ValueAssumption`, `RunAssumption`,
`RetryAssumption`), which TLC evaluates in the runs.

| theorem | from | argument |
|---|---|---|
| `TypeCorrect` | - | `Shape`: types, and that the load an attempt is working on exists and has its data from the fetch to the insert. `TypeOK` alone is not inductive, as `Table(i)` has a value only where the load exists. |
| `AtMostOnce` | `~DedupForgets` | `KeyInv`: every request carries the insertId of its attempt and table, a stored batch's insertId is remembered, and equal ids are equal attempt and table. A second request of the pair then stores nothing. |
| `OneDate` | - | `DateInv`: the requests and rows of a running attempt have its `stamp`, which changes only at construction, when the attempt has neither. |
| `DuplicatesHaveCauses` | - | `CauseInv`: an attempt that left `idle` has failed predecessors only, and failed attempts stay failed. `PrintedInv`: what was printed about a table other than the price changes is the last thing its attempt did, which then cannot fail. |
| `InOrder` | - | `OrderInv`: an attempt on its second load has printed about the price change, and so has every attempt with a snapshot requested or stored. |
| `ReportsAreTrue` | - | `CallInv`, `RequestInv`, `ReportInv` and `OrderInv`, each of which needs the others: an answer of success has a row behind it, rows are never removed, the requests of a live attempt carry the data of its present insert or belong to the price change it is done with, and an attempt that returned has printed about all its tables. |
| `CreatorServed` | `SleepSuffices` | `CreatorInv`: from its creation on, an attempt sleeps, then inserts into a table that is ready, which no step makes unready. |
| `IngestImplementsRawLog` | `~DedupForgets` | The refinement mapping takes a stored request to a batch named by attempt and table. `ServeInsert` is `AppendBatch` or a stutter, by `KeyInv`; the day is today or yesterday, because the midnight guard lets an attempt and its requests see one midnight only; all other steps stutter but `Midnight`. |
| `IngestImplementsInsertCalls` | - | `OnInserted` is `Return` or `Fail` of the insert it prints about, which was open by `ReportInv`, and stored if the answer was success, by `CallInv`; a `ServeInsert` that stores is `Store` of the call that sent it (`LoadsInv`: requests are of tables the attempt loads), for the first time by `KeyInv` unless BigQuery forgets; all else stutters. |
| `NothingIsMissed` | - | `NothingMissed` is not inductive alone: it needs that a new batch owes nothing to builds of the past (`RunInv`: builds are of earlier days, or of today's run), that a merge removes a row only to put back one of the same batch, which needs the key to tell batches apart (`FactInv`), and that a built table had a symbol to join (`DimInv`). |
| `KeyIsUnique` | `~Repeats` | `FactInv` (a row comes from a batch, one row per symbol and batch) with `ObservedInv` (different batches observed different things). |
| `FactTypes` | - | `TypeInv` with `StartInv`: a first batch of prices exists once a run has started, which gives `Start` a value. |
| `StartIsFinal` | - | `StartInv`: the start is the stamp of a batch, no batch of an earlier day arrives once a run of the day of the first has started, and a run of a later day has all batches of that day before it, so that from its dimension on the start is the least there will be (`Final`). |
| `OwedFactsJoin` | - | As `NothingIsMissed`: a merge replaces a row by one of the same batch, which carries today's id of the symbol. |
| `QuantityIsRight` | - | `RowInv`: a row was written by a build that is in `good`, with that build's date, one row a day each. `RightInv`: once a build saw the whole of a day, no batch of that day is still to come, so that its row has the average of all there is; a later build that sees the day writes the same row under the same key, which replaces it, and one that does not see it leaves it. |
| `ChangeIsTrueOrZero`, `ChangeIsTrueInside` | - | the same invariant: the lag is the day before among the days selected, which is the true one if any earlier day is in the window (`Extrema`), and there is none otherwise. |
| `SundayLeavesOne` | - | a full build replaces the table by a result with one row a day. |
| `QuantityTypes`, `DivisorsArePositive` | - | `TInv`: the log is finite, so that `SumOfNaturals` applies to the snapshots of a day: their sum is a natural, and at least their number as a balance that is held is at least 1; so `Scale` times the sum, divided by the number, is at least 1. |
| `QuantitySettles` | - | `SettledInv`: of a settled day the row updated last is right (`RightInv`), and there is none of a day without holdings (`HeldInv`); a batch that arrives is of a day no build has seen whole; a build settles the days of its window that are over, and leaves or repeats the row of each that is settled. |
| `WalletIsRight` | - | `PriceInv`: when the values are built, today's run has put all prices of its window into `fact_ticker_prices`, under the ids of today. So the query sees all snapshots of a day of its window, and of its prices all, or at the edge the late ones and no other (`SeenIsShown`, `WalletAtEdge`); `RightInv` then as in `QuantityIsRight`, with what a build shows in place of the truth. |
| `ValueTypes` | - | as `QuantityTypes`: averages, their products with balances, totals over the assets, and rounding keep the naturals. |
| `ValueSettles` | - | as `QuantitySettles`, from the invariant of `WalletIsRight`, with `ValuedInv`: there is a row only of a day that has a wallet, and a day that has one keeps it (`TrueDaysGrow`). On a day that is not divided, what the edge shows is the whole wallet (`UndividedIsWhole`); a batch divides only days that are not settled (`IngestedDivides`). |
| `WalletChange`, `DustOnly` | - | the lag of a day is another day of the result, whose value is what the build shows of it, by the same argument, the very first build excepted. |
| `RunTypeCorrect` | - | part of `DbtInv`: that what a query reads is a moment needs `Oldest` to choose one (`OldestOfThree`), and that `since[now]` is one needs a task to be launched when one works (`OverlapInv`). |
| `GreenCanBeTrusted` | - | `DbtInv`: a task's models are touched on its day only (`TodayInv`). All who work are part of the last overlap, and a task that is launched joins it or begins one after all others (`OverlapInv`, `LaunchKeeps`). A model starts after its upstream models are ok, so that what it reads, and what any query in flight has read, is of the last overlap (`FreshInv`, `ReadsFresh`); when it is written, though it may replace newer data, it is no older than the overlap of any task launched so far. A skipped model has one that failed above it (`SkipInv`); so a run without an error is a run in which all are ok (`GreenInv`). |
| `FailureStaysBelow` | - | `SettledInv`: a dbt run that ended by itself had its packages, and its models have all ended or were skipped, which no later step changes; and `SkipInv`, followed up the graph of the four models. |
| `RetryTypeCorrect` | - | `ClockInv`, `StoreInv`; the back-off stays below `Maximum` by `DelayCapped`. |
| `BatchStoredOnce` | the hypothesis of `StoredOnce` | `StoreInv`: a request was sent within the limit and is served within the delay, so that BigQuery still knows the insertIds of the first. |
| `CallImplementsPromise` | - | `PromiseInv`: a call has a result once it is done, and a request BigQuery has answered, or whose insertIds it knows, is stored. So `Answered` is `Return`, the other ends are `Fail`, and a `Serve` that stores is `Store`, which under the hypothesis of `StoredOnce` happens once by `StoreInv`; the rest stutters. |
| `KilledFirst` | the hypothesis of `NeverOutOfRetries` | while the call runs, `now <= limit` (`ClockInv`), so that no sleep reaches the deadline. |
| `LastStartInTime` | - | `ClockInv`: a sleep that was granted ends before the deadline. |

**Sums.**  What a recursive definition computes is an induction over data, and the
theorems of the libraries on it take an operator as a parameter, which the provers
here cannot instantiate.  `Sums` goes around them for the one fold the models use.
`SumFunction` chooses a function that satisfies the equation of the fold; to know
anything of its values one has to show that there is such a function.  `IsPartial`
is that function on the subsets of at most n elements.  `PartialZero` and
`PartialMore` build it from n to n + 1, so that there is no least n for which it
does not exist (`PartialExists`).  In the same way there is no smallest subset whose
sum is not a natural, or is less than the number of its elements though none of the
terms is 0 (`SmallestExists`, `AllGood`, `SumOfNaturals`).

**What stays with TLC**: `EventEnds`, `FreshOrMailed` and `CallEnds`, as liveness
under fairness is beyond the prover, and the two runs that find a violation.  All
other properties of the runs are theorems.  That a full refresh comes every `Week`
days, or a run every day, is nowhere assumed in them: a run may fail or be missing
on any day.

## 5. Not modelled

* The vendored libraries under `src/lambda/`, which are all but a few hundred of
  the repository's 250 000 lines.  The program goes through little of them:
  three methods of the BigQuery client, with the retry loop, the authorized
  session and the token refresh beneath, which `Ingest` and `ClientRetry` model,
  and `requests.get` without retries, which returns or raises.  The rest is
  never executed by this program, or converts data (JSON, YAML, signatures, HTTP
  framing); models of it would be of other programs than this one.
* Queries and jobs of the BigQuery client: the Lambda runs none, and dbt's own
  copy is not in the repository.
* Rows inside a batch, columns that no key and no property reads, the rounding of
  changes, `percentage_change` but for its division.
* Assets without a ticker among the symbols that are configured, which are in no
  fact, whatever they are worth.
* The alarm on the error metric of the Lambda, which takes any execution that
  raises, and the alarm on `EcsTaskFailures`.
* `dim_date` but for its being there: a constant table, built by hand.
* Terraform, Docker, CI, secrets, request signing: resources, build and
  straight-line code, whose failure is an exception of `ConstructRaises` or a
  task that never starts.  That the secret is read twice in one execution is a
  hazard without a property: the model has no rotation.

## 6. What could follow

1. Two accounts of one day: what a second execution of the twice-a-day event
   (`DuplicateHasCause`) does to the averages of `DailyQuantity`.
2. `fact_ticker_prices` and `dim_tickers` as refinements of an abstract fact of
   batches, beside `SettledFact`, which is one of days: `NothingMissed` says when
   such a fact owes a batch, `JoinedUnlessRenamed` when it may lose its symbol.
3. The dimension and prices of `AccountValue` as an instance of those of
   `TickerFacts`, one for each asset, in place of `BuildDim` and `BuildPrices`.

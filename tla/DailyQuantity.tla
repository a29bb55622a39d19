--------------------------- MODULE DailyQuantity ---------------------------
(***************************************************************************)
(* The dbt model fact_daily_tickers_quantity of one asset, built once a    *)
(* day from the table account_snaphsot.  The log (RawLog) holds this table *)
(* only, and a batch's payload is the asset's balance, free and locked.    *)
(* The asset is in dim_tickers, under one id: how that id may change is    *)
(* the subject of TickerFacts.                                             *)
(***************************************************************************)
EXTENDS RawLog, Integers, FiniteSets, FiniteSetsExt, Functions

CONSTANTS
    DaysToIngest,   \* the dbt variable days_to_ingest
    Week,           \* days from one full refresh to the next
    Scale           \* a common multiple of the numbers of snapshots in a day

ASSUME QuantityAssumption ==
    /\ Payloads \subseteq Nat /\ MaxDay \in Nat
    /\ DaysToIngest \in Nat /\ Week \in Nat \ {0} /\ Scale \in Nat \ {0}

Days == 0..MaxDay
Fact == [day : Days, quantity : Nat, change : Int, updated : Days]

VARIABLES
    built,      \* the table exists
    facts,      \* its rows; quantities are in units of 1/Scale
    ran,        \* today's run is over
    good        \* history: the days whose run built the table

vars == <<log, today, built, facts, ran, good>>

TypeOK ==
    /\ LogTypeOK
    /\ built \in BOOLEAN
    /\ facts \subseteq Fact
    /\ \A r, s \in facts : r.day = s.day /\ r.updated = s.updated => r = s
    /\ ran \in BOOLEAN
    /\ good \subseteq Days

Init ==
    /\ LogInit
    /\ built = FALSE /\ facts = {}
    /\ ran = FALSE /\ good = {}

-----------------------------------------------------------------------------
(* Ingestion adds a snapshot; one that is late after midnight is there     *)
(* before the run of 2 AM.                                                 *)
Ingested(b) ==
    /\ AppendBatch(b)
    /\ b.day < today => ~ran
    /\ UNCHANGED <<built, facts, ran, good>>

NextDay ==
    /\ Midnight
    /\ ran' = FALSE
    /\ UNCHANGED <<built, facts, good>>

IsSunday(day) == (day + 1) % Week = 0

FullBuild_NoSunday == ~built

FullBuild == IsSunday(today) \/ ~built

InWindow_Strict(b) == b.day + DaysToIngest > today

InWindow(b) == b.day + DaysToIngest >= today

Held_Zero(b) == TRUE

(* a.free > 0.0 or a.locked > 0.0 *)
Held(b) == b.payload > 0

Selected_WindowOnly == {b \in log : Held(b) /\ InWindow(b)}

Selected == {b \in log : Held(b) /\ (FullBuild \/ InWindow(b))}

(* avg(free) + avg(locked) *)
Average(ofDay) ==
    (Scale * SumFunction([b \in ofDay |-> b.payload])) \div Cardinality(ofDay)

OfDay(batches, day) == {b \in batches : b.day = day}
Quantity(batches, day) == Average(OfDay(batches, day))

Lag_First(days, day) == Min({d \in days : d < day})

(* lag(...) over (order by date_id): the last day before that has a row.   *)
Lag(days, day) == Max({d \in days : d < day})

(* quantity - lag(quantity), 0 where there is no lag. *)
Change(batches, days, day) ==
    IF \E d \in days : d < day
    THEN Quantity(batches, day) - Quantity(batches, Lag(days, day))
    ELSE 0

Result_Ungrouped ==
    {[day |-> b.day, quantity |-> Scale * b.payload, change |-> 0,
      updated |-> today] : b \in Selected}

Result ==
    LET days == {b.day : b \in Selected}
    IN  {[day |-> d, quantity |-> Quantity(Selected, d),
          change |-> Change(Selected, days, d), updated |-> today] : d \in days}

(* What generate_surrogate_key hashes, but for the asset. *)
Key(r) == <<r.day, r.quantity>>

Table == INSTANCE Incremental

(* percentage_change divides by the lag: the query fails if one is zero.   *)
Divides == \A r, s \in Result : r.day < s.day => r.quantity # 0

Build ==
    /\ ~ran /\ Divides
    /\ \/ FullBuild /\ facts' = Result
       \/ /\ ~FullBuild /\ ~Table!Ambiguous(facts, Result)
          /\ facts' = Table!Merge(facts, Result)
    /\ built' = TRUE
    /\ ran' = TRUE
    /\ good' = good \cup {today}
    /\ UNCHANGED <<log, today>>

(* The model, or one upstream of it, fails; or the task never starts.      *)
RunFails ==
    /\ ~ran /\ ran' = TRUE
    /\ UNCHANGED <<log, today, built, facts, good>>

Next ==
    \/ \E b \in Batch : Ingested(b)
    \/ NextDay
    \/ Build \/ RunFails

Spec == Init /\ [][Next]_vars

-----------------------------------------------------------------------------
(* What the facts should say, from all that was ever held. *)
Holdings == {b \in log : b.payload > 0}
HeldDays == {b.day : b \in Holdings}
Before(day) == {d \in HeldDays : d < day}
TrueChange(day) ==
    Quantity(Holdings, day) - Quantity(Holdings, Max(Before(day)))

WasFull(g) == IsSunday(g) \/ g = Min(good)

(* The builds that saw the whole of a day. *)
Owing(day) ==
    {g \in good : day < g /\ (WasFull(g) \/ g <= day + DaysToIngest)}

Latest(day) ==
    {r \in facts : r.day = day /\ \A s \in facts : s.day = day => s.updated <= r.updated}

(* A row of a day may be stale: the id holds the quantity, so the row of a *)
(* run that saw half a day stays beside the right one.  But the row that   *)
(* was updated last is right, once a run saw the whole day.                *)
LatestIsRight ==
    \A d \in HeldDays : Owing(d) # {} =>
        /\ Cardinality(Latest(d)) = 1
        /\ \A r \in Latest(d) : r.quantity = Quantity(Holdings, d)

(* The change on that row is the change since the day held before, or 0:   *)
(* 0 is also what the trailing edge of the window leaves behind.           *)
ChangeTrueOrZero ==
    \A d \in HeldDays : Owing(d) # {} =>
        \A r \in Latest(d) :
            r.change = 0 \/ (Before(d) # {} /\ r.change = TrueChange(d))

(* It is the true one when the last run to build the table saw the day     *)
(* before, too.                                                            *)
ChangeTrueInside ==
    \A d \in HeldDays :
        good # {} /\ Before(d) # {} /\ d < Max(good)
        /\ (WasFull(Max(good)) \/ Max(good) <= Max(Before(d)) + DaysToIngest)
        => \A r \in Latest(d) : r.change = TrueChange(d)

(* The full refresh on Sunday leaves one row for each day held before.     *)
SundayExact ==
    good # {} /\ IsSunday(Max(good)) =>
        \A r, s \in facts : r.day = s.day => r = s

(* The division by the lag never fails: what is not held is left out.      *)
NeverDividesByZero == Divides

-----------------------------------------------------------------------------
(* To its readers the table is a fact that settles: a day that a build saw *)
(* whole has its average on the row updated last, or no row if nothing was *)
(* held, and neither a late batch nor a later build changes that.          *)
Truth ==
    [d \in Days |-> IF d \in HeldDays THEN {Quantity(Holdings, d)} ELSE {}]

Settled == {d \in Days : Owing(d) # {}}
Report == [d \in Days |-> {r.quantity : r \in Latest(d)}]

Settling == INSTANCE SettledFact WITH
    Window <- DaysToIngest, Values <- Nat, divided <- {},
    runs <- good, truth <- Truth, settled <- Settled, report <- Report

ImplementsSettledFact == Settling!Spec

=============================================================================

------------------------- MODULE TickerFactsProofs -------------------------
(***************************************************************************)
(* What the small instances of MCTickerFacts show of the rows of           *)
(* fact_ticker_prices, for every log, window and week.                     *)
(***************************************************************************)
EXTENDS TickerFacts, TLAPS

Changes == BatchesOf("ticker_price_change")

(* The raw tables hold a batch once. *)
LogInv ==
    /\ LogTypeOK
    /\ \A b, c \in log : b.id = c.id => b = c

(* A run starts once a day, and the builds that succeeded are of the past, *)
(* or of today's run.                                                      *)
RunInv ==
    /\ step # "idle" => ran
    /\ \A g \in good : g.day \in Days /\ g.day <= today /\ (g.day = today => ran)

(* A fact row comes from a batch, and from each batch comes one row for a  *)
(* symbol.                                                                 *)
FactInv ==
    /\ \A r \in facts : \E b \in Changes :
          b.id = r.from /\ b.day = r.day /\ b.payload = r.observed
    /\ \A r, s \in facts : r.symbol = s.symbol /\ r.from = s.from => r = s

(* Where observations do not repeat, a batch is known by what it observed. *)
ObservedInv ==
    ~Repeats => \A b, c \in Changes : b.payload = c.payload => b = c

(* The symbol, once in dim_tickers, stays: the prices it has stay, too.    *)
DimInv ==
    /\ dim # {} => BatchesOf("ticker_prices") # {}
    /\ good # {} => dim # {}

IInv == LogInv /\ RunInv /\ DimInv /\ FactInv /\ ObservedInv /\ NothingMissed

(* The rows the query returns: one for each symbol and selected batch.     *)
LEMMA ResultRows ==
    ASSUME LogInv
    PROVE  /\ \A r \in Result : \E b \in Changes :
                 b.id = r.from /\ b.day = r.day /\ b.payload = r.observed
           /\ \A r, s \in Result : r.symbol = s.symbol /\ r.from = s.from => r = s
           /\ \A b \in Changes : dim # {} /\ (FullBuild \/ InWindow(b)) =>
                 \E r \in Result : r.from = b.id /\ r.symbol \in dim
           /\ ~FullBuild => \A r \in Result : r.day + DaysToIngest >= today
<1>1. ASSUME NEW r \in Result
      PROVE  \E t \in dim, b \in Changes :
                /\ FullBuild \/ InWindow(b)
                /\ r = [symbol |-> t, day |-> b.day, observed |-> b.payload,
                        from |-> b.id, updated |-> today]
  BY DEF Result, Changes
<1>2. ASSUME NEW r \in Result, NEW s \in Result,
             r.symbol = s.symbol, r.from = s.from
      PROVE  r = s
  <2>1. PICK b \in Changes :
            r = [symbol |-> r.symbol, day |-> b.day, observed |-> b.payload,
                 from |-> b.id, updated |-> today]
    BY <1>1
  <2>2. PICK c \in Changes :
            s = [symbol |-> s.symbol, day |-> c.day, observed |-> c.payload,
                 from |-> c.id, updated |-> today]
    BY <1>1
  <2>3. b.id = c.id
    BY <1>2, <2>1, <2>2
  <2>4. b = c
    BY <2>3 DEF LogInv, Changes, BatchesOf
  <2> QED  BY <1>2, <2>1, <2>2, <2>4
<1>3. ASSUME NEW b \in Changes, dim # {}, FullBuild \/ InWindow(b)
      PROVE  \E r \in Result : r.from = b.id /\ r.symbol \in dim
  <2>1. PICK t \in dim : TRUE
    BY <1>3
  <2>2. b \in {c \in BatchesOf("ticker_price_change") : FullBuild \/ InWindow(c)}
    BY <1>3 DEF Changes
  <2> DEFINE row == [symbol |-> t, day |-> b.day, observed |-> b.payload,
                     from |-> b.id, updated |-> today]
  <2>3. row \in Result
    BY <2>2, SMT DEF Result
  <2>4. row.from = b.id /\ row.symbol = t
    OBVIOUS
  <2> QED  BY <2>3, <2>4
<1>4. ASSUME ~FullBuild, NEW r \in Result
      PROVE  r.day + DaysToIngest >= today
  <2>1. PICK b \in Changes : InWindow(b) /\ r.day = b.day
    BY <1>1, <1>4
  <2> QED  BY <2>1 DEF InWindow
<1>5. ASSUME NEW r \in Result
      PROVE  \E b \in Changes :
                b.id = r.from /\ b.day = r.day /\ b.payload = r.observed
  BY <1>1
<1> QED  BY <1>2, <1>3, <1>4, <1>5

LEMMA InitInv == Init => IInv
  BY FactsAssumption DEF Init, LogInit, IInv, LogInv, LogTypeOK, RunInv, DimInv,
     FactInv, ObservedInv, NothingMissed, Changes, BatchesOf

(* A new batch owes nothing to the builds that have been.                  *)
LEMMA IngestedInv ==
    ASSUME IInv, NEW b \in Batch, Ingested(b)
    PROVE  IInv'
<1> USE DEF IInv, Ingested, AppendBatch, marts
<1>1. LogInv'
  BY DEF LogInv, LogTypeOK
<1>2. RunInv'
  BY DEF RunInv
<1>3. Changes \subseteq Changes'
  BY DEF Changes, BatchesOf
<1>4. FactInv' /\ DimInv'
  BY <1>3 DEF FactInv, DimInv, BatchesOf
<1>5. ObservedInv'
  BY DEF ObservedInv, Changes, BatchesOf
<1>6. NothingMissed'
  <2> SUFFICES ASSUME NEW c \in Changes', Owed(c.day)
               PROVE  \E r \in facts : r.from = c.id
    BY DEF NothingMissed, Changes, Owed
  <2>1. CASE c \in Changes
    BY <2>1 DEF NothingMissed, Changes
  <2>2. CASE c = b
    <3>1. c.day \in Nat /\ today \in Nat
      BY <2>2, FactsAssumption DEF LogInv, LogTypeOK, Batch
    <3>2. PICK g \in good : c.day < g.day
      BY DEF Owed
    <3>3. g.day \in Nat /\ g.day <= today /\ (g.day = today => ran)
      BY FactsAssumption DEF RunInv, Days
    <3> QED  BY <2>2, <3>1, <3>2, <3>3
  <2> QED  BY <2>1, <2>2 DEF Changes, BatchesOf
<1> QED  BY <1>1, <1>2, <1>4, <1>5, <1>6

(* The day passes; no run is under way.                                    *)
LEMMA NextDayInv ==
    ASSUME IInv, NextDay
    PROVE  IInv'
<1> USE DEF IInv, NextDay, Midnight, marts
<1>1. today \in Nat /\ today' = today + 1 /\ MaxDay \in Nat
  BY FactsAssumption DEF LogInv, LogTypeOK
<1>2. LogInv'
  BY <1>1 DEF LogInv, LogTypeOK
<1>3. RunInv'
  BY <1>1, FactsAssumption DEF RunInv, Days
<1>4. DimInv' /\ FactInv' /\ ObservedInv' /\ NothingMissed'
  BY DEF DimInv, FactInv, ObservedInv, NothingMissed, Owed, Changes, BatchesOf
<1> QED  BY <1>2, <1>3, <1>4

(* What a build leaves in the table, whether it is full or a MERGE.        *)
LEMMA BuildRows ==
    ASSUME IInv, BuildFacts
    PROVE  /\ \A r \in facts' : r \in Result \/
                 (r \in facts /\ ~FullBuild /\ \A s \in Result : Key(s) # Key(r))
           /\ Result \subseteq facts'
           /\ \A r \in facts : r \in facts' \/ FullBuild
                 \/ (~FullBuild /\ \E s \in Result : Key(s) = Key(r))
  BY DEF BuildFacts, Table!Merge

LEMMA BuildFactsInv ==
    ASSUME IInv, BuildFacts
    PROVE  IInv'
<1> USE DEF IInv
<1>1. /\ UNCHANGED <<log, today, ran>> /\ step = "facts" /\ step' = "idle"
      /\ \A g \in good' : g \in good \/
            (dim # {} /\ g = [day |-> today, full |-> FullBuild])
  BY DEF BuildFacts
<1>2. Changes' = Changes /\ LogInv' /\ ObservedInv'
  BY <1>1 DEF Changes, BatchesOf, LogInv, LogTypeOK, ObservedInv
<1>3. today \in Nat /\ today \in Days
  BY FactsAssumption DEF LogInv, LogTypeOK, Days
<1>4. RunInv' /\ DimInv'
  BY <1>1, <1>3 DEF RunInv, DimInv, BuildFacts, BatchesOf
<1>5. FactInv'
  <2>1. ASSUME NEW r \in facts'
        PROVE  \E b \in Changes :
                  b.id = r.from /\ b.day = r.day /\ b.payload = r.observed
    BY <2>1, BuildRows, ResultRows DEF FactInv
  <2>2. ASSUME NEW r \in facts', NEW s \in facts',
               r.symbol = s.symbol, r.from = s.from
        PROVE  r = s
    <3>1. r.day = s.day /\ r.observed = s.observed
      BY <2>1, <2>2 DEF LogInv, Changes, BatchesOf
    <3>2. Key(r) = Key(s)
      BY <2>2, <3>1 DEF Key
    <3> QED  BY <2>2, <3>2, BuildRows, ResultRows DEF FactInv
  <2> QED  BY <1>2, <2>1, <2>2 DEF FactInv
<1>6. NothingMissed'
  <2> SUFFICES ASSUME NEW b \in Changes, Owed(b.day)'
               PROVE  \E r \in facts' : r.from = b.id
    BY <1>2 DEF NothingMissed, Changes
  <2>1. b.day \in Nat /\ DaysToIngest \in Nat
    BY FactsAssumption DEF LogInv, LogTypeOK, Batch, Changes, BatchesOf
  <2>2. PICK g \in good' : b.day < g.day /\ (g.full \/ g.day <= b.day + DaysToIngest)
    BY DEF Owed
  <2>3. CASE dim # {} /\ g = [day |-> today, full |-> FullBuild]
    <3>1. FullBuild \/ InWindow(b)
      BY <1>3, <2>1, <2>2, <2>3 DEF InWindow
    <3> QED  BY <2>3, <3>1, BuildRows, ResultRows
  <2>4. CASE g \in good
    <3>1. PICK r \in facts : r.from = b.id
      BY <2>2, <2>4 DEF NothingMissed, Owed, Changes
    <3>2. r.day = b.day
      BY <3>1 DEF FactInv, LogInv, Changes, BatchesOf
    <3>3. CASE r \in facts'
      BY <3>1, <3>3
    <3>4. CASE ~FullBuild /\ \E s \in Result : Key(s) = Key(r)
      <4>1. PICK s \in Result : Key(s) = Key(r)
        BY <3>4
      <4>2. s.day = r.day /\ dim # {}
        BY <4>1 DEF Key, Result
      <4>3. InWindow(b)
        BY <3>2, <3>4, <4>2, ResultRows DEF InWindow
      <4> QED  BY <4>2, <4>3, BuildRows, ResultRows
    <3>5. CASE FullBuild /\ dim # {}
      BY <3>5, BuildRows, ResultRows
    <3>6. dim # {}
      BY <2>4 DEF DimInv
    <3> QED  BY <3>3, <3>4, <3>5, <3>6, BuildRows
  <2> QED  BY <1>1, <2>2, <2>3, <2>4
<1> QED  BY <1>2, <1>4, <1>5, <1>6

(* The other steps of a run leave log, facts and good alone.               *)
LEMMA RunStepsInv ==
    ASSUME IInv, \/ StartRun \/ BuildDim \/ Fail
                 \/ \E n \in Names : Deploy(n)
                 \/ UNCHANGED vars
    PROVE  IInv'
<1> USE DEF IInv, marts
<1>1. /\ UNCHANGED <<log, today, facts, good>>
      /\ step' # "idle" => ran'
      /\ ran => ran'
  BY DEF RunInv, StartRun, BuildDim, Fail, Deploy, vars
<1>2. DimInv'
  <2>1. CASE BuildDim
    <3>1. BatchesOf("ticker_prices") # {} => Tickers # {}
      <4>1. SUFFICES ASSUME BatchesOf("ticker_prices") # {} PROVE Tickers # {}
        OBVIOUS
      <4>2. PICK n \in seed : TRUE
        BY <2>1 DEF BuildDim
      <4>3. [name |-> n, start |-> Start(BatchesOf("ticker_prices"))] \in Tickers
        BY <4>1, <4>2 DEF Tickers
      <4> QED  BY <4>3
    <3>2. BatchesOf("ticker_prices") = {} => Tickers = {}
      BY DEF Tickers
    <3> QED  BY <1>1, <2>1, <3>1, <3>2 DEF BuildDim, DimInv, BatchesOf
  <2>2. CASE ~BuildDim
    BY <1>1, <2>2 DEF DimInv, BatchesOf, StartRun, Fail, Deploy, vars
  <2> QED  BY <2>1, <2>2
<1>3. LogInv' /\ RunInv' /\ FactInv' /\ ObservedInv' /\ NothingMissed'
  BY <1>1 DEF LogInv, LogTypeOK, RunInv, FactInv, ObservedInv, NothingMissed,
     Owed, Changes, BatchesOf
<1> QED  BY <1>2, <1>3

LEMMA NextInv == IInv /\ [Next]_vars => IInv'
  BY IngestedInv, NextDayInv, RunStepsInv, BuildFactsInv DEF Next

(* However often runs fail, a price change is in the facts when one run    *)
(* within its window, or a full refresh after it, has built them.          *)
THEOREM NothingIsMissed == Spec => []NothingMissed
<1>1. IInv => NothingMissed
  BY DEF IInv
<1> QED  BY InitInv, NextInv, <1>1, PTL DEF Spec

(* Where no two batches observe the same price and open time, no two rows  *)
(* have what the unique_key is made of in common.                          *)
THEOREM KeyIsUnique == ~Repeats => (Spec => []UniqueKey)
<1> SUFFICES ASSUME ~Repeats PROVE Spec => []UniqueKey
  OBVIOUS
<1>1. IInv => UniqueKey
  <2> SUFFICES ASSUME IInv, NEW r \in facts, NEW s \in facts,
                      r.symbol = s.symbol, r.observed = s.observed
               PROVE  r = s
    BY DEF UniqueKey
  <2>1. r.from = s.from
    BY DEF IInv, FactInv, ObservedInv
  <2> QED  BY <2>1 DEF IInv, FactInv
<1> QED  BY InitInv, NextInv, <1>1, PTL DEF Spec

-----------------------------------------------------------------------------
(* Types, and the start of the symbol.  A batch is never of a day to come, *)
(* and among the prices there is a first one.  dim_tickers has the         *)
(* timestamp of a price, and none of an earlier day can follow; nor can an *)
(* earlier one of the same day, once a run of a later day is building the  *)
(* facts or has built them.                                                *)

Prices == BatchesOf("ticker_prices")

Earliest(s) ==
    /\ \E b \in Prices : Stamp(b) = s
    /\ \A b \in Prices : Upto(s, Stamp(b))

Final(s) ==
    \/ step = "facts" /\ s[1] < today
    \/ \E g \in good : s[1] < g.day

StartInv ==
    /\ \A b \in log : b.day <= today
    /\ Prices # {} => \E b \in Prices : Earliest(Stamp(b))
    /\ \A s \in dim :
          /\ \E b \in Prices : Stamp(b) = s.start
          /\ \A b \in Prices : s.start[1] <= b.day
          /\ s.start[1] = today => ran
          /\ Final(s.start) => Earliest(s.start)

TypeInv == TypeOK /\ StartInv

(* A batch's timestamp has its day, and timestamps are ordered.            *)
LEMMA StampTypes ==
    ASSUME NEW b \in Batch
    PROVE  /\ Stamp(b) \in Stamps
           /\ Stamp(b)[1] = b.day /\ b.day \in Nat /\ b.day \in Days
           /\ Stamp(b)[2] \in Nat
           /\ Upto(Stamp(b), Stamp(b))
  BY FactsAssumption DEF Batch, Stamp, Stamps, Days, Upto

(* min(timestamp) is the timestamp of the first batch. *)
LEMMA StartIsEarliest ==
    ASSUME TypeInv, Prices # {}
    PROVE  Earliest(Start(Prices))
<1>1. \E s \in {Stamp(b) : b \in Prices} : \A b \in Prices : Upto(s, Stamp(b))
  BY DEF TypeInv, StartInv, Earliest
<1>2. /\ Start(Prices) \in {Stamp(b) : b \in Prices}
      /\ \A b \in Prices : Upto(Start(Prices), Stamp(b))
  BY <1>1 DEF Start
<1> QED  BY <1>2 DEF Earliest

LEMMA InitTypes == Init => TypeInv
<1> SUFFICES ASSUME Init PROVE TypeInv
  OBVIOUS
<1>1. LogTypeOK
  BY FactsAssumption DEF Init, LogInit, LogTypeOK
<1>2. TypeOK
  BY <1>1 DEF Init, TypeOK
<1>3. StartInv
  BY DEF Init, LogInit, StartInv, Prices, BatchesOf
<1> QED  BY <1>2, <1>3 DEF TypeInv

LEMMA IngestedTypes ==
    ASSUME TypeInv, RunInv, NEW b \in Batch, Ingested(b)
    PROVE  TypeInv'
<1> USE DEF TypeInv, Ingested, AppendBatch, marts
<1>1. TypeOK'
  BY DEF TypeOK, LogTypeOK
<1>2. /\ \A c \in log' : c \in Batch /\ c.day \in Nat
      /\ today \in Nat /\ b.day \in Nat /\ b.day <= today /\ today <= b.day + 1
      /\ b.day < today => ~ran
  BY FactsAssumption DEF TypeOK, LogTypeOK, Batch
<1>3. Prices' = Prices \/ Prices' = Prices \cup {b}
  BY DEF Prices, BatchesOf
<1>4. Prices \subseteq log /\ b \in log' /\ Prices \subseteq Batch
  BY <1>2 DEF Prices, BatchesOf
<1>5. Prices' # {} => \E c \in Prices' : Earliest(Stamp(c))'
  <2>1. CASE Prices' = Prices
    BY <2>1 DEF StartInv, Earliest
  <2>2. CASE Prices' = Prices \cup {b} /\ Prices = {}
    BY <2>2, StampTypes DEF Earliest
  <2>3. CASE Prices' = Prices \cup {b} /\ Prices # {}
    <3>1. PICK c \in Prices : Earliest(Stamp(c))
      BY <2>3 DEF StartInv
    <3>2. CASE Upto(Stamp(c), Stamp(b))
      BY <2>3, <3>1, <3>2 DEF Earliest
    <3>3. CASE ~Upto(Stamp(c), Stamp(b))
      <4>1. Upto(Stamp(b), Stamp(c))
        BY <1>4, <3>3, StampTypes DEF Upto
      <4>2. \A a \in Prices : Upto(Stamp(b), Stamp(a))
        <5> TAKE a \in Prices
        <5>1. Upto(Stamp(c), Stamp(a))
          BY <3>1 DEF Earliest
        <5> QED  BY <1>4, <4>1, <5>1, StampTypes DEF Upto
      <4> QED  BY <2>3, <4>2, StampTypes DEF Earliest
    <3> QED  BY <3>2, <3>3
  <2> QED  BY <1>3, <2>1, <2>2, <2>3
<1>6. ASSUME NEW s \in dim
      PROVE  /\ \E c \in Prices' : Stamp(c) = s.start
             /\ \A c \in Prices' : s.start[1] <= c.day
             /\ s.start[1] = today => ran
             /\ Final(s.start)' => Earliest(s.start)'
  <2>1. PICK a \in Prices : Stamp(a) = s.start
    BY DEF StartInv
  <2>2. /\ \A c \in Prices : s.start[1] <= c.day
        /\ s.start[1] = today => ran
        /\ Final(s.start) => Earliest(s.start)
    BY DEF StartInv
  <2>3. s.start[1] \in Nat /\ s.start[1] <= today
    BY <1>2, <1>4, <2>1, StampTypes DEF StartInv
  <2>4. s.start[1] <= b.day
    BY <1>2, <2>2, <2>3
  <2>5. ASSUME Final(s.start) PROVE s.start[1] < b.day
    <3>1. CASE step = "facts" /\ s.start[1] < today
      BY <1>2, <2>3, <3>1 DEF RunInv
    <3>2. CASE \E g \in good : s.start[1] < g.day
      <4>1. PICK g \in good : s.start[1] < g.day
        BY <3>2
      <4>2. g.day \in Nat /\ g.day <= today /\ (g.day = today => ran)
        BY FactsAssumption DEF RunInv, Days
      <4> QED  BY <1>2, <2>3, <4>1, <4>2
    <3> QED  BY <2>5, <3>1, <3>2 DEF Final
  <2>6. Final(s.start)' => Earliest(s.start)'
    <3>1. SUFFICES ASSUME Final(s.start) PROVE Earliest(s.start)'
      BY DEF Final
    <3>2. Upto(s.start, Stamp(b))
      BY <2>5, <3>1, StampTypes DEF Upto
    <3> QED  BY <1>3, <2>2, <3>1, <3>2 DEF Earliest
  <2> QED  BY <1>3, <2>1, <2>2, <2>4, <2>6
<1>7. \A c \in log' : c.day <= today'
  BY <1>2 DEF StartInv
<1> QED  BY <1>1, <1>5, <1>6, <1>7 DEF StartInv

LEMMA BuildDimTypes ==
    ASSUME TypeInv, RunInv, BuildDim
    PROVE  TypeInv'
<1> USE DEF TypeInv, BuildDim
<1>1. Tickers # {} => Prices # {}
  BY DEF Tickers, Prices
<1>2. ASSUME NEW s \in Tickers
      PROVE  s.start = Start(Prices)
  BY DEF Tickers, Prices
<1>3. Prices \subseteq Batch
  BY DEF TypeOK, LogTypeOK, Prices, BatchesOf
<1>4. Tickers \in {{}} \cup {{s} : s \in Symbol}
  <2>1. CASE Prices = {} \/ seed = {}
    BY <2>1 DEF Tickers, Prices
  <2>2. CASE Prices # {} /\ seed # {}
    <3>1. PICK n \in Names : seed = {n}
      BY <2>2 DEF TypeOK
    <3>2. Tickers = {[name |-> n, start |-> Start(Prices)]}
      BY <2>2, <3>1 DEF Tickers, Prices
    <3>3. Start(Prices) \in Stamps
      BY <1>3, <2>2, StartIsEarliest, StampTypes DEF Earliest
    <3>4. [name |-> n, start |-> Start(Prices)] \in Symbol
      BY <3>3 DEF Symbol
    <3> QED  BY <3>2, <3>4
  <2> QED  BY <2>1, <2>2
<1>5. TypeOK'
  BY <1>4 DEF TypeOK, LogTypeOK
<1>6. Prices' = Prices /\ today' = today /\ log' = log /\ ran'
  BY DEF RunInv, Prices, BatchesOf
<1>7. ASSUME NEW s \in dim'
      PROVE  /\ \E b \in Prices : Stamp(b) = s.start
             /\ \A b \in Prices : s.start[1] <= b.day
             /\ Earliest(s.start)
  <2>1. Earliest(s.start)
    BY <1>1, <1>2, StartIsEarliest
  <2>2. PICK a \in Prices : Stamp(a) = s.start
    BY <2>1 DEF Earliest
  <2>3. \A b \in Prices : s.start[1] <= b.day
    BY <1>3, <2>1, <2>2, StampTypes DEF Earliest, Upto
  <2> QED  BY <2>1, <2>2, <2>3
<1> QED  BY <1>5, <1>6, <1>7 DEF StartInv, Earliest

LEMMA BuildFactsTypes ==
    ASSUME TypeInv, BuildFacts
    PROVE  TypeInv'
<1> USE DEF TypeInv, TypeOK, BuildFacts
<1>1. today \in Days /\ dim \subseteq Symbol
  BY DEF LogTypeOK, Days
<1>2. Result \subseteq Fact
  <2> SUFFICES ASSUME NEW r \in Result PROVE r \in Fact
    OBVIOUS
  <2>1. PICK t \in dim, b \in log :
            r = [symbol |-> t, day |-> b.day, observed |-> b.payload,
                 from |-> b.id, updated |-> today]
    BY DEF Result, BatchesOf
  <2>2. b \in Batch
    BY DEF LogTypeOK
  <2> QED  BY <1>1, <2>1, <2>2 DEF Fact, Batch, Days
<1>3. facts' \subseteq Fact
  BY <1>2 DEF Table!Merge
<1>4. FullBuild \in BOOLEAN
  BY DEF FullBuild, Sunday
<1>5. good' \subseteq [day : Days, full : BOOLEAN]
  BY <1>1, <1>4
<1>6. TypeOK'
  BY <1>3, <1>5 DEF LogTypeOK
<1>7. UNCHANGED <<log, today, dim, ran>> /\ Prices' = Prices
  BY DEF Prices, BatchesOf
<1>8. ASSUME NEW s \in dim, Final(s.start)' PROVE Earliest(s.start)
  <2>1. PICK g \in good' : s.start[1] < g.day
    BY <1>8 DEF Final
  <2>2. g \in good \/ g.day = today
    BY <2>1
  <2>3. Final(s.start)
    BY <2>1, <2>2 DEF Final
  <2> QED  BY <2>3 DEF StartInv
<1> QED  BY <1>6, <1>7, <1>8 DEF StartInv, Earliest

LEMMA TypeStep == RunInv /\ TypeInv /\ [Next]_vars => TypeInv'
<1> SUFFICES ASSUME RunInv, TypeInv, [Next]_vars PROVE TypeInv'
  OBVIOUS
<1>1. CASE NextDay
  <2>1. today' = today + 1 /\ today \in Nat /\ today < MaxDay
    BY <1>1 DEF NextDay, Midnight, TypeInv, TypeOK, LogTypeOK
  <2>2. TypeOK'
    <3>1. LogTypeOK'
      BY <1>1, <2>1, FactsAssumption DEF NextDay, Midnight, TypeInv, TypeOK, LogTypeOK
    <3> QED  BY <1>1, <3>1 DEF NextDay, marts, TypeInv, TypeOK
  <2>3. \A b \in log : b \in Batch /\ b.day \in Nat /\ b.day <= today
    BY DEF TypeInv, TypeOK, StartInv, LogTypeOK, Batch
  <2>4. \A s \in dim : s.start[1] \in Nat /\ s.start[1] <= today
    BY <2>3, StampTypes DEF TypeInv, StartInv, Prices, BatchesOf
  <2>5. UNCHANGED <<log, dim, good, step>> /\ Prices' = Prices /\ step = "idle"
    BY <1>1 DEF NextDay, Midnight, marts, Prices, BatchesOf
  <2>6. \A s \in dim : Final(s.start)' => Final(s.start)
    BY <2>5 DEF Final
  <2> QED
    BY <2>1, <2>2, <2>3, <2>4, <2>5, <2>6 DEF TypeInv, StartInv, Earliest
<1>2. CASE StartRun \/ Fail \/ (\E n \in Names : Deploy(n)) \/ UNCHANGED vars
  <2>1. UNCHANGED <<log, today, dim, good>> /\ (ran => ran')
        /\ (step' = "facts" => step = "facts")
    BY <1>2 DEF StartRun, Fail, Deploy, marts, vars
  <2>2. TypeOK'
    BY <1>2 DEF StartRun, Fail, Deploy, marts, vars, TypeInv, TypeOK, LogTypeOK
  <2>3. Prices' = Prices /\ \A s \in dim : Final(s.start)' => Final(s.start)
    BY <2>1 DEF Prices, BatchesOf, Final
  <2> QED
    BY <2>1, <2>2, <2>3 DEF TypeInv, StartInv, Earliest
<1> QED
  BY <1>1, <1>2, IngestedTypes, BuildDimTypes, BuildFactsTypes DEF Next

(* The states of TickerFacts have their types in every instance.           *)
THEOREM FactTypes == Spec => []TypeOK
<1>1. IInv => RunInv
  BY DEF IInv
<1>2. TypeInv => TypeOK
  BY DEF TypeInv
<1> QED  BY InitInv, NextInv, InitTypes, TypeStep, <1>1, <1>2, PTL DEF Spec

(* Whatever came late, the start of a symbol moves back within its day     *)
(* only, and not at all once a run of a later day has built the facts.     *)
THEOREM StartIsFinal == Spec => StartSettles
<1> DEFINE Settling ==
      \A s \in dim, t \in dim' : t.start # s.start =>
          /\ t.start[1] = s.start[1] /\ t.start[2] < s.start[2]
          /\ \A g \in good : g.day <= s.start[1]
<1>1. IInv => RunInv
  BY DEF IInv
<1>2. ASSUME TypeInv, RunInv, [Next]_vars PROVE Settling
  <2>1. \A s, t \in dim : s = t
    BY <1>2 DEF TypeInv, TypeOK
  <2>2. CASE BuildDim
    <3> SUFFICES ASSUME NEW s \in dim, NEW t \in dim', t.start # s.start
                 PROVE  /\ t.start[1] = s.start[1] /\ t.start[2] < s.start[2]
                        /\ \A g \in good : g.day <= s.start[1]
      OBVIOUS
    <3>1. PICK a \in Prices : Stamp(a) = s.start
      BY <1>2 DEF TypeInv, StartInv
    <3>2. t.start = Start(Prices)
      BY <2>2, <3>1 DEF BuildDim, Tickers, Prices
    <3>3. Earliest(t.start)
      BY <1>2, <3>1, <3>2, StartIsEarliest
    <3>4. PICK c \in Prices : Stamp(c) = t.start
      BY <3>3 DEF Earliest
    <3>5. a \in Batch /\ c \in Batch
      BY <1>2 DEF TypeInv, TypeOK, LogTypeOK, Prices, BatchesOf
    <3>6. /\ s.start[1] \in Nat /\ s.start[2] \in Nat
          /\ t.start[1] \in Nat /\ t.start[2] \in Nat
      BY <3>1, <3>4, <3>5, StampTypes
    <3>7. s.start[1] # t.start[1] \/ s.start[2] # t.start[2]
      BY <3>1, <3>4 DEF Stamp
    <3>8. t.start[1] = s.start[1] /\ t.start[2] < s.start[2]
      <4>1. Upto(t.start, s.start)
        BY <3>1, <3>3 DEF Earliest
      <4>2. s.start[1] <= t.start[1]
        BY <1>2, <3>4, <3>5, StampTypes DEF TypeInv, StartInv
      <4> QED  BY <3>6, <3>7, <4>1, <4>2 DEF Upto
    <3>9. ~Earliest(s.start)
      BY <3>4, <3>6, <3>8 DEF Earliest, Upto
    <3>10. ASSUME NEW g \in good PROVE g.day <= s.start[1]
      <4>1. ~(s.start[1] < g.day)
        BY <1>2, <3>9 DEF TypeInv, StartInv, Final
      <4>2. g.day \in Nat
        BY <1>2, FactsAssumption DEF RunInv, Days
      <4> QED  BY <3>6, <4>1, <4>2
    <3> QED  BY <3>8, <3>10
  <2>3. CASE ~BuildDim
    <3>1. dim' = dim
      BY <1>2, <2>3 DEF Next, Ingested, Deploy, NextDay, StartRun, BuildFacts,
         Fail, marts, vars
    <3> QED  BY <2>1, <3>1
  <2> QED  BY <2>2, <2>3
<1>3. TypeInv /\ RunInv /\ [Next]_vars => [Settling]_vars
  BY <1>2
<1> QED
  BY InitInv, NextInv, InitTypes, TypeStep, <1>1, <1>3, PTL DEF Spec, StartSettles

-----------------------------------------------------------------------------
(* While dim_tickers has not changed since the last full build, the rows   *)
(* that are owed join with it.  A merge that takes such a row away puts    *)
(* one of the same batch in its place, with the symbol's id of today.      *)

LEMMA BuildFactsJoin ==
    ASSUME IInv, JoinedUnlessRenamed, BuildFacts
    PROVE  JoinedUnlessRenamed'
<1> SUFFICES ASSUME NEW b \in Changes', Owed(b.day)', ~renamed'
             PROVE  \E r \in facts' : r.from = b.id /\ r.symbol \in dim'
  BY DEF JoinedUnlessRenamed, Changes
<1>1. /\ UNCHANGED <<log, today, dim>> /\ b \in Changes
      /\ \A g \in good' : g \in good \/
            (dim # {} /\ g = [day |-> today, full |-> FullBuild])
      /\ FullBuild \/ ~renamed
  BY DEF BuildFacts, Changes, BatchesOf
<1>2. /\ b.day \in Nat /\ DaysToIngest \in Nat /\ today \in Nat
  BY <1>1, FactsAssumption DEF IInv, LogInv, LogTypeOK, Batch, Changes, BatchesOf
<1>3. /\ Result \subseteq facts'
      /\ dim # {} /\ (FullBuild \/ InWindow(b)) =>
            \E r \in Result : r.from = b.id /\ r.symbol \in dim
  BY <1>1, BuildRows, ResultRows DEF IInv
<1>4. PICK g \in good' : b.day < g.day /\ (g.full \/ g.day <= b.day + DaysToIngest)
  BY DEF Owed
<1>5. dim # {}
  BY <1>1, <1>4 DEF IInv, DimInv
<1>6. CASE g = [day |-> today, full |-> FullBuild]
  <2>1. FullBuild \/ InWindow(b)
    BY <1>2, <1>4, <1>6 DEF InWindow
  <2> QED  BY <1>1, <1>3, <1>5, <2>1
<1>7. CASE FullBuild
  BY <1>1, <1>3, <1>5, <1>7
<1>8. CASE g \in good /\ ~FullBuild
  <2>1. PICK r \in facts : r.from = b.id /\ r.symbol \in dim
    BY <1>1, <1>4, <1>8 DEF JoinedUnlessRenamed, Owed, Changes
  <2>2. r.day = b.day
    BY <1>1, <2>1 DEF IInv, FactInv, LogInv, Changes, BatchesOf
  <2>3. CASE r \in facts'
    BY <1>1, <2>1, <2>3
  <2>4. CASE \E s \in Result : Key(s) = Key(r)
    <3>1. PICK s \in Result : Key(s) = Key(r)
      BY <2>4
    <3>2. s.day = r.day
      BY <3>1 DEF Key
    <3>3. InWindow(b)
      BY <1>8, <2>2, <3>2, ResultRows DEF InWindow, IInv
    <3> QED  BY <1>1, <1>3, <1>5, <3>3
  <2> QED  BY <1>8, <2>3, <2>4, BuildRows
<1> QED  BY <1>1, <1>4, <1>6, <1>7, <1>8

LEMMA JoinStep == IInv /\ JoinedUnlessRenamed /\ [Next]_vars => JoinedUnlessRenamed'
<1> SUFFICES ASSUME IInv, JoinedUnlessRenamed, [Next]_vars PROVE JoinedUnlessRenamed'
  OBVIOUS
<1> USE DEF JoinedUnlessRenamed, Owed
<1>1. ASSUME NEW b \in Batch, Ingested(b) PROVE JoinedUnlessRenamed'
  <2>1. /\ BatchesOf("ticker_price_change")' \subseteq
              BatchesOf("ticker_price_change") \cup {b}
        /\ UNCHANGED <<facts, dim, good, renamed>>
    BY <1>1 DEF Ingested, AppendBatch, BatchesOf, marts
  <2>2. ~\E g \in good : b.day < g.day
    <3>1. b.day \in Nat /\ today \in Nat /\ (b.day < today => ~ran)
      BY <1>1, FactsAssumption DEF IInv, LogInv, LogTypeOK, Batch, Ingested
    <3>2. b.day <= today
      BY <1>1 DEF Ingested, AppendBatch
    <3>3. \A g \in good : g.day \in Nat /\ g.day <= today /\ (g.day = today => ran)
      BY FactsAssumption DEF IInv, RunInv, Days
    <3>4. today <= b.day + 1
      BY <1>1 DEF Ingested, AppendBatch
    <3> QED  BY <3>1, <3>2, <3>3, <3>4
  <2> QED  BY <2>1, <2>2
<1>2. CASE BuildDim
  <2>1. /\ UNCHANGED <<log, facts, good>>
        /\ dim = {} \/ dim' = dim \/ renamed'
        /\ renamed => renamed'
    BY <1>2 DEF BuildDim
  <2>2. dim = {} => good = {}
    BY DEF IInv, DimInv
  <2> QED  BY <2>1, <2>2 DEF BatchesOf
<1>3. CASE NextDay \/ StartRun \/ Fail \/ (\E n \in Names : Deploy(n)) \/ UNCHANGED vars
  BY <1>3 DEF NextDay, Midnight, StartRun, Fail, Deploy, marts, vars, BatchesOf
<1> QED  BY <1>1, <1>2, <1>3, BuildFactsJoin DEF Next

(* A price change that is owed joins with dim_tickers, unless the symbol   *)
(* was given another id and no full refresh has followed.                  *)
THEOREM OwedFactsJoin == Spec => []JoinedUnlessRenamed
<1>1. Init => JoinedUnlessRenamed
  BY DEF Init, LogInit, JoinedUnlessRenamed, BatchesOf
<1> QED  BY InitInv, NextInv, <1>1, JoinStep, PTL DEF Spec

=============================================================================

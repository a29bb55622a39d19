------------------------- MODULE AccountValueProofs -------------------------
(***************************************************************************)
(* What the small instance of MCAccountValue shows of the wallet's value,  *)
(* for every set of assets, log, window and week.  That a row is right     *)
(* needs only that the same batches make the same value; that values are   *)
(* numbers, and what settled days report, needs Sums.                      *)
(***************************************************************************)
EXTENDS AccountValue, FiniteSetTheorems, Sums, TLAPS

AllPrices == BatchesOf("ticker_price_change")

(* The raw tables hold a batch once, and none of a day to come. *)
LogInv ==
    /\ LogTypeOK
    /\ \A b, c \in log : b.id = c.id => b = c
    /\ \A b \in log : b.day <= today

(* A run starts once a day; the builds that succeeded are of the past, or  *)
(* of today's run, which is then over.                                     *)
RunInv ==
    /\ step # "idle" => ran
    /\ good \subseteq 0..today
    /\ today \in good => ran /\ step = "idle"
    /\ builtV <=> good # {}

(* A row of fact_ticker_prices comes from a batch.  Once today's run has   *)
(* built them, those of its window are all there, under the ids of today.  *)
PriceInv ==
    /\ step \in {"prices", "value"} => dim # {}
    /\ \A r \in prices : \E b \in AllPrices : b.id = r.from
    /\ step = "value" =>
          \A b \in AllPrices :
              b.day < today /\ (IsSunday(today) \/ InWindow(b)) =>
                  \A a \in Assets, names \in dim :
                      [asset |-> a, name |-> names[a], from |-> b.id] \in prices

RowInv ==
    /\ \A r \in values : r.updated \in good
    /\ \A r, s \in values : r.day = s.day /\ r.updated = s.updated => r = s

(* What a row should say of its day and of the day before.                 *)
RightRow(d, r) ==
    /\ r.value = Shown(d, r.updated)
    /\ \/ r.change = 0
       \/ ~IsSunday(r.updated) /\ r.updated = Min(good)
       \/ Before(d) # {} /\ r.change = r.value - Shown(Max(Before(d)), r.updated)

(* A day that was seen whole has one row updated last, and it is right.    *)
RightInv ==
    \A d \in TrueDays : Owing(d) # {} =>
        \E r \in values : Latest(d) = {r} /\ RightRow(d, r)

IInv == LogInv /\ RunInv /\ PriceInv /\ RowInv /\ RightInv

-----------------------------------------------------------------------------
(* What the query of fact_daily_account_value sees. *)

Quotes == [a \in Assets |-> Joined(a)]
Valued == ValuedDays(Quotes, Snapshots)
InView(d) == IsSunday(today) \/ (d - 1) + DaysToIngest >= today
Whole(d) == d < today /\ InView(d)

LEMMA Numbers ==
    ASSUME IInv
    PROVE  /\ today \in Nat /\ MaxDay \in Nat /\ today <= MaxDay /\ DaysToIngest \in Nat
           /\ good \subseteq Nat /\ \A g \in good : g <= today
           /\ \A b \in log : b.day \in Nat
  BY ValueAssumption DEF IInv, LogInv, LogTypeOK, RunInv, Batch

(* The prices of a day it sees whole are the batches of that day ...       *)
LEMMA PricesWhole ==
    ASSUME IInv, step = "value", NEW d \in Days, Whole(d), NEW a \in Assets
    PROVE  OfDay(Joined(a), d) = OfDay(AllPrices, d)
<1>1. ASSUME NEW b \in OfDay(Joined(a), d)
      PROVE  b \in OfDay(AllPrices, d)
  <2>1. b \in log /\ b.day = d /\ \E r \in prices : r.from = b.id
    BY <1>1 DEF OfDay, Joined
  <2>2. \E c \in AllPrices : c.id = b.id
    BY <2>1 DEF IInv, PriceInv
  <2> QED  BY <2>1, <2>2 DEF IInv, LogInv, AllPrices, BatchesOf, OfDay
<1>2. ASSUME NEW b \in OfDay(AllPrices, d)
      PROVE  b \in OfDay(Joined(a), d)
  <2>1. b \in log /\ b \in AllPrices /\ b.day = d /\ d \in Nat
    BY <1>2, Numbers DEF OfDay, AllPrices, BatchesOf
  <2>2. b.day < today /\ (IsSunday(today) \/ InWindow(b))
    BY <2>1, Numbers DEF Whole, InView, InWindow
  <2>3. PICK names \in dim : TRUE
    BY DEF IInv, PriceInv
  <2>4. [asset |-> a, name |-> names[a], from |-> b.id] \in prices
    BY <2>1, <2>2 DEF IInv, PriceInv
  <2>5. \E r \in prices, ns \in dim : r.from = b.id /\ r.asset = a /\ r.name = ns[a]
    BY <2>4
  <2>6. FullBuild \/ OpenInWindow(b, a)
    BY <2>1, Numbers DEF Whole, InView, FullBuild, OpenInWindow, OpenDay
  <2> QED  BY <2>1, <2>5, <2>6 DEF Joined, OfDay
<1> QED  BY <1>1, <1>2 DEF OfDay

(* ... and so are the snapshots. *)
LEMMA SnapshotsWhole ==
    ASSUME IInv, NEW d \in Days, Whole(d)
    PROVE  OfDay(Snapshots, d) = OfDay(AllSnapshots, d)
<1>1. ASSUME NEW b \in OfDay(AllSnapshots, d)
      PROVE  FullBuild \/ InWindow(b)
  <2>1. b.day = d /\ d \in Nat
    BY <1>1 DEF OfDay, Days
  <2> QED  BY <2>1, Numbers DEF Whole, InView, FullBuild, InWindow
<1> QED  BY <1>1 DEF OfDay, Snapshots, AllSnapshots

LEMMA WalletWhole ==
    ASSUME IInv, step = "value", NEW d \in Days, Whole(d)
    PROVE  /\ d \in Valued <=> d \in TrueDays
           /\ Wallet(Quotes, Snapshots, d) = TrueWallet(d)
           /\ Shown(d, today) = TrueWallet(d)
<1>1. Priced(Quotes, d) = Priced(AllQuotes, d)
  <2>1. \A a \in Assets : OfDay(Quotes[a], d) = OfDay(AllQuotes[a], d)
    BY PricesWhole DEF Quotes, AllQuotes, AllPrices
  <2> QED  BY <2>1 DEF Priced
<1>2. Holding(Snapshots, d) = Holding(AllSnapshots, d)
  BY SnapshotsWhole DEF Holding
<1>3. ~Edge(d, today)
  BY Numbers DEF Whole, InView, Edge, Days
<1> QED  BY <1>1, <1>2, <1>3 DEF Valued, TrueDays, ValuedDays, Wallet, TrueWallet, Shown

(* At the edge an incremental build has the late prices, and all of the    *)
(* snapshots.                                                              *)
LEMMA WalletAtEdge ==
    ASSUME IInv, step = "value", ~FullBuild, NEW d \in Days, d < today,
           today = d + DaysToIngest
    PROVE  /\ d \in Valued <=> Edge(d, today)
           /\ d \in Valued => Wallet(Quotes, Snapshots, d) = Shown(d, today)
<1>0. d \in Nat /\ ~IsSunday(today)
  BY DEF Days, FullBuild
<1>1. ASSUME NEW a \in Assets PROVE OfDay(Joined(a), d) = OfDay(LateQuotes[a], d)
  <2>1. LateQuotes[a] = {b \in AllPrices : <<b.id, a>> \in late}
    BY DEF LateQuotes, AllQuotes, AllPrices
  <2>2. ASSUME NEW b \in OfDay(Joined(a), d)
        PROVE  b \in AllPrices /\ <<b.id, a>> \in late
    <3>1. b \in log /\ b.day = d /\ OpenInWindow(b, a) /\ \E r \in prices : r.from = b.id
      BY <2>2 DEF OfDay, Joined
    <3>2. \E c \in AllPrices : c.id = b.id
      BY <3>1 DEF IInv, PriceInv
    <3>3. <<b.id, a>> \in late
      BY <1>0, <3>1, Numbers DEF OpenInWindow, OpenDay
    <3> QED  BY <3>1, <3>2, <3>3 DEF IInv, LogInv, AllPrices, BatchesOf
  <2>3. ASSUME NEW b \in AllPrices, b.day = d, <<b.id, a>> \in late
        PROVE  b \in Joined(a)
    <3>1. b \in log /\ b.day < today /\ InWindow(b)
      BY <1>0, <2>3, Numbers DEF AllPrices, BatchesOf, InWindow
    <3>2. PICK names \in dim : TRUE
      BY DEF IInv, PriceInv
    <3>3. [asset |-> a, name |-> names[a], from |-> b.id] \in prices
      BY <2>3, <3>1, <3>2 DEF IInv, PriceInv
    <3>4. \E r \in prices, ns \in dim : r.from = b.id /\ r.asset = a /\ r.name = ns[a]
      BY <3>3
    <3>5. OpenInWindow(b, a)
      BY <1>0, <2>3, Numbers DEF OpenInWindow, OpenDay
    <3> QED  BY <3>1, <3>4, <3>5 DEF Joined
  <2> QED  BY <2>1, <2>2, <2>3 DEF OfDay
<1>2. OfDay(Snapshots, d) = OfDay(AllSnapshots, d)
  <2>1. ASSUME NEW b \in OfDay(AllSnapshots, d) PROVE InWindow(b)
    BY <1>0, <2>1, Numbers DEF OfDay, InWindow
  <2> QED  BY <2>1 DEF OfDay, Snapshots, AllSnapshots
<1>3. Priced(Quotes, d) = Priced(LateQuotes, d)
  <2>1. \A a \in Assets : OfDay(Quotes[a], d) = OfDay(LateQuotes[a], d)
    BY <1>1 DEF Quotes
  <2> QED  BY <2>1 DEF Priced
<1>4. Holding(Snapshots, d) = Holding(AllSnapshots, d)
  BY <1>2 DEF Holding
<1>5. d \in Valued <=> Edge(d, today)
  BY <1>0, <1>3, <1>4 DEF Valued, ValuedDays, Edge
<1>6. Wallet(Quotes, Snapshots, d) = Wallet(LateQuotes, AllSnapshots, d)
  BY <1>3, <1>4 DEF Wallet
<1> QED  BY <1>5, <1>6 DEF Shown

(* An incremental build values no other day that only one of its two       *)
(* windows shows.                                                          *)
LEMMA NoHalfDay ==
    ASSUME IInv, ~FullBuild, NEW d \in Valued
    PROVE  d \in Days /\ (InView(d) \/ today = d + DaysToIngest)
<1>1. d \in Days /\ \E a \in Assets : OfDay(Joined(a), d) # {}
  BY DEF Valued, ValuedDays, Counted, Priced, Quotes
<1>2. PICK b \in log, a \in Assets : b.day = d /\ OpenInWindow(b, a)
  BY <1>1 DEF OfDay, Joined
<1>3. d \in Nat
  BY <1>1 DEF Days
<1> QED  BY <1>1, <1>2, <1>3, Numbers DEF InView, OpenInWindow, OpenDay

LEMMA ValuedIsPast ==
    ASSUME IInv, NEW d \in Valued
    PROVE  d \in Nat /\ d <= today /\ d \in Days
<1>1. d \in Days /\ \E a \in Assets : OfDay(Joined(a), d) # {}
  BY DEF Valued, ValuedDays, Counted, Priced, Quotes
<1>2. \E b \in log : b.day = d
  BY <1>1 DEF OfDay, Joined
<1> QED  BY <1>1, <1>2 DEF IInv, LogInv, Days

(* The rows of the query: one for each day valued. *)
LEMMA ResultRows ==
    /\ \A r \in Result :
          /\ r.day \in Valued
          /\ r.value = Wallet(Quotes, Snapshots, r.day)
          /\ r.change = Change(Quotes, Snapshots, r.day)
          /\ r.updated = today
    /\ \A r, s \in Result : r.day = s.day => r = s
    /\ \A d \in Valued : \E r \in Result : r.day = d
<1> DEFINE Row(d) == [day |-> d, value |-> Wallet(Quotes, Snapshots, d),
                      change |-> Change(Quotes, Snapshots, d), updated |-> today]
<1>1. Result = {Row(d) : d \in Valued}
  BY DEF Result, Valued, Quotes
<1>2. \A d : /\ Row(d).day = d
             /\ Row(d).value = Wallet(Quotes, Snapshots, d)
             /\ Row(d).change = Change(Quotes, Snapshots, d)
             /\ Row(d).updated = today
  OBVIOUS
<1> QED
  <2> HIDE DEF Row
  <2> QED  BY <1>1, <1>2

(* No build makes up a value: it sees a part of what there is. *)
LEMMA ValuedIsTrue ==
    ASSUME IInv
    PROVE  Valued \subseteq TrueDays
<1>1. \A a \in Assets : Joined(a) \subseteq AllPrices
  <2>1. SUFFICES ASSUME NEW a \in Assets, NEW b \in Joined(a) PROVE b \in AllPrices
    OBVIOUS
  <2>2. b \in log /\ \E r \in prices : r.from = b.id
    BY DEF Joined
  <2>3. PICK c \in AllPrices : c.id = b.id
    BY <2>2 DEF IInv, PriceInv
  <2> QED  BY <2>2, <2>3 DEF IInv, LogInv, AllPrices, BatchesOf
<1>2. Snapshots \subseteq AllSnapshots
  BY DEF Snapshots, AllSnapshots
<1>3. ASSUME NEW d \in Valued PROVE d \in TrueDays
  <2>1. PICK a \in Assets : Priced(Quotes, d)[a] # {} /\ Holding(Snapshots, d)[a] # {}
    BY DEF Valued, ValuedDays, Counted
  <2>2. Priced(AllQuotes, d)[a] # {}
    BY <1>1, <2>1 DEF Priced, Quotes, AllQuotes, AllPrices, OfDay
  <2>3. Holding(AllSnapshots, d)[a] # {}
    BY <1>2, <2>1 DEF Holding, OfDay
  <2>4. d \in Days
    BY DEF Valued, ValuedDays
  <2> QED  BY <2>2, <2>3, <2>4 DEF TrueDays, ValuedDays, Counted
<1> QED  BY <1>3

(* So what a build makes of a day that is over is what Shown says.         *)
LEMMA SeenIsShown ==
    ASSUME IInv, step = "value", IsSunday(today) \/ builtV,
           NEW d \in Valued, d < today
    PROVE  Wallet(Quotes, Snapshots, d) = Shown(d, today)
<1>1. d \in Days
  BY DEF Valued, ValuedDays
<1>2. CASE Whole(d)
  BY <1>1, <1>2, WalletWhole
<1>3. CASE ~Whole(d)
  <2>1. ~FullBuild
    BY <1>3 DEF Whole, InView, FullBuild
  <2>2. today = d + DaysToIngest
    BY <1>3, <2>1, NoHalfDay DEF Whole
  <2> QED  BY <1>1, <2>1, <2>2, WalletAtEdge
<1> QED  BY <1>2, <1>3

(* The change is the one since the last day before, as the build shows it, *)
(* or 0 where the window does not hold that day; unless the values are     *)
(* built for the first time.                                               *)
LEMMA ChangeIsRight ==
    ASSUME IInv, step = "value", IsSunday(today) \/ builtV,
           NEW d \in Valued, d < today
    PROVE  \/ Change(Quotes, Snapshots, d) = 0
           \/ /\ Before(d) # {}
              /\ Change(Quotes, Snapshots, d)
                 = Wallet(Quotes, Snapshots, d) - Shown(Max(Before(d)), today)
<1> DEFINE B == Before(d)
           S == {e \in Valued : e < d}
<1>1. CASE S = {}
  BY <1>1 DEF Change, Valued
<1>2. CASE S # {}
  <2>1. \A e \in S : e \in Days /\ e \in Nat /\ e < today /\ e \in B
    <3>1. SUFFICES ASSUME NEW e \in Valued, e < d
                   PROVE  e \in Days /\ e \in Nat /\ e < today /\ e \in B
      OBVIOUS
    <3>2. e \in Nat /\ e \in Days /\ e < today
      BY <3>1, ValuedIsPast, Numbers
    <3> QED  BY <3>1, <3>2, ValuedIsTrue DEF Before
  <2>2. B \subseteq 0..MaxDay /\ B # {} /\ S \subseteq 0..MaxDay
    <3>1. B \subseteq 0..MaxDay
      BY DEF Before, TrueDays, ValuedDays, Days
    <3> QED  BY <1>2, <2>1, <3>1
  <2>3. Max(B) \in B /\ \A e \in B : Max(B) >= e
    <3> HIDE DEF B
    <3> QED  BY <2>2, Numbers, MaxExists
  <2>4. Max(S) \in S /\ \A e \in S : Max(S) >= e
    <3> HIDE DEF S
    <3> QED  BY <1>2, <2>2, Numbers, MaxExists
  <2>5. PICK m \in B, n \in S : m = Max(B) /\ n = Max(S)
    BY <2>3, <2>4
  <2>6. m \in Nat /\ n \in Nat /\ n \in B /\ m >= n /\ m < d /\ d \in Nat /\ m \in Days
    BY <2>1, <2>2, <2>3, <2>5, ValuedIsPast DEF Before, Days
  <2>7. m = n
    <3>1. CASE m > n
      <4>1. InView(n) \/ today = n + DaysToIngest
        BY <2>5, NoHalfDay DEF FullBuild, InView
      <4>2. Whole(m)
        BY <2>6, <3>1, <4>1, ValuedIsPast, Numbers DEF Whole, InView
      <4>3. m \in S
        BY <2>5, <2>6, <4>2, WalletWhole DEF Before
      <4> QED  BY <2>4, <2>5, <2>6, <3>1, <4>3
    <3> QED  BY <2>6, <3>1
  <2>8. Wallet(Quotes, Snapshots, n) = Shown(n, today)
    BY <2>1, <2>5, SeenIsShown
  <2>9. Change(Quotes, Snapshots, d)
        = Wallet(Quotes, Snapshots, d) - Wallet(Quotes, Snapshots, n)
    <3>1. \E e \in Valued : e < d
      BY <1>2
    <3> QED  BY <2>5, <3>1 DEF Change, Lag, Valued
  <2> QED  BY <2>2, <2>5, <2>7, <2>8, <2>9
<1> QED  BY <1>1, <1>2

-----------------------------------------------------------------------------
(* A batch that arrives is of a day no build has seen the end of. *)
LEMMA IngestedStep ==
    ASSUME IInv, NEW b \in Batch, NEW slipped \in SUBSET Assets, Ingested(b, slipped)
    PROVE  IInv'
<1>1. /\ UNCHANGED <<today, image, marts, step, ran, good>> /\ log' = log \cup {b}
      /\ late' = late \cup ({b.id} \X slipped)
      /\ b.day <= today /\ today <= b.day + 1 /\ (b.day < today => ~ran)
      /\ \A c \in log : c.id # b.id
  BY DEF Ingested, AppendBatch
<1>2. b.day \in Nat
  BY ValueAssumption DEF Batch
<1>3. \A g \in good : g \in Nat /\ g <= b.day
  BY <1>1, <1>2, Numbers DEF IInv, RunInv
<1>4. LogInv'
  BY <1>1 DEF IInv, LogInv, LogTypeOK
<1>5. RunInv'
  BY <1>1 DEF IInv, RunInv, marts
<1>6. PriceInv'
  <2>1. UNCHANGED <<today, dim, prices, step, ran>>
    BY <1>1 DEF marts
  <2>2. AllPrices \subseteq AllPrices' /\ \A c \in AllPrices' : c \in AllPrices \/ c = b
    BY <1>1 DEF AllPrices, BatchesOf
  <2>3. step = "value" => ~(b.day < today)
    BY <1>1 DEF IInv, RunInv
  <2>4. IsSunday(today)' = IsSunday(today) /\ \A c : InWindow(c)' = InWindow(c)
    BY <2>1 DEF IsSunday, InWindow
  <2> QED  BY <2>1, <2>2, <2>3, <2>4 DEF IInv, PriceInv
<1>7. RowInv'
  BY <1>1 DEF IInv, RowInv, marts
<1>8. ASSUME NEW e \in Days, e # b.day
      PROVE  /\ e \in TrueDays' <=> e \in TrueDays
             /\ \A g \in Nat : Shown(e, g)' = Shown(e, g)
  <2>1. /\ OfDay(AllPrices, e)' = OfDay(AllPrices, e)
        /\ OfDay(AllSnapshots, e)' = OfDay(AllSnapshots, e)
    BY <1>1, <1>8 DEF OfDay, AllPrices, AllSnapshots, BatchesOf
  <2>2. Priced(AllQuotes, e)' = Priced(AllQuotes, e)
    <3>1. /\ \A a \in Assets : AllQuotes[a] = AllPrices
          /\ \A a \in Assets : AllQuotes'[a] = AllPrices'
      BY DEF AllQuotes, AllPrices
    <3> QED  BY <2>1, <3>1 DEF Priced, OfDay
  <2>3. Holding(AllSnapshots, e)' = Holding(AllSnapshots, e)
    BY <2>1 DEF Holding, OfDay, Held
  <2>4. Priced(LateQuotes, e)' = Priced(LateQuotes, e)
    <3>1. ASSUME NEW a \in Assets
          PROVE  OfDay(LateQuotes[a], e)' = OfDay(LateQuotes[a], e)
      <4>1. /\ LateQuotes[a] = {c \in AllPrices : <<c.id, a>> \in late}
            /\ LateQuotes'[a] = {c \in AllPrices' : <<c.id, a>> \in late'}
        BY DEF LateQuotes, AllQuotes, AllPrices
      <4>2. \A c \in log : <<c.id, a>> \in late' <=> <<c.id, a>> \in late
        BY <1>1
      <4>3. AllPrices \subseteq log /\ OfDay(AllPrices, e) \subseteq log
        BY DEF AllPrices, BatchesOf, OfDay
      <4> QED  BY <2>1, <4>1, <4>2, <4>3 DEF OfDay
    <3> QED  BY <3>1 DEF Priced
  <2>5. ASSUME NEW g \in Nat PROVE Shown(e, g)' = Shown(e, g)
    <3>1. Edge(e, g)' = Edge(e, g)
      BY <2>3, <2>4 DEF Edge, ValuedDays, IsSunday
    <3> QED  BY <2>2, <2>3, <2>4, <3>1 DEF Shown, TrueWallet, Wallet
  <2> QED  BY <2>2, <2>3, <2>5 DEF TrueDays, ValuedDays
<1>9. RightInv'
  <2>1. SUFFICES ASSUME NEW d \in TrueDays', Owing(d)' # {}
                 PROVE  (\E r \in values : Latest(d) = {r} /\ RightRow(d, r))'
    BY DEF RightInv
  <2>2. Owing(d)' = Owing(d) /\ Latest(d)' = Latest(d)
    BY <1>1 DEF Owing, IsSunday, Latest, marts
  <2>3. d \in Nat /\ d \in Days /\ d < b.day
    <3>1. d \in Days
      BY DEF TrueDays, ValuedDays
    <3>2. PICK g \in good : d < g /\ g <= b.day
      BY <1>3, <2>1, <2>2 DEF Owing
    <3> QED  BY <1>2, <1>3, <3>1, <3>2 DEF Days
  <2>4. d \in TrueDays /\ \A g \in Nat : Shown(d, g)' = Shown(d, g)
    BY <1>2, <1>8, <2>1, <2>3
  <2>5. Before(d)' = Before(d)
    <3>1. ASSUME NEW e, e < d
          PROVE  e \in TrueDays' <=> e \in TrueDays
      <4>1. CASE e \in Days
        <5>1. e \in Nat /\ e # b.day
          BY <1>2, <2>3, <3>1, <4>1 DEF Days
        <5> QED  BY <1>8, <4>1, <5>1
      <4>2. CASE e \notin Days
        BY <4>2 DEF TrueDays, ValuedDays
      <4> QED  BY <4>1, <4>2
    <3> QED  BY <3>1 DEF Before
  <2>6. ASSUME Before(d) # {}, NEW g \in Nat
        PROVE  Shown(Max(Before(d)), g)' = Shown(Max(Before(d)), g)
    <3>1. Before(d) \subseteq 0..MaxDay
      BY DEF Before, TrueDays, ValuedDays, Days
    <3>2. PICK m \in Before(d) : m = Max(Before(d))
      BY <2>6, <3>1, MaxExists, Numbers
    <3>3. m \in Days /\ m # b.day
      BY <1>2, <2>3, <3>1, <3>2 DEF Before, Days
    <3>4. Shown(m, g)' = Shown(m, g)
      BY <1>8, <3>3
    <3> QED  BY <2>5, <3>2, <3>4
  <2>7. PICK r \in values : Latest(d) = {r} /\ RightRow(d, r)
    BY <2>1, <2>2, <2>4 DEF IInv, RightInv
  <2>8. values' = values /\ good' = good
    BY <1>1 DEF marts
  <2>9. r.updated \in Nat
    BY Numbers DEF IInv, RowInv
  <2>10. RightRow(d, r)'
    BY <2>4, <2>5, <2>6, <2>7, <2>8, <2>9 DEF RightRow, IsSunday
  <2> QED  BY <2>2, <2>7, <2>8, <2>10
<1> QED  BY <1>4, <1>5, <1>6, <1>7, <1>9 DEF IInv

(* A step that leaves the log, the values and their builds alone. *)
LEMMA SameLog ==
    ASSUME UNCHANGED <<log, late>>
    PROVE  /\ TrueDays' = TrueDays
           /\ \A d : Before(d)' = Before(d) /\ Divided(d)' = Divided(d)
           /\ \A d : TrueWallet(d)' = TrueWallet(d)
           /\ \A d, g : Shown(d, g)' = Shown(d, g)
<1>1. /\ AllQuotes' = AllQuotes /\ AllSnapshots' = AllSnapshots
      /\ LateQuotes' = LateQuotes
  BY DEF AllQuotes, AllSnapshots, LateQuotes, BatchesOf
<1>2. \A d : /\ Priced(AllQuotes, d)' = Priced(AllQuotes, d)
             /\ Priced(LateQuotes, d)' = Priced(LateQuotes, d)
             /\ Holding(AllSnapshots, d)' = Holding(AllSnapshots, d)
  BY <1>1 DEF Priced, Holding, OfDay, Held
<1>3. TrueDays' = TrueDays /\ \A d : TrueWallet(d)' = TrueWallet(d)
  BY <1>2 DEF TrueDays, ValuedDays, TrueWallet, Wallet
<1>4. \A d, g : Edge(d, g)' = Edge(d, g)
  BY <1>2 DEF Edge, ValuedDays, IsSunday
<1>5. \A d, g : Shown(d, g)' = Shown(d, g)
  BY <1>2, <1>3, <1>4 DEF Shown, Wallet
<1>6. \A d : Before(d)' = Before(d) /\ Divided(d)' = Divided(d)
  BY <1>3 DEF Before, Divided, OfDay, BatchesOf
<1> QED  BY <1>3, <1>5, <1>6

LEMMA NothingBuilt ==
    ASSUME IInv, UNCHANGED <<log, late, values, good>>
    PROVE  RowInv' /\ RightInv'
<1>1. \A d : Owing(d)' = Owing(d) /\ Latest(d)' = Latest(d)
  BY DEF Owing, Latest, IsSunday
<1>2. \A d, r : RightRow(d, r)' = RightRow(d, r)
  BY SameLog DEF RightRow, IsSunday
<1>3. RightInv'
  BY <1>1, <1>2, SameLog DEF IInv, RightInv
<1>4. RowInv'
  BY DEF IInv, RowInv
<1> QED  BY <1>3, <1>4

LEMMA NextDayStep ==
    ASSUME IInv, NextDay
    PROVE  IInv'
<1>1. /\ UNCHANGED <<log, late, image, marts, step, good>> /\ step = "idle"
      /\ today' = today + 1 /\ today' \in 0..MaxDay
  BY Numbers DEF NextDay, Midnight
<1>2. LogInv'
  BY <1>1, Numbers DEF IInv, LogInv, LogTypeOK
<1>3. RunInv'
  BY <1>1, Numbers DEF IInv, RunInv, marts
<1>4. PriceInv'
  BY <1>1 DEF IInv, PriceInv, AllPrices, BatchesOf, marts
<1> QED  BY <1>1, <1>2, <1>3, <1>4, NothingBuilt DEF IInv, marts

(* The steps of a run before the values are built, and the rest. *)
LEMMA OtherSteps ==
    ASSUME IInv,
           \/ StartRun \/ BuildDim \/ BuildPrices \/ Fail
           \/ \E a \in Assets, n \in Names : Deploy(a, n)
           \/ UNCHANGED vars
    PROVE  IInv'
<1>1. UNCHANGED <<log, today, late, builtV, values, good>>
  BY DEF StartRun, BuildDim, BuildPrices, Fail, Deploy, vars, marts
<1>2. LogInv'
  BY <1>1 DEF IInv, LogInv, LogTypeOK
<1>3. RunInv'
  BY <1>1 DEF IInv, RunInv, StartRun, BuildDim, BuildPrices, Fail, Deploy, vars
<1>4. AllPrices' = AllPrices
  BY <1>1 DEF AllPrices, BatchesOf
<1>5. PriceInv'
  <2>1. CASE StartRun \/ BuildDim \/ Fail
    BY <1>4, <2>1 DEF IInv, PriceInv, StartRun, BuildDim, Fail, marts
  <2>2. CASE UNCHANGED <<today, dim, prices, step>>
    BY <1>4, <2>2 DEF IInv, PriceInv, IsSunday, InWindow
  <2>3. CASE BuildPrices
    <3>1. /\ UNCHANGED <<today, dim>> /\ step' = "value" /\ dim # {}
          /\ prices' \subseteq prices \cup PricesSelected /\ PricesSelected \subseteq prices'
      BY <2>3 DEF IInv, PriceInv, BuildPrices
    <3>2. \A r \in PricesSelected : \E b \in AllPrices : b.id = r.from
      BY DEF PricesSelected, AllPrices
    <3>3. ASSUME NEW b \in AllPrices, IsSunday(today) \/ InWindow(b),
                 NEW a \in Assets, NEW names \in dim
          PROVE  [asset |-> a, name |-> names[a], from |-> b.id] \in prices'
      BY <3>1, <3>3 DEF PricesSelected, AllPrices
    <3>4. IsSunday(today)' = IsSunday(today) /\ \A c : InWindow(c)' = InWindow(c)
      BY <3>1 DEF IsSunday, InWindow
    <3> QED  BY <1>4, <3>1, <3>2, <3>3, <3>4 DEF IInv, PriceInv
  <2> QED  BY <2>1, <2>2, <2>3 DEF Deploy, vars, marts
<1> QED  BY <1>1, <1>2, <1>3, <1>5, NothingBuilt DEF IInv

-----------------------------------------------------------------------------
(* A build adds its rows, and leaves the rows of other days alone if it is *)
(* incremental.                                                            *)
LEMMA RowsAfterBuild ==
    ASSUME IInv, BuildValue
    PROVE  /\ Result \subseteq values'
           /\ \A t \in values' : t \in Result \/ (~FullBuild /\ t \in values)
           /\ ~FullBuild => \A t \in values : t.day \notin Valued => t \in values'
<1>1. CASE FullBuild
  BY <1>1 DEF BuildValue
<1>2. CASE ~FullBuild
  <2>1. values' = {t \in values : \A r \in Result : Key(r) # Key(t)} \cup Result
    BY <1>2 DEF BuildValue, Table!Merge
  <2>2. ASSUME NEW t \in values, t.day \notin Valued
        PROVE  t \in values'
    <3>1. \A r \in Result : Key(r) # Key(t)
      BY <2>2, ResultRows DEF Key
    <3> QED  BY <2>1, <3>1
  <2> QED  BY <1>2, <2>1, <2>2
<1> QED  BY <1>1, <1>2

LEMMA BuildDays ==
    ASSUME IInv, BuildValue
    PROVE  /\ today \in Nat /\ good \subseteq Nat /\ \A g \in good : g < today
           /\ UNCHANGED <<log, today, late, dim, prices, ran>>
           /\ step = "value" /\ step' = "idle" /\ ran
           /\ good' = good \cup {today} /\ builtV' = TRUE
           /\ \A t \in values : t.updated \in good
<1>1. step = "value" /\ today \notin good /\ ran
  BY DEF IInv, RunInv, BuildValue
<1>2. \A g \in good : g < today
  BY <1>1, Numbers
<1> QED  BY <1>1, <1>2, Numbers DEF IInv, RowInv, BuildValue

(* So the row of a day that is valued is the one updated last. *)
LEMMA LatestAfterBuild ==
    ASSUME IInv, BuildValue, NEW d
    PROVE  /\ d \in Valued => \E r \in Result : r.day = d /\ Latest(d)' = {r}
           /\ ~FullBuild /\ d \notin Valued => Latest(d)' = Latest(d)
<1>1. ASSUME d \in Valued
      PROVE  \E r \in Result : r.day = d /\ Latest(d)' = {r}
  <2>1. PICK r \in Result : r.day = d
    BY <1>1, ResultRows
  <2>2. r \in values' /\ r.updated = today
    BY <2>1, RowsAfterBuild, ResultRows
  <2>3. ASSUME NEW t \in values', t.day = d, t # r
        PROVE  t.updated \in Nat /\ t.updated < today
    <3>1. t \in values
      BY <2>1, <2>3, RowsAfterBuild, ResultRows
    <3> QED  BY <3>1, BuildDays
  <2>4. r \in Latest(d)'
    <3>1. \A t \in values' : t.day = d => t.updated <= r.updated
      BY <2>2, <2>3, BuildDays
    <3> QED  BY <2>1, <2>2, <3>1 DEF Latest
  <2>5. ASSUME NEW t \in Latest(d)'
        PROVE  t = r
    <3>1. t \in values' /\ t.day = d /\ r.updated <= t.updated
      BY <2>1, <2>2, <2>5 DEF Latest
    <3> QED  BY <2>2, <2>3, <3>1, BuildDays
  <2> QED  BY <2>1, <2>4, <2>5
<1>2. ASSUME ~FullBuild, d \notin Valued
      PROVE  Latest(d)' = Latest(d)
  <2>1. \A t : t.day = d => (t \in values' <=> t \in values)
    BY <1>2, RowsAfterBuild, ResultRows
  <2> QED  BY <2>1 DEF Latest
<1> QED  BY <1>1, <1>2

LEMMA BuildStep ==
    ASSUME IInv, BuildValue
    PROVE  IInv'
<1>1. LogInv' /\ RunInv'
  <2>1. LogInv'
    BY BuildDays DEF IInv, LogInv, LogTypeOK
  <2>2. \A g \in good' : g \in 0..today
    BY BuildDays
  <2>3. good' \subseteq 0..today' /\ ran' /\ step' = "idle" /\ builtV' /\ good' # {}
    BY <2>2, BuildDays
  <2> QED  BY <2>1, <2>3 DEF RunInv
<1>2. PriceInv'
  BY BuildDays DEF IInv, PriceInv, AllPrices, BatchesOf
<1>3. RowInv'
  <2>1. \A r \in values' : r.updated \in good'
    BY BuildDays, RowsAfterBuild, ResultRows
  <2>2. ASSUME NEW r \in values', NEW s \in values',
               r.day = s.day, r.updated = s.updated
        PROVE  r = s
    <3>1. r \in Result <=> s \in Result
      BY <2>2, BuildDays, RowsAfterBuild, ResultRows
    <3> QED  BY <2>2, <3>1, RowsAfterBuild, ResultRows DEF IInv, RowInv
  <2> QED  BY <2>1, <2>2 DEF RowInv
<1>4. /\ TrueDays' = TrueDays /\ \A d : Before(d)' = Before(d)
      /\ \A d, g : Shown(d, g)' = Shown(d, g)
  BY SameLog, BuildDays
<1>5. \A d, r : RightRow(d, r)' <=>
          /\ r.value = Shown(d, r.updated)
          /\ \/ r.change = 0
             \/ ~IsSunday(r.updated) /\ r.updated = Min(good')
             \/ Before(d) # {} /\ r.change = r.value - Shown(Max(Before(d)), r.updated)
  BY <1>4 DEF RightRow, IsSunday
<1>6. RightInv'
  <2>1. SUFFICES ASSUME NEW d \in TrueDays, Owing(d)' # {}
                 PROVE  \E r \in values' : Latest(d)' = {r} /\ RightRow(d, r)'
    BY <1>4 DEF RightInv
  <2>2. PICK g \in good \cup {today} : d < g /\ (IsSunday(g) \/ g + 1 <= d + DaysToIngest)
    BY <2>1, BuildDays DEF Owing, IsSunday
  <2>3. d \in Days /\ d \in Nat /\ g \in Nat /\ d < today
    BY <2>2, BuildDays DEF TrueDays, ValuedDays, Days
  <2>4. ~Whole(d) => g \in good /\ ~FullBuild
    <3>1. ASSUME ~Whole(d) PROVE ~IsSunday(today) /\ ~((d - 1) + DaysToIngest >= today)
      BY <2>3, <3>1 DEF Whole, InView
    <3>2. ASSUME ~Whole(d) PROVE g \in good
      <4>1. ~(today + 1 <= d + DaysToIngest)
        BY <2>3, <3>1, <3>2, Numbers
      <4> QED  BY <2>2, <3>1, <3>2, <4>1
    <3> QED  BY <3>1, <3>2 DEF IInv, RunInv, FullBuild
  <2>5. CASE d \in Valued
    <3>1. PICK r \in Result : r.day = d /\ Latest(d)' = {r}
      BY <2>5, LatestAfterBuild
    <3>2. /\ r \in values' /\ r.updated = today
          /\ r.value = Wallet(Quotes, Snapshots, d)
          /\ r.change = Change(Quotes, Snapshots, d)
      BY <3>1, RowsAfterBuild, ResultRows
    <3>3. CASE IsSunday(today) \/ builtV
      <4>1. r.value = Shown(d, today)
        BY <2>3, <2>5, <3>2, <3>3, SeenIsShown, BuildDays
      <4>2. \/ r.change = 0
            \/ Before(d) # {} /\ r.change = r.value - Shown(Max(Before(d)), today)
        BY <2>3, <2>5, <3>2, <3>3, ChangeIsRight, BuildDays
      <4> QED  BY <1>5, <3>1, <3>2, <4>1, <4>2
    <3>4. CASE ~IsSunday(today) /\ ~builtV
      <4>1. good' = {today}
        BY <3>4, BuildDays DEF IInv, RunInv
      <4>2. Min(good') = today
        <5>1. good' \subseteq Nat /\ good' # {}
          BY <4>1, BuildDays
        <5> QED  BY <4>1, <5>1, MinExists
      <4>3. Whole(d)
        BY <2>4, <3>4 DEF FullBuild
      <4>4. r.value = Shown(d, today)
        BY <2>3, <3>2, <4>3, WalletWhole, BuildDays
      <4> QED  BY <1>5, <3>1, <3>2, <3>4, <4>2, <4>4
    <3> QED  BY <3>3, <3>4
  <2>6. CASE d \notin Valued
    <3>1. ~Whole(d)
      BY <2>3, <2>6, WalletWhole, BuildDays
    <3>2. ~FullBuild /\ g \in good
      BY <2>4, <3>1
    <3>3. Latest(d)' = Latest(d)
      BY <2>6, <3>2, LatestAfterBuild
    <3>4. Owing(d) # {}
      BY <2>2, <3>2 DEF Owing
    <3>5. PICK r \in values : Latest(d) = {r} /\ RightRow(d, r)
      BY <3>4 DEF IInv, RightInv
    <3>6. r \in values'
      <4>1. r.day = d
        BY <3>5 DEF Latest
      <4> QED  BY <2>6, <3>2, <4>1, RowsAfterBuild
    <3>7. Min(good') = Min(good)
      BY <3>2, BuildDays, MinOfAdded
    <3>8. RightRow(d, r)'
      BY <1>5, <3>5, <3>7 DEF RightRow
    <3> QED  BY <3>3, <3>5, <3>6, <3>8
  <2> QED  BY <2>5, <2>6
<1> QED  BY <1>1, <1>2, <1>3, <1>6 DEF IInv

-----------------------------------------------------------------------------
LEMMA InitInv == Init => IInv
<1> SUFFICES ASSUME Init PROVE IInv
  OBVIOUS
<1>1. LogInv /\ RunInv /\ PriceInv
  BY ValueAssumption DEF Init, LogInit, LogInv, LogTypeOK, RunInv, PriceInv
<1>2. RowInv /\ RightInv
  BY DEF Init, RowInv, RightInv, Owing
<1> QED  BY <1>1, <1>2 DEF IInv

LEMMA NextInv == IInv /\ [Next]_vars => IInv'
<1> SUFFICES ASSUME IInv, [Next]_vars PROVE IInv'
  OBVIOUS
<1>1. ASSUME NEW b \in Batch, NEW slipped \in SUBSET Assets, Ingested(b, slipped)
      PROVE  IInv'
  BY <1>1, IngestedStep
<1>2. CASE NextDay
  BY <1>2, NextDayStep
<1>3. CASE BuildValue
  BY <1>3, BuildStep
<1>4. CASE \/ StartRun \/ BuildDim \/ BuildPrices \/ Fail
           \/ \E a \in Assets, n \in Names : Deploy(a, n)
           \/ UNCHANGED vars
  BY <1>4, OtherSteps
<1> QED  BY <1>1, <1>2, <1>3, <1>4 DEF Next, Run

LEMMA AlwaysInv == Spec => []IInv
  BY InitInv, NextInv, PTL DEF Spec

(* ValueRight for every set of assets, log and window: a day's row that    *)
(* was updated last has the whole wallet, once a build saw the whole day,  *)
(* or else the wallet of the late prices that a build at the edge saw.     *)
THEOREM WalletIsRight == Spec => []ValueRight
<1>1. IInv => ValueRight
  <2>1. SUFFICES ASSUME IInv, NEW d \in TrueDays, Owing(d) # {}
                 PROVE  /\ Cardinality(Latest(d)) = 1
                        /\ \A r \in Latest(d) : r.value = Shown(d, r.updated)
    BY DEF ValueRight
  <2>2. PICK r \in values : Latest(d) = {r} /\ r.value = Shown(d, r.updated)
    BY <2>1 DEF IInv, RightInv, RightRow
  <2> QED  BY <2>2, FS_Singleton
<1> QED  BY <1>1, AlwaysInv, PTL

(* ValueChangeTrueOrZero for every set of assets, log and window: the      *)
(* change on that row is 0, or of the very first build, or the change from *)
(* what the same build made of the last day before.                        *)
THEOREM WalletChange == Spec => []ValueChangeTrueOrZero
<1>1. IInv => ValueChangeTrueOrZero
  <2>1. SUFFICES ASSUME IInv, NEW d \in TrueDays, Owing(d) # {}, NEW s \in Latest(d)
                 PROVE  \/ s.change = 0
                        \/ ~IsSunday(s.updated) /\ s.updated = Min(good)
                        \/ /\ Before(d) # {}
                           /\ s.change = s.value - Shown(Max(Before(d)), s.updated)
    BY DEF ValueChangeTrueOrZero
  <2>2. PICK r \in values : Latest(d) = {r} /\ RightRow(d, r)
    BY <2>1 DEF IInv, RightInv
  <2> QED  BY <2>1, <2>2 DEF RightRow
<1> QED  BY <1>1, AlwaysInv, PTL

(* FailsOnDustOnly for every set of assets, log and window: the division   *)
(* by the day before fails only if the wallet the build sees of it, whole  *)
(* but for the late prices at the edge, rounds to nothing.                 *)
THEOREM DustOnly == Spec => []FailsOnDustOnly
<1>1. IInv => FailsOnDustOnly
  <2>1. SUFFICES ASSUME IInv, step = "value", ~Divides(Result), IsSunday(today) \/ builtV
                 PROVE  \E d \in TrueDays :
                            /\ d < today /\ Shown(d, today) = 0
                            /\ \E b \in OfDay(AllSnapshots, d), a \in Assets : b.payload[a] > 0
    BY DEF FailsOnDustOnly
  <2>2. PICK r \in Result, s \in Result : r.day < s.day /\ r.value = 0
    BY <2>1 DEF Divides
  <2>3. PICK d \in Valued, e \in Valued : d = r.day /\ e = s.day
    BY ResultRows
  <2>4. d < today /\ d \in TrueDays
    BY <2>1, <2>2, <2>3, ValuedIsPast, ValuedIsTrue, Numbers
  <2>5. Shown(d, today) = 0
    BY <2>1, <2>2, <2>3, <2>4, SeenIsShown, ResultRows
  <2>6. \E b \in OfDay(AllSnapshots, d), a \in Assets : b.payload[a] > 0
    BY <2>4 DEF TrueDays, ValuedDays, Counted, Holding, Held
  <2> QED  BY <2>4, <2>5, <2>6
<1> QED  BY <1>1, AlwaysInv, PTL

-----------------------------------------------------------------------------
(* The raw tables are finite, as every insert adds one batch.  This is     *)
(* what makes averages of their batches numbers.                           *)
TInv == TypeOK /\ IsFiniteSet(log)

LEMMA RoundedNat ==
    ASSUME NEW n \in Nat, NEW d \in Nat \ {0}
    PROVE  Rounded(n, d) \in Nat
<1>1. 2 * n + d \in Nat /\ 2 * d \in Nat \ {0}
  OBVIOUS
<1> QED  BY <1>1, QuotientNat DEF Rounded

(* The average price and the quantity of an asset, of any of its batches.  *)
LEMMA AveragesNat ==
    ASSUME TInv, NEW batches \in SUBSET log, batches # {}, NEW a \in Assets
    PROVE  AvgPrice(batches, a) \in Nat /\ Quantity(batches, a) \in Nat
<1>1. IsFiniteSet(batches)
  BY FS_Subset DEF TInv
<1>2. Cardinality(batches) \in Nat \ {0}
  BY <1>1, FS_EmptySet, FS_CardinalityType
<1>3. SumOf(batches, a) \in Nat
  <2> DEFINE f == [b \in batches |-> b.payload[a]]
  <2>1. f \in [batches -> Nat]
    BY ValueAssumption DEF TInv, TypeOK, LogTypeOK, Batch
  <2> HIDE DEF f
  <2>2. SumFunction(f) \in Nat
    BY <1>1, <2>1, SumOfNaturals
  <2> QED  BY <2>2 DEF SumOf, f
<1>4. Scale * SumOf(batches, a) \in Nat
  BY <1>3, ProductNat, ValueAssumption
<1> QED  BY <1>2, <1>3, <1>4, RoundedNat, QuotientNat DEF AvgPrice, Quantity

LEMMA WalletNat ==
    ASSUME TInv, NEW quotes \in [Assets -> SUBSET log], NEW snapshots \in SUBSET log, NEW d
    PROVE  Wallet(quotes, snapshots, d) \in Nat
<1> DEFINE priced == Priced(quotes, d)
           holding == Holding(snapshots, d)
           counted == Counted(priced, holding)
           f == [a \in counted |-> AvgPrice(priced[a], a) * Quantity(holding[a], a)]
<1>1. counted \subseteq Assets /\ IsFiniteSet(counted)
  <2>1. counted \subseteq Assets
    BY DEF Counted
  <2> HIDE DEF counted
  <2> QED  BY <2>1, FS_Subset, ValueAssumption
<1>2. \A a \in counted : /\ priced[a] \in SUBSET log /\ priced[a] # {}
                          /\ holding[a] \in SUBSET log /\ holding[a] # {}
  BY DEF Counted, Priced, Holding, OfDay
<1>3. f \in [counted -> Nat]
  <2>1. \A a \in counted : AvgPrice(priced[a], a) \in Nat /\ Quantity(holding[a], a) \in Nat
    <3> HIDE DEF priced, holding, counted
    <3> QED  BY <1>1, <1>2, AveragesNat
  <2> HIDE DEF priced, holding, counted
  <2> QED  BY <2>1, ProductNat
<1>4. SumFunction(f) \in Nat
  <2> HIDE DEF f, counted
  <2> QED  BY <1>1, <1>3, SumOfNaturals
<1>5. Scale * Unit \in Nat \ {0}
  BY ValueAssumption
<1>6. Wallet(quotes, snapshots, d) = Rounded(SumFunction(f), Scale * Unit)
  BY DEF Wallet, WalletOf
<1> HIDE DEF f
<1> QED  BY <1>4, <1>5, <1>6, RoundedNat

LEMMA WalletsNat ==
    ASSUME TInv, NEW d
    PROVE  Wallet(Quotes, Snapshots, d) \in Nat /\ TrueWallet(d) \in Nat
<1>1. Quotes \in [Assets -> SUBSET log] /\ AllQuotes \in [Assets -> SUBSET log]
  BY DEF Quotes, Joined, AllQuotes, BatchesOf
<1>2. Snapshots \in SUBSET log /\ AllSnapshots \in SUBSET log
  BY DEF Snapshots, AllSnapshots, BatchesOf
<1> QED  BY <1>1, <1>2, WalletNat DEF TrueWallet

LEMMA ResultIsValue ==
    ASSUME TInv
    PROVE  Result \subseteq Value
<1>1. Valued \subseteq Days /\ today \in Days
  BY DEF Valued, ValuedDays, TInv, TypeOK, LogTypeOK, Days
<1>2. ASSUME NEW d PROVE Change(Quotes, Snapshots, d) \in Int
  BY WalletsNat DEF Change
<1>3. \A d \in Valued : Wallet(Quotes, Snapshots, d) \in Nat
  BY WalletsNat
<1>4. Result = {[day |-> d, value |-> Wallet(Quotes, Snapshots, d),
                 change |-> Change(Quotes, Snapshots, d), updated |-> today] : d \in Valued}
  BY DEF Result, Valued, Quotes
<1> QED  BY <1>1, <1>2, <1>3, <1>4 DEF Value

LEMMA PricesSelectedType ==
    ASSUME TInv
    PROVE  PricesSelected \subseteq Price
<1>1. ASSUME NEW names \in dim, NEW a \in Assets PROVE names[a] \in Names
  BY DEF TInv, TypeOK, Mapping
<1>2. \A b \in BatchesOf("ticker_price_change") : b.id \in BatchIds
  BY DEF TInv, TypeOK, LogTypeOK, Batch, BatchesOf
<1> QED  BY <1>1, <1>2 DEF PricesSelected, Price

LEMMA InitTInv == Init => TInv
<1>1. ASSUME Init PROVE LogTypeOK
  BY <1>1, InitInv DEF IInv, LogInv
<1>2. ASSUME Init PROVE IsFiniteSet(log)
  BY <1>2, FS_EmptySet DEF Init, LogInit
<1> QED  BY <1>1, <1>2 DEF Init, TInv, TypeOK

LEMMA NextTInv == TInv /\ IInv' /\ [Next]_vars => TInv'
<1> SUFFICES ASSUME TInv, IInv', [Next]_vars PROVE TInv'
  OBVIOUS
<1>1. LogTypeOK' /\ (\A r, s \in values : r.day = s.day /\ r.updated = s.updated => r = s)'
  BY DEF IInv, LogInv, RowInv
<1>2. ASSUME NEW b \in Batch, NEW slipped \in SUBSET Assets, Ingested(b, slipped)
      PROVE  TInv'
  <2>1. IsFiniteSet(log')
    BY <1>2, FS_AddElement DEF TInv, Ingested, AppendBatch
  <2>2. late' \subseteq BatchIds \X Assets
    BY <1>2 DEF TInv, TypeOK, Ingested, Batch
  <2> QED  BY <1>1, <1>2, <2>1, <2>2 DEF TInv, TypeOK, Ingested, marts
<1>3. ASSUME NEW a \in Assets, NEW n \in Names, Deploy(a, n) PROVE TInv'
  <2>1. image' \in Mapping
    BY <1>3 DEF Deploy, TInv, TypeOK, Mapping
  <2> QED  BY <1>1, <1>3, <2>1 DEF TInv, TypeOK, Deploy, marts
<1>4. CASE NextDay
  BY <1>1, <1>4 DEF TInv, TypeOK, NextDay, Midnight, marts
<1>5. CASE StartRun
  BY <1>1, <1>5 DEF TInv, TypeOK, StartRun
<1>6. CASE BuildDim
  BY <1>1, <1>6 DEF TInv, TypeOK, BuildDim
<1>7. CASE BuildPrices
  <2>1. prices' \subseteq Price
    BY <1>7, PricesSelectedType DEF BuildPrices, TInv, TypeOK
  <2> QED  BY <1>1, <1>7, <2>1 DEF TInv, TypeOK, BuildPrices
<1>8. CASE BuildValue
  <2>1. values' \subseteq Value
    <3>1. values' \subseteq Result \cup values
      BY <1>8 DEF BuildValue, Table!Merge
    <3> QED  BY <3>1, ResultIsValue DEF TInv, TypeOK
  <2>2. good' \subseteq Days
    BY <1>8 DEF BuildValue, TInv, TypeOK, LogTypeOK, Days
  <2> QED  BY <1>1, <1>8, <2>1, <2>2 DEF TInv, TypeOK, BuildValue
<1>9. CASE Fail
  BY <1>1, <1>9 DEF TInv, TypeOK, Fail, marts
<1>10. CASE UNCHANGED vars
  BY <1>1, <1>10 DEF TInv, TypeOK, vars, marts
<1> QED
  BY <1>2, <1>3, <1>4, <1>5, <1>6, <1>7, <1>8, <1>9, <1>10 DEF Next, Run

LEMMA AlwaysTInv == Spec => []TInv
  BY InitTInv, NextTInv, AlwaysInv, PTL DEF Spec

(* Every value is a natural number of cents, as a rounded sum of products  *)
(* of averages of finitely many batches, and every change an integer.      *)
THEOREM ValueTypes == Spec => []TypeOK
<1>1. TInv => TypeOK
  BY DEF TInv
<1> QED  BY <1>1, AlwaysTInv, PTL

-----------------------------------------------------------------------------
(* What of the rows the abstract SettledFact sees: no row of a day that    *)
(* has no value, ...                                                       *)
ValuedInv == \A r \in values : r.day \in TrueDays

(* ... and of a settled day the truth. *)
SettledInv ==
    /\ Truth \in [Days -> SUBSET Nat]
    /\ Report \in [Days -> SUBSET Nat]
    /\ \A d \in Settled : Report[d] = Truth[d]

LEMMA TrueDaysGrow ==
    ASSUME log \subseteq log'
    PROVE  TrueDays \subseteq TrueDays'
<1>1. ASSUME NEW d \in TrueDays PROVE d \in TrueDays'
  <2>1. PICK a \in Assets : Priced(AllQuotes, d)[a] # {} /\ Holding(AllSnapshots, d)[a] # {}
    BY DEF TrueDays, ValuedDays, Counted
  <2>2. Priced(AllQuotes, d)'[a] # {}
    BY <2>1 DEF Priced, AllQuotes, BatchesOf, OfDay
  <2>3. Holding(AllSnapshots, d)'[a] # {}
    BY <2>1 DEF Holding, AllSnapshots, BatchesOf, OfDay, Held
  <2>4. d \in Days
    BY DEF TrueDays, ValuedDays
  <2> QED  BY <2>2, <2>3, <2>4 DEF TrueDays, ValuedDays, Counted
<1> QED  BY <1>1

LEMMA InitValuedInv == Init => ValuedInv
  BY DEF Init, ValuedInv

LEMMA NextValuedInv == ValuedInv /\ IInv /\ [Next]_vars => ValuedInv'
<1> SUFFICES ASSUME ValuedInv, IInv, [Next]_vars PROVE ValuedInv'
  OBVIOUS
<1>1. log \subseteq log'
  BY DEF Next, Run, Ingested, AppendBatch, Deploy, NextDay, Midnight, StartRun, BuildDim,
         BuildPrices, BuildValue, Fail, vars
<1>2. CASE BuildValue
  <2>1. \A r \in Result : r.day \in TrueDays
    BY ResultRows, ValuedIsTrue
  <2> QED  BY <1>1, <1>2, <2>1, RowsAfterBuild, TrueDaysGrow DEF ValuedInv
<1>3. CASE UNCHANGED values
  BY <1>1, <1>3, TrueDaysGrow DEF ValuedInv
<1> QED
  BY <1>2, <1>3 DEF Next, Run, Ingested, Deploy, NextDay, StartRun, BuildDim,
                    BuildPrices, Fail, vars, marts

(* A day that is not divided is shown whole by whatever build shows it.    *)
LEMMA UndividedIsWhole ==
    ASSUME NEW d \in Days, ~Divided(d), NEW g
    PROVE  Shown(d, g) = TrueWallet(d)
<1>1. CASE ~Edge(d, g)
  BY <1>1 DEF Shown
<1>2. CASE Edge(d, g)
  <2> DEFINE rows == {b.id : b \in OfDay(AllPrices, d)} \X Assets
  <2>1. rows \cap late = {} \/ rows \subseteq late
    BY DEF Divided, AllPrices
  <2>2. \A a \in Assets :
           /\ OfDay(LateQuotes[a], d) = {b \in OfDay(AllPrices, d) : <<b.id, a>> \in late}
           /\ OfDay(AllQuotes[a], d) = OfDay(AllPrices, d)
    BY DEF LateQuotes, AllQuotes, AllPrices, OfDay
  <2>3. \A b \in OfDay(AllPrices, d), a \in Assets : <<b.id, a>> \in rows
    OBVIOUS
  <2>4. PICK a \in Assets : Priced(LateQuotes, d)[a] # {}
    BY <1>2 DEF Edge, ValuedDays, Counted
  <2>5. PICK b \in OfDay(AllPrices, d) : <<b.id, a>> \in late
    BY <2>2, <2>4 DEF Priced
  <2>6. rows \subseteq late
    BY <2>1, <2>3, <2>5
  <2>7. \A e \in Assets : OfDay(LateQuotes[e], d) = OfDay(AllQuotes[e], d)
    BY <2>2, <2>3, <2>6
  <2>8. Priced(LateQuotes, d) = Priced(AllQuotes, d)
    BY <2>7 DEF Priced
  <2> QED  BY <2>8 DEF Shown, TrueWallet, Wallet
<1> QED  BY <1>1, <1>2

LEMMA SettledIsTrue == IInv /\ TInv /\ ValuedInv => SettledInv
<1> SUFFICES ASSUME IInv, TInv, ValuedInv PROVE SettledInv
  OBVIOUS
<1>1. Truth \in [Days -> SUBSET Nat]
  BY WalletsNat DEF Truth
<1>2. Report \in [Days -> SUBSET Nat]
  BY DEF Report, Latest, TInv, TypeOK, Value
<1>3. \A d \in Days : Truth[d] = IF d \in TrueDays THEN {TrueWallet(d)} ELSE {}
  BY DEF Truth, TrueDays, ValuedDays
<1>4. ASSUME NEW d \in Settled PROVE Report[d] = Truth[d]
  <2>1. /\ d \in Days /\ Owing(d) # {} /\ ~Divided(d)
        /\ Report[d] = {r.value : r \in Latest(d)}
    BY <1>4 DEF Settled, DividedDays, Report
  <2>2. CASE d \in TrueDays
    <3>1. PICK r \in values : Latest(d) = {r} /\ r.value = Shown(d, r.updated)
      BY <2>1, <2>2 DEF IInv, RightInv, RightRow
    <3>2. r.value = TrueWallet(d)
      BY <2>1, <3>1, UndividedIsWhole
    <3> QED  BY <1>3, <2>1, <2>2, <3>1, <3>2
  <2>3. CASE d \notin TrueDays
    <3>1. Latest(d) = {}
      BY <2>3 DEF ValuedInv, Latest
    <3> QED  BY <1>3, <2>1, <2>3, <3>1
  <2> QED  BY <2>2, <2>3
<1> QED  BY <1>1, <1>2, <1>4 DEF SettledInv

(* A batch of a day that is settled does not come any more; so a settled   *)
(* day is not divided later.                                               *)
LEMMA IngestedDivides ==
    ASSUME IInv, NEW b \in Batch, NEW slipped \in SUBSET Assets, Ingested(b, slipped)
    PROVE  /\ UNCHANGED <<today, good, values>>
           /\ DividedDays \subseteq DividedDays'
           /\ Settled' = Settled
<1>1. /\ UNCHANGED <<today, good, values>> /\ log' = log \cup {b}
      /\ late' = late \cup ({b.id} \X slipped)
      /\ b.day <= today /\ today <= b.day + 1 /\ (b.day < today => ~ran)
      /\ \A c \in log : c.id # b.id
  BY DEF Ingested, AppendBatch, marts
<1>2. b.day \in Nat /\ \A g \in good : g \in Nat /\ g <= b.day
  <2>1. b.day \in Nat
    BY ValueAssumption DEF Batch
  <2> QED  BY <1>1, <2>1, Numbers DEF IInv, RunInv
<1> DEFINE rows(d) == {c.id : c \in OfDay(AllPrices, d)} \X Assets
<1>3. ASSUME NEW d PROVE Divided(d) <=> rows(d) \cap late # {} /\ ~(rows(d) \subseteq late)
  BY DEF Divided, AllPrices
<1>4. ASSUME NEW d
      PROVE  Divided(d)' <=> rows(d)' \cap late' # {} /\ ~(rows(d)' \subseteq late')
  BY DEF Divided, AllPrices
<1>5. ASSUME NEW d, NEW x \in rows(d) PROVE x \in late' <=> x \in late
  <2>1. PICK c \in log, a \in Assets : x = <<c.id, a>>
    BY <1>5 DEF OfDay, AllPrices, BatchesOf
  <2> QED  BY <1>1, <2>1
<1>6. ASSUME NEW d PROVE rows(d) \subseteq rows(d)'
  BY <1>1 DEF OfDay, AllPrices, BatchesOf
<1>7. ASSUME NEW d, d # b.day PROVE rows(d)' = rows(d)
  <2>1. OfDay(AllPrices, d)' = OfDay(AllPrices, d)
    BY <1>1, <1>7 DEF OfDay, AllPrices, BatchesOf
  <2> QED  BY <2>1
<1>8. ASSUME NEW d, Divided(d) PROVE Divided(d)'
  <2> HIDE DEF rows
  <2> QED  BY <1>3, <1>4, <1>5, <1>6, <1>8
<1>9. ASSUME NEW d, d # b.day PROVE Divided(d)' <=> Divided(d)
  <2> HIDE DEF rows
  <2> QED  BY <1>3, <1>4, <1>5, <1>7, <1>9
<1>10. ASSUME NEW d \in Days, Owing(d) # {} PROVE d # b.day
  BY <1>2, <1>10 DEF Owing, Days
<1>11. \A d : Owing(d)' = Owing(d)
  BY <1>1 DEF Owing, IsSunday
<1>12. DividedDays \subseteq DividedDays'
  BY <1>8 DEF DividedDays
<1>13. Settled' = Settled
  <2>1. ASSUME NEW d \in Days, Owing(d) # {} PROVE d \in DividedDays' <=> d \in DividedDays
    BY <1>9, <1>10, <2>1 DEF DividedDays
  <2> QED  BY <1>11, <2>1 DEF Settled
<1> QED  BY <1>1, <1>12, <1>13

(* A build settles its window, for good, and nothing that is not over. *)
LEMMA SettledAfterBuild ==
    ASSUME IInv, BuildValue
    PROVE  /\ DividedDays' = DividedDays
           /\ Settled \cup {d \in Days \ DividedDays : d < today /\ today <= d + (DaysToIngest - 1)}
                \subseteq Settled'
           /\ Settled' \subseteq Settled \cup {d \in Days \ DividedDays : d < today}
<1>1. DividedDays' = DividedDays
  BY BuildDays, SameLog DEF DividedDays
<1>2. Settled \subseteq Settled'
  BY <1>1, BuildDays DEF Settled, Owing, IsSunday
<1>3. ASSUME NEW d \in Days \ DividedDays, d < today, today <= d + (DaysToIngest - 1)
      PROVE  d \in Settled'
  <2>1. today + 1 <= d + DaysToIngest
    BY <1>3, Numbers DEF Days
  <2>2. today \in Owing(d)'
    BY <1>3, <2>1, BuildDays DEF Owing
  <2> QED  BY <1>1, <1>3, <2>2 DEF Settled
<1>4. ASSUME NEW d \in Settled' PROVE d \in Days \ DividedDays /\ d < today
  <2>1. d \in Days \ DividedDays
    BY <1>1, <1>4 DEF Settled
  <2>2. PICK g \in good \cup {today} : d < g
    BY <1>4, BuildDays DEF Settled, Owing
  <2>3. d \in Int /\ g \in Int /\ g <= today /\ today \in Int
    BY <2>1, BuildDays DEF Days
  <2> QED  BY <2>1, <2>2, <2>3
<1> QED  BY <1>1, <1>2, <1>3, <1>4

LEMMA RefinesStep ==
    IInv /\ SettledInv /\ SettledInv' /\ [Next]_vars => [Settling!Next]_(Settling!vars)
<1> SUFFICES ASSUME IInv, SettledInv, SettledInv', [Next]_vars
             PROVE  [Settling!Next]_(Settling!vars)
  OBVIOUS
<1>1. ASSUME UNCHANGED <<log, late, good>>
      PROVE  Settled' = Settled /\ DividedDays' = DividedDays
  <2>1. DividedDays' = DividedDays
    BY <1>1, SameLog DEF DividedDays
  <2> QED  BY <1>1, <2>1 DEF Settled, Owing, IsSunday
<1>2. ASSUME UNCHANGED values PROVE Report' = Report
  BY <1>2 DEF Report, Latest
<1>3. ASSUME UNCHANGED <<log, late>> PROVE Truth' = Truth
  <2>1. TrueDays' = TrueDays /\ \A d : TrueWallet(d)' = TrueWallet(d)
    BY <1>3, SameLog
  <2>2. /\ Truth = [d \in Days |-> IF d \in TrueDays THEN {TrueWallet(d)} ELSE {}]
        /\ Truth' = [d \in Days |-> IF d \in TrueDays' THEN {TrueWallet(d)'} ELSE {}]
    BY DEF Truth, TrueDays, ValuedDays
  <2> QED  BY <2>1, <2>2
<1>4. ASSUME NEW b \in Batch, NEW slipped \in SUBSET Assets, Ingested(b, slipped)
      PROVE  Settling!Arrives
  <2>1. /\ UNCHANGED <<today, good, values>> /\ Settled' = Settled
        /\ DividedDays \subseteq DividedDays'
    BY <1>4, IngestedDivides
  <2>2. \A d \in Settled : Truth'[d] = Truth[d]
    BY <1>2, <2>1 DEF SettledInv
  <2>3. DividedDays' \subseteq Days \ Settled
    <3>1. \A d \in Settled' : d \notin DividedDays'
      BY DEF Settled
    <3> QED  BY <2>1, <3>1 DEF DividedDays
  <2> QED  BY <1>2, <2>1, <2>2, <2>3 DEF Settling!Arrives, SettledInv
<1>5. ASSUME NextDay PROVE Settling!DayPasses
  <2>1. UNCHANGED <<good, values, log, late>> /\ today' = today + 1
    BY <1>5 DEF NextDay, Midnight, marts
  <2> QED  BY <1>1, <1>2, <1>3, <2>1 DEF Settling!DayPasses
<1>6. ASSUME BuildValue PROVE Settling!Run
  <2>1. UNCHANGED <<log, late, today>> /\ today \notin good /\ good' = good \cup {today}
    BY <1>6, BuildDays
  <2>2. Truth' = Truth
    BY <1>3, <2>1
  <2>3. \A d \in Settled' : Report'[d] = Truth[d]
    BY <2>2 DEF SettledInv
  <2>4. \A d \in Settled : Report'[d] = Report[d]
    BY <1>6, <2>3, SettledAfterBuild DEF SettledInv
  <2> QED
    BY <1>6, <2>1, <2>2, <2>3, <2>4, SettledAfterBuild DEF Settling!Run, SettledInv
<1>7. ASSUME \/ StartRun \/ BuildDim \/ BuildPrices \/ Fail
             \/ \E a \in Assets, n \in Names : Deploy(a, n)
             \/ UNCHANGED vars
      PROVE  UNCHANGED Settling!vars
  <2>1. UNCHANGED <<log, late, today, values, good>>
    BY <1>7 DEF StartRun, BuildDim, BuildPrices, Fail, Deploy, vars, marts
  <2> QED  BY <1>1, <1>2, <1>3, <2>1 DEF Settling!vars
<1> QED  BY <1>4, <1>5, <1>6, <1>7 DEF Next, Run, Settling!Next

(* The fact is one that settles: a day that a build saw whole, and that    *)
(* midnight did not divide, keeps the value of the whole wallet, or no     *)
(* row, for ever after.                                                    *)
THEOREM ValueSettles == Spec => ImplementsSettledFact
<1>1. Init => Settling!Init
  <2>1. ASSUME Init PROVE /\ today = 0 /\ good = {} /\ log = {} /\ values = {}
    BY <2>1 DEF Init, LogInit
  <2>2. ASSUME Init PROVE Settled = {} /\ Report = [d \in Days |-> {}]
    BY <2>1, <2>2 DEF Settled, Owing, Report, Latest
  <2>3. ASSUME Init PROVE Truth = [d \in Days |-> {}]
    <3>1. \A d \in Days : Counted(Priced(AllQuotes, d), Holding(AllSnapshots, d)) = {}
      BY <2>1, <2>3 DEF Counted, Priced, AllQuotes, BatchesOf, OfDay
    <3> QED  BY <3>1 DEF Truth
  <2>4. ASSUME Init PROVE DividedDays = {}
    BY <2>1, <2>4 DEF DividedDays, Divided, OfDay, BatchesOf
  <2> QED  BY <2>1, <2>2, <2>3, <2>4 DEF Settling!Init
<1> QED
  BY <1>1, AlwaysInv, AlwaysTInv, InitValuedInv, NextValuedInv, SettledIsTrue, RefinesStep,
     PTL DEF Spec, ImplementsSettledFact, Settling!Spec

=============================================================================

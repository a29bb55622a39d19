------------------------ MODULE DailyQuantityProofs ------------------------
(***************************************************************************)
(* What the small instance of MCDailyQuantity shows of the rows of         *)
(* fact_daily_tickers_quantity, for every log, window and week.  That a    *)
(* row is right needs only that equal sets have equal averages; its type,  *)
(* the divisions and the settled days need Sums.                           *)
(***************************************************************************)
EXTENDS DailyQuantity, FiniteSetTheorems, Sums, TLAPS

-----------------------------------------------------------------------------
(* The builds that succeeded are of the past, or today's. *)
RunInv ==
    /\ good \subseteq 0..today
    /\ today \in good => ran
    /\ built <=> good # {}

(* A row was written by one of them, and one build writes one row a day.   *)
RowInv ==
    /\ \A r \in facts : r.updated \in good
    /\ \A r, s \in facts : r.day = s.day /\ r.updated = s.updated => r = s

(* A day that was seen whole has one row updated last, and it is right.    *)
RightInv ==
    \A d \in HeldDays : Owing(d) # {} =>
        \E r \in facts :
            /\ Latest(d) = {r}
            /\ r.quantity = Quantity(Holdings, d)
            /\ r.change = 0 \/ (Before(d) # {} /\ r.change = TrueChange(d))

IInv == LogTypeOK /\ RunInv /\ RowInv /\ RightInv /\ ChangeTrueInside /\ SundayExact

SelectedDays == {b.day : b \in Selected}
Seen(d) == FullBuild \/ d + DaysToIngest >= today

(* The query sees the whole of each held day in its window, and no other.  *)
LEMMA SelectedWhole ==
    ASSUME LogTypeOK
    PROVE  /\ SelectedDays = {d \in HeldDays : Seen(d)}
           /\ HeldDays \subseteq 0..MaxDay
           /\ \A d \in SelectedDays : Quantity(Selected, d) = Quantity(Holdings, d)
<1>1. /\ SelectedDays = {d \in HeldDays : Seen(d)}
      /\ HeldDays \subseteq 0..MaxDay
  BY DEF LogTypeOK, Batch, SelectedDays, Selected, HeldDays, Holdings, Held, Seen, InWindow
<1>2. ASSUME NEW d \in SelectedDays
      PROVE  OfDay(Selected, d) = OfDay(Holdings, d)
  BY <1>1 DEF Selected, Holdings, Held, Seen, InWindow, OfDay
<1> QED  BY <1>1, <1>2 DEF Quantity

(* Its rows: one for each of these days. *)
LEMMA ResultRows ==
    /\ \A r \in Result :
          /\ r.day \in SelectedDays
          /\ r.quantity = Quantity(Selected, r.day)
          /\ r.change = Change(Selected, SelectedDays, r.day)
          /\ r.updated = today
    /\ \A r, s \in Result : r.day = s.day => r = s
    /\ \A d \in SelectedDays : \E r \in Result : r.day = d
<1> DEFINE Row(d) == [day |-> d, quantity |-> Quantity(Selected, d),
                      change |-> Change(Selected, SelectedDays, d), updated |-> today]
<1>1. Result = {Row(d) : d \in SelectedDays}
  BY DEF Result, SelectedDays
<1>2. \A d : /\ Row(d).day = d
             /\ Row(d).quantity = Quantity(Selected, d)
             /\ Row(d).change = Change(Selected, SelectedDays, d)
             /\ Row(d).updated = today
  OBVIOUS
<1> QED
  <2> HIDE DEF Row
  <2> QED  BY <1>1, <1>2

(* The change is the true one where the window holds the day before, and 0 *)
(* where it does not.                                                      *)
LEMMA ChangeIsRight ==
    ASSUME LogTypeOK, NEW d \in SelectedDays
    PROVE  LET change == Change(Selected, SelectedDays, d)
           IN  /\ change = 0 \/ (Before(d) # {} /\ change = TrueChange(d))
               /\ Before(d) # {} /\ Seen(Max(Before(d))) => change = TrueChange(d)
<1> DEFINE B == Before(d)
           S == {e \in SelectedDays : e < d}
<1>1. B \subseteq 0..MaxDay /\ S \subseteq B /\ MaxDay \in Nat
  BY SelectedWhole, QuantityAssumption DEF Before
<1>2. B # {} => Max(B) \in B /\ \A e \in B : Max(B) >= e
  <2> HIDE DEF B
  <2> QED  BY <1>1, MaxExists
<1>3. CASE S = {}
  <2>1. Change(Selected, SelectedDays, d) = 0
    BY <1>3 DEF Change
  <2>2. ASSUME B # {}, Seen(Max(B))  PROVE FALSE
    <3>1. Max(B) \in S
      BY <1>2, <2>2, SelectedWhole DEF Before
    <3> QED  BY <3>1, <1>3
  <2> QED  BY <2>1, <2>2
<1>4. CASE S # {}
  <2>1. Max(S) \in S /\ \A e \in S : Max(S) >= e
    <3>1. S \subseteq 0..MaxDay
      BY <1>1
    <3> HIDE DEF S
    <3> QED  BY <1>1, <1>4, <3>1, MaxExists
  <2>2. B # {}
    BY <1>1, <1>4
  <2>3. Max(B) \in S
    <3>1. PICK e \in S : TRUE
      BY <1>4
    <3>2. e \in B /\ Max(B) \in B /\ Max(B) >= e /\ Seen(e)
      BY <1>1, <1>2, <2>2, SelectedWhole
    <3>3. Seen(Max(B))
      <4>1. e \in Int /\ Max(B) \in Int /\ today \in Int /\ DaysToIngest \in Int
        BY <1>1, <3>2, QuantityAssumption DEF LogTypeOK
      <4> QED  BY <3>2, <4>1 DEF Seen
    <3> QED  BY <3>2, <3>3, SelectedWhole DEF Before
  <2>4. Max(S) = Max(B)
    <3>1. Max(S) \in B /\ Max(B) >= Max(S) /\ Max(S) >= Max(B)
      BY <1>1, <1>2, <2>1, <2>2, <2>3
    <3>2. Max(S) \in Int /\ Max(B) \in Int
      BY <1>1, <1>2, <2>2, <3>1
    <3> QED  BY <3>1, <3>2
  <2>5. /\ Quantity(Selected, d) = Quantity(Holdings, d)
        /\ Quantity(Selected, Max(S)) = Quantity(Holdings, Max(B))
    BY <2>1, <2>4, SelectedWhole
  <2>6. Change(Selected, SelectedDays, d) = TrueChange(d)
    <3>1. \E e \in SelectedDays : e < d
      BY <1>4
    <3>2. Change(Selected, SelectedDays, d)
          = Quantity(Selected, d) - Quantity(Selected, Max(S))
      BY <3>1 DEF Change, Lag
    <3> QED  BY <2>5, <3>2 DEF TrueChange
  <2> QED  BY <2>2, <2>6
<1> QED  BY <1>3, <1>4

-----------------------------------------------------------------------------
(* A snapshot that arrives is of a day no build has seen the end of. *)
LEMMA IngestedStep ==
    ASSUME IInv, NEW b \in Batch, Ingested(b)
    PROVE  IInv'
<1> USE DEF IInv
<1>1. UNCHANGED <<built, facts, ran, good, today>> /\ log' = log \cup {b}
  BY DEF Ingested, AppendBatch
<1>2. today \in 0..MaxDay /\ b.day \in 0..MaxDay /\ MaxDay \in Nat /\ good \subseteq 0..MaxDay
  BY QuantityAssumption DEF LogTypeOK, Batch, RunInv
<1>3. \A g \in good : g <= b.day
  BY <1>2 DEF Ingested, AppendBatch, RunInv
<1>4. \A e : e # b.day => Quantity(Holdings, e)' = Quantity(Holdings, e)
  <2>1. ASSUME NEW e, e # b.day
        PROVE  OfDay(Holdings, e)' = OfDay(Holdings, e)
    BY <1>1, <2>1 DEF OfDay, Holdings
  <2> QED  BY <2>1 DEF Quantity
<1>5. \A e : e \in HeldDays' => e \in HeldDays \/ e = b.day
  BY <1>1 DEF HeldDays, Holdings
<1>6. HeldDays \subseteq HeldDays' /\ HeldDays' \subseteq 0..MaxDay
  BY <1>1, <1>2, <1>5, SelectedWhole DEF HeldDays, Holdings
<1>7. ASSUME NEW d \in HeldDays', d < b.day
      PROVE  /\ d \in HeldDays
             /\ Quantity(Holdings, d)' = Quantity(Holdings, d)
             /\ Before(d)' = Before(d)
             /\ Before(d) # {} => TrueChange(d)' = TrueChange(d)
             /\ Latest(d)' = Latest(d)
  <2>1. d \in HeldDays /\ d # b.day
    BY <1>2, <1>5, <1>6, <1>7
  <2>2. Before(d)' = Before(d)
    <3>1. ASSUME NEW e \in HeldDays', e < d
          PROVE  e \in HeldDays
      <4>1. e \in Int /\ d \in Int /\ b.day \in Int
        BY <1>2, <1>6
      <4>2. e # b.day
        BY <1>7, <3>1, <4>1
      <4> QED  BY <1>5, <4>2
    <3> QED  BY <1>6, <3>1 DEF Before
  <2>3. ASSUME Before(d) # {}
        PROVE  TrueChange(d)' = TrueChange(d)
    <3>1. Before(d) \subseteq 0..MaxDay
      BY <1>6 DEF Before
    <3>2. Max(Before(d)) \in Before(d)
      BY <1>2, <2>3, <3>1, MaxExists
    <3>3. Max(Before(d)) # b.day
      BY <1>2, <1>6, <1>7, <3>1, <3>2 DEF Before
    <3> QED  BY <1>4, <2>1, <2>2, <3>3 DEF TrueChange
  <2>4. Latest(d)' = Latest(d)
    BY <1>1 DEF Latest
  <2> QED  BY <1>4, <2>1, <2>2, <2>3, <2>4
<1>8. LogTypeOK'
  BY <1>1 DEF LogTypeOK
<1>9. RunInv' /\ RowInv' /\ SundayExact'
  BY <1>1 DEF RunInv, RowInv, SundayExact
<1>10. RightInv'
  <2>1. SUFFICES ASSUME NEW d \in HeldDays', Owing(d)' # {}
                 PROVE  (\E r \in facts :
                            /\ Latest(d) = {r}
                            /\ r.quantity = Quantity(Holdings, d)
                            /\ r.change = 0 \/ (Before(d) # {} /\ r.change = TrueChange(d)))'
    BY DEF RightInv
  <2>2. Owing(d)' = Owing(d)
    BY <1>1 DEF Owing, WasFull
  <2>3. d < b.day
    <3>1. PICK g \in good : d < g /\ g <= b.day
      BY <1>3, <2>1, <2>2 DEF Owing
    <3>2. d \in Int /\ g \in Int /\ b.day \in Int
      BY <1>2, <1>6
    <3> QED  BY <3>1, <3>2
  <2> QED  BY <1>1, <1>7, <2>1, <2>2, <2>3 DEF RightInv
<1>11. ChangeTrueInside'
  <2>1. SUFFICES ASSUME NEW d \in HeldDays',
                        good # {}, Before(d)' # {}, d < Max(good),
                        WasFull(Max(good)) \/ Max(good) <= Max(Before(d)') + DaysToIngest,
                        NEW r \in Latest(d)'
                 PROVE  r.change = TrueChange(d)'
    BY <1>1 DEF ChangeTrueInside, WasFull
  <2>2. Max(good) \in good
    BY <1>2, <2>1, MaxExists
  <2>3. d < b.day
    <3>1. PICK g \in good : g = Max(good)
      BY <2>2
    <3>2. d \in Int /\ g \in Int /\ b.day \in Int
      BY <1>2, <1>6
    <3>3. d < g /\ g <= b.day
      BY <1>3, <2>1, <3>1
    <3> QED  BY <3>2, <3>3
  <2> QED  BY <1>7, <2>1, <2>3 DEF ChangeTrueInside
<1> QED  BY <1>8, <1>9, <1>10, <1>11

(* A step that leaves the log, the table and its builds alone. *)
LEMMA NothingBuilt ==
    ASSUME IInv, UNCHANGED <<log, facts, good>>
    PROVE  RightInv' /\ ChangeTrueInside' /\ SundayExact'
<1>1. Holdings' = Holdings /\ HeldDays' = HeldDays
  BY DEF Holdings, HeldDays
<1>2. \A d : Quantity(Holdings, d)' = Quantity(Holdings, d)
  BY <1>1 DEF Quantity, OfDay
<1>3. \A d : Before(d)' = Before(d)
  BY <1>1 DEF Before
<1>4. \A d : TrueChange(d)' = TrueChange(d)
  BY <1>2, <1>3 DEF TrueChange
<1>5. \A d : Owing(d)' = Owing(d) /\ Latest(d)' = Latest(d)
  BY DEF Owing, WasFull, Latest
<1>6. RightInv'
  BY <1>1, <1>2, <1>3, <1>4, <1>5 DEF IInv, RightInv
<1>7. ChangeTrueInside'
  <2>1. WasFull(Max(good))' = WasFull(Max(good)) /\ Max(good)' = Max(good)
    BY DEF WasFull
  <2> QED  BY <1>1, <1>3, <1>4, <1>5, <2>1 DEF IInv, ChangeTrueInside
<1>8. SundayExact'
  BY DEF IInv, SundayExact
<1> QED  BY <1>6, <1>7, <1>8

LEMMA NextDayStep ==
    ASSUME IInv, NextDay
    PROVE  IInv'
<1>1. /\ UNCHANGED <<built, facts, good, log>>
      /\ today \in Nat /\ today' = today + 1 /\ today' \in 0..MaxDay
  BY QuantityAssumption DEF IInv, NextDay, Midnight, LogTypeOK
<1>2. LogTypeOK' /\ RunInv' /\ RowInv'
  BY <1>1 DEF IInv, LogTypeOK, RunInv, RowInv
<1> QED  BY <1>1, <1>2, NothingBuilt DEF IInv

LEMMA RunFailsStep ==
    ASSUME IInv, RunFails
    PROVE  IInv'
<1>1. LogTypeOK' /\ RunInv' /\ RowInv'
  BY DEF IInv, RunFails, LogTypeOK, RunInv, RowInv
<1> QED  BY <1>1, NothingBuilt DEF IInv, RunFails

-----------------------------------------------------------------------------
(* A build adds its rows, and leaves the rows of other days alone if it is *)
(* incremental.                                                            *)
LEMMA RowsAfterBuild ==
    ASSUME IInv, Build
    PROVE  /\ Result \subseteq facts'
           /\ \A t \in facts' : t \in Result \/ (~FullBuild /\ t \in facts)
           /\ ~FullBuild =>
                 \A t \in facts : t.day \notin SelectedDays => t \in facts'
<1>1. CASE FullBuild
  BY <1>1 DEF Build
<1>2. CASE ~FullBuild
  <2>1. facts' = {t \in facts : \A r \in Result : Key(r) # Key(t)} \cup Result
    BY <1>2 DEF Build, Table!Merge
  <2>2. ASSUME NEW t \in facts, t.day \notin SelectedDays
        PROVE  t \in facts'
    <3>1. \A r \in Result : Key(r) # Key(t)
      BY <2>2, ResultRows DEF Key
    <3> QED  BY <2>1, <3>1
  <2> QED  BY <1>2, <2>1, <2>2
<1> QED  BY <1>1, <1>2

LEMMA BuildDays ==
    ASSUME IInv, Build
    PROVE  /\ today \in Nat /\ today <= MaxDay /\ MaxDay \in Nat
           /\ good \subseteq Nat /\ \A g \in good : g < today
           /\ UNCHANGED <<log, today>>
           /\ good' = good \cup {today} /\ built' = TRUE /\ ran' = TRUE
           /\ \A t \in facts : t.updated \in good
<1>1. today \in Nat /\ today <= MaxDay /\ MaxDay \in Nat
  BY QuantityAssumption DEF IInv, LogTypeOK
<1>2. good \subseteq Nat /\ \A g \in good : g < today
  <2>1. today \notin good /\ good \subseteq 0..today
    BY DEF IInv, RunInv, Build
  <2> QED  BY <1>1, <2>1
<1> QED  BY <1>1, <1>2 DEF IInv, RowInv, Build

(* So the row of a selected day is the one updated last. *)
LEMMA LatestAfterBuild ==
    ASSUME IInv, Build, NEW d
    PROVE  /\ d \in SelectedDays =>
                 \E r \in Result : r.day = d /\ Latest(d)' = {r}
           /\ ~FullBuild /\ d \notin SelectedDays => Latest(d)' = Latest(d)
<1>1. ASSUME d \in SelectedDays
      PROVE  \E r \in Result : r.day = d /\ Latest(d)' = {r}
  <2>1. PICK r \in Result : r.day = d
    BY <1>1, ResultRows
  <2>2. r \in facts' /\ r.updated = today
    BY <2>1, RowsAfterBuild, ResultRows
  <2>3. ASSUME NEW t \in facts', t.day = d, t # r
        PROVE  t.updated < r.updated
    <3>1. t \in facts
      BY <2>1, <2>3, RowsAfterBuild, ResultRows
    <3> QED  BY <2>2, <3>1, BuildDays
  <2>4. \A t \in facts' : t.day = d /\ t # r => t.updated \in Nat
    <3>1. \A t \in facts' : t.day = d /\ t # r => t \in facts
      BY <2>1, RowsAfterBuild, ResultRows
    <3> QED  BY <3>1, BuildDays
  <2>5. r \in Latest(d)'
    <3>1. \A t \in facts' : t.day = d => t.updated <= r.updated
      BY <2>2, <2>3, <2>4, BuildDays
    <3> QED  BY <2>1, <2>2, <3>1 DEF Latest
  <2>6. ASSUME NEW t \in Latest(d)'
        PROVE  t = r
    <3>1. t \in facts' /\ t.day = d /\ r.updated <= t.updated
      BY <2>1, <2>2 DEF Latest
    <3> QED  BY <2>2, <2>3, <2>4, <3>1, BuildDays
  <2> QED  BY <2>1, <2>5, <2>6
<1>2. ASSUME ~FullBuild, d \notin SelectedDays
      PROVE  Latest(d)' = Latest(d)
  <2>1. \A t : t.day = d => (t \in facts' <=> t \in facts)
    BY <1>2, RowsAfterBuild, ResultRows
  <2> QED  BY <2>1 DEF Latest
<1> QED  BY <1>1, <1>2

(* The builds that had a day in view before, and this one. *)
LEMMA OwingAfterBuild ==
    ASSUME IInv, Build, ~FullBuild, NEW d \in HeldDays, d \notin SelectedDays,
           Owing(d)' # {}
    PROVE  Owing(d) # {}
<1>1. PICK g \in good' : d < g /\ (WasFull(g)' \/ g <= d + DaysToIngest)
  BY DEF Owing
<1>2. ~IsSunday(today) /\ built /\ d + DaysToIngest < today
  <2>1. ~(d + DaysToIngest >= today)
    BY SelectedWhole DEF IInv, Seen
  <2>2. d \in Nat /\ DaysToIngest \in Nat /\ today \in Nat
    BY SelectedWhole, BuildDays, QuantityAssumption DEF IInv
  <2> QED  BY <2>1, <2>2 DEF FullBuild
<1>3. Min(good) \in good /\ \A h \in good : Min(good) <= h
  BY <1>2, BuildDays, MinExists DEF IInv, RunInv
<1>5. Min(good') = Min(good)
  BY <1>3, BuildDays, MinOfAdded
<1>6. g # today
  <2>1. SUFFICES ASSUME g = today PROVE FALSE
    OBVIOUS
  <2>2. ~(g <= d + DaysToIngest)
    <3>1. d \in Nat /\ DaysToIngest \in Nat /\ today \in Nat
      BY SelectedWhole, BuildDays, QuantityAssumption DEF IInv
    <3> QED  BY <1>2, <2>1, <3>1
  <2>3. ~WasFull(g)'
    <3>1. Min(good) # today
      BY <1>3, BuildDays
    <3> QED  BY <1>2, <1>5, <2>1, <3>1 DEF WasFull, IsSunday
  <2> QED  BY <1>1, <2>2, <2>3
<1>7. g \in good /\ (WasFull(g) \/ g <= d + DaysToIngest)
  BY <1>1, <1>5, <1>6, BuildDays DEF WasFull, IsSunday
<1> QED  BY <1>1, <1>7 DEF Owing

LEMMA BuildStep ==
    ASSUME IInv, Build
    PROVE  IInv'
<1>1. /\ Holdings' = Holdings /\ HeldDays' = HeldDays
      /\ HeldDays \subseteq 0..MaxDay
  BY BuildDays, SelectedWhole DEF Holdings, HeldDays, IInv
<1>2. \A d : /\ Quantity(Holdings, d)' = Quantity(Holdings, d)
             /\ Before(d)' = Before(d) /\ TrueChange(d)' = TrueChange(d)
  BY <1>1 DEF Quantity, OfDay, Before, TrueChange
<1>3. LogTypeOK' /\ RunInv'
  <2>1. LogTypeOK'
    BY BuildDays DEF IInv, LogTypeOK
  <2>2. good' \subseteq 0..today' /\ ran' /\ built' /\ good' # {}
    <3>1. \A g \in good' : g \in 0..today
      BY BuildDays
    <3> QED  BY <3>1, BuildDays
  <2> QED  BY <2>1, <2>2 DEF RunInv
<1>4. RowInv'
  <2>1. \A r \in facts' : r.updated \in good'
    BY BuildDays, RowsAfterBuild, ResultRows
  <2>2. ASSUME NEW r \in facts', NEW s \in facts',
               r.day = s.day, r.updated = s.updated
        PROVE  r = s
    <3>1. r \in Result <=> s \in Result
      BY <2>2, BuildDays, RowsAfterBuild, ResultRows
    <3> QED  BY <2>2, <3>1, RowsAfterBuild, ResultRows DEF IInv, RowInv
  <2> QED  BY <2>1, <2>2 DEF RowInv
<1>5. RightInv'
  <2>1. SUFFICES ASSUME NEW d \in HeldDays, Owing(d)' # {}
                 PROVE  \E r \in facts' :
                            /\ Latest(d)' = {r}
                            /\ r.quantity = Quantity(Holdings, d)
                            /\ r.change = 0 \/ (Before(d) # {} /\ r.change = TrueChange(d))
    BY <1>1, <1>2 DEF RightInv
  <2>2. CASE d \in SelectedDays
    <3>1. PICK r \in Result : r.day = d /\ Latest(d)' = {r}
      BY <2>2, LatestAfterBuild
    <3>2. /\ r \in facts' /\ r.quantity = Quantity(Selected, d)
          /\ r.change = Change(Selected, SelectedDays, d)
      BY <3>1, RowsAfterBuild, ResultRows
    <3>3. r.quantity = Quantity(Holdings, d)
      BY <2>2, <3>2, SelectedWhole DEF IInv
    <3>4. r.change = 0 \/ (Before(d) # {} /\ r.change = TrueChange(d))
      BY <2>2, <3>2, ChangeIsRight DEF IInv
    <3> QED  BY <3>1, <3>2, <3>3, <3>4
  <2>3. CASE d \notin SelectedDays
    <3>1. ~FullBuild
      BY <2>1, <2>3, SelectedWhole DEF IInv, Seen
    <3>2. Latest(d)' = Latest(d)
      BY <2>3, <3>1, LatestAfterBuild
    <3>3. Owing(d) # {}
      BY <2>1, <2>3, <3>1, OwingAfterBuild
    <3>4. PICK r \in facts :
             /\ Latest(d) = {r}
             /\ r.quantity = Quantity(Holdings, d)
             /\ r.change = 0 \/ (Before(d) # {} /\ r.change = TrueChange(d))
      BY <3>3 DEF IInv, RightInv
    <3>5. r.day = d
      BY <3>4 DEF Latest
    <3>6. r \in facts'
      BY <2>3, <3>1, <3>5, RowsAfterBuild
    <3> QED  BY <3>2, <3>4, <3>6
  <2> QED  BY <2>2, <2>3
<1>6. Max(good') = today
  BY BuildDays, MaxOfAdded
<1>7. ChangeTrueInside'
  <2>1. SUFFICES ASSUME NEW d \in HeldDays, Before(d) # {},
                        \/ IsSunday(today) \/ today = Min(good')
                        \/ today <= Max(Before(d)) + DaysToIngest,
                        NEW r \in Latest(d)'
                 PROVE  r.change = TrueChange(d)
    <3>1. WasFull(Max(good))' <=> IsSunday(today) \/ today = Min(good')
      BY <1>6, BuildDays DEF WasFull, IsSunday
    <3>2. Max(good)' = today
      BY <1>6
    <3> QED  BY <1>1, <1>2, <3>1, <3>2 DEF ChangeTrueInside
  <2>2. Seen(Max(Before(d)))
    <3>1. CASE FullBuild
      BY <3>1 DEF Seen
    <3>2. CASE ~FullBuild
      <4>1. ~IsSunday(today) /\ today # Min(good')
        <5>1. PICK g \in good : g < today
          BY <3>2, BuildDays DEF FullBuild, IInv, RunInv
        <5>2. Min(good') <= g
          <6>1. good' \subseteq Nat /\ g \in good'
            BY BuildDays
          <6> QED  BY <6>1, MinExists
        <5>3. Min(good') # today
          BY <5>1, <5>2, BuildDays
        <5> QED  BY <3>2, <5>3 DEF FullBuild
      <4>2. Max(Before(d)) \in Nat
        <5>1. Before(d) \subseteq 0..MaxDay
          BY <1>1 DEF Before
        <5>2. Max(Before(d)) \in Before(d)
          BY <2>1, <5>1, MaxExists, BuildDays
        <5> QED  BY <5>1, <5>2
      <4> QED  BY <2>1, <4>1, <4>2, BuildDays, QuantityAssumption DEF Seen
    <3> QED  BY <3>1, <3>2
  <2>3. d \in SelectedDays
    <3>1. Before(d) \subseteq 0..MaxDay
      BY <1>1 DEF Before
    <3>2. Max(Before(d)) \in Before(d)
      BY <2>1, <3>1, MaxExists, BuildDays
    <3>3. Max(Before(d)) \in Nat /\ d \in Nat /\ Max(Before(d)) < d
      BY <1>1, <3>1, <3>2 DEF Before
    <3>4. Seen(d)
      BY <2>2, <3>3, BuildDays, QuantityAssumption DEF Seen
    <3> QED  BY <3>4, SelectedWhole DEF IInv
  <2>4. r.change = Change(Selected, SelectedDays, d)
    BY <2>1, <2>3, LatestAfterBuild, ResultRows
  <2> QED  BY <2>1, <2>2, <2>3, <2>4, ChangeIsRight DEF IInv
<1>8. SundayExact'
  <2>1. SUFFICES ASSUME IsSunday(today), NEW r \in facts', NEW s \in facts',
                        r.day = s.day
                 PROVE  r = s
    BY <1>6 DEF SundayExact, IsSunday
  <2>2. FullBuild
    BY <2>1 DEF FullBuild
  <2> QED  BY <2>1, <2>2, RowsAfterBuild, ResultRows
<1> QED  BY <1>3, <1>4, <1>5, <1>7, <1>8 DEF IInv

-----------------------------------------------------------------------------
LEMMA InitInv == Init => IInv
<1>1. ASSUME Init PROVE LogTypeOK
  BY <1>1, QuantityAssumption DEF Init, LogInit, LogTypeOK
<1>2. ASSUME Init PROVE RunInv /\ RowInv /\ RightInv /\ ChangeTrueInside /\ SundayExact
  BY <1>2 DEF Init, LogInit, RunInv, RowInv, RightInv, ChangeTrueInside, SundayExact,
              HeldDays, Holdings
<1> QED  BY <1>1, <1>2 DEF IInv

LEMMA NextInv == IInv /\ [Next]_vars => IInv'
<1> SUFFICES ASSUME IInv, [Next]_vars PROVE IInv'
  OBVIOUS
<1>1. ASSUME NEW b \in Batch, Ingested(b) PROVE IInv'
  BY <1>1, IngestedStep
<1>2. CASE NextDay
  BY <1>2, NextDayStep
<1>3. CASE Build
  BY <1>3, BuildStep
<1>4. CASE RunFails
  BY <1>4, RunFailsStep
<1>5. CASE UNCHANGED vars
  <2>1. LogTypeOK' /\ RunInv' /\ RowInv'
    BY <1>5 DEF IInv, vars, LogTypeOK, RunInv, RowInv
  <2> QED  BY <1>5, <2>1, NothingBuilt DEF IInv, vars
<1> QED  BY <1>1, <1>2, <1>3, <1>4, <1>5 DEF Next

LEMMA AlwaysInv == Spec => []IInv
  BY InitInv, NextInv, PTL DEF Spec

(* LatestIsRight for every log and window: the row of a day updated last   *)
(* has the day's average, once a build saw the whole day.                  *)
THEOREM QuantityIsRight == Spec => []LatestIsRight
<1>1. IInv => LatestIsRight
  <2>1. SUFFICES ASSUME IInv, NEW d \in HeldDays, Owing(d) # {}
                 PROVE  /\ Cardinality(Latest(d)) = 1
                        /\ \A r \in Latest(d) : r.quantity = Quantity(Holdings, d)
    BY DEF LatestIsRight
  <2>2. PICK r \in facts : Latest(d) = {r} /\ r.quantity = Quantity(Holdings, d)
    BY <2>1 DEF IInv, RightInv
  <2> QED  BY <2>2, FS_Singleton
<1> QED  BY <1>1, AlwaysInv, PTL

(* ChangeTrueOrZero for every log and window: the change on that row is    *)
(* the change since the day held before, or 0, and no other number.        *)
THEOREM ChangeIsTrueOrZero == Spec => []ChangeTrueOrZero
<1>1. IInv => ChangeTrueOrZero
  <2>1. SUFFICES ASSUME IInv, NEW d \in HeldDays, Owing(d) # {}, NEW s \in Latest(d)
                 PROVE  s.change = 0 \/ (Before(d) # {} /\ s.change = TrueChange(d))
    BY DEF ChangeTrueOrZero
  <2>2. PICK r \in facts :
            /\ Latest(d) = {r}
            /\ r.change = 0 \/ (Before(d) # {} /\ r.change = TrueChange(d))
    BY <2>1 DEF IInv, RightInv
  <2> QED  BY <2>1, <2>2
<1> QED  BY <1>1, AlwaysInv, PTL

(* ChangeTrueInside for every log and window: it is the true one when the  *)
(* last build saw the day before, too.                                     *)
THEOREM ChangeIsTrueInside == Spec => []ChangeTrueInside
<1>1. IInv => ChangeTrueInside
  BY DEF IInv
<1> QED  BY <1>1, AlwaysInv, PTL

(* SundayExact for every log and week: a full refresh leaves one row a day. *)
THEOREM SundayLeavesOne == Spec => []SundayExact
<1>1. IInv => SundayExact
  BY DEF IInv
<1> QED  BY <1>1, AlwaysInv, PTL

-----------------------------------------------------------------------------
(* The raw table is finite, as every insert adds one batch.  This is what  *)
(* makes the averages numbers.                                             *)
TInv == TypeOK /\ IsFiniteSet(log)

(* An average of balances is one, and not zero if none of them is. *)
LEMMA AverageNat ==
    ASSUME NEW batches, IsFiniteSet(batches), batches # {},
           \A b \in batches : b.payload \in Nat
    PROVE  /\ Average(batches) \in Nat
           /\ (\A b \in batches : b.payload > 0) => Average(batches) # 0
<1> DEFINE f == [b \in batches |-> b.payload]
           n == Cardinality(batches)
           sum == SumFunction(f)
<1>1. n \in Nat \ {0}
  BY FS_EmptySet, FS_CardinalityType
<1>2. sum \in Nat /\ ((\A b \in batches : b.payload > 0) => sum >= n)
  <2>1. f \in [batches -> Nat]
    OBVIOUS
  <2>2. (\A b \in batches : b.payload > 0) => \A b \in batches : f[b] >= 1
    OBVIOUS
  <2> HIDE DEF f
  <2> QED  BY <2>1, <2>2, SumOfNaturals
<1>3. Average(batches) = (Scale * sum) \div n
  BY DEF Average
<1> HIDE DEF n, sum
<1>4. Scale * sum \in Nat
  BY <1>2, ProductNat, QuantityAssumption
<1>5. (Scale * sum) \div n \in Nat
  BY <1>1, <1>4, QuotientNat
<1>6. ASSUME sum >= n PROVE (Scale * sum) \div n >= Scale
  <2>1. Scale * sum >= Scale * n
    BY <1>1, <1>2, <1>6, ProductGrows, QuantityAssumption
  <2> QED  BY <1>1, <1>4, <2>1, QuotientAtLeast, QuantityAssumption
<1>7. (Scale * sum) \div n >= Scale => (Scale * sum) \div n # 0
  BY <1>5, QuantityAssumption
<1> QED  BY <1>2, <1>3, <1>5, <1>6, <1>7

(* The quantity of a day that is in the result is positive. *)
LEMMA SelectedQuantity ==
    ASSUME TInv, NEW d \in SelectedDays
    PROVE  Quantity(Selected, d) \in Nat \ {0}
<1> DEFINE batches == OfDay(Selected, d)
<1>1. batches \subseteq log /\ batches # {}
  BY DEF SelectedDays, Selected, OfDay
<1>2. IsFiniteSet(batches)
  BY <1>1, FS_Subset DEF TInv
<1>3. \A b \in batches : b.payload \in Nat /\ b.payload > 0
  BY <1>1, QuantityAssumption DEF TInv, TypeOK, LogTypeOK, Batch, OfDay, Selected, Held
<1> HIDE DEF batches
<1>4. Average(batches) \in Nat /\ Average(batches) # 0
  BY <1>1, <1>2, <1>3, AverageNat
<1> QED  BY <1>4 DEF batches, Quantity

LEMMA ResultIsFact ==
    ASSUME TInv
    PROVE  Result \subseteq Fact
<1>1. SelectedDays \subseteq 0..MaxDay /\ MaxDay \in Nat
  BY SelectedWhole, QuantityAssumption DEF TInv, TypeOK
<1>2. ASSUME NEW d \in SelectedDays
      PROVE  Change(Selected, SelectedDays, d) \in Int
  <2>1. CASE \E e \in SelectedDays : e < d
    <3> DEFINE earlier == {e \in SelectedDays : e < d}
    <3>1. earlier \subseteq 0..MaxDay /\ earlier # {}
      BY <1>1, <2>1
    <3>2. Max(earlier) \in earlier
      <4> HIDE DEF earlier
      <4> QED  BY <1>1, <3>1, MaxExists
    <3>3. Lag(SelectedDays, d) \in SelectedDays
      BY <3>2 DEF Lag
    <3> QED  BY <1>2, <2>1, <3>3, SelectedQuantity DEF Change
  <2>2. CASE ~\E e \in SelectedDays : e < d
    BY <2>2 DEF Change
  <2> QED  BY <2>1, <2>2
<1>3. \A d \in SelectedDays : Quantity(Selected, d) \in Nat
  BY SelectedQuantity
<1>4. today \in Days
  BY DEF TInv, TypeOK, LogTypeOK, Days
<1>5. SelectedDays \subseteq Days
  BY <1>1 DEF Days
<1>6. Result = {[day |-> d, quantity |-> Quantity(Selected, d),
                 change |-> Change(Selected, SelectedDays, d), updated |-> today] :
                    d \in SelectedDays}
  BY DEF Result, SelectedDays
<1> QED  BY <1>2, <1>3, <1>4, <1>5, <1>6 DEF Fact

LEMMA InitTInv == Init => TInv
<1>1. ASSUME Init PROVE LogTypeOK
  BY <1>1, InitInv DEF IInv
<1>2. ASSUME Init PROVE IsFiniteSet(log)
  BY <1>2, FS_EmptySet DEF Init, LogInit
<1> QED  BY <1>1, <1>2 DEF Init, TInv, TypeOK

LEMMA NextTInv == TInv /\ IInv' /\ [Next]_vars => TInv'
<1> SUFFICES ASSUME TInv, IInv', [Next]_vars PROVE TInv'
  OBVIOUS
<1>1. LogTypeOK' /\ (\A r, s \in facts : r.day = s.day /\ r.updated = s.updated => r = s)'
  BY DEF IInv, RowInv
<1>2. ASSUME NEW b \in Batch, Ingested(b) PROVE TInv'
  <2>1. IsFiniteSet(log')
    BY <1>2, FS_AddElement DEF TInv, Ingested, AppendBatch
  <2> QED  BY <1>1, <1>2, <2>1 DEF TInv, TypeOK, Ingested
<1>3. CASE NextDay
  BY <1>1, <1>3 DEF TInv, TypeOK, NextDay, Midnight
<1>4. CASE Build
  <2>1. facts' \subseteq Fact
    <3>1. facts' \subseteq Result \cup facts
      BY <1>4 DEF Build, Table!Merge
    <3> QED  BY <3>1, ResultIsFact DEF TInv, TypeOK
  <2>2. good' \subseteq Days
    BY <1>4 DEF Build, TInv, TypeOK, LogTypeOK, Days
  <2> QED  BY <1>1, <1>4, <2>1, <2>2 DEF TInv, TypeOK, Build
<1>5. CASE RunFails
  BY <1>1, <1>5 DEF TInv, TypeOK, RunFails
<1>6. CASE UNCHANGED vars
  BY <1>6 DEF TInv, TypeOK, LogTypeOK, vars
<1> QED  BY <1>2, <1>3, <1>4, <1>5, <1>6 DEF Next

LEMMA AlwaysTInv == Spec => []TInv
  BY InitTInv, NextTInv, AlwaysInv, PTL DEF Spec

(* The rows are facts about days: their quantities are natural numbers, as *)
(* averages of finitely many balances, and there is one row a day and run. *)
THEOREM QuantityTypes == Spec => []TypeOK
<1>1. TInv => TypeOK
  BY DEF TInv
<1> QED  BY <1>1, AlwaysTInv, PTL

(* NeverDividesByZero for every log: an average of balances that are held  *)
(* is not zero, so percentage_change always has something to divide by.    *)
THEOREM DivisorsArePositive == Spec => []NeverDividesByZero
<1>1. TInv => NeverDividesByZero
  BY SelectedQuantity, ResultRows DEF NeverDividesByZero, Divides
<1> QED  BY <1>1, AlwaysTInv, PTL

-----------------------------------------------------------------------------
(* What of the rows the abstract SettledFact sees: no row of a day on      *)
(* which nothing was held, ...                                             *)
HeldInv == \A r \in facts : r.day \in HeldDays

(* ... and of a settled day the truth. *)
SettledInv ==
    /\ Truth \in [Days -> SUBSET Nat]
    /\ Report \in [Days -> SUBSET Nat]
    /\ \A d \in Settled : Report[d] = Truth[d]

LEMMA InitHeldInv == Init => HeldInv
  BY DEF Init, HeldInv

LEMMA NextHeldInv == HeldInv /\ IInv /\ [Next]_vars => HeldInv'
<1> SUFFICES ASSUME HeldInv, IInv, [Next]_vars PROVE HeldInv'
  OBVIOUS
<1>1. ASSUME NEW b \in Batch, Ingested(b) PROVE HeldInv'
  BY <1>1 DEF HeldInv, HeldDays, Holdings, Ingested, AppendBatch
<1>2. CASE NextDay \/ RunFails \/ UNCHANGED vars
  BY <1>2 DEF HeldInv, HeldDays, Holdings, NextDay, Midnight, RunFails, vars
<1>3. CASE Build
  <2>1. HeldDays' = HeldDays
    BY <1>3, BuildDays DEF HeldDays, Holdings
  <2>2. \A r \in Result : r.day \in HeldDays
    BY ResultRows, SelectedWhole DEF IInv
  <2> QED  BY <1>3, <2>1, <2>2, RowsAfterBuild DEF HeldInv
<1> QED  BY <1>1, <1>2, <1>3 DEF Next

LEMMA QuantityOfHeld ==
    ASSUME TInv, NEW d \in HeldDays
    PROVE  Quantity(Holdings, d) \in Nat
<1> DEFINE batches == OfDay(Holdings, d)
<1>1. batches \subseteq log /\ batches # {}
  BY DEF HeldDays, Holdings, OfDay
<1>2. IsFiniteSet(batches)
  BY <1>1, FS_Subset DEF TInv
<1>3. \A b \in batches : b.payload \in Nat
  BY <1>1, QuantityAssumption DEF TInv, TypeOK, LogTypeOK, Batch
<1> HIDE DEF batches
<1>4. Average(batches) \in Nat
  BY <1>1, <1>2, <1>3, AverageNat
<1> QED  BY <1>4 DEF batches, Quantity

LEMMA SettledIsTrue == IInv /\ TInv /\ HeldInv => SettledInv
<1> SUFFICES ASSUME IInv, TInv, HeldInv PROVE SettledInv
  OBVIOUS
<1>1. Truth \in [Days -> SUBSET Nat]
  BY QuantityOfHeld DEF Truth
<1>2. Report \in [Days -> SUBSET Nat]
  BY DEF Report, Latest, TInv, TypeOK, Fact
<1>3. ASSUME NEW d \in Settled PROVE Report[d] = Truth[d]
  <2>1. d \in Days /\ Owing(d) # {} /\ Report[d] = {r.quantity : r \in Latest(d)}
    BY <1>3 DEF Settled, Report
  <2>2. CASE d \in HeldDays
    <3>1. PICK r \in facts : Latest(d) = {r} /\ r.quantity = Quantity(Holdings, d)
      BY <2>1, <2>2 DEF IInv, RightInv
    <3> QED  BY <2>1, <2>2, <3>1 DEF Truth
  <2>3. CASE d \notin HeldDays
    <3>1. Latest(d) = {}
      BY <2>3 DEF HeldInv, Latest
    <3> QED  BY <2>1, <2>3, <3>1 DEF Truth
  <2> QED  BY <2>2, <2>3
<1> QED  BY <1>1, <1>2, <1>3 DEF SettledInv

(* A build settles its window, for good, and nothing that is not over. *)
LEMMA SettledAfterBuild ==
    ASSUME IInv, Build
    PROVE  /\ Settled \cup {d \in Days : d < today /\ today <= d + DaysToIngest}
                \subseteq Settled'
           /\ Settled' \subseteq Settled \cup {d \in Days : d < today}
<1>1. ASSUME NEW d \in Settled PROVE d \in Settled'
  <2>1. PICK g \in good : d < g /\ (WasFull(g) \/ g <= d + DaysToIngest)
    BY <1>1 DEF Settled, Owing
  <2>2. Min(good') = Min(good)
    BY <2>1, BuildDays, MinOfAdded
  <2>3. g \in Owing(d)'
    BY <2>1, <2>2, BuildDays DEF Owing, WasFull, IsSunday
  <2> QED  BY <1>1, <2>3 DEF Settled
<1>2. ASSUME NEW d \in Days, d < today, today <= d + DaysToIngest PROVE d \in Settled'
  <2>1. today \in Owing(d)'
    BY <1>2, BuildDays DEF Owing
  <2> QED  BY <2>1 DEF Settled
<1>3. ASSUME NEW d \in Settled' PROVE d \in Days /\ d < today
  <2>1. d \in Days
    BY <1>3 DEF Settled
  <2>2. PICK g \in good \cup {today} : d < g
    BY <1>3, BuildDays DEF Settled, Owing
  <2>3. d \in Int /\ g \in Int /\ g <= today /\ today \in Int
    BY <2>1, BuildDays DEF Days
  <2> QED  BY <2>1, <2>2, <2>3
<1> QED  BY <1>1, <1>2, <1>3

LEMMA RefinesStep ==
    IInv /\ SettledInv /\ SettledInv' /\ [Next]_vars => [Settling!Next]_(Settling!vars)
<1> SUFFICES ASSUME IInv, SettledInv, SettledInv', [Next]_vars
             PROVE  [Settling!Next]_(Settling!vars)
  OBVIOUS
<1>1. ASSUME UNCHANGED good PROVE Settled' = Settled
  BY <1>1 DEF Settled, Owing, WasFull, IsSunday
<1>2. ASSUME UNCHANGED facts PROVE Report' = Report
  BY <1>2 DEF Report, Latest
<1>3. ASSUME UNCHANGED log PROVE Truth' = Truth
  <2>1. Holdings' = Holdings /\ HeldDays' = HeldDays
    BY <1>3 DEF Holdings, HeldDays
  <2> QED  BY <2>1 DEF Truth, Quantity, OfDay, Average
<1>4. ASSUME NEW b \in Batch, Ingested(b) PROVE Settling!Arrives
  <2>1. UNCHANGED <<today, good, facts>>
    BY <1>4 DEF Ingested, AppendBatch
  <2>2. \A d \in Settled : Truth'[d] = Truth[d]
    BY <1>1, <1>2, <2>1 DEF SettledInv
  <2> QED  BY <1>1, <1>2, <2>1, <2>2 DEF Settling!Arrives, SettledInv
<1>5. ASSUME NextDay PROVE Settling!DayPasses
  BY <1>1, <1>2, <1>3, <1>5 DEF Settling!DayPasses, NextDay, Midnight
<1>6. ASSUME Build PROVE Settling!Run
  <2>1. UNCHANGED <<log, today>> /\ today \notin good /\ good' = good \cup {today}
    BY <1>6, BuildDays
  <2>2. Truth' = Truth
    BY <1>3, <2>1
  <2>3. \A d \in Settled' : Report'[d] = Truth[d]
    BY <2>2 DEF SettledInv
  <2>4. \A d \in Settled : Report'[d] = Report[d]
    BY <1>6, <2>3, SettledAfterBuild DEF SettledInv
  <2> QED
    BY <1>6, <2>1, <2>2, <2>3, <2>4, SettledAfterBuild DEF Settling!Run, SettledInv
<1>7. ASSUME RunFails \/ UNCHANGED vars PROVE UNCHANGED Settling!vars
  BY <1>1, <1>2, <1>3, <1>7 DEF Settling!vars, RunFails, vars
<1> QED  BY <1>4, <1>5, <1>6, <1>7 DEF Next, Settling!Next

(* The fact is one that settles: a day that a build saw whole keeps the    *)
(* average of its snapshots, or no row, for ever after.                    *)
THEOREM QuantitySettles == Spec => ImplementsSettledFact
<1>1. Init => Settling!Init
  <2>1. ASSUME Init PROVE /\ today = 0 /\ good = {} /\ Settled = {}
                          /\ Truth = [d \in Days |-> {}]
                          /\ Report = [d \in Days |-> {}]
    BY <2>1 DEF Init, LogInit, Settled, Owing, Truth, HeldDays, Holdings, Report, Latest
  <2> QED  BY <2>1 DEF Settling!Init
<1> QED
  BY <1>1, AlwaysInv, AlwaysTInv, InitHeldInv, NextHeldInv, SettledIsTrue, RefinesStep,
     PTL DEF Spec, ImplementsSettledFact, Settling!Spec

=============================================================================

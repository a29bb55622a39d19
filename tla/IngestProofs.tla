---------------------------- MODULE IngestProofs ----------------------------
(***************************************************************************)
(* What the small instances of MCIngest show, for every set of events and  *)
(* every bound.                                                            *)
(***************************************************************************)
EXTENDS Ingest, TLAPS

-----------------------------------------------------------------------------
(* Types.  A load is worked on only while it exists, and its data are      *)
(* there from the fetch to the insert.                                     *)

Working(i) == pc[i] \in {"get_table", "create_table", "sleep", "insert"}

LoadExists(i) == load[i] \in 1..Len(Loads(i))

ControlOK ==
    \A i \in Attempts :
        /\ pc[i] \in {"idle", "init"} => load[i] = 1
        /\ Working(i) => LoadExists(i) /\ data[i] \in Data
        /\ pc[i] = "fetch" /\ Loads(i) # <<>> => LoadExists(i)

Shape == TypeOK /\ ControlOK

(* A schedule loads at most two tables, of those there are. *)
LEMMA LoadsType ==
    ASSUME NEW i
    PROVE  /\ Loads(i) = <<>> \/ 1 \in 1..Len(Loads(i))
           /\ Len(Loads(i)) \in {0, 1, 2}
           /\ \A n \in 1..Len(Loads(i)) : Loads(i)[n] \in Tables
  BY DEF Loads, LoadsOf, Tables

(* The end of an execution keeps the types. *)
LEMMA EndShape ==
    ASSUME Shape, NEW i \in Attempts, NEW how \in {"done", "failed"},
           End(i, how),
           outcome' \in [Attempts -> [Tables -> {"none", "inserted", "errors"}]]
    PROVE  Shape'
<1> USE DEF End, network, bigquery
<1>1. TypeOK'
  <2> USE DEF Shape, TypeOK
  <2>1. pc' \in [Attempts -> Steps]
    BY DEF Steps
  <2>2. load' \in [Attempts -> {1, 2}] /\ stamp' \in [Attempts -> Days]
    BY BoundsAssumption DEF Days
  <2>3. /\ data' \in [Attempts -> Data \cup {NoData}]
        /\ call' \in [Attempts -> {"idle", "waiting", "transient"} \cup Replies]
        /\ created' \in [Attempts -> BOOLEAN]
    OBVIOUS
  <2>4. sends' \in [Attempts -> 0..MaxSends]
    BY BoundsAssumption
  <2> QED  BY <2>1, <2>2, <2>3, <2>4
<1>2. ControlOK'
  <2> SUFFICES ASSUME NEW j \in Attempts
               PROVE  /\ pc'[j] \in {"idle", "init"} => load'[j] = 1
                      /\ Working(j)' => LoadExists(j)' /\ data'[j] \in Data
                      /\ pc'[j] = "fetch" /\ Loads(j) # <<>> => LoadExists(j)'
    BY DEF ControlOK, Loads
  <2>1. pc'[j] = IF j = i THEN how ELSE pc[j]
    BY DEF Shape, TypeOK
  <2>2. j # i => load'[j] = load[j] /\ data'[j] = data[j]
    BY DEF Shape, TypeOK
  <2> QED  BY <2>1, <2>2 DEF Shape, ControlOK, Working, LoadExists, Loads
<1> QED  BY <1>1, <1>2 DEF Shape

(* An exception leaving the handler. *)
LEMMA RaiseShape ==
    ASSUME Shape, NEW i \in Attempts, Raise(i)
    PROVE  Shape'
  BY EndShape DEF Raise, Shape, TypeOK

(* A step that leaves load, data and the requests alone keeps the types    *)
(* unless it takes an execution where its load or data are needed.         *)
LEMMA HandlerShape ==
    ASSUME Shape, NEW i \in Attempts, Handler(i)
    PROVE  Shape'
<1> USE DEF Shape, TypeOK, ControlOK, Working, LoadExists, Loads, locals,
            network, bigquery
<1>1. ASSUME Invoke(i) \/ Construct(i) PROVE Shape'
  <2>1. CASE Invoke(i)
    BY <2>1 DEF Invoke, Steps
  <2>2. CASE Construct(i)
    <3>1. Loads(i) = <<>> \/ 1 \in 1..Len(Loads(i))
      BY LoadsType
    <3> QED  BY <2>2, <3>1 DEF Construct, CurrentTimestamp, Steps
  <2> QED  BY <1>1, <2>1, <2>2
<1>2. ASSUME Fetch(i) PROVE Shape'
  BY <1>2 DEF Fetch, AddMetadata, Data, Steps
<1>3. ASSUME GetTableReturns(i) \/ GetTableRaises(i) \/ Wake(i) PROVE Shape'
  BY <1>3 DEF GetTableReturns, GetTableRaises, Wake, Steps
<1>4. ASSUME OnCreated(i) PROVE Shape'
  BY <1>4, BoundsAssumption DEF OnCreated, Steps
<1>5. ASSUME SendCreate(i) PROVE Shape'
  <2>1. Table(i) \in Tables /\ sends[i] + 1 \in 1..MaxSends
    BY <1>5, LoadsType, BoundsAssumption DEF SendCreate, Sending, Table
  <2>2. creates' \subseteq CreateRequest
    BY <1>5, <2>1 DEF SendCreate, CreateRequest
  <2> QED  BY <1>5, <2>1, <2>2, BoundsAssumption DEF SendCreate, Sending
<1>6. ASSUME SendInsert(i) PROVE Shape'
  <2>1. Table(i) \in Tables /\ sends[i] + 1 \in 1..MaxSends
    BY <1>6, LoadsType, BoundsAssumption DEF SendInsert, Sending, Table
  <2>2. inserts' \subseteq InsertRequest
    BY <1>6, <2>1 DEF SendInsert, Sending, InsertRequest, InsertId
  <2> QED  BY <1>6, <2>1, <2>2, BoundsAssumption DEF SendInsert, Sending
<1>7. ASSUME OnInserted(i) PROVE Shape'
  <2>1. outcome' \in [Attempts -> [Tables -> {"none", "inserted", "errors"}]]
    BY <1>7, LoadsType DEF OnInserted, Printed, Table
  <2>2. CASE LastLoad(i)
    BY <1>7, <2>1, <2>2, EndShape DEF OnInserted
  <2>3. CASE ~LastLoad(i)
    <3>1. Len(Loads(i)) \in {0, 1, 2}
      BY LoadsType
    <3>2. load[i] \in 1..Len(Loads(i)) /\ load[i] # Len(Loads(i))
      BY <1>7, <2>3 DEF OnInserted, LastLoad
    <3>3. load[i] + 1 = 2 /\ 2 \in 1..Len(Loads(i))
      <4>1. \A n \in {0, 1, 2} : \A l \in 1..n : l # n => l + 1 = 2 /\ 2 \in 1..n
        OBVIOUS
      <4> QED  BY <3>1, <3>2, <4>1
    <3>4. /\ pc' = [pc EXCEPT ![i] = "fetch"]
          /\ load' = [load EXCEPT ![i] = 2]
          /\ data' = [data EXCEPT ![i] = NoData]
          /\ call' = [call EXCEPT ![i] = "idle"]
          /\ sends' = [sends EXCEPT ![i] = 0]
          /\ created' = [created EXCEPT ![i] = FALSE]
          /\ UNCHANGED <<delivered, stamp, network, bigquery, today>>
      BY <1>7, <2>3, <3>3 DEF OnInserted
    <3>5. TypeOK'
      BY <2>1, <3>4, BoundsAssumption DEF Steps
    <3>6. ControlOK'
      BY <3>3, <3>4
    <3> QED  BY <3>5, <3>6
  <2> QED  BY <2>2, <2>3
<1>8. ASSUME \/ ConstructRaises(i) \/ RejectSchedule(i) \/ FetchRaises(i)
             \/ OnRefused(i)
      PROVE  Shape'
  BY <1>8, RaiseShape DEF ConstructRaises, RejectSchedule, FetchRaises, OnRefused
<1> QED  BY <1>1, <1>2, <1>3, <1>4, <1>5, <1>6, <1>7, <1>8 DEF Handler

LEMMA ServeShape ==
    ASSUME Shape, NEW m \in creates \cup inserts, Serve(m)
    PROVE  Shape'
<1> USE DEF Shape, TypeOK, ControlOK, Working, LoadExists, Loads, locals,
            bigquery, Reply
<1>1. ASSUME ServeCreate(m) PROVE Shape'
  BY <1>1 DEF ServeCreate, Replies
<1>2. ASSUME ServeInsert(m) PROVE Shape'
  BY <1>2 DEF ServeInsert, Replies, InsertRequest
<1>3. ASSUME Refuse(m) PROVE Shape'
  BY <1>3 DEF Refuse, Replies
<1> QED  BY <1>1, <1>2, <1>3 DEF Serve

LEMMA NextShape == Shape /\ [Next]_vars => Shape'
<1> SUFFICES ASSUME Shape, [Next]_vars PROVE Shape'
  OBVIOUS
<1> USE DEF Shape, TypeOK, ControlOK, Working, LoadExists, Loads, locals,
            network, bigquery
<1>1. ASSUME NEW i \in Attempts, Handler(i) PROVE Shape'
  BY <1>1, HandlerShape
<1>2. ASSUME NEW e \in Events, Deliver(e) PROVE Shape'
  BY <1>2, BoundsAssumption DEF Deliver
<1>3. ASSUME NEW i \in Attempts, Timeout(i) PROVE Shape'
  BY <1>3, RaiseShape DEF Timeout
<1>4. ASSUME NEW i \in Attempts, ConnectionError(i) PROVE Shape'
  BY <1>4 DEF ConnectionError
<1>5. ASSUME NEW m \in creates \cup inserts, Serve(m) PROVE Shape'
  BY <1>5, ServeShape
<1>6. ASSUME NEW t \in Tables, TableReady(t) PROVE Shape'
  BY <1>6 DEF TableReady
<1>7. ASSUME NEW k \in seen, Forget(k) PROVE Shape'
  BY <1>7 DEF Forget
<1>8. ASSUME Midnight PROVE Shape'
  BY <1>8, BoundsAssumption DEF Midnight, Days
<1>9. ASSUME UNCHANGED vars PROVE Shape'
  BY <1>9 DEF vars
<1> QED
  BY <1>1, <1>2, <1>3, <1>4, <1>5, <1>6, <1>7, <1>8, <1>9 DEF Next, Environment

LEMMA InitShape == Init => Shape
  BY BoundsAssumption DEF Init, Shape, TypeOK, ControlOK, Working, Steps, Days

(* The states of Ingest have their types in every instance. *)
THEOREM TypeCorrect == Spec => []TypeOK
<1>1. Shape => TypeOK
  BY DEF Shape
<1> QED  BY InitShape, NextShape, <1>1, PTL DEF Spec

-----------------------------------------------------------------------------
(* What a step may do to one attempt, and to the batches.  The invariants  *)
(* below are proved from these two lemmas, not action by action.           *)

Keeps(j) == pc'[j] = pc[j] /\ stamp'[j] = stamp[j] /\ data'[j] = data[j]

(* The life of an attempt: the steps it takes, and what each leaves in its *)
(* timestamp and data.                                                     *)
Lives(j) ==
    \/ Keeps(j)
    \/ pc[j] = "idle" /\ Due(j) /\ pc'[j] = "init"
    \/ pc[j] = "init" /\ pc'[j] = "fetch" /\ stamp'[j] = today
    \/ /\ pc[j] = "fetch" /\ pc'[j] = "get_table"
       /\ stamp'[j] = stamp[j] /\ data'[j].day = stamp[j]
    \/ /\ Working(j) /\ Working(j)'
       /\ stamp'[j] = stamp[j] /\ data'[j] = data[j]
    \/ pc[j] = "insert" /\ pc'[j] = "fetch" /\ stamp'[j] = stamp[j]
    \/ Running(j) /\ pc'[j] \in {"done", "failed"}

LEMMA AttemptLife ==
    ASSUME Shape, [Next]_vars, NEW j \in Attempts
    PROVE  Lives(j)
<1> USE DEF Shape, TypeOK, Lives, Keeps, locals, Working, Running
<1>1. ASSUME NEW i \in Attempts, Handler(i), i = j PROVE Lives(j)
  <2>1. CASE Invoke(i)
    BY <1>1, <2>1 DEF Invoke
  <2>2. CASE Construct(i)
    BY <1>1, <2>2 DEF Construct, CurrentTimestamp
  <2>3. CASE Fetch(i)
    BY <1>1, <2>3 DEF Fetch, AddMetadata
  <2>4. CASE GetTableReturns(i) \/ GetTableRaises(i) \/ Wake(i)
    BY <1>1, <2>4 DEF GetTableReturns, GetTableRaises, Wake
  <2>5. CASE SendCreate(i) \/ SendInsert(i)
    BY <1>1, <2>5 DEF SendCreate, SendInsert, Sending
  <2>6. CASE OnCreated(i)
    BY <1>1, <2>6 DEF OnCreated
  <2>7. CASE OnInserted(i)
    <3>1. CASE LastLoad(i)
      BY <1>1, <2>7, <3>1 DEF OnInserted, End
    <3>2. CASE ~LastLoad(i)
      <4>1. /\ pc[i] = "insert" /\ pc' = [pc EXCEPT ![i] = "fetch"]
            /\ stamp' = stamp
        BY <2>7, <3>2 DEF OnInserted
      <4> QED  BY <1>1, <4>1
    <3> QED  BY <3>1, <3>2
  <2>8. CASE ConstructRaises(i) \/ RejectSchedule(i) \/ FetchRaises(i)
    BY <1>1, <2>8 DEF ConstructRaises, RejectSchedule, FetchRaises, Raise, End
  <2>9. CASE OnRefused(i)
    BY <1>1, <2>9 DEF OnRefused, Raise, End
  <2> QED
    BY <1>1, <2>1, <2>2, <2>3, <2>4, <2>5, <2>6, <2>7, <2>8, <2>9 DEF Handler
<1>2. ASSUME NEW i \in Attempts, Handler(i), i # j PROVE Lives(j)
  BY <1>2 DEF Handler, Invoke, Construct, Fetch, GetTableReturns,
     GetTableRaises, Wake, SendCreate, SendInsert, Sending, OnCreated,
     OnInserted, ConstructRaises, RejectSchedule, FetchRaises, OnRefused,
     Raise, End
<1>3. ASSUME NEW i \in Attempts, Timeout(i) PROVE Lives(j)
  BY <1>3 DEF Timeout, Raise, End
<1>4. ASSUME \/ \E e \in Events : Deliver(e)
             \/ \E i \in Attempts : ConnectionError(i)
             \/ \E m \in creates \cup inserts : Serve(m)
             \/ \E t \in Tables : TableReady(t)
             \/ \E k \in seen : Forget(k)
             \/ Midnight
             \/ UNCHANGED vars
      PROVE  Keeps(j)
  BY <1>4 DEF Deliver, ConnectionError, Serve, ServeCreate, ServeInsert,
     Refuse, Reply, TableReady, Forget, Midnight, vars
<1> QED  BY <1>1, <1>2, <1>3, <1>4 DEF Next, Environment

(* Batches are sent, stored and dropped; otherwise they stay.              *)
LEMMA BatchesChange ==
    ASSUME [Next]_vars
    PROVE  \/ UNCHANGED <<inserts, rows, seen>>
           \/ \E i \in Attempts : SendInsert(i)
           \/ \E m \in inserts : ServeInsert(m)
           \/ \E m \in inserts :
                 inserts' = inserts \ {m} /\ UNCHANGED <<rows, seen, today>>
           \/ \E k \in seen : Forget(k)
<1> USE DEF network, bigquery
<1>1. ASSUME NEW i \in Attempts, Handler(i)
      PROVE  SendInsert(i) \/ UNCHANGED <<inserts, rows, seen>>
  BY <1>1 DEF Handler, Invoke, Construct, Fetch, GetTableReturns,
     GetTableRaises, Wake, SendCreate, Sending, OnCreated, OnInserted,
     ConstructRaises, RejectSchedule, FetchRaises, OnRefused, Raise, End
<1>2. ASSUME NEW i \in Attempts, Timeout(i) \/ ConnectionError(i)
      PROVE  UNCHANGED <<inserts, rows, seen>>
  BY <1>2 DEF Timeout, Raise, End, ConnectionError
<1>3. ASSUME NEW m \in creates \cup inserts, Serve(m)
      PROVE  \/ UNCHANGED <<inserts, rows, seen>>
             \/ m \in inserts /\ ServeInsert(m)
             \/ /\ m \in inserts /\ inserts' = inserts \ {m}
                /\ UNCHANGED <<rows, seen, today>>
  BY <1>3 DEF Serve, ServeCreate, ServeInsert, Refuse, Reply
<1>4. ASSUME \/ \E e \in Events : Deliver(e)
             \/ \E t \in Tables : TableReady(t)
             \/ Midnight
             \/ UNCHANGED vars
      PROVE  UNCHANGED <<inserts, rows, seen>>
  BY <1>4 DEF Deliver, TableReady, Midnight, vars
<1> QED  BY <1>1, <1>2, <1>3, <1>4 DEF Next, Environment

-----------------------------------------------------------------------------
(* At most once.  While BigQuery remembers the insertIds, the id of every  *)
(* stored batch is among them, and an id names one call.                   *)

KeyInv ==
    /\ \A m \in inserts \cup rows : m.key = <<m.inv, m.table>>
    /\ \A r \in rows : r.key \in seen
    /\ UniqueRowId

LEMMA KeyStep == ~DedupForgets /\ KeyInv /\ [Next]_vars => KeyInv'
<1> SUFFICES ASSUME ~DedupForgets, KeyInv, [Next]_vars PROVE KeyInv'
  OBVIOUS
<1> USE DEF KeyInv, UniqueRowId
<1>1. CASE UNCHANGED <<inserts, rows, seen>>
  BY <1>1
<1>2. ASSUME NEW i \in Attempts, SendInsert(i) PROVE KeyInv'
  BY <1>2 DEF SendInsert, Sending, InsertId, bigquery
<1>3. ASSUME NEW m \in inserts, ServeInsert(m) PROVE KeyInv'
  BY <1>3 DEF ServeInsert
<1>4. ASSUME NEW m \in inserts, inserts' = inserts \ {m},
             UNCHANGED <<rows, seen>>
      PROVE  KeyInv'
  BY <1>4
<1>5. ASSUME NEW k \in seen, Forget(k) PROVE KeyInv'
  BY <1>5 DEF Forget
<1> QED  BY <1>1, <1>2, <1>3, <1>4, <1>5, BatchesChange

(* Unless BigQuery forgets an insertId, no batch is stored twice, however  *)
(* often its request is sent and whenever it is served.                    *)
THEOREM AtMostOnce == ~DedupForgets => (Spec => []UniqueRowId)
<1> SUFFICES ASSUME ~DedupForgets PROVE Spec => []UniqueRowId
  OBVIOUS
<1>1. Init => KeyInv
  BY DEF Init, KeyInv, UniqueRowId
<1>2. KeyInv /\ [Next]_vars => KeyInv'
  BY KeyStep
<1>3. KeyInv => UniqueRowId
  BY DEF KeyInv
<1> QED  BY <1>1, <1>2, <1>3, PTL DEF Spec

-----------------------------------------------------------------------------
(* One date per invocation.  The batches of an attempt that is running     *)
(* carry its timestamp, which is today's or, after one midnight,           *)
(* yesterday's; the dead attempt's batches keep the day they agreed on.    *)

Stamped(i) == Running(i) /\ pc[i] # "init"

DateInv ==
    /\ \A i \in Attempts :
          /\ Working(i) => data[i].day = stamp[i]
          /\ Stamped(i) => stamp[i] <= today /\ today <= stamp[i] + 1
    /\ \A m \in rows \cup inserts :
          /\ pc[m.inv] \notin {"idle", "init"}
          /\ Running(m.inv) => m.data.day = stamp[m.inv]
    /\ \A m \in inserts : m.data.day <= today /\ today <= m.data.day + 1
    /\ OneDatePerInvocation

(* Only Midnight moves the clock, and only when nothing is from yesterday. *)
LEMMA ClockStep ==
    ASSUME [Next]_vars
    PROVE  \/ today' = today
           \/ /\ today' = today + 1
              /\ \A i \in Attempts : Stamped(i) => stamp[i] = today
              /\ \A m \in inserts : m.data.day = today
              /\ UNCHANGED <<pc, stamp, data, inserts, rows>>
<1> USE DEF locals, network, bigquery
<1>1. ASSUME NEW i \in Attempts, Handler(i) PROVE today' = today
  BY <1>1 DEF Handler, Invoke, Construct, Fetch, GetTableReturns,
     GetTableRaises, Wake, SendCreate, SendInsert, Sending, OnCreated,
     OnInserted, ConstructRaises, RejectSchedule, FetchRaises, OnRefused,
     Raise, End
<1>2. ASSUME Environment, ~Midnight PROVE today' = today
  BY <1>2 DEF Environment, Deliver, Timeout, Raise, End, ConnectionError,
     Serve, ServeCreate, ServeInsert, Refuse, Reply, TableReady, Forget
<1> QED
  BY <1>1, <1>2 DEF Next, Environment, Midnight, Stamped, vars

LEMMA DateStep == Shape /\ DateInv /\ [Next]_vars => DateInv'
<1> SUFFICES ASSUME Shape, DateInv, [Next]_vars PROVE DateInv'
  OBVIOUS
<1> DEFINE AllBatches == rows \cup inserts
<1>1. today \in Nat /\ \A i \in Attempts : stamp[i] \in Nat
  BY BoundsAssumption DEF Shape, TypeOK, Days
<1>2. \A m \in AllBatches : m.inv \in Attempts /\ m.data.day \in Nat
  BY BoundsAssumption DEF Shape, TypeOK, Days, InsertRequest, Data
<1>3. \A j \in Attempts : Lives(j)
  BY AttemptLife
<1>4. CASE today' = today + 1 /\ today' # today
  BY <1>1, <1>2, <1>4, ClockStep
     DEF DateInv, Stamped, Running, Working, OneDatePerInvocation
<1>5. CASE today' = today
  <2>1. ASSUME NEW i \in Attempts
        PROVE  /\ Working(i)' => data'[i].day = stamp'[i]
               /\ Stamped(i)' => stamp'[i] <= today' /\ today' <= stamp'[i] + 1
    BY <1>1, <1>3, <1>5
       DEF DateInv, Lives, Keeps, Stamped, Running, Working
  <2>2. ASSUME NEW m \in AllBatches
        PROVE  /\ pc'[m.inv] \notin {"idle", "init"}
               /\ Running(m.inv)' => m.data.day = stamp'[m.inv]
    BY <1>2, <1>3 DEF DateInv, Lives, Keeps, Running, Working
  <2>3. \/ AllBatches' \subseteq AllBatches /\ inserts' \subseteq inserts
        \/ \E i \in Attempts : SendInsert(i)
    BY BatchesChange DEF ServeInsert, Forget, network
  <2>4. CASE AllBatches' \subseteq AllBatches /\ inserts' \subseteq inserts
    BY <1>5, <2>1, <2>2, <2>4 DEF DateInv, OneDatePerInvocation
  <2>5. ASSUME NEW i \in Attempts, SendInsert(i) PROVE DateInv'
    <3>1. PICK b \in inserts' : /\ b.inv = i /\ b.data = data[i]
                                /\ inserts' = inserts \cup {b}
      BY <2>5 DEF SendInsert
    <3>2. UNCHANGED <<pc, stamp, data, rows>> /\ pc[i] = "insert"
      BY <2>5 DEF SendInsert, Sending, bigquery
    <3>3. b.data.day = stamp[i] /\ b.data.day <= today /\ today <= b.data.day + 1
      BY <3>1, <3>2 DEF DateInv, Stamped, Running, Working
    <3>4. \A m \in AllBatches : m.inv = i => m.data.day = stamp[i]
      BY <3>2 DEF DateInv, Running
    <3> QED
      BY <1>5, <2>1, <2>2, <3>1, <3>2, <3>3, <3>4
         DEF DateInv, OneDatePerInvocation, Running
  <2> QED  BY <2>3, <2>4, <2>5
<1> QED  BY <1>4, <1>5, ClockStep

LEMMA InitDate == Init => DateInv
  BY DEF Init, DateInv, Working, Stamped, Running, OneDatePerInvocation

(* All rows of an attempt, in both tables, have the same day.              *)
THEOREM OneDate == Spec => []OneDatePerInvocation
<1>1. DateInv => OneDatePerInvocation
  BY DEF DateInv
<1> QED
  BY InitShape, NextShape, InitDate, DateStep, <1>1, PTL DEF Spec

-----------------------------------------------------------------------------
(* No attempt without a cause.  All attempts of a delivery before one that *)
(* was started have failed.                                                *)

CauseInv ==
    \A i \in Attempts : pc[i] # "idle" =>
        \A k \in 1..MaxAttempts : k < i[3] => pc[<<i[1], i[2], k>>] = "failed"

LEMMA CauseStep == Shape /\ CauseInv /\ [Next]_vars => CauseInv'
<1> SUFFICES ASSUME Shape, CauseInv, [Next]_vars,
                    NEW i \in Attempts, pc'[i] # "idle",
                    NEW k \in 1..MaxAttempts, k < i[3]
             PROVE  pc'[<<i[1], i[2], k>>] = "failed"
  BY DEF CauseInv
<1> DEFINE first == <<i[1], i[2], k>>
<1>1. /\ i[1] \in Events /\ i[2] \in 1..MaxDeliveries /\ i[3] \in 1..MaxAttempts
      /\ first \in Attempts
  BY DEF Attempts
<1>2. pc[first] = "failed" => pc'[first] = "failed"
  BY <1>1, AttemptLife DEF Lives, Keeps, Working, Running
<1>3. CASE pc[i] # "idle"
  BY <1>2, <1>3 DEF CauseInv
<1>4. CASE pc[i] = "idle"
  <2> DEFINE before == <<i[1], i[2], i[3] - 1>>
  <2>1. Due(i)
    BY <1>4, AttemptLife DEF Lives, Keeps, Working, Running
  <2>2. i[3] - 1 \in 1..MaxAttempts /\ i[3] > 1
    BY <1>1, BoundsAssumption
  <2>3. before \in Attempts /\ before[1] = i[1] /\ before[2] = i[2]
        /\ before[3] = i[3] - 1
    BY <1>1, <2>2 DEF Attempts
  <2>4. pc[before] = "failed"
    BY <2>1, <2>2 DEF Due
  <2>5. k = i[3] - 1 \/ k < i[3] - 1
    BY <1>1, BoundsAssumption
  <2>6. k < i[3] - 1 => pc[first] = "failed"
    BY <2>3, <2>4 DEF CauseInv
  <2> QED  BY <1>2, <2>4, <2>5, <2>6
<1> QED  BY <1>3, <1>4

(* Only the price change is printed about before an attempt is done.       *)
PrintedInv ==
    \A i \in Attempts, t \in Tables \ {"ticker_price_change"} :
        outcome[i][t] # "none" => pc[i] = "done"

(* Printing alone changes outcome.                                         *)
LEMMA OutcomeChange ==
    ASSUME [Next]_vars
    PROVE  \/ outcome' = outcome
           \/ \E i \in Attempts : OnInserted(i)
  BY DEF Next, Environment, Handler, Invoke, Construct, Fetch, GetTableReturns,
     GetTableRaises, Wake, SendCreate, SendInsert, Sending, OnCreated,
     ConstructRaises, RejectSchedule, FetchRaises, OnRefused, Raise, End,
     Timeout, ConnectionError, Deliver, Serve, ServeCreate, ServeInsert, Refuse,
     Reply, TableReady, Forget, Midnight, vars

(* A load that is not the last is the price change.                        *)
LEMMA OnlyPriceChangeGoesOn ==
    ASSUME NEW i, LoadExists(i), ~LastLoad(i)
    PROVE  /\ Table(i) = "ticker_price_change"
           /\ Loads(i)[2] = "account_snaphsot"
           /\ load[i] = 1
  BY DEF LoadExists, LastLoad, Table, Loads, LoadsOf

LEMMA PrintedStep == Shape /\ PrintedInv /\ [Next]_vars => PrintedInv'
<1> SUFFICES ASSUME Shape, PrintedInv, [Next]_vars,
                    NEW i \in Attempts, NEW t \in Tables \ {"ticker_price_change"},
                    outcome'[i][t] # "none"
             PROVE  pc'[i] = "done"
  BY DEF PrintedInv
<1>1. pc[i] = "done" => pc'[i] = "done"
  BY AttemptLife DEF Lives, Keeps, Working, Running
<1>2. CASE outcome'[i] = outcome[i]
  BY <1>1, <1>2 DEF PrintedInv
<1>3. ASSUME NEW j \in Attempts, OnInserted(j), outcome'[i] # outcome[i]
      PROVE  pc'[i] = "done"
  <2>1. /\ j = i /\ pc[i] = "insert" /\ LoadExists(i)
        /\ outcome' = [outcome EXCEPT ![i][Table(i)] = Printed(i)]
    BY <1>3 DEF OnInserted, Shape, TypeOK, ControlOK, Working
  <2>2. CASE LastLoad(i)
    BY <1>3, <2>1, <2>2 DEF OnInserted, End, Shape, TypeOK
  <2>3. CASE ~LastLoad(i)
    BY <1>1, <2>1, <2>3, OnlyPriceChangeGoesOn DEF PrintedInv, Shape, TypeOK
  <2> QED  BY <2>2, <2>3
<1> QED  BY <1>2, <1>3, OutcomeChange

(* A second batch of one delivery in a table means that the attempt that   *)
(* sent the first has failed, and that nothing was printed about it unless *)
(* it was the price change.                                                *)
THEOREM DuplicatesHaveCauses == Spec => []DuplicateHasCause
<1>1. Init => CauseInv /\ PrintedInv
  BY DEF Init, CauseInv, PrintedInv
<1>2. Shape /\ DateInv /\ CauseInv /\ PrintedInv => DuplicateHasCause
  <2> SUFFICES ASSUME Shape, DateInv, CauseInv, PrintedInv,
                      NEW a \in rows, NEW b \in rows,
                      a.inv[1] = b.inv[1], a.inv[2] = b.inv[2],
                      a.inv[3] < b.inv[3]
               PROVE  /\ pc[a.inv] = "failed"
                      /\ a.table # "ticker_price_change" =>
                            outcome[a.inv][a.table] = "none"
    BY DEF DuplicateHasCause
  <2>1. /\ a.inv \in Attempts /\ b.inv \in Attempts /\ pc[b.inv] # "idle"
        /\ a.table \in Tables
    BY DEF Shape, TypeOK, InsertRequest, DateInv
  <2>2. a.inv = <<b.inv[1], b.inv[2], a.inv[3]>> /\ a.inv[3] \in 1..MaxAttempts
    BY <2>1 DEF Attempts
  <2>3. pc[a.inv] = "failed"
    BY <2>1, <2>2 DEF CauseInv
  <2> QED  BY <2>1, <2>3 DEF PrintedInv
<1> QED
  BY InitShape, NextShape, InitDate, DateStep, <1>1, CauseStep, PrintedStep,
     <1>2, PTL DEF Spec

-----------------------------------------------------------------------------
(* Loads come in order.  An attempt works on its second load only after it *)
(* has printed about the first, and no snapshot is sent before.            *)

OrderInv ==
    /\ \A i \in Attempts :
          load[i] = 2 => outcome[i]["ticker_price_change"] # "none"
    /\ \A m \in inserts \cup rows : m.table = "account_snaphsot" =>
          outcome[m.inv]["ticker_price_change"] # "none"

(* An attempt goes on to its second load, starts anew, or stays.           *)
LEMMA LoadChange ==
    ASSUME Shape, [Next]_vars, NEW j \in Attempts
    PROVE  \/ load'[j] = load[j]
           \/ load'[j] = 1 /\ ~(Running(j)')
           \/ OnInserted(j) /\ ~LastLoad(j) /\ load'[j] = load[j] + 1
<1> USE DEF Shape, TypeOK, locals
<1>1. ASSUME NEW i \in Attempts, OnInserted(i)
      PROVE  \/ load'[j] = load[j]
             \/ load'[j] = 1 /\ ~(Running(j)')
             \/ OnInserted(j) /\ ~LastLoad(j) /\ load'[j] = load[j] + 1
  <2>1. CASE LastLoad(i)
    BY <1>1, <2>1 DEF OnInserted, End, Running
  <2>2. CASE ~LastLoad(i)
    <3>1. load' = [load EXCEPT ![i] = @ + 1]
      BY <1>1, <2>2 DEF OnInserted
    <3> QED  BY <1>1, <2>2, <3>1
  <2> QED  BY <2>1, <2>2
<1>2. ASSUME NEW i \in Attempts,
             \/ ConstructRaises(i) \/ RejectSchedule(i) \/ FetchRaises(i)
             \/ OnRefused(i) \/ Timeout(i)
      PROVE  load'[j] = load[j] \/ (load'[j] = 1 /\ ~(Running(j)'))
  BY <1>2 DEF ConstructRaises, RejectSchedule, FetchRaises, OnRefused, Timeout,
     Raise, End, Running
<1>3. ASSUME ~\E i \in Attempts :
                 \/ OnInserted(i) \/ ConstructRaises(i) \/ RejectSchedule(i)
                 \/ FetchRaises(i) \/ OnRefused(i) \/ Timeout(i)
      PROVE  load' = load
  BY <1>3 DEF Next, Environment, Handler, Invoke, Construct, Fetch,
     GetTableReturns, GetTableRaises, Wake, SendCreate, SendInsert, Sending,
     OnCreated, ConnectionError, Deliver, Serve, ServeCreate, ServeInsert,
     Refuse, Reply, TableReady, Forget, Midnight, vars
<1> QED  BY <1>1, <1>2, <1>3

(* A line is printed by the insert it is about.                            *)
LEMMA OutcomeAt ==
    ASSUME Shape, [Next]_vars, NEW j \in Attempts, NEW t \in Tables
    PROVE  \/ outcome'[j][t] = outcome[j][t]
           \/ OnInserted(j) /\ t = Table(j) /\ outcome'[j][t] = Printed(j)
<1>1. ASSUME NEW i \in Attempts, OnInserted(i)
      PROVE  \/ outcome'[j][t] = outcome[j][t]
             \/ OnInserted(j) /\ t = Table(j) /\ outcome'[j][t] = Printed(j)
  <2>1. outcome' = [outcome EXCEPT ![i][Table(i)] = Printed(i)]
    BY <1>1 DEF OnInserted
  <2>2. i # j \/ t # Table(i) => outcome'[j][t] = outcome[j][t]
    BY <2>1 DEF Shape, TypeOK
  <2>3. i = j /\ t = Table(j) => outcome'[j][t] = Printed(j)
    BY <2>1 DEF Shape, TypeOK
  <2> QED  BY <1>1, <2>2, <2>3
<1> QED  BY <1>1, OutcomeChange

(* What was printed stays.                                                 *)
LEMMA PrintedStays ==
    ASSUME Shape, [Next]_vars, NEW i \in Attempts, NEW t \in Tables,
           outcome[i][t] # "none"
    PROVE  outcome'[i][t] # "none"
  BY OutcomeChange DEF OnInserted, Printed, Shape, TypeOK

(* A batch that was not there before has just been sent.                   *)
LEMMA NewBatch ==
    ASSUME [Next]_vars, NEW m \in inserts' \cup rows', m \notin inserts \cup rows
    PROVE  \E i \in Attempts :
              SendInsert(i) /\ m.inv = i /\ m.table = Table(i) /\ m.data = data[i]
<1>1. ASSUME NEW i \in Attempts, SendInsert(i)
      PROVE  m.inv = i /\ m.table = Table(i) /\ m.data = data[i]
  <2>1. rows' = rows
    BY <1>1 DEF SendInsert, Sending, bigquery
  <2>2. m = [inv |-> i, table |-> Table(i), send |-> sends[i] + 1,
             data |-> data[i], key |-> InsertId(i)]
    BY <1>1, <2>1 DEF SendInsert
  <2> QED  BY <2>2
<1>2. ASSUME NEW n \in inserts, ServeInsert(n) PROVE FALSE
  BY <1>2 DEF ServeInsert
<1>3. ASSUME NEW k \in seen, Forget(k) PROVE FALSE
  BY <1>3 DEF Forget, network
<1>4. \E i \in Attempts : SendInsert(i)
  BY <1>2, <1>3, BatchesChange
<1> QED  BY <1>1, <1>4

LEMMA OrderStep == Shape /\ OrderInv /\ [Next]_vars => OrderInv'
<1> SUFFICES ASSUME Shape, OrderInv, [Next]_vars PROVE OrderInv'
  OBVIOUS
<1>1. "ticker_price_change" \in Tables
  BY DEF Tables
<1>2. ASSUME NEW i \in Attempts, load'[i] = 2
      PROVE  outcome'[i]["ticker_price_change"] # "none"
  <2>1. CASE load[i] = 2
    BY <1>1, <2>1, PrintedStays DEF OrderInv
  <2>2. CASE load[i] # 2
    <3>1. OnInserted(i) /\ ~LastLoad(i) /\ LoadExists(i)
      BY <1>2, <2>2, LoadChange DEF OnInserted, Shape, ControlOK, Working
    <3>2. Table(i) = "ticker_price_change"
      BY <3>1, OnlyPriceChangeGoesOn
    <3> QED  BY <1>1, <3>1, <3>2 DEF OnInserted, Printed, Shape, TypeOK
  <2> QED  BY <2>1, <2>2
<1>3. ASSUME NEW m \in inserts' \cup rows', m.table = "account_snaphsot"
      PROVE  outcome'[m.inv]["ticker_price_change"] # "none"
  <2>1. CASE m \in inserts \cup rows
    BY <1>1, <1>3, <2>1, PrintedStays DEF OrderInv, Shape, TypeOK, InsertRequest
  <2>2. CASE m \notin inserts \cup rows
    <3>1. PICK i \in Attempts : SendInsert(i) /\ m.inv = i /\ m.table = Table(i)
      BY <2>2, NewBatch
    <3>2. load[i] = 2
      BY <1>3, <3>1 DEF SendInsert, Sending, Shape, ControlOK, Working, LoadExists,
         Table, Loads, LoadsOf
    <3> QED  BY <1>1, <3>1, <3>2, PrintedStays DEF OrderInv
  <2> QED  BY <2>1, <2>2
<1> QED  BY <1>2, <1>3 DEF OrderInv

(* No snapshot of an attempt is stored unless its price change was         *)
(* inserted, or refused row by row, before.                                *)
THEOREM InOrder == Spec => []LoadsInOrder
<1>1. Init => OrderInv
  BY DEF Init, OrderInv
<1>2. OrderInv => LoadsInOrder
  BY DEF OrderInv, LoadsInOrder
<1> QED  BY InitShape, NextShape, <1>1, OrderStep, <1>2, PTL DEF Spec

-----------------------------------------------------------------------------
(* The log tells the truth.  Until an attempt ends, its requests are those *)
(* of a price change it is done with, or those it is inserting now, all    *)
(* with its data; so BigQuery gives all of them one answer, and what it    *)
(* answered is what is stored.                                             *)

Live(i) == pc[i] \notin {"done", "failed"}
Stored(i, t) == \E r \in rows : r.inv = i /\ r.table = t

CallGood(i) ==
    /\ pc[i] \notin {"create_table", "insert"} => call[i] = "idle"
    /\ pc[i] = "insert" /\ call[i] = "ok" => Stored(i, Table(i))
    /\ pc[i] = "insert" /\ call[i] = "row_errors" => data[i].payload \in Malformed

CallInv == \A i \in Attempts : CallGood(i)

PriceChangeOver(m) == m.table = "ticker_price_change" /\ load[m.inv] = 2
UnderWay(m) ==
    pc[m.inv] = "insert" /\ m.table = Table(m.inv) /\ m.data = data[m.inv]

RequestInv ==
    /\ \A k \in seen : Stored(k[1], k[2])
    /\ \A m \in inserts : m.key = <<m.inv, m.table>>
    /\ \A r \in rows : r.data.payload \notin Malformed
    /\ \A m \in inserts \cup rows :
          Live(m.inv) => PriceChangeOver(m) \/ UnderWay(m)
    /\ \A m \in inserts \cup rows : outcome[m.inv][m.table] = "errors" =>
          m.data.payload \in Malformed

ReportInv ==
    \A i \in Attempts :
        /\ \A t \in Tables :
              /\ outcome[i][t] # "none" /\ Live(i) =>
                    load[i] = 2 /\ t = "ticker_price_change"
              /\ outcome[i][t] = "inserted" => Stored(i, t)
        /\ pc[i] = "done" =>
              \A n \in 1..Len(Loads(i)) : outcome[i][Loads(i)[n]] # "none"

(* Rows are never deleted. *)
LEMMA RowsStay == [Next]_vars => rows \subseteq rows'
<1> SUFFICES ASSUME [Next]_vars PROVE rows \subseteq rows'
  OBVIOUS
<1>1. ASSUME NEW i \in Attempts, SendInsert(i) PROVE rows' = rows
  BY <1>1 DEF SendInsert, Sending, bigquery
<1>2. ASSUME NEW m \in inserts, ServeInsert(m) PROVE rows \subseteq rows'
  BY <1>2 DEF ServeInsert
<1>3. ASSUME NEW k \in seen, Forget(k) PROVE rows' = rows
  BY <1>3 DEF Forget
<1> QED  BY <1>1, <1>2, <1>3, BatchesChange

(* The second load is the snapshot's, and it is the last. *)
LEMMA SecondLoad ==
    ASSUME NEW i, LoadExists(i), load[i] = 2
    PROVE  Table(i) = "account_snaphsot" /\ LastLoad(i)
  BY DEF LoadExists, LastLoad, Table, Loads, LoadsOf

(* An insert goes on, is printed about, or dies with its attempt; and only *)
(* one that was printed about ends in success.                             *)
LEMMA InsertLife ==
    ASSUME Shape, [Next]_vars, NEW j \in Attempts, ~OnInserted(j)
    PROVE  /\ pc[j] = "insert" =>
                 \/ pc'[j] = "failed"
                 \/ /\ pc'[j] = pc[j] /\ load'[j] = load[j]
                    /\ data'[j] = data[j]
           /\ pc'[j] = "done" => pc[j] = "done"
<1> USE DEF Shape, TypeOK, locals
<1>1. ASSUME NEW i \in Attempts, i # j, Handler(i)
      PROVE  pc'[j] = pc[j] /\ load'[j] = load[j] /\ data'[j] = data[j]
  BY <1>1 DEF Handler, Invoke, Construct, Fetch, GetTableReturns,
     GetTableRaises, Wake, SendCreate, SendInsert, Sending, OnCreated,
     OnInserted, ConstructRaises, RejectSchedule, FetchRaises, OnRefused,
     Raise, End
<1>2. ASSUME Handler(j)
      PROVE  /\ pc[j] = "insert" => SendInsert(j) \/ OnRefused(j)
             /\ pc'[j] # "done"
  BY <1>2 DEF Handler, Invoke, Construct, Fetch, GetTableReturns,
     GetTableRaises, Wake, SendCreate, SendInsert, Sending, OnCreated,
     ConstructRaises, RejectSchedule, FetchRaises, OnRefused, Raise, End
<1>3. SendInsert(j) => pc' = pc /\ load' = load /\ data' = data
  BY DEF SendInsert, Sending
<1>4. OnRefused(j) => pc'[j] = "failed"
  BY DEF OnRefused, Raise, End
<1>5. ASSUME NEW i \in Attempts, Timeout(i)
      PROVE  \/ pc'[j] = "failed"
             \/ pc'[j] = pc[j] /\ load'[j] = load[j] /\ data'[j] = data[j]
  BY <1>5 DEF Timeout, Raise, End
<1>6. ASSUME \/ \E e \in Events : Deliver(e)
             \/ \E i \in Attempts : ConnectionError(i)
             \/ \E m \in creates \cup inserts : Serve(m)
             \/ \E t \in Tables : TableReady(t)
             \/ \E k \in seen : Forget(k)
             \/ Midnight
             \/ UNCHANGED vars
      PROVE  pc' = pc /\ load' = load /\ data' = data
  BY <1>6 DEF Deliver, ConnectionError, Serve, ServeCreate, ServeInsert,
     Refuse, Reply, TableReady, Forget, Midnight, vars
<1> QED  BY <1>1, <1>2, <1>3, <1>4, <1>5, <1>6 DEF Next, Environment

(* The requests of an insert under way all have its data.                  *)
LEMMA OneData ==
    ASSUME Shape, RequestInv, NEW m \in inserts \cup rows,
           pc[m.inv] = "insert", m.table = Table(m.inv)
    PROVE  m.data = data[m.inv]
<1>1. m.inv \in Attempts
  BY DEF Shape, TypeOK, InsertRequest
<1>2. LoadExists(m.inv) /\ Live(m.inv)
  BY <1>1 DEF Shape, ControlOK, Working, Live
<1>3. ~PriceChangeOver(m)
  BY <1>2, SecondLoad DEF PriceChangeOver
<1> QED  BY <1>2, <1>3 DEF RequestInv, UnderWay

(* What BigQuery answers, and nothing else, is what an attempt is told.    *)
LEMMA CallChange ==
    ASSUME Shape, CallInv, [Next]_vars, NEW j \in Attempts
    PROVE  \/ call'[j] = "idle"
           \/ call'[j] \notin {"ok", "row_errors"} /\ pc'[j] \in {"create_table", "insert"}
           \/ /\ call'[j] = call[j] /\ pc'[j] = pc[j]
              /\ load'[j] = load[j] /\ data'[j] = data[j]
           \/ pc'[j] = "create_table"
           \/ \E m \in inserts :
                 ServeInsert(m) /\ m.inv = j /\ Awaited(m, "insert")
<1> USE DEF Shape, TypeOK, locals
<1>1. ASSUME NEW i \in Attempts, i # j, Handler(i)
      PROVE  /\ call'[j] = call[j] /\ pc'[j] = pc[j]
             /\ load'[j] = load[j] /\ data'[j] = data[j]
  BY <1>1 DEF Handler, Invoke, Construct, Fetch, GetTableReturns,
     GetTableRaises, Wake, SendCreate, SendInsert, Sending, OnCreated,
     OnInserted, ConstructRaises, RejectSchedule, FetchRaises, OnRefused,
     Raise, End
<1>2. ASSUME Handler(j)
      PROVE  \/ call'[j] = "idle"
             \/ call'[j] = "waiting" /\ pc'[j] \in {"create_table", "insert"}
  <2>1. CASE \/ Invoke(j) \/ Construct(j) \/ Fetch(j)
             \/ GetTableReturns(j) \/ GetTableRaises(j) \/ Wake(j)
    <3>1. pc[j] \notin {"create_table", "insert"} /\ call' = call
      BY <2>1 DEF Invoke, Construct, Fetch, GetTableReturns, GetTableRaises, Wake
    <3> QED  BY <3>1 DEF CallInv, CallGood
  <2>2. CASE SendCreate(j) \/ SendInsert(j)
    BY <2>2 DEF SendCreate, SendInsert, Sending
  <2>3. CASE OnCreated(j) \/ OnInserted(j)
    BY <2>3 DEF OnCreated, OnInserted, End
  <2>4. CASE \/ ConstructRaises(j) \/ RejectSchedule(j) \/ FetchRaises(j)
             \/ OnRefused(j)
    BY <2>4 DEF ConstructRaises, RejectSchedule, FetchRaises, OnRefused, Raise, End
  <2> QED  BY <1>2, <2>1, <2>2, <2>3, <2>4 DEF Handler
<1>3. ASSUME NEW i \in Attempts, Timeout(i)
      PROVE  \/ call'[j] = "idle"
             \/ /\ call'[j] = call[j] /\ pc'[j] = pc[j]
                /\ load'[j] = load[j] /\ data'[j] = data[j]
  BY <1>3 DEF Timeout, Raise, End
<1>4. ASSUME NEW i \in Attempts, ConnectionError(i)
      PROVE  /\ pc' = pc /\ load' = load /\ data' = data
             /\ \/ call'[j] = call[j]
                \/ call'[j] = "transient" /\ pc[j] \in {"create_table", "insert"}
  BY <1>4 DEF ConnectionError, CallInv, CallGood
<1>5. ASSUME NEW m \in creates \cup inserts, Serve(m)
      PROVE  /\ pc' = pc /\ load' = load /\ data' = data
             /\ \/ call'[j] = call[j]
                \/ call'[j] = "refused" /\ pc[j] \in {"create_table", "insert"}
                \/ pc[j] = "create_table"
                \/ m \in inserts /\ ServeInsert(m) /\ m.inv = j /\ Awaited(m, "insert")
  BY <1>5 DEF Serve, ServeCreate, ServeInsert, Refuse, Reply, Awaited
<1>6. ASSUME \/ \E e \in Events : Deliver(e)
             \/ \E t \in Tables : TableReady(t)
             \/ \E k \in seen : Forget(k)
             \/ Midnight
             \/ UNCHANGED vars
      PROVE  pc' = pc /\ load' = load /\ data' = data /\ call' = call
  BY <1>6 DEF Deliver, TableReady, Forget, Midnight, vars
<1> QED  BY <1>1, <1>2, <1>3, <1>4, <1>5, <1>6 DEF Next, Environment

LEMMA CallStep == Shape /\ CallInv /\ RequestInv /\ [Next]_vars => CallInv'
<1> SUFFICES ASSUME Shape, CallInv, RequestInv, [Next]_vars, NEW j \in Attempts
             PROVE  CallGood(j)'
  BY DEF CallInv
<1>1. rows \subseteq rows'
  BY RowsStay
<1>2. CASE \/ call'[j] = "idle"
           \/ call'[j] \notin {"ok", "row_errors"} /\ pc'[j] \in {"create_table", "insert"}
           \/ pc'[j] = "create_table"
  BY <1>2 DEF CallGood
<1>3. CASE /\ call'[j] = call[j] /\ pc'[j] = pc[j]
           /\ load'[j] = load[j] /\ data'[j] = data[j]
  BY <1>1, <1>3 DEF CallInv, CallGood, Stored, Table, Loads
<1>4. ASSUME NEW m \in inserts, ServeInsert(m), m.inv = j, Awaited(m, "insert")
      PROVE  CallGood(j)'
  <2>1. /\ pc[j] = "insert" /\ m.table = Table(j)
        /\ pc' = pc /\ load' = load /\ data' = data /\ Table(j)' = Table(j)
    BY <1>4 DEF Awaited, ServeInsert, Reply, locals, Table, Loads
  <2>2. m.data = data[j]
    BY <1>4, <2>1, OneData
  <2>3. \/ call'[j] = "not_found"
        \/ call'[j] = "row_errors" /\ m.data.payload \in Malformed
        \/ call'[j] = "ok" /\ (m.key \in seen \/ m \in rows')
    BY <1>4 DEF ServeInsert, Reply, Shape, TypeOK
  <2>4. m.key = <<j, Table(j)>>
    BY <1>4, <2>1 DEF RequestInv
  <2>5. m.key \in seen => Stored(j, Table(j))
    BY <2>4 DEF RequestInv
  <2>6. call'[j] = "ok" => Stored(j, Table(j))'
    BY <1>1, <1>4, <2>1, <2>3, <2>5 DEF Stored
  <2> QED  BY <2>1, <2>2, <2>3, <2>6 DEF CallGood
<1> QED  BY <1>2, <1>3, <1>4, CallChange

(* A price change that is over stays so while its attempt lives.           *)
LEMMA OverStays ==
    ASSUME Shape, [Next]_vars, NEW j \in Attempts, load[j] = 2, Live(j)'
    PROVE  load'[j] = 2 /\ Live(j)
<1>1. Live(j)
  BY AttemptLife DEF Lives, Keeps, Working, Running, Live
<1>2. Running(j)'
  BY AttemptLife DEF Lives, Keeps, Working, Running, Live, Shape, ControlOK
<1>3. OnInserted(j) => LastLoad(j)
  BY OnlyPriceChangeGoesOn DEF OnInserted, Shape, ControlOK, Working
<1> QED  BY <1>1, <1>2, <1>3, LoadChange

LEMMA RequestStep ==
    Shape /\ CallInv /\ RequestInv /\ ReportInv /\ [Next]_vars => RequestInv'
<1> SUFFICES ASSUME Shape, CallInv, RequestInv, ReportInv, [Next]_vars
             PROVE  RequestInv'
  OBVIOUS
<1>1. \A m \in inserts \cup rows : m.inv \in Attempts /\ m.table \in Tables
  BY DEF Shape, TypeOK, InsertRequest
<1>2. \A k \in seen' : Stored(k[1], k[2])'
  <2>1. \A k \in seen : Stored(k[1], k[2])'
    BY RowsStay DEF RequestInv, Stored
  <2>2. ASSUME NEW i \in Attempts, SendInsert(i) PROVE seen' = seen
    BY <2>2 DEF SendInsert, Sending, bigquery
  <2>3. ASSUME NEW m \in inserts, ServeInsert(m)
        PROVE  \/ seen' = seen
               \/ seen' = seen \cup {m.key} /\ (m.key \in seen \/ m \in rows')
    BY <2>3 DEF ServeInsert
  <2>4. \A m \in inserts : m.key[1] = m.inv /\ m.key[2] = m.table
    BY DEF RequestInv
  <2>5. ASSUME NEW k \in seen, Forget(k) PROVE seen' \subseteq seen
    BY <2>5 DEF Forget
  <2> QED  BY <2>1, <2>2, <2>3, <2>4, <2>5, BatchesChange DEF Stored
<1>3. \A m \in inserts' : m.key = <<m.inv, m.table>>
  <2>1. ASSUME NEW i \in Attempts, SendInsert(i) PROVE <1>3
    BY <2>1 DEF SendInsert, InsertId, RequestInv
  <2>2. inserts' \subseteq inserts \/ \E i \in Attempts : SendInsert(i)
    BY BatchesChange DEF ServeInsert, Forget, network
  <2> QED  BY <2>1, <2>2 DEF RequestInv
<1>4. \A r \in rows' : r.data.payload \notin Malformed
  <2>1. ASSUME NEW i \in Attempts, SendInsert(i) PROVE rows' = rows
    BY <2>1 DEF SendInsert, Sending, bigquery
  <2>2. ASSUME NEW m \in inserts, ServeInsert(m)
        PROVE  rows' = rows \/ (rows' = rows \cup {m} /\ m.data.payload \notin Malformed)
    BY <2>2 DEF ServeInsert
  <2>3. ASSUME NEW k \in seen, Forget(k) PROVE rows' = rows
    BY <2>3 DEF Forget
  <2> QED  BY <2>1, <2>2, <2>3, BatchesChange DEF RequestInv
<1>5. ASSUME NEW m \in inserts' \cup rows', Live(m.inv)'
      PROVE  (PriceChangeOver(m) \/ UnderWay(m))'
  <2>1. CASE m \in inserts \cup rows
    <3>1. m.inv \in Attempts /\ Live(m.inv)
      BY <1>1, <1>5, <2>1, AttemptLife DEF Lives, Keeps, Working, Running, Live
    <3>2. CASE PriceChangeOver(m)
      BY <1>5, <3>1, <3>2, OverStays DEF PriceChangeOver
    <3>3. CASE UnderWay(m) /\ ~OnInserted(m.inv)
      BY <1>5, <3>1, <3>3, InsertLife DEF UnderWay, Live, Table, Loads
    <3>4. CASE UnderWay(m) /\ OnInserted(m.inv)
      <4>1. LoadExists(m.inv)
        BY <3>1, <3>4 DEF UnderWay, Shape, ControlOK, Working
      <4>2. ~LastLoad(m.inv)
        BY <1>5, <3>1, <3>4 DEF OnInserted, End, Live, Shape, TypeOK
      <4>3. m.table = "ticker_price_change" /\ load[m.inv] = 1
        BY <3>4, <4>1, <4>2, OnlyPriceChangeGoesOn DEF UnderWay
      <4>4. load'[m.inv] = 2
        BY <3>1, <3>4, <4>2, <4>3 DEF OnInserted, Shape, TypeOK
      <4> QED  BY <4>3, <4>4 DEF PriceChangeOver
    <3> QED  BY <2>1, <3>1, <3>2, <3>3, <3>4 DEF RequestInv
  <2>2. CASE m \notin inserts \cup rows
    <3>1. PICK i \in Attempts :
              SendInsert(i) /\ m.inv = i /\ m.table = Table(i) /\ m.data = data[i]
      BY <2>2, NewBatch
    <3> QED  BY <3>1 DEF UnderWay, SendInsert, Sending, Table, Loads
  <2> QED  BY <2>1, <2>2
<1>6. ASSUME NEW m \in inserts' \cup rows', outcome'[m.inv][m.table] = "errors"
      PROVE  m.data.payload \in Malformed
  <2>1. CASE m \in inserts \cup rows /\ outcome[m.inv][m.table] = "errors"
    BY <2>1 DEF RequestInv
  <2>2. CASE m \in inserts \cup rows /\ outcome[m.inv][m.table] # "errors"
    <3>1. m.inv \in Attempts /\ m.table \in Tables
      BY <1>1, <2>2
    <3>2. OnInserted(m.inv) /\ m.table = Table(m.inv) /\ call[m.inv] = "row_errors"
      BY <1>6, <2>2, <3>1, OutcomeAt DEF OnInserted, Printed
    <3>3. pc[m.inv] = "insert" /\ data[m.inv].payload \in Malformed
      BY <3>1, <3>2 DEF OnInserted, CallInv, CallGood
    <3> QED  BY <2>2, <3>2, <3>3, OneData
  <2>3. CASE m \notin inserts \cup rows
    <3>1. PICK i \in Attempts : SendInsert(i) /\ m.inv = i /\ m.table = Table(i)
      BY <2>3, NewBatch
    <3>2. outcome' = outcome /\ pc[i] = "insert"
      BY <3>1 DEF SendInsert, Sending
    <3>3. LoadExists(i) /\ Live(i) /\ Table(i) \in Tables
      BY <3>2, LoadsType DEF Shape, ControlOK, Working, Live, Table, LoadExists
    <3>4. load[i] = 2 /\ Table(i) = "ticker_price_change"
      BY <1>6, <3>1, <3>2, <3>3 DEF ReportInv
    <3> QED  BY <3>3, <3>4, SecondLoad
  <2> QED  BY <2>1, <2>2, <2>3
<1> QED  BY <1>2, <1>3, <1>4, <1>5, <1>6 DEF RequestInv

LEMMA ReportStep ==
    Shape /\ CallInv /\ OrderInv /\ ReportInv /\ [Next]_vars => ReportInv'
<1> SUFFICES ASSUME Shape, CallInv, OrderInv, ReportInv, [Next]_vars,
                    NEW j \in Attempts
             PROVE  /\ \A t \in Tables :
                          /\ outcome'[j][t] # "none" /\ Live(j)' =>
                                load'[j] = 2 /\ t = "ticker_price_change"
                          /\ outcome'[j][t] = "inserted" => Stored(j, t)'
                    /\ pc'[j] = "done" =>
                          \A n \in 1..Len(Loads(j)) : outcome'[j][Loads(j)[n]] # "none"
  BY DEF ReportInv, Loads
<1>1. OnInserted(j) => LoadExists(j)
  BY DEF OnInserted, Shape, ControlOK, Working
<1>2. ASSUME NEW t \in Tables, outcome'[j][t] # "none", Live(j)'
      PROVE  load'[j] = 2 /\ t = "ticker_price_change"
  <2>1. CASE outcome[j][t] # "none"
    <3>1. Live(j)
      BY <1>2, AttemptLife DEF Lives, Keeps, Working, Running, Live
    <3> QED  BY <1>2, <2>1, <3>1, OverStays DEF ReportInv
  <2>2. CASE outcome[j][t] = "none"
    <3>1. OnInserted(j) /\ t = Table(j)
      BY <1>2, <2>2, OutcomeAt
    <3>2. ~LastLoad(j)
      BY <1>2, <3>1 DEF OnInserted, End, Live, Shape, TypeOK
    <3>3. t = "ticker_price_change" /\ load[j] = 1
      BY <1>1, <3>1, <3>2, OnlyPriceChangeGoesOn
    <3> QED  BY <3>1, <3>2, <3>3 DEF OnInserted, Shape, TypeOK
  <2> QED  BY <2>1, <2>2
<1>3. ASSUME NEW t \in Tables, outcome'[j][t] = "inserted"
      PROVE  Stored(j, t)'
  <2>1. Stored(j, t)
    <3>1. CASE outcome[j][t] = "inserted"
      BY <3>1 DEF ReportInv
    <3>2. CASE outcome[j][t] # "inserted"
      <4>1. OnInserted(j) /\ t = Table(j) /\ call[j] = "ok"
        BY <1>3, <3>2, OutcomeAt DEF OnInserted, Printed
      <4> QED  BY <4>1 DEF CallInv, CallGood, OnInserted
    <3> QED  BY <3>1, <3>2
  <2> QED  BY <2>1, RowsStay DEF Stored
<1>4. ASSUME pc'[j] = "done", NEW n \in 1..Len(Loads(j))
      PROVE  outcome'[j][Loads(j)[n]] # "none"
  <2>1. Loads(j)[n] \in Tables
    BY LoadsType
  <2>2. CASE pc[j] = "done"
    BY <1>4, <2>1, <2>2, PrintedStays DEF ReportInv
  <2>3. CASE pc[j] # "done"
    <3>1. OnInserted(j)
      BY <1>4, <2>3, InsertLife
    <3>2. LastLoad(j)
      BY <1>4, <3>1 DEF OnInserted, Shape, TypeOK
    <3>3. CASE n = load[j]
      BY <2>1, <3>1, <3>3 DEF OnInserted, Printed, Table, Shape, TypeOK
    <3>4. CASE n # load[j]
      <4>1. load[j] = 2 /\ Loads(j)[n] = "ticker_price_change"
        BY <1>1, <2>1, <3>1, <3>2, <3>4 DEF LastLoad, LoadExists, Loads, LoadsOf
      <4> QED  BY <2>1, <4>1, PrintedStays DEF OrderInv
    <3> QED  BY <3>3, <3>4
  <2> QED  BY <2>2, <2>3
<1> QED  BY <1>2, <1>3, <1>4

(* What an attempt has printed about a table is true of the table, and     *)
(* nothing it had to load goes unreported when it returns.                 *)
THEOREM ReportsAreTrue == Spec => []LoggedOutcomeIsTrue
<1>1. Init => OrderInv /\ CallInv /\ RequestInv /\ ReportInv
  BY DEF Init, OrderInv, CallInv, CallGood, RequestInv, ReportInv
<1>2. Shape /\ RequestInv /\ ReportInv => LoggedOutcomeIsTrue
  BY DEF RequestInv, ReportInv, LoggedOutcomeIsTrue, Stored
<1>3. Shape /\ OrderInv /\ CallInv /\ RequestInv /\ ReportInv /\ [Next]_vars
         => OrderInv' /\ CallInv' /\ RequestInv' /\ ReportInv'
  BY OrderStep, CallStep, RequestStep, ReportStep
<1> QED  BY InitShape, NextShape, <1>1, <1>2, <1>3, PTL DEF Spec

-----------------------------------------------------------------------------
(* Who creates a table can use it.  From the end of its sleep on, the      *)
(* table of this load is ready, and stays so.                              *)

CreatorGood(i) ==
    created[i] =>
        /\ pc[i] \in {"sleep", "insert"}
        /\ pc[i] = "insert" => tbl[Table(i)] = "ready"
        /\ call[i] # "not_found"

CreatorInv == \A i \in Attempts : CreatorGood(i)

LEMMA CreatorStep ==
    ASSUME SleepSuffices, Shape, CreatorInv, [Next]_vars
    PROVE  CreatorInv'
<1> SUFFICES ASSUME NEW j \in Attempts PROVE CreatorGood(j)'
  BY DEF CreatorInv
<1> USE DEF Shape, TypeOK, locals
<1>1. ASSUME NEW i \in Attempts, i # j, Handler(i)
      PROVE  /\ created'[j] = created[j] /\ call'[j] = call[j]
             /\ pc'[j] = pc[j] /\ load'[j] = load[j] /\ tbl' = tbl
  BY <1>1 DEF Handler, Invoke, Construct, Fetch, GetTableReturns,
     GetTableRaises, Wake, SendCreate, SendInsert, Sending, OnCreated,
     OnInserted, ConstructRaises, RejectSchedule, FetchRaises, OnRefused,
     Raise, End, bigquery
<1>2. ASSUME Handler(j) PROVE CreatorGood(j)'
  <2>1. CASE OnCreated(j)
    BY <2>1 DEF OnCreated, CreatorGood
  <2>2. CASE Wake(j)
    BY <2>2 DEF Wake, SleepOver, CreatorInv, CreatorGood, bigquery, Table, Loads
  <2>3. CASE SendInsert(j)
    BY <2>3 DEF SendInsert, Sending, CreatorInv, CreatorGood, bigquery, Table, Loads
  <2>4. CASE \/ Invoke(j) \/ Construct(j) \/ Fetch(j) \/ GetTableReturns(j)
             \/ GetTableRaises(j) \/ SendCreate(j)
    BY <2>4 DEF Invoke, Construct, Fetch, GetTableReturns, GetTableRaises,
       SendCreate, Sending, CreatorInv, CreatorGood
  <2>5. CASE \/ ConstructRaises(j) \/ RejectSchedule(j) \/ FetchRaises(j)
             \/ OnRefused(j) \/ OnInserted(j)
    BY <2>5 DEF ConstructRaises, RejectSchedule, FetchRaises, OnRefused,
       OnInserted, Raise, End, CreatorGood
  <2> QED  BY <1>2, <2>1, <2>2, <2>3, <2>4, <2>5 DEF Handler
<1>3. ASSUME NEW i \in Attempts, Timeout(i) \/ ConnectionError(i)
      PROVE  CreatorGood(j)'
  BY <1>3 DEF Timeout, Raise, End, ConnectionError, bigquery, CreatorInv,
     CreatorGood, Table, Loads
<1>4. ASSUME NEW m \in creates \cup inserts, Serve(m)
      PROVE  CreatorGood(j)'
  <2>1. /\ UNCHANGED <<pc, load, created>>
        /\ \A t \in Tables : tbl[t] = "ready" => tbl'[t] = "ready"
    BY <1>4 DEF Serve, ServeCreate, ServeInsert, Refuse, Reply, bigquery,
       CreateRequest
  <2>2. ASSUME call'[j] = "not_found", call[j] # "not_found"
        PROVE  pc[j] = "insert" /\ tbl[Table(j)] # "ready"
    BY <1>4, <2>2 DEF Serve, ServeCreate, ServeInsert, Refuse, Reply, Awaited
  <2>3. pc[j] = "insert" => Table(j) \in Tables
    BY LoadsType DEF ControlOK, Working, Table, LoadExists
  <2> QED  BY <2>1, <2>2, <2>3 DEF CreatorInv, CreatorGood, Table, Loads
<1>5. ASSUME NEW t \in Tables, TableReady(t) PROVE CreatorGood(j)'
  BY <1>5 DEF TableReady, CreatorInv, CreatorGood, Table, Loads
<1>6. ASSUME \/ \E e \in Events : Deliver(e)
             \/ \E k \in seen : Forget(k)
             \/ Midnight
             \/ UNCHANGED vars
      PROVE  CreatorGood(j)'
  BY <1>6 DEF Deliver, Forget, Midnight, vars, bigquery, CreatorInv,
     CreatorGood, Table, Loads
<1>7. ASSUME NEW i \in Attempts, i # j, Handler(i) PROVE CreatorGood(j)'
  BY <1>1, <1>7 DEF CreatorInv, CreatorGood, Table, Loads
<1> QED  BY <1>2, <1>3, <1>4, <1>5, <1>6, <1>7 DEF Next, Environment

(* If the sleep is long enough, the attempt that created a table is never  *)
(* told that the table is not there.                                       *)
THEOREM CreatorServed == SleepSuffices => (Spec => []CreatorNotRefused)
<1> SUFFICES ASSUME SleepSuffices PROVE Spec => []CreatorNotRefused
  OBVIOUS
<1>1. Init => CreatorInv
  BY DEF Init, CreatorInv, CreatorGood
<1>2. CreatorInv => CreatorNotRefused
  BY DEF CreatorInv, CreatorGood, CreatorNotRefused
<1>3. Shape /\ CreatorInv /\ [Next]_vars => CreatorInv'
  BY CreatorStep
<1> QED  BY InitShape, NextShape, <1>1, <1>2, <1>3, PTL DEF Spec

-----------------------------------------------------------------------------
(* The raw tables are an append-only log.  Only serving an insert changes  *)
(* the log; it adds one batch, of a call that has none yet, stamped with   *)
(* today or yesterday.                                                     *)

Entry(r) == [id |-> <<r.inv, r.table>>, day |-> r.data.day,
             payload |-> r.data.payload]

LEMMA LogStep ==
    ASSUME Shape, DateInv, KeyInv, ~DedupForgets, [Next]_vars
    PROVE  [Raw!LogNext]_<<Log, today>>
<1>1. Log = {Entry(r) : r \in rows} /\ Log' = {Entry(r) : r \in rows'}
  BY DEF Log, Entry
<1>2. CASE today' # today
  <2>1. Log' = Log
    BY <1>1, <1>2, ClockStep
  <2>2. today < MaxDay /\ today' = today + 1
    BY <1>2, ClockStep, NextShape, BoundsAssumption DEF Shape, TypeOK, Days
  <2> QED  BY <2>1, <2>2 DEF Raw!LogNext, Raw!Midnight
<1>3. ASSUME NEW m \in inserts, ServeInsert(m), rows' # rows
      PROVE  Raw!LogNext
  <2>1. /\ rows' = rows \cup {m} /\ m.key \notin seen /\ today' = today
    BY <1>3 DEF ServeInsert, Reply
  <2>2. Log' = Log \cup {Entry(m)}
    BY <1>1, <2>1
  <2>3. Entry(m) \in Raw!Batch
    BY DEF Raw!Batch, Entry, Shape, TypeOK, InsertRequest, Data, Days
  <2>4. \A c \in Log : c.id # Entry(m).id
    BY <1>1, <2>1 DEF KeyInv, Entry
  <2>5. Entry(m).day <= today /\ today <= Entry(m).day + 1
    BY DEF DateInv, Entry
  <2> QED  BY <2>1, <2>2, <2>3, <2>4, <2>5 DEF Raw!LogNext, Raw!AppendBatch
<1>4. CASE today' = today /\ ~\E m \in inserts : ServeInsert(m) /\ rows' # rows
  <2>1. rows' = rows
    BY <1>4, BatchesChange DEF SendInsert, Sending, bigquery, Forget
  <2> QED  BY <1>1, <1>4, <2>1
<1> QED  BY <1>2, <1>3, <1>4

(* Unless BigQuery forgets an insertId, what the Lambda leaves in the raw  *)
(* tables is a behaviour of RawLog.                                        *)
THEOREM IngestImplementsRawLog == ~DedupForgets => (Spec => ImplementsRawLog)
<1> SUFFICES ASSUME ~DedupForgets PROVE Spec => ImplementsRawLog
  OBVIOUS
<1>1. Init => Raw!LogInit
  BY DEF Init, Raw!LogInit, Log
<1>2. Init => KeyInv
  BY DEF Init, KeyInv, UniqueRowId
<1>3. KeyInv /\ [Next]_vars => KeyInv'
  BY KeyStep
<1>4. Shape /\ DateInv /\ KeyInv /\ [Next]_vars => [Raw!LogNext]_<<Log, today>>
  BY LogStep
<1> QED
  BY InitShape, NextShape, InitDate, DateStep, <1>1, <1>2, <1>3, <1>4,
     PTL DEF Spec, ImplementsRawLog, Raw!LogSpec

-----------------------------------------------------------------------------
(* An insert of the Lambda is a call of the client.  Every request is of a *)
(* table its attempt loads; about a table something is printed once, with  *)
(* nothing stored in the same step; and a stored request is one copy more. *)

LoadsInv == \A m \in inserts \cup rows : <<m.inv, m.table>> \in Inserts

LEMMA LoadIsInsert ==
    ASSUME NEW i \in Attempts, LoadExists(i)
    PROVE  <<i, Table(i)>> \in Inserts
<1>1. Loads(i)[load[i]] \in Tables
  BY LoadsType DEF LoadExists
<1>2. load[i] \in DOMAIN Loads(i)
  BY DEF LoadExists, Loads, LoadsOf
<1> QED  BY <1>1, <1>2 DEF Inserts, Table

LEMMA LoadsStep == Shape /\ LoadsInv /\ [Next]_vars => LoadsInv'
<1> SUFFICES ASSUME Shape, LoadsInv, [Next]_vars PROVE LoadsInv'
  OBVIOUS
<1>1. ASSUME NEW i \in Attempts, SendInsert(i) PROVE LoadsInv'
  <2>1. <<i, Table(i)>> \in Inserts
    BY <1>1, LoadIsInsert DEF SendInsert, Sending, Shape, ControlOK, Working
  <2>2. \A m \in inserts' \cup rows' :
           m \in inserts \cup rows \/ (m.inv = i /\ m.table = Table(i))
    BY <1>1 DEF SendInsert, Sending, bigquery
  <2>3. \A m \in inserts' \cup rows' : <<m.inv, m.table>> \in Inserts
    BY <2>1, <2>2 DEF LoadsInv
  <2> QED  BY <2>3 DEF LoadsInv, Inserts, Loads
<1>2. ASSUME ~\E i \in Attempts : SendInsert(i) PROVE LoadsInv'
  <2>1. inserts' \cup rows' \subseteq inserts \cup rows
    BY <1>2, BatchesChange DEF ServeInsert, Forget, network
  <2> QED  BY <2>1 DEF LoadsInv, Inserts, Loads
<1> QED  BY <1>1, <1>2

InsertResult == [c \in Inserts |-> ResultOf(c)]
InsertCopies == [c \in Inserts |-> CopiesOf(c)]
InsertVars == <<~DedupForgets, InsertResult, InsertCopies>>

(* A batch that was not stored is a copy more of its call's batch. *)
LEMMA OneCopyMore ==
    ASSUME NEW m, m \notin rows, rows' = rows \cup {m},
           <<m.inv, m.table>> \in Inserts
    PROVE  InsertCopies' = [InsertCopies EXCEPT ![<<m.inv, m.table>>] =
                               IF @ = "none" THEN "once" ELSE "more"]
<1> DEFINE C == <<m.inv, m.table>>
           Of(c) == {r \in rows : r.inv = c[1] /\ r.table = c[2]}
           Now(c) == {r \in rows' : r.inv = c[1] /\ r.table = c[2]}
<1>1. ASSUME NEW c \in Inserts, c # C PROVE CopiesOf(c)' = CopiesOf(c)
  <2>1. c = <<c[1], c[2]>>
    BY DEF Inserts, Attempts
  <2>2. Now(c) = Of(c)
    BY <1>1, <2>1
  <2> QED  BY <2>2 DEF CopiesOf
<1>2. Now(C) = Of(C) \cup {m} /\ m \notin Of(C)
  OBVIOUS
<1>3. CopiesOf(C)' = IF CopiesOf(C) = "none" THEN "once" ELSE "more"
  <2>1. CASE Of(C) = {}
    BY <1>2, <2>1 DEF CopiesOf
  <2>2. CASE Of(C) # {}
    <3>1. ~\E r \in Now(C) : Now(C) = {r}
      BY <1>2, <2>2
    <3>2. Now(C) # {}
      BY <1>2
    <3>3. CopiesOf(C)' = "more"
      BY <3>1, <3>2 DEF CopiesOf
    <3>4. CopiesOf(C) # "none"
      BY <2>2 DEF CopiesOf
    <3> QED  BY <3>3, <3>4
  <2> QED  BY <2>1, <2>2
<1> QED  BY <1>1, <1>3 DEF InsertCopies, Inserts, Loads

KnownInv == DedupForgets \/ KeyInv

LEMMA InsertStep ==
    ASSUME Shape, KnownInv, LoadsInv, CallInv, ReportInv, [Next]_vars
    PROVE  [Insert!Next]_InsertVars
<1>1. ASSUME NEW i \in Attempts, NEW t, t = Table(i), OnInserted(i)
      PROVE  [Insert!Next]_InsertVars
  <2> DEFINE C == <<i, t>>
  <2>1. C \in Inserts /\ LoadExists(i) /\ t \in Tables
    BY <1>1, LoadIsInsert DEF OnInserted, Shape, ControlOK, Working, Inserts
  <2>2. rows' = rows
    BY <1>1 DEF OnInserted, End, bigquery
  <2>3. InsertCopies' = InsertCopies
    BY <2>2 DEF InsertCopies, CopiesOf, Inserts, Loads
  <2>4. outcome[i][t] = "none"
    BY <1>1, <2>1, SecondLoad DEF ReportInv, OnInserted, Live
  <2>5. outcome' = [outcome EXCEPT ![i][t] = Printed(i)]
    BY <1>1 DEF OnInserted
  <2>6. ASSUME NEW c \in Inserts, c # C PROVE ResultOf(c)' = ResultOf(c)
    <3>1. c = <<c[1], c[2]>> /\ c[1] \in Attempts /\ c[2] \in Tables
      BY DEF Inserts, Attempts
    <3>2. outcome'[c[1]][c[2]] = outcome[c[1]][c[2]]
      BY <2>5, <2>6, <3>1 DEF Shape, TypeOK
    <3> QED  BY <3>2 DEF ResultOf
  <2>7. outcome'[i][t] = Printed(i)
    BY <2>1, <2>5 DEF Shape, TypeOK
  <2>8. InsertResult[C] = "open"
    BY <2>1, <2>4 DEF InsertResult, ResultOf
  <2>9. InsertResult' = [c \in Inserts |-> ResultOf(c)']
    BY DEF InsertResult, Inserts, Loads
  <2>10. CASE call[i] = "ok"
    <3>1. ResultOf(C)' = "ok"
      BY <2>7, <2>10 DEF Printed, ResultOf
    <3>2. InsertResult' = [InsertResult EXCEPT ![C] = "ok"]
      BY <2>1, <2>6, <2>9, <3>1 DEF InsertResult
    <3>3. Stored(i, t)
      BY <1>1, <2>10 DEF CallInv, CallGood, OnInserted
    <3>4. InsertCopies[C] # "none"
      BY <2>1, <3>3 DEF InsertCopies, CopiesOf, Stored
    <3> QED  BY <2>1, <2>3, <2>8, <3>2, <3>4
             DEF InsertVars, Insert!Next, Insert!Return, InsertResult, InsertCopies
  <2>11. CASE call[i] # "ok"
    <3>1. ResultOf(C)' = "failed"
      BY <2>7, <2>11 DEF Printed, ResultOf
    <3>2. InsertResult' = [InsertResult EXCEPT ![C] = "failed"]
      BY <2>1, <2>6, <2>9, <3>1 DEF InsertResult
    <3> QED  BY <2>1, <2>3, <2>8, <3>2
             DEF InsertVars, Insert!Next, Insert!Fail, InsertResult, InsertCopies
  <2> QED  BY <2>10, <2>11
<1>2. ASSUME NEW m \in inserts, ServeInsert(m), rows' # rows
      PROVE  [Insert!Next]_InsertVars
  <2> DEFINE C == <<m.inv, m.table>>
  <2>1. rows' = rows \cup {m} /\ m \notin rows /\ m.key \notin seen /\ outcome' = outcome
    BY <1>2 DEF ServeInsert, Reply
  <2>2. C \in Inserts
    BY DEF LoadsInv
  <2>3. InsertCopies' = [InsertCopies EXCEPT ![C] = IF @ = "none" THEN "once" ELSE "more"]
    BY <2>1, <2>2, OneCopyMore
  <2>4. InsertResult' = InsertResult
    BY <2>1 DEF InsertResult, ResultOf, Inserts, Loads
  <2>5. ~DedupForgets => InsertCopies[C] = "none"
    <3>1. ~DedupForgets => \A r \in rows : ~(r.inv = m.inv /\ r.table = m.table)
      BY <2>1 DEF KnownInv, KeyInv
    <3> QED  BY <2>2, <3>1 DEF InsertCopies, CopiesOf
  <2> QED  BY <2>2, <2>3, <2>4, <2>5
           DEF InsertVars, Insert!Next, Insert!Store, InsertResult, InsertCopies
<1>3. CASE /\ ~\E i \in Attempts : OnInserted(i)
           /\ ~\E m \in inserts : ServeInsert(m) /\ rows' # rows
  <2>1. outcome' = outcome
    BY <1>3, OutcomeChange
  <2>2. rows' = rows
    BY <1>3, BatchesChange DEF SendInsert, Sending, bigquery, Forget
  <2> QED  BY <2>1, <2>2 DEF InsertVars, InsertResult, InsertCopies, ResultOf, CopiesOf,
           Inserts, Loads
<1> QED  BY <1>1, <1>2, <1>3

(* Each insert, with what is printed about it, is a call that keeps its    *)
(* promise, whether BigQuery forgets insertIds or not.                     *)
THEOREM IngestImplementsInsertCalls == Spec => ImplementsInsertCalls
<1>1. Init => OrderInv /\ CallInv /\ RequestInv /\ ReportInv
  BY DEF Init, OrderInv, CallInv, CallGood, RequestInv, ReportInv
<1>2. Shape /\ OrderInv /\ CallInv /\ RequestInv /\ ReportInv /\ [Next]_vars
         => OrderInv' /\ CallInv' /\ RequestInv' /\ ReportInv'
  BY OrderStep, CallStep, RequestStep, ReportStep
<1>3. Init => KnownInv /\ LoadsInv
  BY DEF Init, KnownInv, KeyInv, UniqueRowId, LoadsInv
<1>4. KnownInv /\ [Next]_vars => KnownInv'
  BY KeyStep DEF KnownInv
<1>5. Init => Insert!Init
  <2> SUFFICES ASSUME Init PROVE Insert!Init
    OBVIOUS
  <2>1. \A c \in Inserts : ResultOf(c) = "open" /\ CopiesOf(c) = "none"
    BY DEF Init, Inserts, ResultOf, CopiesOf
  <2> QED  BY <2>1, FlagsAssumption DEF Insert!Init
<1>6. Shape /\ KnownInv /\ LoadsInv /\ CallInv /\ ReportInv /\ [Next]_vars
         => [Insert!Next]_(Insert!vars)
  BY InsertStep DEF Insert!vars, InsertVars, InsertResult, InsertCopies
<1> QED
  BY InitShape, NextShape, LoadsStep, <1>1, <1>2, <1>3, <1>4, <1>5, <1>6,
     PTL DEF Spec, ImplementsInsertCalls, Insert!Spec

=============================================================================

---------------------------- MODULE DbtRunProofs ----------------------------
(***************************************************************************)
(* That exit code 0 can be trusted, for any number of days, of tasks a day *)
(* and of threads.                                                         *)
(***************************************************************************)
EXTENDS DbtRun, TLAPS

USE RunAssumption

(* What goes on is of today. *)
TodayInv ==
    /\ \A t \in Tasks : Alive(t) => t[1] = today
    /\ \A t \in Tasks, m \in Models : node[t][m] = "running" => t[1] = today
    /\ \A t \in Tasks : pc[t] = "idle" => \A m \in Models : node[t][m] = "waiting"

(* The overlap a task is part of began that day with a task launched no    *)
(* later than it, and all who work are part of the last overlap.           *)
OverlapInv ==
    /\ now = Earlier \/ (now \in Tasks /\ pc[now] # "idle")
    /\ now[1] <= today
    /\ \A t \in Tasks : pc[t] # "idle" =>
          /\ now \in Tasks /\ Upto(t, now)
          /\ since[t] \in Tasks /\ since[t][1] = t[1]
          /\ Upto(since[t], t) /\ Upto(since[t], since[now])
    /\ \A t \in Tasks : Working(t) => since[t] = since[now]

(* A query in flight read what is of the last overlap, or nothing; what    *)
(* was built is of the overlap of the task that built it, or of a later.   *)
FreshInv ==
    \A t \in Tasks, m \in Models :
       /\ node[t][m] = "running" => read[t][m] = Never \/ Upto(since[now], read[t][m])
       /\ node[t][m] = "ok" => Upto(since[t], asOf[m])

(* A model is skipped for another that was not built. *)
SkipInv ==
    \A t \in Tasks, m \in Models : node[t][m] = "skipped" =>
        \E n \in Upstream(m) : node[t][n] \in {"error", "skipped"}

(* Nothing is left to build after a run that succeeded. *)
GreenInv ==
    \A t \in Tasks : pc[t] = "test" \/ Green(t) => \A m \in Models : node[t][m] = "ok"

DbtInv == TypeOK /\ TodayInv /\ OverlapInv /\ FreshInv /\ SkipInv /\ GreenInv

(* The graph of models, read off the refs. *)
LEMMA Graph ==
    /\ Upstream("dim_tickers") = {}
    /\ Upstream("fact_ticker_prices") = {"dim_tickers"}
    /\ Upstream("fact_daily_tickers_quantity") = {"dim_tickers"}
    /\ Upstream("fact_daily_account_value") = {"dim_tickers", "fact_ticker_prices"}
BY DEF Upstream, Refs, Models

(* If none failed, none was skipped: the graph has no cycle. *)
LEMMA NoneSkipped ==
    ASSUME SkipInv, NEW t \in Tasks, \A m \in Models : node[t][m] # "error"
    PROVE  \A m \in Models : node[t][m] # "skipped"
<1>1. node[t]["dim_tickers"] # "skipped"
  BY Graph DEF SkipInv, Models
<1>2. node[t]["fact_ticker_prices"] # "skipped"
  BY <1>1, Graph DEF SkipInv, Models
<1>3. node[t]["fact_daily_tickers_quantity"] # "skipped"
  BY <1>1, Graph DEF SkipInv, Models
<1>4. node[t]["fact_daily_account_value"] # "skipped"
  BY <1>1, <1>2, Graph DEF SkipInv, Models
<1> QED
  BY <1>1, <1>2, <1>3, <1>4 DEF Models

(* Moments are ordered, and of three of them one is the oldest. *)
LEMMA MomentsOrdered ==
    /\ \A p \in Moments : p[1] \in Nat /\ p[2] \in Nat
    /\ \A p, q, r \in Moments : Upto(p, q) /\ Upto(q, r) => Upto(p, r)
    /\ \A p, q \in Moments : Upto(p, q) => p[1] <= q[1]
<1>1. \A p \in Moments : p[1] \in Nat /\ p[2] \in Nat
  BY DEF Moments, Never, Earlier, Tasks, Days
<1> QED
  BY <1>1 DEF Upto

LEMMA OldestOfThree ==
    ASSUME NEW p \in Moments, NEW q \in Moments, NEW r \in Moments
    PROVE  Oldest({p, q, r}) \in {p, q, r}
<1>1. p[1] \in Nat /\ p[2] \in Nat /\ q[1] \in Nat /\ q[2] \in Nat
      /\ r[1] \in Nat /\ r[2] \in Nat
  BY MomentsOrdered
<1>2. \E o \in {p, q, r} : Upto(o, p) /\ Upto(o, q) /\ Upto(o, r)
  BY <1>1 DEF Upto
<1>3. \E o \in {p, q, r} : \A other \in {p, q, r} : Upto(o, other)
  BY <1>2
<1> QED
  BY <1>3 DEF Oldest

(* What a model reads after the task has built its upstream models is of   *)
(* the last overlap.                                                       *)
LEMMA ReadsFresh ==
    ASSUME DbtInv, NEW t \in Tasks, NEW m \in Models, Ready(t, m), Alive(t)
    PROVE  Reads(m) \in Moments /\ (Reads(m) = Never \/ Upto(since[now], Reads(m)))
<1> DEFINE dim == asOf["dim_tickers"]
           prices == asOf["fact_ticker_prices"]
<1>1. Never \in Moments /\ now \in Moments /\ dim \in Moments /\ prices \in Moments
  BY DEF DbtInv, TypeOK, Tables, Models, Moments
<1>2. since[t] = since[now] /\ Upto(since[now], now)
  <2>1. pc[t] # "idle"
    BY DEF Alive
  <2>2. now \in Tasks /\ since[t] = since[now]
    BY <2>1 DEF DbtInv, OverlapInv, Working
  <2>3. now[1] \in Days
    BY <2>2 DEF Tasks
  <2>4. now # Earlier
    BY <2>3 DEF Earlier, Days
  <2> QED
    BY <2>2, <2>4 DEF DbtInv, OverlapInv
<1>3. \A n \in Upstream(m) : Upto(since[now], asOf[n])
  BY <1>2 DEF DbtInv, FreshInv, Ready, Upstream
<1>4. CASE m = "dim_tickers"
  <2>1. {now} \cup {asOf[n] : n \in Upstream(m)} = {now, now, now}
    BY <1>4, Graph
  <2>2. Oldest({now, now, now}) = now
    BY <1>1, OldestOfThree
  <2> QED
    BY <1>1, <1>2, <2>1, <2>2 DEF Reads
<1>5. CASE m \in {"fact_ticker_prices", "fact_daily_tickers_quantity"}
  <2>1. {now} \cup {asOf[n] : n \in Upstream(m)} = {now, dim, dim}
    BY <1>5, Graph
  <2>2. Oldest({now, dim, dim}) \in {now, dim, dim}
    BY <1>1, OldestOfThree
  <2>3. Upto(since[now], dim)
    BY <1>3, <1>5, Graph
  <2> QED
    BY <1>1, <1>2, <2>1, <2>2, <2>3 DEF Reads
<1>6. CASE m = "fact_daily_account_value"
  <2>1. {now} \cup {asOf[n] : n \in Upstream(m)} = {now, dim, prices}
    BY <1>6, Graph
  <2>2. Oldest({now, dim, prices}) \in {now, dim, prices}
    BY <1>1, OldestOfThree
  <2>3. Upto(since[now], dim) /\ Upto(since[now], prices)
    BY <1>3, <1>6, Graph
  <2> QED
    BY <1>1, <1>2, <2>1, <2>2, <2>3 DEF Reads
<1> QED
  BY <1>4, <1>5, <1>6 DEF Models

-----------------------------------------------------------------------------
LEMMA InitInv == Init => DbtInv
<1> SUFFICES ASSUME Init PROVE DbtInv
  OBVIOUS
<1>1. TypeOK
  BY DEF Init, TypeOK, Status, Days, Moments
<1>2. TodayInv /\ SkipInv /\ GreenInv /\ FreshInv
  BY DEF Init, TodayInv, SkipInv, GreenInv, FreshInv, Alive, Green
<1>3. OverlapInv
  BY DEF Init, OverlapInv, Working, Alive, Earlier
<1> QED
  BY <1>1, <1>2, <1>3 DEF DbtInv

(* A task stops: nothing else changes, and it is green only from dbt test. *)
LEMMA StopKeeps ==
    ASSUME DbtInv, NEW t \in Tasks, NEW why \in {"exited", "other"},
           NEW code \in {0, 1, 2, 137}, Alive(t), Stop(t, why, code),
           why = "exited" /\ code = 0 => pc[t] = "test"
    PROVE  DbtInv'
<1>1. TypeOK'
  BY DEF DbtInv, TypeOK, Stop, clock
<1>2. TodayInv'
  BY DEF DbtInv, TypeOK, TodayInv, Alive, Stop, clock
<1>3. FreshInv' /\ SkipInv'
  BY DEF DbtInv, FreshInv, SkipInv, Stop, clock
<1>4. OverlapInv'
  <2>1. \A u \in Tasks : (Working(u)' => Working(u)) /\ (pc'[u] = "idle" <=> pc[u] = "idle")
    BY DEF DbtInv, TypeOK, Stop, Working, Alive, clock
  <2>2. UNCHANGED <<today, now, since>>
    BY DEF Stop, clock
  <2> QED
    BY <2>1, <2>2 DEF DbtInv, OverlapInv
<1>5. GreenInv'
  <2> SUFFICES ASSUME NEW u \in Tasks, pc'[u] = "test" \/ Green(u)'
               PROVE  \A m \in Models : node'[u][m] = "ok"
    BY DEF GreenInv
  <2>1. CASE u = t
    BY <2>1 DEF DbtInv, TypeOK, GreenInv, Stop, Green
  <2>2. CASE u # t
    BY <2>2 DEF DbtInv, TypeOK, GreenInv, Stop, Green
  <2> QED
    BY <2>1, <2>2
<1> QED
  BY <1>1, <1>2, <1>3, <1>4, <1>5 DEF DbtInv

(* The script goes on to another command. *)
LEMMA GoesOn ==
    ASSUME DbtInv, NEW t \in Tasks, Alive(t),
           NEW at \in {"deps", "seed", "dbt", "run", "test"},
           pc' = [pc EXCEPT ![t] = at],
           at = "test" => \A m \in Models : node[t][m] = "ok",
           packages' \in [Tasks -> BOOLEAN],
           asOf' \in [Tables -> Moments],
           \A n \in Models : asOf'[n] = asOf[n],
           UNCHANGED <<clock, node, read, exit, reason, mailed>>
    PROVE  DbtInv'
<1> USE DEF clock
<1>1. TypeOK'
  BY DEF DbtInv, TypeOK
<1>2. TodayInv' /\ SkipInv'
  BY DEF DbtInv, TypeOK, TodayInv, SkipInv, Alive
<1>3. FreshInv'
  BY DEF DbtInv, FreshInv
<1>4. OverlapInv'
  <2>1. \A u \in Tasks : (Working(u)' => Working(u)) /\ (pc'[u] = "idle" <=> pc[u] = "idle")
    BY DEF DbtInv, TypeOK, Working, Alive
  <2> QED
    BY <2>1 DEF DbtInv, OverlapInv
<1>5. GreenInv'
  BY DEF DbtInv, TypeOK, GreenInv, Green
<1> QED
  BY <1>1, <1>2, <1>3, <1>4, <1>5 DEF DbtInv

LEMMA ScriptKeeps ==
    ASSUME DbtInv, NEW t \in Tasks, Script(t)
    PROVE  DbtInv'
<1> USE DEF Exit
<1>0. packages \in [Tasks -> BOOLEAN] /\ asOf \in [Tables -> Moments]
  BY DEF DbtInv, TypeOK
<1>1. CASE SecretUnset(t)
  BY <1>1, StopKeeps DEF SecretUnset, Alive
<1>2. CASE SecretSet(t)
  <2>1. asOf' = asOf /\ packages' = packages
    BY <1>2 DEF SecretSet
  <2> QED
    BY <1>0, <1>2, <2>1, GoesOn DEF SecretSet, Alive
<1>3. CASE Deps(t)
  <2>1. packages' = packages \/ packages' = [packages EXCEPT ![t] = TRUE]
    BY <1>3, Zenon DEF Deps
  <2>2. packages' \in [Tasks -> BOOLEAN]
    BY <1>0, <2>1, Zenon
  <2>3. asOf' = asOf
    BY <1>3 DEF Deps
  <2> QED
    BY <1>0, <1>3, <2>2, <2>3, GoesOn DEF Deps, Alive
<1>4. CASE Seed(t)
  <2>1. asOf' = asOf \/ asOf' = [asOf EXCEPT !["name_mapping"] = now]
    BY <1>4 DEF Seed
  <2>2. now \in Moments
    BY DEF DbtInv, TypeOK
  <2>3. asOf' \in [Tables -> Moments] /\ \A n \in Models : asOf'[n] = asOf[n]
    BY <1>0, <2>1, <2>2 DEF Models, Tables
  <2>4. packages' = packages
    BY <1>4 DEF Seed
  <2> QED
    BY <1>0, <1>4, <2>3, <2>4, GoesOn DEF Seed, Alive
<1>5. CASE RunDbt(t)
  <2>1. asOf' = asOf /\ packages' = packages
    BY <1>5 DEF RunDbt
  <2> QED
    BY <1>0, <1>5, <2>1, GoesOn DEF RunDbt, Alive
<1>6. CASE RunAborts(t)
  BY <1>6, StopKeeps DEF RunAborts, Alive
<1>7. CASE RunFails(t)
  BY <1>7, StopKeeps DEF RunFails, Alive
<1>8. CASE RunSucceeds(t)
  <2>1. \A m \in Models : node[t][m] = "ok"
    BY <1>8, NoneSkipped DEF RunSucceeds, Settled, DbtInv
  <2>2. asOf' = asOf /\ packages' = packages
    BY <1>8 DEF RunSucceeds
  <2> QED
    BY <1>0, <1>8, <2>1, <2>2, GoesOn DEF RunSucceeds, Alive
<1>9. CASE Test(t)
  BY <1>9, StopKeeps DEF Test, Alive
<1> QED
  BY <1>1, <1>2, <1>3, <1>4, <1>5, <1>6, <1>7, <1>8, <1>9 DEF Script

-----------------------------------------------------------------------------
(* dbt starts a model: its query reads tables of the last overlap.         *)
LEMMA StartKeeps ==
    ASSUME DbtInv, NEW t \in Tasks, NEW m \in Models, StartModel(t, m)
    PROVE  DbtInv'
<1> USE DEF clock
<1>1. Alive(t) /\ t[1] = today
  BY DEF StartModel, DbtInv, TodayInv, Alive
<1>2. Reads(m) \in Moments /\ (Reads(m) = Never \/ Upto(since[now], Reads(m)))
  BY <1>1, ReadsFresh DEF StartModel
<1>3. /\ \A u \in Tasks, n \in Models : u # t \/ n # m =>
            node'[u][n] = node[u][n] /\ read'[u][n] = read[u][n]
      /\ node'[t][m] = "running" /\ read'[t][m] = Reads(m)
      /\ node[t][m] = "waiting"
      /\ UNCHANGED <<today, now, since, pc, asOf, exit, reason>>
  BY DEF StartModel, DbtInv, TypeOK
<1>4. TypeOK'
  <2>1. node' \in [Tasks -> [Models -> Status]]
    BY DEF StartModel, DbtInv, TypeOK, Status
  <2>2. read' \in [Tasks -> [Models -> Moments]]
    BY <1>2 DEF StartModel, DbtInv, TypeOK
  <2> QED
    BY <2>1, <2>2 DEF StartModel, DbtInv, TypeOK
<1>5. TodayInv'
  BY <1>1, <1>3 DEF DbtInv, TodayInv, Alive
<1>6. OverlapInv'
  <2>1. \A u \in Tasks : Working(u)' => Working(u)
    BY <1>1, <1>3 DEF Working, Alive
  <2> QED
    BY <1>3, <2>1 DEF DbtInv, OverlapInv
<1>7. FreshInv'
  BY <1>2, <1>3 DEF DbtInv, FreshInv
<1>8. SkipInv'
  <2> SUFFICES ASSUME NEW u \in Tasks, NEW n \in Models, node'[u][n] = "skipped"
               PROVE  \E k \in Upstream(n) : node'[u][k] \in {"error", "skipped"}
    BY DEF SkipInv
  <2>1. PICK k \in Upstream(n) : node[u][k] \in {"error", "skipped"}
    BY <1>3 DEF DbtInv, SkipInv
  <2>2. k \in Models
    BY DEF Upstream
  <2> QED
    BY <1>3, <2>1, <2>2
<1>9. GreenInv'
  BY <1>3 DEF DbtInv, GreenInv, Green
<1> QED
  BY <1>4, <1>5, <1>6, <1>7, <1>8, <1>9 DEF DbtInv

(* What a model says changes, and nothing that was said of another.        *)
LEMMA SettleKeeps ==
    ASSUME DbtInv, NEW t \in Tasks, NEW m \in Models,
           NEW says \in {"ok", "error", "skipped"},
           node[t][m] \in {"running", "waiting"}, pc[t] # "idle",
           node' = [node EXCEPT ![t][m] = says],
           says = "ok" => /\ node[t][m] = "running" /\ read[t][m] # Never
                          /\ asOf' = [asOf EXCEPT ![m] = read[t][m]],
           says # "ok" => asOf' = asOf,
           says = "skipped" => \E n \in Upstream(m) : node[t][n] \in {"error", "skipped"},
           UNCHANGED <<clock, pc, packages, read, exit, reason, mailed>>
    PROVE  DbtInv'
<1> USE DEF clock
<1>1. /\ \A u \in Tasks, n \in Models : u # t \/ n # m => node'[u][n] = node[u][n]
      /\ node'[t][m] = says
  BY DEF DbtInv, TypeOK
<1>2. m \in Tables /\ read[t][m] \in Moments
  BY DEF DbtInv, TypeOK, Tables
<1>3. TypeOK'
  BY <1>2 DEF DbtInv, TypeOK, Status
<1>4. TodayInv'
  BY <1>1 DEF DbtInv, TodayInv, Alive
<1>5. OverlapInv'
  <2>1. \A u \in Tasks : Working(u)' => Working(u)
    BY <1>1 DEF Working, Alive
  <2> QED
    BY <2>1 DEF DbtInv, OverlapInv
<1>6. FreshInv'
  <2>1. ASSUME NEW u \in Tasks, NEW n \in Models, node'[u][n] = "ok"
        PROVE  Upto(since[u], asOf'[n])
    <3>1. CASE says = "ok" /\ n = m
      <4>1. asOf'[n] = read[t][m] /\ Upto(since[now], read[t][m])
        BY <1>2, <3>1 DEF DbtInv, TypeOK, FreshInv
      <4>2. pc[u] # "idle"
        BY <1>1, <2>1 DEF DbtInv, TodayInv
      <4>3. Upto(since[u], since[now]) /\ since[u] \in Moments /\ since[now] \in Moments
        BY <4>2 DEF DbtInv, OverlapInv, TypeOK
      <4> QED
        BY <1>2, <4>1, <4>3, MomentsOrdered
    <3>2. CASE ~(says = "ok" /\ n = m)
      <4>1. node[u][n] = "ok"
        BY <1>1, <2>1, <3>2
      <4>2. asOf'[n] = asOf[n]
        BY <3>2 DEF DbtInv, TypeOK, Tables
      <4> QED
        BY <4>1, <4>2 DEF DbtInv, FreshInv
    <3> QED
      BY <3>1, <3>2
  <2>2. ASSUME NEW u \in Tasks, NEW n \in Models, node'[u][n] = "running"
        PROVE  read[u][n] = Never \/ Upto(since[now], read[u][n])
    BY <1>1, <2>2 DEF DbtInv, FreshInv
  <2> QED
    BY <2>1, <2>2 DEF FreshInv
<1>7. SkipInv'
  <2> SUFFICES ASSUME NEW u \in Tasks, NEW n \in Models, node'[u][n] = "skipped"
               PROVE  \E k \in Upstream(n) : node'[u][k] \in {"error", "skipped"}
    BY DEF SkipInv
  <2>1. PICK k \in Upstream(n) : node[u][k] \in {"error", "skipped"}
    BY <1>1 DEF DbtInv, SkipInv
  <2>2. k \in Models
    BY DEF Upstream
  <2> QED
    BY <1>1, <2>1, <2>2
<1>8. GreenInv'
  BY <1>1 DEF DbtInv, GreenInv, Green
<1> QED
  BY <1>3, <1>4, <1>5, <1>6, <1>7, <1>8 DEF DbtInv

LEMMA BuildsKeep ==
    ASSUME DbtInv, NEW t \in Tasks, NEW m \in Models, Builds(t, m)
    PROVE  DbtInv'
<1>1. CASE StartModel(t, m)
  BY <1>1, StartKeeps
<1>2. CASE ModelOk(t, m)
  <2>1. pc[t] # "idle"
    BY <1>2 DEF ModelOk, DbtInv, TodayInv
  <2> QED
    BY <1>2, <2>1, SettleKeeps DEF ModelOk
<1>3. CASE ModelError(t, m)
  <2>1. pc[t] # "idle"
    BY <1>3 DEF ModelError, DbtInv, TodayInv
  <2> QED
    BY <1>3, <2>1, SettleKeeps DEF ModelError
<1>4. CASE Skip(t, m)
  BY <1>4, SettleKeeps DEF Skip
<1> QED
  BY <1>1, <1>2, <1>3, <1>4 DEF Builds

-----------------------------------------------------------------------------
(* A task is launched after all others, into their overlap if one of them  *)
(* still works: what is in flight then stays of the last overlap.          *)
LEMMA LaunchKeeps ==
    ASSUME DbtInv, NEW t \in Tasks, Launch(t)
    PROVE  DbtInv'
<1>1. /\ pc[t] = "idle" /\ pc'[t] = "start" /\ now' = t /\ t[1] = today
      /\ \A u \in Tasks : u # t => pc'[u] = pc[u] /\ since'[u] = since[u]
      /\ since'[t] = IF \E u \in Tasks : Working(u) THEN since[now] ELSE t
      /\ UNCHANGED <<today, packages, node, read, asOf, exit, reason, mailed>>
  BY DEF Launch, DbtInv, TypeOK
<1>2. today \in Nat /\ now \in Moments /\ t \in Moments
  BY DEF DbtInv, TypeOK, Days, Moments
<1>3. Upto(now, t)
  <2>1. now[1] \in Nat /\ now[2] \in Nat /\ now[1] <= today
    BY <1>2, MomentsOrdered DEF DbtInv, OverlapInv
  <2>2. t = <<today, IF now[1] = today THEN now[2] + 1 ELSE 1>>
    BY DEF Launch
  <2> QED
    BY <1>2, <2>1, <2>2 DEF Upto
<1>4. \A u \in Tasks : Working(u) => pc[u] # "idle" /\ u[1] = today
  BY DEF Working, Alive, DbtInv, TodayInv
<1>5. \A u \in Tasks : pc[u] # "idle" =>
         /\ u \in Moments /\ since[u] \in Moments /\ since[now] \in Moments
         /\ Upto(u, t) /\ Upto(since[u], t)
  <2> SUFFICES ASSUME NEW u \in Tasks, pc[u] # "idle"
               PROVE  /\ u \in Moments /\ since[u] \in Moments /\ since[now] \in Moments
                      /\ Upto(u, t) /\ Upto(since[u], t)
    OBVIOUS
  <2>1. u \in Moments /\ since[u] \in Moments /\ since[now] \in Moments
    BY DEF DbtInv, OverlapInv, TypeOK, Moments
  <2>2. Upto(u, now) /\ Upto(since[u], u)
    BY DEF DbtInv, OverlapInv
  <2> QED
    BY <1>2, <1>3, <2>1, <2>2, MomentsOrdered
<1>6. /\ since'[t] \in Tasks /\ since'[t][1] = today /\ Upto(since'[t], t)
      /\ \A u \in Tasks : pc[u] # "idle" => Upto(since[u], since'[t])
  <2>1. CASE \E u \in Tasks : Working(u)
    <3>1. PICK u \in Tasks : Working(u)
      BY <2>1
    <3>2. pc[u] # "idle" /\ u[1] = today /\ since[u] = since[now]
      BY <1>4, <3>1 DEF DbtInv, OverlapInv
    <3>3. since'[t] = since[u]
      BY <1>1, <2>1, <3>2
    <3>4. since[u] \in Tasks /\ since[u][1] = today /\ Upto(since[u], t)
      BY <1>5, <3>2 DEF DbtInv, OverlapInv
    <3> QED
      BY <3>2, <3>3, <3>4 DEF DbtInv, OverlapInv
  <2>2. CASE ~\E u \in Tasks : Working(u)
    <3>1. since'[t] = t
      BY <1>1, <2>2
    <3>2. Upto(t, t)
      BY <1>2, MomentsOrdered DEF Upto
    <3> QED
      BY <1>1, <1>5, <3>1, <3>2
  <2> QED
    BY <2>1, <2>2
<1>7. \A u \in Tasks : Working(u) => since[u] = since'[t]
  BY <1>1 DEF DbtInv, OverlapInv
<1>8. TypeOK'
  <2>1. since' \in [Tasks -> Moments]
    BY <1>6 DEF Launch, DbtInv, TypeOK, Moments
  <2> QED
    BY <1>1, <1>2, <2>1 DEF Launch, DbtInv, TypeOK
<1>9. TodayInv'
  BY <1>1 DEF DbtInv, TodayInv, Alive
<1>10. OverlapInv'
  <2>1. now'[1] <= today'
    BY <1>1, <1>2
  <2>2. ASSUME NEW u \in Tasks, pc'[u] # "idle"
        PROVE  /\ Upto(u, t)
               /\ since'[u] \in Tasks /\ since'[u][1] = u[1]
               /\ Upto(since'[u], u) /\ Upto(since'[u], since'[t])
    <3>1. CASE u = t
      <4>1. Upto(t, t) /\ Upto(since'[t], since'[t])
        BY <1>2, <1>6, MomentsOrdered DEF Upto, Moments
      <4> QED
        BY <1>1, <1>6, <3>1, <4>1
    <3>2. CASE u # t
      BY <1>1, <1>5, <1>6, <2>2, <3>2 DEF DbtInv, OverlapInv
    <3> QED
      BY <3>1, <3>2
  <2>3. ASSUME NEW u \in Tasks, Working(u)' PROVE since'[u] = since'[t]
    <3>1. CASE u # t
      <4>1. Working(u)
        BY <1>1, <2>3, <3>1 DEF Working, Alive
      <4> QED
        BY <1>1, <1>7, <3>1, <4>1
    <3> QED
      BY <3>1
  <2> QED
    BY <1>1, <2>1, <2>2, <2>3 DEF OverlapInv
<1>11. FreshInv'
  <2>1. ASSUME NEW u \in Tasks, NEW m \in Models, node[u][m] = "running"
        PROVE  read[u][m] = Never \/ Upto(since'[t], read[u][m])
    <3>1. Working(u)
      BY <2>1 DEF Working
    <3>2. since'[t] = since[now]
      BY <1>1, <3>1
    <3> QED
      BY <2>1, <3>2 DEF DbtInv, FreshInv
  <2>2. ASSUME NEW u \in Tasks, NEW m \in Models, node[u][m] = "ok"
        PROVE  Upto(since'[u], asOf[m])
    <3>1. u # t
      BY <1>1, <2>2 DEF DbtInv, TodayInv
    <3> QED
      BY <1>1, <2>2, <3>1 DEF DbtInv, FreshInv
  <2> QED
    BY <1>1, <2>1, <2>2 DEF FreshInv
<1>12. SkipInv'
  BY <1>1 DEF DbtInv, SkipInv
<1>13. GreenInv'
  BY <1>1 DEF DbtInv, GreenInv, Green
<1> QED
  BY <1>8, <1>9, <1>10, <1>11, <1>12, <1>13 DEF DbtInv

LEMMA NextKeeps == DbtInv /\ [Next]_vars => DbtInv'
<1> SUFFICES ASSUME DbtInv, [Next]_vars PROVE DbtInv'
  OBVIOUS
<1>1. ASSUME NEW t \in Tasks, Launch(t) PROVE DbtInv'
  BY <1>1, LaunchKeeps
<1>2. ASSUME NEW t \in Tasks, TaskLost(t) PROVE DbtInv'
  BY <1>2, StopKeeps DEF TaskLost
<1>3. ASSUME NEW t \in Tasks, Killed(t) PROVE DbtInv'
  BY <1>3, StopKeeps DEF Killed, Exit
<1>4. ASSUME NEW t \in Tasks, Notify(t) PROVE DbtInv'
  <2>1. UNCHANGED <<clock, pc, packages, node, read, asOf, exit, reason>>
    BY <1>4 DEF Notify
  <2>2. TypeOK'
    BY <1>4, <2>1 DEF Notify, DbtInv, TypeOK, clock
  <2>3. TodayInv' /\ OverlapInv'
    BY <2>1 DEF DbtInv, TodayInv, OverlapInv, Working, Alive, clock
  <2>4. FreshInv' /\ SkipInv' /\ GreenInv'
    BY <2>1 DEF DbtInv, FreshInv, SkipInv, GreenInv, Green, clock
  <2> QED
    BY <2>2, <2>3, <2>4 DEF DbtInv
<1>5. ASSUME NEW t \in Tasks, Script(t) PROVE DbtInv'
  BY <1>5, ScriptKeeps
<1>6. ASSUME NEW t \in Tasks, NEW m \in Models, Builds(t, m) PROVE DbtInv'
  BY <1>6, BuildsKeep
<1>7. CASE Midnight
  <2>1. today \in Nat /\ today' = today + 1 /\ today' \in Days
    BY <1>7 DEF Midnight, DbtInv, TypeOK, Days
  <2>2. TypeOK'
    BY <1>7, <2>1 DEF Midnight, DbtInv, TypeOK
  <2>3. TodayInv'
    BY <1>7 DEF Midnight, DbtInv, TodayInv, Working, Alive
  <2>4. OverlapInv'
    <3>1. now[1] \in Nat
      BY MomentsOrdered DEF DbtInv, TypeOK
    <3>2. now'[1] <= today'
      BY <1>7, <2>1, <3>1 DEF Midnight, DbtInv, OverlapInv
    <3>3. \A u \in Tasks : ~Working(u)'
      BY <1>7 DEF Midnight, Working, Alive
    <3> QED
      BY <1>7, <3>2, <3>3 DEF Midnight, DbtInv, OverlapInv
  <2>5. FreshInv' /\ SkipInv' /\ GreenInv'
    BY <1>7 DEF Midnight, DbtInv, FreshInv, SkipInv, GreenInv, Green
  <2> QED
    BY <2>2, <2>3, <2>4, <2>5 DEF DbtInv
<1>8. CASE UNCHANGED vars
  <2>1. TypeOK' /\ TodayInv' /\ OverlapInv'
    BY <1>8 DEF vars, clock, DbtInv, TypeOK, TodayInv, OverlapInv, Working, Alive
  <2>2. FreshInv' /\ SkipInv' /\ GreenInv'
    BY <1>8 DEF vars, clock, DbtInv, FreshInv, SkipInv, GreenInv, Green
  <2> QED
    BY <2>1, <2>2 DEF DbtInv
<1> QED
  BY <1>1, <1>2, <1>3, <1>4, <1>5, <1>6, <1>7, <1>8 DEF Next

LEMMA DbtInvariant == Spec => []DbtInv
BY InitInv, NextKeeps, PTL DEF Spec

-----------------------------------------------------------------------------
(* The types of the run's state. *)
THEOREM RunTypeCorrect == Spec => []TypeOK
<1>1. DbtInv => TypeOK
  BY DEF DbtInv
<1> QED
  BY <1>1, DbtInvariant, PTL

(* Exit code 0 means that every table is of that day and as recent as the  *)
(* launch that began the overlap the task is part of, its own if there was *)
(* none, however tasks, threads, deaths and late queries interleave.       *)
THEOREM GreenCanBeTrusted == Spec => []GreenMeansFresh
<1>1. DbtInv => GreenMeansFresh
  <2> SUFFICES ASSUME DbtInv, NEW t \in Tasks, Green(t), NEW m \in Models
               PROVE  asOf[m][1] >= t[1] /\ Upto(since[t], asOf[m])
    BY DEF GreenMeansFresh, Fresh
  <2>1. node[t][m] = "ok"
    BY DEF DbtInv, GreenInv
  <2>2. Upto(since[t], asOf[m])
    BY <2>1 DEF DbtInv, FreshInv
  <2>3. since[t][1] = t[1]
    BY <2>1 DEF DbtInv, TodayInv, OverlapInv
  <2>4. since[t] \in Moments /\ asOf[m] \in Moments
    BY DEF DbtInv, TypeOK, Tables
  <2>5. since[t][1] <= asOf[m][1] /\ since[t][1] \in Nat /\ asOf[m][1] \in Nat
    BY <2>2, <2>4, MomentsOrdered
  <2> QED
    BY <2>2, <2>3, <2>5
<1> QED
  BY <1>1, DbtInvariant, PTL

-----------------------------------------------------------------------------
(* A task whose dbt run has ended by itself, successfully or not. *)
Judged(t) ==
    /\ packages[t]
    /\ pc[t] = "test" \/ (reason[t] = "exited" /\ exit[t] \in {0, 1})

(* Its models have all ended or were skipped. *)
SettledInv ==
    /\ \A t \in Tasks : packages[t] => pc[t] \notin {"idle", "start"}
    /\ \A t \in Tasks : reason[t] # "none" => pc[t] = "stopped"
    /\ \A t \in Tasks : Judged(t) => Settled(t)

LEMMA StopSettled ==
    ASSUME TypeOK, SettledInv, NEW t \in Tasks, NEW why \in {"exited", "other"},
           NEW code \in {0, 1, 2, 137}, Stop(t, why, code),
           why = "exited" /\ code \in {0, 1} /\ packages[t] => Settled(t)
    PROVE  SettledInv'
<1>1. /\ pc'[t] = "stopped" /\ reason'[t] = why /\ exit'[t] = code
      /\ \A u \in Tasks : u # t =>
            pc'[u] = pc[u] /\ reason'[u] = reason[u] /\ exit'[u] = exit[u]
  BY DEF TypeOK, Stop
<1>2. packages' = packages /\ node' = node
  BY DEF Stop
<1>3. ASSUME NEW u \in Tasks, Judged(u)' PROVE Settled(u)'
  BY <1>1, <1>2, <1>3 DEF SettledInv, Judged, Settled
<1> QED
  BY <1>1, <1>2, <1>3 DEF SettledInv

(* The script goes on, and dbt test is reached with all models settled.    *)
LEMMA MovesSettled ==
    ASSUME TypeOK, SettledInv, NEW t \in Tasks, Alive(t) \/ pc[t] = "idle",
           NEW at \in {"start", "deps", "seed", "dbt", "run", "test"},
           pc' = [pc EXCEPT ![t] = at],
           at = "start" => pc[t] = "idle",
           at = "test" => Settled(t),
           \A u \in Tasks : u # t => packages'[u] = packages[u],
           packages'[t] => packages[t] \/ pc[t] = "deps",
           pc[t] = "deps" => at = "seed",
           UNCHANGED <<node, exit, reason>>
    PROVE  SettledInv'
<1>1. pc'[t] = at /\ \A u \in Tasks : u # t => pc'[u] = pc[u]
  BY DEF TypeOK
<1>2. reason[t] = "none"
  BY DEF SettledInv, Alive
<1>3. ASSUME NEW u \in Tasks, Judged(u)' PROVE Settled(u)'
  BY <1>1, <1>2, <1>3 DEF SettledInv, Judged, Settled
<1>4. \A u \in Tasks : packages'[u] => pc'[u] \notin {"idle", "start"}
  BY <1>1 DEF SettledInv
<1> QED
  BY <1>1, <1>2, <1>3, <1>4 DEF SettledInv

LEMMA ScriptSettled ==
    ASSUME TypeOK, SettledInv, NEW t \in Tasks, Script(t)
    PROVE  SettledInv'
<1> USE DEF Exit
<1>1. CASE SecretUnset(t)
  BY <1>1, StopSettled DEF SecretUnset, SettledInv
<1>2. CASE SecretSet(t)
  BY <1>2, MovesSettled DEF SecretSet, Alive
<1>3. CASE Deps(t)
  <2>1. packages' = packages \/ packages' = [packages EXCEPT ![t] = TRUE]
    BY <1>3, Zenon DEF Deps
  <2>2. \A u \in Tasks : u # t => packages'[u] = packages[u]
    BY <2>1 DEF TypeOK
  <2> QED
    BY <1>3, <2>2, MovesSettled DEF Deps, Alive
<1>4. CASE Seed(t)
  BY <1>4, MovesSettled DEF Seed, Alive
<1>5. CASE RunDbt(t)
  BY <1>5, MovesSettled DEF RunDbt, Alive
<1>6. CASE RunAborts(t)
  BY <1>6, StopSettled DEF RunAborts
<1>7. CASE RunFails(t)
  BY <1>7, StopSettled DEF RunFails
<1>8. CASE RunSucceeds(t)
  BY <1>8, MovesSettled DEF RunSucceeds, Alive
<1>9. CASE Test(t)
  <2>1. packages[t] => Settled(t)
    BY <1>9 DEF Test, SettledInv, Judged
  <2> QED
    BY <1>9, <2>1, StopSettled DEF Test
<1> QED
  BY <1>1, <1>2, <1>3, <1>4, <1>5, <1>6, <1>7, <1>8, <1>9 DEF Script

(* What has settled stays so: only what waits or runs changes. *)
LEMMA BuildsSettled ==
    ASSUME TypeOK, SettledInv, NEW t \in Tasks, NEW m \in Models, Builds(t, m)
    PROVE  SettledInv'
<1>1. node[t][m] \in {"waiting", "running"}
  BY DEF Builds, StartModel, ModelOk, ModelError, Skip
<1>2. PICK says \in Status : node' = [node EXCEPT ![t][m] = says]
  BY DEF Builds, StartModel, ModelOk, ModelError, Skip, Status
<1>3. UNCHANGED <<pc, packages, exit, reason>>
  BY DEF Builds, StartModel, ModelOk, ModelError, Skip
<1>4. ASSUME NEW u \in Tasks, Judged(u)' PROVE Settled(u)'
  <2>1. Settled(u)
    BY <1>3, <1>4 DEF SettledInv, Judged
  <2>2. u # t
    BY <1>1, <2>1 DEF Settled
  <2>3. node'[u] = node[u]
    BY <1>2, <2>2 DEF TypeOK
  <2> QED
    BY <2>1, <2>3 DEF Settled
<1> QED
  BY <1>3, <1>4 DEF SettledInv

LEMMA SettledInvariant == Spec => []SettledInv
<1>1. Init => SettledInv
  BY DEF Init, SettledInv, Judged
<1>2. TypeOK /\ SettledInv /\ [Next]_vars => SettledInv'
  <2> SUFFICES ASSUME TypeOK, SettledInv, [Next]_vars PROVE SettledInv'
    OBVIOUS
  <2>1. ASSUME NEW t \in Tasks, Launch(t) PROVE SettledInv'
    BY <2>1, MovesSettled DEF Launch
  <2>2. ASSUME NEW t \in Tasks, TaskLost(t) \/ Killed(t) PROVE SettledInv'
    BY <2>2, StopSettled DEF TaskLost, Killed, Exit
  <2>3. ASSUME NEW t \in Tasks, Script(t) PROVE SettledInv'
    BY <2>3, ScriptSettled
  <2>4. ASSUME NEW t \in Tasks, NEW m \in Models, Builds(t, m) PROVE SettledInv'
    BY <2>4, BuildsSettled
  <2>5. CASE Midnight \/ (\E t \in Tasks : Notify(t)) \/ UNCHANGED vars
    <3>1. UNCHANGED <<pc, packages, node, exit, reason>>
      BY <2>5 DEF Midnight, Notify, vars
    <3> QED
      BY <3>1 DEF SettledInv, Judged, Settled
  <2> QED
    BY <2>1, <2>2, <2>3, <2>4, <2>5 DEF Next
<1>3. DbtInv => TypeOK
  BY DEF DbtInv
<1> QED
  BY <1>1, <1>2, <1>3, DbtInvariant, PTL DEF Spec

(* A model that was skipped has one above it that failed, however far up.  *)
LEMMA SkippedForAnError ==
    ASSUME SkipInv, NEW t \in Tasks, NEW m \in Models, node[t][m] = "skipped"
    PROVE  \E n \in Ancestors(m) : node[t][n] = "error"
<1>1. PICK n \in Upstream(m) : node[t][n] \in {"error", "skipped"}
  BY DEF SkipInv
<1>2. n \in Models /\ n \in Ancestors(m)
  BY DEF Upstream, Ancestors
<1>3. CASE node[t][n] = "skipped"
  <2>1. PICK k \in Upstream(n) : node[t][k] \in {"error", "skipped"}
    BY <1>2, <1>3 DEF SkipInv
  <2>2. k \in Ancestors(m)
    BY <2>1 DEF Ancestors
  <2>3. k = "dim_tickers"
    BY <1>1, <2>1, Graph DEF Models
  <2>4. node[t][k] # "skipped"
    BY <2>3, Graph DEF SkipInv, Models
  <2> QED
    BY <2>1, <2>2, <2>4
<1> QED
  BY <1>1, <1>2, <1>3

(* A model that was not built by a run that ended has failed, or has one   *)
(* above it that did: one failure holds back nothing else.                 *)
THEOREM FailureStaysBelow == Spec => []OthersAreBuilt
<1>1. SettledInv /\ SkipInv => OthersAreBuilt
  <2> SUFFICES ASSUME SettledInv, SkipInv, NEW t \in Tasks, Judged(t), NEW m \in Models,
                      node[t][m] # "ok"
               PROVE  \E n \in Ancestors(m) \cup {m} : node[t][n] = "error"
    BY DEF OthersAreBuilt, Judged
  <2>1. node[t][m] \in {"error", "skipped"}
    BY DEF SettledInv, Settled
  <2> QED
    BY <2>1, SkippedForAnError
<1>2. DbtInv => SkipInv
  BY DEF DbtInv
<1> QED
  BY <1>1, <1>2, DbtInvariant, SettledInvariant, PTL

=============================================================================

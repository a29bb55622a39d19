------------------------------- MODULE DbtRun -------------------------------
(***************************************************************************)
(* The daily task: src/scripts/run_dbt.sh in its container, the graph of   *)
(* models dbt runs in it with some threads, the exit code, and the rule    *)
(* that turns it into a mail.  Of a table it is kept how recent the raw    *)
(* data are that it reflects; what its rows say is the subject of the      *)
(* modules of the single models.  Tasks may overlap, and nothing locks the *)
(* tables: a query that read early may replace what a later one wrote.     *)
(***************************************************************************)
EXTENDS Naturals, FiniteSets

CONSTANTS
    MaxDay,     \* bound: days the model lives through
    MaxTasks,   \* bound: tasks the rule starts on one day (at least once)
    Threads     \* the threads dbt runs models in

ASSUME RunAssumption ==
    MaxDay \in Nat \ {0} /\ MaxTasks \in Nat /\ Threads \in Nat \ {0}

Days == 1..MaxDay
Tasks == Days \X (1..MaxTasks)

(* How recent data are: as the launch of a task, the one launched last when *)
(* they were read; or of an earlier day.  Never: the table does not exist.  *)
Never == <<0, 0>>
Earlier == <<0, 1>>
Moments == {Never, Earlier} \cup Tasks
Upto(p, q) == p[1] < q[1] \/ (p[1] = q[1] /\ p[2] <= q[2])
Oldest(S) == CHOOSE p \in S : \A q \in S : Upto(p, q)

(* What `dbt run --exclude tag:static` selects, and what each one refs. *)
Models == {"dim_tickers", "fact_ticker_prices", "fact_daily_tickers_quantity",
           "fact_daily_account_value"}
Refs(m) ==
    CASE m = "dim_tickers" -> {"name_mapping"}
      [] m = "fact_ticker_prices" -> {"dim_tickers", "dim_date"}
      [] m = "fact_daily_tickers_quantity" -> {"dim_tickers", "dim_date"}
      [] m = "fact_daily_account_value" ->
             {"dim_tickers", "dim_date", "fact_ticker_prices"}

(* The models a model is built after. *)
Upstream(m) == Refs(m) \cap Models
Ancestors(m) == Upstream(m) \cup UNION {Upstream(n) : n \in Upstream(m)}

VARIABLES
    today,
    now,        \* the task launched last
    since,      \* task -> the launch that began the overlap it is part of
    pc,         \* task -> the command of the script it is at
    packages,   \* task -> dbt deps has installed dbt_utils
    node,       \* task -> model -> what dbt says of it
    read,       \* task -> model -> what its query read; Never: a ref is missing
    asOf,       \* table -> the moment of the raw data it reflects
    exit,       \* task -> exit code of the container, once it has exited
    reason,     \* task -> why it stopped
    mailed      \* tasks whose failure was mailed

clock == <<today, now, since>>
vars == <<clock, pc, packages, node, read, asOf, exit, reason, mailed>>

Tables == Models \cup {"name_mapping", "dim_date"}
Status == {"waiting", "running", "ok", "error", "skipped"}

TypeOK ==
    /\ today \in Days
    /\ now \in Moments
    /\ since \in [Tasks -> Moments]
    /\ pc \in [Tasks -> {"idle", "start", "deps", "seed", "dbt", "run", "test",
                         "stopped"}]
    /\ packages \in [Tasks -> BOOLEAN]
    /\ node \in [Tasks -> [Models -> Status]]
    /\ read \in [Tasks -> [Models -> Moments]]
    /\ asOf \in [Tables -> Moments]
    /\ exit \in [Tasks -> {0, 1, 2, 137}]
    /\ reason \in [Tasks -> {"none", "exited", "other"}]
    /\ mailed \subseteq Tasks

(* The dataset as earlier runs may have left it: new, or with tables that  *)
(* were built of others.  dim_date, which no run builds, is there or not.  *)
Init ==
    /\ today = 1
    /\ now = Earlier
    /\ since = [t \in Tasks |-> Never]
    /\ pc = [t \in Tasks |-> "idle"]
    /\ packages = [t \in Tasks |-> FALSE]
    /\ node = [t \in Tasks |-> [m \in Models |-> "waiting"]]
    /\ read = [t \in Tasks |-> [m \in Models |-> Never]]
    /\ asOf \in [Tables -> {Never, Earlier}]
    /\ \A m \in Models : asOf[m] = Earlier => \A r \in Refs(m) : asOf[r] = Earlier
    /\ exit = [t \in Tasks |-> 0]
    /\ reason = [t \in Tasks |-> "none"]
    /\ mailed = {}

-----------------------------------------------------------------------------
(* The rule, the container, the mail. *)

Alive(t) == pc[t] \notin {"idle", "stopped"}

(* A task works until it has stopped and BigQuery has ended its queries. *)
Working(t) == Alive(t) \/ \E m \in Models : node[t][m] = "running"

(* The rule starts a task at 2 AM, and perhaps one more. *)
Launch(t) ==
    /\ pc[t] = "idle"
    /\ t = <<today, IF now[1] = today THEN now[2] + 1 ELSE 1>>
    /\ now' = t
    /\ since' = [since EXCEPT ![t] =
          IF \E u \in Tasks : Working(u) THEN since[now] ELSE t]
    /\ pc' = [pc EXCEPT ![t] = "start"]
    /\ UNCHANGED <<today, packages, node, read, asOf, exit, reason, mailed>>

Stop(t, why, code) ==
    /\ pc' = [pc EXCEPT ![t] = "stopped"]
    /\ reason' = [reason EXCEPT ![t] = why]
    /\ exit' = [exit EXCEPT ![t] = code]
    /\ UNCHANGED <<clock, packages, node, read, asOf, mailed>>

Exit(t, code) == Stop(t, "exited", code)

(* No image, no secret, no network; or the platform stops the task. *)
TaskLost(t) == Alive(t) /\ Stop(t, "other", 0)

Killed_Signal(t) == Alive(t) /\ pc[t] # "start" /\ Exit(t, 9)

(* The process is killed, for want of memory say.  What BigQuery is running *)
(* for it goes on.                                                          *)
Killed(t) == Alive(t) /\ pc[t] # "start" /\ Exit(t, 137)

(* The event pattern: the container exited, with anything but 0. *)
Matches_One(t) == reason[t] = "exited" /\ exit[t] = 1

Matches(t) == reason[t] = "exited" /\ exit[t] # 0

Notify(t) ==
    /\ pc[t] = "stopped" /\ Matches(t) /\ t \notin mailed
    /\ mailed' = mailed \cup {t}
    /\ UNCHANGED <<clock, pc, packages, node, read, asOf, exit, reason>>

(* A run is over before midnight: three models in a row at two times       *)
(* job_execution_timeout_seconds each, from 2 AM.                          *)
Midnight ==
    /\ today < MaxDay
    /\ \A t \in Tasks : ~Working(t)
    /\ today' = today + 1
    /\ UNCHANGED <<now, since, pc, packages, node, read, asOf, exit, reason, mailed>>

-----------------------------------------------------------------------------
(* The script. *)

SecretUnset(t) == pc[t] = "start" /\ Exit(t, 1)

SecretSet(t) ==
    /\ pc[t] = "start"
    /\ pc' = [pc EXCEPT ![t] = "deps"]
    /\ UNCHANGED <<clock, packages, node, read, asOf, exit, reason, mailed>>

(* Nobody looks at the exit code of dbt deps ... *)
Deps(t) ==
    /\ pc[t] = "deps"
    /\ pc' = [pc EXCEPT ![t] = "seed"]
    /\ packages' \in {packages, [packages EXCEPT ![t] = TRUE]}
    /\ UNCHANGED <<clock, node, read, asOf, exit, reason, mailed>>

(* ... nor of dbt seed, which fails without the packages. *)
Seed(t) ==
    /\ pc[t] = "seed"
    /\ pc' = [pc EXCEPT ![t] = "dbt"]
    /\ \/ UNCHANGED asOf
       \/ packages[t] /\ asOf' = [asOf EXCEPT !["name_mapping"] = now]
    /\ UNCHANGED <<clock, packages, node, read, exit, reason, mailed>>

(* dbt run starts; it needs the packages to compile. *)
RunDbt(t) ==
    /\ pc[t] = "dbt" /\ packages[t]
    /\ pc' = [pc EXCEPT ![t] = "run"]
    /\ UNCHANGED <<clock, packages, node, read, asOf, exit, reason, mailed>>

(* It ends before the first model, with the code of an unhandled error.    *)
RunAborts(t) == pc[t] = "dbt" /\ Exit(t, 2)

Settled_FailFast(t) ==
    \/ \A m \in Models : node[t][m] \in {"ok", "error", "skipped"}
    \/ \E m \in Models : node[t][m] = "error"

Settled(t) == \A m \in Models : node[t][m] \in {"ok", "error", "skipped"}

(* dbt run exits with 1 if a model failed; the script then does the same. *)
RunFails(t) ==
    /\ pc[t] = "run" /\ Settled(t)
    /\ \E m \in Models : node[t][m] = "error"
    /\ Exit(t, 1)

RunSucceeds(t) ==
    /\ pc[t] = "run" /\ Settled(t)
    /\ \A m \in Models : node[t][m] # "error"
    /\ pc' = [pc EXCEPT ![t] = "test"]
    /\ UNCHANGED <<clock, packages, node, read, asOf, exit, reason, mailed>>

(* dbt test, for which the project declares no test. *)
Test(t) == pc[t] = "test" /\ \E code \in {0, 2} : Exit(t, code)

-----------------------------------------------------------------------------
(* dbt's scheduler. *)

Ready_Always(t, m) == TRUE

(* A model waits for all models it refs. *)
Ready(t, m) == \A n \in Upstream(m) : node[t][n] = "ok"

(* A query reflects the raw tables, and what the models it refs reflect of *)
(* them.  The seed holds names and no raw data: how old it is leaves a      *)
(* table as recent as it is.                                               *)
Reads(m) ==
    IF \E r \in Refs(m) : asOf[r] = Never
    THEN Never
    ELSE Oldest({now} \cup {asOf[n] : n \in Upstream(m)})

StartModel(t, m) ==
    /\ pc[t] = "run" /\ node[t][m] = "waiting" /\ Ready(t, m)
    /\ Cardinality({n \in Models : node[t][n] = "running"}) < Threads
    /\ node' = [node EXCEPT ![t][m] = "running"]
    /\ read' = [read EXCEPT ![t][m] = Reads(m)]
    /\ UNCHANGED <<clock, pc, packages, asOf, exit, reason, mailed>>

(* The table is replaced or merged into, even when the task is gone, and   *)
(* though another task may have put newer data there: rows a merge leaves  *)
(* alone count as replaced.                                                *)
ModelOk(t, m) ==
    /\ node[t][m] = "running" /\ read[t][m] # Never
    /\ node' = [node EXCEPT ![t][m] = "ok"]
    /\ asOf' = [asOf EXCEPT ![m] = read[t][m]]
    /\ UNCHANGED <<clock, pc, packages, read, exit, reason, mailed>>

(* A ref is missing, the query fails, or the connection to it. *)
ModelError(t, m) ==
    /\ node[t][m] = "running"
    /\ node' = [node EXCEPT ![t][m] = "error"]
    /\ UNCHANGED <<clock, pc, packages, read, asOf, exit, reason, mailed>>

Skip(t, m) ==
    /\ pc[t] = "run" /\ node[t][m] = "waiting"
    /\ \E n \in Upstream(m) : node[t][n] \in {"error", "skipped"}
    /\ node' = [node EXCEPT ![t][m] = "skipped"]
    /\ UNCHANGED <<clock, pc, packages, read, asOf, exit, reason, mailed>>

-----------------------------------------------------------------------------
Script(t) ==
    \/ SecretUnset(t) \/ SecretSet(t) \/ Deps(t) \/ Seed(t)
    \/ RunDbt(t) \/ RunAborts(t) \/ RunFails(t) \/ RunSucceeds(t) \/ Test(t)

Builds(t, m) ==
    StartModel(t, m) \/ ModelOk(t, m) \/ ModelError(t, m) \/ Skip(t, m)

Next ==
    \/ \E t \in Tasks :
        \/ Launch(t) \/ TaskLost(t) \/ Killed(t) \/ Notify(t)
        \/ Script(t)
        \/ \E m \in Models : Builds(t, m)
    \/ Midnight

Spec == Init /\ [][Next]_vars

(* The script goes on, dbt's threads go on, a query ends one way or the    *)
(* other (job_execution_timeout_seconds), and the state change of a task   *)
(* reaches the rule.  Nothing makes a task start, or be lost.              *)
Fairness ==
    \A t \in Tasks :
        /\ WF_vars(Script(t)) /\ WF_vars(Notify(t))
        /\ \A m \in Models : WF_vars(Builds(t, m))

LiveSpec == Spec /\ Fairness

-----------------------------------------------------------------------------
Fresh(t) ==
    \A m \in Models : asOf[m][1] >= t[1] /\ Upto(since[t], asOf[m])
Green(t) == reason[t] = "exited" /\ exit[t] = 0

(* Exit code 0 can be trusted: every table reflects the raw data of that   *)
(* day, through all models it is built from, and from after the launch of  *)
(* that task; if tasks overlapped, of the first of them: there an older    *)
(* read may replace a newer one, but nothing from before the overlap stays *)
(* or comes back.  This holds however the threads and the tasks interleave, *)
(* whatever was there before, and though the exit codes of dbt deps and    *)
(* dbt seed are ignored.                                                   *)
GreenMeansFresh == \A t \in Tasks : Green(t) => Fresh(t)

(* One model that fails holds back what is built from it and nothing else. *)
OthersAreBuilt ==
    \A t \in Tasks : reason[t] = "exited" /\ exit[t] \in {0, 1} /\ packages[t] =>
        \A m \in Models :
            \/ node[t][m] = "ok"
            \/ \E n \in Ancestors(m) \cup {m} : node[t][n] = "error"

(* A task that started ends, and then its tables are fresh, or a mail was  *)
(* sent, or it did not end by itself: the one case the rule does not match. *)
FreshOrMailed ==
    \A t \in Tasks : pc[t] = "start" ~>
        /\ pc[t] = "stopped"
        /\ Fresh(t) \/ t \in mailed \/ reason[t] = "other"

(* "Notification for containers with exit code of 1 (error)." *)
MailMeansExitOne == \A t \in mailed : exit[t] = 1

=============================================================================

---------------------------- MODULE SettledFact ----------------------------
(***************************************************************************)
(* What a daily fact of the dbt project promises to its readers.  The rows *)
(* of a day are open as long as no run has seen the whole day; a run that  *)
(* succeeds settles the days of its window, and maybe others that are      *)
(* over.  Of a settled day the row updated last says what the raw tables   *)
(* say, there is none if they say nothing, and this never changes again,   *)
(* whatever is ingested, fails, or is built later.  A day may turn out to  *)
(* be divided, before it is settled: no run sees it whole for good, and it *)
(* never settles.                                                          *)
(***************************************************************************)
EXTENDS Integers

CONSTANTS
    Days,
    Window,     \* how many days back a run sees whole days
    Values      \* what may be said of a day

VARIABLES
    today,      \* the current day
    runs,       \* the days whose run built the fact
    divided,    \* the days that do not settle
    truth,      \* what the raw tables say of each day so far: a value or none
    settled,    \* the days some run saw whole
    report      \* the values the rows updated last have, of each day

vars == <<today, runs, divided, truth, settled, report>>

Init ==
    /\ today = 0 /\ runs = {} /\ divided = {} /\ settled = {}
    /\ truth = [d \in Days |-> {}]
    /\ report = [d \in Days |-> {}]

(* Something arrives, but never for a day that is settled. *)
Arrives ==
    /\ UNCHANGED <<today, runs, settled, report>>
    /\ truth' \in [Days -> SUBSET Values]
    /\ \A d \in settled : truth'[d] = truth[d]
    /\ divided \subseteq divided' /\ divided' \subseteq Days \ settled

DayPasses ==
    /\ today' = today + 1
    /\ UNCHANGED <<runs, divided, truth, settled, report>>

(* One run a day, which settles the window, but for divided days. *)
Run ==
    /\ today \notin runs /\ runs' = runs \cup {today}
    /\ settled \cup {d \in Days \ divided : d < today /\ today <= d + Window}
          \subseteq settled'
    /\ settled' \subseteq settled \cup {d \in Days \ divided : d < today}
    /\ report' \in [Days -> SUBSET Values]
    /\ \A d \in settled : report'[d] = report[d]
    /\ \A d \in settled' \ settled : report'[d] = truth[d]
    /\ UNCHANGED <<today, divided, truth>>

Next == DayPasses \/ Run \/ Arrives

Spec == Init /\ [][Next]_vars

=============================================================================

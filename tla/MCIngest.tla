------------------------------ MODULE MCIngest ------------------------------
(***************************************************************************)
(* Small instances of Ingest.  A table no schedule of the instance loads   *)
(* starts "ready", so that its initial state does not multiply the others. *)
(***************************************************************************)
EXTENDS Ingest

CONSTANTS e1, e2, good, bad

TwiceADay == [e \in Events |-> "2_times_a_day"]
HalfHourly == [e \in Events |-> "every_30_min"]
OneUnknown == [e \in Events |-> IF e = e1 THEN "every_30_min" ELSE "hourly"]

Loaded == UNION {{LoadsOf(Schedule[e])[n] : n \in DOMAIN LoadsOf(Schedule[e])} :
                    e \in Events}

MCInit == Init /\ \A t \in Tables \ Loaded : tbl[t] = "ready"
MCSpec == MCInit /\ [][Next]_vars
MCLiveSpec == MCSpec /\ Fairness

=============================================================================

---------------------------- MODULE InsertCalls ----------------------------
(***************************************************************************)
(* What insert_rows_json promises to the Lambda, whatever is resent, lost, *)
(* late or killed on the way: that it returns without an error means that  *)
(* the batch is in the table; and it is there once, where BigQuery         *)
(* remembers the insertIds for as long as it takes.  A call that did not   *)
(* return, or failed, says nothing: its batch may be stored even later.    *)
(***************************************************************************)
CONSTANT Calls

VARIABLES
    remembers,  \* BigQuery knows an insertId as long as its requests are served
    result,     \* call -> "open", "ok" or "failed"
    stored      \* call -> copies of its batch: "none", "once" or "more"

vars == <<remembers, result, stored>>

Init ==
    /\ remembers \in BOOLEAN
    /\ result = [c \in Calls |-> "open"]
    /\ stored = [c \in Calls |-> "none"]

Store(c) ==
    /\ remembers => stored[c] = "none"
    /\ stored' = [stored EXCEPT ![c] = IF @ = "none" THEN "once" ELSE "more"]
    /\ UNCHANGED <<remembers, result>>

Return(c) ==
    /\ result[c] = "open" /\ stored[c] # "none"
    /\ result' = [result EXCEPT ![c] = "ok"]
    /\ UNCHANGED <<remembers, stored>>

Fail(c) ==
    /\ result[c] = "open"
    /\ result' = [result EXCEPT ![c] = "failed"]
    /\ UNCHANGED <<remembers, stored>>

Next == \E c \in Calls : Store(c) \/ Return(c) \/ Fail(c)

Spec == Init /\ [][Next]_vars

=============================================================================

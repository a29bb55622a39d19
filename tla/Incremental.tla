---------------------------- MODULE Incremental ----------------------------
(***************************************************************************)
(* How dbt updates an incremental model on BigQuery that is configured     *)
(* with a unique_key.  A table is a set of rows that differ in some        *)
(* column.                                                                 *)
(***************************************************************************)
CONSTANT Key(_)     \* what the unique_key is of a row

(* The MERGE statement of an incremental run fails when two rows of the    *)
(* query's result match the same row of the table.                         *)
Ambiguous(table, result) ==
    \E t \in table, r, s \in result : r # s /\ Key(r) = Key(t) /\ Key(s) = Key(t)

(* Matched rows are updated, the other results inserted.                   *)
Merge(table, result) ==
    {t \in table : \A r \in result : Key(r) # Key(t)} \cup result

=============================================================================

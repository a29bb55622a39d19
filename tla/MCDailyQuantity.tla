-------------------------- MODULE MCDailyQuantity --------------------------
(* Small instances of DailyQuantity. *)
EXTENDS DailyQuantity, TLC

CONSTANTS s1, s2, s3

ThreeSnapshots == {s1, s2, s3} \X {"account_snaphsot"}
Symmetric == Permutations({s1, s2, s3})

=============================================================================

--------------------------- MODULE MCAccountValue ---------------------------
(* Small instances of AccountValue. *)
EXTENDS AccountValue, TLC

CONSTANTS a1, a2, n1, n2, c1, c2, s1, s2

(* What each batch may say.  A balance of 1 unit is worth 0.00. *)
MCSays ==
    (c1 :> {a1 :> 2 @@ a2 :> 1}) @@ (c2 :> {a1 :> 5 @@ a2 :> 1})
    @@ (s1 :> {a1 :> 0 @@ a2 :> 0, a1 :> 0 @@ a2 :> 1})
    @@ (s2 :> {a1 :> 3 @@ a2 :> 4})

MCBatchIds ==
    ({c1, c2} \X {"ticker_price_change"}) \cup ({s1, s2} \X {"account_snaphsot"})
MCPayloads == UNION {MCSays[i] : i \in {c1, c2, s1, s2}}
MCBatch == {b \in Batch : b.payload \in MCSays[b.id[1]]}

(* The second batch of each table comes before the run of its day.  The    *)
(* first may come after it, or late: of the prices, those of one asset or  *)
(* of both may then have been fetched on the next day.                     *)
MCIngested ==
    \E b \in MCBatch :
        \/ b.id[1] \in {c2, s2} /\ b.day = today /\ ~ran /\ Ingested(b, {})
        \/ b.id[1] \in {c1, s1} /\ Ingested(b, {})
        \/ b.id[1] = c1 /\ \E slipped \in {{a2}, Assets} : Ingested(b, slipped)

(* An image that is deployed before the prices are built is another first  *)
(* mapping, and one deployed after a run is read by the next one.          *)
MCNext ==
    \/ MCIngested
    \/ builtP /\ ~ran /\ Deploy(a1, n2)
    \/ NextDay
    \/ Run

MCInit == Init /\ \A a \in Assets : image[a] = n1

MCSpec == MCInit /\ [][MCNext]_vars

=============================================================================

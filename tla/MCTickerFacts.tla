--------------------------- MODULE MCTickerFacts ---------------------------
(* Small instances of TickerFacts. *)
EXTENDS TickerFacts, TLC

CONSTANTS p1, p2, c1, c2, n1, n2, o1, o2

TwoPrices == {<<p1, "ticker_prices">>, <<p2, "ticker_prices">>}
TwoChanges == {<<c1, "ticker_price_change">>, <<c2, "ticker_price_change">>}
FourBatches == TwoPrices \cup TwoChanges
ThreeBatches == TwoChanges \cup {<<p1, "ticker_prices">>}

(* The second batch of prices is stamped later in its day than the first.  *)
(* Nothing depends on the time of day of a price change.                   *)
FourClocks == [b \in FourBatches |-> IF b[1] = p2 THEN 2 ELSE 1]
ThreeClocks == [b \in ThreeBatches |-> 1]

Symmetric == Permutations({c1, c2}) \cup Permutations({n1, n2})
             \cup Permutations({o1, o2})

=============================================================================

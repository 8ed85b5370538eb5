--------------------------- MODULE MCPriceOracle ---------------------------
(***************************************************************************)
(* Instances of PriceOracle for TLC: one asset, few prices.                *)
(***************************************************************************)
EXTENDS PriceOracle

CONSTANT usdc

OneAsset == {usdc}

(* With one decimal more than the answers: 4, 5 and 6. *)
LowToHigh == {40, 50, 60}
FourOrSix == {4, 6}

(* A breaker at 35%: 4 may become 5 and 6 may become 4, but not 4 a 6. *)
WithBreaker(age) ==
  [price_precision |-> 0, price_staleness_threshold |-> age,
   max_price_change_bps |-> 3500]
TwoConfigs == {WithBreaker(1), WithBreaker(2)}

AnyAge == {None, 2}
OffOrOne == {0, 1}

=============================================================================

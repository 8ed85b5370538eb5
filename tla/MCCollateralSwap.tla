-------------------------- MODULE MCCollateralSwap --------------------------
(***************************************************************************)
(* An instance of CollateralSwap for TLC: bob lends usdc, alice borrows it *)
(* against xlm and may swap either for the other.  Prices stand still, so  *)
(* that it is interest that makes her unhealthy.                           *)
(***************************************************************************)
EXTENDS CollateralSwap, TLC

CONSTANTS usdc, xlm,     \* assets
          alice, bob,    \* users
          treasury

TwoReserves == {usdc, xlm}

TwoUsers == {alice, bob}

(* 80% threshold and 50% LTV, of ten basis points; only usdc is borrowed. *)
LendUsdc ==
  [r \in Reserves |->
     {[active |-> TRUE, paused |-> FALSE, frozen |-> FALSE,
       borrowing_enabled |-> r = usdc, ltv |-> 5,
       liquidation_threshold |-> 8, liquidation_bonus |-> 1,
       reserve_factor |-> 2, decimals_pow |-> 1, supply_cap |-> 2,
       borrow_cap |-> 1, debt_ceiling |-> 0, min_remaining_debt |-> 0]}]

(* Base rate 0, 50% at the kink of 75% utilization, 100% beyond it. *)
KinkedRates ==
  [r \in Reserves |-> [base_variable_borrow_rate |-> 0,
                       variable_rate_slope1 |-> 2,
                       variable_rate_slope2 |-> 2,
                       optimal_utilization_rate |-> 3]]

NoLists == [r \in Reserves |-> {}]

(* bob may not deal in xlm. *)
LenderBarred == [r \in Reserves |-> IF r = xlm THEN {bob} ELSE {}]

(* bob has two units of usdc, alice of xlm. *)
LenderAndBorrower ==
  [r \in Reserves |-> [u \in Users |->
     IF (u = bob) = (r = usdc) THEN 2 ELSE 0]]

XlmAtTwo == [r \in Reserves |-> IF r = xlm THEN {2} ELSE {1}]

NeverPaused == {}

UpTo2 == 1 .. 2

JustTwo == {2}

(* Swaps may bring two more usdc than there are, and no more xlm. *)
FourAndTwo == [r \in Reserves |-> IF r = usdc THEN 4 ELSE 2]

=============================================================================

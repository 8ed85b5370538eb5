--------------------------- MODULE MCLiquidation ---------------------------
(***************************************************************************)
(* Instances of Liquidation for TLC: bob provides the asset that alice     *)
(* borrows against the others, and prices move.                            *)
(***************************************************************************)
EXTENDS Liquidation, TLC

CONSTANTS usdc, xlm,         \* assets
          alice, bob,        \* users
          treasury

TwoReserves == {usdc, xlm}

TwoUsers == {alice, bob}

BaseConfiguration ==
  [active |-> TRUE, paused |-> FALSE, frozen |-> FALSE,
   borrowing_enabled |-> TRUE, ltv |-> 4, liquidation_threshold |-> 6,
   liquidation_bonus |-> 5, reserve_factor |-> 2, decimals_pow |-> 1,
   supply_cap |-> 0, borrow_cap |-> 0, debt_ceiling |-> 0,
   min_remaining_debt |-> 0]

(* Only usdc may be borrowed, up to three units and two at least. *)
BorrowUpTo3 ==
  [r \in Reserves |->
     {[BaseConfiguration EXCEPT
        !.borrowing_enabled = r = usdc,
        !.min_remaining_debt = IF r = usdc THEN 2 ELSE 0,
        !.supply_cap = 4, !.borrow_cap = 3]}]

(* Base rate 0, 50% at the kink of 75% utilization, 100% beyond it. *)
KinkedRates ==
  [r \in Reserves |-> [base_variable_borrow_rate |-> 0,
                       variable_rate_slope1 |-> 2,
                       variable_rate_slope2 |-> 2,
                       optimal_utilization_rate |-> 3]]

NoLists == [r \in Reserves |-> {}]

NoAccounts == {}

(* alice lends and borrows; bob only liquidates, and both reserves bar him, *)
(* which liquidation does not ask about.                                   *)
LiquidatorBarred == [r \in Reserves |-> {bob}]

Purse233 ==
  [r \in Reserves |-> [u \in Users |->
     CASE r = usdc /\ u = alice -> 2
       [] r = xlm /\ u = alice  -> 3
       [] r = usdc /\ u = bob   -> 3
       [] OTHER -> 0]]

XlmMoves == [r \in Reserves |-> IF r = xlm THEN {1, 2} ELSE {1}]

NeverPaused == {}

UpTo3 == 1 .. 3

=============================================================================

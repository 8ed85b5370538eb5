--------------------------- MODULE MCLendingPool ---------------------------
(***************************************************************************)
(* Instances of LendingPool for TLC.  The cfg files choose among the       *)
(* definitions below.                                                      *)
(***************************************************************************)
EXTENDS LendingPool, TLC

CONSTANTS usdc, xlm,     \* assets
          alice, bob,    \* users
          treasury

OneReserve == {usdc}

TwoUsers == {alice, bob}

(* 80% liquidation threshold and 50% LTV, of ten basis points in all. *)
BaseConfiguration ==
  [active |-> TRUE, paused |-> FALSE, frozen |-> FALSE,
   borrowing_enabled |-> TRUE, ltv |-> 5, liquidation_threshold |-> 8,
   liquidation_bonus |-> 1, reserve_factor |-> 2, decimals_pow |-> 1,
   supply_cap |-> 0, borrow_cap |-> 0, debt_ceiling |-> 0,
   min_remaining_debt |-> 0]

CappedAt(supply, debt) ==
  [BaseConfiguration EXCEPT !.supply_cap = supply, !.borrow_cap = debt]

CappedFrozenOrNot ==
  [r \in Reserves |->
     {[CappedAt(4, 3) EXCEPT !.frozen = f, !.min_remaining_debt = 1] :
        f \in BOOLEAN}]

(* Base rate 0, 100% at the kink of 75% utilization, 200% beyond it. *)
KinkedRates ==
  [r \in Reserves |-> [base_variable_borrow_rate |-> 0,
                       variable_rate_slope1 |-> 4,
                       variable_rate_slope2 |-> 4,
                       optimal_utilization_rate |-> 3]]

NoLists == [r \in Reserves |-> {}]

Each(n) == [r \in Reserves |-> [u \in Users |-> n]]

PriceOrNone == [r \in Reserves |-> {0, 1}]

PausedOrNot == BOOLEAN

TwoEach == Each(2)

UpTo3 == 1 .. 3

Symmetry == Permutations(Users)

=============================================================================

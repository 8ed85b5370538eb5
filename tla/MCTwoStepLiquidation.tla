------------------------ MODULE MCTwoStepLiquidation ------------------------
(***************************************************************************)
(* Instances of TwoStepLiquidation for TLC: bob lends usdc to alice, who   *)
(* has xlm, and liquidates her when the price of xlm falls.                *)
(***************************************************************************)
EXTENDS TwoStepLiquidation

CONSTANTS usdc, xlm, alice, bob, treasury

TwoReserves == {usdc, xlm}

TwoUsers == {alice, bob}

OnlyBob == {bob}

NoAccounts == {}

NoLists == [r \in Reserves |-> {}]

(* bob may deal in neither asset, except by liquidating. *)
Barred ==
  [r \in Reserves |-> {bob}]

(* Both reserves are frozen once the loan is out. *)
Frozen ==
  [r \in Reserves |->
     {[active |-> TRUE, paused |-> FALSE, frozen |-> TRUE,
       borrowing_enabled |-> r = usdc, ltv |-> 4, liquidation_threshold |-> 6,
       liquidation_bonus |-> 5, reserve_factor |-> 2, decimals_pow |-> 1,
       supply_cap |-> 3, borrow_cap |-> 3, debt_ceiling |-> 0,
       min_remaining_debt |-> 0]}]

KinkedRates ==
  [r \in Reserves |-> [base_variable_borrow_rate |-> 0,
                       variable_rate_slope1 |-> 2,
                       variable_rate_slope2 |-> 2,
                       optimal_utilization_rate |-> 3]]

ThreeEach ==
  [r \in Reserves |-> [u \in Users |->
     IF (r = usdc /\ u = bob) \/ (r = xlm /\ u = alice) THEN 3 ELSE 0]]

(* xlm falls from 8 to 5 or 4 and wavers. *)
XlmWavers == [r \in Reserves |-> IF r = xlm THEN {5, 4} ELSE {3}]

(* bob has supplied 6 usdc, alice 3 xlm, and she has borrowed 3 usdc. *)
Opened ==
  LET mine(r) == IF r = usdc THEN bob ELSE alice
      units(r) == IF r = usdc THEN 6 ELSE 3
      data(r) == [configuration |-> CHOOSE c \in Configurations[r] : TRUE,
                  liquidity_index |-> RAY, variable_borrow_index |-> RAY,
                  current_liquidity_rate |-> 0,
                  current_variable_borrow_rate |-> 0,
                  last_update_timestamp |-> 0]
  IN
  /\ now = 0 /\ paused = FALSE
  /\ price = [r \in Reserves |-> IF r = xlm THEN 8 ELSE 3]
  /\ reserve = [r \in Reserves |->
       with_new_rates(r, data(r), units(r), IF r = usdc THEN 3 ELSE 0)]
  /\ cash = [r \in Reserves |-> 3]
  /\ wallet = [r \in Reserves |-> [a \in Accounts |->
                 IF r = usdc /\ a = alice THEN 3 ELSE
                 IF r = usdc /\ a = bob THEN 1 ELSE 0]]
  /\ scaled_balance = [r \in Reserves |-> [a \in Accounts |->
                         IF a = mine(r) THEN units(r) ELSE 0]]
  /\ total_supply_scaled = [r \in Reserves |-> units(r)]
  /\ scaled_debt = [r \in Reserves |-> [a \in Accounts |->
                      IF r = usdc /\ a = alice THEN 3 ELSE 0]]
  /\ total_debt_scaled = [r \in Reserves |-> IF r = usdc THEN 3 ELSE 0]
  /\ collateral = [a \in Accounts |->
                     {r \in Reserves : scaled_balance[r][a] > 0}]
  /\ borrowing = [a \in Accounts |->
                    {r \in Reserves : scaled_debt[r][a] > 0}]
  /\ deficit = [r \in Reserves |-> 0]
  /\ authorization = [l \in Users |-> [u \in Users |-> NoAuthorization]]
  /\ liquidation_nonce = 0
  /\ router_cash = [r \in Reserves |-> 0]
  /\ executed = {}

OpenedSpec == Opened /\ [][TwoStepNext]_<<vars, two_step_vars>>

NeverPaused == {}

OneOrThree == {1, 3}

JustFour == {4}

JustAny == {0}

=============================================================================

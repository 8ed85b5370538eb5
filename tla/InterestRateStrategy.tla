------------------------ MODULE InterestRateStrategy ------------------------
(***************************************************************************)
(* The interest-rate-strategy contract as the router calls it: the kinked  *)
(* borrow rate of a reserve from its utilization, and the liquidity rate   *)
(* derived from it through the reserve factor.                             *)
(***************************************************************************)
EXTENDS RayMath

(***************************************************************************)
(* InterestRateParams of the contract, and what its setters accept.        *)
(***************************************************************************)
InterestRateParams ==
  [base_variable_borrow_rate : Nat,
   variable_rate_slope1      : Nat,
   variable_rate_slope2      : Nat,
   optimal_utilization_rate  : Nat]

validate_interest_rate_params(p) ==
  /\ p.optimal_utilization_rate > 0
  /\ p.optimal_utilization_rate < RAY
  /\ p.base_variable_borrow_rate <= 10 * RAY
  /\ p.variable_rate_slope1 \in 1 .. 10 * RAY
  /\ p.variable_rate_slope2 \in p.variable_rate_slope1 .. 10 * RAY
  /\ p.base_variable_borrow_rate + p.variable_rate_slope1
       + p.variable_rate_slope2 <= 20 * RAY

utilization_rate(available, debt) ==
  IF available + debt = 0 THEN 0 ELSE ray_div(debt, available + debt)

slope1_component(p, utilization) ==
  IF p.optimal_utilization_rate = 0
  THEN 0
  ELSE ray_mul(p.variable_rate_slope1,
               ray_div(utilization, p.optimal_utilization_rate))

slope2_component(p, utilization) ==
  IF p.optimal_utilization_rate >= RAY
  THEN 0
  ELSE ray_mul(p.variable_rate_slope2,
               ray_div(utilization - p.optimal_utilization_rate,
                       RAY - p.optimal_utilization_rate))

(* Mutation: beyond the kink the first slope is forgotten. *)
rate_dropping_slope1(p, utilization) ==
  p.base_variable_borrow_rate
    + (IF utilization > p.optimal_utilization_rate
       THEN slope2_component(p, utilization)
       ELSE slope1_component(p, utilization))

variable_borrow_rate(p, utilization) ==
  IF utilization > p.optimal_utilization_rate
  THEN p.base_variable_borrow_rate + p.variable_rate_slope1
         + slope2_component(p, utilization)
  ELSE p.base_variable_borrow_rate + slope1_component(p, utilization)

(* Mutation: the whole supply earns what the debt pays. *)
rate_on_all_supply(borrow_rate, utilization, reserve_factor) ==
  ray_mul(borrow_rate,
          RAY - (reserve_factor * RAY) \div BASIS_POINTS_MULTIPLIER)

liquidity_rate(borrow_rate, utilization, reserve_factor) ==
  ray_mul(ray_mul(borrow_rate, utilization),
          RAY - (reserve_factor * RAY) \div BASIS_POINTS_MULTIPLIER)

(***************************************************************************)
(* calculate_interest_rates: the pair the router stores in ReserveData.    *)
(***************************************************************************)
calculate_interest_rates(p, available, debt, reserve_factor) ==
  LET utilization == utilization_rate(available, debt)
      borrow_rate == variable_borrow_rate(p, utilization)
  IN  [current_liquidity_rate       |->
         liquidity_rate(borrow_rate, utilization, reserve_factor),
       current_variable_borrow_rate |-> borrow_rate]

=============================================================================

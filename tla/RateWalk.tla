------------------------------ MODULE RateWalk ------------------------------
(***************************************************************************)
(* What the interest rate strategy promises, over whole walks: a pool      *)
(* whose borrowers draw the available liquidity unit by unit, and interest *)
(* that runs for a growing number of seconds.  The names begin with walk   *)
(* so that modules with a state machine of their own can extend this one.  *)
(***************************************************************************)
EXTENDS InterestRateStrategy

CONSTANTS WalkParameters,   \* the rate parameters a pool may start with
          WalkFactors,      \* the reserve factors it may have
          WalkPool,         \* bound: available liquidity plus debt
          WalkElapsed       \* bound: seconds since the last update

ASSUME WalkAssumption ==
  /\ \A p \in WalkParameters :
       p \in InterestRateParams /\ validate_interest_rate_params(p)
  /\ WalkFactors \subseteq 0 .. BASIS_POINTS_MULTIPLIER
  /\ WalkPool \in Nat /\ WalkElapsed \in Nat

VARIABLES walk_params, walk_factor, walk_available, walk_debt, walk_elapsed

walk_vars ==
  <<walk_params, walk_factor, walk_available, walk_debt, walk_elapsed>>

walk_rates ==
  calculate_interest_rates(walk_params, walk_available, walk_debt, walk_factor)

WalkInit ==
  /\ walk_params \in WalkParameters
  /\ walk_factor \in WalkFactors
  /\ walk_available \in 1 .. WalkPool
  /\ walk_debt = 0
  /\ walk_elapsed = 0

DrawOne ==
  /\ walk_available > 0
  /\ walk_available' = walk_available - 1
  /\ walk_debt' = walk_debt + 1
  /\ UNCHANGED <<walk_params, walk_factor, walk_elapsed>>

Second ==
  /\ walk_elapsed < WalkElapsed
  /\ walk_elapsed' = walk_elapsed + 1
  /\ UNCHANGED <<walk_params, walk_factor, walk_available, walk_debt>>

WalkNext == DrawOne \/ Second

WalkSpec == WalkInit /\ [][WalkNext]_walk_vars

-----------------------------------------------------------------------------
(* Suppliers are never promised more than borrowers pay: per unit of time  *)
(* the liquidity rate on the whole supply is covered by the borrow rate on *)
(* the debt, up to the half units of the three roundings (strategy,        *)
(* calculate_interest_rates).                                              *)
RatesBalance ==
  LET supply == walk_available + walk_debt
  IN  2 * walk_rates.current_liquidity_rate * supply * RAY
        <= 2 * walk_rates.current_variable_borrow_rate * walk_debt * RAY
             + supply * (2 * RAY + walk_rates.current_variable_borrow_rate)

(* Borrowing never lowers the borrow rate: the two branches of the kink    *)
(* meet and both rise with utilization.                                    *)
BorrowRateRises ==
  [][walk_debt' > walk_debt =>
       walk_rates.current_variable_borrow_rate'
         >= walk_rates.current_variable_borrow_rate]_walk_vars

power(base, n) ==
  LET p[k \in Nat] == IF k = 0 THEN 1 ELSE base * p[k - 1] IN p[n]

(* The most that rounding the rate's square and cube half up can add.      *)
rounding_units(rate) ==
  (walk_elapsed * (walk_elapsed - 1)) \div 2
    + ((walk_elapsed * (walk_elapsed - 1) * (walk_elapsed - 2)) \div 6)
        * (1 + rate \div (RAY * SECONDS_PER_YEAR))

(* The Taylor factor lies between simple interest and interest compounded  *)
(* every second, rounding aside (shared/src/utils.rs,                      *)
(* calculate_compound_interest).                                           *)
CompoundBetweenSimpleAndExact ==
  LET rate   == walk_rates.current_variable_borrow_rate
      factor == calculate_compound_interest(rate, 0, walk_elapsed)
      year   == RAY * SECONDS_PER_YEAR
  IN  /\ factor >= calculate_linear_interest(rate, 0, walk_elapsed)
      /\ (factor - rounding_units(rate)) * power(year, walk_elapsed)
           <= RAY * power(year + rate, walk_elapsed)

=============================================================================

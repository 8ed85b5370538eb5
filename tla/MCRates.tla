------------------------------ MODULE MCRates ------------------------------
(***************************************************************************)
(* The corners of the accepted rate parameters, for TLC.                   *)
(***************************************************************************)
EXTENDS RateWalk

ParameterChoices ==
  {p \in [base_variable_borrow_rate : {0, RAY \div 4},
          variable_rate_slope1      : {1, RAY \div 4},
          variable_rate_slope2      : {RAY \div 4, 3 * RAY},
          optimal_utilization_rate  : {1, RAY \div 2, RAY - 1}] :
     validate_interest_rate_params(p)}

FactorChoices == {0, BASIS_POINTS_MULTIPLIER \div 5, BASIS_POINTS_MULTIPLIER}

=============================================================================

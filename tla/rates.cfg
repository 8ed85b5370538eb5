\* Interest rates and factors over bounded inputs.
SPECIFICATION WalkSpec
CONSTANTS
  RAY = 8
  BASIS_POINTS_MULTIPLIER = 10
  SECONDS_PER_YEAR = 2
  WalkParameters <- ParameterChoices
  WalkFactors <- FactorChoices
  WalkPool = 12
  WalkElapsed = 4
INVARIANTS
  RatesBalance
  CompoundBetweenSimpleAndExact
PROPERTIES
  BorrowRateRises
CHECK_DEADLOCK FALSE

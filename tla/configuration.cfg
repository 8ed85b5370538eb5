\* Every sequence of setters on one reserve, one user and the premiums.
SPECIFICATION ConfigurationSpec
CONSTANTS
  Layout <- NarrowLayout
  WORD_SIZE = 28
  RAY = 2
  SECONDS_PER_YEAR = 1
  BASIS_POINTS_MULTIPLIER = 10
  MIN_LIQUIDATION_BUFFER_BPS = 2
  MAX_SAFE_DECIMALS = 2
  DEFAULT_PREMIUM = 6
  DEFAULT_PREMIUM_MAX = 6
  MAX_RESERVES = 2
  Switches <- SomeFlags
  Ids <- FirstIds
  Points <- SomePoints
  Premiums <- SomePremiums
  Numbers <- SomeNumbers
  Decimals = {1, 3}
INVARIANTS
  WordsSayWhatWasAsked
PROPERTIES
  PremiumsGrowWithinMax

\* One asset, overrides of up to two seconds, a cache of one, any feed.
SPECIFICATION Spec
CONSTANTS
  usdc = usdc
  Assets <- OneAsset
  RawPrices <- LowToHigh
  Overrides <- FourOrSix
  Decimals = 1
  Configs <- TwoConfigs
  MaxAges <- AnyAge
  Ttls <- OffOrOne
  MAX_MANUAL_OVERRIDE_DURATION = 2
  MaxTime = 2
  None = None
INVARIANTS
  SingleAndBatchAgree
  AnswersAreRecent
  CachedPricesHaveABaseline
PROPERTIES
  BaselineMovesWithinLimit

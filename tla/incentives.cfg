\* One reward on one token, two holders, every manager's call.
SPECIFICATION Spec
CONSTANTS
  usdc_atoken = usdc_atoken
  aqua = aqua
  alice = alice
  bob = bob
  supply_side = supply_side
  RAY = 12
  BASIS_POINTS_MULTIPLIER = 10
  SECONDS_PER_YEAR = 1
  Assets <- OneAsset
  RewardTokens <- OneToken
  Users <- TwoUsers
  RewardTypes <- SupplyOnly
  TypeOf <- SuppliesOnly
  Answering = {}
  Emissions <- TwoRates
  Ends <- JustOne
  Amounts <- OneUnit
  Claims <- AllOrSix
  Fundings <- Six
  MaxSupply = 2
  MaxFunds = 6
  MaxTime = 2
  MAX_ASSETS = 1
  MAX_REWARD_TOKENS_PER_ASSET = 1
  None = None
SYMMETRY Symmetry
INVARIANTS
  RewardsWithinEmission
  ActiveRewardsAreListed
PROPERTIES
  KeptBalancesKeepEarnings

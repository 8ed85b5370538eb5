\* Two assets, three lifetime listings, one user, lists with or without her.
SPECIFICATION Spec
CONSTANTS
  usdc = usdc
  xlm = xlm
  alice = alice
  handler = handler
  rewards = rewards
  Liquidation = Liquidation
  SwapHandlers = SwapHandlers
  None = None
  Assets <- TwoAssets
  Users <- OneUser
  Handlers <- OneHandler
  MAX_RESERVES = 3
  MAX_USER_RESERVES = 2
  Incentives <- OneContract
  ListChoices <- ListsButOnXlm
INVARIANTS
  EntriesAgree
  UnlistedAssetsCarryNothing
  DebtsAreFlagged
  TokensReportToIncentives
PROPERTIES
  ListingGrantsNoPosition
  OnlyItsListsOpenAReserve

\* The flash-loaned amount does not come back to the pool of the debt asset.
SPECIFICATION OpenedSpec
CONSTANTS
  usdc = usdc
  xlm = xlm
  alice = alice
  bob = bob
  treasury = treasury
  RAY = 4
  BASIS_POINTS_MULTIPLIER = 10
  SECONDS_PER_YEAR = 1
  WAD = 10
  ORACLE_TO_WAD = 1
  MIN_FIRST_DEPOSIT = 2
  MAX_USER_RESERVES = 2
  HF_THRESHOLD = 10
  U128_MAX = 1000000
  Amounts <- OneOrThree
  MaxTime = 1
  Reserves <- TwoReserves
  Users <- TwoUsers
  Treasury = treasury
  Configurations <- Frozen
  RateParams <- KinkedRates
  Whitelist <- NoLists
  Blacklist <- Barred
  Prices <- XlmWavers
  PauseValues <- NeverPaused
  InitialWallet <- ThreeEach
  MIN_CLOSE_FACTOR_THRESHOLD = 3
  MIN_LEFTOVER_BASE = 2
  PARTIAL_LIQUIDATION_HF = 8
  FLASH_LOAN_PREMIUM = 1
  LiquidationWhitelist <- OnlyBob
  LiquidationBlacklist <- NoAccounts
  MaxDeficit = 3
  LIQUIDATION_PRICE_TOLERANCE = 3
  MIN_SWAP_OUTPUT = 9
  FLASH_LIQUIDATION_PREMIUM = 0
  AUTHORIZATION_TTL = 0
  FlashLoanEnabled <- TwoReserves
  SwapOutputs <- JustFour
  MinSwapOuts <- JustAny
  MaxNonce = 2
  NoAuthorization = NoAuthorization
INVARIANTS
  ConservationOfValue

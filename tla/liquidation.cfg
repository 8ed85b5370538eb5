\* A borrower with two collaterals and a liquidator, one interest period.
SPECIFICATION LiquidationSpec
CONSTANTS
  usdc = usdc
  xlm = xlm
  alice = alice
  bob = bob
  treasury = treasury
  RAY = 4
  BASIS_POINTS_MULTIPLIER = 10
  SECONDS_PER_YEAR = 1
  WAD = 10
  ORACLE_TO_WAD = 1
  MIN_FIRST_DEPOSIT = 2
  MAX_USER_RESERVES = 2
  HF_THRESHOLD = 10
  U128_MAX = 1000000
  Amounts <- UpTo3
  MaxTime = 1
  Reserves <- TwoReserves
  Users <- TwoUsers
  Treasury = treasury
  Configurations <- BorrowUpTo3
  RateParams <- KinkedRates
  Whitelist <- NoLists
  Blacklist <- LiquidatorBarred
  Prices <- XlmMoves
  PauseValues <- NeverPaused
  InitialWallet <- Purse233
  MIN_CLOSE_FACTOR_THRESHOLD = 3
  MIN_LEFTOVER_BASE = 2
  PARTIAL_LIQUIDATION_HF = 5
  FLASH_LOAN_PREMIUM = 1
  LiquidationWhitelist <- NoAccounts
  LiquidationBlacklist <- NoAccounts
  MaxDeficit = 2
INVARIANTS
  TotalsAreSums
PROPERTIES
  RoundingFavoursPool
  SeizureWithinBonus
  CloseFactorBinds

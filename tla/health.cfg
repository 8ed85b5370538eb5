\* Two reserves with interest and swaps: what may be done to an account.
SPECIFICATION SwapSpec
CONSTANTS
  usdc = usdc
  xlm = xlm
  alice = alice
  bob = bob
  treasury = treasury
  RAY = 4
  BASIS_POINTS_MULTIPLIER = 10
  SECONDS_PER_YEAR = 1
  WAD = 10
  ORACLE_TO_WAD = 1
  MIN_FIRST_DEPOSIT = 2
  MAX_USER_RESERVES = 2
  HF_THRESHOLD = 10
  U128_MAX = 1000000
  Amounts <- UpTo2
  MaxTime = 1
  Reserves <- TwoReserves
  Users <- TwoUsers
  Treasury = treasury
  Configurations <- LendUsdc
  RateParams <- KinkedRates
  Whitelist <- NoLists
  Blacklist <- LenderBarred
  Prices <- XlmAtTwo
  PauseValues <- NeverPaused
  InitialWallet <- LenderAndBorrower
  SWAP_PREMIUM = 3
  SwapPayments <- JustTwo
  MaxFunds <- FourAndTwo
PROPERTIES
  HealthKept
  CollateralBitKeptWithBalance

\* One reserve, two users, one interest period; freezing, pausing, no price.
SPECIFICATION Spec
CONSTANTS
  usdc = usdc
  xlm = xlm
  alice = alice
  bob = bob
  treasury = treasury
  RAY = 4
  BASIS_POINTS_MULTIPLIER = 10
  SECONDS_PER_YEAR = 1
  WAD = 10
  ORACLE_TO_WAD = 1
  MIN_FIRST_DEPOSIT = 2
  MAX_USER_RESERVES = 2
  HF_THRESHOLD = 10
  U128_MAX = 1000000
  Amounts <- UpTo3
  MaxTime = 1
  Reserves <- OneReserve
  Users <- TwoUsers
  Treasury = treasury
  Configurations <- CappedFrozenOrNot
  RateParams <- KinkedRates
  Whitelist <- NoLists
  Blacklist <- NoLists
  Prices <- PriceOrNone
  PauseValues <- PausedOrNot
  InitialWallet <- TwoEach
SYMMETRY Symmetry
INVARIANTS
  TypeOK
  DebtIsFlagged
  TotalsAreSums
  FullRepayClearsDebt
  ExitsStayOpen
PROPERTIES
  RoundingFavoursPool
  CapsBindAtAccruedIndex

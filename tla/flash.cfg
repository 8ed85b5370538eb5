\* Loans of one or two entries, duplicates included, any callback.
SPECIFICATION Spec
CONSTANTS
  usdc = usdc
  xlm = xlm
  alice = alice
  atoken = atoken
  treasury = treasury
  Assets <- TwoAssets
  Users <- OneUser
  AToken = atoken
  Treasury = treasury
  Amounts <- OneUnit
  BASIS_POINTS_MULTIPLIER = 10
  Premiums <- NoneOrTenth
  Requests <- OneOrTwoEntries
  InitialCash <- StartingBalances
  NoLoan = NoLoan
INVARIANTS
  TrackedIsBacked
PROPERTIES
  PoolIsRepaid

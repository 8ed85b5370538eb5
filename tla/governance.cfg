\* Two accounts, four roles, one reserve.
SPECIFICATION Spec
CONSTANTS
  alice = alice
  bob = bob
  None = None
  Accounts <- TwoAccounts
INVARIANTS
  ConfiguratorKeysAgree
PROPERTIES
  RolesAreHandedOver
  OutsidersOnlyAccept

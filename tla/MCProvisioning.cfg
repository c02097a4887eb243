CONSTANTS
  tab1 = tab1
  tab2 = tab2
  alice = alice
  bob = bob
  carol = carol
  Tabs = {tab1, tab2}
  Users = {alice}
  Foreign = {carol}
  None = None
  MaxServices = 3
  MayFail = TRUE
SPECIFICATION FairProvSpec
INVARIANTS ProvTypeOK MineOnly
PROPERTIES ProvisioningEnds

CONSTANTS
  tab1 = tab1
  tab2 = tab2
  alice = alice
  bob = bob
  carol = carol
  Tabs = {tab1}
  Users = {alice}
  Foreign = {carol}
  None = None
  MaxServices = 2
  MayFail = TRUE
SPECIFICATION ProvSpec
INVARIANTS NoSecondComputer

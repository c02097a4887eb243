CONSTANTS
  Accounts = {alice}
  Keys = {rootKey}
  RootKey = rootKey
  NoPath = NoPath
  Root <- MCRoot
  Paths <- OneDirectory
  Names <- MCNames
  Kinds = {"file", "directory"}
  Contents = {NoContent, f, g}
  NoContent = NoContent
  Icons = {}
  Faces = {}
  OffScreen = {}
  Abouts = {about}
  Looks = {look}
  DefaultLook = look
  Sites = {NoSite}
  NoSite = NoSite
  None = None
  c1 = c1
  c2 = c2
  f = f
  g = g
  Clients = {c1, c2}
  Owner = alice
  ParentOf <- MCParentOf
  NameOf <- MCNameOf
  NoName = ""
  Made <- MadeA
  Requests <- RacingRequests
  IndexCapacity = 1
  MaxIssued = 3
  MayGiveUp = TRUE
SPECIFICATION FairFsSpec
CHECK_DEADLOCK FALSE

INVARIANTS FsTypeOK ContentStored EntriesAreRecorded DirectoriesIndexed
PROPERTIES AppliedWhole NewNodesHaveADirectory OperationsEnd

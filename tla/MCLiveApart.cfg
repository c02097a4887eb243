CONSTANTS
  Accounts = {alice}
  Keys = {rootKey}
  RootKey = rootKey
  NoPath = NoPath
  Root <- MCRoot
  Paths <- TwoDirectories
  Names <- MCNames
  Kinds = {"file", "directory"}
  Contents = {NoContent, f, g}
  NoContent = NoContent
  Icons = {}
  Faces = {}
  OffScreen = {}
  Abouts = {about}
  Looks = {look}
  DefaultLook = look
  Sites = {NoSite}
  NoSite = NoSite
  None = None
  c1 = c1
  c2 = c2
  f = f
  g = g
  Clients = {c1, c2}
  Owner = alice
  ParentOf <- MCParentOf
  NameOf <- MCNameOf
  NoName = ""
  Made <- MadeBoth
  Requests <- OrderlyRequests
  IndexCapacity = 5
  MaxIssued = 4
  MayGiveUp = TRUE
SPECIFICATION ApartSpec
CHECK_DEADLOCK FALSE

INVARIANTS IndexesListChildren
PROPERTIES ImplementsFileTree

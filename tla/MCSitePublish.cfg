CONSTANTS
  Accounts = {alice}
  Keys = {rootKey}
  RootKey = rootKey
  NoPath = NoPath
  Root <- MCRoot
  Paths <- MCPaths
  Names <- MCNames
  Kinds = {"file", "directory"}
  Contents = {NoContent, f, g}
  NoContent = NoContent
  Icons = {}
  Faces = {}
  OffScreen = {}
  Abouts = {about}
  Looks = {look}
  DefaultLook = look
  Sites = {NoSite}
  NoSite = NoSite
  None = None
  f = f
  g = g
  Callers = {tab, guest}
  Bytes = {f, g}
  Torn = Torn
  NoFile = NoFile
  Uploads = {u1, u2}
  MaxCrashes = 1
  Owner = alice
  Tab = tab
  Guest = guest
  SiteDirectory <- MCRoot
  IndexPage <- MCIndex
  ParentOf <- MCParentOf
  NameOf <- MCNameOf
  Ancestors <- MCAncestors
  SizeOf <- MCSizeOf
  FirstPage = f
  MaxFiles = 2
  MaxEdits = 2
  MaxPublishes = 2
  MaxVisits = 1
SPECIFICATION SiteSpec
CHECK_DEADLOCK FALSE
INVARIANTS PublishedIsServed SnapshotIsRecent QuietSnapshotIsExact
PROPERTIES OnlyCrashesLitter

CONSTANTS
  Accounts = {alice, bob}
  Keys = {rootKey, otherKey}
  RootKey = rootKey
  p = p
  f = f
  g = g
  NoPath = NoPath
  Root = Root
  Paths <- MCPaths
  Names = {}
  Kinds = {"file", "directory"}
  Contents = {NoContent}
  NoContent = NoContent
  Icons = {i}
  Faces = {f, g}
  OffScreen = {g}
  Abouts = {about}
  Looks = {look}
  DefaultLook = look
  Sites = {NoSite, site}
  NoSite = NoSite
  None = None
SPECIFICATION Spec
SYMMETRY Symmetry

INVARIANTS TypeOK OpenedAtOnce NodesSayTheirPath
PROPERTIES ImplementsOwned RemovalKeepsTheRecord

CONSTANTS
  home = home
  HOME = HOME
  desk = desk
  bad = bad
  Accounts = {alice, bob}
  Names = {home, bad}
  ValidNames = {home}
  Services = {s1, s2}
  None = None
  Calls = {c1, c2}
  Foreign = {bob}
  MaxIssued = 3
  tab1 = tab1
  tab2 = tab2
  k1 = k1
  k2 = k2
  PreviewTabs = {tab1, tab2}
  Strands = {k1, k2}
  TypedNames = {home, HOME, desk, bad}
  Canonical <- Normalized
  MockServices = {s1, s2}
  Missing = Missing
  Refused = Refused
  NotANumber = NotANumber
  Texts <- TypedTexts
  ServiceIds <- TypedIds
  Noise <- TypedNoise
  MaxSpoilt = 2
  Arguments <- Typings
  Overlong = {"long"}
  MaxParts = 4
  Home <- HomePath
  MaxCommands = 4
  Invalid = Invalid
  MaxCalls = 3
SPECIFICATION NamesSpec
SYMMETRY Symmetry
INVARIANTS RecordsAreTheSigners AppliedNamesResolve ErrorsStayTrue ClaimsAreRead CwdIsWhereCommandsLed
PROPERTIES ImplementsRegistry NamesAreKept

CONSTANTS
  Lengths <- SomeLengths
  Refused = Refused
  MaxReads = 3
SPECIFICATION InfoSpec
INVARIANTS InfoIsRead

CONSTANTS
  w1 = w1
  w2 = w2
  c1 = c1
  c2 = c2
  alice = alice
  bob = bob
  s1 = s1
  s2 = s2
  None = None
  Nil = Nil
  Windows = {w1, w2}
  MaxRuns = 2
  MaxTick = 3
  MaxReloads = 1
  Callers = {c1, c2}
  Principals = {alice, bob}
  AccountOf <- Accounts
  Sessions = {s1, s2}
  Called <- Fields
  Word = 3
  MaxPlayed = 4
  Batches = {2, 3}
  MaxWorks = 3
  MaxCheckpoints = 3
  MaxMessages = 2
  MaxStrays = 2
  Reported = {"running", "closed"}
  Bytes = 4
  HashBytes = 1
  MaxTics = 2
  MaxDamage = 2
  Refused = Refused
  Replays <- SomeReplays
  Frames <- SomeFrames
SPECIFICATION MCSpec
SYMMETRY TwoWindows
CHECK_DEADLOCK FALSE
INVARIANTS
  InputsArePlayed ResultsAreFinal KeyIsResumable
  BestIsHighest ExecutionsCount CheckpointsSettle BytesAreTheMessage

SPECIFICATION EitherSpec
CONSTANTS
  N = 3
  Size = 2
  NoSummary = NoSummary
  c1 = c1
  c2 = c2
  Clients <- MCClients
  Blocks = 5
  Room = 2
INVARIANTS
  BytesTrue
  StatsFit
  OneBuffer
  NothingLost
PROPERTY
  ConnectedEnds

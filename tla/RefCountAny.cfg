SPECIFICATION FairSpec
CONSTANTS
  Block = {b1, b2}
  Null = Null
  Wild = Wild
  LocalNames <- OneName
  Global = {}
  Param = "p"
  Field = {f}
  Bytes = 16
  Slots = 1
  Features = {"load", "deep", "param", "self", "tail"}
  MaxScopes = 5
  MaxAllocs = 2
  MaxCount = 2
INVARIANTS
  CascadeOnce
  StatsExact
PROPERTIES
  ZeroFreed

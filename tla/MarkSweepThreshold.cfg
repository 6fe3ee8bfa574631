SPECIFICATION FairSpec
CONSTANTS
  Block = {b1, b2}
  Null = Null
  Global = {}
  Registered = {}
  Sizes = {0, 12}
  MaxWords = 2
  StackSize = 1
  Slack = 1
  MAX_ROOTS = 1
  Thresholds = {64}
  MaxAllocs = 2
INVARIANTS
  NoDangling
  StatsExact
PROPERTIES
  CollectionEnds

SPECIFICATION Spec
CONSTANTS
  Block = {b1, b2, b3}
  Null = Null
  Global = {g1}
  Registered = {g1}
  Sizes = {8}
  MaxWords = 1
  StackSize = 1
  Slack = 0
  MAX_ROOTS = 1
  Thresholds = {}
  MaxAllocs = 3
SYMMETRY BlockSymmetry
INVARIANTS
  TypeOK
  ListIntact
  Tricolour
  MarkExact
  CollectionComplete
  NoDangling
  StatsExact
  MarkDepth
  ShutdownFreesAll
PROPERTIES
  ImplementsHeap

SPECIFICATION Spec
CONSTANTS
  Block = {b1, b2}
  Null = Null
  Global = {}
  Registered = {}
  Sizes = {8}
  MaxWords = 1
  StackSize = 1
  Slack = 1
  MAX_ROOTS = 1
  Thresholds = {64}
  MaxAllocs = 2
SYMMETRY BlockSymmetry
INVARIANTS
  LocalsAlive

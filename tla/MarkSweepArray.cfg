SPECIFICATION Spec
CONSTANTS
  Block = {b1, b2}
  Null = Null
  Global = {g1, g2}
  Registered = {g1}
  Sizes = {8}
  MaxWords = 1
  StackSize = 1
  Slack = 0
  MAX_ROOTS = 1
  Thresholds = {}
  MaxAllocs = 2
SYMMETRY BlockSymmetry
INVARIANTS
  GlobalsAlive

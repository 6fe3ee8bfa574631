SPECIFICATION Spec
CONSTANTS
  Block = {b1, b2}
  Null = Null
  Wild = Wild
  LocalNames <- OneName
  Global = {"g"}
  Param = "p"
  Field = {f}
  Bytes = 16
  Slots = 1
  Features = {"early", "newfield", "overflow", "discard", "init"}
  MaxScopes = 5
  MaxAllocs = 2
  MaxCount = 2
SYMMETRY BlockSymmetry
INVARIANTS
  TypeOK
  NoUseAfterFree
  CountCovers
PROPERTIES
  ImplementsHeap

SPECIFICATION Spec
CONSTANTS
  Block = {b1, b2}
  Null = Null
  Wild = Wild
  LocalNames <- TwoNames
  Global = {"g"}
  Param = "p"
  Field = {f}
  Bytes = 16
  Slots = 2
  Features = {}
  MaxScopes = 5
  MaxAllocs = 2
  MaxCount = 2
SYMMETRY BlockSymmetry
INVARIANTS
  NoUseAfterFree
  NoDangling
  CountExact
  LeaksAreCycles

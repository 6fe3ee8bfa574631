SPECIFICATION Spec
CONSTANTS
  Block = {b1, b2}
  Null = Null
  Wild = Wild
  LocalNames <- OneName
  Global = {}
  Param = "p"
  Field = {f}
  Bytes = 16
  Slots = 3
  Features = {}
  MaxScopes = 5
  MaxAllocs = 2
  MaxCount = 9
SYMMETRY BlockSymmetry
INVARIANTS
  FieldsCounted

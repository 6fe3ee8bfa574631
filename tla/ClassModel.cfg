SPECIFICATION Spec
CONSTANTS
  NameLists <- Programs
  Method <- OneMethod
  Field <- OneField
  Features = {"self", "unchained", "bare", "noctor", "noargs", "array"}
INVARIANTS
  ReachesMeant
  VTableComplete
  RejectsExplained
  HangsOnCyclesOnly
PROPERTY
  PassesAgree

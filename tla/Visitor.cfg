SPECIFICATION Spec
CONSTANTS
  Name = {x}
  NoName = none
  MaxTokens = 6
INVARIANTS
  ScopesMirrorBlocks
  LookupAsInC
  DecrementsOwn
  EmittedOnce
  RootsAreGlobals
  TypesEmittedFirst

SPECIFICATION Spec
CONSTANTS
  Inputs <- UnitTestLists
  MaxArgs = 3
INVARIANT FirstMatchWins

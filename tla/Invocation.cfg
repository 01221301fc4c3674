SPECIFICATION InvocationSpec
CONSTANTS
  Handlings <- Both
  Calls <- AllCalls
  Returns <- AllReturns
  Word = 16
  Files <- UsedFiles
  NewArguments <- Arguments
  CompiledFiles <- Counted
  MaxArgs = 6
INVARIANTS
  InvocationTypeOK
  StubGetsItsArguments
  UnionsPickTheirMember
  StringsLiveAsLongAsNeeded
  NewInterfaceHasOneOwner
  BadCallsAreErrors
  BranchesFitTheSignatures
  ResultIsNotReleased
  FirstFittingConstructor
PROPERTY ImplementsDispatcher

SPECIFICATION Spec
CONSTANTS
  Handlings <- Both
  Calls <- OnlyPlainCalls
  Returns <- AllReturns
  Word = 16
INVARIANT ErrorsAreReported

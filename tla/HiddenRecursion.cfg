SPECIFICATION Spec
CONSTANTS
  A = A  B = B  C = C  long = long  alias = alias  union = union
  Undefined = Undefined
  Types <- HiddenTypes
  Objects <- TwoObjects
  Inputs <- HiddenInputs
INVARIANT NoRecursiveTypes

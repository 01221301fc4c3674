SPECIFICATION FairSpec
CONSTANTS
  A = A  B = B  C = C  long = long  alias = alias  union = union
  Undefined = Undefined
  Types <- SmallTypes
  Objects <- ThreeObjects
  Inputs <- SmallInputs
INVARIANTS
  AcceptedIsAcyclic
  RejectedIsRecursive
  ReportIsACycle
  IInv
PROPERTIES
  ImplementsVerdict
  Terminates

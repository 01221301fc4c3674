SPECIFICATION FairSpec
CONSTANTS
  A = A  B = B  C = C  elsewhere = elsewhere  external = external  f = f  g = g
  None = None
  Objects <- ThreeObjects
  Elsewhere <- TwoElsewhere
  Names <- TwoNames
  Inputs <- AllInputs
INVARIANTS
  TypeOK
  FieldsAreInherited
  HandlersAreTheNearest
  OwnersAreIncluded
  CyclesAreReported
PROPERTIES
  DefinedObjectsAreFinal
  Terminates

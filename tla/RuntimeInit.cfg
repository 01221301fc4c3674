SPECIFICATION FairSpec
CONSTANTS
  A = A  B = B  C = C
  Constructs <- ThreeConstructs
  Inputs <- GuardedInputs
  q36 = q36
  any_uid = 13
  TableSize = 1
  MaxRequires = 2
INVARIANTS
  TypeOK
  RegistrationsAreSound
  InitializedOnceAndInTime
  ScriptFindsEverything
  ReferencesAreReturned
PROPERTIES
  InitializationTerminates

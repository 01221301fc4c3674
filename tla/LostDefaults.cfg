\* An optional float that the script leaves out reaches the stub as 0.
SPECIFICATION Spec
CONSTANTS
  Handlings <- NewOnly
  Calls <- OnlyOptionalFloats
  Returns = {"void"}
  Word = 16
INVARIANTS
  OmittedArgumentsGetDefaults

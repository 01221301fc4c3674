SPECIFICATION Spec
CONSTANTS
  Inputs <- Files
  C_reserved_words <- CWords
  C_reserved_type_words <- CTypeWords
  WebIDL_reserved_words <- WebIDLWords
  Javascript_reserved_words <- JavascriptWords
  Intrinsic <- CTypes
INVARIANTS TypeOK AliasesAreResolved EveryTypeHasOneHome RepeatsAreReported CNamesAreDistinct

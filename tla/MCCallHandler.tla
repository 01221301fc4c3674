---------------------------- MODULE MCCallHandler ----------------------------
(***************************************************************************)
(* TLC instances of CallHandler: every list of up to three plain           *)
(* parameters, as WebIDL allows them (an optional parameter is followed by *)
(* optional ones only, a variadic one by none), with every call of up to   *)
(* three arguments; and lists of up to two parameters of union types.      *)
(***************************************************************************)
EXTENDS CallHandler

PlainParameter == [type : {{"string"}, {"long"}}, optional : BOOLEAN, variadic : BOOLEAN]

Legal(list) ==
  /\ \A i \in 1 .. Len(list) : list[i].variadic => ~list[i].optional /\ i = Len(list)
  /\ \A i \in 1 .. Len(list) - 1 :
       list[i].optional => list[i + 1].optional \/ list[i + 1].variadic

PlainCalls ==
  [parameters : {list \in SeqOf(PlainParameter, 3) : Legal(list)},
   args : SeqOf({"text", "empty", "num", "undefined"}, 3)]

(* Every type and union alone; unions before and after a string parameter. *)
AnyParameter == [type : (SUBSET Type) \ {{}}, optional : BOOLEAN, variadic : {FALSE}]
UnionParameter ==
  [type : {{"Interface", "string"}, {"boolean", "float"}, {"long", "string"}, {"boolean", "string"}},
   optional : BOOLEAN, variadic : {FALSE}]
StringParameter == [type : {{"string"}}, optional : BOOLEAN, variadic : {FALSE}]

UnionCalls ==
  [parameters : {list \in {<<p>> : p \in AnyParameter}
                         \cup (UnionParameter \X StringParameter)
                         \cup (StringParameter \X UnionParameter) : Legal(list)},
   args : SeqOf(Value, 2)]

(* One optional parameter of a floating-point type. *)
OptionalFloats ==
  [parameters : {<<p>> : p \in [type : {{"float"}, {"double"}}, optional : {TRUE}, variadic : {FALSE}]},
   args : SeqOf(Value, 1)]

AllCalls == {PlainCalls, UnionCalls}
OnlyPlainCalls == {PlainCalls}
OnlyOptionalFloats == {OptionalFloats}
Both == {"original", "new"}
NewOnly == {"new"}
AllReturns == {"void", "number", "string", "this", "constructor"}
=============================================================================

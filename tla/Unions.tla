------------------------------- MODULE Unions -------------------------------
(***************************************************************************)
(* Parameter types and the JavaScript values they accept.  A parameter's   *)
(* type is the set of the WebIDL types it is a union of, a set of one for  *)
(* a plain parameter.  The compiler orders the members of a union          *)
(* (AugmentedAST.js); the C code it prints for the union                   *)
(* (composites.mustache, build_composite_arg_function.mustache) tries them *)
(* in that order.                                                          *)
(***************************************************************************)
EXTENDS Naturals, Subsequences, SequencesExt

(* The WebIDL types that unions are made of here, as JavaScript sorts them. *)
(* "Interface" is an interface with an attribute.                           *)
webidl_types == <<"Interface", "boolean", "double", "float", "long", "string">>

Type == Range(webidl_types)

(* The script's values: a string, the empty string, a number, true,         *)
(* undefined, an instance of Interface.                                     *)
Value == {"text", "empty", "num", "true", "undefined", "object"}

(* create_composite_type: the members once each, sorted; and the member     *)
(* whose field the union's C constructor sets.                              *)
webidl_type_list(types) == Kept(webidl_types, types)
default_name(types) == Head(webidl_type_list(types))

c_type_size == [double |-> 66, float |-> 65, long |-> 31]

(* Wrong: in alphabetical order, boolean before the numbers. *)
AlphabeticalList(types) == webidl_type_list(types)

(* filter_numeric_types: of the numeric members only the one with the       *)
(* largest C type is kept, after the others; boolean is last.               *)
j_to_c_type_list(types) ==
  LET numeric == types \cap DOMAIN c_type_size
      largest == {t \in numeric : \A u \in numeric : c_type_size[t] >= c_type_size[u]}
  IN  webidl_type_list(types \ (numeric \cup {"boolean"}))
        \o webidl_type_list(largest)
        \o webidl_type_list(types \cap {"boolean"})

(* interpreter_value_is_<type>. *)
value_is(type, value) ==
  CASE type = "string"    -> value \in {"text", "empty"}
    [] type = "boolean"   -> value = "true"
    [] type = "Interface" -> value = "object"
    [] OTHER              -> value = "num"

(* interpreter_arg_<type> of a required argument, which coerces: everything *)
(* is a boolean, and what does not become NaN is a number.  Undefined also  *)
(* stands for an argument that is not there.                                *)
arg_converts(type, value) ==
  CASE type = "boolean"              -> TRUE
    [] type \in DOMAIN c_type_size   -> value \in {"num", "true", "empty"}
    [] OTHER                         -> value_is(type, value)

Accepts(handling, type, value) ==
  IF handling = "original" THEN value_is(type, value) ELSE arg_converts(type, value)

(* The member that a value goes to: the first one tried that accepts it.    *)
(* "None" if there is none.                                                 *)
MemberFor(handling, types, value) ==
  LET tried == j_to_c_type_list(types)
      k == SelectInSeq(tried, LAMBDA t : Accepts(handling, t, value))
  IN  IF k = 0 THEN "None" ELSE tried[k]
=============================================================================

----------------------------- MODULE CallHandler -----------------------------
(***************************************************************************)
(* One call of a generated C handler: <interface>_<operation>_handler of   *)
(* interface.mustache, with the code of demarshal_args.mustache in front   *)
(* of the user's stub and that of clean_up_and_return.mustache after it.   *)
(* The function handlers of callback.mustache are made of the same pieces. *)
(*                                                                         *)
(* The interpreter passes the script's arguments; the handler copies them  *)
(* into C variables (strings into malloc'd memory), calls the stub, frees  *)
(* the copies and returns a value or an error to the interpreter.  There   *)
(* are two ways to read arguments, the compiler's --arg_handling flag.     *)
(* What a parameter of a union type gets is in module Unions.              *)
(***************************************************************************)
EXTENDS Integers, FiniteSets, Unions

CONSTANTS
  Handlings,       \* of "original" and "new", those that are tried
  Calls,           \* sets of the calls that are tried: parameters and arguments
  Returns,         \* the kinds of handlers that are tried
  Word             \* the number of values of a uint32_t

Parameter == [type : (SUBSET Type) \ {{}}, optional : BOOLEAN, variadic : BOOLEAN]

IsParameterList(list) ==
  /\ list \in Seq(Parameter)
  /\ \A i \in 1 .. Len(list) :
        list[i].variadic => i = Len(list) /\ Cardinality(list[i].type) = 1

ASSUME HandlingsAssumption == Handlings \subseteq {"original", "new"}
ASSUME ParametersAssumption ==
  \A calls \in Calls : \A call \in calls : IsParameterList(call.parameters)
ASSUME ArgumentsAssumption ==
  \A calls \in Calls : \A call \in calls : call.args \in Seq(Value) /\ Len(call.args) < Word
ASSUME WordAssumption == Word \in Nat \ {0}
ASSUME ReturnsAssumption ==
  Returns \subseteq {"void", "number", "string", "this", "constructor"}

VARIABLES
  handling,       \* arg_handling of the compiler's parameters
  parameters,     \* of the operation
  returns,        \* what it returns
  args,           \* args_p and args_cnt
  pc,             \* where the handler is; "idle" if none runs (module Invocation)
  next,           \* the parameter that is read next
  variables,      \* the C variable of each parameter, see Variable
  length,         \* the length field of the variadic parameter's array
  heap,           \* what the handler has malloc'd, see HeapCell
  new_interface,  \* the object a constructor's handler made
  created,        \* an error object was created
  _error,         \* the C variable: is it an error
  return_value,   \* what the stub returned, or "indeterminate"
  string_value,   \* the interpreter's copy of a returned string
  result          \* what the handler returned, "none" while it runs

input == <<handling, parameters, returns, args>>
memory == <<variables, length, heap>>
outcome == <<new_interface, created, _error, return_value, string_value, result>>
vars == <<input, pc, next, memory, outcome>>

(* A malloc'd block: the copy of argument or default i, or 0 for the items of *)
(* the array.                                                                 *)
HeapCell == Nat
Items == 0

(* What the stub returned: one of its string arguments (its position) or *)
(* anything else; Indeterminate before.                                  *)
Own == 0
Indeterminate == -1

(***************************************************************************)
(* The C variable of a parameter: where its value is, and what the value   *)
(* is.  A union has the field that was written last and the member that    *)
(* union_type names; for a plain parameter both are its type.  "zero" is   *)
(* 0.0 where the WebIDL file may declare another default.                  *)
(***************************************************************************)
Variable ==
  [place : {"unset", "null", "literal", "heap", "number", "array"},
   holds : {"nothing", "argument", "default", "zero"},
   field : Type, union_type : Type \cup {"indeterminate"}]

Positions == 1 .. Len(parameters)
Given(i) == i <= Len(args)

(* To the new handling, an undefined argument is one that was not passed. *)
Absent(i) == Given(i) => (handling = "new" /\ args[i] = "undefined")

(* Whether the argument is read, or the default is used.  The new handling *)
(* reads undefined for a required argument that is not there.              *)
Passed(i) == ~Absent(i) \/ (handling = "new" /\ ~parameters[i].optional)
value(i) == IF Given(i) THEN args[i] ELSE "undefined"

IsOfType(type, v) == MemberFor(handling, type, v) # "None"

(* The new handling passes the optional flag to the transform of the last   *)
(* member only, and the transform of an interface does not look at it.      *)
MayBeLeftOut(i) ==
  /\ parameters[i].optional
  /\ handling = "new" => Last(j_to_c_type_list(parameters[i].type)) # "Interface"

(* Neither a union nor an array has the is_string flag. *)
is_string(i) == parameters[i].type = {"string"} /\ ~parameters[i].variadic

(* X_constructor() of a union writes a field, and not union_type. *)
DefaultValue(i, place) ==
  LET type == parameters[i].type
  IN  [place |-> place, holds |-> "default", field |-> default_name(type),
       union_type |-> IF Cardinality(type) = 1 THEN default_name(type) ELSE "indeterminate"]

(* The declarations: the original code sets strings to NULL, the new code *)
(* sets optional variables to their defaults.                             *)
Declared(i) ==
  IF handling = "new" /\ parameters[i].optional
  THEN DefaultValue(i, IF is_string(i) THEN "literal" ELSE "number")
  ELSE [DefaultValue(i, IF handling = "original" /\ is_string(i) THEN "null" ELSE "unset")
          EXCEPT !.holds = "nothing"]

(* A handler that was called, before it has read an argument. *)
Called ==
  /\ pc = "arguments"
  /\ next = 1
  /\ variables = [i \in Positions |-> Declared(i)]
  /\ length = 0
  /\ heap = {}
  /\ new_interface = IF returns = "constructor" THEN "held" ELSE "none"
  /\ created = FALSE
  /\ _error = FALSE
  /\ return_value = Indeterminate
  /\ string_value = "none"
  /\ result = "none"

Init ==
  /\ handling \in Handlings
  /\ \E calls \in Calls : \E call \in calls : parameters = call.parameters /\ args = call.args
  /\ returns \in Returns
  /\ Called

----------------------------------------------------------------------------
(* Reading one parameter.                                                    *)

Store(i, variable, cells) ==
  /\ variables' = [variables EXCEPT ![i] = variable]
  /\ heap' = heap \cup cells
  /\ next' = next + 1
  /\ UNCHANGED <<pc, outcome>>

(* A value is stored as the given member; strings are copied. *)
StoreArgument(i, member) ==
  /\ Store(i, [place |-> IF member = "string" THEN "heap" ELSE "number",
               holds |-> "argument", field |-> member, union_type |-> member],
           IF member = "string" THEN {i} ELSE {})
  /\ UNCHANGED length

(* Wrong: a plain argument is taken as it is. *)
ReadUnchecked(i) ==
  /\ Passed(i)
  /\ StoreArgument(i, default_name(parameters[i].type))

(* A plain argument of the right type. *)
ReadArgument(i) ==
  /\ Passed(i) /\ IsOfType(parameters[i].type, value(i))
  /\ StoreArgument(i, MemberFor(handling, parameters[i].type, value(i)))

(* The original handling copies a default string unless it is empty, so     *)
(* every default is either.                                                 *)
OriginalDefault(i) ==
  IF is_string(i)
  THEN \/ Store(i, DefaultValue(i, "literal"), {})
       \/ Store(i, DefaultValue(i, "heap"), {i})
  ELSE Store(i, DefaultValue(i, "number"), {})

(* In the new one the declaration has set it.  A union's union_type becomes *)
(* that of the last member tried; the transform of a float or a double      *)
(* writes the 0.0 it started with even when there is no argument, which is  *)
(* what the constructor of a union wrote if the field is the same.          *)
NewDefault(i) ==
  LET type == parameters[i].type
      member == Last(j_to_c_type_list(type))
      rewritten == /\ member \in {"float", "double"}
                   /\ Cardinality(type) = 1 \/ member # default_name(type)
  IN  Store(i, IF rewritten
               THEN [variables[i] EXCEPT !.union_type = member, !.field = member,
                                         !.holds = "zero"]
               ELSE [variables[i] EXCEPT !.union_type = member], {})

UseDefault(i) ==
  /\ ~Passed(i) /\ MayBeLeftOut(i)
  /\ IF handling = "original" THEN OriginalDefault(i) ELSE NewDefault(i)
  /\ UNCHANGED length

(* Every string of the array is a copy of its own. *)
Elements(i) ==
  IF parameters[i].type = {"string"} THEN i .. Len(args) ELSE {}

(* The value_is test of the original loop: args_p[paramIndex] every time. *)
all_correct_types(i) == Given(i) => IsOfType(parameters[i].type, args[i])

(* Wrong: the difference is not stored in an unsigned field. *)
NumberOfElementsSigned(i) == Len(args) - (i - 1)

(* args_cnt - paramIndex, stored in a uint32_t. *)
NumberOfElements(i) == (Len(args) - (i - 1)) % Word

(* Wrong: the new handling, too, looks at the first element only. *)
ReadVariadicFirst(i) ==
  /\ all_correct_types(i)
  /\ length' = NumberOfElements(i)
  /\ Store(i, [DefaultValue(i, "array") EXCEPT !.holds = "argument"],
           IF Given(i) THEN {Items} \cup Elements(i) ELSE {})

ReadVariadic(i) ==
  /\ IF handling = "original" THEN all_correct_types(i)
     ELSE \A k \in i .. Len(args) : IsOfType(parameters[i].type, args[k])
  /\ length' = NumberOfElements(i)
  /\ Store(i, [DefaultValue(i, "array") EXCEPT !.holds = "argument"],
           IF Given(i) THEN {Items} \cup Elements(i) ELSE {})

(* Original handling: an argument of the wrong type is an error... *)
WrongType(i) ==
  /\ ~parameters[i].variadic /\ ~Absent(i) /\ ~IsOfType(parameters[i].type, args[i])
  /\ _error' = TRUE
  /\ UNCHANGED heap

(* ...but the errors for missing and for variadic arguments are not kept. *)
TooFew(i) ==
  /\ \/ ~parameters[i].variadic /\ Absent(i) /\ ~parameters[i].optional
     \/ parameters[i].variadic /\ ~all_correct_types(i)
  /\ UNCHANGED <<_error, heap>>

(* New handling: the handler returns an error from the middle; of a variadic *)
(* parameter, the strings before the first wrong element have been copied.   *)
ErrorInParameters(i) ==
  \/ /\ ~parameters[i].variadic
     /\ IF Passed(i) THEN ~IsOfType(parameters[i].type, value(i)) ELSE ~MayBeLeftOut(i)
     /\ UNCHANGED heap
  \/ /\ parameters[i].variadic
     /\ \E k \in i .. Len(args) :
          /\ ~IsOfType(parameters[i].type, args[k])
          /\ \A j \in i .. k - 1 : IsOfType(parameters[i].type, args[j])
          /\ heap' = heap \cup {Items} \cup {c \in Elements(i) : c < k}

Read(i) ==
  IF parameters[i].variadic THEN ReadVariadic(i) ELSE ReadArgument(i) \/ UseDefault(i)

(* "goto <thing>_clean_up_and_exit", or the return of the new handling. *)
Fail(i) ==
  /\ created' = TRUE
  /\ IF handling = "original"
     THEN /\ WrongType(i) \/ TooFew(i)
          /\ pc' = "enter_string"
          /\ UNCHANGED result
     ELSE /\ ErrorInParameters(i)
          /\ pc' = "returned"
          /\ result' = "error"
          /\ UNCHANGED _error
  /\ UNCHANGED <<next, variables, length, new_interface, return_value, string_value>>

ReadParameter ==
  /\ pc = "arguments" /\ next \in Positions
  /\ Read(next) \/ Fail(next)
  /\ UNCHANGED input

----------------------------------------------------------------------------
(* The stub is the user's code: it may fail, and a string it returns may be *)
(* one of its arguments.                                                    *)
CallStub ==
  /\ pc = "arguments" /\ next > Len(parameters)
  /\ _error' \in BOOLEAN
  /\ created' = _error'
  /\ return_value' \in
       IF returns # "string" THEN {Own}
       ELSE {Own} \cup {i \in Positions : variables[i].place = "heap"}
  /\ pc' = "enter_string"
  /\ UNCHANGED <<input, next, memory, new_interface, string_value, result>>

(* The copies in variables with the is_string flag: the string in a union is *)
(* not among them.                                                           *)
Strings == {i \in Positions : is_string(i) /\ variables[i].place = "heap"}

(* What copying the stub's string from memory gives. *)
CopiedFrom(blocks) ==
  CASE returns # "string" \/ _error -> "none"
    [] return_value = Own -> "own"
    [] return_value = Indeterminate -> "indeterminate"
    [] OTHER -> IF return_value \in blocks THEN "own" ELSE "freed"

(* Wrong: the strings are freed before the result is copied. *)
EnterStringLate ==
  /\ pc = "enter_string"
  /\ heap' = heap \ Strings
  /\ string_value' = CopiedFrom(heap')
  /\ pc' = "free_strings"
  /\ UNCHANGED <<input, next, variables, length, new_interface, created, _error,
                 return_value, result>>

(* jerry_create_string(return_value), before anything is freed. *)
EnterString ==
  /\ pc = "enter_string"
  /\ string_value' = CopiedFrom(heap)
  /\ pc' = "free_strings"
  /\ UNCHANGED <<input, next, memory, new_interface, created, _error, return_value, result>>

(* strlen(name) # 0, of a copied argument or default. *)
IsLong(i) == Given(i) => args[i] # "empty"

(* if (name && strlen(name) != 0) free(name), for each string that is no array. *)
FreeStrings ==
  /\ pc = "free_strings"
  /\ heap' = heap \ {i \in Strings : IsLong(i)}
  /\ pc' = "return"
  /\ UNCHANGED <<input, next, variables, length, outcome>>

HandlerResult ==
  CASE _error -> "error"
    [] ~_error /\ returns = "string" -> string_value
    [] ~_error /\ returns = "number" -> IF return_value = Own THEN "own" ELSE "indeterminate"
    [] OTHER -> returns

(* Wrong: a constructor's object is not released when there is an error. *)
ReturnUnreleased ==
  /\ pc = "return"
  /\ result' = HandlerResult
  /\ pc' = "returned"
  /\ UNCHANGED <<input, next, memory, new_interface, created, _error, return_value, string_value>>

(* The end of the handler. *)
Return ==
  /\ pc = "return"
  /\ result' = HandlerResult
  /\ new_interface' =
       IF returns # "constructor" THEN "none" ELSE IF _error THEN "released" ELSE "returned"
  /\ pc' = "returned"
  /\ UNCHANGED <<input, next, memory, created, _error, return_value, string_value>>

Stop == pc = "returned" /\ UNCHANGED vars

Step == ReadParameter \/ CallStub \/ EnterString \/ FreeStrings \/ Return

Next == Step \/ Stop

Spec == Init /\ [][Next]_vars

----------------------------------------------------------------------------
(* The types of all variables. *)
TypeOK ==
  /\ handling \in Handlings
  /\ parameters \in Seq(Parameter) /\ returns \in Returns /\ args \in Seq(Value)
  /\ pc \in {"idle", "arguments", "enter_string", "free_strings", "return", "returned"}
  /\ next \in 1 .. Len(parameters) + 1
  /\ variables \in [Positions -> Variable]
  /\ length \in 0 .. Word - 1
  /\ heap \subseteq HeapCell
  /\ new_interface \in {"none", "held", "released", "returned"}
  /\ created \in BOOLEAN /\ _error \in BOOLEAN
  /\ return_value \in {Own, Indeterminate} \cup Positions
  /\ string_value \in {"none", "own", "indeterminate", "freed"}
  /\ result \in {"none", "error", "own", "indeterminate", "freed", "void", "this", "constructor"}

StubWasCalled == return_value # Indeterminate

Plain == {i \in Positions : ~parameters[i].variadic}

(* When the stub runs, every plain parameter that the script passed an        *)
(* argument for holds it: it is where the member that union_type names is     *)
(* kept, a member that takes it; strings are in a copy of their own.  No      *)
(* variable is left as it was declared unless that is the default of an       *)
(* optional parameter.                                                        *)
StubGetsItsArguments ==
  StubWasCalled =>
    \A i \in Positions :
      /\ variables[i].place \notin {"unset", "null"}
      /\ variables[i].holds \in {"default", "zero"} => Absent(i) /\ parameters[i].optional
      /\ i \in Plain /\ ~Absent(i) =>
           /\ variables[i].holds = "argument"
           /\ Accepts(handling, variables[i].union_type, args[i])
           /\ variables[i].union_type = variables[i].field
           /\ variables[i].union_type = "string" <=> variables[i].place = "heap"

(* "Because Javascript only has a single numeric type, we want to convert   *)
(* Javascript values into the largest C type": a string goes to the string  *)
(* of a union, an object to the interface, a number to its largest number   *)
(* and, unless the new handling coerces it to a number of the union, a      *)
(* boolean to the boolean, whenever the union has such a member.            *)
UnionsPickTheirMember ==
  StubWasCalled =>
    \A i \in Plain : ~Absent(i) =>
      LET type == parameters[i].type
          numbers == type \cap {"double", "float", "long"}
          kind == CASE args[i] \in {"text", "empty"} -> type \cap {"string"}
                    [] args[i] = "object" -> type \cap {"Interface"}
                    [] args[i] = "true" -> IF handling = "new" /\ numbers # {} THEN numbers
                                           ELSE type \cap {"boolean"}
                    [] OTHER -> numbers
          best == IF "double" \in kind THEN {"double"}
                  ELSE IF "float" \in kind THEN {"float"} ELSE kind
      IN  best # {} => variables[i].union_type \in best

(* Not true: "default values specified in the WebIDL get passed through".   *)
(* An optional argument that is left out arrives as its default, and the    *)
(* call is not refused for it.                                              *)
OmittedArgumentsGetDefaults ==
  \A i \in Plain : Absent(i) /\ parameters[i].optional =>
    /\ StubWasCalled => /\ variables[i].holds = "default"
                        /\ variables[i].union_type = variables[i].field
    /\ ~(pc = "returned" /\ result = "error" /\ next = i)

(* A returned string is copied while the argument it may point to is there, *)
(* so the script gets what the stub returned.                               *)
ResultIsIntact == StubWasCalled => result \notin {"freed", "indeterminate"}

(* The new handling returns its errors from the middle of the handler. *)
LeftThroughCleanUp == pc = "returned" /\ (handling = "original" \/ StubWasCalled)

(* Whatever happened before, a plain string argument that is not empty has *)
(* been freed when the handler comes out of the clean-up code.             *)
LongStringsAreFreed ==
  LeftThroughCleanUp => ~\E i \in Positions : is_string(i) /\ i \in heap /\ IsLong(i)

(* The object a constructor's handler made is either returned to the script *)
(* or released by the clean-up code, and is released exactly when the       *)
(* script gets an error.                                                    *)
NewInterfaceHasOneOwner ==
  LeftThroughCleanUp /\ returns = "constructor" =>
    new_interface = IF result = "error" THEN "released" ELSE "returned"

(* A call that fits the parameter list reaches the stub.  One with a plain   *)
(* argument missing or of the wrong type does not, and for a wrong type the  *)
(* script gets the error; the new handling is as strict with missing         *)
(* arguments and with the elements of a variadic parameter, but takes what   *)
(* is missing for the boolean false where there may be one, and wants even   *)
(* the optional argument of an interface type.                               *)
BadCallsAreErrors ==
  pc = "returned" =>
    LET takes(type, v) == \E t \in type : Accepts(handling, t, v)
        fits(i) == IF ~Absent(i) THEN takes(parameters[i].type, args[i])
                   ELSE IF parameters[i].optional
                        THEN handling = "original" \/ parameters[i].type # {"Interface"}
                        ELSE handling = "new" /\ "boolean" \in parameters[i].type
        all_fit(i) == \A k \in i .. Len(args) : takes(parameters[i].type, args[k])
        good == \A i \in Positions : IF i \in Plain THEN fits(i) ELSE all_fit(i)
    IN /\ good => StubWasCalled
       /\ (\E i \in Plain : ~fits(i)) => ~StubWasCalled
       /\ (\E i \in Plain : ~Absent(i) /\ ~fits(i)) => result = "error"
       /\ handling = "new" /\ ~good => ~StubWasCalled /\ result = "error"

(* A copied string lives until its last use, and not longer: the result is   *)
(* entered before the arguments are freed, and they are freed on every path   *)
(* through the clean-up code (clean_up_and_return.mustache:36, :48).         *)
StringsLiveAsLongAsNeeded == ResultIsIntact /\ LongStringsAreFreed

(* Not true of the original handling: an error that the handler creates is *)
(* what it returns.                                                        *)
ErrorsAreReported == pc = "returned" /\ created => result = "error"
=============================================================================

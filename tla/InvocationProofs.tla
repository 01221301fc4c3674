-------------------------- MODULE InvocationProofs --------------------------
(***************************************************************************)
(* Proofs about CallHandler and Invocation.                                *)
(*                                                                         *)
(* First one handler: who owns what it has copied and made, what reaches   *)
(* the stub and which calls are refused, for every parameter list, every   *)
(* list of arguments and both handlings.  They hold whatever types unions  *)
(* are made of and whatever is accepted.                                   *)
(*                                                                         *)
(* Then a whole "new", which runs the constructors as Constructors says,   *)
(* whatever the interface and the arguments are; what was proved of one    *)
(* handler holds of each that it runs.                                     *)
(***************************************************************************)
EXTENDS Invocation, SequenceFacts

----------------------------------------------------------------------------
(* One handler. *)

(* The inputs are what the assumptions on the constants say. *)
InputSound ==
  /\ handling \in {"original", "new"}
  /\ returns \in {"void", "number", "string", "this", "constructor"}
  /\ Len(parameters) \in Nat
  /\ \A i \in Positions : parameters[i].variadic => i = Len(parameters)
  /\ pc \in {"arguments", "enter_string", "free_strings", "return", "returned"}
  /\ next \in Nat

(* The shape of a variable, whatever is in it. *)
IsVariable(v) ==
  v = [place |-> v.place, holds |-> v.holds, field |-> v.field, union_type |-> v.union_type]

(* A variable that points to a copy points to its own; a string's copy is   *)
(* pointed to by its variable, which has been read.                         *)
PointersSound ==
  /\ variables = [i \in Positions |-> variables[i]]
  /\ \A i \in Positions : IsVariable(variables[i])
  /\ pc \in {"arguments", "enter_string"} =>
       \A i \in Positions : variables[i].place = "heap" => i \in heap
  /\ pc # "returned" => \A i \in Positions : is_string(i) /\ i \in heap => variables[i].place = "heap"
  /\ pc = "arguments" => \A i \in Positions : is_string(i) /\ i \in heap => i < next
  /\ pc = "arguments" => \A i \in Positions : i >= next => variables[i].place # "heap"

(* What the stub has returned is its own, or an argument that is there. *)
ReturnedSound ==
  /\ pc = "arguments" => return_value = Indeterminate
  /\ StubWasCalled => return_value = Own \/ (returns = "string" /\ return_value \in Positions)
  /\ pc = "enter_string" /\ StubWasCalled /\ return_value # Own => return_value \in heap
  /\ pc \in {"free_strings", "return"} /\ StubWasCalled /\ returns = "string" /\ ~_error =>
       string_value = "own"

(* The object of a constructor is held up to the end of the handler. *)
ObjectHeld == returns = "constructor" /\ pc # "returned" => new_interface = "held"

(* Nothing is returned before the end. *)
ResultSound == pc # "returned" => result = "none"

(* In and after the last part of the clean-up only empty strings are left. *)
FreedSound ==
  pc = "return" \/ LeftThroughCleanUp =>
    \A i \in Positions : is_string(i) /\ i \in heap => ~IsLong(i)

IInv ==
  /\ InputSound
  /\ PointersSound
  /\ ReturnedSound
  /\ ObjectHeld
  /\ ResultSound
  /\ FreedSound
  /\ ResultIsIntact
  /\ NewInterfaceHasOneOwner

----------------------------------------------------------------------------
LEMMA CalledKeepsOwners ==
  ASSUME IsParameterList(parameters), handling \in Handlings, returns \in Returns, Called
  PROVE  IInv
<1>1. /\ parameters \in Seq(Parameter)
      /\ \A i \in 1 .. Len(parameters) : parameters[i].variadic => i = Len(parameters)
  BY DEF IsParameterList
<1>2. InputSound
  BY <1>1, HandlingsAssumption, ReturnsAssumption DEF Called, InputSound, Positions
<1>3. variables = [i \in Positions |-> Declared(i)] /\ heap = {}
  BY DEF Called
<1>4. \A i \in Positions : variables[i].place # "heap" /\ IsVariable(variables[i])
  BY <1>3 DEF Declared, DefaultValue, IsVariable
<1>5. PointersSound
  BY <1>3, <1>4 DEF PointersSound
<1>6. ReturnedSound /\ ObjectHeld /\ ResultSound
  BY DEF Called, ReturnedSound, ObjectHeld, ResultSound, StubWasCalled
<1>7. FreedSound /\ ResultIsIntact /\ NewInterfaceHasOneOwner
  BY DEF Called, FreedSound, ResultIsIntact, NewInterfaceHasOneOwner, LeftThroughCleanUp,
         StubWasCalled
<1>. QED BY <1>2, <1>5, <1>6, <1>7 DEF IInv

LEMMA InitCalls ==
  ASSUME Init
  PROVE  /\ IsParameterList(parameters) /\ args \in Seq(Value) /\ Len(args) < Word
         /\ handling \in Handlings /\ returns \in Returns /\ Called
<1>1. PICK calls \in Calls : \E call \in calls : parameters = call.parameters /\ args = call.args
  BY DEF Init
<1>2. IsParameterList(parameters) /\ args \in Seq(Value) /\ Len(args) < Word
  BY <1>1, ParametersAssumption, ArgumentsAssumption
<1>. QED BY <1>2 DEF Init

LEMMA InitEstablishesInvariant ==
  ASSUME Init
  PROVE  IInv
BY InitCalls, CalledKeepsOwners

(* A copy is stored together with the pointer to it. *)
LEMMA StoreKeepsPointers ==
  ASSUME InputSound, PointersSound, pc = "arguments", next \in Positions, NEW variable, NEW cells,
         Store(next, variable, cells), UNCHANGED input,
         IsVariable(variable), variable.place = "heap" => next \in cells,
         \A j \in Positions : j \in cells /\ is_string(j) => j = next /\ variable.place = "heap"
  PROVE  PointersSound'
<1>1. /\ variables' = [variables EXCEPT ![next] = variable] /\ heap' = heap \cup cells
      /\ pc' = pc /\ Positions' = Positions /\ next' = next + 1
      /\ \A j \in Positions : is_string(j)' <=> is_string(j)
  BY DEF Store, input, Positions, is_string
<1>2. /\ variables'[next] = variable
      /\ \A j \in Positions \ {next} : variables'[j] = variables[j]
      /\ variables' = [j \in Positions |-> variables'[j]]
  BY <1>1 DEF PointersSound
<1>3. \A j \in Positions : variables'[j].place = "heap" => j \in heap'
  BY <1>1, <1>2 DEF PointersSound
<1>4. next \in Nat /\ \A j \in Positions : j \in Nat
  BY DEF InputSound, Positions
<1>5. \A j \in Positions : is_string(j) /\ j \in heap => j # next /\ j < next + 1
  BY <1>4 DEF PointersSound
<1>6. ASSUME NEW j \in Positions, is_string(j), j \in heap'
      PROVE  variables'[j].place = "heap" /\ j < next + 1
  <2>1. CASE j \in heap
    <3>1. j # next /\ j < next + 1 /\ variables[j].place = "heap"
      BY <1>5, <1>6, <2>1 DEF PointersSound
    <3>. QED BY <1>2, <3>1
  <2>2. CASE j \in cells
    <3>1. j = next /\ variable.place = "heap"
      BY <1>6, <2>2
    <3>. QED BY <1>2, <1>4, <3>1
  <2>. QED BY <1>1, <1>6, <2>1, <2>2
<1>7. \A j \in Positions : j >= next + 1 => variables'[j].place # "heap"
  BY <1>2, <1>4 DEF PointersSound
<1>. QED BY <1>1, <1>2, <1>3, <1>6, <1>7 DEF PointersSound

(* What the new handling's default changes of a variable. *)
LEMMA KeepsPlace ==
  ASSUME NEW v, IsVariable(v), v.place # "heap", NEW member
  PROVE  LET kept == [v EXCEPT !.union_type = member]
             zero == [v EXCEPT !.union_type = member, !.field = member, !.holds = "zero"]
         IN  /\ kept.place # "heap" /\ IsVariable(kept)
             /\ zero.place # "heap" /\ IsVariable(zero)
<1>. PICK values : values = {v.place, v.holds, v.field, v.union_type, member, "zero"}
  OBVIOUS
<1>. DEFINE Record == [place : values, holds : values, field : values, union_type : values]
            kept == [v EXCEPT !.union_type = member]
            zero == [v EXCEPT !.union_type = member, !.field = member, !.holds = "zero"]
<1>1. v \in Record
  BY DEF IsVariable
<1>2. kept \in Record /\ kept.place = v.place
  BY <1>1
<1>3. zero \in Record /\ zero.place = v.place
  BY <1>1
<1>4. \A w \in Record : IsVariable(w)
  BY DEF IsVariable
<1>. HIDE DEF Record, kept, zero
<1>5. /\ kept.place # "heap" /\ IsVariable(kept)
      /\ zero.place # "heap" /\ IsVariable(zero)
  BY <1>2, <1>3, <1>4
<1>. QED BY <1>5, Zenon DEF kept, zero

(* Reading a parameter stores its variable, and the copy if it makes one. *)
LEMMA ReadStores ==
  ASSUME InputSound, PointersSound, pc = "arguments", next \in Positions, Read(next)
  PROVE  \E variable, cells :
           /\ Store(next, variable, cells)
           /\ IsVariable(variable)
           /\ variable.place = "heap" => next \in cells
           /\ \A j \in Positions : j \in cells /\ is_string(j) => j = next /\ variable.place = "heap"
<1>1. CASE parameters[next].variadic
  <2>. DEFINE variable == [DefaultValue(next, "array") EXCEPT !.holds = "argument"]
              cells == IF Given(next) THEN {Items} \cup Elements(next) ELSE {}
  <2>1. Store(next, variable, cells)
    BY <1>1 DEF Read, ReadVariadic
  <2>2. variable.place = "array" /\ IsVariable(variable)
    BY DEF DefaultValue, IsVariable
  <2>3. next = Len(parameters) /\ ~is_string(next)
    BY <1>1 DEF InputSound, is_string
  <2>4. \A j \in Positions : j \in cells => j = next
    BY <2>3 DEF InputSound, Positions, Elements, Items
  <2>. HIDE DEF variable, cells
  <2>. QED BY <2>1, <2>2, <2>3, <2>4
<1>2. CASE ~parameters[next].variadic /\ ReadArgument(next)
  <2>. PICK member : member = MemberFor(handling, parameters[next].type, value(next))
    OBVIOUS
  <2>. DEFINE variable == [place |-> IF member = "string" THEN "heap" ELSE "number",
                           holds |-> "argument", field |-> member, union_type |-> member]
              cells == IF member = "string" THEN {next} ELSE {}
  <2>1. Store(next, variable, cells)
    BY <1>2 DEF ReadArgument, StoreArgument
  <2>2. (variable.place = "heap" <=> member = "string") /\ IsVariable(variable)
    BY DEF IsVariable
  <2>3. cells = IF member = "string" THEN {next} ELSE {}
    OBVIOUS
  <2>. HIDE DEF variable, cells
  <2>. QED BY <2>1, <2>2, <2>3
<1>3. CASE ~parameters[next].variadic /\ UseDefault(next) /\ handling = "original"
  <2>1. \/ \E place \in {"literal", "number"} : Store(next, DefaultValue(next, place), {})
        \/ Store(next, DefaultValue(next, "heap"), {next})
    BY <1>3 DEF UseDefault, OriginalDefault
  <2>2. \A place : /\ DefaultValue(next, place).place = place
                   /\ IsVariable(DefaultValue(next, place))
    BY DEF DefaultValue, IsVariable
  <2>. QED BY <2>1, <2>2
<1>4. CASE ~parameters[next].variadic /\ UseDefault(next) /\ handling = "new"
  <2>1. variables[next].place # "heap" /\ IsVariable(variables[next])
    BY DEF PointersSound, InputSound
  <2>3. \E member :
          \/ Store(next, [variables[next] EXCEPT !.union_type = member, !.field = member,
                                                 !.holds = "zero"], {})
          \/ Store(next, [variables[next] EXCEPT !.union_type = member], {})
    BY <1>4, Zenon DEF UseDefault, NewDefault
  <2>4. PICK member :
          \/ Store(next, [variables[next] EXCEPT !.union_type = member, !.field = member,
                                                 !.holds = "zero"], {})
          \/ Store(next, [variables[next] EXCEPT !.union_type = member], {})
    BY <2>3
  <2>5. LET kept == [variables[next] EXCEPT !.union_type = member]
            zero == [variables[next] EXCEPT !.union_type = member, !.field = member,
                                            !.holds = "zero"]
        IN  /\ kept.place # "heap" /\ IsVariable(kept)
            /\ zero.place # "heap" /\ IsVariable(zero)
    BY <2>1, KeepsPlace, Zenon
  <2>6. \E variable :
          Store(next, variable, {}) /\ variable.place # "heap" /\ IsVariable(variable)
    BY <2>4, <2>5, Zenon
  <2>. QED BY <2>6
<1>. QED BY <1>1, <1>2, <1>3, <1>4 DEF Read, UseDefault, InputSound

----------------------------------------------------------------------------
(* Every step keeps the invariant.                                          *)

LEMMA ReadKeepsInvariant ==
  ASSUME IInv, pc = "arguments", next \in Positions, Read(next), UNCHANGED input
  PROVE  IInv'
<1>1. PICK variable, cells :
        /\ Store(next, variable, cells)
        /\ IsVariable(variable)
        /\ variable.place = "heap" => next \in cells
        /\ \A j \in Positions : j \in cells /\ is_string(j) => j = next /\ variable.place = "heap"
  BY ReadStores DEF IInv
<1>2. PointersSound'
  BY <1>1, StoreKeepsPointers DEF IInv
<1>3. UNCHANGED <<pc, outcome, input>> /\ next' = next + 1
  BY <1>1 DEF Store
<1>4. InputSound'
  BY <1>3 DEF IInv, InputSound, input, Positions
<1>5. ReturnedSound' /\ ObjectHeld' /\ ResultSound'
  BY <1>3 DEF IInv, ReturnedSound, ObjectHeld, ResultSound, outcome, input, StubWasCalled
<1>6. FreedSound' /\ ResultIsIntact' /\ NewInterfaceHasOneOwner'
  BY <1>3 DEF IInv, FreedSound, ResultIsIntact, NewInterfaceHasOneOwner, LeftThroughCleanUp,
              outcome, input, StubWasCalled
<1>. QED BY <1>2, <1>4, <1>5, <1>6 DEF IInv

(* An error before the stub goes to the clean-up code, or out of the handler. *)
LEMMA FailKeepsInvariant ==
  ASSUME IInv, pc = "arguments", next \in Positions, Fail(next), UNCHANGED input
  PROVE  IInv'
<1>1. /\ UNCHANGED <<input, next, variables, new_interface, return_value>>
      /\ \/ handling = "original" /\ pc' = "enter_string" /\ result' = result /\ heap' = heap
         \/ handling = "new" /\ pc' = "returned"
  BY DEF Fail, WrongType, TooFew, IInv, InputSound
<1>2. InputSound'
  BY <1>1 DEF IInv, InputSound, input, Positions
<1>3. PointersSound'
  BY <1>1 DEF IInv, PointersSound, input, Positions, is_string
<1>4. return_value' = Indeterminate
  BY <1>1 DEF IInv, ReturnedSound
<1>5. ReturnedSound' /\ ObjectHeld' /\ ResultSound'
  BY <1>1, <1>4 DEF IInv, ReturnedSound, ObjectHeld, ResultSound, input, StubWasCalled
<1>6. FreedSound' /\ ResultIsIntact' /\ NewInterfaceHasOneOwner'
  BY <1>1, <1>4 DEF IInv, FreedSound, ResultIsIntact, NewInterfaceHasOneOwner,
                    LeftThroughCleanUp, input, StubWasCalled
<1>. QED BY <1>2, <1>3, <1>5, <1>6 DEF IInv

LEMMA CallStubKeepsInvariant ==
  ASSUME IInv, CallStub
  PROVE  IInv'
<1>1. /\ pc = "arguments" /\ pc' = "enter_string"
      /\ UNCHANGED <<input, next, variables, heap, new_interface, result>>
  BY DEF CallStub, memory
<1>2. InputSound'
  BY <1>1 DEF IInv, InputSound, input, Positions
<1>3. PointersSound'
  BY <1>1 DEF IInv, PointersSound, input, Positions, is_string
<1>4. \/ return_value' = Own
      \/ returns = "string" /\ return_value' \in Positions /\ return_value' \in heap
  BY <1>1 DEF CallStub, IInv, PointersSound
<1>5. ReturnedSound'
  BY <1>1, <1>4 DEF ReturnedSound, input, Positions
<1>6. ObjectHeld' /\ ResultSound' /\ FreedSound' /\ ResultIsIntact' /\ NewInterfaceHasOneOwner'
  BY <1>1 DEF IInv, ObjectHeld, ResultSound, FreedSound, ResultIsIntact,
              NewInterfaceHasOneOwner, LeftThroughCleanUp, input
<1>. QED BY <1>2, <1>3, <1>5, <1>6 DEF IInv

(* The string that the stub returned is still there when it is copied. *)
LEMMA EnterStringKeepsInvariant ==
  ASSUME IInv, EnterString
  PROVE  IInv'
<1>1. /\ pc = "enter_string" /\ pc' = "free_strings"
      /\ UNCHANGED <<input, next, variables, heap, new_interface, _error, return_value, result>>
      /\ string_value' = CopiedFrom(heap)
  BY DEF EnterString, memory
<1>2. InputSound'
  BY <1>1 DEF IInv, InputSound, input, Positions
<1>3. PointersSound'
  BY <1>1 DEF IInv, PointersSound, input, Positions, is_string
<1>4. StubWasCalled /\ returns = "string" /\ ~_error => string_value' = "own"
  <2>. SUFFICES ASSUME StubWasCalled, returns = "string", ~_error
                PROVE  string_value' = "own"
    OBVIOUS
  <2>1. return_value # Indeterminate /\ (return_value # Own => return_value \in heap)
    BY <1>1 DEF IInv, ReturnedSound, StubWasCalled
  <2>. QED BY <1>1, <2>1 DEF CopiedFrom
<1>5. ReturnedSound'
  BY <1>1, <1>4 DEF IInv, ReturnedSound, input, Positions, StubWasCalled
<1>6. ObjectHeld' /\ ResultSound' /\ FreedSound' /\ ResultIsIntact' /\ NewInterfaceHasOneOwner'
  BY <1>1 DEF IInv, ObjectHeld, ResultSound, FreedSound, ResultIsIntact,
              NewInterfaceHasOneOwner, LeftThroughCleanUp, input
<1>. QED BY <1>2, <1>3, <1>5, <1>6 DEF IInv

LEMMA FreeStringsKeepsInvariant ==
  ASSUME IInv, FreeStrings
  PROVE  IInv'
<1>1. /\ pc = "free_strings" /\ pc' = "return"
      /\ UNCHANGED <<input, next, variables, outcome>>
      /\ heap' = heap \ {i \in Strings : IsLong(i)}
  BY DEF FreeStrings
<1>2. InputSound'
  BY <1>1 DEF IInv, InputSound, input, Positions
<1>3. PointersSound'
  BY <1>1 DEF IInv, PointersSound, input, Positions, is_string
<1>4. ReturnedSound' /\ ObjectHeld' /\ ResultSound' /\ ResultIsIntact' /\ NewInterfaceHasOneOwner'
  BY <1>1 DEF IInv, ReturnedSound, ObjectHeld, ResultSound, ResultIsIntact,
              NewInterfaceHasOneOwner, LeftThroughCleanUp, input, outcome, Positions,
              StubWasCalled
<1>5. \A i \in Positions : is_string(i) /\ i \in heap' => ~IsLong(i)
  BY <1>1 DEF IInv, PointersSound, Strings
<1>6. FreedSound'
  BY <1>1, <1>5 DEF FreedSound, input, Positions, is_string, IsLong, Given
<1>. QED BY <1>2, <1>3, <1>4, <1>6 DEF IInv

LEMMA ReturnKeepsInvariant ==
  ASSUME IInv, Return
  PROVE  IInv'
<1>1. /\ pc = "return" /\ pc' = "returned" /\ result' = HandlerResult
      /\ UNCHANGED <<input, next, variables, heap, _error, return_value, string_value>>
  BY DEF Return, memory
<1>2. InputSound'
  BY <1>1 DEF IInv, InputSound, input, Positions
<1>3. PointersSound'
  BY <1>1 DEF IInv, PointersSound, input, Positions
<1>4. ReturnedSound' /\ ObjectHeld' /\ ResultSound'
  BY <1>1 DEF IInv, ReturnedSound, ObjectHeld, ResultSound, input, Positions, StubWasCalled
<1>5. FreedSound'
  BY <1>1 DEF IInv, FreedSound, input, Positions, is_string, IsLong, Given
<1>6. StubWasCalled => HandlerResult \notin {"freed", "indeterminate"}
  BY <1>1 DEF IInv, InputSound, ReturnedSound, HandlerResult
<1>7. ResultIsIntact'
  BY <1>1, <1>6 DEF ResultIsIntact, StubWasCalled
<1>8. returns = "constructor" => HandlerResult = IF _error THEN "error" ELSE "constructor"
  BY DEF HandlerResult
<1>9. NewInterfaceHasOneOwner'
  BY <1>1, <1>8 DEF Return, NewInterfaceHasOneOwner, input
<1>. QED BY <1>2, <1>3, <1>4, <1>5, <1>7, <1>9 DEF IInv

LEMMA NextKeepsInvariant ==
  ASSUME IInv, [Next]_vars
  PROVE  IInv'
<1>1. CASE ReadParameter
  BY <1>1, ReadKeepsInvariant, FailKeepsInvariant DEF ReadParameter
<1>2. CASE CallStub
  BY <1>2, CallStubKeepsInvariant
<1>3. CASE EnterString
  BY <1>3, EnterStringKeepsInvariant
<1>4. CASE FreeStrings
  BY <1>4, FreeStringsKeepsInvariant
<1>5. CASE Return
  BY <1>5, ReturnKeepsInvariant
<1>6. CASE UNCHANGED vars
  BY <1>6 DEF vars, input, memory, outcome, IInv, InputSound, PointersSound, ReturnedSound,
              ObjectHeld, ResultSound, FreedSound, ResultIsIntact, NewInterfaceHasOneOwner,
              LeftThroughCleanUp, StubWasCalled, Positions, is_string, IsLong, Given
<1>. QED BY <1>1, <1>2, <1>3, <1>4, <1>5, <1>6 DEF Next, Step, Stop

----------------------------------------------------------------------------
(* The strengthened invariant holds in every state of a handler, whatever  *)
(* the parameters and the arguments are.                                   *)
THEOREM Invariance == Spec => []IInv
<1>1. Init => IInv
  BY InitEstablishesInvariant
<1>2. IInv /\ [Next]_vars => IInv'
  BY NextKeepsInvariant
<1>. QED BY <1>1, <1>2, PTL DEF Spec

(* The object that a constructor's handler made is returned or released, and *)
(* released exactly when the script gets an error, on every path through     *)
(* the clean-up code.                                                        *)
THEOREM NewInterfaceHasOneOwnerHolds == Spec => []NewInterfaceHasOneOwner
<1>1. IInv => NewInterfaceHasOneOwner
  BY DEF IInv
<1>. QED BY <1>1, Invariance, PTL

(* A string that the stub returned is copied before its memory is freed, and *)
(* every plain string argument that is not empty is freed on every path      *)
(* through the clean-up code.                                                *)
THEOREM StringsLiveAsLongAsNeededHolds == Spec => []StringsLiveAsLongAsNeeded
<1>1. IInv => StringsLiveAsLongAsNeeded
  BY DEF IInv, FreedSound, StringsLiveAsLongAsNeeded, LongStringsAreFreed
<1>. QED BY <1>1, Invariance, PTL

----------------------------------------------------------------------------
(* The members of a union, in the order in which they are tried.            *)

LEMMA Types ==
  /\ webidl_types \in Seq(Type) /\ Len(webidl_types) = 6
  /\ Type = {"Interface", "boolean", "double", "float", "long", "string"}
  /\ ToSet(webidl_types) = Type
<1>1. /\ Len(webidl_types) = 6 /\ DOMAIN webidl_types = 1 .. 6
      /\ webidl_types[1] = "Interface" /\ webidl_types[2] = "boolean"
      /\ webidl_types[3] = "double" /\ webidl_types[4] = "float"
      /\ webidl_types[5] = "long" /\ webidl_types[6] = "string"
  BY DEF webidl_types
<1>2. \A i : i \in 1 .. 6 <=> i \in {1, 2, 3, 4, 5, 6}
  OBVIOUS
<1>3. webidl_types \in Seq({"Interface", "boolean", "double", "float", "long", "string"})
  BY DEF webidl_types
<1>. HIDE DEF webidl_types
<1>4. Type = {"Interface", "boolean", "double", "float", "long", "string"}
  BY <1>1, <1>2, Zenon DEF Type, Range
<1>5. webidl_types \in Seq(Type)
  BY <1>3, <1>4
<1>6. ToSet(webidl_types) = Type
  BY <1>1, <1>2, <1>4, Zenon DEF ToSet
<1>. QED BY <1>1, <1>4, <1>5, <1>6

(* The last of the types in a set, in their order. *)
LEMMA TypeListFacts ==
  ASSUME NEW types, types \subseteq Type
  PROVE  /\ webidl_type_list(types) \in Seq(Type)
         /\ ToSet(webidl_type_list(types)) = types
         /\ Len(webidl_type_list(types)) \in Nat
         /\ types = {} <=> Len(webidl_type_list(types)) = 0
         /\ \A k \in 1 .. Len(webidl_type_list(types)) : webidl_type_list(types)[k] \in types
         /\ types # {} => /\ Head(webidl_type_list(types)) \in types
                          /\ Last(webidl_type_list(types)) \in types
         /\ "string" \in types => Last(webidl_type_list(types)) = "string"
<1>. DEFINE list == webidl_type_list(types)
<1>1. list \in Seq(Type) /\ \E p : Places(p, list, webidl_types, types, Len(webidl_types))
  <2>1. webidl_types \in Seq(Type)
    BY Types
  <2>2. /\ Kept(webidl_types, types) \in Seq(Type)
        /\ \E p : Places(p, Kept(webidl_types, types), webidl_types, types, Len(webidl_types))
    BY <2>1, KeptPlaces
  <2>. QED BY <2>2 DEF webidl_type_list
<1>2. ToSet(list) = types
  <2>1. webidl_types \in Seq(Type) /\ ToSet(webidl_types) = Type
    BY Types
  <2>2. ToSet(Kept(webidl_types, types)) = ToSet(webidl_types) \cap types
    BY <2>1, MembersOfKept
  <2>. QED BY <2>1, <2>2 DEF webidl_type_list
<1>. HIDE DEF list
<1>3. Len(list) \in Nat /\ \A t : t \in types <=> \E k \in 1 .. Len(list) : list[k] = t
  BY <1>1, <1>2, Members
<1>4. types = {} <=> Len(list) = 0
  <2>1. CASE Len(list) = 0
    BY <1>3, <2>1
  <2>2. CASE Len(list) # 0
    <3>1. list[1] \in types
      <4>1. 1 \in 1 .. Len(list)
        BY <1>3, <2>2
      <4>. QED BY <1>3, <4>1
    <3>. QED BY <2>2, <3>1
  <2>. QED BY <2>1, <2>2
<1>5. types # {} => Head(list) \in types /\ Last(list) \in types
  <2>. SUFFICES ASSUME types # {}
                PROVE  Head(list) \in types /\ Last(list) \in types
    OBVIOUS
  <2>1. 1 \in 1 .. Len(list) /\ Len(list) \in 1 .. Len(list)
    BY <1>3, <1>4
  <2>2. list # << >>
    BY <2>1
  <2>3. Head(list) = list[1]
    BY <1>1, <2>2
  <2>. QED BY <1>3, <2>1, <2>3 DEF Last
<1>6. "string" \in types => Last(list) = "string"
  <2>. SUFFICES ASSUME "string" \in types
                PROVE  Last(list) = "string"
    OBVIOUS
  <2>1. PICK p : Places(p, list, webidl_types, types, 6)
    BY <1>1, Types
  <2>2. webidl_types[6] = "string"
    BY DEF webidl_types
  <2>3. PICK k \in 1 .. Len(list) : p[k] = 6
    BY <2>1, <2>2 DEF Places
  <2>4. Len(list) \in 1 .. Len(list) /\ (k = Len(list) \/ k < Len(list))
    BY <1>3
  <2>5. p[Len(list)] \in 1 .. 6 /\ (k < Len(list) => p[k] < p[Len(list)])
    BY <2>1, <2>4 DEF Places
  <2>6. k = Len(list)
    BY <2>3, <2>4, <2>5
  <2>. QED BY <2>1, <2>2, <2>3, <2>6 DEF Places, Last
<1>. QED BY <1>1, <1>2, <1>3, <1>4, <1>5, <1>6 DEF list

Numbers(types) == types \cap {"double", "float", "long"}
Others(types) == types \cap {"Interface", "string"}

(* The number with the largest C type. *)
Largest(types) ==
  IF "double" \in types THEN {"double"}
  ELSE IF "float" \in types THEN {"float"}
  ELSE types \cap {"long"}

Rank(t) == IF t = "boolean" THEN 3 ELSE IF t \in {"double", "float", "long"} THEN 2 ELSE 1
RankOrder(list) == \A j, k \in 1 .. Len(list) : j < k => Rank(list[j]) <= Rank(list[k])

LEMMA TriedParts ==
  ASSUME NEW types, types \subseteq Type
  PROVE  j_to_c_type_list(types)
           = webidl_type_list(Others(types)) \o webidl_type_list(Largest(types))
               \o webidl_type_list(types \cap {"boolean"})
<1>1. DOMAIN c_type_size = {"double", "float", "long"}
  BY DEF c_type_size
<1>2. c_type_size["double"] = 66 /\ c_type_size["float"] = 65 /\ c_type_size["long"] = 31
  BY DEF c_type_size
<1>. DEFINE numeric == types \cap DOMAIN c_type_size
            largest == {t \in numeric : \A u \in numeric : c_type_size[t] >= c_type_size[u]}
<1>3. numeric = Numbers(types) /\ Numbers(types) \subseteq {"double", "float", "long"}
  BY <1>1 DEF Numbers
<1>4. largest = Largest(types)
  <2>1. CASE "double" \in types
    BY <1>2, <1>3, <2>1 DEF Largest, Numbers
  <2>2. CASE "double" \notin types /\ "float" \in types
    BY <1>2, <1>3, <2>2 DEF Largest, Numbers
  <2>3. CASE "double" \notin types /\ "float" \notin types
    BY <1>2, <1>3, <2>3 DEF Largest, Numbers
  <2>. QED BY <2>1, <2>2, <2>3
<1>5. types \ (numeric \cup {"boolean"}) = Others(types)
  BY <1>3, Types DEF Numbers, Others
<1>. QED BY <1>4, <1>5 DEF j_to_c_type_list

LEMMA TriedOrder ==
  ASSUME NEW types, types \subseteq Type
  PROVE  LET list == j_to_c_type_list(types)
         IN  /\ list \in Seq(Type) /\ Len(list) \in Nat
             /\ RankOrder(list)
             /\ \A k \in 1 .. Len(list) : list[k] \in types
             /\ \A t \in Others(types) \cup Largest(types) \cup (types \cap {"boolean"}) :
                   \E k \in 1 .. Len(list) : list[k] = t
             /\ \A k \in 1 .. Len(list) :
                   list[k] \in Others(types) \cup Largest(types) \cup (types \cap {"boolean"})
             /\ types # {} => list # << >> /\ Last(list) \in types
             /\ Last(list) = "Interface" /\ types # {} => types = {"Interface"}
<1>. DEFINE first  == webidl_type_list(Others(types))
            second == webidl_type_list(Largest(types))
            third  == webidl_type_list(types \cap {"boolean"})
            both   == first \o second
            list   == both \o third
            a      == Len(first)
            b      == Len(first) + Len(second)
<1>1. j_to_c_type_list(types) = list
  BY TriedParts
<1>2. Others(types) \subseteq Type /\ Largest(types) \subseteq Type /\ types \cap {"boolean"} \subseteq Type
  BY Types DEF Others, Largest
<1>3. /\ first \in Seq(Type) /\ Len(first) \in Nat /\ ToSet(first) = Others(types)
      /\ \A k \in 1 .. Len(first) : first[k] \in Others(types)
  BY <1>2, TypeListFacts
<1>4. /\ second \in Seq(Type) /\ Len(second) \in Nat /\ ToSet(second) = Largest(types)
      /\ \A k \in 1 .. Len(second) : second[k] \in Largest(types)
      /\ Largest(types) = {} <=> Len(second) = 0
  BY <1>2, TypeListFacts
<1>5. /\ third \in Seq(Type) /\ Len(third) \in Nat /\ ToSet(third) = types \cap {"boolean"}
      /\ \A k \in 1 .. Len(third) : third[k] \in types \cap {"boolean"}
      /\ types \cap {"boolean"} = {} <=> Len(third) = 0
  BY <1>2, TypeListFacts
<1>6. Others(types) # {} => Last(first) \in Others(types)
  BY <1>2, TypeListFacts
<1>7. "string" \in types => Last(first) = "string"
  BY <1>2, TypeListFacts DEF Others
<1>. HIDE DEF first, second, third
<1>8. /\ both \in Seq(Type) /\ Len(both) = b
      /\ \A k \in 1 .. b : both[k] = IF k <= a THEN first[k] ELSE second[k - a]
  BY <1>3, <1>4, ConcatProperties
<1>9. ToSet(both) = Others(types) \cup Largest(types)
  BY <1>3, <1>4, MembersOfConcat
<1>. HIDE DEF both
<1>10. /\ list \in Seq(Type) /\ Len(list) = b + Len(third)
       /\ \A k \in 1 .. b + Len(third) : list[k] = IF k <= b THEN both[k] ELSE third[k - b]
  <2>1. /\ list \in Seq(Type) /\ Len(list) = Len(both) + Len(third)
        /\ \A k \in 1 .. Len(both) + Len(third) :
              list[k] = IF k <= Len(both) THEN both[k] ELSE third[k - Len(both)]
    BY <1>5, <1>8, ConcatProperties
  <2>2. Len(both) = b
    BY <1>8
  <2>. HIDE DEF list, b
  <2>. QED BY <2>1, <2>2
<1>11. ToSet(list) = Others(types) \cup Largest(types) \cup (types \cap {"boolean"})
  BY <1>5, <1>8, <1>9, MembersOfConcat
<1>. HIDE DEF list
<1>12. Len(list) \in Nat /\ \A t : t \in ToSet(list) <=> \E k \in 1 .. Len(list) : list[k] = t
  BY <1>10, Members
<1>13. \A k \in 1 .. Len(list) :
          list[k] \in IF k <= a THEN Others(types)
                      ELSE IF k <= b THEN Largest(types) ELSE types \cap {"boolean"}
  <2>. TAKE k \in 1 .. Len(list)
  <2>1. CASE k <= a
    <3>1. k \in 1 .. a /\ k <= b /\ k \in 1 .. b
      BY <1>3, <1>4, <2>1
    <3>2. list[k] = first[k]
      BY <1>8, <1>10, <2>1, <3>1
    <3>. QED BY <1>3, <2>1, <3>1, <3>2
  <2>2. CASE k > a /\ k <= b
    <3>1. k - a \in 1 .. Len(second) /\ k \in 1 .. b /\ ~ (k <= a)
      BY <1>3, <1>4, <2>2
    <3>2. list[k] = second[k - a]
      BY <1>8, <1>10, <2>2, <3>1
    <3>. QED BY <1>4, <2>2, <3>1, <3>2
  <2>3. CASE k > b
    <3>1. k - b \in 1 .. Len(third) /\ ~ (k <= b) /\ ~ (k <= a)
      BY <1>3, <1>4, <1>5, <1>10, <2>3
    <3>2. list[k] = third[k - b]
      BY <1>10, <3>1
    <3>. QED BY <1>5, <3>1, <3>2
  <2>. QED BY <1>3, <1>4, <2>1, <2>2, <2>3
<1>14. /\ \A t \in Others(types) : Rank(t) = 1 /\ t \in types
       /\ \A t \in Largest(types) : Rank(t) = 2 /\ t \in types
       /\ \A t \in types \cap {"boolean"} : Rank(t) = 3
  BY DEF Others, Largest, Rank
<1>15. \A k \in 1 .. Len(list) :
          /\ Rank(list[k]) = IF k <= a THEN 1 ELSE IF k <= b THEN 2 ELSE 3
          /\ list[k] \in types
  BY <1>13, <1>14
<1>16. RankOrder(list)
  <2>1. a \in Nat /\ b \in Nat /\ a <= b
    BY <1>3, <1>4
  <2>. HIDE DEF a, b
  <2>. QED BY <1>15, <2>1 DEF RankOrder
<1>17. types # {} => list # << >> /\ Len(list) \in 1 .. Len(list)
  <2>. SUFFICES ASSUME types # {} PROVE list # << >> /\ Len(list) \in 1 .. Len(list)
    OBVIOUS
  <2>1. \E t : t \in ToSet(list)
    BY <1>11, Types DEF Others, Largest
  <2>2. Len(list) # 0
    BY <1>12, <2>1
  <2>. QED BY <1>10, <1>12, <2>2
<1>18. ASSUME Last(list) = "Interface", types # {}
       PROVE  types = {"Interface"}
  <2>1. Len(list) \in 1 .. Len(list) /\ list[Len(list)] = "Interface"
    BY <1>17, <1>18 DEF Last
  <2>2. Len(list) <= a
    BY <1>15, <2>1 DEF Rank
  <2>3. Len(second) = 0 /\ Len(third) = 0 /\ Len(list) = a
    BY <1>3, <1>4, <1>5, <1>10, <2>2
  <2>4. types \subseteq {"Interface", "string"}
    BY <1>4, <1>5, <2>3, Types DEF Largest
  <2>5. list[a] = first[a]
    <3>1. a \in 1 .. b /\ a \in 1 .. b + Len(third) /\ a <= b
      BY <1>3, <2>1, <2>3
    <3>. QED BY <1>8, <1>10, <3>1
  <2>6. "string" \notin types
    BY <1>7, <2>1, <2>3, <2>5 DEF Last
  <2>. QED BY <1>18, <2>4, <2>6
<1>19. types # {} => Last(list) \in types
  BY <1>15, <1>17 DEF Last
<1>. QED BY <1>1, <1>10, <1>11, <1>12, <1>15, <1>16, <1>17, <1>18, <1>19

(* Which values the types take: all numbers take the same. *)
LEMMA AcceptedValues ==
  ASSUME NEW h \in {"original", "new"}, NEW v
  PROVE  /\ Accepts(h, "string", v) <=> v \in {"text", "empty"}
         /\ Accepts(h, "Interface", v) <=> v = "object"
         /\ Accepts(h, "boolean", v) <=> h = "new" \/ v = "true"
         /\ \A t \in {"double", "float", "long"} :
               Accepts(h, t, v) <=> v = "num" \/ (h = "new" /\ v \in {"true", "empty"})
<1>1. /\ value_is("string", v) <=> v \in {"text", "empty"}
      /\ value_is("boolean", v) <=> v = "true"
      /\ value_is("Interface", v) <=> v = "object"
      /\ \A t \in {"double", "float", "long"} : value_is(t, v) <=> v = "num"
  BY DEF value_is
<1>2. DOMAIN c_type_size = {"double", "float", "long"}
  BY DEF c_type_size
<1>3. /\ arg_converts("string", v) <=> value_is("string", v)
      /\ arg_converts("boolean", v)
      /\ arg_converts("Interface", v) <=> value_is("Interface", v)
      /\ \A t \in {"double", "float", "long"} :
            arg_converts(t, v) <=> v \in {"num", "true", "empty"}
  BY <1>2 DEF arg_converts
<1>. QED BY <1>1, <1>3 DEF Accepts

Candidates(types) == Others(types) \cup Largest(types) \cup (types \cap {"boolean"})

LEMMA MemberIsFirst ==
  ASSUME NEW h, NEW types, types \subseteq Type, NEW v
  PROVE  LET m == MemberFor(h, types, v)
             takers == {t \in Candidates(types) : Accepts(h, t, v)}
         IN  IF takers = {} THEN m = "None"
             ELSE m \in takers /\ \A t \in takers : Rank(m) <= Rank(t)
<1>. DEFINE list == j_to_c_type_list(types)
            I == {k \in 1 .. Len(list) : Accepts(h, list[k], v)}
            first == SelectInSeq(list, LAMBDA t : Accepts(h, t, v))
            takers == {t \in Candidates(types) : Accepts(h, t, v)}
<1>1. /\ Len(list) \in Nat /\ RankOrder(list)
      /\ \A t \in Candidates(types) : \E k \in 1 .. Len(list) : list[k] = t
      /\ \A k \in 1 .. Len(list) : list[k] \in Candidates(types)
  BY TriedOrder DEF Candidates
<1>2. first = IF I # {} THEN Min(I) ELSE 0
  BY DEF SelectInSeq
<1>3. MemberFor(h, types, v) = IF first = 0 THEN "None" ELSE list[first]
  BY DEF MemberFor
<1>4. I \subseteq Nat /\ \A k \in I : k \in 1 .. Len(list) /\ k # 0 /\ Accepts(h, list[k], v)
  OBVIOUS
<1>5. I = {} <=> takers = {}
  BY <1>1
<1>6. \A t \in takers : \E k \in I : list[k] = t
  BY <1>1
<1>. HIDE DEF list, I, first
<1>7. CASE I = {}
  BY <1>2, <1>3, <1>5, <1>7
<1>8. CASE I # {}
  <2>1. \E x \in I : \A y \in I : x <= y
    BY <1>4, <1>8, LeastNumber
  <2>2. Min(I) \in I /\ \A y \in I : Min(I) <= y
    BY <2>1 DEF Min
  <2>. DEFINE k == Min(I)
              m == list[k]
  <2>. HIDE DEF k
  <2>3. k \in I /\ (\A y \in I : k <= y) /\ k \in 1 .. Len(list)
    BY <1>4, <2>2 DEF k
  <2>4. MemberFor(h, types, v) = m /\ m \in takers
    BY <1>1, <1>2, <1>3, <1>4, <1>8, <2>3 DEF k
  <2>5. ASSUME NEW t \in takers
        PROVE  Rank(m) <= Rank(t)
    <3>1. PICK j \in I : list[j] = t
      BY <1>6
    <3>2. j \in 1 .. Len(list) /\ k <= j /\ j \in Nat /\ k \in Nat
      BY <1>4, <2>3
    <3>3. CASE k = j
      BY <3>1, <3>3 DEF Rank
    <3>4. CASE k < j
      BY <1>1, <2>3, <3>1, <3>2, <3>4 DEF RankOrder
    <3>. QED BY <3>2, <3>3, <3>4
  <2>. QED BY <1>5, <1>8, <2>4, <2>5
<1>. QED BY <1>7, <1>8

(* A value goes to a member that takes it, if there is one. *)
LEMMA MemberTakes ==
  ASSUME NEW h \in {"original", "new"}, NEW types, types \subseteq Type, NEW v
  PROVE  LET m == MemberFor(h, types, v)
         IN  /\ m = "None" <=> \A t \in types : ~ Accepts(h, t, v)
             /\ m # "None" => m \in types /\ Accepts(h, m, v)
<1>. DEFINE m == MemberFor(h, types, v)
            takers == {t \in Candidates(types) : Accepts(h, t, v)}
<1>1. IF takers = {} THEN m = "None" ELSE m \in takers
  BY MemberIsFirst
<1>2. Candidates(types) \subseteq types /\ "None" \notin types
  BY Types DEF Candidates, Others, Largest
<1>3. ASSUME NEW t \in types, Accepts(h, t, v)
      PROVE  takers # {}
  <2>1. CASE t \in {"double", "float", "long"}
    <3>1. PICK u \in Largest(types) : u \in {"double", "float", "long"}
      BY <2>1 DEF Largest
    <3>2. Accepts(h, u, v)
      BY <1>3, <2>1, <3>1, AcceptedValues
    <3>. QED BY <3>1, <3>2 DEF Candidates
  <2>2. CASE t \notin {"double", "float", "long"}
    BY <1>3, <2>2, Types DEF Candidates, Others
  <2>. QED BY <2>1, <2>2
<1>. HIDE DEF m
<1>. QED BY <1>1, <1>2, <1>3 DEF m

----------------------------------------------------------------------------
(* The types of the variables.                                              *)

(* The default value of a parameter of any type. *)
LEMMA DefaultsAreTyped ==
  ASSUME NEW types, types \subseteq Type, types # {}
  PROVE  default_name(types) \in types /\ Last(j_to_c_type_list(types)) \in types
<1>1. default_name(types) \in types
  BY TypeListFacts DEF default_name
<1>2. Last(j_to_c_type_list(types)) \in types
  BY TriedOrder
<1>. QED BY <1>1, <1>2

LEMMA ParameterFacts ==
  ASSUME IsParameterList(parameters), NEW i \in Positions
  PROVE  /\ parameters[i].type \subseteq Type /\ parameters[i].type # {}
         /\ parameters[i].optional \in BOOLEAN /\ parameters[i].variadic \in BOOLEAN
         /\ parameters[i].variadic => i = Len(parameters)
         /\ Len(parameters) \in Nat /\ i \in Nat
<1>1. Len(parameters) \in Nat /\ i \in 1 .. Len(parameters) /\ parameters[i] \in Parameter
  BY DEF IsParameterList, Positions
<1>2. parameters[i].variadic => i = Len(parameters)
  BY <1>1 DEF IsParameterList
<1>3. \A p \in Parameter : /\ p.type \subseteq Type /\ p.type # {}
                          /\ p.optional \in BOOLEAN /\ p.variadic \in BOOLEAN
  BY DEF Parameter
<1>. QED BY <1>1, <1>2, <1>3

LEMMA DefaultValueIsTyped ==
  ASSUME IsParameterList(parameters), NEW i \in Positions, NEW place
  PROVE  LET v == DefaultValue(i, place)
         IN  /\ v = [place |-> place, holds |-> v.holds, field |-> v.field,
                     union_type |-> v.union_type]
             /\ v.holds = "default" /\ v.field \in Type
             /\ v.union_type \in Type \cup {"indeterminate"}
<1>. DEFINE type == parameters[i].type
<1>1. default_name(type) \in Type
  BY ParameterFacts, DefaultsAreTyped
<1>. QED BY <1>1 DEF DefaultValue

LEMMA DeclaredIsTyped ==
  ASSUME IsParameterList(parameters), NEW i \in Positions
  PROVE  Declared(i) \in Variable
<1>1. \A place \in {"unset", "null", "literal", "number", "heap", "array"} :
         DefaultValue(i, place) \in Variable
  <2>. TAKE place \in {"unset", "null", "literal", "number", "heap", "array"}
  <2>. DEFINE v == DefaultValue(i, place)
  <2>1. /\ v = [place |-> place, holds |-> v.holds, field |-> v.field,
                union_type |-> v.union_type]
        /\ v.holds = "default" /\ v.field \in Type
        /\ v.union_type \in Type \cup {"indeterminate"}
    BY DefaultValueIsTyped
  <2>. HIDE DEF v
  <2>2. v \in Variable
    BY <2>1 DEF Variable
  <2>. QED BY <2>2 DEF v
<1>2. \A v \in Variable : [v EXCEPT !.holds = "nothing"] \in Variable
  BY DEF Variable
<1>. QED BY <1>1, <1>2 DEF Declared

(* What is assumed of the inputs of a handler. *)
InputTyped == handling \in {"original", "new"} /\ IsParameterList(parameters)

LEMMA CalledIsTyped ==
  ASSUME IsParameterList(parameters), handling \in Handlings, returns \in Returns,
         args \in Seq(Value), Called
  PROVE  TypeOK
<1>1. Len(parameters) \in Nat
  BY DEF IsParameterList
<1>2. variables \in [Positions -> Variable]
  BY DeclaredIsTyped DEF Called
<1>3. length \in 0 .. Word - 1
  BY WordAssumption DEF Called
<1>4. /\ pc = "arguments" /\ next = 1 /\ heap = {} /\ created = FALSE /\ _error = FALSE
      /\ return_value = Indeterminate /\ string_value = "none" /\ result = "none"
      /\ new_interface \in {"none", "held"}
  BY DEF Called
<1>5. parameters \in Seq(Parameter)
  BY DEF IsParameterList
<1>6. next \in 1 .. Len(parameters) + 1
  BY <1>1, <1>4
<1>. QED BY <1>2, <1>3, <1>4, <1>5, <1>6 DEF TypeOK

----------------------------------------------------------------------------
(* What reading a parameter stores.                                         *)

(* The variable that an argument of a plain parameter goes to. *)
Holding(member) ==
  [place |-> IF member = "string" THEN "heap" ELSE "number",
   holds |-> "argument", field |-> member, union_type |-> member]

Member(i) == MemberFor(handling, parameters[i].type, value(i))

ElementsAreRight(i) ==
  IF handling = "original" THEN all_correct_types(i)
  ELSE \A k \in i .. Len(args) : IsOfType(parameters[i].type, args[k])

(* Parameter i was read into the variable v. *)
ReadInto(i, v) ==
  IF parameters[i].variadic
  THEN v.place = "array" /\ v.holds = "argument" /\ ElementsAreRight(i)
  ELSE IF Passed(i) THEN Member(i) # "None" /\ v = Holding(Member(i))
  ELSE /\ MayBeLeftOut(i)
       /\ v.holds \in {"default", "zero"} /\ v.place \notin {"unset", "null"}

LEMMA MembersAreTypes ==
  ASSUME InputTyped, NEW i \in Positions
  PROVE  Member(i) = "None" \/ Member(i) \in parameters[i].type
BY ParameterFacts, MemberTakes DEF InputTyped, Member

LEMMA ReadVariadicStores ==
  ASSUME TypeOK, InputTyped, NEW i \in Positions, parameters[i].variadic, ReadVariadic(i)
  PROVE  \E v \in Variable, cells \in SUBSET Nat :
            Store(i, v, cells) /\ ReadInto(i, v) /\ length' \in 0 .. Word - 1
<1>. DEFINE v     == [DefaultValue(i, "array") EXCEPT !.holds = "argument"]
            cells == IF Given(i) THEN {Items} \cup Elements(i) ELSE {}
<1>1. Store(i, v, cells) /\ length' = NumberOfElements(i) /\ ElementsAreRight(i)
  BY DEF ReadVariadic, ElementsAreRight
<1>2. v \in Variable /\ v.place = "array" /\ v.holds = "argument"
  <2>. DEFINE d == DefaultValue(i, "array")
  <2>1. /\ d = [place |-> "array", holds |-> d.holds, field |-> d.field,
                union_type |-> d.union_type]
        /\ d.holds = "default" /\ d.field \in Type
        /\ d.union_type \in Type \cup {"indeterminate"}
    BY DefaultValueIsTyped DEF InputTyped
  <2>. HIDE DEF d
  <2>2. d \in Variable /\ d.place = "array"
    BY <2>1 DEF Variable
  <2>3. [d EXCEPT !.holds = "argument"] \in Variable
    BY <2>2 DEF Variable
  <2>4. [d EXCEPT !.holds = "argument"].place = "array"
        /\ [d EXCEPT !.holds = "argument"].holds = "argument"
    BY <2>2 DEF Variable
  <2>. QED BY <2>3, <2>4 DEF d
<1>3. Len(args) \in Nat /\ i \in Nat /\ Word \in Nat \ {0}
  BY ParameterFacts, WordAssumption DEF TypeOK, InputTyped
<1>4. cells \in SUBSET Nat
  BY <1>3 DEF Elements, Items
<1>5. NumberOfElements(i) \in 0 .. Word - 1
  <2>1. Len(args) - (i - 1) \in Int
    BY <1>3
  <2>2. \A n \in Int : n % Word \in 0 .. Word - 1
    BY <1>3
  <2>. QED BY <2>1, <2>2 DEF NumberOfElements
<1>. HIDE DEF v, cells
<1>6. ReadInto(i, v)
  BY <1>1, <1>2 DEF ReadInto
<1>. QED BY <1>1, <1>2, <1>4, <1>5, <1>6

LEMMA ReadArgumentStores ==
  ASSUME TypeOK, InputTyped, NEW i \in Positions, ~ parameters[i].variadic, ReadArgument(i)
  PROVE  \E v \in Variable, cells \in SUBSET Nat :
            Store(i, v, cells) /\ ReadInto(i, v) /\ length' \in 0 .. Word - 1
<1>. DEFINE m     == Member(i)
            v     == Holding(m)
            cells == IF m = "string" THEN {i} ELSE {}
<1>1. Store(i, v, cells) /\ length' = length /\ Passed(i) /\ m # "None"
  BY DEF ReadArgument, StoreArgument, IsOfType, Holding, Member
<1>2. m \in Type /\ i \in Nat
  BY <1>1, MembersAreTypes, ParameterFacts DEF InputTyped
<1>. HIDE DEF m
<1>3. v \in Variable /\ cells \in SUBSET Nat
  BY <1>2 DEF Holding, Variable
<1>4. ReadInto(i, v)
  BY <1>1 DEF ReadInto, m
<1>5. length' \in 0 .. Word - 1
  BY <1>1 DEF TypeOK
<1>. HIDE DEF v, cells
<1>. QED BY <1>1, <1>3, <1>4, <1>5

LEMMA UseDefaultStores ==
  ASSUME TypeOK, InputTyped, NEW i \in Positions, ~ parameters[i].variadic, UseDefault(i),
         variables[i] = Declared(i)
  PROVE  \E v \in Variable, cells \in SUBSET Nat :
            Store(i, v, cells) /\ ReadInto(i, v) /\ length' \in 0 .. Word - 1
<1>1. ~ Passed(i) /\ MayBeLeftOut(i) /\ length' \in 0 .. Word - 1 /\ i \in Nat
  BY ParameterFacts DEF UseDefault, TypeOK, InputTyped
<1>2. \A v : v.holds \in {"default", "zero"} /\ v.place \notin {"unset", "null"} => ReadInto(i, v)
  BY <1>1 DEF ReadInto
<1>3. \A place \in {"literal", "heap", "number"} :
         /\ DefaultValue(i, place) \in Variable
         /\ DefaultValue(i, place).place = place
         /\ DefaultValue(i, place).holds = "default"
  <2>. TAKE place \in {"literal", "heap", "number"}
  <2>. DEFINE d == DefaultValue(i, place)
  <2>1. /\ d = [place |-> place, holds |-> d.holds, field |-> d.field,
                union_type |-> d.union_type]
        /\ d.holds = "default" /\ d.field \in Type
        /\ d.union_type \in Type \cup {"indeterminate"}
    BY DefaultValueIsTyped DEF InputTyped
  <2>. HIDE DEF d
  <2>2. d \in Variable /\ d.place = place /\ d.holds = "default"
    BY <2>1 DEF Variable
  <2>. QED BY <2>2 DEF d
<1>4. CASE handling = "original"
  <2>1. \E place \in {"literal", "heap", "number"} : \E cells \in {{}, {i}} :
           Store(i, DefaultValue(i, place), cells)
    BY <1>4 DEF UseDefault, OriginalDefault
  <2>2. PICK place \in {"literal", "heap", "number"}, cells \in {{}, {i}} :
           Store(i, DefaultValue(i, place), cells)
    BY <2>1
  <2>. DEFINE d == DefaultValue(i, place)
  <2>3. d \in Variable /\ ReadInto(i, d) /\ cells \in SUBSET Nat
    BY <1>1, <1>2, <1>3
  <2>. QED BY <1>1, <2>2, <2>3
<1>5. CASE handling = "new"
  <2>. DEFINE d == variables[i]
              member == Last(j_to_c_type_list(parameters[i].type))
              kept == [d EXCEPT !.union_type = member]
              zero == [d EXCEPT !.union_type = member, !.field = member, !.holds = "zero"]
  <2>1. Store(i, kept, {}) \/ Store(i, zero, {})
    BY <1>5, Zenon DEF UseDefault, NewDefault
  <2>2. member \in Type
    <3>1. parameters[i].type \subseteq Type /\ parameters[i].type # {}
      BY ParameterFacts DEF InputTyped
    <3>. QED BY <3>1, DefaultsAreTyped
  <2>3. d \in Variable /\ d.holds = "default" /\ d.place \in {"literal", "number"}
    <3>1. parameters[i].optional
      BY <1>1 DEF MayBeLeftOut
    <3>2. d \in {DefaultValue(i, "literal"), DefaultValue(i, "number")}
      BY <1>5, <3>1 DEF Declared
    <3>. QED BY <1>3, <3>2
  <2>. HIDE DEF d, member
  <2>4. /\ kept \in Variable /\ zero \in Variable
        /\ kept.holds = "default" /\ zero.holds = "zero"
        /\ kept.place = d.place /\ zero.place = d.place
    BY <2>2, <2>3 DEF Variable
  <2>. HIDE DEF kept, zero
  <2>5. ReadInto(i, kept) /\ ReadInto(i, zero)
    BY <1>2, <2>3, <2>4
  <2>. QED BY <1>1, <2>1, <2>4, <2>5
<1>. QED BY <1>4, <1>5 DEF InputTyped

LEMMA ReadStoresVariable ==
  ASSUME TypeOK, InputTyped, NEW i \in Positions, Read(i), variables[i] = Declared(i)
  PROVE  \E v \in Variable, cells \in SUBSET Nat :
            Store(i, v, cells) /\ ReadInto(i, v) /\ length' \in 0 .. Word - 1
BY ReadVariadicStores, ReadArgumentStores, UseDefaultStores DEF Read

(* Why parameter i was not read. *)
Refused(i) ==
  LET type == parameters[i].type
  IN  IF handling = "original"
      THEN \/ ~parameters[i].variadic /\ ~Absent(i) /\ ~IsOfType(type, args[i]) /\ _error
           \/ ~parameters[i].variadic /\ Absent(i) /\ ~parameters[i].optional
           \/ parameters[i].variadic /\ ~all_correct_types(i)
      ELSE \/ ~parameters[i].variadic /\ Passed(i) /\ ~IsOfType(type, value(i))
           \/ ~parameters[i].variadic /\ ~Passed(i) /\ ~MayBeLeftOut(i)
           \/ parameters[i].variadic /\ \E k \in i .. Len(args) : ~IsOfType(type, args[k])

(* Parameters are read one after the other, and the stub is called when all *)
(* have been.                                                               *)
ReadSound ==
  /\ \A i \in Positions : i < next => ReadInto(i, variables[i])
  /\ pc = "arguments" => /\ return_value = Indeterminate
                         /\ \A i \in Positions : i >= next => variables[i] = Declared(i)
  /\ StubWasCalled => next = Len(parameters) + 1

(* A handler that did not call the stub refused a parameter. *)
RefusalSound ==
  /\ pc \notin {"arguments", "idle"} /\ ~StubWasCalled =>
       /\ next \in Positions /\ Refused(next)
       /\ handling = "new" => pc = "returned" /\ result = "error"
  /\ pc = "returned" /\ _error => result = "error"

HandlerSound == TypeOK /\ InputTyped /\ ReadSound /\ RefusalSound

LEMMA CalledIsSound ==
  ASSUME IsParameterList(parameters), handling \in Handlings, returns \in Returns,
         args \in Seq(Value), Called
  PROVE  HandlerSound
<1>1. TypeOK
  BY CalledIsTyped
<1>2. InputTyped
  BY HandlingsAssumption DEF InputTyped
<1>3. ReadSound
  <2>1. \A i \in Positions : ~ (i < next)
    BY DEF Called, Positions
  <2>2. \A i \in Positions : variables[i] = Declared(i)
    BY DEF Called
  <2>. QED BY <2>1, <2>2 DEF ReadSound, Called, StubWasCalled
<1>4. RefusalSound
  BY DEF RefusalSound, Called
<1>. QED BY <1>1, <1>2, <1>3, <1>4 DEF HandlerSound

(* Nothing that is known of a parameter depends on what changes. *)
LEMMA InputIsStable ==
  ASSUME UNCHANGED input
  PROVE  /\ Positions' = Positions /\ InputTyped' = InputTyped
         /\ \A i : Declared(i)' = Declared(i)
         /\ \A i, v : ReadInto(i, v)' <=> ReadInto(i, v)
         /\ \A i : (_error' = _error) => (Refused(i)' <=> Refused(i))
<1>1. handling' = handling /\ parameters' = parameters /\ args' = args /\ returns' = returns
  BY DEF input
<1>2. Positions' = Positions /\ InputTyped' = InputTyped
  BY <1>1 DEF Positions, InputTyped
<1>3. \A i, place : DefaultValue(i, place)' = DefaultValue(i, place)
  BY <1>1 DEF DefaultValue
<1>4. \A i : is_string(i)' = is_string(i)
  BY <1>1 DEF is_string
<1>5. \A i : Declared(i)' = Declared(i)
  BY <1>1, <1>3, <1>4 DEF Declared
<1>6. \A i : /\ Absent(i)' = Absent(i) /\ Passed(i)' = Passed(i)
             /\ value(i)' = value(i) /\ MayBeLeftOut(i)' = MayBeLeftOut(i)
             /\ Given(i)' = Given(i)
  BY <1>1 DEF Absent, Passed, value, MayBeLeftOut, Given
<1>7. \A type, v : IsOfType(type, v)' = IsOfType(type, v)
  BY <1>1 DEF IsOfType
<1>8. \A i : all_correct_types(i)' = all_correct_types(i)
  BY <1>1, <1>6, <1>7 DEF all_correct_types
<1>9. \A i : ElementsAreRight(i)' = ElementsAreRight(i)
  BY <1>1, <1>7, <1>8 DEF ElementsAreRight
<1>10. \A i : Member(i)' = Member(i)
  BY <1>1, <1>6 DEF Member
<1>11. \A i, v : ReadInto(i, v)' <=> ReadInto(i, v)
  BY <1>1, <1>6, <1>9, <1>10 DEF ReadInto
<1>12. \A i : (_error' = _error) => (Refused(i)' <=> Refused(i))
  BY <1>1, <1>6, <1>7, <1>8 DEF Refused
<1>. QED BY <1>2, <1>5, <1>11, <1>12

LEMMA ReadIsSound ==
  ASSUME HandlerSound, pc = "arguments", next \in Positions, Read(next), UNCHANGED input
  PROVE  HandlerSound'
<1>1. TypeOK /\ InputTyped /\ ReadSound /\ RefusalSound
  BY DEF HandlerSound
<1>2. variables[next] = Declared(next) /\ next \in Nat /\ Len(parameters) \in Nat
  BY <1>1, ParameterFacts DEF ReadSound, InputTyped
<1>3. PICK v \in Variable, cells \in SUBSET Nat :
         Store(next, v, cells) /\ ReadInto(next, v) /\ length' \in 0 .. Word - 1
  BY <1>1, <1>2, ReadStoresVariable
<1>4. /\ variables' = [variables EXCEPT ![next] = v] /\ heap' = heap \cup cells
      /\ next' = next + 1 /\ pc' = pc /\ UNCHANGED outcome
  BY <1>3 DEF Store
<1>5. variables \in [Positions -> Variable]
  BY <1>1 DEF TypeOK
<1>6. /\ Positions' = Positions /\ InputTyped'
      /\ \A i : Declared(i)' = Declared(i)
      /\ \A i, w : ReadInto(i, w)' <=> ReadInto(i, w)
  BY <1>1, InputIsStable
<1>7. /\ variables' \in [Positions -> Variable] /\ variables'[next] = v
      /\ \A i \in Positions : i # next => variables'[i] = variables[i]
  BY <1>3, <1>4, <1>5
<1>8. next' \in 1 .. Len(parameters) + 1
  BY <1>2, <1>4 DEF Positions
<1>9. TypeOK'
  BY <1>1, <1>3, <1>4, <1>6, <1>7, <1>8 DEF TypeOK, input, outcome, HeapCell
<1>10. ReadSound'
  <2>1. ASSUME NEW i \in Positions, i < next + 1
        PROVE  ReadInto(i, variables'[i])
    <3>1. CASE i = next
      BY <1>3, <1>7, <3>1
    <3>2. CASE i # next
      <4>1. i < next
        BY <1>2, <2>1, <3>2 DEF Positions
      <4>. QED BY <1>1, <1>7, <3>2, <4>1 DEF ReadSound
    <3>. QED BY <3>1, <3>2
  <2>2. ASSUME NEW i \in Positions, i >= next + 1
        PROVE  variables'[i] = Declared(i)
    <3>1. i # next /\ i >= next
      BY <1>2, <2>2 DEF Positions
    <3>. QED BY <1>1, <1>7, <3>1 DEF ReadSound
  <2>3. return_value' = Indeterminate
    BY <1>1, <1>4 DEF ReadSound, outcome
  <2>. QED BY <1>4, <1>6, <2>1, <2>2, <2>3 DEF ReadSound, StubWasCalled
<1>11. RefusalSound'
  BY <1>1, <1>4 DEF RefusalSound
<1>. QED BY <1>6, <1>9, <1>10, <1>11 DEF HandlerSound

LEMMA FailIsSound ==
  ASSUME HandlerSound, pc = "arguments", next \in Positions, Fail(next), UNCHANGED input
  PROVE  HandlerSound'
<1>1. TypeOK /\ InputTyped /\ ReadSound /\ RefusalSound
  BY DEF HandlerSound
<1>2. /\ UNCHANGED <<next, variables, length, new_interface, return_value, string_value>>
      /\ created' = TRUE
  BY DEF Fail
<1>3. /\ Positions' = Positions /\ InputTyped'
      /\ \A i : Declared(i)' = Declared(i)
      /\ \A i, w : ReadInto(i, w)' <=> ReadInto(i, w)
  BY <1>1, InputIsStable
<1>4. return_value' = Indeterminate /\ return_value = Indeterminate
  BY <1>1, <1>2 DEF ReadSound
<1>5. CASE handling = "original"
  <2>1. /\ WrongType(next) \/ TooFew(next)
        /\ pc' = "enter_string" /\ result' = result /\ heap' = heap /\ _error' \in BOOLEAN
    BY <1>1, <1>5 DEF Fail, WrongType, TooFew, TypeOK
  <2>2. TypeOK'
    BY <1>1, <1>2, <1>3, <2>1 DEF TypeOK, input
  <2>3. ReadSound'
    BY <1>1, <1>2, <1>3, <1>4, <2>1 DEF ReadSound, StubWasCalled
  <2>4. Refused(next)'
    <3>1. /\ handling' = handling /\ parameters' = parameters /\ args' = args /\ next' = next
      BY <1>2 DEF input
    <3>2. CASE WrongType(next)
      BY <1>5, <3>1, <3>2 DEF WrongType, Refused, Absent, Given, IsOfType
    <3>3. CASE TooFew(next)
      BY <1>5, <3>1, <3>3 DEF TooFew, Refused, Absent, Given, IsOfType, all_correct_types
    <3>. QED BY <2>1, <3>2, <3>3
  <2>5. next' \in Positions' /\ handling' # "new" /\ pc' # "returned"
    BY <1>2, <1>3, <1>5, <2>1 DEF input
  <2>6. RefusalSound'
    BY <2>4, <2>5 DEF RefusalSound
  <2>. QED BY <1>3, <2>2, <2>3, <2>6 DEF HandlerSound
<1>6. CASE handling = "new"
  <2>1. /\ ErrorInParameters(next)
        /\ pc' = "returned" /\ result' = "error" /\ _error' = _error
    BY <1>6 DEF Fail
  <2>2. heap' \subseteq Nat
    <3>1. heap \subseteq Nat /\ next \in Nat
      BY <1>1, ParameterFacts DEF TypeOK, HeapCell, InputTyped
    <3>2. Len(args) \in Nat
      BY <1>1 DEF TypeOK
    <3>3. Elements(next) \subseteq Nat /\ Items \in Nat
      BY <3>1, <3>2 DEF Elements, Items
    <3>. QED BY <2>1, <3>1, <3>3 DEF ErrorInParameters
  <2>3. TypeOK'
    BY <1>1, <1>2, <1>3, <2>1, <2>2 DEF TypeOK, input, HeapCell
  <2>4. ReadSound'
    BY <1>1, <1>2, <1>3, <1>4, <2>1 DEF ReadSound, StubWasCalled
  <2>5. Refused(next)
    BY <1>6, <2>1 DEF ErrorInParameters, Refused
  <2>6. Refused(next)'
    <3>1. /\ handling' = handling /\ parameters' = parameters /\ args' = args /\ next' = next
          /\ _error' = _error
      BY <1>2, <2>1 DEF input
    <3>2. \A type, v : IsOfType(type, v)' = IsOfType(type, v)
      BY <3>1 DEF IsOfType
    <3>. QED BY <2>5, <3>1, <3>2
             DEF Refused, Absent, Given, Passed, value, MayBeLeftOut, all_correct_types
  <2>7. RefusalSound'
    BY <1>2, <1>3, <2>1, <2>6 DEF RefusalSound
  <2>. QED BY <1>3, <2>3, <2>4, <2>7 DEF HandlerSound
<1>. QED BY <1>1, <1>5, <1>6 DEF InputTyped

(* After the arguments nothing that ReadSound speaks of changes. *)
LEMMA LaterStepsAreSound ==
  ASSUME HandlerSound, UNCHANGED <<input, next, variables>>, pc' \notin {"arguments", "idle"},
         _error' = _error, return_value' = return_value, pc # "idle"
  PROVE  /\ Positions' = Positions /\ InputTyped' /\ ReadSound'
         /\ ~StubWasCalled /\ pc # "arguments" => next' \in Positions' /\ Refused(next)'
<1>1. InputTyped /\ ReadSound /\ RefusalSound
  BY DEF HandlerSound
<1>2. /\ handling' = handling /\ parameters' = parameters /\ args' = args /\ next' = next
      /\ variables' = variables
  BY DEF input
<1>3. /\ Positions' = Positions /\ InputTyped' = InputTyped
      /\ \A i, w : ReadInto(i, w)' <=> ReadInto(i, w)
  BY InputIsStable
<1>4. ReadSound'
  BY <1>1, <1>2, <1>3 DEF ReadSound, StubWasCalled
<1>5. ASSUME ~ StubWasCalled, pc # "arguments"
      PROVE  next' \in Positions' /\ Refused(next)'
  <2>1. next \in Positions /\ Refused(next)
    BY <1>1, <1>5 DEF RefusalSound
  <2>2. \A type, v : IsOfType(type, v)' = IsOfType(type, v)
    BY <1>2 DEF IsOfType
  <2>3. Refused(next)'
    BY <1>2, <2>1, <2>2
       DEF Refused, Absent, Given, Passed, value, MayBeLeftOut, all_correct_types
  <2>. QED BY <1>2, <1>3, <2>1, <2>3
<1>. QED BY <1>1, <1>3, <1>4, <1>5

LEMMA CallStubIsSound ==
  ASSUME HandlerSound, CallStub
  PROVE  HandlerSound'
<1>1. TypeOK /\ InputTyped /\ ReadSound /\ RefusalSound
  BY DEF HandlerSound
<1>2. /\ pc = "arguments" /\ pc' = "enter_string" /\ next > Len(parameters)
      /\ UNCHANGED <<input, next, memory, new_interface, string_value, result>>
      /\ _error' \in BOOLEAN /\ created' = _error'
      /\ return_value' \in {Own} \cup Positions
  BY DEF CallStub
<1>3. /\ Positions' = Positions /\ InputTyped'
      /\ \A i, w : ReadInto(i, w)' <=> ReadInto(i, w)
  BY <1>1, <1>2, InputIsStable
<1>4. Len(parameters) \in Nat /\ next = Len(parameters) + 1
  BY <1>1, <1>2 DEF TypeOK
<1>5. TypeOK'
  BY <1>1, <1>2, <1>3 DEF TypeOK, input, memory
<1>6. ReadSound'
  BY <1>1, <1>2, <1>3, <1>4 DEF ReadSound, input, memory
<1>7. StubWasCalled'
  BY <1>2, <1>4 DEF StubWasCalled, Own, Indeterminate, Positions
<1>8. RefusalSound'
  BY <1>2, <1>7 DEF RefusalSound
<1>. QED BY <1>3, <1>5, <1>6, <1>8 DEF HandlerSound

LEMMA EnterStringIsSound ==
  ASSUME HandlerSound, EnterString
  PROVE  HandlerSound'
<1>1. TypeOK /\ InputTyped /\ RefusalSound
  BY DEF HandlerSound
<1>2. /\ pc = "enter_string" /\ pc' = "free_strings" /\ string_value' = CopiedFrom(heap)
      /\ UNCHANGED <<input, next, memory, new_interface, created, _error, return_value, result>>
  BY DEF EnterString
<1>3. /\ Positions' = Positions /\ InputTyped' /\ ReadSound'
      /\ ~StubWasCalled => next' \in Positions' /\ Refused(next)'
  BY <1>2, LaterStepsAreSound DEF memory
<1>4. CopiedFrom(heap) \in {"none", "own", "indeterminate", "freed"}
  BY DEF CopiedFrom
<1>5. TypeOK'
  BY <1>1, <1>2, <1>3, <1>4 DEF TypeOK, input, memory
<1>6. RefusalSound'
  BY <1>1, <1>2, <1>3 DEF RefusalSound, StubWasCalled, input
<1>. QED BY <1>3, <1>5, <1>6 DEF HandlerSound

LEMMA FreeStringsIsSound ==
  ASSUME HandlerSound, FreeStrings
  PROVE  HandlerSound'
<1>1. TypeOK /\ InputTyped /\ RefusalSound
  BY DEF HandlerSound
<1>2. /\ pc = "free_strings" /\ pc' = "return" /\ heap' \subseteq heap
      /\ UNCHANGED <<input, next, variables, length, outcome>>
  BY DEF FreeStrings
<1>3. /\ Positions' = Positions /\ InputTyped' /\ ReadSound'
      /\ ~StubWasCalled => next' \in Positions' /\ Refused(next)'
  BY <1>2, LaterStepsAreSound DEF outcome
<1>4. TypeOK'
  BY <1>1, <1>2, <1>3 DEF TypeOK, input, outcome
<1>5. RefusalSound'
  BY <1>1, <1>2, <1>3 DEF RefusalSound, StubWasCalled, input, outcome
<1>. QED BY <1>3, <1>4, <1>5 DEF HandlerSound

LEMMA ReturnIsSound ==
  ASSUME HandlerSound, Return
  PROVE  HandlerSound'
<1>1. TypeOK /\ InputTyped /\ RefusalSound
  BY DEF HandlerSound
<1>2. /\ pc = "return" /\ pc' = "returned" /\ result' = HandlerResult
      /\ UNCHANGED <<input, next, memory, created, _error, return_value, string_value>>
      /\ new_interface' \in {"none", "released", "returned"}
  BY DEF Return
<1>3. /\ Positions' = Positions /\ InputTyped' /\ ReadSound'
      /\ ~StubWasCalled => next' \in Positions' /\ Refused(next)'
  BY <1>2, LaterStepsAreSound DEF memory
<1>4. returns \in {"void", "number", "string", "this", "constructor"} /\ _error \in BOOLEAN
      /\ string_value \in {"none", "own", "indeterminate", "freed"}
  BY <1>1, ReturnsAssumption DEF TypeOK
<1>5. /\ HandlerResult \in {"none", "error", "own", "indeterminate", "freed", "void", "this",
                            "constructor"}
      /\ _error => HandlerResult = "error"
  BY <1>4 DEF HandlerResult
<1>6. TypeOK'
  BY <1>1, <1>2, <1>3, <1>5 DEF TypeOK, input, memory
<1>7. handling # "new" \/ StubWasCalled
  BY <1>1, <1>2 DEF RefusalSound
<1>8. RefusalSound'
  BY <1>1, <1>2, <1>3, <1>5, <1>7 DEF RefusalSound, StubWasCalled, input
<1>. QED BY <1>3, <1>6, <1>8 DEF HandlerSound

LEMMA HandlerStutters ==
  ASSUME HandlerSound, UNCHANGED vars
  PROVE  HandlerSound'
<1>1. TypeOK /\ InputTyped /\ ReadSound /\ RefusalSound
  BY DEF HandlerSound
<1>2. /\ UNCHANGED <<handling, parameters, returns, args, pc, next, variables, length, heap>>
      /\ UNCHANGED <<new_interface, created, _error, return_value, string_value, result>>
  BY DEF vars, input, memory, outcome
<1>3. /\ Positions' = Positions /\ InputTyped'
      /\ \A i : Declared(i)' = Declared(i)
      /\ \A i, w : ReadInto(i, w)' <=> ReadInto(i, w)
  BY <1>1, <1>2, InputIsStable DEF input
<1>4. TypeOK' /\ ReadSound'
  BY <1>1, <1>2, <1>3 DEF TypeOK, ReadSound, StubWasCalled
<1>5. Refused(next) => Refused(next)'
  <2>1. \A type, v : IsOfType(type, v)' = IsOfType(type, v)
    BY <1>2 DEF IsOfType
  <2>. QED BY <1>2, <2>1
           DEF Refused, Absent, Given, Passed, value, MayBeLeftOut, all_correct_types
<1>6. RefusalSound'
  BY <1>1, <1>2, <1>3, <1>5 DEF RefusalSound, StubWasCalled
<1>. QED BY <1>3, <1>4, <1>6 DEF HandlerSound

LEMMA StepIsSound ==
  ASSUME HandlerSound, Step
  PROVE  HandlerSound'
<1>1. CASE ReadParameter
  BY <1>1, ReadIsSound, FailIsSound DEF ReadParameter
<1>2. CASE CallStub
  BY <1>2, CallStubIsSound
<1>3. CASE EnterString
  BY <1>3, EnterStringIsSound
<1>4. CASE FreeStrings
  BY <1>4, FreeStringsIsSound
<1>5. CASE Return
  BY <1>5, ReturnIsSound
<1>. QED BY <1>1, <1>2, <1>3, <1>4, <1>5 DEF Step

(* What a handler knows of its parameters, in every state. *)
THEOREM HandlerSoundHolds == Spec => []HandlerSound
<1>1. Init => HandlerSound
  BY InitCalls, CalledIsSound
<1>2. HandlerSound /\ [Next]_vars => HandlerSound'
  <2>. SUFFICES ASSUME HandlerSound, [Next]_vars
                PROVE  HandlerSound'
    OBVIOUS
  <2>1. CASE Step
    BY <2>1, StepIsSound
  <2>2. CASE UNCHANGED vars
    BY <2>2, HandlerStutters
  <2>. QED BY <2>1, <2>2 DEF Next, Stop
<1>. QED BY <1>1, <1>2, PTL DEF Spec

(* Every variable has the type it is declared with: the C variables, the     *)
(* length of the array, what the handler returns.                            *)
THEOREM TypeCorrect == Spec => []TypeOK
<1>1. HandlerSound => TypeOK
  BY DEF HandlerSound
<1>. QED BY <1>1, HandlerSoundHolds, PTL

----------------------------------------------------------------------------
(* What the stub is called with.                                            *)

(* A plain argument that was passed is in its variable, as a member of the  *)
(* type that takes it.                                                      *)
LEMMA ArgumentIsHeld ==
  ASSUME InputTyped, NEW i \in Plain, ~Absent(i), NEW v, ReadInto(i, v)
  PROVE  /\ value(i) = args[i]
         /\ Member(i) \in parameters[i].type
         /\ Member(i) = MemberFor(handling, parameters[i].type, args[i])
         /\ Accepts(handling, Member(i), args[i])
         /\ v = Holding(Member(i))
<1>1. ~parameters[i].variadic /\ i \in Positions
  BY DEF Plain
<1>2. value(i) = args[i] /\ Passed(i)
  BY DEF Absent, value, Passed
<1>3. Member(i) # "None" /\ v = Holding(Member(i))
  BY <1>1, <1>2 DEF ReadInto
<1>4. parameters[i].type \subseteq Type /\ handling \in {"original", "new"}
  BY <1>1, ParameterFacts DEF InputTyped
<1>5. Member(i) \in parameters[i].type /\ Accepts(handling, Member(i), value(i))
  BY <1>3, <1>4, MemberTakes DEF Member
<1>. QED BY <1>2, <1>3, <1>5 DEF Member

(* An argument that is not passed is read only for its coercion. *)
LEMMA UndefinedIsBoolean ==
  ASSUME InputTyped, NEW i \in Plain, Absent(i), Passed(i), Member(i) # "None"
  PROVE  handling = "new" /\ Member(i) = "boolean" /\ "boolean" \in parameters[i].type
<1>1. i \in Positions /\ handling = "new"
  BY DEF Plain, Passed
<1>2. parameters[i].type \subseteq Type
  BY <1>1, ParameterFacts DEF InputTyped
<1>3. value(i) = "undefined"
  BY DEF Absent, value
<1>4. Member(i) \in parameters[i].type /\ Accepts("new", Member(i), "undefined")
  BY <1>1, <1>2, <1>3, MemberTakes DEF Member
<1>5. Member(i) \in {"Interface", "boolean", "double", "float", "long", "string"}
  BY <1>2, <1>4, Types
<1>6. Member(i) = "boolean"
  BY <1>4, <1>5, AcceptedValues
<1>. QED BY <1>1, <1>4, <1>6

(* A parameter of a handler whose stub runs has been read. *)
LEMMA AllAreRead ==
  ASSUME HandlerSound, StubWasCalled, NEW i \in Positions
  PROVE  InputTyped /\ ReadInto(i, variables[i])
<1>1. next = Len(parameters) + 1 /\ i \in 1 .. Len(parameters)
  BY DEF HandlerSound, ReadSound, Positions
<1>2. Len(parameters) \in Nat
  BY ParameterFacts DEF HandlerSound, InputTyped
<1>3. i < next
  BY <1>1, <1>2
<1>. QED BY <1>3 DEF HandlerSound, ReadSound

LEMMA StubGetsWhatItNeeds ==
  ASSUME HandlerSound
  PROVE  StubGetsItsArguments
<1>. SUFFICES ASSUME StubWasCalled, NEW i \in Positions
              PROVE  /\ variables[i].place \notin {"unset", "null"}
                     /\ variables[i].holds \in {"default", "zero"} => Absent(i) /\ parameters[i].optional
                     /\ i \in Plain /\ ~Absent(i) =>
                          /\ variables[i].holds = "argument"
                          /\ Accepts(handling, variables[i].union_type, args[i])
                          /\ variables[i].union_type = variables[i].field
                          /\ variables[i].union_type = "string" <=> variables[i].place = "heap"
  BY DEF StubGetsItsArguments
<1>1. InputTyped /\ ReadInto(i, variables[i])
  BY AllAreRead
<1>2. \A m : /\ Holding(m).holds = "argument" /\ Holding(m).place \in {"heap", "number"}
             /\ Holding(m).union_type = m /\ Holding(m).field = m
             /\ m = "string" <=> Holding(m).place = "heap"
  BY DEF Holding
<1>3. CASE parameters[i].variadic
  BY <1>1, <1>3 DEF ReadInto, Plain
<1>4. CASE ~parameters[i].variadic /\ Passed(i)
  <2>1. variables[i] = Holding(Member(i))
    BY <1>1, <1>4 DEF ReadInto
  <2>2. i \in Plain /\ ~Absent(i) => Accepts(handling, Member(i), args[i])
    BY <1>1, ArgumentIsHeld
  <2>. QED BY <1>2, <2>1, <2>2
<1>5. CASE ~parameters[i].variadic /\ ~Passed(i)
  <2>1. /\ MayBeLeftOut(i)
        /\ variables[i].holds \in {"default", "zero"} /\ variables[i].place \notin {"unset", "null"}
    BY <1>1, <1>5 DEF ReadInto
  <2>. QED BY <1>5, <2>1 DEF Passed, MayBeLeftOut
<1>. QED BY <1>3, <1>4, <1>5

(* The member that a value goes to, by the value. *)
LEMMA MemberByValue ==
  ASSUME NEW h \in {"original", "new"}, NEW types, types \subseteq Type, NEW v \in Value,
         v # "undefined"
  PROVE  LET m == MemberFor(h, types, v)
             numbers == types \cap {"double", "float", "long"}
         IN  /\ v \in {"text", "empty"} /\ "string" \in types => m = "string"
             /\ v = "object" /\ "Interface" \in types => m = "Interface"
             /\ v = "num" /\ numbers # {} => m \in Largest(types)
             /\ v = "true" /\ h = "new" /\ numbers # {} => m \in Largest(types)
             /\ v = "true" /\ ~ (h = "new" /\ numbers # {}) /\ "boolean" \in types =>
                   m = "boolean"
<1>. DEFINE m == MemberFor(h, types, v)
            takers == {t \in Candidates(types) : Accepts(h, t, v)}
            numbers == types \cap {"double", "float", "long"}
<1>1. IF takers = {} THEN m = "None"
      ELSE m \in takers /\ \A t \in takers : Rank(m) <= Rank(t)
  BY MemberIsFirst
<1>. HIDE DEF m
<1>2. \A t : t \in Candidates(types) <=>
         \/ t \in {"Interface", "string", "boolean"} /\ t \in types
         \/ t \in Largest(types)
  BY DEF Candidates, Others
<1>3. Largest(types) \subseteq numbers /\ (numbers # {} => Largest(types) # {})
  BY DEF Largest
<1>4. /\ Rank("string") = 1 /\ Rank("Interface") = 1 /\ Rank("boolean") = 3
      /\ \A t \in {"double", "float", "long"} : Rank(t) = 2
  BY DEF Rank
<1>5. ASSUME v \in {"text", "empty"}, "string" \in types
      PROVE  m = "string"
  <2>1. "string" \in takers
    BY <1>2, <1>5, AcceptedValues
  <2>2. m \in takers /\ Rank(m) <= 1
    BY <1>1, <1>4, <2>1
  <2>3. m \in {"string", "Interface"}
    BY <1>2, <1>3, <1>4, <2>2
  <2>4. m # "Interface"
    BY <1>5, <2>2, AcceptedValues
  <2>. QED BY <2>3, <2>4
<1>6. ASSUME v = "object", "Interface" \in types
      PROVE  m = "Interface"
  <2>1. "Interface" \in takers
    BY <1>2, <1>6, AcceptedValues
  <2>2. m \in takers /\ Rank(m) <= 1
    BY <1>1, <1>4, <2>1
  <2>3. m \in {"string", "Interface"}
    BY <1>2, <1>3, <1>4, <2>2
  <2>4. m # "string"
    BY <1>6, <2>2, AcceptedValues
  <2>. QED BY <2>3, <2>4
<1>7. ASSUME v = "num" \/ (v = "true" /\ h = "new"), numbers # {}
      PROVE  m \in Largest(types)
  <2>1. PICK u \in Largest(types) : u \in {"double", "float", "long"}
    BY <1>3, <1>7
  <2>2. u \in takers
    BY <1>2, <1>7, <2>1, AcceptedValues
  <2>3. m \in takers /\ Rank(m) <= 2
    BY <1>1, <1>4, <2>1, <2>2
  <2>4. m # "string" /\ m # "Interface"
    BY <1>7, <2>3, AcceptedValues
  <2>. QED BY <1>2, <1>4, <2>3, <2>4
<1>8. ASSUME v = "true", ~ (h = "new" /\ numbers # {}), "boolean" \in types
      PROVE  m = "boolean"
  <2>1. "boolean" \in takers
    BY <1>2, <1>8, AcceptedValues
  <2>2. m \in takers
    BY <1>1, <2>1
  <2>3. m # "string" /\ m # "Interface"
    BY <1>8, <2>2, AcceptedValues
  <2>4. m \notin Largest(types)
    <3>. SUFFICES ASSUME m \in Largest(types)
                  PROVE  FALSE
      OBVIOUS
    <3>1. m \in {"double", "float", "long"} /\ numbers # {}
      BY <1>3
    <3>2. ~ Accepts(h, m, v)
      BY <1>8, <3>1, AcceptedValues
    <3>. QED BY <2>2, <3>2
  <2>. QED BY <1>2, <2>2, <2>3, <2>4
<1>. QED BY <1>5, <1>6, <1>7, <1>8 DEF m

LEMMA UnionsPick ==
  ASSUME HandlerSound
  PROVE  UnionsPickTheirMember
<1>. SUFFICES ASSUME StubWasCalled, NEW i \in Plain, ~Absent(i)
              PROVE  LET type == parameters[i].type
                         numbers == type \cap {"double", "float", "long"}
                         kind == CASE args[i] \in {"text", "empty"} -> type \cap {"string"}
                                   [] args[i] = "object" -> type \cap {"Interface"}
                                   [] args[i] = "true" ->
                                        IF handling = "new" /\ numbers # {} THEN numbers
                                        ELSE type \cap {"boolean"}
                                   [] OTHER -> numbers
                         best == IF "double" \in kind THEN {"double"}
                                 ELSE IF "float" \in kind THEN {"float"} ELSE kind
                     IN  best # {} => variables[i].union_type \in best
  BY DEF UnionsPickTheirMember
<1>. DEFINE type == parameters[i].type
            numbers == type \cap {"double", "float", "long"}
            m == MemberFor(handling, type, args[i])
            kind == CASE args[i] \in {"text", "empty"} -> type \cap {"string"}
                      [] args[i] = "object" -> type \cap {"Interface"}
                      [] args[i] = "true" ->
                           IF handling = "new" /\ numbers # {} THEN numbers
                           ELSE type \cap {"boolean"}
                      [] OTHER -> numbers
            best == IF "double" \in kind THEN {"double"}
                    ELSE IF "float" \in kind THEN {"float"} ELSE kind
<1>1. i \in Positions /\ InputTyped /\ ReadInto(i, variables[i])
  BY AllAreRead DEF Plain
<1>2. Member(i) = m /\ variables[i] = Holding(m) /\ m \in type /\ Accepts(handling, m, args[i])
  BY <1>1, ArgumentIsHeld
<1>3. variables[i].union_type = m
  BY <1>2 DEF Holding
<1>4. /\ handling \in {"original", "new"} /\ type \subseteq Type
      /\ args[i] \in Value
  <2>1. i \in 1 .. Len(args)
    <3>1. args \in Seq(Value) /\ i \in Nat /\ Given(i) /\ i # 0
      BY <1>1, ParameterFacts DEF HandlerSound, TypeOK, InputTyped, Absent, Positions
    <3>. QED BY <3>1 DEF Given
  <2>2. args[i] \in Value
    BY <2>1 DEF HandlerSound, TypeOK
  <2>. QED BY <1>1, <2>2, ParameterFacts DEF InputTyped
<1>5. args[i] \in {"text", "empty", "num", "true", "undefined", "object"}
  BY <1>4 DEF Value
<1>. HIDE DEF m, type
<1>6. CASE args[i] \in {"text", "empty"}
  <2>1. "string" \in type => m = "string"
    BY <1>4, <1>6, MemberByValue DEF m
  <2>2. kind = type \cap {"string"}
    BY <1>6
  <2>3. best = type \cap {"string"}
    BY <2>2
  <2>. QED BY <1>3, <2>1, <2>3 DEF type
<1>7. CASE args[i] = "object"
  <2>1. "Interface" \in type => m = "Interface"
    BY <1>4, <1>7, MemberByValue DEF m
  <2>2. kind = type \cap {"Interface"}
    BY <1>7
  <2>3. best = type \cap {"Interface"}
    BY <2>2
  <2>. QED BY <1>3, <2>1, <2>3 DEF type
<1>8. CASE args[i] = "true" /\ ~ (handling = "new" /\ numbers # {})
  <2>1. "boolean" \in type => m = "boolean"
    BY <1>4, <1>8, MemberByValue DEF m
  <2>2. kind = type \cap {"boolean"}
    BY <1>8
  <2>3. best = type \cap {"boolean"}
    BY <2>2
  <2>. QED BY <1>3, <2>1, <2>3 DEF type
<1>9. CASE args[i] = "num" \/ (args[i] = "true" /\ handling = "new" /\ numbers # {})
  <2>1. numbers # {} => m \in Largest(type)
    BY <1>4, <1>9, MemberByValue DEF m
  <2>2. kind = numbers
    BY <1>9
  <2>3. best = Largest(type)
    BY <2>2 DEF Largest
  <2>4. best # {} => numbers # {}
    BY <2>3 DEF Largest
  <2>. QED BY <1>3, <2>1, <2>3, <2>4 DEF type
<1>10. CASE args[i] = "undefined"
  <2>1. handling = "original" /\ m \in {"Interface", "boolean", "double", "float", "long", "string"}
    BY <1>1, <1>2, <1>4, <1>10, Types DEF Absent, Given
  <2>2. ~ Accepts(handling, m, args[i])
    BY <1>10, <2>1, AcceptedValues
  <2>. QED BY <1>2, <2>2
<1>. QED BY <1>5, <1>6, <1>7, <1>8, <1>9, <1>10 DEF type

----------------------------------------------------------------------------
(* Which calls are errors.                                                  *)

Takes(type, v) == \E t \in type : Accepts(handling, t, v)

(* A plain parameter gets what it needs from the call. *)
Fits(i) ==
  IF ~Absent(i) THEN Takes(parameters[i].type, args[i])
  ELSE IF parameters[i].optional
  THEN handling = "original" \/ parameters[i].type # {"Interface"}
  ELSE handling = "new" /\ "boolean" \in parameters[i].type

(* And a variadic one. *)
AllFit(i) == \A k \in i .. Len(args) : Takes(parameters[i].type, args[k])

LEMMA IsOfTypeTakes ==
  ASSUME InputTyped, NEW i \in Positions, NEW v
  PROVE  IsOfType(parameters[i].type, v) <=> Takes(parameters[i].type, v)
BY ParameterFacts, MemberTakes DEF InputTyped, IsOfType, Takes

(* In the new handling the transform of an interface is the last one only if *)
(* it is the only one.                                                       *)
LEMMA WhatMayBeLeftOut ==
  ASSUME InputTyped, NEW i \in Positions
  PROVE  MayBeLeftOut(i) <=>
           /\ parameters[i].optional
           /\ handling = "original" \/ parameters[i].type # {"Interface"}
<1>. DEFINE type == parameters[i].type
            last == Last(j_to_c_type_list(type))
<1>1. type \subseteq Type /\ type # {} /\ handling \in {"original", "new"}
  BY ParameterFacts DEF InputTyped
<1>. HIDE DEF type
<1>2. last \in type /\ (last = "Interface" => type = {"Interface"})
  BY <1>1, TriedOrder
<1>. HIDE DEF last
<1>3. MayBeLeftOut(i) <=> parameters[i].optional /\ (handling = "new" => last # "Interface")
  BY DEF MayBeLeftOut, last, type
<1>4. type = {"Interface"} <=> last = "Interface"
  BY <1>2
<1>. QED BY <1>1, <1>3, <1>4 DEF type

(* What is read into a variable fits. *)
LEMMA ReadFits ==
  ASSUME InputTyped, NEW i \in Positions, NEW v, ReadInto(i, v)
  PROVE  /\ i \in Plain => Fits(i)
         /\ i \notin Plain /\ handling = "new" => AllFit(i)
<1>1. CASE i \notin Plain
  <2>1. ElementsAreRight(i)
    BY <1>1 DEF Plain, ReadInto
  <2>2. \A w : IsOfType(parameters[i].type, w) <=> Takes(parameters[i].type, w)
    BY IsOfTypeTakes
  <2>. QED BY <1>1, <2>1, <2>2 DEF ElementsAreRight, AllFit
<1>2. CASE i \in Plain /\ ~Absent(i)
  <2>1. Member(i) \in parameters[i].type /\ Accepts(handling, Member(i), args[i])
    BY <1>2, ArgumentIsHeld
  <2>. QED BY <1>2, <2>1 DEF Fits, Takes
<1>3. CASE i \in Plain /\ Absent(i) /\ Passed(i)
  <2>1. Member(i) # "None" /\ handling = "new" /\ ~parameters[i].optional
    BY <1>3 DEF ReadInto, Plain, Passed
  <2>2. "boolean" \in parameters[i].type
    BY <1>3, <2>1, UndefinedIsBoolean
  <2>. QED BY <1>3, <2>1, <2>2 DEF Fits
<1>4. CASE i \in Plain /\ ~Passed(i)
  <2>1. Absent(i) /\ MayBeLeftOut(i)
    BY <1>4 DEF Passed, ReadInto, Plain
  <2>2. /\ parameters[i].optional
        /\ handling = "original" \/ parameters[i].type # {"Interface"}
    BY <2>1, WhatMayBeLeftOut
  <2>. QED BY <1>4, <2>1, <2>2 DEF Fits
<1>. QED BY <1>1, <1>2, <1>3, <1>4

(* What is refused does not. *)
LEMMA RefusedDoesNotFit ==
  ASSUME InputTyped, NEW i \in Positions, Refused(i)
  PROVE  IF i \in Plain THEN ~Fits(i) ELSE ~AllFit(i)
<1>1. \A w : IsOfType(parameters[i].type, w) <=> Takes(parameters[i].type, w)
  BY IsOfTypeTakes
<1>2. handling \in {"original", "new"} /\ i \in Nat
  BY ParameterFacts DEF InputTyped
<1>3. CASE i \notin Plain
  <2>1. parameters[i].variadic
    BY <1>3 DEF Plain
  <2>2. CASE handling = "original"
    <3>1. Given(i) /\ ~IsOfType(parameters[i].type, args[i])
      BY <2>1, <2>2 DEF Refused, all_correct_types
    <3>2. CASE i \in i .. Len(args)
      BY <1>1, <1>3, <3>1, <3>2 DEF AllFit
    <3>3. CASE i \notin i .. Len(args)
      BY <1>2, <3>1, <3>3 DEF Given
    <3>. QED BY <3>2, <3>3
  <2>3. CASE handling = "new"
    <3>1. \E k \in i .. Len(args) : ~IsOfType(parameters[i].type, args[k])
      BY <2>1, <2>3 DEF Refused
    <3>. QED BY <1>1, <1>3, <3>1 DEF AllFit
  <2>. QED BY <1>2, <2>2, <2>3
<1>4. CASE i \in Plain /\ ~Absent(i)
  <2>1. value(i) = args[i] /\ Passed(i) /\ ~parameters[i].variadic
    BY <1>4 DEF Absent, value, Passed, Plain
  <2>2. ~IsOfType(parameters[i].type, args[i])
    BY <1>2, <1>4, <2>1 DEF Refused
  <2>. QED BY <1>1, <1>4, <2>2 DEF Fits
<1>5. CASE i \in Plain /\ Absent(i) /\ Passed(i)
  <2>1. value(i) = "undefined" /\ handling = "new" /\ ~parameters[i].optional
    BY <1>5 DEF Absent, value, Passed
  <2>2. ~Takes(parameters[i].type, "undefined")
    BY <1>1, <1>5, <2>1 DEF Refused, Plain
  <2>3. Accepts("new", "boolean", "undefined")
    BY AcceptedValues
  <2>4. "boolean" \notin parameters[i].type
    BY <2>1, <2>2, <2>3 DEF Takes
  <2>. QED BY <1>5, <2>1, <2>4 DEF Fits
<1>6. CASE i \in Plain /\ ~Passed(i)
  <2>1. Absent(i) /\ (handling = "new" => parameters[i].optional)
    BY <1>6 DEF Passed
  <2>2. ~MayBeLeftOut(i)
    <3>1. CASE handling = "original"
      BY <1>6, <2>1, <3>1 DEF Refused, Plain, MayBeLeftOut
    <3>2. CASE handling = "new"
      BY <1>6, <3>2 DEF Refused, Plain
    <3>. QED BY <1>2, <3>1, <3>2
  <2>3. ~ (/\ parameters[i].optional
           /\ handling = "original" \/ parameters[i].type # {"Interface"})
    BY <2>2, WhatMayBeLeftOut
  <2>4. ~parameters[i].optional => handling = "original"
    BY <1>2, <2>1
  <2>. QED BY <1>2, <1>6, <2>1, <2>3, <2>4 DEF Fits
<1>. QED BY <1>3, <1>4, <1>5, <1>6

(* A wrong plain argument is the reason for the refusal, or it comes after   *)
(* another one: in both cases the script gets the error.                     *)
LEMMA WrongArgumentIsReported ==
  ASSUME HandlerSound, pc = "returned", NEW i \in Plain, ~Absent(i), ~Fits(i)
  PROVE  result = "error"
<1>1. InputTyped /\ ReadSound /\ RefusalSound /\ i \in Positions
  BY DEF HandlerSound, Plain
<1>2. ~StubWasCalled
  BY <1>1, AllAreRead, ReadFits
<1>3. next \in Positions /\ Refused(next) /\ (handling = "new" => result = "error")
  BY <1>1, <1>2 DEF RefusalSound
<1>4. i \in Nat /\ next \in Nat /\ Len(parameters) \in Nat
  BY <1>1, <1>3, ParameterFacts DEF InputTyped
<1>5. ~ (i < next)
  BY <1>1, ReadFits DEF ReadSound
<1>6. next <= i
  BY <1>4, <1>5
<1>7. CASE handling = "original"
  <2>1. Given(next) /\ ~Absent(next)
    <3>1. i <= Len(args) /\ Len(args) \in Nat
      BY <1>1 DEF Absent, Given, HandlerSound, TypeOK
    <3>. QED BY <1>4, <1>6, <1>7, <3>1 DEF Given, Absent
  <2>2. ~parameters[next].variadic
    <3>1. parameters[next].variadic => next = Len(parameters)
      BY <1>1, <1>3, ParameterFacts DEF InputTyped
    <3>2. i <= Len(parameters) /\ ~parameters[i].variadic
      BY <1>4 DEF Plain, Positions
    <3>3. next = Len(parameters) => i = next
      BY <1>4, <1>6, <3>2
    <3>. QED BY <3>1, <3>2, <3>3
  <2>3. _error
    BY <1>3, <1>7, <2>1, <2>2 DEF Refused
  <2>. QED BY <1>1, <2>3 DEF RefusalSound
<1>. QED BY <1>1, <1>3, <1>7 DEF InputTyped

LEMMA BadCallsFail ==
  ASSUME HandlerSound
  PROVE  BadCallsAreErrors
<1>. DEFINE good == \A i \in Positions : IF i \in Plain THEN Fits(i) ELSE AllFit(i)
<1>1. /\ InputTyped /\ ReadSound /\ RefusalSound /\ Plain \subseteq Positions
  BY DEF HandlerSound, Plain
<1>2. ASSUME pc = "returned", good
      PROVE  StubWasCalled
  <2>1. ~StubWasCalled => next \in Positions /\ Refused(next)
    BY <1>1, <1>2 DEF RefusalSound
  <2>. QED BY <1>1, <1>2, <2>1, RefusedDoesNotFit
<1>3. ASSUME NEW i \in Plain, ~Fits(i)
      PROVE  ~StubWasCalled
  BY <1>1, <1>3, AllAreRead, ReadFits
<1>4. ASSUME pc = "returned", NEW i \in Plain, ~Absent(i), ~Fits(i)
      PROVE  result = "error"
  BY <1>4, WrongArgumentIsReported
<1>5. ASSUME pc = "returned", handling = "new", ~good
      PROVE  ~StubWasCalled /\ result = "error"
  <2>1. PICK i \in Positions : IF i \in Plain THEN ~Fits(i) ELSE ~AllFit(i)
    BY <1>5
  <2>2. ~StubWasCalled
    BY <1>1, <1>5, <2>1, AllAreRead, ReadFits
  <2>. QED BY <1>1, <1>5, <2>2 DEF RefusalSound
<1>. QED BY <1>2, <1>3, <1>4, <1>5 DEF BadCallsAreErrors, Fits, AllFit, Takes

----------------------------------------------------------------------------
(* When the stub runs, every variable holds its argument, as the member that *)
(* union_type names, in memory of its own if it is a string; only an         *)
(* optional parameter without an argument is left at its default.            *)
THEOREM StubGetsItsArgumentsHolds == Spec => []StubGetsItsArguments
<1>1. HandlerSound => StubGetsItsArguments
  BY StubGetsWhatItNeeds
<1>. QED BY <1>1, HandlerSoundHolds, PTL

(* Of any union a value goes to the best member: a number to the largest     *)
(* number, a boolean to a number only where the handling coerces it.         *)
THEOREM UnionsPickTheirMemberHolds == Spec => []UnionsPickTheirMember
<1>1. HandlerSound => UnionsPickTheirMember
  BY UnionsPick
<1>. QED BY <1>1, HandlerSoundHolds, PTL

(* A call that fits reaches the stub, one that does not fails as the         *)
(* handling says it does.                                                    *)
THEOREM BadCallsAreErrorsHolds == Spec => []BadCallsAreErrors
<1>1. HandlerSound => BadCallsAreErrors
  BY BadCallsFail
<1>. QED BY <1>1, HandlerSoundHolds, PTL

----------------------------------------------------------------------------
(* A whole "new". *)

(* The lemmas about sort_constructors, of the interface's signatures. *)
Facts ==
  INSTANCE ConstructorsProofs WITH
    constructors <- SignaturesOf(constructors), Inputs <- AllSignatures

----------------------------------------------------------------------------
(* The lemmas speak of the operators of Facts, the specification of those   *)
(* of Dispatcher: they are the same.                                        *)
LEMMA SameSorting ==
  Dispatcher!SortConstructors = Facts!SortConstructors
BY DEF Dispatcher!SortConstructors, Facts!SortConstructors, Dispatcher!Collapsed, Facts!Collapsed,
   Dispatcher!Collapse, Facts!Collapse, Dispatcher!FilledBucket, Facts!FilledBucket,
   Dispatcher!CountedBucket, Facts!CountedBucket, Dispatcher!OtherBuckets, Facts!OtherBuckets,
   Dispatcher!InsertInto, Facts!InsertInto, Dispatcher!LastBucket, Facts!LastBucket,
   Dispatcher!saw_a_variadic, Facts!saw_a_variadic, Dispatcher!Positions, Facts!Positions,
   Dispatcher!argument_count, Facts!argument_count, Dispatcher!optional_count,
   Facts!optional_count, Dispatcher!One, Facts!One, Dispatcher!Increasing, Facts!Increasing,
   Dispatcher!Kept, Facts!Kept, Dispatcher!SelectInSeq, Facts!SelectInSeq,
   Dispatcher!InsertAt, Facts!InsertAt, Dispatcher!Max, Facts!Max, Dispatcher!Min, Facts!Min

LEMMA SameBranches ==
  \A n : Dispatcher!BranchFor(n) = Facts!BranchFor(n)
BY DEF Dispatcher!BranchFor, Facts!BranchFor, Dispatcher!Branch, Facts!Branch,
   Dispatcher!no_final_check_necessary, Facts!no_final_check_necessary,
   Dispatcher!SelectInSeq, Facts!SelectInSeq, Dispatcher!Min, Facts!Min,
   Dispatcher!Last, Facts!Last

LEMMA SameCallable ==
  \A n : Dispatcher!CallableInOrder(n) = Facts!CallableInOrder(n)
BY DEF Dispatcher!CallableInOrder, Facts!CallableInOrder, Dispatcher!Callable, Facts!Callable,
   Dispatcher!Positions, Facts!Positions, Dispatcher!argument_count, Facts!argument_count,
   Dispatcher!optional_count, Facts!optional_count, Dispatcher!One, Facts!One,
   Dispatcher!Increasing, Facts!Increasing, Dispatcher!Kept, Facts!Kept

LEMMA SameHandlers ==
  /\ Dispatcher!AtThisLevel = Facts!AtThisLevel
  /\ Dispatcher!Trying = Facts!Trying
  /\ \A i : Dispatcher!last_constructor_in_list(i) <=> Facts!last_constructor_in_list(i)
BY DEF Dispatcher!AtThisLevel, Facts!AtThisLevel, Dispatcher!Trying, Facts!Trying,
   Dispatcher!last_constructor_in_list, Facts!last_constructor_in_list,
   Dispatcher!Last, Facts!Last

LEMMA SameSteps ==
  /\ Dispatcher!Compile => Facts!Compile
  /\ \A n : Dispatcher!New(n) => Facts!New(n)
  /\ \A succeeds : Dispatcher!HandlerReturned(succeeds) => Facts!HandlerReturned(succeeds)
<1>1. Dispatcher!Compile => Facts!Compile
  BY SameSorting DEF Dispatcher!Compile, Facts!Compile
<1>2. ASSUME NEW n PROVE Dispatcher!New(n) => Facts!New(n)
  BY SameBranches DEF Dispatcher!New, Facts!New
<1>3. ASSUME NEW succeeds
      PROVE  Dispatcher!HandlerReturned(succeeds) => Facts!HandlerReturned(succeeds)
  BY SameHandlers DEF Dispatcher!HandlerReturned, Facts!HandlerReturned
<1>. QED BY <1>1, <1>2, <1>3

LEMMA SameProperties ==
  /\ Facts!TypeOK => Dispatcher!TypeOK
  /\ Facts!BranchesFitTheSignatures => Dispatcher!BranchesFitTheSignatures
  /\ Facts!TriedInOrder => Dispatcher!TriedInOrder
  /\ Facts!ResultIsNotReleased => Dispatcher!ResultIsNotReleased
<1>1. Facts!TypeOK => Dispatcher!TypeOK
  BY DEF Dispatcher!TypeOK, Facts!TypeOK, Dispatcher!Signature, Facts!Signature,
     Dispatcher!Positions, Facts!Positions
<1>2. Facts!BranchesFitTheSignatures => Dispatcher!BranchesFitTheSignatures
  BY SameBranches, SameCallable
     DEF Dispatcher!BranchesFitTheSignatures, Facts!BranchesFitTheSignatures
<1>3. Facts!TriedInOrder => Dispatcher!TriedInOrder
  BY DEF Dispatcher!TriedInOrder, Facts!TriedInOrder
<1>4. Facts!ResultIsNotReleased => Dispatcher!ResultIsNotReleased
  BY DEF Dispatcher!ResultIsNotReleased, Facts!ResultIsNotReleased
<1>. QED BY <1>1, <1>2, <1>3, <1>4

----------------------------------------------------------------------------
(* The signatures of a file are what sort_constructors wants.               *)
LEMMA SignaturesAreTyped ==
  ASSUME NEW file \in AllFiles
  PROVE  /\ SignaturesOf(file) \in Seq(Facts!Signature)
         /\ file # << >> => /\ SignaturesOf(file) # << >>
                            /\ file \in Files \cup CompiledFiles
                            /\ file \in Seq(Seq(Parameter))
<1>1. CASE file = << >>
  <2>1. SignaturesOf(file) = << >>
    <3>1. DOMAIN file = {}
      BY <1>1
    <3>. QED BY <3>1 DEF SignaturesOf
  <2>2. << >> \in Seq(Facts!Signature)
    OBVIOUS
  <2>. QED BY <1>1, <2>1, <2>2
<1>2. CASE file # << >>
  <2>1. file \in Files \cup CompiledFiles /\ file \in Seq(Seq(Parameter))
    BY <1>2, FilesAssumption DEF AllFiles
  <2>2. Len(file) \in Nat /\ DOMAIN file = 1 .. Len(file) /\ Len(file) # 0
    BY <1>2, <2>1
  <2>3. ASSUME NEW k \in 1 .. Len(file)
        PROVE  SignatureOf(file[k]) \in Facts!Signature
    <3>. DEFINE list == file[k]
    <3>1. list \in Seq(Parameter)
      BY <2>1
    <3>2. Len(list) \in Nat /\ DOMAIN list = 1 .. Len(list)
      BY <3>1
    <3>3. IsFiniteSet(DOMAIN list)
      BY <3>2, FS_Interval
    <3>. HIDE DEF list
    <3>4. \A S \in SUBSET (DOMAIN list) : Cardinality(S) \in Nat
      BY <3>3, FS_Subset, FS_CardinalityType
    <3>5. SignatureOf(list) \in Facts!Signature
      BY <3>4 DEF SignatureOf, Facts!Signature
    <3>. QED BY <3>5 DEF list
  <2>4. SignaturesOf(file) \in [1 .. Len(file) -> Facts!Signature]
    BY <2>2, <2>3 DEF SignaturesOf
  <2>5. SignaturesOf(file) \in Seq(Facts!Signature) /\ Len(SignaturesOf(file)) = Len(file)
    BY <2>2, <2>4, Facts!TupleIsSeq
  <2>. QED BY <2>1, <2>2, <2>5
<1>. QED BY <1>1, <1>2

----------------------------------------------------------------------------
(* The inductive invariant of the dispatch. *)
DispatcherSound ==
  /\ constructors \in AllFiles
  /\ args_cnt \in 0 .. MaxArgs
  /\ Facts!DispatchSound

LEMMA DispatcherStarts ==
  ASSUME InvocationInit
  PROVE  DispatcherSound
<1>1. constructors \in AllFiles
  BY DEF InvocationInit, AllFiles
<1>2. SignaturesOf(constructors) \in Seq(Facts!Signature)
  BY <1>1, SignaturesAreTyped
<1>3. /\ sorted_constructors = << >> /\ args_cnt = 0 /\ level = 0 /\ tried = << >>
      /\ new_value = "none" /\ phase = "compiling"
  BY DEF InvocationInit
<1>4. Facts!DispatchSound
  BY <1>2, <1>3, Facts!DispatchStarts
<1>. QED BY <1>1, <1>3, <1>4, NewArgumentsAssumption DEF DispatcherSound

LEMMA DispatcherSteps ==
  ASSUME DispatcherSound, [InvocationNext]_allvars
  PROVE  DispatcherSound'
<1>1. constructors \in AllFiles /\ args_cnt \in 0 .. MaxArgs /\ Facts!DispatchSound
  BY DEF DispatcherSound
<1>2. ASSUME UNCHANGED dispatch
      PROVE  DispatcherSound'
  <2>1. UNCHANGED Facts!vars /\ constructors' = constructors /\ args_cnt' = args_cnt
    BY <1>2 DEF dispatch, Facts!vars
  <2>2. Facts!DispatchSound'
    BY <1>1, <2>1, Facts!DispatchStutters
  <2>. QED BY <1>1, <2>1, <2>2 DEF DispatcherSound
<1>3. CASE Compile
  <2>1. Facts!Compile /\ constructors' = constructors /\ args_cnt' = args_cnt
    BY <1>3, SameSteps DEF Compile, Dispatcher!Compile
  <2>2. Facts!DispatchSound'
    BY <1>1, <2>1, Facts!CompileIsSound
  <2>. QED BY <1>1, <2>1, <2>2 DEF DispatcherSound
<1>4. CASE New
  <2>1. PICK arguments \in NewArguments : Dispatcher!New(Len(arguments))
    BY <1>4 DEF New
  <2>2. Len(arguments) \in 0 .. MaxArgs /\ Len(arguments) \in Nat
    BY NewArgumentsAssumption
  <2>3. Facts!New(Len(arguments)) /\ constructors' = constructors /\ args_cnt' = Len(arguments)
    BY <1>4, <2>1, SameSteps DEF New, Dispatcher!New
  <2>4. Facts!DispatchSound'
    BY <1>1, <2>2, <2>3, Facts!NewIsSound
  <2>. QED BY <1>1, <2>2, <2>3, <2>4 DEF DispatcherSound
<1>5. CASE HandlerReturns
  <2>1. /\ Facts!HandlerReturned(result # "error")
        /\ constructors' = constructors /\ args_cnt' = args_cnt
    BY <1>5, SameSteps DEF HandlerReturns, Dispatcher!HandlerReturned
  <2>2. Facts!DispatchSound'
    BY <1>1, <2>1, Facts!HandlerReturnedIsSound
  <2>. QED BY <1>1, <2>1, <2>2 DEF DispatcherSound
<1>6. CASE StartHandler
  BY <1>2, <1>6 DEF StartHandler
<1>7. CASE HandlerStep
  BY <1>2, <1>7 DEF HandlerStep
<1>8. CASE Over
  BY <1>2, <1>8 DEF Over, allvars
<1>9. CASE UNCHANGED allvars
  BY <1>2, <1>9 DEF allvars
<1>. QED BY <1>3, <1>4, <1>5, <1>6, <1>7, <1>8, <1>9 DEF InvocationNext

(* The dispatch is sound in every state: the branch that is taken fits the  *)
(* number of arguments, its handlers are run in order, and what the script  *)
(* gets is the last one's object, or the error.                             *)
THEOREM DispatcherSoundHolds == InvocationSpec => []DispatcherSound
<1>1. InvocationInit => DispatcherSound
  BY DispatcherStarts
<1>2. DispatcherSound /\ [InvocationNext]_allvars => DispatcherSound'
  BY DispatcherSteps
<1>. QED BY <1>1, <1>2, PTL DEF InvocationSpec

(* For every number of arguments that some constructor can be called with,  *)
(* sort_constructors and the chain that interface.mustache prints lead to   *)
(* exactly the constructors that can be called, in the order of the file.   *)
THEOREM BranchesFitTheSignaturesHolds == InvocationSpec => []BranchesFitTheSignatures
<1>1. DispatcherSound => BranchesFitTheSignatures
  BY NewArgumentsAssumption, Facts!BranchesFit, SameProperties
     DEF DispatcherSound, BranchesFitTheSignatures
<1>. QED BY <1>1, DispatcherSoundHolds, PTL

(* The last constructor of every level is marked, so that what a script     *)
(* gets from a "new" is an object or an error, and never an error that has  *)
(* been released.                                                           *)
THEOREM ResultIsNotReleasedHolds == InvocationSpec => []ResultIsNotReleased
<1>1. DispatcherSound => ResultIsNotReleased
  BY Facts!NoReleasedResult, SameProperties DEF DispatcherSound, ResultIsNotReleased
<1>. QED BY <1>1, DispatcherSoundHolds, PTL

(* The handlers run in the order of the file, and none twice. *)
THEOREM TriedInOrderHolds == InvocationSpec => []Dispatcher!TriedInOrder
<1>1. DispatcherSound => Dispatcher!TriedInOrder
  BY Facts!HandlersInOrder, SameProperties DEF DispatcherSound
<1>. QED BY <1>1, DispatcherSoundHolds, PTL

----------------------------------------------------------------------------
(* Run on real arguments, the handlers behave as Constructors lets them.    *)
LEMMA InitialStatesMap ==
  ASSUME InvocationInit
  PROVE  Dispatcher!Init
<1>1. constructors \in AllFiles
  BY DEF InvocationInit, AllFiles
<1>2. SignaturesOf(constructors) \in AllSignatures
  BY <1>1 DEF AllSignatures
<1>. QED BY <1>2 DEF InvocationInit, Dispatcher!Init

LEMMA StepsMap ==
  ASSUME DispatcherSound, [InvocationNext]_allvars
  PROVE  [Dispatcher!Next]_(Dispatcher!vars)
<1>1. ASSUME UNCHANGED dispatch
      PROVE  UNCHANGED Dispatcher!vars
  BY <1>1 DEF dispatch, Dispatcher!vars
<1>2. CASE Compile
  BY <1>2 DEF Compile, Dispatcher!Next
<1>3. CASE New
  <2>1. PICK arguments \in NewArguments : Dispatcher!New(Len(arguments))
    BY <1>3 DEF New
  <2>2. Len(arguments) \in 0 .. MaxArgs
    BY NewArgumentsAssumption
  <2>. QED BY <2>1, <2>2 DEF Dispatcher!Next
<1>4. CASE HandlerReturns
  <2>1. phase = "dispatching" /\ Dispatcher!HandlerReturned(result # "error")
    BY <1>4 DEF HandlerReturns
  <2>2. args_cnt >= SignaturesOf(constructors)[Facts!Trying].required
    BY <2>1, Facts!EnoughArguments DEF DispatcherSound
  <2>3. Dispatcher!RunHandler(result # "error")
    BY <2>1, <2>2, SameHandlers DEF Dispatcher!RunHandler
  <2>. QED BY <2>3 DEF Dispatcher!Next
<1>5. CASE StartHandler
  BY <1>1, <1>5 DEF StartHandler
<1>6. CASE HandlerStep
  BY <1>1, <1>6 DEF HandlerStep
<1>7. CASE Over
  BY <1>1, <1>7 DEF Over, allvars
<1>8. CASE UNCHANGED allvars
  BY <1>1, <1>8 DEF allvars
<1>. QED BY <1>2, <1>3, <1>4, <1>5, <1>6, <1>7, <1>8 DEF InvocationNext

(* A handler that is run without the arguments it requires never returns an *)
(* object, because no branch leads to one.                                  *)
THEOREM Refinement == InvocationSpec => ImplementsDispatcher
<1>1. InvocationInit => Dispatcher!Init
  BY InitialStatesMap
<1>2. DispatcherSound /\ [InvocationNext]_allvars => [Dispatcher!Next]_(Dispatcher!vars)
  BY StepsMap
<1>. QED BY <1>1, <1>2, DispatcherSoundHolds, PTL
         DEF InvocationSpec, ImplementsDispatcher, Dispatcher!Spec

(* A handler that is called starts sound, also in the state after a step. *)
LEMMA CalledStartsSound ==
  /\ IsParameterList(parameters) /\ args \in Seq(Value)
  /\ handling \in Handlings /\ returns \in Returns /\ Called
  => HandlerSound /\ IInv
BY CalledIsSound, CalledKeepsOwners

LEMMA CalledNextStartsSound ==
  (/\ IsParameterList(parameters) /\ args \in Seq(Value)
   /\ handling \in Handlings /\ returns \in Returns /\ Called)'
  => HandlerSound' /\ IInv'
BY CalledStartsSound, PTL

(* What a "new" leaves to the handlers that it runs: the arguments are those *)
(* that were counted, and the parameters those of the constructor that is    *)
(* tried.                                                                    *)
NewSound ==
  /\ returns = "constructor"
  /\ phase \in {"compiling", "compiled"} =>
       pc = "idle" /\ parameters = << >> /\ stubs = << >> /\ tried = << >>
  /\ phase \in {"dispatching", "returned"} =>
       args_cnt = Len(args) /\ level = Facts!BranchFor(args_cnt)
  /\ pc # "idle" => phase = "dispatching" /\ parameters = constructors[Trying]

(* A handler that has returned leaves what it stored behind. *)
InvocationSound ==
  /\ DispatcherSound
  /\ HandlerSound
  /\ IF pc = "idle" THEN ResultIsIntact ELSE IInv
  /\ constructors # << >> => NewSound
  /\ constructors = << >> => pc # "idle" /\ stubs = << >> /\ phase = "compiling"
  /\ stubs \in Seq(DOMAIN constructors)

LEMMA InvocationStarts ==
  ASSUME InvocationInit
  PROVE  InvocationSound
<1>1. DispatcherSound /\ stubs = << >> /\ phase = "compiling" /\ tried = << >>
  BY DispatcherStarts DEF InvocationInit
<1>2. stubs \in Seq(DOMAIN constructors)
  BY <1>1
<1>3. CASE constructors = << >> /\ Init
  <2>1. HandlerSound /\ IInv /\ pc = "arguments"
    BY <1>3, InitCalls, CalledIsSound, CalledKeepsOwners DEF Called
  <2>. QED BY <1>1, <1>2, <1>3, <2>1 DEF InvocationSound
<1>4. CASE ~ (constructors = << >> /\ Init)
  <2>1. /\ constructors \in Files \cup CompiledFiles /\ handling \in Handlings
        /\ returns = "constructor"
        /\ parameters = << >> /\ args = << >> /\ variables = << >> /\ pc = "idle" /\ next = 1
        /\ length = 0 /\ heap = {} /\ new_interface = "none" /\ created = FALSE
        /\ _error = FALSE /\ return_value = Indeterminate /\ string_value = "none"
        /\ result = "none"
    BY <1>4 DEF InvocationInit
  <2>2. Positions = {} /\ Len(parameters) = 0
    BY <2>1 DEF Positions
  <2>3. constructors # << >> /\ returns \in Returns
    BY <2>1, FilesAssumption, ConstructorsAssumption
  <2>4. variables \in [Positions -> Variable]
    <3>1. DOMAIN << >> = {}
      OBVIOUS
    <3>2. \A f : DOMAIN f = {} /\ f = [x \in DOMAIN f |-> f[x]] => f \in [{} -> Variable]
      OBVIOUS
    <3>3. << >> = [x \in DOMAIN << >> |-> << >>[x]]
      OBVIOUS
    <3>. QED BY <2>1, <2>2, <3>1, <3>2, <3>3
  <2>5. length \in 0 .. Word - 1
    BY <2>1, WordAssumption
  <2>6. TypeOK
    <3>1. parameters \in Seq(Parameter) /\ args \in Seq(Value)
      BY <2>1
    <3>2. next \in 1 .. Len(parameters) + 1 /\ heap \subseteq HeapCell
          /\ new_interface \in {"none", "held", "released", "returned"}
      BY <2>1, <2>2
    <3>3. created \in BOOLEAN /\ _error \in BOOLEAN
      BY <2>1
    <3>. QED BY <2>1, <2>3, <2>4, <2>5, <3>1, <3>2, <3>3 DEF TypeOK
  <2>7. InputTyped
    BY <2>1, <2>2, HandlingsAssumption DEF InputTyped, IsParameterList
  <2>8. ReadSound /\ RefusalSound /\ ResultIsIntact
    BY <2>1, <2>2 DEF ReadSound, RefusalSound, ResultIsIntact, StubWasCalled
  <2>9. NewSound
    BY <1>1, <2>1 DEF NewSound
  <2>. QED BY <1>1, <1>2, <2>1, <2>3, <2>6, <2>7, <2>8, <2>9 DEF InvocationSound, HandlerSound
<1>. QED BY <1>3, <1>4

LEMMA SignaturesHaveTheLength ==
  ASSUME NEW file \in Seq(Seq(Parameter))
  PROVE  Len(SignaturesOf(file)) = Len(file) /\ Len(file) \in Nat
<1>1. Len(file) \in Nat /\ DOMAIN file = 1 .. Len(file)
  OBVIOUS
<1>2. SignaturesOf(file) \in [1 .. Len(file) -> {SignatureOf(file[k]) : k \in DOMAIN file}]
  BY <1>1 DEF SignaturesOf
<1>. QED BY <1>1, <1>2, TupleIsSeq

(* What NewSound says of the dispatch is the same when the list of levels is. *)
LEMMA BranchesAreKept ==
  ASSUME sorted_constructors' = sorted_constructors
  PROVE  \A n : Facts!BranchFor(n)' = Facts!BranchFor(n)
BY DEF Facts!BranchFor, Facts!SelectInSeq, Facts!Min, Facts!Branch,
       Facts!no_final_check_necessary, Facts!Last

LEMMA DispatchIsKept ==
  ASSUME UNCHANGED dispatch
  PROVE  /\ Trying' = Trying
         /\ \A n : Facts!BranchFor(n)' = Facts!BranchFor(n)
<1>1. sorted_constructors' = sorted_constructors /\ level' = level /\ tried' = tried
  BY DEF dispatch
<1>2. Trying' = Trying
  BY <1>1 DEF Trying, Dispatcher!Trying, Dispatcher!AtThisLevel
<1>. QED BY <1>1, <1>2, BranchesAreKept

LEMMA HandlerIsUntouched ==
  ASSUME InvocationSound, UNCHANGED <<vars, constructors, stubs>>
  PROVE  /\ HandlerSound' /\ pc' = pc /\ stubs' \in Seq(DOMAIN constructors')
         /\ IF pc' = "idle" THEN ResultIsIntact' ELSE IInv'
<1>1. HandlerSound'
  BY HandlerStutters DEF InvocationSound
<1>2. pc' = pc /\ result' = result /\ return_value' = return_value
  BY DEF vars, outcome
<1>3. pc = "idle" => ResultIsIntact'
  BY <1>2 DEF InvocationSound, ResultIsIntact, StubWasCalled
<1>4. pc # "idle" => IInv'
  BY NextKeepsInvariant DEF InvocationSound
<1>. QED BY <1>1, <1>2, <1>3, <1>4 DEF InvocationSound

LEMMA InvocationStutters ==
  ASSUME InvocationSound, DispatcherSound', UNCHANGED allvars
  PROVE  InvocationSound'
<1>1. /\ UNCHANGED <<vars, constructors, stubs>> /\ constructors' = constructors
      /\ sorted_constructors' = sorted_constructors /\ level' = level /\ tried' = tried
      /\ args_cnt' = args_cnt /\ phase' = phase /\ stubs' = stubs
  BY DEF allvars, dispatch
<1>2. /\ HandlerSound' /\ pc' = pc /\ stubs' \in Seq(DOMAIN constructors')
      /\ IF pc' = "idle" THEN ResultIsIntact' ELSE IInv'
  BY <1>1, HandlerIsUntouched
<1>3. Trying' = Trying /\ \A n : Facts!BranchFor(n)' = Facts!BranchFor(n)
  BY DispatchIsKept DEF allvars
<1>4. parameters' = parameters /\ args' = args /\ returns' = returns
  BY <1>1 DEF vars, input
<1>5. NewSound => NewSound'
  BY <1>1, <1>2, <1>3, <1>4 DEF NewSound
<1>. QED BY <1>1, <1>2, <1>5 DEF InvocationSound

LEMMA CompileInvokes ==
  ASSUME InvocationSound, DispatcherSound', Compile
  PROVE  InvocationSound'
<1>1. /\ UNCHANGED <<vars, constructors, stubs>> /\ constructors' = constructors
      /\ stubs' = stubs /\ tried' = tried
      /\ phase = "compiling" /\ phase' = "compiled" /\ SignaturesOf(constructors) # << >>
  BY DEF Compile, Dispatcher!Compile
<1>2. /\ HandlerSound' /\ pc' = pc /\ stubs' \in Seq(DOMAIN constructors')
      /\ IF pc' = "idle" THEN ResultIsIntact' ELSE IInv'
  BY <1>1, HandlerIsUntouched
<1>3. constructors # << >>
  BY <1>1 DEF SignaturesOf
<1>4. NewSound'
  BY <1>1, <1>2, <1>3 DEF InvocationSound, NewSound, vars, input
<1>. QED BY <1>1, <1>2, <1>3, <1>4 DEF InvocationSound

LEMMA NewInvokes ==
  ASSUME InvocationSound, DispatcherSound', New
  PROVE  InvocationSound'
<1>1. /\ UNCHANGED <<handling, parameters, returns, pc, next, memory, outcome, constructors, stubs>>
      /\ constructors \in Files /\ constructors # << >>
  BY FilesAssumption DEF New
<1>2. PICK arguments \in NewArguments : Dispatcher!New(Len(arguments)) /\ args' = arguments
  BY DEF New
<1>3. args' \in Seq(Value) /\ constructors' = constructors
  BY <1>1, <1>2, NewArgumentsAssumption
<1>4. /\ phase = "compiled" /\ args_cnt' = Len(arguments) /\ phase' \in {"dispatching", "returned"}
      /\ sorted_constructors' = sorted_constructors
      /\ level' = Facts!BranchFor(Len(arguments))
  BY <1>2, SameBranches DEF Dispatcher!New
<1>5. /\ pc = "idle" /\ parameters = << >> /\ Positions = {} /\ returns = "constructor"
      /\ ResultIsIntact /\ HandlerSound
  BY <1>1, <1>4 DEF InvocationSound, NewSound, Positions
<1>6. \A n : Facts!BranchFor(n)' = Facts!BranchFor(n)
  BY <1>4, BranchesAreKept
<1>7. NewSound'
  BY <1>1, <1>2, <1>4, <1>5, <1>6 DEF NewSound
<1>8. Positions' = {} /\ pc' = "idle"
  BY <1>1, <1>5 DEF Positions
<1>9. TypeOK'
  BY <1>1, <1>3, <1>5 DEF HandlerSound, TypeOK, memory, outcome, Positions
<1>10. InputTyped' /\ ReadSound' /\ RefusalSound' /\ ResultIsIntact'
  BY <1>1, <1>5, <1>8 DEF HandlerSound, InputTyped, ReadSound, RefusalSound, ResultIsIntact,
                          StubWasCalled, outcome
<1>. QED BY <1>1, <1>7, <1>8, <1>9, <1>10 DEF InvocationSound, HandlerSound

LEMMA HandlerStarts ==
  ASSUME InvocationSound, DispatcherSound', StartHandler
  PROVE  InvocationSound'
<1>1. /\ phase = "dispatching" /\ pc = "idle"
      /\ UNCHANGED <<handling, returns, args, dispatch, stubs>>
      /\ parameters' = constructors[Trying]
  BY DEF StartHandler
<1>2. constructors # << >> /\ NewSound /\ DispatcherSound /\ HandlerSound /\ TypeOK
  BY <1>1 DEF InvocationSound, HandlerSound
<1>3. /\ constructors' = constructors /\ args_cnt' = args_cnt /\ phase' = phase
      /\ level' = level /\ tried' = tried
  BY <1>1 DEF dispatch
<1>4. Trying' = Trying /\ \A n : Facts!BranchFor(n)' = Facts!BranchFor(n)
  BY <1>1, DispatchIsKept
<1>5. IsParameterList(parameters')
  <2>1. Trying \in Facts!Positions
    BY <1>1, <1>2, Facts!EnoughArguments, SameHandlers DEF DispatcherSound, Trying
  <2>2. /\ constructors \in Files \cup CompiledFiles
        /\ constructors \in Seq(Seq(Parameter))
    BY <1>2, SignaturesAreTyped DEF DispatcherSound
  <2>3. Trying \in 1 .. Len(constructors)
    BY <2>1, <2>2, SignaturesHaveTheLength DEF Facts!Positions
  <2>. QED BY <1>1, <2>2, <2>3, FilesAssumption
<1>6. /\ handling' \in Handlings /\ returns' \in Returns /\ args' \in Seq(Value)
  BY <1>1, <1>2 DEF TypeOK
<1>7. Called'
  <2>1. Positions' = DOMAIN constructors[Trying]
    BY <1>1, <1>5 DEF Positions, IsParameterList
  <2>2. variables' = [i \in Positions' |-> Declared(i)']
    BY <2>1 DEF StartHandler
  <2>3. returns' = "constructor"
    BY <1>1, <1>2 DEF NewSound
  <2>. QED BY <2>2, <2>3 DEF StartHandler, Called
<1>8. HandlerSound' /\ IInv'
  BY <1>5, <1>6, <1>7, CalledNextStartsSound DEF IsParameterList
<1>9. pc' = "arguments"
  BY DEF StartHandler
<1>10. NewSound'
  BY <1>1, <1>2, <1>3, <1>4, <1>9 DEF NewSound
<1>. QED BY <1>1, <1>2, <1>3, <1>8, <1>9, <1>10 DEF InvocationSound

LEMMA HandlerRuns ==
  ASSUME InvocationSound, DispatcherSound', HandlerStep
  PROVE  InvocationSound'
<1>1. Step /\ UNCHANGED <<dispatch, stubs>>
  BY DEF HandlerStep
<1>2. pc # "idle" /\ pc' # "idle" /\ UNCHANGED input
  <2>1. CASE ReadParameter
    BY <2>1 DEF ReadParameter, Read, ReadVariadic, ReadArgument, StoreArgument, UseDefault,
                OriginalDefault, NewDefault, Store, Fail
  <2>2. CASE CallStub \/ EnterString \/ FreeStrings \/ Return
    BY <2>2 DEF CallStub, EnterString, FreeStrings, Return
  <2>. QED BY <1>1, <2>1, <2>2 DEF Step
<1>3. HandlerSound' /\ IInv'
  BY <1>1, <1>2, StepIsSound, NextKeepsInvariant DEF InvocationSound, Next
<1>4. /\ constructors' = constructors /\ args_cnt' = args_cnt /\ phase' = phase
      /\ level' = level /\ tried' = tried /\ stubs' = stubs
      /\ parameters' = parameters /\ args' = args /\ returns' = returns
  BY <1>1, <1>2 DEF dispatch, input
<1>5. Trying' = Trying /\ \A n : Facts!BranchFor(n)' = Facts!BranchFor(n)
  BY <1>1, DispatchIsKept
<1>6. NewSound => NewSound'
  BY <1>2, <1>4, <1>5 DEF NewSound
<1>. QED BY <1>2, <1>3, <1>4, <1>6 DEF InvocationSound

LEMMA HandlerStops ==
  ASSUME InvocationSound, DispatcherSound', HandlerReturns
  PROVE  InvocationSound'
<1>1. /\ phase = "dispatching" /\ pc = "returned" /\ pc' = "idle"
      /\ UNCHANGED <<input, next, memory, outcome, constructors>>
      /\ stubs' = IF StubWasCalled THEN Append(stubs, Trying) ELSE stubs
      /\ Dispatcher!HandlerReturned(result # "error")
  BY DEF HandlerReturns
<1>2. /\ constructors # << >> /\ NewSound /\ DispatcherSound /\ HandlerSound /\ IInv
      /\ TypeOK /\ InputTyped /\ ReadSound /\ RefusalSound
  BY <1>1 DEF InvocationSound, HandlerSound
<1>3. /\ sorted_constructors' = sorted_constructors /\ args_cnt' = args_cnt /\ level' = level
      /\ phase' \in {"dispatching", "returned"}
  BY <1>1 DEF Dispatcher!HandlerReturned
<1>4. \A n : Facts!BranchFor(n)' = Facts!BranchFor(n)
  BY <1>3, BranchesAreKept
<1>5. NewSound'
  BY <1>1, <1>2, <1>3, <1>4 DEF NewSound, input
<1>6. stubs' \in Seq(DOMAIN constructors')
  <2>1. Trying \in Facts!Positions
    BY <1>1, <1>2, Facts!EnoughArguments, SameHandlers DEF DispatcherSound, Trying
  <2>2. constructors \in Seq(Seq(Parameter))
    BY <1>2, SignaturesAreTyped DEF DispatcherSound
  <2>3. Trying \in DOMAIN constructors
    BY <2>1, <2>2, SignaturesHaveTheLength DEF Facts!Positions
  <2>4. stubs \in Seq(DOMAIN constructors)
    BY DEF InvocationSound
  <2>5. Append(stubs, Trying) \in Seq(DOMAIN constructors)
    BY <2>3, <2>4, AppendProperties
  <2>. QED BY <1>1, <2>4, <2>5
<1>7. ResultIsIntact'
  BY <1>1, <1>2 DEF IInv, ResultIsIntact, StubWasCalled, outcome
<1>8. /\ Positions' = Positions /\ InputTyped'
      /\ \A i, w : ReadInto(i, w)' <=> ReadInto(i, w)
  BY <1>1, <1>2, InputIsStable
<1>9. TypeOK'
  BY <1>1, <1>2, <1>8 DEF TypeOK, input, memory, outcome
<1>10. ReadSound' /\ RefusalSound'
  BY <1>1, <1>2, <1>8 DEF ReadSound, RefusalSound, StubWasCalled, input, memory, outcome
<1>. QED BY <1>1, <1>2, <1>5, <1>6, <1>7, <1>8, <1>9, <1>10 DEF InvocationSound, HandlerSound

(* Every handler of every "new" keeps what is known of handlers. *)
THEOREM InvocationSoundHolds == InvocationSpec => []InvocationSound
<1>1. InvocationInit => InvocationSound
  BY InvocationStarts
<1>2. InvocationSound /\ [InvocationNext]_allvars => InvocationSound'
  <2>. SUFFICES ASSUME InvocationSound, [InvocationNext]_allvars
                PROVE  InvocationSound'
    OBVIOUS
  <2>1. DispatcherSound'
    BY DispatcherSteps DEF InvocationSound
  <2>2. CASE Compile
    BY <2>1, <2>2, CompileInvokes
  <2>3. CASE New
    BY <2>1, <2>3, NewInvokes
  <2>4. CASE StartHandler
    BY <2>1, <2>4, HandlerStarts
  <2>5. CASE HandlerStep
    BY <2>1, <2>5, HandlerRuns
  <2>6. CASE HandlerReturns
    BY <2>1, <2>6, HandlerStops
  <2>7. CASE Over \/ UNCHANGED allvars
    BY <2>1, <2>7, InvocationStutters DEF Over
  <2>. QED BY <2>2, <2>3, <2>4, <2>5, <2>6, <2>7 DEF InvocationNext
<1>. QED BY <1>1, <1>2, PTL DEF InvocationSpec

(* Every variable of the handlers and of the dispatch has its type. *)
THEOREM InvocationTypeCorrect == InvocationSpec => []InvocationTypeOK
<1>1. InvocationSound => InvocationTypeOK
  <2>. SUFFICES ASSUME InvocationSound
                PROVE  InvocationTypeOK
    OBVIOUS
  <2>1. TypeOK /\ constructors \in AllFiles /\ DispatcherSound
    BY DEF InvocationSound, HandlerSound, DispatcherSound
  <2>2. Dispatcher!TypeOK
    BY <2>1, Facts!DispatchIsTyped, SameProperties DEF DispatcherSound
  <2>3. \A k \in DOMAIN stubs : stubs[k] \in DOMAIN constructors
    BY DEF InvocationSound
  <2>4. constructors # << >> /\ pc # "idle" => phase = "dispatching"
    BY DEF InvocationSound, NewSound
  <2>. QED BY <2>1, <2>2, <2>3, <2>4 DEF InvocationTypeOK
<1>. QED BY <1>1, InvocationSoundHolds, PTL

----------------------------------------------------------------------------
(* What holds of a called handler holds of those that a "new" runs.         *)
THEOREM HandlersOfNewHold ==
  InvocationSpec => [](/\ StubGetsItsArguments
                       /\ UnionsPickTheirMember
                       /\ StringsLiveAsLongAsNeeded
                       /\ NewInterfaceHasOneOwner
                       /\ BadCallsAreErrors)
<1>. DEFINE Holds == /\ StubGetsItsArguments
                     /\ UnionsPickTheirMember
                     /\ StringsLiveAsLongAsNeeded
                     /\ NewInterfaceHasOneOwner
                     /\ BadCallsAreErrors
<1>1. InvocationSound => Holds
  <2>. SUFFICES ASSUME InvocationSound
                PROVE  Holds
    OBVIOUS
  <2>1. HandlerSound /\ IF pc = "idle" THEN ResultIsIntact ELSE IInv
    BY DEF InvocationSound
  <2>2. StubGetsItsArguments /\ UnionsPickTheirMember /\ BadCallsAreErrors
    BY <2>1, StubGetsWhatItNeeds, UnionsPick, BadCallsFail
  <2>3. ResultIsIntact
    BY <2>1 DEF IInv
  <2>4. LongStringsAreFreed
    BY <2>1 DEF IInv, FreedSound, LongStringsAreFreed, LeftThroughCleanUp
  <2>5. NewInterfaceHasOneOwner
    BY <2>1 DEF IInv, NewInterfaceHasOneOwner, LeftThroughCleanUp
  <2>. QED BY <2>2, <2>3, <2>4, <2>5 DEF StringsLiveAsLongAsNeeded
<1>. HIDE DEF Holds
<1>2. InvocationSpec => []Holds
  BY <1>1, InvocationSoundHolds, PTL
<1>. QED BY <1>2 DEF Holds

----------------------------------------------------------------------------
(* Constructors without optional and variadic parameters.                   *)

AllPlain ==
  \A k \in DOMAIN constructors : \A i \in DOMAIN constructors[k] :
     ~constructors[k][i].optional /\ ~constructors[k][i].variadic

FitsTheArguments(list) ==
  Len(list) = Len(args) /\ \A i \in DOMAIN list : Takes(list[i].type, args[i])

Fitting == {k \in DOMAIN constructors : FitsTheArguments(constructors[k])}

LEMMA FittingInOrder ==
  FittingConstructors = Increasing(Fitting, Len(constructors))
BY DEF FittingConstructors, Fitting, FitsTheArguments, Takes

LEMMA PlainSignature ==
  ASSUME NEW list \in Seq(Parameter),
         \A i \in DOMAIN list : ~list[i].optional /\ ~list[i].variadic
  PROVE  /\ SignatureOf(list).required = Len(list) /\ SignatureOf(list).optional = 0
         /\ ~SignatureOf(list).variadic
<1>1. Len(list) \in Nat /\ DOMAIN list = 1 .. Len(list)
  OBVIOUS
<1>2. {i \in DOMAIN list : ~list[i].optional /\ ~list[i].variadic} = 1 .. Len(list)
  BY <1>1
<1>3. {i \in DOMAIN list : list[i].optional} = {}
  OBVIOUS
<1>4. Cardinality(1 .. Len(list)) = Len(list)
  <2>1. \A m \in Nat : Cardinality(1 .. m) = m
    <3>. TAKE m \in Nat
    <3>1. Cardinality(1 .. m) = IF 1 > m THEN 0 ELSE m - 1 + 1
      BY FS_Interval
    <3>. QED BY <3>1
  <2>. QED BY <1>1, <2>1
<1>5. Cardinality({}) = 0
  BY FS_EmptySet
<1>. QED BY <1>2, <1>3, <1>4, <1>5 DEF SignatureOf

(* A plain handler runs its stub if the arguments fit, and fails if not. *)
LEMMA PlainHandlers ==
  ASSUME HandlerSound, pc = "returned", Len(parameters) = Len(args),
         \A i \in Positions : ~parameters[i].optional /\ ~parameters[i].variadic
  PROVE  /\ StubWasCalled <=> FitsTheArguments(parameters)
         /\ ~StubWasCalled => result = "error"
<1>1. /\ InputTyped /\ ReadSound /\ RefusalSound /\ handling \in {"original", "new"}
      /\ parameters \in Seq(Parameter)
  BY DEF HandlerSound, InputTyped, TypeOK
<1>2. DOMAIN parameters = Positions /\ Plain = Positions
  BY <1>1 DEF Positions, Plain
<1>3. ASSUME NEW i \in Positions
      PROVE  Fits(i) <=> Takes(parameters[i].type, args[i])
  <2>1. i <= Len(args)
    BY DEF Positions
  <2>2. CASE ~Absent(i)
    BY <2>2 DEF Fits
  <2>3. CASE Absent(i)
    <3>1. handling = "new" /\ args[i] = "undefined"
      BY <2>1, <2>3 DEF Absent, Given
    <3>2. Fits(i) <=> "boolean" \in parameters[i].type
      BY <2>3, <3>1 DEF Fits
    <3>3. Takes(parameters[i].type, "undefined") <=> "boolean" \in parameters[i].type
      <4>1. parameters[i].type \subseteq Type
        BY <1>1, ParameterFacts DEF InputTyped
      <4>2. \A t \in Type : Accepts("new", t, "undefined") <=> t = "boolean"
        <5>. SUFFICES ASSUME NEW t \in Type
                      PROVE  Accepts("new", t, "undefined") <=> t = "boolean"
          OBVIOUS
        <5>1. t \in {"Interface", "boolean", "double", "float", "long", "string"}
          BY Types
        <5>. QED BY <5>1, AcceptedValues
      <4>. QED BY <3>1, <4>1, <4>2 DEF Takes
    <3>. QED BY <3>1, <3>2, <3>3
  <2>. QED BY <2>2, <2>3
<1>4. StubWasCalled => \A i \in Positions : Fits(i)
  BY <1>1, <1>2, AllAreRead, ReadFits
<1>5. ~StubWasCalled => \E i \in Positions : ~Fits(i)
  BY <1>1, <1>2, RefusedDoesNotFit DEF RefusalSound
<1>6. ASSUME ~StubWasCalled
      PROVE  result = "error"
  <2>1. PICK i \in Positions : ~Fits(i)
    BY <1>5, <1>6
  <2>2. CASE Absent(i)
    <3>1. handling = "new"
      <4>1. i <= Len(args)
        BY DEF Positions
      <4>. QED BY <2>2, <4>1 DEF Absent, Given
    <3>. QED BY <1>1, <1>6, <3>1 DEF RefusalSound
  <2>3. CASE ~Absent(i)
    BY <1>2, <2>1, <2>3, WrongArgumentIsReported
  <2>. QED BY <2>2, <2>3
<1>7. FitsTheArguments(parameters) <=> \A i \in Positions : Fits(i)
  BY <1>2, <1>3 DEF FitsTheArguments
<1>. QED BY <1>4, <1>5, <1>6, <1>7

(* The branch of a "new" has the constructors with as many parameters as *)
(* there are arguments.                                                  *)
LEMMA PlainBranches ==
  ASSUME InvocationSound, AllPlain, phase \in {"dispatching", "returned"}
  PROVE  /\ level # 0 =>
              /\ Facts!AtThisLevel \in Seq(Nat) /\ Facts!Ascending(Facts!AtThisLevel)
              /\ ToSet(Facts!AtThisLevel)
                   = {k \in DOMAIN constructors : Len(constructors[k]) = Len(args)}
         /\ level = 0 => ~\E k \in DOMAIN constructors : Len(constructors[k]) = Len(args)
<1>1. /\ constructors # << >> /\ NewSound /\ DispatcherSound /\ TypeOK
  BY DEF InvocationSound, HandlerSound
<1>2. /\ constructors \in Seq(Seq(Parameter)) /\ SignaturesOf(constructors) # << >>
      /\ SignaturesOf(constructors) \in Seq(Facts!Signature)
  BY <1>1, SignaturesAreTyped DEF DispatcherSound
<1>3. /\ Facts!IsAList /\ sorted_constructors = Facts!SortConstructors
      /\ args_cnt = Len(args) /\ level = Facts!BranchFor(args_cnt) /\ args_cnt \in Nat
  BY <1>1, <1>2 DEF DispatcherSound, Facts!DispatchSound, NewSound, Facts!IsAList
<1>4. Facts!Positions = DOMAIN constructors /\ DOMAIN SignaturesOf(constructors) = DOMAIN constructors
  <2>1. DOMAIN constructors = 1 .. Len(constructors)
    BY <1>2
  <2>. QED BY <1>2, <2>1, SignaturesHaveTheLength DEF Facts!Positions, SignaturesOf
<1>5. ASSUME NEW k \in Facts!Positions
      PROVE  /\ SignaturesOf(constructors)[k].required = Len(constructors[k])
             /\ SignaturesOf(constructors)[k].optional = 0
             /\ ~SignaturesOf(constructors)[k].variadic
  <2>1. k \in DOMAIN constructors /\ SignaturesOf(constructors)[k] = SignatureOf(constructors[k])
    BY <1>4 DEF SignaturesOf
  <2>2. constructors[k] \in Seq(Parameter)
    BY <1>2, <2>1
  <2>3. \A i \in DOMAIN constructors[k] :
          ~constructors[k][i].optional /\ ~constructors[k][i].variadic
    BY <2>1 DEF AllPlain
  <2>. QED BY <2>1, <2>2, <2>3, PlainSignature
<1>6. ASSUME NEW k \in Facts!Positions
      PROVE  Facts!Callable(k, args_cnt) <=> Len(constructors[k]) = Len(args)
  <2>1. Facts!Callable(k, args_cnt) <=> args_cnt = SignaturesOf(constructors)[k].required
    BY <1>3, <1>5, Facts!PlainIsCallable
  <2>. QED BY <1>3, <1>5, <2>1
<1>7. /\ Facts!CallableInOrder(args_cnt) \in Seq(Nat)
      /\ Facts!Ascending(Facts!CallableInOrder(args_cnt))
      /\ \A i \in Facts!ToSet(Facts!CallableInOrder(args_cnt)) :
            i \in Facts!Positions /\ Facts!Callable(i, args_cnt)
      /\ \A i \in Facts!Positions : Facts!Callable(i, args_cnt) =>
            i \in Facts!ToSet(Facts!CallableInOrder(args_cnt))
  BY <1>3, Facts!OrderFacts
<1>8. CASE level # 0
  <2>1. Facts!AtThisLevel = Facts!CallableInOrder(args_cnt)
    <3>1. Facts!AtBranch(args_cnt) = Facts!CallableInOrder(args_cnt)
      BY <1>3, <1>5, <1>8, Facts!ExactBranch
    <3>. QED BY <1>3, <3>1 DEF Facts!AtBranch, Facts!AtThisLevel
  <2>2. Facts!ToSet(Facts!AtThisLevel) = ToSet(Facts!AtThisLevel)
    BY DEF Facts!ToSet, ToSet
  <2>. QED BY <1>4, <1>6, <1>7, <1>8, <2>1, <2>2
<1>9. CASE level = 0
  <2>. SUFFICES ASSUME NEW k \in DOMAIN constructors, Len(constructors[k]) = Len(args)
                PROVE  FALSE
    BY <1>9
  <2>1. k \in Facts!ToSet(Facts!CallableInOrder(args_cnt))
    BY <1>4, <1>6, <1>7
  <2>2. Facts!CallableInOrder(args_cnt) # << >>
    BY <2>1 DEF Facts!ToSet
  <2>. QED BY <1>3, <1>9, <2>2, Facts!BranchOfACall
<1>. QED BY <1>8, <1>9

(* The stubs of a "new" are those of the constructors tried that fit. *)
StubsSound ==
  AllPlain /\ phase \in {"dispatching", "returned"} =>
    /\ Ascending(stubs)
    /\ ToSet(stubs) = {tried[k][1] : k \in 1 .. Len(tried)} \cap Fitting
    /\ \A k \in 1 .. Len(tried) : tried[k][2] => tried[k][1] \in Fitting

LEMMA FittingIsKept ==
  ASSUME UNCHANGED <<constructors, args, handling>>
  PROVE  (AllPlain' <=> AllPlain) /\ Fitting' = Fitting
BY DEF AllPlain, Fitting, FitsTheArguments, Takes

LEMMA StubsAreKept ==
  ASSUME StubsSound, phase' = phase, UNCHANGED <<constructors, args, handling, tried, stubs>>
  PROVE  StubsSound'
<1>1. (AllPlain' <=> AllPlain) /\ Fitting' = Fitting
  BY FittingIsKept
<1>2. (Ascending(stubs)' <=> Ascending(stubs)) /\ ToSet(stubs)' = ToSet(stubs)
  BY DEF Ascending, ToSet
<1>. QED BY <1>1, <1>2 DEF StubsSound

LEMMA HandlerStopsPlain ==
  ASSUME InvocationSound, StubsSound, HandlerReturns
  PROVE  StubsSound'
<1>1. /\ phase = "dispatching" /\ pc = "returned"
      /\ UNCHANGED <<constructors, args, handling>>
      /\ stubs' = IF StubWasCalled THEN Append(stubs, Trying) ELSE stubs
      /\ tried' = Append(tried, <<Trying, result # "error">>)
  BY DEF HandlerReturns, Dispatcher!HandlerReturned, input, Trying
<1>2. (AllPlain' <=> AllPlain) /\ Fitting' = Fitting
  BY <1>1, FittingIsKept
<1>. SUFFICES ASSUME AllPlain
              PROVE  /\ Ascending(stubs)'
                     /\ ToSet(stubs)' = {tried'[k][1] : k \in 1 .. Len(tried')} \cap Fitting
                     /\ \A k \in 1 .. Len(tried') : tried'[k][2] => tried'[k][1] \in Fitting
  BY <1>2 DEF StubsSound
<1>3. /\ NewSound /\ DispatcherSound /\ HandlerSound /\ Facts!DispatchSound
      /\ constructors \in Seq(Seq(Parameter)) /\ stubs \in Seq(DOMAIN constructors)
      /\ parameters = constructors[Trying]
  BY <1>1, SignaturesAreTyped DEF InvocationSound, DispatcherSound, NewSound
<1>4. /\ level # 0 /\ Len(tried) < Len(Facts!AtThisLevel)
      /\ \A k \in 1 .. Len(tried) : tried[k][1] = Facts!AtThisLevel[k]
      /\ tried \in Seq(Facts!Positions \X BOOLEAN) /\ Len(tried) \in Nat
      /\ Trying = Facts!AtThisLevel[Len(tried) + 1]
  <2>1. level # 0 /\ Len(tried) < Len(Facts!AtThisLevel) /\ Facts!TriedSound
    BY <1>1, <1>3 DEF Facts!DispatchSound
  <2>2. Trying = Facts!AtThisLevel[Len(tried) + 1]
    BY SameHandlers DEF Trying, Facts!Trying
  <2>3. Len(tried) \in Nat
    BY <2>1 DEF Facts!TriedSound
  <2>. QED BY <2>1, <2>2, <2>3 DEF Facts!TriedSound
<1>5. /\ Facts!AtThisLevel \in Seq(Nat) /\ Facts!Ascending(Facts!AtThisLevel)
      /\ ToSet(Facts!AtThisLevel)
            = {k \in DOMAIN constructors : Len(constructors[k]) = Len(args)}
  BY <1>1, <1>4, PlainBranches
<1>. DEFINE these == Facts!AtThisLevel
            n     == Len(tried)
<1>6. /\ n + 1 \in 1 .. Len(these) /\ Len(these) \in Nat
      /\ \A k \in 1 .. n : k \in 1 .. Len(these)
  BY <1>4, <1>5, Members
<1>7. Trying \in ToSet(these) /\ Trying \in Nat
  BY <1>4, <1>5, <1>6, Members
<1>8. \A k \in 1 .. n : tried[k][1] < Trying
  <2>. TAKE k \in 1 .. n
  <2>1. k < n + 1 /\ k \in 1 .. Len(these)
    BY <1>4, <1>6
  <2>2. these[k] < these[n + 1]
    BY <1>5, <1>6, <2>1 DEF Facts!Ascending
  <2>. QED BY <1>4, <2>2
<1>9. /\ Trying \in DOMAIN constructors /\ Len(parameters) = Len(args)
      /\ StubWasCalled <=> Trying \in Fitting
      /\ result # "error" => Trying \in Fitting
  <2>1. Trying \in DOMAIN constructors /\ Len(parameters) = Len(args)
    BY <1>3, <1>5, <1>7
  <2>2. DOMAIN parameters = Positions
    BY <1>3 DEF Positions, HandlerSound, TypeOK
  <2>3. \A i \in Positions : ~parameters[i].optional /\ ~parameters[i].variadic
    BY <1>3, <2>1, <2>2 DEF AllPlain
  <2>4. StubWasCalled <=> FitsTheArguments(parameters)
    BY <1>1, <1>3, <2>1, <2>3, PlainHandlers
  <2>5. ~StubWasCalled => result = "error"
    BY <1>1, <1>3, <2>1, <2>3, PlainHandlers
  <2>. QED BY <1>3, <2>1, <2>4, <2>5 DEF Fitting
<1>10. /\ Len(tried') = n + 1
       /\ \A k \in 1 .. n : tried'[k] = tried[k]
       /\ tried'[n + 1] = <<Trying, result # "error">>
  BY <1>1, <1>4
<1>11. {tried'[k][1] : k \in 1 .. n + 1} = {tried[k][1] : k \in 1 .. n} \cup {Trying}
  <2>1. 1 .. n + 1 = (1 .. n) \cup {n + 1}
    BY <1>4
  <2>. QED BY <1>10, <2>1
<1>12. /\ Ascending(stubs)
       /\ ToSet(stubs) = {tried[k][1] : k \in 1 .. n} \cap Fitting
       /\ \A k \in 1 .. n : tried[k][2] => tried[k][1] \in Fitting
  BY <1>1 DEF StubsSound
<1>13. \A k \in 1 .. Len(tried') : tried'[k][2] => tried'[k][1] \in Fitting
  <2>. TAKE k \in 1 .. Len(tried')
  <2>1. k \in 1 .. n \/ k = n + 1
    BY <1>4, <1>10
  <2>2. CASE k \in 1 .. n
    BY <1>10, <1>12, <2>2
  <2>3. CASE k = n + 1
    <3>1. tried'[k][1] = Trying /\ tried'[k][2] = (result # "error")
      BY <1>10, <2>3
    <3>. QED BY <1>9, <3>1
  <2>. QED BY <2>1, <2>2, <2>3
<1>14. CASE ~StubWasCalled
  <2>1. stubs' = stubs /\ Trying \notin Fitting
    BY <1>1, <1>9, <1>14
  <2>2. Ascending(stubs)' /\ ToSet(stubs)' = ToSet(stubs)
    BY <1>12, <2>1 DEF Ascending, ToSet
  <2>. QED BY <1>10, <1>11, <1>12, <1>13, <2>1, <2>2
<1>15. CASE StubWasCalled
  <2>1. stubs' = Append(stubs, Trying) /\ Trying \in Fitting
    BY <1>1, <1>9, <1>15
  <2>2. /\ Len(stubs) \in Nat /\ DOMAIN stubs = 1 .. Len(stubs)
        /\ \A i \in 1 .. Len(stubs) : stubs[i] \in ToSet(stubs)
    BY <1>3, Members
  <2>3. \A i \in 1 .. Len(stubs) : stubs[i] < Trying
    BY <1>8, <1>12, <2>2
  <2>4. /\ Len(stubs') = Len(stubs) + 1 /\ stubs'[Len(stubs) + 1] = Trying
        /\ \A i \in 1 .. Len(stubs) : stubs'[i] = stubs[i]
    BY <1>3, <2>1
  <2>5. Ascending(stubs)'
    <3>. SUFFICES ASSUME NEW i \in 1 .. Len(stubs'), NEW j \in 1 .. Len(stubs'), i < j
                  PROVE  stubs'[i] < stubs'[j]
      BY DEF Ascending
    <3>1. i \in 1 .. Len(stubs) /\ (j \in 1 .. Len(stubs) \/ j = Len(stubs) + 1)
      BY <2>2, <2>4
    <3>. QED BY <1>12, <2>3, <2>4, <3>1 DEF Ascending
  <2>6. ToSet(stubs)' = ToSet(stubs) \cup {Trying}
    <3>1. DOMAIN stubs' = 1 .. Len(stubs) + 1
      BY <1>3, <2>1
    <3>2. ToSet(stubs)' = {stubs'[i] : i \in 1 .. Len(stubs) + 1}
      BY <3>1 DEF ToSet
    <3>3. ToSet(stubs) = {stubs[i] : i \in 1 .. Len(stubs)}
      BY <2>2 DEF ToSet
    <3>4. 1 .. Len(stubs) + 1 = (1 .. Len(stubs)) \cup {Len(stubs) + 1}
      BY <2>2
    <3>. QED BY <2>4, <3>2, <3>3, <3>4
  <2>. QED BY <1>10, <1>11, <1>12, <1>13, <2>1, <2>5, <2>6
<1>. QED BY <1>14, <1>15

(* With the inductive invariant, the stubs that were called are known. *)
THEOREM StubsSoundHolds == InvocationSpec => []StubsSound
<1>1. InvocationInit => StubsSound
  BY DEF InvocationInit, StubsSound
<1>2. InvocationSound /\ StubsSound /\ [InvocationNext]_allvars => StubsSound'
  <2>. SUFFICES ASSUME InvocationSound, StubsSound, [InvocationNext]_allvars
                PROVE  StubsSound'
    OBVIOUS
  <2>1. CASE Compile
    BY <2>1 DEF Compile, Dispatcher!Compile, StubsSound
  <2>2. CASE New
    <3>1. PICK arguments \in NewArguments : Dispatcher!New(Len(arguments))
      BY <2>2 DEF New
    <3>2. constructors # << >> /\ stubs' = stubs /\ tried' = tried /\ phase = "compiled"
      BY <2>2, <3>1, FilesAssumption DEF New, Dispatcher!New
    <3>3. tried' = << >> /\ stubs' = << >>
      BY <3>2 DEF InvocationSound, NewSound
    <3>4. Ascending(stubs)' /\ ToSet(stubs)' = {}
      BY <3>3 DEF Ascending, ToSet
    <3>5. 1 .. Len(tried') = {}
      BY <3>3
    <3>. QED BY <3>4, <3>5 DEF StubsSound
  <2>3. CASE StartHandler
    BY <2>3, StubsAreKept DEF StartHandler, dispatch
  <2>4. CASE HandlerStep
    <3>1. UNCHANGED input
      BY <2>4 DEF HandlerStep, Step, ReadParameter, CallStub, EnterString, FreeStrings, Return
    <3>. QED BY <2>4, <3>1, StubsAreKept DEF HandlerStep, dispatch, input
  <2>5. CASE HandlerReturns
    BY <2>5, HandlerStopsPlain
  <2>6. CASE Over \/ UNCHANGED allvars
    BY <2>6, StubsAreKept DEF Over, allvars, vars, dispatch, input
  <2>. QED BY <2>1, <2>2, <2>3, <2>4, <2>5, <2>6 DEF InvocationNext
<1>. QED BY <1>1, <1>2, InvocationSoundHolds, PTL DEF InvocationSpec

LEMMA OutcomeOfNew ==
  ASSUME InvocationSound, StubsSound, AllPlain, phase = "returned"
  PROVE  /\ IsPrefix(stubs, FittingConstructors)
         /\ new_value = "object" => stubs # << >> /\ Last(tried) = <<Last(stubs), TRUE>>
         /\ new_value = "error" => stubs = FittingConstructors
<1>1. /\ Ascending(stubs)
      /\ ToSet(stubs) = {tried[k][1] : k \in 1 .. Len(tried)} \cap Fitting
      /\ \A k \in 1 .. Len(tried) : tried[k][2] => tried[k][1] \in Fitting
  BY DEF StubsSound
<1>2. /\ DispatcherSound /\ Facts!DispatchSound /\ constructors # << >>
      /\ constructors \in Seq(Seq(Parameter)) /\ stubs \in Seq(DOMAIN constructors)
  BY SignaturesAreTyped DEF InvocationSound, DispatcherSound
<1>3. /\ Len(constructors) \in Nat /\ DOMAIN constructors = 1 .. Len(constructors)
      /\ Fitting \subseteq 1 .. Len(constructors) /\ stubs \in Seq(Nat)
  <2>1. DOMAIN constructors = 1 .. Len(constructors) /\ Len(constructors) \in Nat
    BY <1>2
  <2>. QED BY <1>2, <2>1 DEF Fitting
<1>. DEFINE fitting == FittingConstructors
            these   == Facts!AtThisLevel
            n       == Len(tried)
<1>4. fitting \in Seq(Nat) /\ Ascending(fitting) /\ ToSet(fitting) = Fitting
  BY <1>3, FittingInOrder, IncreasingFacts
<1>. HIDE DEF fitting
<1>5. \A k \in Fitting : k \in DOMAIN constructors /\ Len(constructors[k]) = Len(args)
  BY DEF Fitting, FitsTheArguments
<1>6. CASE level = 0
  <2>1. Fitting = {}
    BY <1>5, <1>6, PlainBranches
  <2>2. stubs = fitting
    BY <1>1, <1>3, <1>4, <2>1, AscendingIsUnique
  <2>3. new_value = "error"
    BY <1>2, <1>6 DEF Facts!DispatchSound, Facts!ReturnSound
  <2>4. IsPrefix(fitting, fitting)
    BY <1>4 DEF IsPrefix
  <2>. QED BY <2>2, <2>3, <2>4 DEF fitting
<1>7. CASE level # 0
  <2>1. /\ tried \in Seq(Facts!Positions \X BOOLEAN) /\ n <= Len(these)
        /\ \A k \in 1 .. n : tried[k][1] = these[k]
        /\ n \in Nat /\ tried # << >>
        /\ new_value \in {"object", "error"} /\ (new_value = "object" <=> tried[n][2])
        /\ new_value = "error" => n = Len(these)
    BY <1>2, <1>7 DEF Facts!DispatchSound, Facts!ReturnSound, Facts!TriedSound
  <2>2. /\ these \in Seq(Nat) /\ Facts!Ascending(these)
        /\ ToSet(these) = {k \in DOMAIN constructors : Len(constructors[k]) = Len(args)}
    BY <1>7, PlainBranches
  <2>. HIDE DEF these
  <2>3. CASE new_value = "error"
    <3>1. \A k \in Fitting : \E i \in 1 .. n : tried[i][1] = k
      <4>. TAKE k \in Fitting
      <4>1. k \in ToSet(these)
        BY <1>5, <2>2
      <4>2. PICK i \in 1 .. Len(these) : these[i] = k
        BY <2>2, <4>1, Members
      <4>. QED BY <2>1, <2>3, <4>2
    <3>2. ToSet(stubs) = Fitting
      BY <1>1, <3>1
    <3>3. stubs = fitting
      BY <1>1, <1>3, <1>4, <3>2, AscendingIsUnique
    <3>4. IsPrefix(fitting, fitting)
      BY <1>4 DEF IsPrefix
    <3>. QED BY <2>3, <3>3, <3>4 DEF fitting
  <2>4. CASE new_value = "object"
    <3>. DEFINE m == tried[n][1]
    <3>1. n \in 1 .. n /\ tried[n][2] /\ n \in 1 .. Len(these) /\ Len(these) \in Nat
      BY <2>1, <2>2, <2>4
    <3>2. m \in Fitting /\ m = these[n] /\ m \in Nat
      <4>1. m \in Fitting
        BY <1>1, <3>1
      <4>2. m = these[n]
        BY <2>1, <3>1
      <4>3. m \in Nat
        <5>1. \A x \in Fitting : x \in Nat
          BY <1>3
        <5>. HIDE DEF m
        <5>. QED BY <4>1, <5>1
      <4>. QED BY <4>1, <4>2, <4>3
    <3>3. \A k \in 1 .. n : tried[k][1] <= m
      <4>. TAKE k \in 1 .. n
      <4>1. k \in 1 .. Len(these) /\ (k < n \/ k = n)
        BY <2>1, <2>2, <3>1
      <4>2. k < n => these[k] < these[n]
        BY <2>2, <3>1, <4>1 DEF Facts!Ascending
      <4>3. these[k] \in Nat
        BY <2>2, <4>1
      <4>. QED BY <2>1, <3>2, <4>1, <4>2, <4>3
    <3>4. \A k \in Fitting : k <= m => \E i \in 1 .. n : tried[i][1] = k
      <4>. TAKE k \in Fitting
      <4>. SUFFICES ASSUME k <= m
                    PROVE  \E i \in 1 .. n : tried[i][1] = k
        OBVIOUS
      <4>1. k \in ToSet(these) /\ k \in Nat
        BY <1>3, <1>5, <2>2
      <4>2. PICK i \in 1 .. Len(these) : these[i] = k
        BY <2>2, <4>1, Members
      <4>3. ~ (n < i)
        <5>1. n < i => these[n] < these[i]
          BY <2>2, <3>1 DEF Facts!Ascending
        <5>. QED BY <3>2, <4>1, <4>2, <5>1
      <4>4. i \in 1 .. n
        BY <2>1, <4>3
      <4>. QED BY <2>1, <4>2, <4>4
    <3>5. ToSet(stubs) = {k \in ToSet(fitting) : k <= m}
      BY <1>1, <1>4, <3>3, <3>4
    <3>. HIDE DEF m
    <3>6. IsPrefix(stubs, fitting)
      BY <1>1, <1>3, <1>4, <3>2, <3>5, AscendingPart
    <3>7. m \in ToSet(stubs)
      BY <1>4, <3>2, <3>5
    <3>8. PICK i \in 1 .. Len(stubs) : stubs[i] = m
      BY <1>3, <3>7, Members
    <3>9. /\ Len(stubs) \in Nat /\ Len(stubs) \in 1 .. Len(stubs)
          /\ stubs[Len(stubs)] \in ToSet(stubs) /\ stubs[Len(stubs)] \in Nat
      <4>1. Len(stubs) \in Nat
        BY <1>3, Members
      <4>2. Len(stubs) \in 1 .. Len(stubs)
        BY <3>8, <4>1
      <4>. QED BY <1>3, <4>1, <4>2, Members
    <3>10. i = Len(stubs)
      <4>1. i < Len(stubs) => stubs[i] < stubs[Len(stubs)]
        BY <1>1, <3>9 DEF Ascending
      <4>2. stubs[Len(stubs)] <= m
        BY <3>5, <3>9
      <4>. QED BY <3>2, <3>8, <3>9, <4>1, <4>2
    <3>11. Last(stubs) = m /\ stubs # << >>
      BY <3>8, <3>9, <3>10 DEF Last
    <3>12. Last(tried) = <<m, TRUE>>
      <4>1. tried[n] \in Facts!Positions \X BOOLEAN
        BY <2>1, <3>1
      <4>2. PICK made \in BOOLEAN : tried[n] = <<m, made>>
        BY <4>1 DEF m
      <4>3. tried[n] = <<m, TRUE>>
        BY <3>1, <4>2
      <4>. QED BY <4>3 DEF Last
    <3>. QED BY <2>4, <3>6, <3>11, <3>12 DEF fitting
  <2>. QED BY <2>1, <2>3, <2>4
<1>. QED BY <1>6, <1>7

(* Of the constructors of any interface, none with an optional or variadic   *)
(* parameter, a "new" calls the stubs of those that its arguments fit, in    *)
(* the order of the WebIDL file, until one makes the object; if none does    *)
(* the script gets an error.                                                 *)
THEOREM FirstFittingConstructorHolds == InvocationSpec => []FirstFittingConstructor
<1>1. InvocationSound /\ StubsSound => FirstFittingConstructor
  <2>. SUFFICES ASSUME InvocationSound, StubsSound
                PROVE  FirstFittingConstructor
    OBVIOUS
  <2>1. Dispatcher!TriedInOrder
    BY Facts!HandlersInOrder, SameProperties DEF InvocationSound, DispatcherSound
  <2>2. ASSUME phase = "returned", AllPlain
        PROVE  /\ IsPrefix(stubs, FittingConstructors)
               /\ new_value = "object" => stubs # << >> /\ Last(tried) = <<Last(stubs), TRUE>>
               /\ new_value = "error" => stubs = FittingConstructors
    BY <2>2, OutcomeOfNew
  <2>. QED BY <2>1, <2>2 DEF FirstFittingConstructor, AllPlain
<1>. QED BY <1>1, InvocationSoundHolds, StubsSoundHolds, PTL
=============================================================================

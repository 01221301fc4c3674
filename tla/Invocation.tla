----------------------------- MODULE Invocation -----------------------------
(***************************************************************************)
(* What a statement of a script makes the generated code do: the call of   *)
(* an operation runs one handler (CallHandler); a "new" runs               *)
(* create_<interface>_handler, which runs the handlers of the interface's  *)
(* constructors until one does not return an error (Constructors).         *)
(*                                                                         *)
(* In Constructors a handler succeeds or not as it likes, if it has enough *)
(* arguments; here every handler is run, step by step, on the arguments.   *)
(***************************************************************************)
EXTENDS CallHandler

CONSTANTS
  Files,         \* interfaces: sequences of the constructors' parameter lists
  NewArguments,  \* what scripts pass to the "new" of an interface of Files
  CompiledFiles, \* interfaces that are compiled, and not used by a script
  MaxArgs        \* bound on the number of arguments of a "new"

VARIABLES
  constructors,         \* the interface's, << >> if an operation is called
  sorted_constructors, args_cnt, level, tried, new_value, phase, \* of Constructors
  stubs                 \* the constructors whose stub was called, in order

ASSUME FilesAssumption ==
  \A file \in Files \cup CompiledFiles :
     /\ file \in Seq(Seq(Parameter)) /\ file # << >>
     /\ \A k \in 1 .. Len(file) : IsParameterList(file[k])
ASSUME NewArgumentsAssumption ==
  /\ MaxArgs \in Nat
  /\ \A arguments \in NewArguments :
        /\ arguments \in Seq(Value)
        /\ Len(arguments) <= MaxArgs /\ Len(arguments) < Word
ASSUME ConstructorsAssumption == Files \cup CompiledFiles # {} => "constructor" \in Returns

SignatureOf(list) ==
  LET P == DOMAIN list
  IN  [required |-> Cardinality({i \in P : ~list[i].optional /\ ~list[i].variadic}),
       optional |-> Cardinality({i \in P : list[i].optional}),
       variadic |-> \E i \in P : list[i].variadic]

SignaturesOf(file) == [k \in DOMAIN file |-> SignatureOf(file[k])]

AllFiles == Files \cup CompiledFiles \cup {<< >>}
AllSignatures == {SignaturesOf(file) : file \in AllFiles}

Dispatcher ==
  INSTANCE Constructors WITH
    constructors <- SignaturesOf(constructors), Inputs <- AllSignatures

dispatch == <<constructors, sorted_constructors, args_cnt, level, tried, new_value, phase>>
allvars == <<vars, dispatch, stubs>>

(* The script calls an operation, or it will evaluate a "new". *)
InvocationInit ==
  /\ sorted_constructors = << >>
  /\ args_cnt = 0
  /\ level = 0
  /\ tried = << >>
  /\ new_value = "none"
  /\ phase = "compiling"
  /\ stubs = << >>
  /\ \/ constructors = << >> /\ Init
     \/ /\ constructors \in Files \cup CompiledFiles
        /\ handling \in Handlings
        /\ returns = "constructor"
        /\ parameters = << >> /\ args = << >> /\ variables = << >>
        /\ pc = "idle"
        /\ next = 1
        /\ length = 0 /\ heap = {}
        /\ new_interface = "none"
        /\ created = FALSE /\ _error = FALSE
        /\ return_value = Indeterminate /\ string_value = "none" /\ result = "none"

Compile ==
  /\ UNCHANGED <<vars, constructors, stubs>>
  /\ Dispatcher!Compile

New ==
  /\ constructors \in Files
  /\ UNCHANGED <<handling, parameters, returns, pc, next, memory, outcome, constructors, stubs>>
  /\ \E arguments \in NewArguments :
       Dispatcher!New(Len(arguments)) /\ args' = arguments

Trying == Dispatcher!Trying

(* <interface>_<constructor>_handler(..., args_p, args_cnt): the same arguments *)
(* for every constructor, a new object and fresh variables for each.            *)
StartHandler ==
  /\ phase = "dispatching" /\ pc = "idle"
  /\ UNCHANGED <<handling, returns, args, dispatch, stubs>>
  /\ parameters' = constructors[Trying]
  /\ pc' = "arguments"
  /\ next' = 1
  /\ variables' = [i \in DOMAIN constructors[Trying] |-> Declared(i)']
  /\ length' = 0 /\ heap' = {}
  /\ new_interface' = "held"
  /\ created' = FALSE /\ _error' = FALSE
  /\ return_value' = Indeterminate /\ string_value' = "none" /\ result' = "none"

HandlerStep == Step /\ UNCHANGED <<dispatch, stubs>>

(* jerry_value_is_error(new_<interface>). *)
HandlerReturns ==
  /\ phase = "dispatching" /\ pc = "returned"
  /\ UNCHANGED <<input, next, memory, outcome, constructors>>
  /\ Dispatcher!HandlerReturned(result # "error")
  /\ stubs' = IF StubWasCalled THEN Append(stubs, Trying) ELSE stubs
  /\ pc' = "idle"

Over ==
  /\ CASE constructors = << >>           -> pc = "returned"
       [] constructors \in CompiledFiles -> phase = "compiled"
       [] OTHER                          -> phase = "returned"
  /\ UNCHANGED allvars

InvocationNext ==
  Compile \/ New \/ StartHandler \/ HandlerStep \/ HandlerReturns \/ Over

InvocationSpec == InvocationInit /\ [][InvocationNext]_allvars

----------------------------------------------------------------------------
(* The types of all variables. *)
InvocationTypeOK ==
  /\ TypeOK
  /\ constructors \in AllFiles
  /\ Dispatcher!TypeOK
  /\ \A k \in DOMAIN stubs : stubs[k] \in DOMAIN constructors
  /\ constructors # << >> /\ pc # "idle" => phase = "dispatching"

(* Run on real arguments, the handlers behave as Constructors lets them: no  *)
(* handler that is tried with too few arguments returns an object.  This is  *)
(* so although the original handling drops its "Too few parameters" error    *)
(* and returns the object nevertheless: the branches never lead there.       *)
ImplementsDispatcher == Dispatcher!Spec

(* See Constructors. *)
BranchesFitTheSignatures == Dispatcher!BranchesFitTheSignatures
ResultIsNotReleased == Dispatcher!ResultIsNotReleased

(* The constructors that a "new" fits: a value for every parameter. *)
FittingConstructors ==
  LET fits(list) ==
        /\ Len(list) = Len(args)
        /\ \A i \in DOMAIN list : \E t \in list[i].type : Accepts(handling, t, args[i])
  IN  Increasing({k \in DOMAIN constructors : fits(constructors[k])}, Len(constructors))

(* Handlers are tried in the order of the file.  If no constructor has        *)
(* optional or variadic parameters, the stubs that are called are those of    *)
(* the constructors that the arguments fit, in that order, up to the first    *)
(* one that does not fail: the script gets its object, and an error if there  *)
(* is none.                                                                   *)
FirstFittingConstructor ==
  /\ Dispatcher!TriedInOrder
  /\ /\ phase = "returned"
     /\ \A k \in DOMAIN constructors : \A i \in DOMAIN constructors[k] :
          ~constructors[k][i].optional /\ ~constructors[k][i].variadic
     => /\ IsPrefix(stubs, FittingConstructors)
        /\ new_value = "object" => stubs # << >> /\ Last(tried) = <<Last(stubs), TRUE>>
        /\ new_value = "error" => stubs = FittingConstructors
=============================================================================

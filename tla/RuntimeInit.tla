---------------------------- MODULE RuntimeInit ----------------------------
(***************************************************************************)
(* The start-up of a program linked with the generated C code, and the     *)
(* requires of its script: the register_initialize_* functions that the    *)
(* loader runs before main, initialize_all_webidl_constructs, the          *)
(* recursive initialize_*_ functions, my_require, and the cleaning up that *)
(* main may do in the end.                                                 *)
(***************************************************************************)
EXTENDS PrototypesHolder, SequencesExt

CONSTANTS
  Inputs,       \* what the compiler printed: records of kind and dependencies
  any_uid,      \* the highest of the predefined type uids
  TableSize,    \* the first size of both tables (8 in the code)
  MaxRequires   \* bound on the number of requires of the script

ASSUME ConstantsAssumption ==
  any_uid \in Nat /\ TableSize \in Nat \ {0} /\ MaxRequires \in Nat

(* The kinds of construct whose initialization differs; an interface with   *)
(* ReturnFromRequire is a module.                                           *)
Kinds == {"dictionary", "interface", "module", "callback", "NoInterfaceObject", "composite"}

ASSUME InputsAssumption ==
  Inputs \subseteq [kind : [Constructs -> Kinds],
                    dependencies : [Constructs -> SUBSET Constructs]]

VARIABLES
  kind,                \* each construct's kind
  dependencies,        \* the constructs whose initializers it calls
  uid,                 \* each construct's <name>_uid, 0 before it is set
  counter,             \* the static variable of get_type_uid
  initializer_list,
  list_size,
  mapping_for_require,
  table_capacity,
  next_initializer,    \* the loop index of initialize_all_webidl_constructs
  calls,               \* the active initialize_*_ and require functions
  holder,              \* the prototypes holder and what C holds of the prototypes
  global_object,       \* the properties the generated code put in there
  created,             \* how many prototypes or single instances were made
  requires,            \* how many requires the script has done
  phase

program == <<kind, dependencies>>
tables == <<uid, counter, initializer_list, list_size, mapping_for_require, table_capacity>>
vars == <<program, tables, next_initializer, calls, holder, global_object,
          created, requires, phase>>

Init ==
  /\ \E input \in Inputs : kind = input.kind /\ dependencies = input.dependencies
  /\ uid = [x \in Constructs |-> 0]
  /\ counter = any_uid + 1
  /\ initializer_list = << >>
  /\ list_size = TableSize
  /\ mapping_for_require = << >>
  /\ table_capacity = TableSize
  /\ next_initializer = 1
  /\ calls = << >>
  /\ holder = NoHolder
  /\ global_object = {}
  /\ created = [x \in Constructs |-> 0]
  /\ requires = 0
  /\ phase = "loading"

----------------------------------------------------------------------------
HasInitializer(x) == kind[x] # "composite"

GetTypeUid(x) ==
  /\ uid' = [uid EXCEPT ![x] = counter]
  /\ counter' = counter + 1

(* Wrong: the table grows one entry late. *)
GrownLate(size, entries) == IF Len(entries) > size THEN size * 2 ELSE size

(* The memory of a table that is about to get one more entry. *)
Grown(size, entries) == IF Len(entries) = size THEN size * 2 ELSE size

RegisterInitializationFunction(x) ==
  /\ list_size' = Grown(list_size, initializer_list)
  /\ initializer_list' = Append(initializer_list, x)

RegisterRequireFunction(x) ==
  /\ table_capacity' = Grown(table_capacity, mapping_for_require)
  /\ mapping_for_require' = Append(mapping_for_require, x)

(* The loader runs each file's __attribute__((constructor)) function once,  *)
(* in no particular order.                                                  *)
RegisterInitialize(x) ==
  /\ phase = "loading"
  /\ uid[x] = 0
  /\ GetTypeUid(x)
  /\ IF HasInitializer(x) THEN RegisterInitializationFunction(x)
                          ELSE UNCHANGED <<initializer_list, list_size>>
  /\ IF kind[x] = "module" THEN RegisterRequireFunction(x)
                           ELSE UNCHANGED <<mapping_for_require, table_capacity>>
  /\ UNCHANGED <<program, next_initializer, calls, holder, global_object,
                 created, requires, phase>>

(* main calls initialize_all_webidl_constructs. *)
StartMain ==
  /\ phase = "loading"
  /\ \A x \in Constructs : uid[x] # 0
  /\ phase' = "initializing"
  /\ UNCHANGED <<program, tables, next_initializer, calls, holder,
                 global_object, created, requires>>

----------------------------------------------------------------------------
prototypes == holder.properties

RegistersPrototype(x) == kind[x] \in {"dictionary", "interface", "module", "callback"}

(* A script can "new" it, or finds its single instance under its name. *)
IsGlobal(x) == kind[x] \in {"dictionary", "interface", "NoInterfaceObject"}

(* Wrong: there is no guard. *)
NeverReturnsAtOnce(x) == FALSE

(* The guard at the head of initialize_x_: composites have none, and no     *)
(* prototype is registered for a NoInterfaceObject.                         *)
ReturnsAtOnce(x) == HasInitializer(x) /\ x \in prototypes

Frame(x) == [construct |-> x, pending |-> dependencies[x]]

(* Wrong: the prototype that is there already is not released. *)
LookUpUnreleased(x) == get_prototype(holder, x)

(* The initializer gets the prototype and, if there is one, releases it.     *)
LookUp(x) ==
  LET got == get_prototype(holder, x)
  IN  IF x \in prototypes THEN Release(got, x) ELSE got

(* The prototype is made, registered if it has to be, and released.          *)
MakePrototype(x) ==
  LET made == Acquire(LookUp(x), x)
  IN  Release(IF RegistersPrototype(x) THEN register_prototype(made, x) ELSE made, x)

(* One call of initialize_x_, up to the calls it makes. *)
Initialize(x, callers) ==
  IF ReturnsAtOnce(x)
  THEN /\ calls' = callers
       /\ holder' = LookUp(x)
       /\ UNCHANGED <<global_object, created>>
  ELSE /\ calls' = Append(callers, Frame(x))
       /\ holder' = IF HasInitializer(x) THEN MakePrototype(x) ELSE holder
       /\ global_object' = IF IsGlobal(x) THEN global_object \cup {x} ELSE global_object
       /\ created' = IF HasInitializer(x) THEN [created EXCEPT ![x] = @ + 1] ELSE created

(* Wrong: every second entry. *)
RunEverySecond ==
  /\ phase = "initializing"
  /\ calls = << >>
  /\ next_initializer <= Len(initializer_list)
  /\ Initialize(initializer_list[next_initializer], << >>)
  /\ next_initializer' = next_initializer + 2
  /\ UNCHANGED <<program, tables, requires, phase>>

(* Wrong: an entry that returns at once does not advance the loop. *)
RunUntilOneReturns ==
  /\ phase = "initializing"
  /\ calls = << >>
  /\ next_initializer <= Len(initializer_list)
  /\ Initialize(initializer_list[next_initializer], << >>)
  /\ next_initializer' = next_initializer
       + (IF ReturnsAtOnce(initializer_list[next_initializer]) THEN 0 ELSE 1)
  /\ UNCHANGED <<program, tables, requires, phase>>

RunNextInitializer ==
  /\ phase = "initializing"
  /\ calls = << >>
  /\ next_initializer <= Len(initializer_list)
  /\ Initialize(initializer_list[next_initializer], << >>)
  /\ next_initializer' = next_initializer + 1
  /\ UNCHANGED <<program, tables, requires, phase>>

(* The calls for externalTypes and non_intrinsic_types, in file order: any. *)
InitializeDependency(x) ==
  /\ calls # << >>
  /\ x \in Last(calls).pending
  /\ Initialize(x, [calls EXCEPT ![Len(calls)].pending = @ \ {x}])
  /\ UNCHANGED <<program, tables, next_initializer, requires, phase>>

(* What a require has returned gets the module's prototype in the end.      *)
GraftPrototype(x) ==
  LET got == get_prototype(holder, x)
  IN  IF x \in prototypes THEN Release(got, x) ELSE got

Return ==
  /\ calls # << >>
  /\ Last(calls).pending = {}
  /\ calls' = Front(calls)
  /\ holder' = IF phase = "running" /\ Len(calls) = 1
               THEN GraftPrototype(calls[1].construct) ELSE holder
  /\ UNCHANGED <<program, tables, next_initializer, global_object,
                 created, requires, phase>>

(* Wrong: the loop leaves out the last entry. *)
StartScriptEarly ==
  /\ phase = "initializing"
  /\ calls = << >>
  /\ next_initializer >= Len(initializer_list)
  /\ phase' = "running"
  /\ UNCHANGED <<program, tables, next_initializer, calls, holder,
                 global_object, created, requires>>

(* The end of initialize_all_webidl_constructs: "require" exists, and the   *)
(* script runs.                                                             *)
StartScript ==
  /\ phase = "initializing"
  /\ calls = << >>
  /\ next_initializer > Len(initializer_list)
  /\ phase' = "running"
  /\ UNCHANGED <<program, tables, next_initializer, calls, holder,
                 global_object, created, requires>>

(* my_require finds the module's x_require_function_, which initializes     *)
(* what the module depends on before it asks for the module's prototype.    *)
Require(x) ==
  /\ phase = "running"
  /\ calls = << >>
  /\ requires < MaxRequires
  /\ Contains(mapping_for_require, x)
  /\ calls' = <<Frame(x)>>
  /\ requires' = requires + 1
  /\ UNCHANGED <<program, tables, next_initializer, holder, global_object,
                 created, phase>>

(* The script is over; main may clean up before it leaves the interpreter.  *)
CleanUp ==
  /\ phase = "running"
  /\ calls = << >>
  /\ phase' = "over"
  /\ holder' = webidl_utilities_cleanup(holder)
  /\ UNCHANGED <<program, tables, next_initializer, calls, global_object, created, requires>>

(* The script needs no more modules, and nobody cleans up. *)
Idle == phase \in {"running", "over"} /\ calls = << >> /\ UNCHANGED vars

Next ==
  \/ \E x \in Constructs : RegisterInitialize(x)
  \/ StartMain
  \/ RunNextInitializer
  \/ \E x \in Constructs : InitializeDependency(x)
  \/ Return
  \/ StartScript
  \/ \E x \in Constructs : Require(x)
  \/ CleanUp
  \/ Idle

Spec == Init /\ [][Next]_vars

(* One thread runs the loader, main and the script: it takes its next step. *)
FairSpec == Spec /\ WF_vars(Next)

----------------------------------------------------------------------------
TypeOK ==
  /\ kind \in [Constructs -> Kinds]
  /\ dependencies \in [Constructs -> SUBSET Constructs]
  /\ uid \in [Constructs -> Nat]
  /\ counter \in Nat
  /\ initializer_list \in Seq(Constructs)
  /\ list_size \in Nat
  /\ mapping_for_require \in Seq(Constructs)
  /\ table_capacity \in Nat
  /\ next_initializer \in 1 .. Len(initializer_list) + 1
  /\ calls \in Seq([construct : Constructs, pending : SUBSET Constructs])
  /\ holder \in Holder
  /\ global_object \subseteq Constructs
  /\ created \in [Constructs -> Nat]
  /\ requires \in 0 .. MaxRequires
  /\ phase \in {"loading", "initializing", "running", "over"}

(* Whatever order the loader picks, no two constructs share a uid and none  *)
(* has a predefined one: a composite's union_type names one type.           *)
UidsAreDistinct ==
  /\ \A x \in Constructs : uid[x] = 0 \/ uid[x] > any_uid
  /\ \A x, y \in Constructs : uid[x] = uid[y] /\ uid[x] # 0 => x = y

(* No registration is written outside its table or lost when it grows.      *)
EveryRegistrationIsKept ==
  /\ Len(initializer_list) <= list_size
  /\ Len(mapping_for_require) <= table_capacity
  /\ ToSet(initializer_list) = {x \in Constructs : uid[x] # 0 /\ HasInitializer(x)}
  /\ ToSet(mapping_for_require) = {x \in Constructs : uid[x] # 0 /\ kind[x] = "module"}
  /\ IsInjective(initializer_list)
  /\ IsInjective(mapping_for_require)

(* What the functions before main leave behind, in any order, is complete.   *)
RegistrationsAreSound == UidsAreDistinct /\ EveryRegistrationIsKept

(* The guard keeps a prototype from being made twice, although every        *)
(* construct is initialized from the list and by all that depend on it:     *)
(* objects created earlier keep sharing the prototype.                      *)
OnePrototypeEach ==
  \A x \in Constructs : RegistersPrototype(x) => created[x] = IF x \in prototypes THEN 1 ELSE 0

(* When a script, or the rest of a require, runs, all is there: the         *)
(* prototypes, the names in the global object, and what a module depends on.*)
ScriptFindsEverything ==
  phase = "running" =>
     /\ {x \in Constructs : RegistersPrototype(x)} \subseteq prototypes
     /\ {x \in Constructs : IsGlobal(x)} \subseteq global_object

(* An initializer that returns has had everything it depends on, directly   *)
(* or through composites, at least begun: a cycle stops at a type whose     *)
(* prototype is already registered.                                         *)
DependenciesHaveBegun ==
  \A i \in DOMAIN calls : \A x \in dependencies[calls[i].construct] \ calls[i].pending :
     \/ x \in prototypes
     \/ ~ RegistersPrototype(x) /\ (HasInitializer(x) => created[x] > 0)

(* Each construct is initialized before it is needed, and only once.        *)
InitializedOnceAndInTime == OnePrototypeEach /\ DependenciesHaveBegun

(* Whatever calls whatever, every reference to a prototype or to the holder   *)
(* that an initializer or a require acquires is released by its end: start-up *)
(* and requires leave nothing behind that the interpreter could never free,   *)
(* and release nothing that they do not have.                                 *)
ReferencesAreReturned ==
  /\ \A v \in Values : phase # "over" => holder.handles[v] >= 0
  /\ calls = << >> /\ phase # "over" => \A v \in Values : holder.handles[v] = 0

(* Start-up comes to an end. *)
InitializationTerminates == <>(phase = "running")
============================================================================

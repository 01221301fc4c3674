# A verification project for JerryGen

JerryGen (`src/`) is a compiler written for node.js. It reads WebIDL files and
writes C "glue code" with which a script in the JerryScript interpreter calls C
functions and uses C data. The compiler checks and augments the syntax tree
(`AugmentedAST.js`), runs Hogan/Mustache templates over it (`c-templates/`) and
writes one `.h`, `_private.h` and `.c` per type (`file_generators.js`). The user
fills in generated stubs and compiles everything with JerryScript.

Two programs are therefore of interest: the *compiler*, and the *generated code*,
whose control flow is in the templates. Both are modelled here.

## 1. Inventory

| Component | Source | State | Operations | What makes it correct |
|---|---|---|---|---|
| Driver and file generation | `generate.js`, `file_generators.js` | augAST's lists, the package directory, outstanding promises | seven generators, utilities, error exit | user code in stubs survives, files of included constructs are not touched, every file is made |
| Typedefs and type tables | `AugmentedAST.js` 407–616, 949–1120, 2242–2249, 2612–2841 | `typedefs`, `allExternalTypes`, `typeCheckQueue`, per thing `non_intrinsic_types` and `externalTypes` | resolve a typedef, add a thing, check the names, recategorize | loops are found, chains resolved, each header included exactly once and in the right way |
| Constructors | `AugmentedAST.js` 688–925; `interface.mustache` 215–287 | buckets by number of parameters, `sorted_constructors`; in C the active level | sort, collapse; dispatch a `new` | a call reaches the constructors WebIDL allows, first match wins |
| Inheritance | `AugmentedAST.js` 2323–2549; `generate.js` 157–173 | `already_seen`, `seen_in_this_chain`, members, attributes, operations | define the parent, copy from it, throw, print a cycle | nearest definition wins, cycles are found and reported |
| Recursive-type check | `AugmentedAST.js` 2556–2602; `generate.js` 174–191 | `current_seen`, `recursive_type_check__seen` | walk a name, throw, print the cycle | exactly the recursive files are rejected |
| Names | `AugmentedAST.js` 38–53, 449–465, 1140–2003 (names only), 2010–2233 | reserved words, `construct_names_seen`, the tables of constructs | refuse a word, rename, store, report duplicates | repeated names are refused, and renaming makes no two names of one scope equal in C |
| Unions, arrays, conversions | `AugmentedAST.js` 485–560, 2612–2731, 2993–3386; `composites.mustache`, `build_composite_arg_function.mustache` | composites, array types; in C a `union_type` and its value | collect the unions and arrays that are used, order a union's members, try them on a value | a value gets the widest type that holds it; every array has a dictionary with its element's header |
| Run-time initialization | `utilities.mustache` 98–604; initializers of the other templates | uid counter, table of initializers, table of modules, prototypes holder, global object | register (before main), initialize (recursive), `require` | everything is set up once and before scripts run |
| Call handlers | `interface.mustache` 170–213, `demarshal_args.mustache`, `clean_up_and_return.mustache` | C variables, malloc'd copies, `_error`, `new_interface` | read arguments, call the stub, clean up, return | the stub gets its arguments, nothing leaks or is used after `free`, errors come out |
| Prototypes holder | `utilities.mustache` 1235–1380 | the holder object, the reference stored in its native struct | make, get, register, clean up | references are balanced, whoever asks first |
| Dictionaries, callbacks, native objects | `dictionary.mustache`, `callback.mustache`, rest of `utilities.mustache` | interpreter values with reference counts, native pointers | get, set, create, run | references are balanced, a native object has the right checksum |
| Command line and reader | `parameters.js`, `IDLReader.js` | the options record | split the line, correct what was split wrongly, validate, read the files | options mean what was given, every `.idl` file is compiled |
| Hogan glue | `Generator.js`, `CHoganHelpers.js` | – | compile templates | – |

**How they interact.** `generate.js` calls everything in one `try` block: the
parser, the constructor of `AugmentedAST` (whose `augment` runs the passes in the
order typedefs → names → things → name checks → inheritance → recursive types →
unions → external types), and then the generators. Passes communicate through
fields they set on the syntax tree's objects, *by reference*: a parent's member
objects, or a constructor, are shared by several lists, and a later pass that
writes into one of them writes into all. Errors are thrown as objects that the catch block
prints. The generated initializers register themselves before `main`
(`__attribute__((constructor))`), call each other according to the compiler's
`non_intrinsic_types` lists, and hand prototypes to each other through an object
in the interpreter. A handler is called by the interpreter, calls the user's stub
and shares strings with it.

**What is hard.** There is one thread; the hard parts are recursion over cyclic
data with memo tables, objects shared between lists, registration in an order the
loader picks, promises nobody waits for, interrupted and repeated runs over files
the user edits, and C code with early exits. Nothing is locked, and apart from
the thread pool of node.js nothing runs concurrently. `PROJECT.json` lists every
hazard at its line with the properties aimed at it.

## 2. Modules

| Module | Models | Its state is |
|---|---|---|
| `TypeRecursion` | the walk, one action per entered, skipped, finished call, and the loop that prints a cycle, one line per step | `current_seen`, `next_member` (the loop index of each active call), `recursive_type_check__seen`, `roots` (names still to be tried), `first_in_chain`, `report` |
| `TypeCheckVerdict` | abstract specification of the check: it decides in one step, rightly | `verdict` |
| `TypeRecursionProofs` | theorems about `TypeRecursion` | – |
| `Inheritance` | `find_inheritance_chain` call by call (`Call`, `DefineParent`, `CopyFromParent`, `Return`, …), for dictionaries and interfaces, its two errors and the printing | `fields` and `operations` per object, `field_index` per shared member *object*, the stack of calls |
| `InheritanceProofs` | theorems about `Inheritance` | – |
| `Constructors` | `sort_constructors` as operators, from buckets to the collapsed if-else chain; the generated dispatcher as actions | `sorted_constructors`, the call's `args_cnt`, what was `tried`, the `new_value` |
| `ConstructorsProofs` | theorems about `Constructors` | – |
| `Unions` | the order in which a union's members are tried, and the one a value goes to | – |
| `CallHandler` | one call of a generated handler under either `--arg_handling`: every parameter read is an action, so is each part of the clean-up; EXTENDS `Unions` | `variables` (where each C variable's value lives, what it is, a union's field and `union_type`), `heap`, `_error`, `new_interface`, `string_value`, `result` |
| `Invocation` | what a statement of a script runs: an operation's handler, or a `new`, whose dispatcher calls the constructors' handlers in turn; EXTENDS `CallHandler`, has an INSTANCE of `Constructors` | both modules' state, `stubs` (those that were called) |
| `InvocationProofs` | theorems about `CallHandler` and `Invocation` | – |
| `PrototypesHolder` | the holder and the reference counts of it and of the prototypes, as operators on a record | – |
| `RuntimeInit` | loader, `main`, recursive initializers, `my_require`, clean-up; EXTENDS `PrototypesHolder` | uids, the two growing tables, `calls` (the C stack), `holder`, `global_object` |
| `RuntimeInitProofs` | theorems about `RuntimeInit` and `PrototypesHolder` | – |
| `CommandLine` | minimist's splitting of the line, `parameters.js`'s corrections and errors, as operators | – |
| `FileGeneration` | several runs on one package: the command line and the input files, the script's part, the pool's requests, failures, interruptions, the user's edits; EXTENDS `CommandLine` | `line`, `lists`, `queue`, `disk` (who wrote each file), `directory` |
| `FileGenerationProofs` | theorems about `FileGeneration` and `CommandLine` | – |
| `Names` | `augment` as far as names go: one action per pass or added construct | `local_reserved_words`, `construct_names_seen`, `tables` (what each C name stands for), `error_messages` |
| `TypeTables` | the same passes with the types: `record_typedefs` call by call, what each added construct does to the tables, then `augment`'s table passes; EXTENDS `Names`, whose actions are conjuncts of its own | the tables named in the inventory, `composites`, `array_types`, `headers` per construct |
| `TypeTablesProofs` | theorems about `TypeTables` and `Names` | – |
| `Subsequences` | the elements of a sequence that are in a set, in their order, and the numbers of a set in increasing order, as recursive functions | – |
| `SequenceFacts` | lemmas on numbers (least, greatest, induction over a set), sequences and subsequences that several proofs cite | – |
| `MC…` | the instances TLC checks | – |

Variables and actions have the names of the source where it has names for them;
`PROJECT.json` "map" gives the lines of every definition. Names and types are
model values or short strings; sequences of pieces stand for file names, authors for
contents. An operator or action marked "Wrong:" is not part of any specification:
it is a plausible bug that the property named for it in `PROJECT.json` must find.

Abstractions worth knowing:

- `TypeRecursion`: a field is its C type. Typedefs and unions are types that
  hold other types without being keys of `objects`, as in the code.
- `Inheritance`: interfaces have attributes (`fields`) and operations, dictionaries
  only fields. `Elsewhere` are parents of other compilations, declared external or not.
- `Constructors`: a constructor is its numbers of required and optional parameters
  and whether it is variadic; whether it accepts the types is a free choice.
- `RuntimeInit`: an initializer is its guard, what it registers, what it does to the
  references of prototypes, and the constructs it calls; loader order is free.
- `PrototypesHolder`: a value's count is what C code has acquired and not released;
  what the interpreter itself holds (a property, the global object) is not in it.
- `CallHandler`: a parameter's type is the set of the WebIDL types it is a union of: a string,
  three numbers of different size, a boolean and an interface, as these differ in who owns the
  value and in what is accepted or coerced. Script values are a text, the empty string, a
  number, `true`, `undefined` and an object. `Word` is the number of values of the unsigned length field.
- `Invocation`: the handlers of a `new` get the same arguments; what an error costs
  (the object the handler made) is in `CallHandler`.
- `CommandLine`: an argument has one of the four forms `--key=value`, `--key`, `--no-key` and a word;
  short flags and `--` are left out, and what each key got is a sequence of strings, booleans and numbers. minimist
  makes a number of every value and word that looks like one (`Converted`); a number is a string of its own that `Number` returns.
- `FileGeneration`: q-io, the file system and the user are external, modelled
  by how `src/` uses them: `fs.write` opens (and thereby empties) the file, then
  writes; requests are taken in order by a pool of `Threads`; nothing is caught. The
  text of a file is the set of its authors (which generator in which run, or
  the user); the test `fileExists.sync` is made while the script runs, before the pool starts. Two generators may
  write one file: what is left of the first one's text after the second one's write is free.
  Typedefs and unions are not the parser's objects but made anew by the compiler (`compiled`), so that they lose the mark of
  included objects; a list keeps one object per name (`ByName`). The unions and the dictionaries of arrays that the compiler finds
  in types are not derived here but, for unions, part of what a file declares (`TypeTables` derives them); those of arrays are left out.
- `TypeTables`: a type that is used is its members (one, or those of a union), the depth of its
  `sequence<>`s and whether an argument has it. The extra rule `ArrayBuffer` → `byte_array`,
  `needs_initialization`, `is_callback` and the ordered `typedefs` list are left out.
- `Names`: a name is the sequence of its pieces, since only appending `_`, putting an
  enum's name in front and spelling out blanks and operators matter. A thing has `names` (fields,
  arguments, values or attributes) and, if it is an interface, operations; the constructors, which
  the code appends as operations `Constructor_0` and so on, are operations of the input.

## 3. Runs

`pass` runs check every reachable state of every small input; `violation` runs
show where the code differs from its own comments.

| Run | Instance and bounds | Shows |
|---|---|---|
| `type_recursion` | all graphs of 3 objects, ≤ 2 fields each | accepted files are acyclic, rejected ones are recursive, the printed lines are a cycle, the walk ends and implements `TypeCheckVerdict`; also the invariant `IInv` of the proofs, of which `TypeOK` is a part |
| `inheritance` | all parent relations of 3 dictionaries or 3 interfaces, incl. missing and external parents; members from 2 names | nearest fields and handlers are inherited, in the order of the generations; owners are included; only cycles are reported as cycles, and fully; finished objects stay as they are; the pass ends |
| `invocation` | operations: all legal lists of ≤ 3 string and number parameters with ≤ 3 arguments, every union of the six types, pairs of a union and a string, both handlings, five kinds of result. `new`: ≤ 3 constructors of ≤ 2 parameters, ≤ 2 arguments; and, for the compiler's part, ≤ 3 constructors that differ in their numbers of parameters, 0–6 arguments | the stub gets what was passed, a union the right member; copied strings live until their last use and no longer; a constructor's object has one owner, bad calls are errors; each number of arguments leads to the constructors that can take it, in file order, and the script gets the object of the first one that fits; the released error of one constructor is never the result; and the handlers implement what `Constructors` lets them do |
| `runtime_init` | 3 constructs of mixed kinds, every dependency relation whose cycles contain a guarded type; tables of initial size 1; 2 requires; clean-up or not | uids differ, tables keep all, each prototype is made once and dependencies have begun when needed, scripts find everything, references to prototypes are returned, start-up ends |
| `file_generation` | first run: every line of ≤ 3 arguments out of 24 (a number, a mistyped key and `--help` among them), with or without a package, or one of 7 useful lines; second run: one of 6 useful lines; in them an interface is compiled, included, and both, with a typedef of its name from its own or an included file; 2 pool threads, 1 failure or interruption anywhere, free edits | accepted options mean what was given, and every `.idl` file on the line is compiled; a run that ends made every file, whatever an earlier run left, and asked for the directory first; user code is never touched, nor is a file of an included package but what typedefs and unions write |
| `type_tables` | about names: every pair of constructs (and a typedef) named and filled with reserved words, plain and underscored names and each other's names; about types: 3 typedefs of each other, a primitive, an interface, an external type, sequences or a union, with an interface and perhaps one or two constructs that use them, repeat an `External` attribute or are named like an array, a union or each other | repeated names are refused and counted, across tables where one replaced the other; renaming makes no clash; loops and unknown types are refused, chains end where WebIDL says, every type's header is in exactly one list, also for array dictionaries |
| `hidden_recursion` | 2 dictionaries, a typedef, a union | **finding**: recursion through a typedef or union is accepted |
| `dictionary_indices` | as `inheritance` | **finding**: an heir renumbers its parent's members |
| `first_constructor` | the interface of `unit_tests/constructor_test` | **finding**: a second constructor runs after the first accepted |
| `dropped_errors` | operations as in `invocation` | **finding**: with too few arguments the error is created and dropped |
| `lost_defaults` | one optional float or double, new handling | **finding**: left out, it arrives as 0 |
| `unknown_types` | as `type_tables` | **finding**: a misspelt type in a union or a sequence of sequences is accepted |

The largest are `invocation` with 1.0 million states and `file_generation` with 0.7 million, a minute or two each.

**Why the bounds are enough.** Three objects give self-loops, cycles of two and
three, a cycle with a tail, a shared type below two others, and a chain with a generation in
the middle, entered from any point; two fields are needed to return to a
caller that has more to do. Three constructors with up to four parameters give
buckets that are equal, nested and disjoint, and collapse in each way. A table
of size 1 grows twice. Three parameters allow a failure at the start, in the middle and
at the variadic end. Two runs are what it takes to meet one's own left-over
files; two threads already reorder any two requests; one mishap may hit any
request. Lines of three arguments have every flag before, between and after a word that minimist can take for its
value, twice, and with a second flag of any kind. Three typedefs make a loop that is entered from outside. Two constructs suffice for
a clash of names, one reserved word per language for each refusal. Two parameters of which
one is a union, and two arguments, show a union before and after something that can fail and something on the heap. `Word = 16`
is far above the three arguments, so a wrapped length is as far off as with 2^32.

**Fairness.** Liveness (`Terminates`, `InitializationTerminates`) is checked under
`WF_vars(Next)` of `Inheritance`, `TypeRecursion` and `RuntimeInit`: these model one
thread of one program, which takes its next step as long as it has one. No fairness
between actions is assumed, so none is needed from any scheduler. `Invocation`,
`FileGeneration` and `TypeTables` state safety only. Every
specification has a step for its end (`Stop`, `Over`, `Done`, `Idle`), so the deadlock check of
every run shows that the program does not get stuck elsewhere; in `RuntimeInit` and `FileGeneration` it is
also the step of a script or a user who wants nothing more.

**Refinement.** Two modules are shown to implement others: `TypeRecursion` implements
`TypeCheckVerdict`, with the verdict as a state function of the walk (`ImplementsVerdict`, checked and
proved), and `Invocation` implements `Constructors`, in which a handler's success is a free
choice, with the signatures of the real parameter lists for the mapping (`ImplementsDispatcher`, also
checked and proved). The second is not obvious: `Constructors` lets a handler succeed only with enough arguments, and the
original handling drops exactly that error.

## 4. Proofs

Every module with state is proved about: the recursive-type check, inheritance, start-up, the dispatcher of
constructors, a handler and what composes the last two, the generation of files with the command line, and the passes
over names and types. The proofs cover every safety property of every passing run, for every value of the constants. Each has an
inductive invariant, a lemma per action that shows that the action keeps it, and short theorems that draw the
properties from it.

### The recursive-type check

`TypeRecursionProofs` holds for every finite or infinite set of types, every set
of objects among them and all field lists, from the assumptions
`ObjectsAssumption` (objects are types), `InputsAssumption` (inputs are functions from
types to sequences of types) and `UndefinedAssumption` (JavaScript's `undefined` is no
type); TLC evaluates them in each run of the module.

`AcceptedIsAcyclic` is not inductive: whether the accepting step is right depends
on what all calls before it have established. `IInv` adds

- `StackIsAPath`: each active call was made for the field its caller's index has just passed;
- `PassedAreWalked`: what an active call has passed was walked and is not a call around it;
- `WalkedAreClosed` and `~RecursiveAmong(Walked)`: finished names only have
  finished fields, and no cycle is among them;
- `StackAndRoots`: the active names are distinct and seen, and every object is still a root or seen;
- `ThrownFromATurn`, `ReportFollowsStack`: a thrown name is on the stack and a field of its top, and the lines printed follow the stack down to it.

One lemma per kind of step shows that it keeps `IInv` (`EnterKeepsInvariant`,
`SkipKeepsInvariant`, `ThrowKeepsInvariant`, `ReturnKeepsInvariant`,
`PrintKeepsInvariant`, `AcceptKeepsInvariant`). The step that matters is a call's
return: its name joins the finished ones, all its fields are finished, and a set
with a new member that has no way back into it (`AddingASink`) gets no cycle.
From `IInv` follow

- `TypeCorrect`: `Spec => []TypeOK`;
- `Invariance`: `Spec => []IInv`;
- `AcceptedIsAcyclicHolds`, `RejectedIsRecursiveHolds`, `ReportIsACycleHolds`;
- `WalkImplementsVerdict`: `Spec` implements `TypeCheckVerdict`; every step is a stutter
  or the one decision, and the decision is right and final.

The loop of `generate.js` has no lower bound on its index; that it never runs off
the list is part of `ReportFollowsStack`.

### Inheritance

`InheritanceProofs` holds for every finite set of objects, every parent relation among them, cycles included, all
lists of members, and parents of other files, from `ObjectsAssumption` (the set is finite), `InputsAssumption` (the
type of the inputs, and that no object repeats a name, which `report_reused_names` has refused before),
`ElsewhereAssumption` (other files declare other objects) and `NoneAssumption` (`undefined` is no object). The
properties speak of an object's *n*-th generation, `Up(parents, x)[n]`, and of the nearest one that has a name. `IInv`
adds

- `ChainOK`: the active calls climb one inheritance chain, without repetition, and the parent they return to is done;
- `DefinedOK`: an object that is done has a parent that is done, or none, and is not its own ancestor;
- `CopiesOK`: the fields, operations and included headers of what is done are those the properties ask for. This
  is the heart: one `CopyFromParent` turns the parent's nearest definitions into the heir's (`FieldsOfAnHeir`,
  `OperationsOfAnHeir`, `IncludesOfAnHeir`), since the nearest generation with a name is the object itself or
  one further than the parent's (`NearestStep`);
- `ReportOK`: the lines printed so far climb from the first object of a cycle, and have not met it again;
- `OutcomeOK`: an ended pass has seen every object.

From `IInv` follow `TypeCorrect`, `FieldsAreInheritedHolds`, `HandlersAreTheNearestHolds`, `OwnersAreIncludedHolds`,
`CyclesAreReportedHolds` (that the printed lines are the whole cycle needs that going up from an object of a
cycle stays in it, `CycleIsClosed`) and the action property `DefinedObjectsAreFinalHolds`.

### Start-up

`RuntimeInitProofs` holds for every set of constructs (finite or not), every assignment of kinds
and dependencies, every order of the loader and every size of the tables, from
`ConstantsAssumption` (the numbers are natural, a table has room for one entry) and `InputsAssumption`
(the type of the inputs); TLC evaluates both in `runtime_init`. That every cycle has a guarded
member, which the run assumes for termination, is not needed for safety.

Some properties are not inductive, since what the script finds is the work of a loop over a
table, and that loop passes a construct that another one's initializer has made before. `IInv` adds

- `UidsSound`, `TablesSound`: uids are below the counter, and the tables have room for what is next;
- `PhasesSound`: what is over when `main` and when the script begins (in particular that each construct is registered);
- `PassedHaveBegun`: what the loop of `main` has passed is made or being made;
- `GlobalsSound`: whatever was made under a global name is in the global object;
- `HolderSound`: between two steps C code holds no reference.

The reference counts rest on lemmas about the functions of the holder, each of which leaves the counts as
it found them (`LookUpBalanced`, `RegisterBalanced`, `MakePrototypeBalanced`), whether or not it is the one that makes the holder.
From `IInv` follow `TypeCorrect`, `RegistrationsAreSoundHolds`, `InitializedOnceAndInTimeHolds`, `ScriptFindsEverythingHolds`
and `ReferencesAreReturnedHolds`.

### A handler

The first part of `InvocationProofs` holds for every list of parameters, every list of arguments, both handlings
and all kinds of handlers, from `HandlingsAssumption`, `ReturnsAssumption` and `ParametersAssumption`
(a variadic parameter is the last one); TLC evaluates them in `invocation`. It does not depend on which values a type
accepts. `IInv` adds

- `PointersSound`: a variable points to its own copy and no other, a string's copy is there exactly while
  its variable points to it, and variables that have not been read point nowhere;
- `ReturnedSound`: a string that the stub returned is its own or an argument that is not yet freed, and
  has been copied when the freeing begins;
- `ObjectHeld`, `ResultSound`, `FreedSound`: what holds between the parts of the clean-up code.

The step that matters is reading a parameter (`ReadStores`, `StoreKeepsPointers`): all ways to do it, defaults and variadic
parameters too, store a pointer together with what it points to. From `IInv` follow `StringsLiveAsLongAsNeededHolds`
and `NewInterfaceHasOneOwnerHolds`.

A second inductive invariant, `HandlerSound`, is about the values. It adds to `TypeOK`

- `ReadSound`: every parameter that has been read is what its type makes of its argument or default, every other variable is
  as declared, and the stub is called only when all have been read;
- `RefusalSound`: a handler that ended without its stub has refused a parameter, and says so.

For a union, `MemberByValue` derives from the order in which the code tries the members (`Unions`) which of them a value
goes to, kind of value by kind of value. From `HandlerSound` follow `StubGetsItsArgumentsHolds`, `UnionsPickTheirMemberHolds`
and `BadCallsAreErrorsHolds`.

### Constructors and their dispatcher

`ConstructorsProofs` holds for every list of constructors and every number of arguments. Its first part is
about the pure algorithm: `sort_constructors` fills one bucket per number of parameters, with the constructors that can be called
with it in the order of the file (`BucketsAreFilled`); collapsing merges neighbouring equal buckets and loses none
(`BeforeCollapsing`, `CollapseStep`, `AfterCollapsing`), and the generated if-else chain leads a call to the branch
of its number of arguments, or to none if nothing takes that many (`SortedLevels`, `BranchOfACall`, `BeyondTheLastBucket`). The
definitions are recursive functions, so the lemmas are by induction over sets of numbers (`SequenceFacts`).

The second part is the inductive invariant `DispatchSound` of the actions: the sorted constructors are those of the file, the active level
fits the call, the handlers tried so far are the first ones of the level, and what the script gets follows from the last
of them (`TriedSound`, `ReturnSound`); one lemma per action (`CompileIsSound`, `NewIsSound`, `HandlerReturnedIsSound`).

### Statements of a script

The second part of `InvocationProofs` puts both together, for every list of files, from the assumptions of the two modules, `WordAssumption`, `FilesAssumption`
and `NewArgumentsAssumption` (compiled constructors have legal parameter lists; a call has fewer arguments than a machine word counts) and
`ConstructorsAssumption` (a file with constructors has handlers of that kind). `Invocation` has an INSTANCE of `Constructors` with the signatures of the
real parameter lists; `SameSteps` and its like carry the lemmas of `ConstructorsProofs` over to it. Proved are

- `DispatcherSoundHolds`, and from it `BranchesFitTheSignaturesHolds`, `TriedInOrderHolds` and `ResultIsNotReleasedHolds`;
- `Refinement`: `InvocationSpec => ImplementsDispatcher`. Every step is one of the dispatcher or a stutter. A handler that returns may be said to have
  succeeded only with enough arguments, and the proof rests on just that (`EnoughArguments`: the level of the call has no
  constructor that requires more);
- `InvocationSoundHolds`: while a handler runs it satisfies its own invariants, with the arguments that were counted and the parameters of the constructor that
  is tried (`NewSound`). It gives `InvocationTypeCorrect` and `HandlersOfNewHold`, the five properties of a handler for
  handlers that follow each other in one call;
- `FirstFittingConstructorHolds`, by the invariant `StubsSound`: for constructors with plain parameters only, the stubs called are those of the tried constructors that fit
  the arguments. A constructor that does not fit is always a refused call (`BadCallsAreErrors`), one that fits always calls its stub.

### The generation of files

`FileGenerationProofs` holds for any command lines, `.idl` files, numbers of runs, threads and mishaps, and whatever earlier
runs left in the directory. Its assumptions are

- `BoundsAssumption`;
- `IdlNamesAssumption` and `NumberAssumption`: no possible value of an option ends with `.idl`, and none is a number, nor is an `.idl` name or a boolean;
- `LinesAssumption`: command lines are sequences of arguments; what a user types is a string, never JavaScript's `true` or a number;
- `SourcesAssumption`: a name is one piece and not one of those the compiler adds. An interface that is called `X_stubs`, next to an interface `X`,
  has files of the same names as `X`'s stubs, and is left out.

Names may be shared: a file is refused only for a name that two parser-made objects have. A typedef or a union may have the name of
anything, and then two generators write one file.

The first half is about the operators: what a key or word becomes (`ConvertedFacts`), what minimist's loop has given a key after each argument (`ArgvFacts`),
which words are left (`WordsFacts`), what ends up among the files (`CompiledFiles`, `IncludedFiles`), what `readFiles` returns (`ReadFacts`), what is parsed and what the
compiler makes of it (`ParsedFacts`, `CompiledFacts`), that each list holds one object of its kind for each name (`ListFacts`),
that two objects of one kind and name are the same (`SameObject`), and that files of different names have different paths (`PathsDiffer`).

None of the properties of the files is inductive. `IInv` adds to `TypeOK`

- `LineSound`: what the current run's line is, from the check of the parameters to the end of the run;
- `HumanSound`: the user's text is only in stubs files;
- `QueueSound`: every request but the one for the directory is for one of this run's files (`IsOurs`). An open takes no user's text away unless overwriting was asked for, and
  a file that is open has only texts of this run that belong there (`HasOurs`), one or several;
- `DirectorySound`: the directory is there, or its request is the first of the queue, or that request has failed;
- `ScriptSound`: the lists are those of the line, and the generators called so far have asked for their files, no more and no less;
- `PromiseSound`: every file asked for is waiting in the queue, or is there with texts of its own authors in this run and no other, or its stream has failed, or it is a stubs file that was there before.

`QueueSound` is what makes `HumanCodeIsKept` inductive: the test for an existing file is made while the script runs, the stream is opened later by the
pool, and nothing may bring the user's text there in between. One lemma per action shows that it keeps `IInv` (`ParseKeeps`, `GenerateKeeps`, `OpenKeeps`, `WriteKeeps`, …).
From it follow

- `UserTextSurvives`: no step of a run that does not ask for overwriting changes a file with the user's text;
- `FilesAreMade`: a run that ends by itself has made every file that was asked for, whatever earlier runs left, and no file's request is served without the directory unless
  that was overtaken or failed. That the generators' files are the ones the naming conventions ask for is `TargetsAreWanted` and `OursIsWanted`;
- `IncludedFilesSurvive`: no step touches a file of an included interface, dictionary, enum or callback, unless a typedef or a union has its name (`OnlyIncluded`);
- `FilesOfTheLine`: an `.idl` file is compiled as often as it stands on the line. The places on the line and the elements of `files` are counted: an argument that gives a
  key a file is matched with the place of the file, which is its own or the next one (`PlaceOfFile`), and this is a bijection;
- `OptionsFollowTheLine`: every flag means what one of its arguments says, and documented command lines are accepted, where a documented line has a package name that is no number. No
  value of an accepted option was a number (`NoNumberIsPossible`), so that the conversion changes none.

The attempt to prove the last one showed that the property, not the program, had been wrong: for `debug_printing`, whose values are strings, a bare flag means `"on"`. The run had no such argument; it has one now. Three properties were
narrowed when the code was read once more: package names that are numbers are refused, included typedefs and unions are printed, and these may share a file with something else (section 5).
The model had left out what makes them false.

### Names and types

`TypeTablesProofs` holds for every set of files, every set of types and all reserved words, from

- `WordsAssumption`: there are finitely many reserved C words, and no reserved word ends with an underscore or like the name of an array;
- `InputsAssumption`, `TypesAssumption`: what the parser returns. A file is a sequence of constructs with nonempty names; only values of enums have blanks and
  operators in them; a typedef is of one type, only interfaces have operations;
- `IntrinsicAssumption`: the empty name is no type.

TLC evaluates them in `type_tables`. The five properties of the run look at the end of a pass over the file, so that nothing about them is inductive. `Core` is what all of them need:

- `Progress`: the phase, the construct that is next, and the error belong together; the reserved names are those of the file once they were collected;
- `SeenInv`: `construct_names_seen` is the number of constructs of each name and kind among those looked at;
- `TypedefsInv`: a typedef's C name leads to the last typedef that has it;
- `ResolutionInv`: each call of `find_ultimate_typename` was made for the alias of the call around it, none is made twice, and each typedef waits,
  is being resolved, or has what its chain ends at. The chains are walks of as many steps as there are typedefs: one that is longer repeats a typedef, and one that repeats a typedef never ends
  (the pigeonhole principle from `FS_Injection`); so the code's test, whether a name is among the active calls, finds circles and nothing else.

On top of it there is one chain of invariants for each of the tables:

- `RecordedInv` (arrays, unions, external types and the queue are those of the constructs looked at) and `KeysInv` (a table has a C name exactly if a construct
  of its kind has it), with `CheckedInv` (what was accepted is allowed), give `AliasesAreAlwaysResolved`;
- `HeadersInv`, what a construct's two lists are before, between and after the two walks, gives `EveryTypeAlwaysHasOneHome`. That `fix_externalTypes_lists` brings a name back into the list which the walk
  before it has just cleaned, and never twice, needs that the names of both lists are distinct (`UniqueFacts`, `Alone`);
- `TablesInv` (the last construct of a C name is what is stored under it) and `ReportInv` (what the report says of tables and counts), with `Core` and `KeysInv` called `NamingInv`, give
  `RepeatsAreAlwaysReported` and `CNamesAreAlwaysDistinct`. The tables keep only one construct of a name and kind; `SeenInv` is why the report is exact nevertheless (`AcceptedRepeatsNothing`, `RefusedRepeats`).

For the C names, renaming is injective on names without underscores, since what is appended can be told from what was there (`FreeIsInjective`). Enumerators are harder: `fix_enum` puts
underscores for blanks and `_plus` for `+`, then appends some. `Decoded` reads a value off its enumerator, by induction over its length: in a value without underscores and `plus`, each underscore that is
not followed by `plus` was a blank, and the others were operators. For values of one enum that ends the argument (`EnumeratorsDiffer`); those of two enums have their enums' names
in front, and the first underscore shows where the name ends (`EnumsApart`).

Several attempts at these proofs failed because a property was false in a case that no input of the run had; TLC showed the counterexamples once the inputs had these cases. The
properties now state the exceptions, which section 5 lists, the inputs have the cases, and one clause became stronger: an attribute that is called like an operation must be refused, unless it is renamed.

### What is only model-checked

Termination (`Terminates`, `InitializationTerminates`): liveness under fairness is out of the prover's reach. All other properties of passing runs are theorems.

What a recursive definition computes for every input can be proved where it is a recursive *function* on numbers: a
set of numbers that has 0 and with each number the next one has all of them (`Induction` in `SequenceFacts`, from the
well-foundedness of `<`), and no operator need be passed. `Subsequences` says with such functions what loops and filters do;
the sorted constructors, `Generation` of `Inheritance`, the order of a union's members and the lists of headers are treated so. Flattening and
counting are treated in the same way, by induction over the length (`CountedFlatten`, `CountedAt`).

## 5. Findings and divergences

The six violation runs are listed as findings in `PROJECT.json`, each with the
comment or text the code contradicts. The following were met while modelling; no run is
spent on them, since nothing in the repository promises otherwise, or the model
leaves the place out.

- After inheritance, an interface's attributes are not renumbered at all, and
  names are checked for duplicates *before* inheritance adds members (`AugmentedAST.js` 2897).
- A `NoInterfaceObject` that refers to itself, or two that refer to each other, are initialized
  without end: the guard (`interface.mustache` 343) looks for a prototype they do not register. The
  comment at 398 only hopes ("should(?) keep us from running infinitely"); `InitializationTerminates`
  is checked for inputs in which every cycle has a guarded member.
- Every initialization of a `NoInterfaceObject` stores a new single instance in
  the global object (`interface.mustache` 378).
  The comment at 224 says that a `new` returns "the (single) global object".
- Empty string arguments are copied and never freed (`clean_up_and_return.mustache`
  48); arrays of strings are not freed at all (the comment at 46 says so), and neither are the strings
  in unions. `my_require` never frees the name of its module. The transform of an interface argument returns the value
  that it popped without acquiring it, although callers of transforms release what these return.
- An optional argument of an interface type cannot be left out in the new handling
  (`interface.mustache` 502), while a required boolean can, and is then false. Default
  strings are printed without quotes there (`AugmentedAST.js` 670, `demarshal_args.mustache` 110), which is no C.
- The original handling leaves the `union_type` of a union with a default
  indeterminate (`composites.mustache` 76). A double of the new handling is rounded to a float (`utilities.mustache` 885).
- A union of a boolean and a float takes `true` for a number in the new handling, which coerces, but not in the
  original one; `docs/tutorial_part2.md` 506–516 describes the latter.
- The original handling checks the first variadic argument only, again and again
  (`demarshal_args.mustache` 49). With fewer arguments than plain parameters, the difference in line 168
  wraps. The early returns of the new handling (156, 186) skip the clean-up.
- Nobody waits for, or looks at, the promises of `file_generators.js`: a failed write
  leaves exit code 0. The pool may serve an open before the `makeDirectory` that was requested first; the open then fails, like any other. An interrupted run leaves empty stubs, which the next run takes for the user's
  and keeps. An interface called `X_stubs` writes the stubs file of `X`.
- Unions are not recategorized: an external type used in a
  union only is included as a local header.
- Typedefs, unions and arrays of included `.idl` files are printed again, although the comment at `generate.js` 42–44 says that included objects
  are not: the mark is set on the parser's nodes, and `record_typedefs` (`AugmentedAST.js` 459–463), like the functions for unions and arrays, stores a new
  object without it, which `file_generators.js` 74 then does not skip. `IncludedFilesAreKept` speaks of interfaces, dictionaries, enums and callbacks; `EveryFileIsMade` counts
  the files of included typedefs and unions among those that are made.
- A type with the name of a C word is refused in a sequence ("Unsupported type"), an argument of such a type
  lists the header under the name it does not have in C (`AugmentedAST.js` 989), and an
  interface called `bool` is taken for the C type. `EveryTypeHasOneHome` makes these two exceptions.
- The dictionary made for an array of `X` replaces a dictionary that the user called `X_array` (3369).
- `walk_up_tree`'s list `seen` (1012–1016) never finds anything; nothing depends on it.
- Files are concatenated without a line break between them (`IDLReader.js` 30): a comment at the end of one
  swallows the first line of the next.
- Options: the comment at `parameters.js` 75–79 says that repeated flags come as an array, but minimist
  replaces a boolean, so `--quiet --quiet=false` is no contradiction. `--fix_type_errors x.idl`
  means false and `--fix_type_errors` alone true. `--stubs` alone is refused, but `--stubs x.idl` overwrites; the value
  `off`, for which `file_generators.js` 141 looks, cannot be given. `--fix_type_errors=on` is refused although `on` counts as
  true elsewhere, `--include` alone is ignored, `--package` alone or twice is a TypeError. So is
  `--package=1`, since minimist makes a number of it, which has no `endsWith` (`parameters.js` 315), and a number among the files or the `--include`s (265). `OptionsAreAsGiven` therefore asks
  that each accepted flag has one of the values it was given, and that what the usage message describes is accepted if the package's name is not a number.
- Names are compared before they are renamed, or after, but not both: dictionaries `struct` and
  `struct_` get one name and one is lost, as are fields with these names, and an argument
  `struct` gets the name of a construct `struct`. The values `x+` and `x plus` of an enum are one
  enumerator, and so are `struct` and `struct` with a blank behind it when enums are left alone. `CNamesAreDistinct` therefore speaks of files without such names.
- The comment at `AugmentedAST.js` 2103 wants operations and attributes of an interface uniquely named. An attribute is renamed before it is
  compared, an operation never is: an attribute `struct` and an operation `struct` are not reported. `RepeatsAreReported` makes that exception (`SharesItsName`).
- A construct whose C name is another one's (`struct` and `struct_`) replaces it in the table of its kind, with its headers, and an array's dictionary
  replaces a dictionary; only what stands `Alone` is claimed to have its headers. An `External` attribute that is repeated puts its type on the construct's list twice,
  although the comment at 598 says "if it's not a duplicate, add it".
- A name that nothing has is accepted if it looks like that of an array or a union that the file uses, such as `Far_or_long` (`Composed` in `AliasesAreResolved`).
- Typedefs are not recorded by `record_name`, so a typedef and a construct may share a name, and
  two typedefs replace each other. A typedef or a union `A` and an interface `A` write the same `A.h` through two streams at a time, and the file has the text of one of them or a
  mixture. `EveryFileIsMade` allows either; if the interface is an included one, `IncludedFilesAreKept` excepts its files. Names in `External` attributes are checked but not
  put on the list, although the comment (`AugmentedAST.js` 1502) says so; one of the three types is misspelt (1519).
- A partial interface is never merged: `interfaceName` is always undefined at
  1982, so the file is refused for a repeated name.
- Members called `toString` or `constructor` are not counted: `names_seen` (2028) is a plain object, so
  its lookup finds the inherited function.
- The loop check for typedefs sees the alias as it is spelled, so a typedef of a sequence of itself passes.

## 6. Not modelled, and why

- *Between names and inheritance*: `Names` and `Inheritance` are not composed, so that the clashes that
  inheritance makes are described above and not shown by a run.
- *Dictionaries, callbacks, enums and arrays as arguments*, and the way back from a C union
  to a JavaScript value: the transforms are sequences of property accesses with an early return each, without
  anything shared but the static table (`dictionary.mustache` 227), which the interpreter reads after the
  function that filled it has returned; what it reads there is undefined in C.
- *Native objects*: checksums, property helpers, getters and setters of attributes.
- *Enums, stubs and typedef templates, Hogan glue*: text without control.
- *The tables of type names* in `getConversionTypes`: maps from names to names.
- *Vendored packages* (`node_modules`), but for minimist and, as external actions, q-io.

`PROJECT.json` "components" gives the reason for each.

## 7. Plan

The order follows importance: what decides whether a file is accepted and what C
code does with it comes first, what it looks like last. Sections 2 to 4 are done.

1. *Names after inheritance*: `Names` composed with `Inheritance`.
2. *Dictionary and array arguments*: as further parameter types of `CallHandler`.
3. *Native objects and attributes*: on top of `PrototypesHolder`'s counts.

Runs are kept few, one per question: a run of a finding goes when the code is
fixed, and its property moves to the module's passing run.

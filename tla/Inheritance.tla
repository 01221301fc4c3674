---------------------------- MODULE Inheritance ----------------------------
(***************************************************************************)
(* find_inheritance_chain of AugmentedAST: it copies to every dictionary,  *)
(* or to every interface, what its ancestors define, and detects cycles.   *)
(*                                                                         *)
(* augment_object is recursive, but each object has one parent, so its     *)
(* active calls are the first `depth` names of seen_in_this_chain.  The    *)
(* compiler's member and attribute objects are shared by reference: here   *)
(* one is a pair <<owner, name>>, and what the code writes into it is a    *)
(* function of the pair.                                                   *)
(***************************************************************************)
EXTENDS Subsequences, FiniteSets, SequencesExt

CONSTANTS
  Objects,         \* the keys of objects_list
  Elsewhere,       \* parents that are not keys: of another kind, or external
  Names,           \* names of members, attributes and operations
  Inputs,          \* the inheritance and own definitions the compiler can read
  None             \* JavaScript's null and undefined

ASSUME ObjectsAssumption == IsFiniteSet(Objects)
ASSUME ElsewhereAssumption == Elsewhere \cap Objects = {}
ASSUME NoneAssumption == None \notin Objects \cup Elsewhere

(* report_reused_names has refused a dictionary with two members of a name,  *)
(* and an interface with two attributes or operations of a name.             *)
ASSUME InputsAssumption ==
  \A input \in Inputs :
     /\ input.are_dictionaries \in BOOLEAN
     /\ input.inheritance \in [Objects -> Objects \cup Elsewhere \cup {None}]
     /\ input.externalTypes \in [Objects -> SUBSET Elsewhere]
     /\ input.fields \in [Objects -> Seq(Names)]
     /\ input.operations \in [Objects -> Seq(Names)]
     /\ \A x \in Objects : IsInjective(input.fields[x]) /\ IsInjective(input.operations[x])

VARIABLES
  are_dictionaries,    \* which of the two augment_thing functions is passed
  inheritance,         \* each object's parent, None if it has none
  externalTypes,       \* the names each object declares external
  fields,              \* members of a dictionary, attributes of an interface
  field_index,         \* member_index or attribute_index of each field
  operations,          \* operations of an interface
  non_intrinsic_types, \* parents whose header each object includes
  already_seen,
  seen_in_this_chain,
  depth,               \* how many calls of augment_object are active
  parent_is_defined,   \* the innermost call is past its recursive call
  outcome,
  first_in_chain,
  report               \* the lines printed, as pairs <<heir, parent>>

definitions == <<are_dictionaries, inheritance, externalTypes>>
copies == <<fields, field_index, operations, non_intrinsic_types>>
walk == <<already_seen, seen_in_this_chain, depth, parent_is_defined>>
failure == <<outcome, first_in_chain>>
vars == <<definitions, copies, walk, failure, report>>

Cyclic == {"cyclic_inheritance", "reported"}
Outcomes == {"walking", "done", "external_inheritance", "no_definition"} \cup Cyclic

Operation(owner, name) ==
  [operationName |-> name, interfaceName |-> owner,
   inherited_operation |-> FALSE, defining_interface |-> None]

(* The place of an element in a list, from 0. *)
IndexOf(list, e) == SelectInSeq(list, LAMBDA x : x = e) - 1

(* addDictionary and addNewInterface: what each object defines itself, its  *)
(* fields numbered from 0.                                                  *)
Init ==
  \E input \in Inputs :
     /\ are_dictionaries = input.are_dictionaries
     /\ inheritance = input.inheritance
     /\ externalTypes = input.externalTypes
     /\ fields = [x \in Objects |->
                    [i \in DOMAIN input.fields[x] |-> <<x, input.fields[x][i]>>]]
     /\ operations = [x \in Objects |->
                        [i \in DOMAIN input.operations[x] |->
                           Operation(x, input.operations[x][i])]]
     /\ field_index = [m \in Objects \X Names |->
                         IF Contains(input.fields[m[1]], m[2])
                         THEN IndexOf(input.fields[m[1]], m[2]) ELSE 0]
     /\ non_intrinsic_types = [x \in Objects |-> {}]
     /\ already_seen = {}
     /\ seen_in_this_chain = << >>
     /\ depth = 0
     /\ parent_is_defined = FALSE
     /\ outcome = "walking"
     /\ first_in_chain = None
     /\ report = << >>

----------------------------------------------------------------------------
target == seen_in_this_chain[depth]
parent == inheritance[target]

(* Wrong: the name is recorded in the chain only. *)
CallUnseen(name, chain) ==
  /\ seen_in_this_chain' = Append(chain, name)
  /\ depth' = depth + 1
  /\ parent_is_defined' = FALSE
  /\ UNCHANGED already_seen

(* The head of augment_object. *)
Call(name, chain) ==
  /\ seen_in_this_chain' = Append(chain, name)
  /\ already_seen' = already_seen \cup {name}
  /\ depth' = depth + 1
  /\ parent_is_defined' = FALSE

(* Wrong: the outer loop calls for every key again. *)
StartAgain(i) ==
  /\ outcome = "walking"
  /\ depth = 0
  /\ Call(i, << >>)
  /\ UNCHANGED <<definitions, copies, failure, report>>

(* The outer loop reaches a key no call has seen; the order of the keys is  *)
(* that of the file: any.                                                   *)
StartObject(i) ==
  /\ outcome = "walking"
  /\ depth = 0
  /\ i \notin already_seen
  /\ Call(i, << >>)
  /\ UNCHANGED <<definitions, copies, failure, report>>

InCall == outcome = "walking" /\ depth > 0 /\ ~ parent_is_defined

Throw(error) ==
  /\ outcome' = error
  /\ UNCHANGED <<definitions, copies, walk, report>>

ParentMissing ==
  /\ InCall
  /\ parent \in Elsewhere
  /\ IF parent \in externalTypes[target]
     THEN Throw("external_inheritance")
     ELSE Throw("no_definition")
  /\ UNCHANGED first_in_chain

(* Wrong: the error carries the object the chain started from. *)
ParentInLongChain ==
  /\ InCall
  /\ Contains(seen_in_this_chain, parent)
  /\ Throw("cyclic_inheritance")
  /\ first_in_chain' = Head(seen_in_this_chain)

ParentInChain ==
  /\ InCall
  /\ Contains(seen_in_this_chain, parent)
  /\ Throw("cyclic_inheritance")
  /\ first_in_chain' = target

(* "fully define parent before copying it to target" *)
DefineParent ==
  /\ InCall
  /\ parent \in Objects \ already_seen
  /\ Call(parent, seen_in_this_chain)
  /\ UNCHANGED <<definitions, copies, failure, report>>

(* Wrong: copies from a parent that may not be defined yet. *)
ParentUndefined ==
  /\ InCall
  /\ parent \in Objects
  /\ ~ Contains(seen_in_this_chain, parent)
  /\ parent_is_defined' = TRUE
  /\ UNCHANGED <<definitions, copies, failure, report,
                 already_seen, seen_in_this_chain, depth>>

ParentAlreadyDefined ==
  /\ InCall
  /\ parent \in already_seen
  /\ ~ Contains(seen_in_this_chain, parent)
  /\ parent_is_defined' = TRUE
  /\ UNCHANGED <<definitions, copies, failure, report,
                 already_seen, seen_in_this_chain, depth>>

NamesOf(list) == {list[i][2] : i \in DOMAIN list}
OperationNames(list) == {list[i].operationName : i \in DOMAIN list}

(* What target lacks of a parent's list, in the parent's order. *)
LackingFields(theirs, ours) ==
  Kept(theirs, {f \in ToSet(theirs) : f[2] \notin NamesOf(ours)})
LackingOperations(theirs, ours) ==
  Kept(theirs, {o \in ToSet(theirs) : o.operationName \notin OperationNames(ours)})

(* Wrong: marks again what is marked already. *)
InheritedAgain(operation) ==
  [operation EXCEPT !.inherited_operation = TRUE,
                    !.defining_interface = operation.interfaceName,
                    !.interfaceName = None]

(* An operation becomes an inherited one when it is first copied; after     *)
(* that the same object serves every heir.                                  *)
Inherited(operation) ==
  IF operation.inherited_operation THEN operation
  ELSE [operation EXCEPT !.inherited_operation = TRUE,
                         !.defining_interface = operation.interfaceName,
                         !.interfaceName = None]

(* augment_dictionary renumbers the members of the target, which are its    *)
(* ancestors' member objects too; augment_interface numbers nothing.        *)
Renumbered(list) ==
  [m \in DOMAIN field_index |->
     IF Contains(list, m) THEN IndexOf(list, m) ELSE field_index[m]]

(* The unshifts of the parent's fields, from its last to its first. *)
Unshifted(new_fields, own_fields) == new_fields \o own_fields

(* Wrong: only the loop over the operations counts. *)
CopiedAnyOperation(new_fields, new_operations) == Len(new_operations) > 0

(* number_of_parent_fields_copied > 0 *)
CopiedAny(new_fields, new_operations) == Len(new_fields) + Len(new_operations) > 0

(* augment_thing, and what augment_object does with the number it returns. *)
AugmentThing(from, to) ==
  LET new_fields == LackingFields(fields[from], fields[to])
      new_operations == LackingOperations(operations[from], operations[to])
      all_fields == Unshifted(new_fields, fields[to])
      copied_any == CopiedAny(new_fields, new_operations)
  IN  /\ fields' = [fields EXCEPT ![to] = all_fields]
      /\ field_index' = IF are_dictionaries /\ copied_any THEN Renumbered(all_fields)
                        ELSE field_index
      /\ operations' =
           [operations EXCEPT ![to] =
              @ \o [i \in DOMAIN new_operations |-> Inherited(new_operations[i])]]
      /\ non_intrinsic_types' =
           IF copied_any THEN [non_intrinsic_types EXCEPT ![to] = @ \cup {from}]
           ELSE non_intrinsic_types

(* The end of augment_object: its caller resumes behind its own call. *)
Return ==
  /\ depth' = depth - 1
  /\ parent_is_defined' = (depth > 1)
  /\ UNCHANGED <<definitions, failure, report, already_seen, seen_in_this_chain>>

(* Wrong: the parent and the target are swapped. *)
CopyToParent ==
  /\ outcome = "walking"
  /\ depth > 0
  /\ parent_is_defined
  /\ AugmentThing(target, parent)
  /\ Return

CopyFromParent ==
  /\ outcome = "walking"
  /\ depth > 0
  /\ parent_is_defined
  /\ AugmentThing(parent, target)
  /\ Return

NoParent ==
  /\ InCall
  /\ parent = None
  /\ Return
  /\ UNCHANGED copies

ChainsFound ==
  /\ outcome = "walking"
  /\ depth = 0
  /\ Objects \subseteq already_seen
  /\ outcome' = "done"
  /\ UNCHANGED <<definitions, copies, walk, first_in_chain, report>>

(* generate.js: "current inherits from next", until the circle closes. *)
PrintLine ==
  /\ outcome = "cyclic_inheritance"
  /\ LET current == IF report = << >> THEN first_in_chain ELSE Last(report)[2]
         next    == inheritance[current]
     IN  /\ report' = Append(report, <<current, next>>)
         /\ outcome' = IF next = first_in_chain THEN "reported" ELSE outcome
  /\ UNCHANGED <<definitions, copies, walk, first_in_chain>>

Finished == outcome \in Outcomes \ {"walking", "cyclic_inheritance"}

(* The compiler exits with an error, or goes on to its next pass. *)
Stop == Finished /\ UNCHANGED vars

Next ==
  \/ \E i \in Objects : StartObject(i)
  \/ ParentMissing
  \/ ParentInChain
  \/ DefineParent
  \/ ParentAlreadyDefined
  \/ CopyFromParent
  \/ NoParent
  \/ ChainsFound
  \/ PrintLine
  \/ Stop

Spec == Init /\ [][Next]_vars

(* The compiler is one sequential program: it takes its next step. *)
FairSpec == Spec /\ WF_vars(Next)

----------------------------------------------------------------------------
Fields == Objects \X Names
OperationsOf(owners) ==
  [operationName : Names, interfaceName : owners,
   inherited_operation : BOOLEAN, defining_interface : owners]

TypeOK ==
  /\ are_dictionaries \in BOOLEAN
  /\ inheritance \in [Objects -> Objects \cup Elsewhere \cup {None}]
  /\ externalTypes \in [Objects -> SUBSET Elsewhere]
  /\ fields \in [Objects -> Seq(Fields)]
  /\ field_index \in [Fields -> Nat]
  /\ operations \in [Objects -> Seq(OperationsOf(Objects \cup {None}))]
  /\ non_intrinsic_types \in [Objects -> SUBSET Objects]
  /\ already_seen \subseteq Objects
  /\ seen_in_this_chain \in Seq(already_seen)
  /\ depth \in 0 .. Len(seen_in_this_chain)
  /\ parent_is_defined \in BOOLEAN
  /\ outcome \in Outcomes
  /\ first_in_chain \in Objects \cup {None}
  /\ report \in Seq(Objects \X Objects)

(* The generations above x: x itself is 0, its parent 1, ... *)
Generation(x) ==
  LET up[n \in Nat] ==
        IF n = 0 THEN x
        ELSE IF up[n - 1] \in Objects THEN inheritance[up[n - 1]] ELSE None
  IN  up

IsAncestor(x, y) ==
  \E n \in 1 .. Cardinality(Objects) : Generation(x)[n] = y

InACycle(x) == IsAncestor(x, x)

OwnFields(x) == {f \in ToSet(fields[x]) : f[1] = x}
OwnOperations(x) == {o \in ToSet(operations[x]) : ~ o.inherited_operation}

(* The n-th generation above x is the nearest that defines the name. *)
IsNearest(x, n, Defines(_)) ==
  /\ Generation(x)[n] \in Objects
  /\ Defines(Generation(x)[n])
  /\ \A k \in 0 .. n - 1 : ~ Defines(Generation(x)[k])

(* The list an object ends up with holds, for each name that it or one of   *)
(* its ancestors defines, exactly one field: that of the nearest of them,   *)
(* whatever the order of the file ("closest to the object").                *)
NearestFieldsAreInherited ==
  outcome = "done" =>
     \A x \in Objects :
        /\ ToSet(fields[x]) =
             {f \in Fields :
                \E n \in 0 .. Cardinality(Objects) :
                   /\ Generation(x)[n] = f[1]
                   /\ IsNearest(x, n, LAMBDA y : <<y, f[2]>> \in OwnFields(y))}
        /\ IsInjective(fields[x])

(* "fields should be in the order of earliest parent first": a field of a   *)
(* farther ancestor comes before one of a nearer.                           *)
EarliestParentFirst ==
  outcome = "done" =>
     \A x \in Objects :
        \A i \in DOMAIN fields[x] : \A j \in 1 .. i - 1 :
           fields[x][i][1] = fields[x][j][1] \/ IsAncestor(fields[x][i][1], fields[x][j][1])

(* Fields come from the right ancestors and in the documented order.        *)
FieldsAreInherited == NearestFieldsAreInherited /\ EarliestParentFirst

(* The C function registered for an operation is one that was generated:    *)
(* for every name an object has an operation of, own or inherited, the      *)
(* handler is that of the nearest interface that defines the operation      *)
(* itself.                                                                  *)
HandlerOwner(x, o) == IF o.inherited_operation THEN o.defining_interface ELSE x
HandlersAreTheNearest ==
  outcome = "done" =>
     \A x \in Objects :
        LET Defines(n, y) == \E o \in OwnOperations(y) : o.operationName = n
        IN  /\ \A i, j \in DOMAIN operations[x] :
                 operations[x][i].operationName = operations[x][j].operationName => i = j
            /\ \A name \in Names, n \in 0 .. Cardinality(Objects) :
                 IsNearest(x, n, LAMBDA y : Defines(name, y)) =>
                    \E o \in ToSet(operations[x]) :
                       o.operationName = name /\ HandlerOwner(x, o) = Generation(x)[n]
            /\ \A o \in ToSet(operations[x]) :
                 Defines(o.operationName, HandlerOwner(x, o))

(* A header that declares an inherited field's owner is always included,    *)
(* directly or through the headers of nearer ancestors, although a parent   *)
(* nothing is copied from is skipped.                                       *)
OwnersAreIncluded ==
  outcome = "done" =>
     \A x \in Objects : \A f \in ToSet(fields[x]) :
        \E n \in 0 .. Cardinality(Objects) :
           /\ Generation(x)[n] = f[1]
           /\ \A k \in 0 .. n - 1 :
                Generation(x)[k + 1] \in non_intrinsic_types[Generation(x)[k]]

(* The pass completes only when every parent is there and no object is its  *)
(* own ancestor, and it takes nothing else for a cycle.                     *)
OnlyCyclesAreCyclic ==
  /\ outcome = "done" =>
       \A x \in Objects : inheritance[x] \notin Elsewhere /\ ~ InACycle(x)
  /\ outcome \in Cyclic => InACycle(first_in_chain)

(* The lines printed for a cycle name each of its objects once.             *)
ReportIsTheCycle ==
  outcome = "reported" =>
     /\ \A i \in DOMAIN report : report[i][2] = inheritance[report[i][1]]
     /\ {report[i][1] : i \in DOMAIN report}
          = {x \in Objects : x = first_in_chain \/ IsAncestor(first_in_chain, x)}
     /\ IsInjective(report)

(* Cycles, and nothing else, are found, whatever object the walk began with, *)
(* and are printed in full.                                                 *)
CyclesAreReported == OnlyCyclesAreCyclic /\ ReportIsTheCycle

(* An object whose call has returned is final: nothing is added to it by    *)
(* the objects that come after it, whichever call defined it first.         *)
Defined == {x \in already_seen : \A i \in 1 .. depth : seen_in_this_chain[i] # x}
DefinedObjectsAreFinal ==
  [][\A x \in Defined : /\ fields'[x] = fields[x]
                        /\ operations'[x] = operations[x]
                        /\ non_intrinsic_types'[x] = non_intrinsic_types[x]]_vars

(* The recursion ends, and so does the loop that prints a cycle. *)
Terminates == <>Finished

(* addDictionary: "add an index to the dictionary members so it's easy to   *)
(* assign to them when the user does a new"; augment_dictionary: "with the  *)
(* addition of new members, the indices need to be update"; addNewInterface *)
(* says the same of attributes.                                             *)
IndicesArePositions ==
  outcome = "done" =>
     \A x \in Objects : \A i \in DOMAIN fields[x] : field_index[fields[x][i]] = i - 1
============================================================================

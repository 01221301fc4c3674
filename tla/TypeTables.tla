----------------------------- MODULE TypeTables -----------------------------
(* AugmentedAST.augment without inheritance (modules Inheritance and         *)
(* TypeRecursion): on top of the names, the tables of types.  What every     *)
(* typedef stands for in the end (record_typedefs); the arrays and unions    *)
(* that are used (idlTypeToOtherType); which headers each callback,          *)
(* dictionary, interface and union needs (set_external_types and             *)
(* get_non_intrinsic_types_list); whether every name is the name of a type   *)
(* (processTypeCheckQueue); the dictionary that is made for every array; and *)
(* whether a header belongs to this compilation or to another one            *)
(* (find_and_recategorize_external_types).                                   *)
(*                                                                           *)
(* A type that the file uses is [members, depth, is_argument]: one name, or  *)
(* the names of a union in alphabetical order, in so many sequence<>s or     *)
(* "..."; the type of an argument is listed differently.  A WebIDL primitive *)
(* and the C type it becomes have one name.                                  *)
EXTENDS Names, Subsequences

CONSTANT Intrinsic     \* the primitives and C types

NoType == <<>>

ASSUME IntrinsicAssumption == NoType \notin Intrinsic

(* The types that the parser finds; a typedef is of one type.                *)
ASSUME TypesAssumption ==
  \A files \in Inputs : \A file \in files : \A thing \in Range(file.ast) :
    /\ IsList(thing.externalTypes)
    /\ IsList(thing.types)
    /\ \A e \in Range(thing.types) :
         /\ e.depth \in Nat
         /\ IsListOfNames(e.members) /\ e.members # <<>>
         /\ \A name \in Range(e.members) : name # NoType
    /\ thing.kind = "typedef" => Len(thing.types) = 1
    /\ thing.kind = "enum" => thing.types = <<>>

HeaderKinds == {"callback", "dictionary", "interface", "composite"}

VARIABLES
  waiting,              \* the typedefs that are not looked at yet
  current,              \* the argument of the active find_ultimate_typename
  tree_members,         \* the arguments of the calls it is nested in
  ultimate_typename,    \* of each typedef, NoType until it is known
  array_types,          \* the names of the arrays
  composites,           \* the members of the unions
  allExternalTypes,     \* the names declared with an External attribute
  typeCheckQueue,       \* the names that must be types
  headers               \* for each kind, the non_intrinsic_types and the
                        \* externalTypes of each thing

resolution == <<waiting, current, tree_members, ultimate_typename>>
used       == <<array_types, composites, allExternalTypes, typeCheckQueue>>
vars       == <<names_vars, resolution, used, headers>>

Init ==
  /\ NamesInit
  /\ waiting = <<>> /\ current = NoType /\ tree_members = <<>>
  /\ ultimate_typename = <<>>
  /\ array_types = {} /\ composites = {}
  /\ allExternalTypes = {} /\ typeCheckQueue = {}
  /\ headers = [kind \in HeaderKinds |-> <<>>]

-----------------------------------------------------------------------------
(* The name of a type, and the arrays and the union that are recorded when   *)
(* it is seen.                                                               *)
union_name(members) ==
  FlattenSeq([k \in DOMAIN members |-> IF k = 1 THEN members[k] ELSE <<"_or_">> \o members[k]])

array_of(name, depth) == name \o [k \in 1..depth |-> "_array"]

element(array) == Front(array)

base(e) == IF Len(e.members) = 1 THEN Head(e.members) ELSE union_name(e.members)

typename(e) == array_of(base(e), e.depth)

create_array_type(e) == {array_of(base(e), depth) : depth \in 1..e.depth}

create_composite_type(e) == IF Len(e.members) = 1 THEN {} ELSE {e.members}

(* fix_type: the name is queued, and with that of an array the one of its    *)
(* element.                                                                  *)
Queued(e) == {fix_type(typename(e))} \union (IF e.depth = 0 THEN {} ELSE {element(typename(e))})

(* What idlTypeToOtherType, fix_names_and_types and set_external_types       *)
(* record for a list of types in a construct.                                *)
Record(types, names, externals) ==
  /\ array_types'      = array_types \union UNION {create_array_type(e) : e \in types}
  /\ composites'       = composites \union UNION {create_composite_type(e) : e \in types}
  /\ typeCheckQueue'   = typeCheckQueue \union names \union UNION {Queued(e) : e \in types}
  /\ allExternalTypes' = allExternalTypes \union externals

-----------------------------------------------------------------------------
(* The typedefs are gathered in the file's order, the last of a name counts. *)
TypedefsOf == {i \in DOMAIN ast : ast[i].kind = "typedef"}

RecordTypedefs ==
  /\ record_typedefs
  /\ LET declared == Kept(ast, {t \in Range(ast) : t.kind = "typedef"})
         names == [k \in DOMAIN declared |-> fix_type_name(declared[k].name)]
     IN  /\ Record({t.types[1] : t \in Range(declared)}, Range(names),
                   UNION {Range(t.externalTypes) : t \in Range(declared)})
         /\ waiting' = names
         /\ ultimate_typename' = [n \in Range(names) |-> NoType]
  /\ UNCHANGED <<current, tree_members, headers>>

Typedefs == DOMAIN typedefs
alias(name) == fix_type(typename(ast[typedefs[name]].types[1]))

(* find_ultimate_typename                                                    *)
Resolving == pc = "checking" /\ (current # NoType \/ waiting # <<>>)

StartTypedef ==
  /\ Resolving /\ current = NoType
  /\ current' = Head(waiting) /\ waiting' = Tail(waiting) /\ tree_members' = <<>>
  /\ UNCHANGED <<names_vars, ultimate_typename, used, headers>>

(* Wrong: only typedefs that name themselves are found. *)
IsTheCaller(members, name) == members # <<>> /\ Last(members) = name

includes(members, name) == name \in Range(members)

ThrowLoop ==
  /\ Resolving /\ includes(tree_members, current)
  /\ Throw("Loop_in_typedefs")
  /\ UNCHANGED <<input, next, local_reserved_words, typedefs, tables,
                 construct_names_seen, error_messages, resolution, used, headers>>

Calling == Resolving /\ current # NoType /\ ~includes(tree_members, current)

FollowAlias ==
  /\ Calling /\ ultimate_typename[current] = NoType /\ alias(current) \in Typedefs
  /\ tree_members' = Append(tree_members, current)
  /\ current' = alias(current)
  /\ UNCHANGED <<names_vars, waiting, ultimate_typename, used, headers>>

ReachRoot ==
  /\ Calling /\ ultimate_typename[current] = NoType /\ alias(current) \notin Typedefs
  /\ ultimate_typename' = [ultimate_typename EXCEPT ![current] = alias(current)]
  /\ UNCHANGED <<names_vars, waiting, current, tree_members, used, headers>>

(* Wrong: the caller gets its own alias, not what that stands for. *)
PassedOnAlias(caller) == alias(caller)

(* A call returns: its result is its caller's result too.                    *)
PassedOn(caller) == ultimate_typename[current]

Return ==
  /\ Calling /\ ultimate_typename[current] # NoType
  /\ IF tree_members = <<>>
     THEN current' = NoType /\ UNCHANGED <<tree_members, ultimate_typename>>
     ELSE LET caller == Last(tree_members)
          IN  /\ ultimate_typename' = [ultimate_typename EXCEPT ![caller] = PassedOn(caller)]
              /\ current' = caller /\ tree_members' = Front(tree_members)
  /\ UNCHANGED <<names_vars, waiting, used, headers>>

FixNames ==
  /\ ~Resolving /\ fix_names
  /\ UNCHANGED <<resolution, used, headers>>

-----------------------------------------------------------------------------
(* addCallback, addDictionary and addInterface.  A typedef needs its own     *)
(* header and that of what it stands for.                                    *)
Needed(type) ==
  LET ultimate == IF type \in Typedefs THEN ultimate_typename[type] ELSE type
  IN  (IF type \in Typedefs THEN <<type>> ELSE <<>>)
        \o (IF ultimate \in Intrinsic THEN <<>> ELSE <<ultimate>>)

Unique(names) ==
  LET first == Increasing({k \in DOMAIN names : \A i \in 1..(k - 1) : names[i] # names[k]},
                          Len(names))
  IN  [k \in DOMAIN first |-> names[first[k]]]

Without(list, names) == Kept(list, Range(list) \ names)

get_non_intrinsic_types_list(names, externals) ==
  Without(Unique(FlattenSeq([k \in DOMAIN names |-> Needed(names[k])])), Range(externals))

Headers(names, externals) ==
  [non_intrinsic_types |-> get_non_intrinsic_types_list(names, externals),
   externalTypes       |-> externals]

(* An argument is listed under the name the file uses. *)
Listed(e) == IF e.is_argument THEN typename(e) ELSE fix_type(typename(e))

With(table, name, value) ==
  [n \in DOMAIN table \union {name} |-> IF n = name THEN value ELSE table[n]]

AddThing ==
  /\ addDictionary \/ addCallback \/ addInterface
  /\ LET thing == this_thing
         name  == fix_type_name(thing.name)
     IN  /\ Record(Range(thing.types), {name}, Range(thing.externalTypes))
         /\ headers' = [headers EXCEPT ![thing.kind] =
              With(@, name, Headers([k \in DOMAIN thing.types |-> Listed(thing.types[k])],
                                    thing.externalTypes))]
  /\ UNCHANGED resolution

AddEnum ==
  /\ addEnum
  /\ Record({}, {fix_type_name(this_thing.name)}, {})
  /\ UNCHANGED <<resolution, headers>>

(* Nothing reads the tables after an error.                                  *)
AddNothing ==
  /\ addEmptyEnum \/ addUntypedInterface \/ skipTypedef
  /\ UNCHANGED <<resolution, used, headers>>

ReportReusedNames ==
  /\ report_reused_names
  /\ UNCHANGED <<resolution, used, headers>>

-----------------------------------------------------------------------------
isAllowedType(name) ==
  \/ name \in Intrinsic \union Typedefs \union allExternalTypes \union array_types
  \/ \E kind \in Kinds : name \in DOMAIN tables[kind]
  \/ \E members \in composites : name = union_name(members)

Proceed(from, to) ==
  /\ pc = from /\ pc' = to
  /\ UNCHANGED <<input, next, local_reserved_words, typedefs, construct_names_seen,
                 error_messages, resolution, used>>

processTypeCheckQueue ==
  /\ Proceed("accepted", "arrays")
  /\ \A name \in typeCheckQueue : isAllowedType(name)
  /\ UNCHANGED <<tables, headers, error>>

UnsupportedType ==
  /\ Proceed("accepted", "refused")
  /\ \E name \in typeCheckQueue : ~isAllowedType(name)
  /\ error' = "Unsupported_type"
  /\ UNCHANGED <<tables, headers>>

(* Every array becomes a dictionary of a length and the items.               *)
convert_list_of_array_types_to_dictionaries ==
  /\ Proceed("arrays", "composites")
  /\ LET fields == Stored(<<<<"length">>, <<"items">>>>, <<<<"length">>, <<"items">>>>, <<>>)
         replace(table, value(_)) ==
           [n \in DOMAIN table \union array_types |-> IF n \in array_types THEN value(n) ELSE table[n]]
     IN  /\ tables'  = [tables EXCEPT !["dictionary"] = replace(@, LAMBDA n : fields)]
         /\ headers' = [headers EXCEPT !["dictionary"] =
              replace(@, LAMBDA n : Headers(<<fix_type(element(n))>>, <<>>))]
  /\ UNCHANGED error

build_composite_types ==
  /\ Proceed("composites", "non_intrinsics")
  /\ headers' = [headers EXCEPT !["composite"] =
       [n \in {union_name(members) : members \in composites} |->
          LET members == CHOOSE m \in composites : union_name(m) = n
          IN  Headers(members, <<>>)]]
  /\ UNCHANGED <<tables, error>>

-----------------------------------------------------------------------------
(* find_and_recategorize_external_types walks the callbacks, dictionaries    *)
(* and interfaces twice.                                                     *)
Walked == {"callback", "dictionary", "interface"}

defined_in_this_file == UNION {DOMAIN tables[kind] : kind \in Walked}

(* Wrong: what this compilation defines is not taken out. *)
EveryExternalType == allExternalTypes

all_external_types == allExternalTypes \ defined_in_this_file

Walk(change(_)) ==
  headers' = [kind \in HeaderKinds |->
    IF kind \in Walked THEN [n \in DOMAIN headers[kind] |-> change(headers[kind][n])]
                       ELSE headers[kind]]

External(list) == Kept(list, all_external_types)
Here(list) == Without(list, all_external_types)

fix_non_intrinsics_lists ==
  /\ Proceed("non_intrinsics", "externals")
  /\ Walk(LAMBDA h : [non_intrinsic_types |-> Here(h.non_intrinsic_types),
                      externalTypes |-> h.externalTypes \o External(h.non_intrinsic_types)])
  /\ UNCHANGED <<tables, error>>

fix_externalTypes_lists ==
  /\ Proceed("externals", "done")
  /\ Walk(LAMBDA h : [non_intrinsic_types |-> h.non_intrinsic_types \o Here(h.externalTypes),
                      externalTypes |-> External(h.externalTypes)])
  /\ UNCHANGED <<tables, error>>

Stop ==
  /\ pc \in {"done", "refused"}
  /\ UNCHANGED vars

Next ==
  \/ RecordTypedefs
  \/ StartTypedef \/ ThrowLoop \/ FollowAlias \/ ReachRoot \/ Return
  \/ FixNames \/ AddThing \/ AddEnum \/ AddNothing \/ ReportReusedNames
  \/ processTypeCheckQueue \/ UnsupportedType
  \/ convert_list_of_array_types_to_dictionaries \/ build_composite_types
  \/ fix_non_intrinsics_lists \/ fix_externalTypes_lists \/ Stop

Spec == Init /\ [][Next]_vars

-----------------------------------------------------------------------------
(* What a name stands for, by the rules of WebIDL: the end of its chain of   *)
(* typedefs, if the chain ends.                                              *)
Reaches(k) ==
  LET walk[i \in 0..Cardinality(Typedefs)] ==
        IF i = 0 THEN k
        ELSE IF walk[i - 1] \in Typedefs THEN alias(walk[i - 1]) ELSE walk[i - 1]
  IN  walk[Cardinality(Typedefs)]

Looping(name) == Reaches(name) \in Typedefs

DeclaredExternal(name) ==
  \E thing \in Range(ast) : thing.kind # "enum" /\ name \in Range(thing.externalTypes)

(* The names that a file gives a meaning to, as they are spelled in C.       *)
Known(name) ==
  \/ name \in Intrinsic \/ DeclaredExternal(name)
  \/ \E thing \in Range(ast) : name = fix_type_name(thing.name)

Used == UNION {Range(thing.types) : thing \in Range(ast)}

(* One name, in one sequence<> at most, and then spelled the same in C.      *)
Simple(e) == /\ Len(e.members) = 1
             /\ e.depth = 0 \/ (e.depth = 1 /\ fix_type(base(e)) = base(e))

(* A name that looks like that of an array or a union.                       *)
Composed(name) == Range(name) \intersect {"_array", "_or_"} # {}

(* The variables have their types; calls of find_ultimate_typename are never *)
(* nested more deeply than there are typedefs.                               *)
TypeOK ==
  /\ NamesTypeOK
  /\ pc \in {"typedefs", "checking", "adding", "accepted", "arrays", "composites",
            "non_intrinsics", "externals", "done", "refused"}
  /\ error \in {"none", "reserved", "no_values", "no_return_type", "duplicate_names",
               "Loop_in_typedefs", "Unsupported_type"}
  /\ pc # "typedefs" => DOMAIN ultimate_typename = Typedefs
  /\ current \in Typedefs \union {NoType}
  /\ Range(tree_members) \subseteq Typedefs /\ Len(tree_members) <= Cardinality(Typedefs)

(* A file is refused for its typedefs exactly when they go in a circle, and  *)
(* when all typedefs are resolved each one, however long its chain and in    *)
(* whatever order the file has it, stands for the type at the end of its     *)
(* chain.  It is refused for a type only if that is nothing's name, and in   *)
(* an accepted file every simple type is known, unless its name looks like   *)
(* that of an array or a union (AugmentedAST.js:407, :2242).                 *)
AliasesAreResolved ==
  /\ error = "Loop_in_typedefs" <=> (error # "none" /\ \E t \in Typedefs : Looping(t))
  /\ pc = "adding" => \A t \in Typedefs : ultimate_typename[t] = Reaches(t)
  /\ error = "Unsupported_type" =>
       \E e \in Used : ~Known(fix_type(base(e))) \/ (e.depth > 0 /\ ~Simple(e))
  /\ pc = "done" => \A e \in Used : Simple(e) /\ ~Composed(base(e)) => Known(fix_type(base(e)))

(* Not true: "mostly catches things like typos", which it does not in a      *)
(* union or a sequence of sequences.                                         *)
UnknownTypesAreReported ==
  pc = "done" => \A e \in Used : \A k \in DOMAIN e.members : Known(fix_type(e.members[k]))

Occurrences(list, name) == {k \in DOMAIN list : list[k] = name}
Only(list, name) == \E k \in DOMAIN list : Occurrences(list, name) = {k}

DeclaredElsewhere(name) ==
  /\ DeclaredExternal(name)
  /\ name \notin array_types
  /\ \A thing \in Range(ast) : thing.kind \in Walked => fix_type_name(thing.name) # name

IsAtHome(h, name) ==
  IF DeclaredElsewhere(name)
  THEN Only(h.externalTypes, name) /\ Occurrences(h.non_intrinsic_types, name) = {}
  ELSE Only(h.non_intrinsic_types, name) /\ Occurrences(h.externalTypes, name) = {}

(* Nothing else is stored under the C name of the construct, and it does not *)
(* repeat an External attribute.                                             *)
Alone(i) ==
  /\ \A j \in DOMAIN ast :
       ast[j].kind = ast[i].kind /\ fix_type_name(ast[j].name) = fix_type_name(ast[i].name) => j = i
  /\ fix_type_name(ast[i].name) \notin array_types
  /\ IsInjective(ast[i].externalTypes)

(* In the end every type that a callback, dictionary or interface uses,      *)
(* directly or through typedefs, and the element of every array, is in       *)
(* exactly one of the two lists of the user and only once: in externalTypes  *)
(* if someone declared it external and it is not part of this compilation,   *)
(* whoever declared it and whichever came first, and in non_intrinsic_types  *)
(* otherwise; the list decides how the header is included.  An argument's    *)
(* name must not be a reserved word (AugmentedAST.js:2735, :989).            *)
EveryTypeHasOneHome ==
  pc = "done" =>
    /\ \A i \in DOMAIN ast :
         ast[i].kind \in Walked /\ Alone(i) =>
           \A e \in Range(ast[i].types) :
             LET name == Reaches(fix_type(typename(e)))
             IN  name \notin Intrinsic /\ Listed(e) = fix_type(typename(e)) =>
                   IsAtHome(headers[ast[i].kind][fix_type_name(ast[i].name)], name)
    /\ \A array \in array_types :
         LET name == Reaches(fix_type(element(array)))
         IN  name \notin Intrinsic => IsAtHome(headers["dictionary"][array], name)
=============================================================================

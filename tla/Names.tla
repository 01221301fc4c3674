-------------------------------- MODULE Names --------------------------------
(* The name space of a compilation in AugmentedAST.js: record_typedefs and   *)
(* fix_names, which refuse reserved words; the add... functions, which store *)
(* each construct under its C name (fix_names_and_types appends underscores  *)
(* until a name is free); and report_reused_names, which refuses a file with *)
(* repeated names.  Module TypeTables adds what augment does with the types. *)
(*                                                                           *)
(* A name is the sequence of its pieces, so that <<"int", "_">> is what      *)
(* becomes of <<"int">>, and is also a name a file can use.                  *)
EXTENDS Naturals, Sequences, FiniteSets, SequencesExt

CONSTANTS
  Inputs,                    \* sets of .idl files, with two options
  C_reserved_words,
  C_reserved_type_words,
  WebIDL_reserved_words,
  Javascript_reserved_words

Kinds == {"callback", "dictionary", "interface", "enum"}

(* The pieces that are not letters of a word.                                *)
underscore == "_"
blank == " "
plus == "+"

IsList(s) == s \in Seq(Range(s))

IsListOfNames(list) == IsList(list) /\ \A name \in Range(list) : IsList(name)

(* No word is another one with underscores, or the name of an array.         *)
ASSUME WordsAssumption ==
  /\ IsFiniteSet(C_reserved_words) /\ IsFiniteSet(C_reserved_type_words)
  /\ \A word \in UNION {C_reserved_words, C_reserved_type_words, WebIDL_reserved_words,
                        Javascript_reserved_words} :
       IsList(word) /\ word # <<>> /\ Last(word) \notin {underscore, "_array"}

(* What the parser makes of a file.  Only the values of an enum have blanks  *)
(* and operators in them, only interfaces have operations.                   *)
ASSUME InputsAssumption ==
  \A files \in Inputs : \A file \in files :
    /\ IsList(file.ast)
    /\ \A thing \in Range(file.ast) :
         /\ thing.kind \in Kinds \union {"typedef"}
         /\ IsList(thing.name) /\ thing.name # <<>>
         /\ Range(thing.name) \intersect {blank, plus} = {}
         /\ IsListOfNames(thing.names)
         /\ IsList(thing.operations)
         /\ \A operation \in Range(thing.operations) :
              IsList(operation.name) /\ IsListOfNames(operation.arguments)
         /\ thing.kind # "interface" => thing.operations = <<>>

VARIABLES
  input,
  pc,                    \* what augment is doing
  next,                  \* the construct that is checked or added next
  local_reserved_words,  \* the names of all constructs
  typedefs,              \* from C names to positions in the file
  tables,                \* callbacks, dictionaries, interfaces and enums:
                         \* from C names to what is stored there
  construct_names_seen,  \* how often each name was recorded for each kind
  error_messages,
  error                  \* why the file was refused

names_vars == <<input, pc, next, local_reserved_words, typedefs, tables,
          construct_names_seen, error_messages, error>>

ast == input.ast
this_thing == ast[next]

NamesInit ==
  /\ \E files \in Inputs : input \in files
  /\ pc = "typedefs" /\ next = 1
  /\ local_reserved_words = {}
  /\ typedefs = <<>>
  /\ tables = [kind \in Kinds |-> <<>>]
  /\ construct_names_seen = <<>>
  /\ error_messages = {} /\ error = "none"

Throw(what) == pc' = "refused" /\ error' = what

-----------------------------------------------------------------------------
(* The names of variables must also differ from those of the constructs.     *)
Longer(name, n) == name \o [k \in 1..n |-> underscore]

Free(name, words) ==
  LET enough == CHOOSE n \in 0..Cardinality(words) :
                  /\ Longer(name, n) \notin words
                  /\ \A m \in 0..(n - 1) : Longer(name, m) \in words
  IN  Longer(name, enough)

CWordsAndTypes == C_reserved_words \union C_reserved_type_words

fix_type_name(name) == Free(name, CWordsAndTypes)

(* A type that is used may be a C type. *)
fix_type(name) == Free(name, C_reserved_words)

(* Wrong: the names of the constructs are not avoided... *)
fix_name_alone(name) == Free(name, CWordsAndTypes)

fix_name(name) == Free(name, CWordsAndTypes \union local_reserved_words)

fixed(names) == [k \in DOMAIN names |-> fix_name(names[k])]

(* Each value of an enum gets the enum's name in front of it, unless enums   *)
(* are left alone, and blanks and operators are spelled out.                 *)
expand_enums(thing, value) ==
  IF input.leave_enums_alone THEN value ELSE thing.name \o <<underscore>> \o value

(* The blank stands for one or more, the plus for four operators.            *)
fix_enum(value) ==
  fix_name(FlattenSeq([k \in DOMAIN value |->
                         CASE value[k] = blank -> <<underscore>>
                           [] value[k] = plus  -> <<underscore, "plus">>
                           [] OTHER           -> <<value[k]>>]))

-----------------------------------------------------------------------------
record_typedefs ==
  /\ pc = "typedefs"
  /\ LET Declared == {i \in DOMAIN ast : ast[i].kind = "typedef"}
         here(n)  == {i \in Declared : fix_type_name(ast[i].name) = n}
     IN  typedefs' = [n \in {fix_type_name(ast[i].name) : i \in Declared} |->
                        CHOOSE i \in here(n) : \A j \in here(n) : j <= i]
  /\ pc' = "checking"
  /\ UNCHANGED <<input, next, local_reserved_words, tables, construct_names_seen,
                 error_messages, error>>

(* Modules and callbacks are not called by their names in JavaScript, and    *)
(* enums do not exist there; the names in External attributes neither.       *)
is_disallowed(thing) ==
  \/ ({thing.name} \union Range(thing.externalTypes)) \intersect WebIDL_reserved_words # {}
  \/ /\ \/ thing.kind \in {"dictionary", "typedef"}
        \/ thing.kind = "interface" /\ ~thing.is_module
     /\ thing.name \in Javascript_reserved_words

fix_names ==
  /\ pc = "checking"
  /\ IF \E i \in DOMAIN ast : is_disallowed(ast[i])
     THEN Throw("reserved") /\ UNCHANGED local_reserved_words
     ELSE /\ local_reserved_words' = {ast[i].name : i \in DOMAIN ast}
          /\ pc' = "adding" /\ UNCHANGED error
  /\ UNCHANGED <<input, next, typedefs, tables, construct_names_seen, error_messages>>

Tallied(seen, name, kind) ==
  [n \in DOMAIN seen \union {name} |->
     LET before == IF n \in DOMAIN seen THEN seen[n] ELSE [k \in Kinds |-> 0]
     IN  IF n = name THEN [before EXCEPT ![kind] = @ + 1] ELSE before]

(* Wrong: a name is recorded the first time only. *)
record_name_once(name, kind) ==
  construct_names_seen' = IF name \in DOMAIN construct_names_seen THEN construct_names_seen
                          ELSE Tallied(construct_names_seen, name, kind)

record_name(name, kind) ==
  construct_names_seen' = Tallied(construct_names_seen, name, kind)

(* Whatever was stored under the same name is replaced.                      *)
StoreUnder(key, kind, stored) ==
  tables' = [tables EXCEPT ![kind] =
               [n \in DOMAIN @ \union {key} |-> IF n = key THEN stored ELSE @[n]]]

Store(kind, stored) == StoreUnder(fix_type_name(this_thing.name), kind, stored)

(* What the templates and report_reused_names read: the names of the file,   *)
(* and how they are spelled in C.                                            *)
Stored(names, C_names, operations) ==
  [names |-> names, C_names |-> C_names, operations |-> operations]

Adding(kind) == pc = "adding" /\ next <= Len(ast) /\ this_thing.kind = kind

Added(kind) ==
  /\ record_name(this_thing.name, kind)
  /\ next' = next + 1
  /\ UNCHANGED <<input, pc, local_reserved_words, typedefs, error_messages, error>>

(* A construct is recorded before it is looked at.                           *)
Refuse(kind, what) ==
  /\ Throw(what)
  /\ record_name(this_thing.name, kind)
  /\ UNCHANGED <<input, next, local_reserved_words, typedefs, error_messages>>

(* A dictionary's members keep their names next to their C names.            *)
addDictionary ==
  /\ Adding("dictionary")
  /\ Store("dictionary", Stored(this_thing.names, fixed(this_thing.names), <<>>))
  /\ Added("dictionary")

(* The arguments of calls are renamed where they stand.                      *)
addCallback ==
  /\ Adding("callback")
  /\ LET arguments == fixed(this_thing.names)
     IN  Store("callback", Stored(arguments, arguments, <<>>))
  /\ Added("callback")

addEnum ==
  /\ Adding("enum")
  /\ this_thing.names # <<>>
  /\ Store("enum", Stored(this_thing.names,
                          [k \in DOMAIN this_thing.names |->
                             fix_enum(expand_enums(this_thing, this_thing.names[k]))], <<>>))
  /\ Added("enum")

addEmptyEnum ==
  /\ Adding("enum")
  /\ this_thing.names = <<>>
  /\ StoreUnder(this_thing.name, "enum", Stored(<<>>, <<>>, <<>>))
  /\ Refuse("enum", "no_values")

(* Attributes are renamed, operations are not, but for their arguments. The  *)
(* constructors come last, as operations called Constructor_0 and so on.     *)
Untyped == \E k \in DOMAIN this_thing.operations : ~this_thing.operations[k].typed

addInterface ==
  /\ Adding("interface")
  /\ input.fix_type_errors \/ ~Untyped
  /\ LET attributes == fixed(this_thing.names)
         operations == [k \in DOMAIN this_thing.operations |->
                          [name |-> this_thing.operations[k].name,
                           arguments |-> fixed(this_thing.operations[k].arguments)]]
     IN  Store("interface", Stored(attributes, attributes, operations))
  /\ Added("interface")

addUntypedInterface ==
  /\ Adding("interface")
  /\ ~input.fix_type_errors /\ Untyped
  /\ Refuse("interface", "no_return_type")
  /\ UNCHANGED tables

skipTypedef ==
  /\ Adding("typedef")
  /\ next' = next + 1
  /\ UNCHANGED <<input, pc, local_reserved_words, typedefs, tables,
                 construct_names_seen, error_messages, error>>

-----------------------------------------------------------------------------
find_duplicates_in_named_list(names) ==
  LET occurences(name) == Cardinality({k \in DOMAIN names : names[k] = name})
  IN  {[name |-> n, occurences |-> occurences(n)] :
         n \in {n \in Range(names) : occurences(n) > 1}}

report_duplicates(duplicates, scope) ==
  {[scope |-> scope, name |-> d.name, occurences |-> d.occurences] : d \in duplicates}

OperationNames(stored) == [k \in DOMAIN stored.operations |-> stored.operations[k].name]

DuplicateMembers ==
  UNION {UNION {report_duplicates(
                  find_duplicates_in_named_list(tables[kind][n].names
                                                  \o OperationNames(tables[kind][n])),
                  <<kind, n>>) : n \in DOMAIN tables[kind]} : kind \in Kinds}

DuplicateArguments ==
  UNION {UNION {report_duplicates(
                  find_duplicates_in_named_list(tables["interface"][n].operations[k].arguments),
                  <<"operation", n, k>>) :
                k \in DOMAIN tables["interface"][n].operations} :
         n \in DOMAIN tables["interface"]}

total_occurences(name) ==
  LET used_in == construct_names_seen[name]
  IN  used_in["callback"] + used_in["dictionary"] + used_in["interface"] + used_in["enum"]

DuplicateConstructs ==
  {[scope |-> <<"construct">>, name |-> n, occurences |-> total_occurences(n)] :
     n \in {n \in DOMAIN construct_names_seen : total_occurences(n) > 1}}

report_reused_names ==
  /\ pc = "adding" /\ next > Len(ast)
  /\ error_messages' = DuplicateMembers \union DuplicateArguments \union DuplicateConstructs
  /\ IF error_messages' = {} THEN pc' = "accepted" /\ UNCHANGED error
                             ELSE Throw("duplicate_names")
  /\ UNCHANGED <<input, next, local_reserved_words, typedefs, tables, construct_names_seen>>

-----------------------------------------------------------------------------
(* Lists of a construct of the file whose names must differ.                 *)
Scopes(thing) ==
  {thing.names, OperationNames(thing)}
    \union {thing.operations[k].arguments : k \in DOMAIN thing.operations}

(* An attribute that is called like an operation and keeps its name.         *)
SharesItsName(thing) ==
  \E name \in Range(thing.names) \intersect Range(OperationNames(thing)) : fix_name(name) = name

Constructs == {i \in DOMAIN ast : ast[i].kind # "typedef"}

(* No name of the file looks like a renamed one.                             *)
Plain ==
  \A i \in DOMAIN ast : \A list \in Scopes(ast[i]) \union {<<ast[i].name>>} :
    \A name \in Range(list) :
      /\ Range(name) \intersect {underscore, "plus"} = {}
      /\ name # <<>> => Last(name) # blank

(* Every name that was seen was recorded at least once, and only after all  *)
(* names were looked at.                                                     *)
NamesTypeOK ==
  /\ next \in 1..(Len(ast) + 1)
  /\ local_reserved_words \subseteq {ast[i].name : i \in DOMAIN ast}
  /\ \A n \in DOMAIN typedefs : ast[typedefs[n]].kind = "typedef"
  /\ DOMAIN tables = Kinds
  /\ \A n \in DOMAIN construct_names_seen :
       total_occurences(n) \in 1..Len(ast) /\ n \in local_reserved_words

(* If no name of the file ends like a renamed one, the report is exact: the  *)
(* file is refused for duplicates only if it repeats a name in some scope,   *)
(* accepted only if it repeats none, and every repeated construct is named   *)
(* with the number of its declarations of all kinds, although declarations   *)
(* of one kind replace each other in their table (AugmentedAST.js:2010).  An *)
(* attribute that was renamed is not taken for a repeated operation.         *)
RepeatsAreReported ==
  Plain =>
    LET count(n) == Cardinality({i \in Constructs : ast[i].name = n})
        repeats  == \E i \in Constructs :
                      \/ count(ast[i].name) > 1
                      \/ \E list \in Scopes(ast[i]) : ~IsInjective(list)
                      \/ SharesItsName(ast[i])
    IN  /\ error = "duplicate_names" => repeats
        /\ pc = "accepted" => ~repeats
        /\ error = "duplicate_names" =>
             \A i \in Constructs :
               count(ast[i].name) > 1 =>
                 [scope |-> <<"construct">>, name |-> ast[i].name,
                  occurences |-> count(ast[i].name)] \in error_messages

(* In an accepted file without such names the C code has no clash that the   *)
(* renaming made: constructs, the fields of a struct, the arguments of a     *)
(* function and, when each carries its enum's name, all enumerators differ,  *)
(* and no field, argument or enumerator is spelled like a C word or like a   *)
(* construct that kept its name (fix_name, AugmentedAST.js:1165).            *)
CNamesAreDistinct ==
  LET things   == UNION {{<<kind, n>> : n \in DOMAIN tables[kind]} : kind \in Kinds}
      at(t)    == tables[t[1]][t[2]]
      lists(t) == {at(t).C_names}
                    \union {at(t).operations[k].arguments : k \in DOMAIN at(t).operations}
      kept     == {ast[i].name : i \in DOMAIN ast} \ CWordsAndTypes
  IN  Plain /\ pc = "accepted" =>
        /\ Cardinality(things) = Cardinality(Constructs)
        /\ Cardinality({t[2] : t \in things}) = Cardinality(things)
        /\ \A t \in things : \A list \in lists(t) :
             IsInjective(list) /\ Range(list) \intersect (CWordsAndTypes \union kept) = {}
        /\ ~input.leave_enums_alone =>
             \A n, m \in DOMAIN tables["enum"] :
               n # m => Range(tables["enum"][n].C_names)
                          \intersect Range(tables["enum"][m].C_names) = {}
=============================================================================

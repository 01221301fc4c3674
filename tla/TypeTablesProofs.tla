-------------------------- MODULE TypeTablesProofs --------------------------
(***************************************************************************)
(* Proofs about TypeTables, for every set of files and of reserved words:  *)
(* each typedef is resolved to the end of its chain and every type has one *)
(* home in the headers, a repeated name is always reported, and no two     *)
(* things of an accepted file share a C name.  In the order of the module: *)
(*                                                                         *)
(*  - lists, names, counting;                                              *)
(*  - where augment stands and what it has counted (Progress, SeenInv),    *)
(*    and the typedefs it has recorded (TypedefsInv);                      *)
(*  - walks along the typedefs, and the calls of find_ultimate_typename    *)
(*    (ResolutionInv), which with the above make Core;                     *)
(*  - what was recorded of the constructs looked at (RecordedInv), what    *)
(*    they have in the tables (KeysInv), what the check of the type names  *)
(*    found (CheckedInv), and what the two walks that follow make of the   *)
(*    headers (HeadersInv);                                                *)
(*  - the tables and the report of the repeated names (TablesInv and       *)
(*    ReportInv), with Core and KeysInv: NamingInv;                        *)
(*  - enumerators, and the C names of an accepted file.                    *)
(***************************************************************************)
EXTENDS TypeTables, SequenceFacts

----------------------------------------------------------------------------
(* Lists and names. *)
LEMMA ListFacts ==
  ASSUME NEW s, IsList(s)
  PROVE  /\ s \in Seq(Range(s))
         /\ Range(s) = ToSet(s)
         /\ Len(s) \in Nat
         /\ DOMAIN s = 1 .. Len(s)
         /\ \A e : e \in Range(s) <=> \E i \in 1 .. Len(s) : s[i] = e
         /\ \A i \in 1 .. Len(s) : s[i] \in Range(s)
<1>1. s \in Seq(Range(s))
  BY DEF IsList
<1>2. Range(s) = ToSet(s)
  BY DEF Range, ToSet
<1>. QED BY <1>1, <1>2, Members

LEMMA IsListOf ==
  ASSUME NEW A, NEW s \in Seq(A)
  PROVE  IsList(s) /\ Range(s) = ToSet(s) /\ Range(s) \subseteq A
<1>1. /\ Len(s) \in Nat /\ DOMAIN s = 1 .. Len(s) /\ ToSet(s) \subseteq A
      /\ \A i \in 1 .. Len(s) : s[i] \in ToSet(s)
  BY Members
<1>2. Range(s) = ToSet(s)
  BY DEF Range, ToSet
<1>3. s \in [1 .. Len(s) -> ToSet(s)]
  BY <1>1
<1>4. s \in Seq(ToSet(s))
  BY <1>1, <1>3, TupleIsSeq
<1>. QED BY <1>1, <1>2, <1>4 DEF IsList

LEMMA Widened ==
  ASSUME NEW A, NEW B, A \subseteq B, NEW s \in Seq(A)
  PROVE  s \in Seq(B)
<1>1. Len(s) \in Nat /\ DOMAIN s = 1 .. Len(s) /\ \A i \in 1 .. Len(s) : s[i] \in A
  BY Members
<1>2. s \in [1 .. Len(s) -> B]
  BY <1>1
<1>. QED BY <1>1, <1>2, TupleIsSeq

LEMMA SameLists ==
  ASSUME NEW A, NEW s \in Seq(A), NEW B, NEW t \in Seq(B), Len(s) = Len(t),
         \A i \in 1 .. Len(s) : s[i] = t[i]
  PROVE  s = t
<1>1. DOMAIN s = 1 .. Len(s) /\ DOMAIN t = 1 .. Len(t) /\ s = [i \in DOMAIN s |-> s[i]]
      /\ t = [i \in DOMAIN t |-> t[i]]
  BY Members
<1>. QED BY <1>1

(* A name and so many times a piece. *)
Padded(name, n, piece) == name \o [k \in 1 .. n |-> piece]

LEMMA PaddedFacts ==
  ASSUME NEW name, IsList(name), NEW n \in Nat, NEW piece
  PROVE  /\ IsList(Padded(name, n, piece))
         /\ Len(Padded(name, n, piece)) = Len(name) + n
         /\ \A i \in 1 .. Len(name) : Padded(name, n, piece)[i] = name[i]
         /\ \A i \in Len(name) + 1 .. Len(name) + n : Padded(name, n, piece)[i] = piece
         /\ n = 0 => Padded(name, n, piece) = name
<1>. DEFINE A == Range(name) \cup {piece}
            tail == [k \in 1 .. n |-> piece]
<1>. DEFINE l == Len(name)
<1>0. l \in Nat
  BY ListFacts
<1>1. name \in Seq(A)
  BY ListFacts, Widened
<1>2. tail \in Seq(A) /\ Len(tail) = n
  <2>1. tail \in [1 .. n -> A]
    OBVIOUS
  <2>. QED BY <2>1, TupleIsSeq
<1>3. /\ name \o tail \in Seq(A)
      /\ Len(name \o tail) = Len(name) + n
      /\ \A i \in 1 .. Len(name) + n : (name \o tail)[i] = IF i <= Len(name) THEN name[i]
                                                          ELSE tail[i - Len(name)]
  BY <1>1, <1>2, ConcatProperties
<1>4. Padded(name, n, piece) = name \o tail
  BY DEF Padded
<1>7. \A k \in 1 .. n : tail[k] = piece
  OBVIOUS
<1>. HIDE DEF tail, A, l
<1>5. \A i \in 1 .. l : i \in 1 .. l + n /\ i <= l
  BY <1>0
<1>6. \A i \in l + 1 .. l + n : i \in 1 .. l + n /\ ~ (i <= l) /\ i - l \in 1 .. n
  BY <1>0
<1>8. \A i \in 1 .. l : Padded(name, n, piece)[i] = name[i]
  BY <1>3, <1>4, <1>5 DEF l
<1>9. \A i \in l + 1 .. l + n : Padded(name, n, piece)[i] = piece
  BY <1>3, <1>4, <1>6, <1>7 DEF l
<1>10. IsList(Padded(name, n, piece)) /\ Len(Padded(name, n, piece)) = l + n
  BY <1>3, <1>4, IsListOf DEF l
<1>11. n = 0 => Padded(name, n, piece) = name
  <2>. SUFFICES ASSUME n = 0 PROVE Padded(name, n, piece) = name
    OBVIOUS
  <2>1. Len(Padded(name, n, piece)) = Len(name) /\ Padded(name, n, piece) \in Seq(A)
    BY <1>0, <1>3, <1>4, <1>10 DEF l
  <2>2. \A i \in 1 .. Len(Padded(name, n, piece)) : Padded(name, n, piece)[i] = name[i]
    BY <1>8, <2>1 DEF l
  <2>. QED BY <1>1, <2>1, <2>2, SameLists
<1>. QED BY <1>8, <1>9, <1>10, <1>11 DEF l

LEMMA LongerFacts ==
  ASSUME NEW name, IsList(name), NEW n \in Nat
  PROVE  /\ IsList(Longer(name, n))
         /\ Len(Longer(name, n)) = Len(name) + n
         /\ \A i \in 1 .. Len(name) : Longer(name, n)[i] = name[i]
         /\ \A i \in Len(name) + 1 .. Len(name) + n : Longer(name, n)[i] = underscore
         /\ n = 0 => Longer(name, n) = name
<1>1. Longer(name, n) = Padded(name, n, underscore)
  BY DEF Longer, Padded
<1>. QED BY <1>1, PaddedFacts

LEMMA ArrayOfFacts ==
  ASSUME NEW name, IsList(name), NEW n \in Nat
  PROVE  /\ IsList(array_of(name, n))
         /\ Len(array_of(name, n)) = Len(name) + n
         /\ \A i \in 1 .. Len(name) : array_of(name, n)[i] = name[i]
         /\ \A i \in Len(name) + 1 .. Len(name) + n : array_of(name, n)[i] = "_array"
         /\ n = 0 => array_of(name, n) = name
<1>1. array_of(name, n) = Padded(name, n, "_array")
  BY DEF array_of, Padded
<1>. QED BY <1>1, PaddedFacts

(* There is a free name: each number of underscores makes another one. *)
LEMMA FreeFacts ==
  ASSUME NEW name, IsList(name), NEW words, IsFiniteSet(words)
  PROVE  \E n \in Nat : /\ Free(name, words) = Longer(name, n)
                        /\ Longer(name, n) \notin words
                        /\ name \notin words => n = 0
<1>. DEFINE c == Cardinality(words)
            T == {n \in 0 .. c : Longer(name, n) \notin words}
            f == [n \in 0 .. c |-> Longer(name, n)]
            Enough(n) == /\ Longer(name, n) \notin words
                         /\ \A m \in 0 .. (n - 1) : Longer(name, m) \in words
<1>1. c \in Nat
  BY FS_CardinalityType
<1>2. T # {}
  <2>. SUFFICES ASSUME T = {} PROVE FALSE
    OBVIOUS
  <2>1. f \in [0 .. c -> words]
    OBVIOUS
  <2>. DEFINE N == 0 .. c
  <2>2. IsFiniteSet(N) /\ Cardinality(words) < Cardinality(N)
    BY <1>1, FS_Interval
  <2>3. \E n, m \in N : n # m /\ f[n] = f[m]
    <3>1. f \in [N -> words]
      BY <2>1
    <3>. HIDE DEF f, N
    <3>. QED BY <2>2, <3>1, FS_PigeonHole
  <2>4. PICK n \in Nat, m \in Nat : n # m /\ Longer(name, n) = Longer(name, m)
    BY <1>1, <2>3
  <2>5. Len(name) + n = Len(name) + m /\ Len(name) \in Nat
    <3>1. Len(Longer(name, n)) = Len(name) + n /\ Len(Longer(name, m)) = Len(name) + m
      BY LongerFacts
    <3>. QED BY <2>4, <3>1, ListFacts
  <2>. QED BY <2>4, <2>5
<1>3. T \subseteq Nat
  BY <1>1
<1>4. PICK least \in T : \A n \in T : least <= n
  <2>. HIDE DEF T
  <2>. QED BY <1>2, <1>3, LeastNumber
<1>5. least \in 0 .. c /\ Enough(least)
  <2>1. ASSUME NEW m \in 0 .. (least - 1) PROVE Longer(name, m) \in words
    <3>1. least \in Nat /\ m \in 0 .. c /\ ~ (least <= m)
      BY <1>1
    <3>. QED BY <1>4, <3>1
  <2>. QED BY <2>1
<1>. DEFINE enough == CHOOSE n \in 0 .. c : Enough(n)
<1>6. enough \in 0 .. c /\ Enough(enough)
  <2>. HIDE DEF Enough, c, T
  <2>. QED BY <1>5
<1>7. Free(name, words) = Longer(name, enough)
  BY DEF Free
<1>8. enough \in Nat
  BY <1>1, <1>6
<1>9. name \notin words => enough = 0
  <2>. SUFFICES ASSUME name \notin words, enough # 0 PROVE FALSE
    OBVIOUS
  <2>1. 0 \in 0 .. (enough - 1)
    BY <1>8
  <2>2. Longer(name, 0) \in words
    <3>. HIDE DEF enough
    <3>. QED BY <1>6, <2>1
  <2>. QED BY <2>2, LongerFacts
<1>. HIDE DEF enough
<1>. QED BY <1>6, <1>7, <1>8, <1>9

(* Two names without underscores stay different. *)
LEMMA LongerIsInjective ==
  ASSUME NEW a, IsList(a), NEW b, IsList(b), underscore \notin Range(a), underscore \notin Range(b),
         NEW n \in Nat, NEW m \in Nat, Longer(a, n) = Longer(b, m)
  PROVE  a = b /\ n = m
<1>. DEFINE Shorter(s, i, t, j) ==
              Len(s) >= Len(t) /\ (Len(s) = Len(t) => s = t /\ i = j)
<1>1. ASSUME NEW s, IsList(s), underscore \notin Range(s), NEW t, IsList(t), underscore \notin Range(t),
             NEW i \in Nat, NEW j \in Nat, Longer(s, i) = Longer(t, j)
      PROVE  Shorter(s, i, t, j)
  <2>. DEFINE k == Len(s)
              l == Len(t)
              both == Longer(s, i)
  <2>1. k \in Nat /\ l \in Nat
    BY <1>1, ListFacts
  <2>2. s \in Seq(Range(s)) /\ t \in Seq(Range(t)) /\ \A m_ \in 1 .. l : t[m_] \in Range(t)
    BY <1>1, ListFacts
  <2>3. /\ Len(both) = k + i
        /\ \A m_ \in 1 .. k : both[m_] = s[m_]
        /\ \A m_ \in k + 1 .. k + i : both[m_] = underscore
    BY <1>1, LongerFacts
  <2>4. Len(both) = l + j /\ \A m_ \in 1 .. l : both[m_] = t[m_]
    <3>1. both = Longer(t, j)
      BY <1>1
    <3>2. /\ Len(Longer(t, j)) = l + j
          /\ \A m_ \in 1 .. l : Longer(t, j)[m_] = t[m_]
      BY <1>1, LongerFacts
    <3>. QED BY <3>1, <3>2
  <2>5. k + i = l + j
    BY <2>3, <2>4
  <2>6. k >= l
    <3>. SUFFICES ASSUME k < l PROVE FALSE
      BY <2>1
    <3>. HIDE DEF k, l, both
    <3>1. k + 1 \in 1 .. l /\ k + 1 \in k + 1 .. k + i
      BY <2>1, <2>5
    <3>2. t[k + 1] = underscore /\ t[k + 1] \in Range(t)
      BY <2>2, <2>3, <2>4, <3>1
    <3>. QED BY <1>1, <3>2
  <2>7. k = l => s = t /\ i = j
    <3>. SUFFICES ASSUME k = l PROVE s = t /\ i = j
      OBVIOUS
    <3>1. \A m_ \in 1 .. Len(s) : s[m_] = t[m_]
      BY <2>3, <2>4
    <3>2. i = j
      <4>. HIDE DEF k, l
      <4>. QED BY <2>1, <2>5
    <3>3. s = t
      BY <2>2, <3>1, SameLists
    <3>. QED BY <3>2, <3>3
  <2>. QED BY <2>6, <2>7
<1>2. Shorter(a, n, b, m) /\ Shorter(b, m, a, n)
  <2>. HIDE DEF Shorter
  <2>. QED BY <1>1
<1>3. Len(a) \in Nat /\ Len(b) \in Nat
  BY ListFacts
<1>. QED BY <1>2, <1>3

----------------------------------------------------------------------------
(* Where augment stands, and what it has counted. *)
Input == \E files \in Inputs : input \in files

Late == {"accepted", "arrays", "composites", "non_intrinsics", "externals", "done"}

Early == pc \in {"typedefs", "checking"} \/ error \in {"reserved", "Loop_in_typedefs"}

AllNames == {ast[i].name : i \in DOMAIN ast}

Progress ==
  /\ Input
  /\ pc \in {"typedefs", "checking", "adding", "refused"} \cup Late
  /\ error \in {"none", "reserved", "no_values", "no_return_type", "duplicate_names",
                "Loop_in_typedefs", "Unsupported_type"}
  /\ pc = "refused" <=> error # "none"
  /\ next \in 1 .. Len(ast) + 1
  /\ Early => /\ next = 1 /\ local_reserved_words = {} /\ construct_names_seen = << >>
              /\ tables = [kind \in Kinds |-> << >>]
  /\ ~ Early => local_reserved_words = AllNames
  /\ pc \in Late \/ error \in {"duplicate_names", "Unsupported_type"} => next = Len(ast) + 1
  /\ error \in {"no_values", "no_return_type"} =>
       next <= Len(ast) /\ ast[next].kind \in {"enum", "interface"}
  /\ DOMAIN tables = Kinds

(* What is counted after the first constructs were added. *)
NamedUpTo(n, last) == {i \in Constructs : i <= last /\ ast[i].name = n}

SeenUpTo(last) ==
  /\ DOMAIN construct_names_seen = {ast[i].name : i \in {j \in Constructs : j <= last}}
  /\ \A n \in DOMAIN construct_names_seen :
       /\ construct_names_seen[n] \in [Kinds -> Nat]
       /\ total_occurences(n) = Cardinality(NamedUpTo(n, last))

SeenInv ==
  SeenUpTo(IF error \in {"no_values", "no_return_type"} THEN next ELSE next - 1)

LEMMA SameInput ==
  ASSUME input' = input
  PROVE  ast' = ast /\ (Input => Input') /\ AllNames' = AllNames
BY DEF ast, Input, AllNames

LEMMA InputFacts ==
  ASSUME Input
  PROVE  /\ IsList(ast)
         /\ Len(ast) \in Nat
         /\ DOMAIN ast = 1 .. Len(ast)
         /\ \A i \in 1 .. Len(ast) : ast[i] \in Range(ast)
         /\ \A thing \in Range(ast) : \E i \in 1 .. Len(ast) : thing = ast[i]
         /\ \A thing \in Range(ast) :
              /\ thing.kind \in Kinds \cup {"typedef"}
              /\ IsList(thing.name) /\ thing.name # << >>
              /\ Range(thing.name) \cap {blank, plus} = {}
              /\ IsListOfNames(thing.names)
              /\ IsList(thing.operations)
              /\ \A operation \in Range(thing.operations) :
                   IsList(operation.name) /\ IsListOfNames(operation.arguments)
              /\ thing.kind # "interface" => thing.operations = << >>
              /\ IsList(thing.externalTypes)
              /\ IsList(thing.types)
              /\ \A e \in Range(thing.types) :
                   /\ e.depth \in Nat
                   /\ IsListOfNames(e.members) /\ e.members # << >>
                   /\ \A name \in Range(e.members) : name # NoType
              /\ thing.kind = "typedef" => Len(thing.types) = 1
              /\ thing.kind = "enum" => thing.types = << >>
<1>1. PICK files \in Inputs : input \in files
  BY DEF Input
<1>2. IsList(ast)
  BY <1>1, InputsAssumption DEF ast
<1>3. \A thing \in Range(ast) :
              /\ thing.kind \in Kinds \cup {"typedef"}
              /\ IsList(thing.name) /\ thing.name # << >>
              /\ Range(thing.name) \cap {blank, plus} = {}
              /\ IsListOfNames(thing.names)
              /\ IsList(thing.operations)
              /\ \A operation \in Range(thing.operations) :
                   IsList(operation.name) /\ IsListOfNames(operation.arguments)
              /\ thing.kind # "interface" => thing.operations = << >>
  BY <1>1, InputsAssumption, Zenon DEF ast
<1>4. \A thing \in Range(ast) :
              /\ IsList(thing.externalTypes)
              /\ IsList(thing.types)
              /\ \A e \in Range(thing.types) :
                   /\ e.depth \in Nat
                   /\ IsListOfNames(e.members) /\ e.members # << >>
                   /\ \A name \in Range(e.members) : name # NoType
              /\ thing.kind = "typedef" => Len(thing.types) = 1
              /\ thing.kind = "enum" => thing.types = << >>
  BY <1>1, TypesAssumption, Zenon DEF ast
<1>5. /\ Len(ast) \in Nat
      /\ DOMAIN ast = 1 .. Len(ast)
      /\ \A i \in 1 .. Len(ast) : ast[i] \in Range(ast)
      /\ \A thing \in Range(ast) : \E i \in 1 .. Len(ast) : thing = ast[i]
  BY <1>2, ListFacts
<1>. QED BY <1>2, <1>3, <1>4, <1>5

LEMMA KindOf ==
  ASSUME Input, NEW i \in 1 .. Len(ast)
  PROVE  ast[i].kind \in Kinds \cup {"typedef"} /\ (i \in Constructs <=> ast[i].kind # "typedef")
BY InputFacts DEF Constructs

LEMMA ProgressStart ==
  ASSUME Init
  PROVE  Progress /\ SeenInv
<1>1. Input /\ Len(ast) \in Nat
  BY InputFacts DEF Init, NamesInit, Input
<1>2. Progress
  BY <1>1 DEF Init, NamesInit, Progress, Early, Late
<1>3. DOMAIN construct_names_seen = {}
  <2>1. DOMAIN << >> = {}
    OBVIOUS
  <2>. QED BY <2>1 DEF Init, NamesInit
<1>4. {j \in Constructs : j <= 0} = {}
  BY <1>1, InputFacts DEF Constructs
<1>5. error = "none" /\ next - 1 = 0
  BY DEF Init, NamesInit
<1>. QED BY <1>2, <1>3, <1>4, <1>5 DEF SeenInv, SeenUpTo

(* The steps of augment as the names see them. *)
Adds(kind) == Adding(kind) /\ Added(kind) /\ DOMAIN tables' = DOMAIN tables

Refuses(kind, what) == Adding(kind) /\ Refuse(kind, what) /\ DOMAIN tables' = DOMAIN tables

LEMMA NamesSteps ==
  ASSUME [Next]_vars
  PROVE  \/ UNCHANGED names_vars
         \/ record_typedefs
         \/ fix_names
         \/ report_reused_names
         \/ skipTypedef
         \/ \E kind \in Kinds : Adds(kind)
         \/ Refuses("enum", "no_values") \/ Refuses("interface", "no_return_type")
         \/ /\ pc = "checking" /\ Throw("Loop_in_typedefs")
            /\ UNCHANGED <<input, next, local_reserved_words, typedefs, tables,
                           construct_names_seen, error_messages>>
         \/ /\ pc = "accepted" /\ Throw("Unsupported_type")
            /\ UNCHANGED <<input, next, local_reserved_words, typedefs, tables,
                           construct_names_seen, error_messages>>
         \/ /\ pc \in Late /\ pc' \in Late \ {"accepted"}
            /\ DOMAIN tables' = DOMAIN tables
            /\ UNCHANGED <<input, next, local_reserved_words, typedefs,
                           construct_names_seen, error_messages, error>>
<1>1. CASE UNCHANGED vars
  BY <1>1 DEF vars
<1>2. CASE RecordTypedefs
  BY <1>2 DEF RecordTypedefs
<1>3. CASE StartTypedef
  BY <1>3 DEF StartTypedef
<1>4. CASE ThrowLoop
  BY <1>4 DEF ThrowLoop, Resolving
<1>5. CASE FollowAlias
  BY <1>5 DEF FollowAlias
<1>6. CASE ReachRoot
  BY <1>6 DEF ReachRoot
<1>7. CASE Return
  BY <1>7 DEF Return
<1>8. CASE FixNames
  BY <1>8 DEF FixNames
<1>9. CASE AddThing
  <2>1. CASE addDictionary
    BY <2>1 DEF addDictionary, Adds, Store, StoreUnder, Kinds
  <2>2. CASE addCallback
    BY <2>2 DEF addCallback, Adds, Store, StoreUnder, Kinds
  <2>3. CASE addInterface
    BY <2>3 DEF addInterface, Adds, Store, StoreUnder, Kinds
  <2>. QED BY <1>9, <2>1, <2>2, <2>3 DEF AddThing
<1>10. CASE AddEnum
  BY <1>10 DEF AddEnum, addEnum, Adds, Store, StoreUnder, Kinds
<1>11. CASE AddNothing
  <2>1. CASE addEmptyEnum
    BY <2>1 DEF addEmptyEnum, Refuses, StoreUnder
  <2>2. CASE addUntypedInterface
    BY <2>2 DEF addUntypedInterface, Refuses
  <2>. QED BY <1>11, <2>1, <2>2 DEF AddNothing
<1>12. CASE ReportReusedNames
  BY <1>12 DEF ReportReusedNames
<1>13. CASE processTypeCheckQueue
  BY <1>13 DEF processTypeCheckQueue, Proceed, Late
<1>14. CASE UnsupportedType
  BY <1>14 DEF UnsupportedType, Proceed, Throw
<1>15. CASE convert_list_of_array_types_to_dictionaries
  BY <1>15 DEF convert_list_of_array_types_to_dictionaries, Proceed, Late
<1>16. CASE build_composite_types
  BY <1>16 DEF build_composite_types, Proceed, Late
<1>17. CASE fix_non_intrinsics_lists
  BY <1>17 DEF fix_non_intrinsics_lists, Proceed, Late
<1>18. CASE fix_externalTypes_lists
  BY <1>18 DEF fix_externalTypes_lists, Proceed, Late
<1>19. CASE Stop
  BY <1>19 DEF Stop, vars
<1>. QED
  BY <1>1, <1>2, <1>3, <1>4, <1>5, <1>6, <1>7, <1>8, <1>9, <1>10, <1>11, <1>12, <1>13, <1>14,
     <1>15, <1>16, <1>17, <1>18, <1>19, Zenon DEF Next

LEMMA ProgressStep ==
  ASSUME Progress, [Next]_vars
  PROVE  Progress' /\ input' = input
<1>1. input' = input
  BY NamesSteps, Zenon
     DEF names_vars, record_typedefs, fix_names, report_reused_names, skipTypedef, Adds, Refuses,
         Added, Refuse
<1>2. Len(ast) \in Nat /\ DOMAIN ast = 1 .. Len(ast) /\ ast' = ast /\ Input' /\ AllNames' = AllNames
  <2>1. Input
    BY DEF Progress
  <2>2. Len(ast) \in Nat /\ DOMAIN ast = 1 .. Len(ast)
    BY <2>1, InputFacts
  <2>. QED BY <1>1, <2>1, <2>2, SameInput
<1>3. next \in Nat
  <2>1. next \in 1 .. Len(ast) + 1
    BY DEF Progress
  <2>. QED BY <1>2, <2>1
<1>. USE <1>1, <1>2, <1>3
<1>4. CASE UNCHANGED names_vars
  BY <1>4 DEF names_vars, Progress, Early
<1>5. CASE record_typedefs
  BY <1>5 DEF record_typedefs, Progress, Early, Late
<1>6. CASE fix_names
  BY <1>6 DEF fix_names, Throw, Progress, Early, Late, AllNames
<1>7. CASE report_reused_names
  <2>1. next = Len(ast) + 1 /\ error = "none" /\ local_reserved_words = AllNames
    BY <1>7 DEF report_reused_names, Progress, Early
  <2>. QED BY <1>7, <2>1 DEF report_reused_names, Throw, Progress, Early, Late
<1>8. CASE skipTypedef
  BY <1>8 DEF skipTypedef, Adding, Progress, Early, Late
<1>9. ASSUME NEW kind \in Kinds, Adds(kind) PROVE Progress'
  BY <1>9 DEF Adds, Adding, Added, Progress, Early, Late
<1>10. ASSUME NEW kind \in {"enum", "interface"}, NEW what \in {"no_values", "no_return_type"},
              Refuses(kind, what)
       PROVE  Progress'
  BY <1>10 DEF Refuses, Adding, Refuse, Throw, this_thing, Progress, Early, Late
<1>11. CASE /\ pc = "checking" /\ Throw("Loop_in_typedefs")
            /\ UNCHANGED <<input, next, local_reserved_words, typedefs, tables,
                           construct_names_seen, error_messages>>
  BY <1>11 DEF Throw, Progress, Early, Late
<1>12. CASE /\ pc = "accepted" /\ Throw("Unsupported_type")
            /\ UNCHANGED <<input, next, local_reserved_words, typedefs, tables,
                           construct_names_seen, error_messages>>
  BY <1>12 DEF Throw, Progress, Early, Late
<1>13. CASE /\ pc \in Late /\ pc' \in Late \ {"accepted"}
            /\ DOMAIN tables' = DOMAIN tables
            /\ UNCHANGED <<input, next, local_reserved_words, typedefs,
                           construct_names_seen, error_messages, error>>
  BY <1>13 DEF Progress, Early, Late
<1>. QED
  BY NamesSteps, <1>4, <1>5, <1>6, <1>7, <1>8, <1>9, <1>10, <1>11, <1>12, <1>13

LEMMA UpToNext ==
  ASSUME Input, NEW u \in 1 .. Len(ast)
  PROVE  /\ \A n : IsFiniteSet(NamedUpTo(n, u - 1)) /\ u \notin NamedUpTo(n, u - 1)
         /\ u \in Constructs =>
              /\ {j \in Constructs : j <= u} = {j \in Constructs : j <= u - 1} \cup {u}
              /\ \A n : NamedUpTo(n, u) = IF ast[u].name = n THEN NamedUpTo(n, u - 1) \cup {u}
                                          ELSE NamedUpTo(n, u - 1)
         /\ u \notin Constructs =>
              /\ {j \in Constructs : j <= u} = {j \in Constructs : j <= u - 1}
              /\ \A n : NamedUpTo(n, u) = NamedUpTo(n, u - 1)
<1>1. Len(ast) \in Nat /\ Constructs \subseteq 1 .. Len(ast)
  BY InputFacts DEF Constructs
<1>2. u \in Nat /\ \A j \in 1 .. Len(ast) : j <= u <=> (j <= u - 1 \/ j = u)
  BY <1>1
<1>3. ASSUME NEW n PROVE IsFiniteSet(NamedUpTo(n, u - 1)) /\ u \notin NamedUpTo(n, u - 1)
  <2>1. NamedUpTo(n, u - 1) \in SUBSET (1 .. Len(ast))
    BY <1>1 DEF NamedUpTo
  <2>3. ~ (u <= u - 1)
    BY <1>2
  <2>4. u \notin NamedUpTo(n, u - 1)
    BY <2>3 DEF NamedUpTo
  <2>2. IsFiniteSet(1 .. Len(ast))
    BY <1>1, FS_Interval
  <2>. QED BY <2>1, <2>2, <2>4, FS_Subset
<1>4. u \in Constructs =>
         /\ {j \in Constructs : j <= u} = {j \in Constructs : j <= u - 1} \cup {u}
         /\ \A n : NamedUpTo(n, u) = IF ast[u].name = n THEN NamedUpTo(n, u - 1) \cup {u}
                                     ELSE NamedUpTo(n, u - 1)
  BY <1>1, <1>2 DEF NamedUpTo
<1>5. u \notin Constructs =>
         /\ {j \in Constructs : j <= u} = {j \in Constructs : j <= u - 1}
         /\ \A n : NamedUpTo(n, u) = NamedUpTo(n, u - 1)
  BY <1>1, <1>2 DEF NamedUpTo
<1>. QED BY <1>3, <1>4, <1>5

(* One more construct is counted. *)
LEMMA Tally ==
  ASSUME Input, NEW u \in 1 .. Len(ast), NEW kind \in Kinds, ast[u].kind = kind,
         SeenUpTo(u - 1), input' = input,
         construct_names_seen' = Tallied(construct_names_seen, ast[u].name, kind)
  PROVE  SeenUpTo(u)'
<1>. DEFINE name == ast[u].name
            seen == construct_names_seen
            before == IF name \in DOMAIN seen THEN seen[name] ELSE [k \in Kinds |-> 0]
            Sum(f) == f["callback"] + f["dictionary"] + f["interface"] + f["enum"]
<1>1. u \in Constructs
  BY KindOf DEF Kinds
<1>2. /\ DOMAIN construct_names_seen' = DOMAIN seen \cup {name}
      /\ construct_names_seen'[name] = [before EXCEPT ![kind] = @ + 1]
      /\ \A n \in DOMAIN seen : n # name => construct_names_seen'[n] = seen[n]
  BY DEF Tallied
<1>3. \A n : total_occurences(n) = Sum(seen[n])
  BY DEF total_occurences
<1>4. \A n : total_occurences(n)' = Sum(construct_names_seen'[n])
  BY DEF total_occurences
<1>5. DOMAIN seen = {ast[i].name : i \in {j \in Constructs : j <= u - 1}}
  BY DEF SeenUpTo
<1>6. \A n \in DOMAIN seen : seen[n] \in [Kinds -> Nat] /\ Sum(seen[n]) = Cardinality(NamedUpTo(n, u - 1))
  BY <1>3 DEF SeenUpTo
<1>7. before \in [Kinds -> Nat] /\ Sum(before) = Cardinality(NamedUpTo(name, u - 1))
  <2>1. CASE name \in DOMAIN seen
    BY <1>6, <2>1
  <2>2. CASE name \notin DOMAIN seen
    <3>1. NamedUpTo(name, u - 1) = {}
      BY <1>5, <2>2 DEF NamedUpTo
    <3>2. before = [k \in Kinds |-> 0]
      BY <2>2
    <3>3. before \in [Kinds -> Nat] /\ Sum(before) = 0
      <4>. HIDE DEF before
      <4>. QED BY <3>2 DEF Kinds
    <3>. QED BY <3>1, <3>3, FS_EmptySet
  <2>. QED BY <2>1, <2>2
<1>8. /\ construct_names_seen'[name] \in [Kinds -> Nat]
      /\ Sum(construct_names_seen'[name]) = Sum(before) + 1
  <2>. HIDE DEF before
  <2>1. kind \in {"callback", "dictionary", "interface", "enum"}
    BY DEF Kinds
  <2>2. /\ before["callback"] \in Nat /\ before["dictionary"] \in Nat
        /\ before["interface"] \in Nat /\ before["enum"] \in Nat
    BY <1>7 DEF Kinds
  <2>3. \A k \in Kinds : construct_names_seen'[name][k] = IF k = kind THEN before[k] + 1 ELSE before[k]
    BY <1>2, <1>7
  <2>4. construct_names_seen'[name] \in [Kinds -> Nat]
    <3>1. construct_names_seen'[name] = [k \in Kinds |-> IF k = kind THEN before[k] + 1 ELSE before[k]]
      BY <1>2, <1>7
    <3>2. \A k \in Kinds : before[k] \in Nat
      BY <1>7
    <3>. QED BY <3>1, <3>2
  <2>5. Sum(construct_names_seen'[name]) = Sum(before) + 1
    <3>. DEFINE after == construct_names_seen'[name]
    <3>1. /\ after["callback"] = IF "callback" = kind THEN before["callback"] + 1 ELSE before["callback"]
          /\ after["dictionary"] = IF "dictionary" = kind THEN before["dictionary"] + 1
                                   ELSE before["dictionary"]
          /\ after["interface"] = IF "interface" = kind THEN before["interface"] + 1
                                  ELSE before["interface"]
          /\ after["enum"] = IF "enum" = kind THEN before["enum"] + 1 ELSE before["enum"]
      BY <2>3 DEF Kinds
    <3>2. \/ /\ after["callback"] = before["callback"] + 1 /\ after["dictionary"] = before["dictionary"]
             /\ after["interface"] = before["interface"] /\ after["enum"] = before["enum"]
          \/ /\ after["callback"] = before["callback"] /\ after["dictionary"] = before["dictionary"] + 1
             /\ after["interface"] = before["interface"] /\ after["enum"] = before["enum"]
          \/ /\ after["callback"] = before["callback"] /\ after["dictionary"] = before["dictionary"]
             /\ after["interface"] = before["interface"] + 1 /\ after["enum"] = before["enum"]
          \/ /\ after["callback"] = before["callback"] /\ after["dictionary"] = before["dictionary"]
             /\ after["interface"] = before["interface"] /\ after["enum"] = before["enum"] + 1
      BY <2>1, <3>1
    <3>. HIDE DEF after
    <3>3. Sum(after) = Sum(before) + 1
      <4>. DEFINE a == before["callback"]
                  b == before["dictionary"]
                  c == before["interface"]
                  d == before["enum"]
      <4>1. \/ Sum(after) = (a + 1) + b + c + d \/ Sum(after) = a + (b + 1) + c + d
            \/ Sum(after) = a + b + (c + 1) + d \/ Sum(after) = a + b + c + (d + 1)
        BY <3>2
      <4>2. Sum(before) = a + b + c + d /\ a \in Nat /\ b \in Nat /\ c \in Nat /\ d \in Nat
        BY <2>2
      <4>. HIDE DEF a, b, c, d, Sum
      <4>. QED BY <4>1, <4>2
    <3>. QED BY <3>3 DEF after
  <2>. QED BY <2>4, <2>5
<1>. HIDE DEF before
<1>9. Cardinality(NamedUpTo(name, u)) = Cardinality(NamedUpTo(name, u - 1)) + 1
  <2>1. /\ IsFiniteSet(NamedUpTo(name, u - 1)) /\ u \notin NamedUpTo(name, u - 1)
        /\ NamedUpTo(name, u) = NamedUpTo(name, u - 1) \cup {u}
    BY <1>1, UpToNext
  <2>. QED BY <2>1, FS_AddElement
<1>10. \A n : n # name => NamedUpTo(n, u) = NamedUpTo(n, u - 1)
  BY <1>1, UpToNext
<1>11. DOMAIN construct_names_seen' = {ast[i].name : i \in {j \in Constructs : j <= u}}
  BY <1>1, <1>2, <1>5, UpToNext
<1>12. ASSUME NEW n \in DOMAIN construct_names_seen'
       PROVE  /\ construct_names_seen'[n] \in [Kinds -> Nat]
              /\ total_occurences(n)' = Cardinality(NamedUpTo(n, u))
  <2>1. CASE n = name
    BY <1>4, <1>7, <1>8, <1>9, <2>1
  <2>2. CASE n # name
    <3>1. n \in DOMAIN seen /\ construct_names_seen'[n] = seen[n]
      BY <1>2, <2>2
    <3>. QED BY <1>4, <1>6, <1>10, <2>2, <3>1
  <2>. QED BY <2>1, <2>2
<1>13. Constructs' = Constructs /\ \A n : NamedUpTo(n, u)' = NamedUpTo(n, u)
  BY DEF Constructs, NamedUpTo, ast
<1>14. ast' = ast
  BY DEF ast
<1>. QED BY <1>11, <1>12, <1>13, <1>14, Zenon DEF SeenUpTo

LEMMA SeenStays ==
  ASSUME NEW last, SeenUpTo(last), input' = input, construct_names_seen' = construct_names_seen
  PROVE  SeenUpTo(last)'
<1>1. ast' = ast /\ Constructs' = Constructs
  BY DEF Constructs, ast
<1>2. \A n : NamedUpTo(n, last)' = NamedUpTo(n, last) /\ total_occurences(n)' = total_occurences(n)
  BY <1>1 DEF NamedUpTo, total_occurences
<1>. QED BY <1>1, <1>2, Zenon DEF SeenUpTo

LEMMA SeenSkips ==
  ASSUME Input, NEW u \in 1 .. Len(ast), u \notin Constructs, SeenUpTo(u - 1)
  PROVE  SeenUpTo(u)
BY UpToNext, Zenon DEF SeenUpTo

LEMMA SeenStep ==
  ASSUME Progress, SeenInv, [Next]_vars
  PROVE  SeenInv'
<1>1. Progress' /\ input' = input /\ Input
  BY ProgressStep DEF Progress
<1>2. Len(ast) \in Nat /\ DOMAIN ast = 1 .. Len(ast)
  BY <1>1, InputFacts
<1>3. next \in 1 .. Len(ast) + 1
  BY DEF Progress
<1>. DEFINE Refused(e) == e \in {"no_values", "no_return_type"}
<1>l. PICK last : last = IF Refused(error) THEN next ELSE next - 1
  OBVIOUS
<1>u. PICK u : u = next
  OBVIOUS
<1>4. SeenUpTo(last)
  BY <1>l DEF SeenInv
<1>5. ASSUME construct_names_seen' = construct_names_seen, next' = next, Refused(error') <=> Refused(error)
      PROVE  SeenInv'
  <2>1. (IF Refused(error') THEN next' ELSE next' - 1) = last
    BY <1>5, <1>l
  <2>2. SeenUpTo(last)'
    BY <1>1, <1>4, <1>5, SeenStays
  <2>. QED BY <2>1, <2>2 DEF SeenInv
<1>6. ASSUME pc = "adding" PROVE error = "none" /\ last = u - 1
  BY <1>6, <1>l, <1>u DEF Progress, Late
<1>7. ASSUME SeenUpTo(u)', error' = "none", next' = u + 1
      PROVE  SeenInv'
  <2>1. next' - 1 = u
    BY <1>2, <1>3, <1>7, <1>u
  <2>. QED BY <1>7, <2>1 DEF SeenInv
<1>8. CASE skipTypedef
  <2>1. u \in 1 .. Len(ast) /\ u \notin Constructs
    BY <1>2, <1>3, <1>8, <1>u DEF skipTypedef, Adding, Constructs, this_thing
  <2>2. SeenUpTo(u - 1) /\ error' = "none" /\ next' = u + 1 /\ construct_names_seen' = construct_names_seen
    BY <1>4, <1>6, <1>8, <1>u DEF skipTypedef, Adding
  <2>3. SeenUpTo(u)
    BY <1>1, <2>1, <2>2, SeenSkips
  <2>4. SeenUpTo(u)'
    BY <1>1, <2>2, <2>3, SeenStays
  <2>. QED BY <1>7, <2>2, <2>4
<1>9. ASSUME NEW kind \in Kinds, Adding(kind), record_name(this_thing.name, kind)
      PROVE  SeenUpTo(u)'
  <2>1. u \in 1 .. Len(ast) /\ ast[u].kind = kind
    BY <1>2, <1>3, <1>9, <1>u DEF Adding, this_thing
  <2>2. SeenUpTo(u - 1)
    BY <1>4, <1>6, <1>9 DEF Adding
  <2>3. construct_names_seen' = Tallied(construct_names_seen, ast[u].name, kind)
    BY <1>9, <1>u DEF record_name, this_thing
  <2>. QED BY <1>1, <2>1, <2>2, <2>3, Tally
<1>10. ASSUME NEW kind \in Kinds, Adds(kind) PROVE SeenInv'
  <2>1. SeenUpTo(u)' /\ error' = "none" /\ next' = u + 1
    BY <1>6, <1>9, <1>10, <1>u DEF Adds, Adding, Added
  <2>. QED BY <1>7, <2>1
<1>11. ASSUME NEW kind \in Kinds, NEW what \in {"no_values", "no_return_type"}, Refuses(kind, what)
       PROVE  SeenInv'
  <2>1. SeenUpTo(u)' /\ error' = what /\ next' = u
    BY <1>9, <1>11, <1>u DEF Refuses, Refuse, Throw
  <2>. QED BY <2>1 DEF SeenInv
<1>12. ASSUME error = "none", error' \notin {"no_values", "no_return_type"},
              construct_names_seen' = construct_names_seen, next' = next
       PROVE  SeenInv'
  BY <1>5, <1>12
<1>13. pc # "refused" => error = "none"
  BY DEF Progress
<1>14. CASE UNCHANGED names_vars
  BY <1>5, <1>14 DEF names_vars
<1>15. CASE record_typedefs
  BY <1>5, <1>15 DEF record_typedefs
<1>16. CASE fix_names
  BY <1>12, <1>13, <1>16 DEF fix_names, Throw
<1>17. CASE report_reused_names
  BY <1>12, <1>13, <1>17 DEF report_reused_names, Throw
<1>18. CASE /\ pc = "checking" /\ Throw("Loop_in_typedefs")
            /\ UNCHANGED <<input, next, local_reserved_words, typedefs, tables,
                           construct_names_seen, error_messages>>
  BY <1>12, <1>13, <1>18 DEF Throw
<1>19. CASE /\ pc = "accepted" /\ Throw("Unsupported_type")
            /\ UNCHANGED <<input, next, local_reserved_words, typedefs, tables,
                           construct_names_seen, error_messages>>
  BY <1>12, <1>13, <1>19 DEF Throw
<1>20. CASE /\ pc \in Late /\ pc' \in Late \ {"accepted"}
            /\ DOMAIN tables' = DOMAIN tables
            /\ UNCHANGED <<input, next, local_reserved_words, typedefs,
                           construct_names_seen, error_messages, error>>
  BY <1>5, <1>20
<1>21. "enum" \in Kinds /\ "interface" \in Kinds
  BY DEF Kinds
<1>. QED
  BY NamesSteps, <1>8, <1>10, <1>11, <1>14, <1>15, <1>16, <1>17, <1>18, <1>19, <1>20, <1>21

(* What is known of the positions of typedefs. *)
TypedefsInv ==
  /\ pc = "typedefs" => typedefs = << >>
  /\ pc # "typedefs" => DOMAIN typedefs = {fix_type_name(ast[i].name) : i \in TypedefsOf}
  /\ \A n \in DOMAIN typedefs : typedefs[n] \in TypedefsOf

LEMMA TypedefsStart ==
  ASSUME Init
  PROVE  TypedefsInv
<1>1. DOMAIN << >> = {}
  OBVIOUS
<1>. QED BY <1>1 DEF Init, NamesInit, TypedefsInv

LEMMA TypedefsStep ==
  ASSUME Progress, TypedefsInv, [Next]_vars
  PROVE  TypedefsInv' /\ (pc # "typedefs" => typedefs' = typedefs /\ pc' # "typedefs")
<1>1. input' = input /\ Input
  BY ProgressStep DEF Progress
<1>2. ast' = ast /\ TypedefsOf' = TypedefsOf /\ \A name : fix_type_name(name)' = fix_type_name(name)
  BY <1>1 DEF ast, TypedefsOf, fix_type_name
<1>3. CASE record_typedefs
  <2>. DEFINE here(n) == {i \in TypedefsOf : fix_type_name(ast[i].name) = n}
              latest(n) == CHOOSE i \in here(n) : \A j \in here(n) : j <= i
  <2>1. /\ pc = "typedefs" /\ pc' = "checking"
        /\ typedefs' = [n \in {fix_type_name(ast[i].name) : i \in TypedefsOf} |-> latest(n)]
    BY <1>3 DEF record_typedefs, TypedefsOf
  <2>2. ASSUME NEW n \in {fix_type_name(ast[i].name) : i \in TypedefsOf}
        PROVE  latest(n) \in TypedefsOf
    <3>1. here(n) # {} /\ here(n) \subseteq TypedefsOf
      BY <2>2
    <3>2. Len(ast) \in Nat /\ TypedefsOf \subseteq 1 .. Len(ast)
      BY <1>1, InputFacts DEF TypedefsOf
    <3>. HIDE DEF here
    <3>3. here(n) \subseteq Nat /\ \A i \in here(n) : i <= Len(ast)
      <4>1. \A i \in 1 .. Len(ast) : i \in Nat /\ i <= Len(ast)
        BY <3>2
      <4>. QED BY <3>1, <3>2, <4>1
    <3>4. \E i \in here(n) : \A j \in here(n) : j <= i
      BY <3>1, <3>2, <3>3, GreatestNumber
    <3>. QED BY <3>1, <3>4
  <2>. HIDE DEF latest
  <2>3. /\ DOMAIN typedefs' = {fix_type_name(ast[i].name) : i \in TypedefsOf}
        /\ \A n \in DOMAIN typedefs' : typedefs'[n] \in TypedefsOf
    BY <2>1, <2>2
  <2>. QED BY <1>2, <2>1, <2>3 DEF TypedefsInv
<1>4. ASSUME ~ record_typedefs
      PROVE  typedefs' = typedefs /\ (pc' = "typedefs" <=> pc = "typedefs")
  BY <1>4, NamesSteps, Zenon
     DEF names_vars, fix_names, report_reused_names, skipTypedef, Adds, Refuses, Added, Refuse, Throw,
         Adding, Late
<1>. QED BY <1>2, <1>3, <1>4 DEF TypedefsInv, record_typedefs

(* Whatever the file, the tables of Names hold what their type says while    *)
(* the names are recorded, fixed, added and reported (Names!NamesTypeOK).    *)
THEOREM NamesTypeCorrect ==
  ASSUME Progress, SeenInv, TypedefsInv
  PROVE  NamesTypeOK
<1>1. Input /\ Len(ast) \in Nat /\ DOMAIN ast = 1 .. Len(ast)
  BY InputFacts DEF Progress
<1>2. local_reserved_words \subseteq AllNames
  BY DEF Progress
<1>3. ASSUME NEW n \in DOMAIN construct_names_seen
      PROVE  total_occurences(n) \in 1 .. Len(ast) /\ n \in local_reserved_words
  <2>1. PICK last : SeenUpTo(last)
    BY DEF SeenInv
  <2>2. PICK i \in Constructs : i <= last /\ ast[i].name = n
    BY <1>3, <2>1 DEF SeenUpTo
  <2>3. i \in NamedUpTo(n, last) /\ NamedUpTo(n, last) \in SUBSET (1 .. Len(ast))
    BY <1>1, <2>2 DEF NamedUpTo, Constructs
  <2>4. /\ IsFiniteSet(NamedUpTo(n, last))
        /\ Cardinality(NamedUpTo(n, last)) <= Len(ast)
    <3>1. IsFiniteSet(1 .. Len(ast)) /\ Cardinality(1 .. Len(ast)) = Len(ast)
      BY <1>1, FS_Interval
    <3>. QED BY <2>3, <3>1, FS_Subset
  <2>5. Cardinality(NamedUpTo(n, last)) \in Nat /\ Cardinality(NamedUpTo(n, last)) # 0
    BY <2>3, <2>4, FS_CardinalityType, FS_EmptySet
  <2>6. total_occurences(n) = Cardinality(NamedUpTo(n, last))
    BY <2>1 DEF SeenUpTo
  <2>7. total_occurences(n) \in 1 .. Len(ast)
    BY <1>1, <2>4, <2>5, <2>6
  <2>8. n \in AllNames /\ construct_names_seen # << >>
    <3>1. DOMAIN << >> = {}
      OBVIOUS
    <3>. QED BY <2>2, <3>1 DEF AllNames, Constructs
  <2>. QED BY <2>7, <2>8 DEF Progress
<1>4. \A n \in DOMAIN typedefs : ast[typedefs[n]].kind = "typedef"
  BY DEF TypedefsInv, TypedefsOf
<1>5. next \in 1 .. Len(ast) + 1 /\ DOMAIN tables = Kinds
  BY DEF Progress
<1>. QED BY <1>2, <1>3, <1>4, <1>5 DEF NamesTypeOK, AllNames

LEMMA EmptyList ==
  ASSUME NEW s, IsList(s)
  PROVE  s = << >> <=> Len(s) = 0
<1>1. s \in Seq(Range(s))
  BY ListFacts
<1>. QED BY <1>1, EmptySeq

LEMMA FiniteWords == IsFiniteSet(C_reserved_words) /\ IsFiniteSet(CWordsAndTypes)
BY WordsAssumption, FS_Union DEF CWordsAndTypes

LEMMA FreeIsList ==
  ASSUME NEW name, IsList(name), NEW words, IsFiniteSet(words)
  PROVE  IsList(Free(name, words)) /\ (name # << >> => Free(name, words) # << >>)
<1>1. PICK n \in Nat : Free(name, words) = Longer(name, n)
  BY FreeFacts
<1>2. IsList(Longer(name, n)) /\ Len(Longer(name, n)) = Len(name) + n /\ Len(name) \in Nat
  BY LongerFacts, ListFacts
<1>3. Len(name) + n = 0 => Len(name) = 0
  BY <1>2
<1>. QED BY <1>1, <1>2, <1>3, EmptyList

(* The name of a union has a separator. *)
LEMMA UnionNameFacts ==
  ASSUME NEW members, IsListOfNames(members), members # << >>, \A name \in Range(members) : name # << >>
  PROVE  /\ IsList(union_name(members)) /\ union_name(members) # << >>
         /\ Len(members) # 1 => "_or_" \in Range(union_name(members))
<1>. DEFINE A == (UNION {Range(name) : name \in Range(members)}) \cup {"_or_"}
            piece(k) == IF k = 1 THEN members[k] ELSE <<"_or_">> \o members[k]
            pieces == [k \in 1 .. Len(members) |-> piece(k)]
<1>1. /\ Len(members) \in Nat /\ Len(members) # 0 /\ DOMAIN members = 1 .. Len(members)
      /\ \A k \in 1 .. Len(members) : members[k] \in Range(members)
  BY ListFacts, EmptyList DEF IsListOfNames
<1>2. \A name \in Range(members) : name \in Seq(A)
  <2>. TAKE name \in Range(members)
  <2>1. name \in Seq(Range(name)) /\ Range(name) \subseteq A
    BY ListFacts DEF IsListOfNames
  <2>. QED BY <2>1, Widened
<1>3. <<"_or_">> \in Seq(A) /\ Len(<<"_or_">>) = 1
  <2>1. "_or_" \in A
    OBVIOUS
  <2>. HIDE DEF A
  <2>. QED BY <2>1
<1>. HIDE DEF A
<1>4. \A k \in 1 .. Len(members) : piece(k) \in Seq(A)
  BY <1>1, <1>2, <1>3, ConcatProperties
<1>. HIDE DEF piece
<1>5. pieces \in Seq(Seq(A)) /\ Len(pieces) = Len(members)
  <2>1. pieces \in [1 .. Len(members) -> Seq(A)]
    BY <1>4
  <2>. HIDE DEF pieces
  <2>. QED BY <1>1, <2>1, TupleIsSeq
<1>6. union_name(members) = FlattenSeq(pieces)
  BY <1>1 DEF union_name, piece
<1>7. \A k \in 1 .. Len(members) : pieces[k] = piece(k)
  OBVIOUS
<1>. HIDE DEF pieces
<1>8. /\ union_name(members) \in Seq(A)
      /\ \A x : x \in ToSet(union_name(members)) <=> \E k \in 1 .. Len(members) : x \in ToSet(piece(k))
  BY <1>5, <1>6, <1>7, FlattenedMembers
<1>9. IsList(union_name(members)) /\ Range(union_name(members)) = ToSet(union_name(members))
  BY <1>8, IsListOf
<1>10. union_name(members) # << >>
  <2>1. 1 \in 1 .. Len(members) /\ members[1] # << >> /\ IsList(members[1])
    BY <1>1 DEF IsListOfNames
  <2>2. 1 \in 1 .. Len(members[1]) /\ Len(members[1]) \in Nat
    BY <2>1, ListFacts, EmptyList
  <2>3. members[1][1] \in ToSet(members[1]) /\ piece(1) = members[1]
    BY <2>1, <2>2, ListFacts DEF piece
  <2>4. ToSet(union_name(members)) # {}
    BY <1>8, <2>1, <2>3
  <2>5. ToSet(<< >>) = {}
    BY DEF ToSet
  <2>. QED BY <2>4, <2>5
<1>11. Len(members) # 1 => "_or_" \in Range(union_name(members))
  <2>. SUFFICES ASSUME Len(members) # 1 PROVE "_or_" \in ToSet(union_name(members))
    BY <1>9
  <2>1. 2 \in 1 .. Len(members)
    BY <1>1
  <2>2. piece(2) = <<"_or_">> \o members[2] /\ members[2] \in Seq(A)
    BY <1>1, <1>2, <2>1 DEF piece
  <2>3. ToSet(piece(2)) = ToSet(<<"_or_">>) \cup ToSet(members[2])
    BY <1>3, <2>2, MembersOfConcat
  <2>4. "_or_" \in ToSet(<<"_or_">>)
    BY <1>3 DEF ToSet
  <2>. QED BY <1>8, <2>1, <2>3, <2>4
<1>. QED BY <1>9, <1>10, <1>11

LEMMA TypeFacts ==
  ASSUME Input, NEW thing \in Range(ast), NEW e \in Range(thing.types)
  PROVE  /\ e.depth \in Nat
         /\ IsList(base(e)) /\ base(e) # << >>
         /\ IsList(typename(e)) /\ typename(e) # << >>
         /\ e.depth = 0 => typename(e) = base(e)
         /\ Len(e.members) # 1 => "_or_" \in Range(base(e)) /\ base(e) = union_name(e.members)
         /\ Len(typename(e)) = Len(base(e)) + e.depth
         /\ \A i \in 1 .. Len(base(e)) : typename(e)[i] = base(e)[i]
         /\ \A i \in Len(base(e)) + 1 .. Len(base(e)) + e.depth : typename(e)[i] = "_array"
<1>1. /\ e.depth \in Nat
      /\ IsListOfNames(e.members) /\ e.members # << >>
      /\ \A name \in Range(e.members) : name # << >>
  BY InputFacts DEF NoType
<1>2. /\ IsList(base(e)) /\ base(e) # << >>
      /\ Len(e.members) # 1 => "_or_" \in Range(base(e)) /\ base(e) = union_name(e.members)
  <2>1. CASE Len(e.members) = 1
    <3>1. IsList(e.members) /\ 1 \in 1 .. Len(e.members)
      BY <1>1, <2>1 DEF IsListOfNames
    <3>2. base(e) = e.members[1] /\ e.members[1] \in Range(e.members)
      BY <2>1, <3>1, ListFacts DEF base
    <3>. QED BY <1>1, <2>1, <3>2 DEF IsListOfNames
  <2>2. CASE Len(e.members) # 1
    <3>1. base(e) = union_name(e.members)
      BY <2>2 DEF base
    <3>. QED BY <1>1, <2>2, <3>1, UnionNameFacts
  <2>. QED BY <2>1, <2>2
<1>3. typename(e) = array_of(base(e), e.depth)
  BY DEF typename
<1>4. /\ IsList(typename(e))
      /\ e.depth = 0 => typename(e) = base(e)
      /\ Len(typename(e)) = Len(base(e)) + e.depth
      /\ \A i \in 1 .. Len(base(e)) : typename(e)[i] = base(e)[i]
      /\ \A i \in Len(base(e)) + 1 .. Len(base(e)) + e.depth : typename(e)[i] = "_array"
  <2>. DEFINE name == base(e)
              depth == e.depth
  <2>1. IsList(name) /\ depth \in Nat /\ typename(e) = array_of(name, depth)
    BY <1>1, <1>2, <1>3
  <2>. HIDE DEF name, depth
  <2>2. /\ IsList(typename(e))
        /\ depth = 0 => typename(e) = name
        /\ Len(typename(e)) = Len(name) + depth
        /\ \A i \in 1 .. Len(name) : typename(e)[i] = name[i]
        /\ \A i \in Len(name) + 1 .. Len(name) + depth : typename(e)[i] = "_array"
    <3>1. /\ IsList(array_of(name, depth))
          /\ depth = 0 => array_of(name, depth) = name
          /\ Len(array_of(name, depth)) = Len(name) + depth
          /\ \A i \in 1 .. Len(name) : array_of(name, depth)[i] = name[i]
          /\ \A i \in Len(name) + 1 .. Len(name) + depth : array_of(name, depth)[i] = "_array"
      BY <2>1, ArrayOfFacts
    <3>. QED BY <2>1, <3>1, Zenon
  <2>. QED BY <2>2 DEF name, depth
<1>5. typename(e) # << >>
  <2>1. Len(base(e)) \in Nat /\ Len(base(e)) # 0 /\ Len(typename(e)) = Len(base(e)) + e.depth
    BY <1>2, <1>4, EmptyList, ListFacts
  <2>2. Len(typename(e)) # 0
    BY <1>1, <2>1
  <2>. QED BY <1>4, <2>2, EmptyList
<1>. QED BY <1>1, <1>2, <1>4, <1>5

LEMMA AliasFacts ==
  ASSUME Input, TypedefsInv, NEW t \in Typedefs
  PROVE  /\ typedefs[t] \in TypedefsOf
         /\ ast[typedefs[t]].types[1] \in Range(ast[typedefs[t]].types)
         /\ ast[typedefs[t]] \in Range(ast)
         /\ alias(t) # NoType
<1>1. typedefs[t] \in TypedefsOf
  BY DEF TypedefsInv, Typedefs
<1>2. typedefs[t] \in 1 .. Len(ast) /\ ast[typedefs[t]].kind = "typedef"
  BY <1>1, InputFacts DEF TypedefsOf
<1>3. /\ ast[typedefs[t]] \in Range(ast) /\ IsList(ast[typedefs[t]].types)
      /\ Len(ast[typedefs[t]].types) = 1
  BY <1>2, InputFacts
<1>4. ast[typedefs[t]].types[1] \in Range(ast[typedefs[t]].types)
  <2>1. 1 \in 1 .. Len(ast[typedefs[t]].types)
    BY <1>3
  <2>. QED BY <1>3, <2>1, ListFacts
<1>5. /\ IsList(typename(ast[typedefs[t]].types[1]))
      /\ typename(ast[typedefs[t]].types[1]) # << >>
  BY <1>3, <1>4, TypeFacts
<1>6. alias(t) # NoType
  BY <1>5, FiniteWords, FreeIsList DEF alias, fix_type, NoType
<1>. QED BY <1>1, <1>3, <1>4, <1>6

(* There are finitely many typedefs, and they have names. *)
LEMMA TypedefsFacts ==
  ASSUME Input, TypedefsInv
  PROVE  /\ IsFiniteSet(Typedefs) /\ Cardinality(Typedefs) \in Nat
         /\ NoType \notin Typedefs
         /\ \A t \in Typedefs : \E i \in TypedefsOf : t = fix_type_name(ast[i].name)
<1>0. DOMAIN << >> = {}
  OBVIOUS
<1>1. CASE pc = "typedefs"
  <2>1. Typedefs = {}
    BY <1>0, <1>1 DEF TypedefsInv, Typedefs
  <2>. QED BY <2>1, FS_EmptySet
<1>2. CASE pc # "typedefs"
  <2>. DEFINE names == [i \in TypedefsOf |-> fix_type_name(ast[i].name)]
  <2>1. Typedefs = {fix_type_name(ast[i].name) : i \in TypedefsOf}
    BY <1>2 DEF TypedefsInv, Typedefs
  <2>2. names \in Surjection(TypedefsOf, Typedefs)
    BY <2>1 DEF Surjection
  <2>3. IsFiniteSet(TypedefsOf)
    <3>1. Len(ast) \in Nat /\ TypedefsOf \in SUBSET (1 .. Len(ast))
      BY InputFacts DEF TypedefsOf
    <3>2. IsFiniteSet(1 .. Len(ast))
      BY <3>1, FS_Interval
    <3>. QED BY <3>1, <3>2, FS_Subset
  <2>4. IsFiniteSet(Typedefs)
    BY <2>2, <2>3, FS_Surjection
  <2>5. \A i \in TypedefsOf : fix_type_name(ast[i].name) # NoType
    <3>. TAKE i \in TypedefsOf
    <3>1. IsList(ast[i].name) /\ ast[i].name # << >>
      BY InputFacts DEF TypedefsOf
    <3>. QED BY <3>1, FiniteWords, FreeIsList DEF fix_type_name, NoType
  <2>. QED BY <2>1, <2>4, <2>5, FS_CardinalityType
<1>. QED BY <1>1, <1>2

----------------------------------------------------------------------------
(* Walks along the typedefs. *)
Follow(name) == IF name \in Typedefs THEN alias(name) ELSE name

WalkFrom(walk, k, max) ==
  walk = [i \in 0 .. max |-> IF i = 0 THEN k ELSE Follow(walk[i - 1])]

LEMMA WalkExists ==
  ASSUME NEW k, NEW max \in Nat
  PROVE  \E walk : WalkFrom(walk, k, max)
<1>. DEFINE A == {k} \cup Typedefs \cup {alias(t) : t \in Typedefs}
            step == [i \in 1 .. max |-> [x \in A |-> Follow(x)]]
<1>1. \A x \in A : Follow(x) \in A
  BY DEF Follow
<1>2. k \in A /\ step \in [1 .. max -> [A -> A]]
  BY <1>1
<1>3. \A i \in 1 .. max : \A x \in A : step[i][x] = Follow(x)
  OBVIOUS
<1>. HIDE DEF A, step
<1>4. PICK run \in [0 .. max -> A] : Runs(run, k, step, max)
  BY <1>2, RunExists
<1>5. \A i \in 0 .. max : run[i] = IF i = 0 THEN k ELSE Follow(run[i - 1])
  <2>. TAKE i \in 0 .. max
  <2>1. CASE i = 0
    BY <1>4, <2>1 DEF Runs
  <2>2. CASE i # 0
    <3>1. i \in 1 .. max /\ i - 1 \in 0 .. max
      BY <2>2
    <3>2. run[i] = step[i][run[i - 1]] /\ run[i - 1] \in A
      BY <1>4, <3>1 DEF Runs
    <3>. QED BY <1>3, <2>2, <3>1, <3>2
  <2>. QED BY <2>1, <2>2
<1>6. run = [i \in 0 .. max |-> run[i]]
  BY <1>4
<1>7. WalkFrom(run, k, max)
  BY <1>5, <1>6, Zenon DEF WalkFrom
<1>. QED BY <1>7

LEMMA WalkSteps ==
  ASSUME NEW walk, NEW k, NEW max \in Nat, WalkFrom(walk, k, max)
  PROVE  /\ walk[0] = k
         /\ \A i \in 1 .. max : walk[i] = Follow(walk[i - 1])
         /\ \A i \in 0 .. max : i + 1 <= max => walk[i + 1] = Follow(walk[i])
<1>1. \A i \in 0 .. max : walk[i] = IF i = 0 THEN k ELSE Follow(walk[i - 1])
  BY DEF WalkFrom
<1>2. 0 \in 0 .. max /\ \A i \in 1 .. max : i # 0 /\ i \in 0 .. max
  OBVIOUS
<1>3. \A i \in 0 .. max : i + 1 <= max => i + 1 \in 1 .. max /\ (i + 1) - 1 = i
  OBVIOUS
<1>4. \A i \in 1 .. max : walk[i] = Follow(walk[i - 1])
  BY <1>1, <1>2
<1>5. walk[0] = k
  BY <1>1, <1>2
<1>6. ASSUME NEW i \in 0 .. max, i + 1 <= max PROVE walk[i + 1] = Follow(walk[i])
  <2>1. walk[i + 1] = Follow(walk[(i + 1) - 1])
    BY <1>3, <1>4, <1>6
  <2>. QED BY <1>3, <1>6, <2>1
<1>. QED BY <1>4, <1>5, <1>6

LEMMA WalksAgree ==
  ASSUME NEW k, NEW m \in Nat, NEW n \in Nat, m <= n, NEW v, WalkFrom(v, k, m), NEW w, WalkFrom(w, k, n)
  PROVE  \A i \in 0 .. m : v[i] = w[i]
<1>. DEFINE T == {i \in Nat : i <= m => v[i] = w[i]}
<1>1. 0 \in T
  BY WalkSteps
<1>2. ASSUME NEW i \in Nat, i \in T PROVE i + 1 \in T
  <2>. SUFFICES ASSUME i + 1 <= m PROVE v[i + 1] = w[i + 1]
    OBVIOUS
  <2>1. i \in 0 .. m /\ i \in 0 .. n /\ i + 1 <= n /\ i <= m
    OBVIOUS
  <2>2. v[i + 1] = Follow(v[i]) /\ w[i + 1] = Follow(w[i])
    BY <2>1, WalkSteps
  <2>. QED BY <1>2, <2>1, <2>2
<1>3. Nat \subseteq T
  <2>. HIDE DEF T
  <2>. QED BY <1>1, <1>2, Induction
<1>. QED BY <1>3

LEMMA ReachesIsLast ==
  ASSUME NEW k, NEW max \in Nat, Cardinality(Typedefs) \in Nat, Cardinality(Typedefs) <= max,
         NEW walk, WalkFrom(walk, k, max)
  PROVE  Reaches(k) = walk[Cardinality(Typedefs)]
<1>. DEFINE N == Cardinality(Typedefs)
            W == CHOOSE w : WalkFrom(w, k, N)
<1>1. WalkFrom(W, k, N)
  BY WalkExists
<1>2. Reaches(k) = W[N]
  BY DEF Reaches, WalkFrom, Follow
<1>3. N \in 0 .. N
  OBVIOUS
<1>. HIDE DEF W
<1>4. \A i \in 0 .. N : W[i] = walk[i]
  BY <1>1, WalksAgree
<1>. QED BY <1>2, <1>3, <1>4

(* What is no typedef stands for itself. *)
LEMMA ReachesItself ==
  ASSUME NEW k, k \notin Typedefs, Cardinality(Typedefs) \in Nat
  PROVE  Reaches(k) = k
<1>. DEFINE N == Cardinality(Typedefs)
<1>1. PICK w : WalkFrom(w, k, N)
  BY WalkExists
<1>. DEFINE T == {i \in Nat : i <= N => w[i] = k}
<1>2. 0 \in T
  BY <1>1, WalkSteps
<1>3. ASSUME NEW i \in Nat, i \in T PROVE i + 1 \in T
  <2>. SUFFICES ASSUME i + 1 <= N PROVE w[i + 1] = k
    OBVIOUS
  <2>1. i \in 0 .. N /\ i <= N
    OBVIOUS
  <2>2. w[i + 1] = Follow(w[i])
    BY <1>1, <2>1, WalkSteps
  <2>. QED BY <1>3, <2>1, <2>2 DEF Follow
<1>4. Nat \subseteq T
  <2>. HIDE DEF T
  <2>. QED BY <1>2, <1>3, Induction
<1>. QED BY <1>1, <1>4, ReachesIsLast

(* Typedefs that only lead to each other are in a circle. *)
LEMMA ClosedSetLoops ==
  ASSUME Cardinality(Typedefs) \in Nat, NEW C, C \subseteq Typedefs, \A c \in C : alias(c) \in C,
         NEW k \in C
  PROVE  Looping(k)
<1>. DEFINE N == Cardinality(Typedefs)
<1>1. PICK w : WalkFrom(w, k, N)
  BY WalkExists
<1>. DEFINE T == {i \in Nat : i <= N => w[i] \in C}
<1>2. 0 \in T
  BY <1>1, WalkSteps
<1>3. ASSUME NEW i \in Nat, i \in T PROVE i + 1 \in T
  <2>. SUFFICES ASSUME i + 1 <= N PROVE w[i + 1] \in C
    OBVIOUS
  <2>1. i \in 0 .. N /\ i <= N
    OBVIOUS
  <2>2. w[i + 1] = Follow(w[i])
    BY <1>1, <2>1, WalkSteps
  <2>. QED BY <1>3, <2>1, <2>2 DEF Follow
<1>4. Nat \subseteq T
  <2>. HIDE DEF T
  <2>. QED BY <1>2, <1>3, Induction
<1>5. Reaches(k) = w[N]
  BY <1>1, ReachesIsLast
<1>. QED BY <1>4, <1>5 DEF Looping

(* A walk that is still on a typedef after so many steps as there are       *)
(* typedefs was on one of them twice, and stays on them.                     *)
LEMMA LongWalk ==
  ASSUME IsFiniteSet(Typedefs), NEW N \in Nat, N = Cardinality(Typedefs), NEW k,
         NEW w, WalkFrom(w, k, N + 1), w[N] \in Typedefs
  PROVE  w[N + 1] \in Typedefs
<1>1. /\ w[0] = k
      /\ \A i \in 0 .. N : w[i + 1] = Follow(w[i])
  <2>1. \A i \in 0 .. N : i \in 0 .. N + 1 /\ i + 1 <= N + 1
    OBVIOUS
  <2>. QED BY <2>1, WalkSteps
<1>2. \A i \in 0 .. N : w[i] \in Typedefs
  <2>. DEFINE T == {i \in Nat : i <= N => w[N - i] \in Typedefs}
  <2>1. 0 \in T
    OBVIOUS
  <2>2. ASSUME NEW i \in Nat, i \in T PROVE i + 1 \in T
    <3>. SUFFICES ASSUME i + 1 <= N PROVE w[N - (i + 1)] \in Typedefs
      OBVIOUS
    <3>1. N - (i + 1) \in 0 .. N /\ (N - (i + 1)) + 1 = N - i /\ i <= N
      OBVIOUS
    <3>2. w[N - i] = Follow(w[N - (i + 1)])
      BY <1>1, <3>1
    <3>. QED BY <2>2, <3>1, <3>2 DEF Follow
  <2>3. Nat \subseteq T
    <3>. HIDE DEF T
    <3>. QED BY <2>1, <2>2, Induction
  <2>4. \A i \in 0 .. N : N - i \in Nat /\ N - i <= N /\ N - (N - i) = i
    OBVIOUS
  <2>. QED BY <2>3, <2>4
<1>3. PICK i \in 0 .. N, j \in 0 .. N : i < j /\ w[i] = w[j]
  <2>. DEFINE S == 0 .. N
              f == [x \in S |-> w[x]]
  <2>1. IsFiniteSet(S) /\ Cardinality(Typedefs) < Cardinality(S)
    BY FS_Interval
  <2>2. f \in [S -> Typedefs]
    BY <1>2
  <2>3. \A x \in S : f[x] = w[x]
    OBVIOUS
  <2>4. \E x, y \in S : x # y /\ f[x] = f[y]
    <3>. HIDE DEF f, S
    <3>. QED BY <2>1, <2>2, FS_PigeonHole
  <2>5. PICK x \in 0 .. N, y \in 0 .. N : x # y /\ w[x] = w[y]
    <3>. HIDE DEF f
    <3>. QED BY <2>3, <2>4
  <2>6. x < y \/ y < x
    BY <2>5
  <2>. QED BY <2>5, <2>6
<1>4. \A m \in Nat : j + m <= N + 1 => w[i + m] = w[j + m]
  <2>. DEFINE T == {m \in Nat : j + m <= N + 1 => w[i + m] = w[j + m]}
  <2>1. 0 \in T
    BY <1>3
  <2>2. ASSUME NEW m \in Nat, m \in T PROVE m + 1 \in T
    <3>. SUFFICES ASSUME j + (m + 1) <= N + 1 PROVE w[i + (m + 1)] = w[j + (m + 1)]
      OBVIOUS
    <3>1. /\ i + m \in 0 .. N /\ j + m \in 0 .. N /\ j + m <= N + 1
          /\ i + (m + 1) = (i + m) + 1 /\ j + (m + 1) = (j + m) + 1
      BY <1>3
    <3>2. w[(i + m) + 1] = Follow(w[i + m]) /\ w[(j + m) + 1] = Follow(w[j + m])
      BY <1>1, <3>1
    <3>. QED BY <2>2, <3>1, <3>2
  <2>3. Nat \subseteq T
    <3>. HIDE DEF T
    <3>. QED BY <2>1, <2>2, Induction
  <2>. QED BY <2>3
<1>5. /\ (N + 1) - j \in Nat /\ j + ((N + 1) - j) = N + 1 /\ i + ((N + 1) - j) \in 0 .. N
  BY <1>3
<1>6. w[i + ((N + 1) - j)] = w[N + 1]
  <2>. DEFINE m == (N + 1) - j
  <2>1. m \in Nat /\ j + m = N + 1 /\ j + m <= N + 1
    BY <1>5
  <2>. HIDE DEF m
  <2>2. w[i + m] = w[j + m]
    BY <1>4, <2>1
  <2>3. w[i + m] = w[N + 1]
    BY <2>1, <2>2, Zenon
  <2>. QED BY <2>3 DEF m
<1>. QED BY <1>2, <1>5, <1>6

LEMMA ReachesAlias ==
  ASSUME IsFiniteSet(Typedefs), Cardinality(Typedefs) \in Nat, NEW k \in Typedefs
  PROVE  /\ Looping(k) <=> Looping(alias(k))
         /\ ~ Looping(k) => Reaches(k) = Reaches(alias(k))
<1>. PICK N \in Nat : N = Cardinality(Typedefs)
  OBVIOUS
<1>0. N + 1 \in Nat
  OBVIOUS
<1>1. PICK w : WalkFrom(w, k, N + 1)
  BY <1>0, WalkExists
<1>2. w[0] = k /\ \A i \in 0 .. N : w[i + 1] = Follow(w[i])
  <2>1. \A i \in 0 .. N : i \in 0 .. N + 1 /\ i + 1 <= N + 1
    OBVIOUS
  <2>. QED BY <1>1, <2>1, WalkSteps
<1>. DEFINE v == [i \in 0 .. N |-> w[i + 1]]
<1>3. WalkFrom(v, alias(k), N)
  <2>1. \A i \in 0 .. N : v[i] = IF i = 0 THEN alias(k) ELSE Follow(v[i - 1])
    <3>. TAKE i \in 0 .. N
    <3>1. CASE i = 0
      <4>1. w[0 + 1] = Follow(w[0]) /\ 0 \in 0 .. N
        BY <1>2
      <4>. QED BY <1>2, <3>1, <4>1 DEF Follow
    <3>2. CASE i # 0
      <4>1. i - 1 \in 0 .. N /\ (i - 1) + 1 = i
        BY <3>2
      <4>. QED BY <1>2, <3>2, <4>1
    <3>. QED BY <3>1, <3>2
  <2>2. v = [i \in 0 .. N |-> v[i]]
    OBVIOUS
  <2>. HIDE DEF v
  <2>. QED BY <2>1, <2>2, Zenon DEF WalkFrom
<1>4. Reaches(k) = w[N] /\ N \in 0 .. N
  BY <1>1, ReachesIsLast
<1>5. Reaches(alias(k)) = v[N]
  <2>. HIDE DEF v
  <2>. QED BY <1>3, ReachesIsLast
<1>6. v[N] = w[N + 1]
  BY <1>4
<1>7. w[N + 1] = Follow(w[N])
  BY <1>2, <1>4
<1>8. w[N] \in Typedefs => w[N + 1] \in Typedefs
  BY <1>1, LongWalk
<1>. HIDE DEF v
<1>. QED BY <1>4, <1>5, <1>6, <1>7, <1>8 DEF Follow, Looping

LEMMA FrontFacts ==
  ASSUME NEW A, NEW s \in Seq(A), s # << >>
  PROVE  /\ Front(s) \in Seq(A) /\ Last(s) \in A
         /\ Len(s) \in Nat /\ Len(s) # 0 /\ Len(Front(s)) = Len(s) - 1
         /\ \A i \in 1 .. Len(s) - 1 : Front(s)[i] = s[i]
         /\ Last(s) = s[Len(s)]
         /\ ToSet(s) = ToSet(Front(s)) \cup {Last(s)}
         /\ Distinct(s) => Distinct(Front(s))
<1>1. Len(s) \in Nat /\ Len(s) # 0 /\ \A i \in 1 .. Len(s) : s[i] \in A /\ s[i] \in ToSet(s)
  BY Members, EmptySeq
<1>2. \A e : e \in ToSet(s) <=> \E i \in 1 .. Len(s) : s[i] = e
  BY Members
<1>3. /\ Front(s) \in Seq(A) /\ Len(Front(s)) = Len(s) - 1
      /\ \A i \in 1 .. Len(s) - 1 : Front(s)[i] = s[i]
  <2>. DEFINE m == Len(s) - 1
  <2>1. m \in Int /\ 1 \in Int /\ \A i \in 1 .. m : s[i] \in A
    BY <1>1
  <2>5. m \in Nat
    BY <1>1
  <2>. HIDE DEF m
  <2>2. m - 1 + 1 = m /\ (1 <= m => m - 1 + 1 = m) /\ (~ (1 <= m) => m = 0)
        /\ \A i \in 1 .. m : i \in 1 .. m - 1 + 1 /\ 1 + i - 1 = i
    BY <2>5
  <2>3. /\ SubSeq(s, 1, m) \in Seq(A)
        /\ Len(SubSeq(s, 1, m)) = IF 1 <= m THEN m - 1 + 1 ELSE 0
        /\ \A i \in 1 .. m - 1 + 1 : SubSeq(s, 1, m)[i] = s[1 + i - 1]
    BY <2>1, SubSeqProperties
  <2>4. Front(s) = SubSeq(s, 1, m)
    BY DEF Front, m
  <2>6. \A i \in 1 .. m : Front(s)[i] = s[i]
    BY <2>2, <2>3, <2>4
  <2>7. Len(Front(s)) = m /\ Front(s) \in Seq(A)
    BY <2>2, <2>3, <2>4
  <2>. QED BY <2>6, <2>7 DEF m
<1>4. Last(s) = s[Len(s)] /\ Len(s) \in 1 .. Len(s)
  BY <1>1 DEF Last
<1>5. \A e : e \in ToSet(Front(s)) <=> \E i \in 1 .. Len(s) - 1 : s[i] = e
  <2>1. \A e : e \in ToSet(Front(s)) <=> \E i \in 1 .. Len(s) - 1 : Front(s)[i] = e
    BY <1>3, Members
  <2>. QED BY <1>3, <2>1
<1>6. \A i : i \in 1 .. Len(s) <=> i \in 1 .. Len(s) - 1 \/ i = Len(s)
  BY <1>1
<1>7. ToSet(s) = ToSet(Front(s)) \cup {Last(s)}
  BY <1>2, <1>4, <1>5, <1>6
<1>8. Distinct(s) => Distinct(Front(s))
  BY <1>3, <1>6 DEF Distinct
<1>. QED BY <1>1, <1>3, <1>4, <1>7, <1>8

LEMMA HeadTailFacts ==
  ASSUME NEW A, NEW s \in Seq(A), s # << >>
  PROVE  Head(s) \in A /\ Tail(s) \in Seq(A) /\ ToSet(s) = {Head(s)} \cup ToSet(Tail(s))
<1>1. /\ Head(s) \in A /\ Tail(s) \in Seq(A) /\ Len(Tail(s)) = Len(s) - 1
      /\ \A i \in 1 .. Len(Tail(s)) : Tail(s)[i] = s[i + 1]
  BY HeadTailProperties
<1>2. Len(s) \in Nat /\ Len(s) # 0
  BY EmptySeq
<1>3. \A e : e \in ToSet(s) <=> \E i \in 1 .. Len(s) : s[i] = e
  BY Members
<1>4. \A e : e \in ToSet(Tail(s)) <=> \E i \in 1 .. Len(s) - 1 : Tail(s)[i] = e
  BY <1>1, Members
<1>5. Head(s) = s[1]
  OBVIOUS
<1>6. \A i : i \in 1 .. Len(s) => i = 1 \/ (i - 1 \in 1 .. Len(s) - 1 /\ (i - 1) + 1 = i)
  BY <1>2
<1>7. \A i : i \in 1 .. Len(s) - 1 => i + 1 \in 1 .. Len(s)
  BY <1>2
<1>8. 1 \in 1 .. Len(s)
  BY <1>2
<1>9. ASSUME NEW e \in ToSet(s) PROVE e = Head(s) \/ e \in ToSet(Tail(s))
  <2>1. PICK i \in 1 .. Len(s) : s[i] = e
    BY <1>3, <1>9
  <2>2. CASE i = 1
    BY <1>5, <2>1, <2>2
  <2>3. CASE i # 1
    <3>1. i - 1 \in 1 .. Len(s) - 1 /\ Tail(s)[i - 1] = s[i]
      BY <1>1, <1>6, <2>3
    <3>. QED BY <1>4, <2>1, <3>1
  <2>. QED BY <2>2, <2>3
<1>10. ASSUME NEW e \in ToSet(Tail(s)) PROVE e \in ToSet(s)
  <2>1. PICK i \in 1 .. Len(s) - 1 : Tail(s)[i] = e
    BY <1>4, <1>10
  <2>. QED BY <1>1, <1>3, <1>7, <2>1
<1>11. Head(s) \in ToSet(s)
  BY <1>3, <1>5, <1>8
<1>. QED BY <1>1, <1>9, <1>10, <1>11

----------------------------------------------------------------------------
(* find_ultimate_typename: the calls that are active follow the aliases, and *)
(* every typedef waits, is being resolved, or has the type its chain ends at. *)
Resolved(t) == ultimate_typename[t] # NoType

ResolutionInv ==
  /\ pc = "typedefs" => waiting = << >> /\ current = NoType /\ tree_members = << >>
  /\ pc # "typedefs" => DOMAIN ultimate_typename = Typedefs
  /\ waiting \in Seq(Typedefs)
  /\ tree_members \in Seq(Typedefs) /\ Distinct(tree_members)
  /\ current \in Typedefs \cup {NoType}
  /\ current = NoType => tree_members = << >>
  /\ \A i \in 1 .. Len(tree_members) :
       alias(tree_members[i]) = IF i = Len(tree_members) THEN current ELSE tree_members[i + 1]
  /\ \A t \in Typedefs :
       /\ Resolved(t) => ultimate_typename[t] = Reaches(t) /\ ~ Looping(t)
       /\ Resolved(t) \/ t \in ToSet(waiting) \/ t \in ToSet(tree_members) \/ t = current
  /\ error = "Loop_in_typedefs" => \E t \in Typedefs : Looping(t)
  /\ pc \notin {"typedefs", "checking"} /\ error # "Loop_in_typedefs" =>
       current = NoType /\ waiting = << >>

LEMMA ResolutionStart ==
  ASSUME Init
  PROVE  ResolutionInv
<1>1. DOMAIN << >> = {} /\ Typedefs = {}
  BY DEF Init, NamesInit, Typedefs
<1>2. << >> \in Seq({}) /\ Len(<< >>) = 0
  OBVIOUS
<1>. QED BY <1>1, <1>2 DEF Init, NamesInit, ResolutionInv, Distinct

LEMMA SameWalks ==
  ASSUME input' = input, typedefs' = typedefs
  PROVE  /\ Typedefs' = Typedefs
         /\ \A k : /\ alias(k)' = alias(k)
                   /\ Reaches(k)' = Reaches(k)
                   /\ Looping(k)' = Looping(k)
<1>1. Typedefs' = Typedefs
  BY DEF Typedefs
<1>2. ASSUME NEW k PROVE alias(k)' = alias(k)
  BY DEF alias, ast
<1>3. ASSUME NEW k PROVE Reaches(k)' = Reaches(k)
  <2>. DEFINE V == CHOOSE w : w = [i \in 0 .. Cardinality(Typedefs) |->
                                    IF i = 0 THEN k
                                    ELSE IF w[i - 1] \in Typedefs THEN alias(w[i - 1]) ELSE w[i - 1]]
              W == CHOOSE w : w = [i \in 0 .. Cardinality(Typedefs) |->
                                    IF i = 0 THEN k
                                    ELSE IF w[i - 1] \in Typedefs' THEN alias(w[i - 1])' ELSE w[i - 1]]
  <2>1. W = V
    BY <1>1, <1>2
  <2>. QED BY <1>1, <2>1 DEF Reaches
<1>. QED BY <1>1, <1>2, <1>3 DEF Looping

(* The steps of augment as find_ultimate_typename sees them. *)
Elsewhere ==
  /\ UNCHANGED <<resolution, typedefs>>
  /\ \/ pc' = pc /\ error' = error
     \/ pc = "checking" /\ ~ Resolving /\ error = "none" /\ error' # "Loop_in_typedefs" /\ pc' # "typedefs"
     \/ pc \notin {"typedefs", "checking", "refused"} /\ error' # "Loop_in_typedefs" /\ pc' # "typedefs"

LEMMA ResolutionSteps ==
  ASSUME Progress, [Next]_vars
  PROVE  RecordTypedefs \/ StartTypedef \/ ThrowLoop \/ FollowAlias \/ ReachRoot \/ Return \/ Elsewhere
<1>0. pc # "refused" => error = "none"
  BY DEF Progress
<1>1. CASE UNCHANGED vars
  BY <1>1 DEF vars, names_vars, Elsewhere
<1>2. CASE FixNames
  BY <1>0, <1>2 DEF FixNames, fix_names, Throw, Elsewhere
<1>3. ASSUME NEW kind \in Kinds, Adds(kind), UNCHANGED resolution PROVE Elsewhere
  BY <1>3 DEF Adds, Adding, Added, Elsewhere
<1>4. CASE AddThing
  <2>1. CASE addDictionary
    BY <1>3, <1>4, <2>1 DEF AddThing, addDictionary, Adds, Store, StoreUnder, Kinds
  <2>2. CASE addCallback
    BY <1>3, <1>4, <2>2 DEF AddThing, addCallback, Adds, Store, StoreUnder, Kinds
  <2>3. CASE addInterface
    BY <1>3, <1>4, <2>3 DEF AddThing, addInterface, Adds, Store, StoreUnder, Kinds
  <2>. QED BY <1>4, <2>1, <2>2, <2>3 DEF AddThing
<1>5. CASE AddEnum
  BY <1>3, <1>5 DEF AddEnum, addEnum, Adds, Store, StoreUnder, Kinds
<1>6. CASE AddNothing
  <2>1. CASE addEmptyEnum
    BY <1>6, <2>1 DEF AddNothing, addEmptyEnum, Refuse, Throw, Adding, Elsewhere
  <2>2. CASE addUntypedInterface
    BY <1>6, <2>2 DEF AddNothing, addUntypedInterface, Refuse, Throw, Adding, Elsewhere
  <2>3. CASE skipTypedef
    BY <1>6, <2>3 DEF AddNothing, skipTypedef, Adding, Elsewhere
  <2>. QED BY <1>6, <2>1, <2>2, <2>3 DEF AddNothing
<1>7. CASE ReportReusedNames
  BY <1>0, <1>7 DEF ReportReusedNames, report_reused_names, Throw, Elsewhere
<1>8. CASE processTypeCheckQueue
  BY <1>0, <1>8 DEF processTypeCheckQueue, Proceed, Elsewhere
<1>9. CASE UnsupportedType
  BY <1>9 DEF UnsupportedType, Proceed, Elsewhere
<1>10. CASE convert_list_of_array_types_to_dictionaries
  BY <1>0, <1>10 DEF convert_list_of_array_types_to_dictionaries, Proceed, Elsewhere
<1>11. CASE build_composite_types
  BY <1>0, <1>11 DEF build_composite_types, Proceed, Elsewhere
<1>12. CASE fix_non_intrinsics_lists
  BY <1>0, <1>12 DEF fix_non_intrinsics_lists, Proceed, Elsewhere
<1>13. CASE fix_externalTypes_lists
  BY <1>0, <1>13 DEF fix_externalTypes_lists, Proceed, Elsewhere
<1>14. CASE Stop
  BY <1>1, <1>14 DEF Stop
<1>. QED
  BY <1>1, <1>2, <1>4, <1>5, <1>6, <1>7, <1>8, <1>9, <1>10, <1>11, <1>12, <1>13, <1>14, Zenon DEF Next

(* All typedefs wait, none is resolved. *)
LEMMA WaitingNames ==
  ASSUME Input, RecordTypedefs, TypedefsInv', pc = "typedefs", input' = input
  PROVE  /\ waiting' \in Seq(Typedefs') /\ ToSet(waiting') = Typedefs'
         /\ ultimate_typename' = [n \in Typedefs' |-> NoType]
         /\ pc' = "checking" /\ error' = error
         /\ current' = current /\ tree_members' = tree_members
<1>. DEFINE declared == Kept(ast, {t \in Range(ast) : t.kind = "typedef"})
            names == [k \in DOMAIN declared |-> fix_type_name(declared[k].name)]
<1>1. waiting' = names /\ ultimate_typename' = [n \in Range(names) |-> NoType]
  BY DEF RecordTypedefs
<1>2. ast \in Seq(Range(ast)) /\ Range(ast) = ToSet(ast)
  BY InputFacts, ListFacts
<1>3. /\ declared \in Seq(Range(ast))
      /\ ToSet(declared) = {t \in Range(ast) : t.kind = "typedef"}
  BY <1>2, KeptPlaces, MembersOfKept
<1>4. /\ Len(declared) \in Nat /\ DOMAIN declared = 1 .. Len(declared)
      /\ \A e : e \in ToSet(declared) <=> \E i \in 1 .. Len(declared) : declared[i] = e
  BY <1>3, Members
<1>5. Typedefs' = {fix_type_name(ast[i].name) : i \in TypedefsOf}
  <2>1. pc' = "checking"
    BY DEF RecordTypedefs, record_typedefs
  <2>. QED BY <2>1 DEF TypedefsInv, Typedefs, ast, fix_type_name, TypedefsOf
<1>. HIDE DEF declared
<1>6. \A n : n \in Typedefs' <=> \E t \in ToSet(declared) : fix_type_name(t.name) = n
  <2>1. \A n : n \in Typedefs' <=> \E i \in TypedefsOf : fix_type_name(ast[i].name) = n
    BY <1>5
  <2>2. /\ \A i \in TypedefsOf : ast[i] \in ToSet(declared)
        /\ \A t \in ToSet(declared) : \E i \in TypedefsOf : t = ast[i]
    BY <1>3, InputFacts DEF TypedefsOf
  <2>. QED BY <2>1, <2>2
<1>7. \A n : n \in Typedefs' <=> \E i \in 1 .. Len(declared) : names[i] = n
  BY <1>4, <1>6
<1>8. names \in [1 .. Len(declared) -> Typedefs']
  BY <1>4, <1>7
<1>. HIDE DEF names
<1>9. names \in Seq(Typedefs') /\ Len(names) = Len(declared)
  BY <1>4, <1>8, TupleIsSeq
<1>10. ToSet(names) = Typedefs'
  <2>1. \A n : n \in ToSet(names) <=> \E i \in 1 .. Len(names) : names[i] = n
    BY <1>9, Members
  <2>. QED BY <1>7, <1>9, <2>1
<1>11. Range(names) = ToSet(names)
  BY DEF Range, ToSet
<1>. QED BY <1>1, <1>9, <1>10, <1>11 DEF RecordTypedefs, record_typedefs

LEMMA ResolutionStep ==
  ASSUME Progress, TypedefsInv, ResolutionInv, [Next]_vars
  PROVE  ResolutionInv'
<1>0. Input /\ input' = input /\ Progress' /\ TypedefsInv'
  BY ProgressStep, TypedefsStep DEF Progress
<1>1. IsFiniteSet(Typedefs) /\ Cardinality(Typedefs) \in Nat /\ NoType \notin Typedefs
  BY <1>0, TypedefsFacts
<1>2. ToSet(<< >>) = {} /\ << >> \in Seq(Typedefs) /\ << >> \in Seq(Typedefs') /\ Len(<< >>) = 0 /\ Distinct(<< >>)
  BY DEF ToSet, Distinct
<1>3. CASE RecordTypedefs
  <2>1. pc = "typedefs" /\ tree_members = << >> /\ current = NoType
    BY <1>3 DEF RecordTypedefs, record_typedefs, ResolutionInv
  <2>2. /\ waiting' \in Seq(Typedefs') /\ ToSet(waiting') = Typedefs'
        /\ ultimate_typename' = [n \in Typedefs' |-> NoType]
        /\ pc' = "checking" /\ error' = error
        /\ current' = current /\ tree_members' = tree_members
    BY <1>0, <1>3, <2>1, WaitingNames
  <2>3. error = "none"
    BY <2>1 DEF Progress
  <2>4. \A i \in 1 .. Len(tree_members') : FALSE
    BY <1>2, <2>1, <2>2
  <2>5. \A t \in Typedefs' : ultimate_typename'[t] = NoType
    BY <2>2
  <2>. QED BY <1>2, <2>1, <2>2, <2>3, <2>4, <2>5 DEF ResolutionInv, Resolved
<1>4. pc # "typedefs" => typedefs' = typedefs
  BY TypedefsStep
<1>5. ASSUME typedefs' = typedefs
      PROVE  /\ Typedefs' = Typedefs
             /\ \A k : alias(k)' = alias(k) /\ Reaches(k)' = Reaches(k) /\ Looping(k)' = Looping(k)
  BY <1>0, <1>5, SameWalks
<1>6. CASE Elsewhere
  <2>1. UNCHANGED <<waiting, current, tree_members, ultimate_typename>> /\ typedefs' = typedefs
    BY <1>6 DEF Elsewhere, resolution
  <2>2. \A t \in Typedefs : Resolved(t)' = Resolved(t)
    BY <2>1 DEF Resolved
  <2>3. /\ pc' = "typedefs" => waiting = << >> /\ current = NoType /\ tree_members = << >>
        /\ pc' # "typedefs" => DOMAIN ultimate_typename = Typedefs
        /\ error' = "Loop_in_typedefs" => \E t \in Typedefs : Looping(t)
        /\ pc' \notin {"typedefs", "checking"} /\ error' # "Loop_in_typedefs" =>
             current = NoType /\ waiting = << >>
    <3>1. CASE pc' = pc /\ error' = error
      BY <3>1 DEF ResolutionInv
    <3>2. CASE pc = "checking" /\ ~ Resolving /\ error = "none" /\ error' # "Loop_in_typedefs" /\ pc' # "typedefs"
      BY <3>2 DEF ResolutionInv, Resolving
    <3>3. CASE pc \notin {"typedefs", "checking", "refused"} /\ error' # "Loop_in_typedefs" /\ pc' # "typedefs"
      <4>1. error = "none"
        BY <3>3 DEF Progress
      <4>. QED BY <3>3, <4>1 DEF ResolutionInv
    <3>. QED BY <1>6, <3>1, <3>2, <3>3 DEF Elsewhere
  <2>. QED BY <1>5, <2>1, <2>2, <2>3 DEF ResolutionInv
<1>7. CASE StartTypedef
  <2>1. /\ pc = "checking" /\ current = NoType /\ waiting # << >> /\ tree_members = << >>
        /\ current' = Head(waiting) /\ waiting' = Tail(waiting) /\ tree_members' = << >>
        /\ UNCHANGED <<typedefs, ultimate_typename, pc, error>>
    BY <1>7 DEF StartTypedef, Resolving, names_vars, ResolutionInv
  <2>2. /\ Head(waiting) \in Typedefs /\ Tail(waiting) \in Seq(Typedefs)
        /\ ToSet(waiting) = {Head(waiting)} \cup ToSet(Tail(waiting))
    BY <2>1, HeadTailFacts DEF ResolutionInv
  <2>3. \A t \in Typedefs : Resolved(t)' = Resolved(t)
    BY <2>1 DEF Resolved
  <2>4. \A i \in 1 .. Len(tree_members') : FALSE
    BY <1>2, <2>1
  <2>. QED BY <1>1, <1>2, <1>5, <2>1, <2>2, <2>3, <2>4 DEF ResolutionInv
<1>8. CASE ThrowLoop
  <2>1. /\ pc = "checking" /\ current \in Range(tree_members)
        /\ pc' = "refused" /\ error' = "Loop_in_typedefs"
        /\ UNCHANGED <<typedefs, waiting, current, tree_members, ultimate_typename>>
    BY <1>8 DEF ThrowLoop, Resolving, includes, Throw, resolution
  <2>. DEFINE n == Len(tree_members)
  <2>2. /\ tree_members \in Seq(Typedefs) /\ n \in Nat
        /\ DOMAIN tree_members = 1 .. n /\ \A i \in 1 .. n : tree_members[i] \in Typedefs
    BY Members DEF ResolutionInv
  <2>3. PICK j \in 1 .. n : tree_members[j] = current
    BY <2>1, <2>2 DEF Range
  <2>4. \A i \in 1 .. n : alias(tree_members[i]) = IF i = n THEN current ELSE tree_members[i + 1]
    BY DEF ResolutionInv
  <2>. DEFINE C == {tree_members[i] : i \in j .. n}
  <2>5. \A c \in C : alias(c) \in C
    <3>. SUFFICES ASSUME NEW i \in j .. n PROVE alias(tree_members[i]) \in C
      OBVIOUS
    <3>1. i \in 1 .. n /\ j \in j .. n /\ (i # n => i + 1 \in j .. n)
      <4>1. n \in Nat
        BY <2>2
      <4>. HIDE DEF n
      <4>. QED BY <4>1
    <3>2. tree_members[j] \in C /\ (i # n => tree_members[i + 1] \in C)
      BY <3>1
    <3>. HIDE DEF C
    <3>. QED BY <2>3, <2>4, <3>1, <3>2
  <2>6. C \subseteq Typedefs /\ current \in C
    <3>1. \A i \in j .. n : i \in 1 .. n
      BY <2>2
    <3>2. j \in j .. n
      BY <2>2
    <3>. QED BY <2>2, <2>3, <3>1, <3>2
  <2>. HIDE DEF C
  <2>7. Looping(current)
    BY <1>1, <2>5, <2>6, ClosedSetLoops
  <2>8. \A t \in Typedefs : Resolved(t)' = Resolved(t)
    BY <2>1 DEF Resolved
  <2>9. \E t \in Typedefs : Looping(t)
    BY <2>6, <2>7
  <2>. HIDE DEF n
  <2>. QED BY <1>5, <2>1, <2>8, <2>9 DEF ResolutionInv
<1>9. ASSUME Calling
      PROVE  /\ pc = "checking" /\ current \in Typedefs /\ current \notin ToSet(tree_members)
             /\ error = "none"
  BY <1>9 DEF Calling, Resolving, ResolutionInv, includes, Range, ToSet, Progress
<1>10. CASE FollowAlias
  <2>1. /\ tree_members' = Append(tree_members, current) /\ current' = alias(current)
        /\ alias(current) \in Typedefs /\ Calling
        /\ UNCHANGED <<typedefs, waiting, ultimate_typename, pc, error>>
    BY <1>10 DEF FollowAlias, names_vars
  <2>. DEFINE n == Len(tree_members)
  <2>2. tree_members \in Seq(Typedefs) /\ Distinct(tree_members) /\ n \in Nat
    BY Members DEF ResolutionInv
  <2>3. /\ tree_members' \in Seq(Typedefs) /\ Distinct(tree_members')
        /\ ToSet(tree_members') = ToSet(tree_members) \cup {current}
    BY <1>9, <2>1, <2>2, AppendedMembers
  <2>4. /\ Len(tree_members') = n + 1
        /\ \A i \in 1 .. n : tree_members'[i] = tree_members[i]
        /\ tree_members'[n + 1] = current
    BY <1>9, <2>1, <2>2, AppendProperties
  <2>5. \A i \in 1 .. n : alias(tree_members[i]) = IF i = n THEN current ELSE tree_members[i + 1]
    BY DEF ResolutionInv
  <2>6. \A i \in 1 .. Len(tree_members') :
          alias(tree_members'[i]) = IF i = Len(tree_members') THEN current' ELSE tree_members'[i + 1]
    <3>. TAKE i \in 1 .. Len(tree_members')
    <3>1. CASE i = n + 1
      BY <2>1, <2>4, <3>1
    <3>2. CASE i # n + 1
      <4>1. i \in 1 .. n /\ (i # n => i + 1 \in 1 .. n)
        BY <2>2, <2>4, <3>2
      <4>2. alias(tree_members'[i]) = IF i = n THEN current ELSE tree_members[i + 1]
        BY <2>4, <2>5, <4>1
      <4>3. i # Len(tree_members')
        BY <2>4, <3>2
      <4>4. CASE i = n
        BY <2>4, <4>2, <4>3, <4>4
      <4>5. CASE i # n
        BY <2>4, <4>1, <4>2, <4>3, <4>5
      <4>. QED BY <4>4, <4>5
    <3>. QED BY <3>1, <3>2
  <2>7. \A t \in Typedefs : Resolved(t)' = Resolved(t)
    BY <2>1 DEF Resolved
  <2>. HIDE DEF n
  <2>. QED BY <1>1, <1>5, <1>9, <2>1, <2>3, <2>6, <2>7 DEF ResolutionInv
<1>11. CASE ReachRoot
  <2>1. /\ ultimate_typename' = [ultimate_typename EXCEPT ![current] = alias(current)]
        /\ alias(current) \notin Typedefs /\ Calling
        /\ UNCHANGED <<typedefs, waiting, current, tree_members, pc, error>>
    BY <1>11 DEF ReachRoot, names_vars
  <2>2. DOMAIN ultimate_typename = Typedefs /\ current \in Typedefs /\ pc = "checking"
    BY <1>9, <2>1 DEF ResolutionInv
  <2>3. /\ DOMAIN ultimate_typename' = Typedefs
        /\ ultimate_typename'[current] = alias(current)
        /\ \A t \in Typedefs : t # current => ultimate_typename'[t] = ultimate_typename[t]
    BY <2>1, <2>2
  <2>4. Reaches(alias(current)) = alias(current)
    BY <1>1, <2>1, ReachesItself
  <2>5. ~ Looping(alias(current))
    BY <2>1, <2>4 DEF Looping
  <2>6. ~ Looping(current) /\ Reaches(current) = alias(current)
    BY <1>1, <2>2, <2>4, <2>5, ReachesAlias
  <2>7. alias(current) # NoType
    BY <1>0, <2>2, AliasFacts
  <2>8. \A t \in Typedefs : Resolved(t)' <=> (t = current \/ Resolved(t))
    BY <2>3, <2>7 DEF Resolved
  <2>9. \A t \in Typedefs : Resolved(t)' => ultimate_typename'[t] = Reaches(t) /\ ~ Looping(t)
    BY <2>3, <2>6, <2>8 DEF ResolutionInv
  <2>. QED BY <1>5, <2>1, <2>2, <2>3, <2>8, <2>9 DEF ResolutionInv
<1>12. CASE Return /\ tree_members = << >>
  <2>1. /\ current' = NoType /\ Calling /\ Resolved(current)
        /\ UNCHANGED <<typedefs, waiting, tree_members, ultimate_typename, pc, error>>
    BY <1>12 DEF Return, names_vars, Resolved
  <2>2. \A t \in Typedefs : Resolved(t)' = Resolved(t)
    BY <2>1 DEF Resolved
  <2>3. \A i \in 1 .. Len(tree_members') : FALSE
    BY <1>2, <1>12, <2>1
  <2>4. \A t \in Typedefs : Resolved(t) \/ t \in ToSet(waiting) \/ t \in ToSet(tree_members)
    BY <2>1 DEF ResolutionInv
  <2>. QED BY <1>5, <1>9, <1>12, <2>1, <2>2, <2>3, <2>4 DEF ResolutionInv
<1>13. CASE Return /\ tree_members # << >>
  <2>. DEFINE caller == Last(tree_members)
              n == Len(tree_members)
  <2>1. /\ ultimate_typename' = [ultimate_typename EXCEPT ![caller] = ultimate_typename[current]]
        /\ current' = caller /\ tree_members' = Front(tree_members) /\ Calling /\ Resolved(current)
        /\ UNCHANGED <<typedefs, waiting, pc, error>>
    BY <1>13 DEF Return, names_vars, Resolved, PassedOn
  <2>2. DOMAIN ultimate_typename = Typedefs /\ current \in Typedefs /\ pc = "checking" /\ error = "none"
    BY <1>9, <2>1 DEF ResolutionInv
  <2>3. /\ Front(tree_members) \in Seq(Typedefs) /\ caller \in Typedefs
        /\ n \in Nat /\ n # 0 /\ Len(Front(tree_members)) = n - 1
        /\ \A i \in 1 .. n - 1 : Front(tree_members)[i] = tree_members[i]
        /\ caller = tree_members[n]
        /\ ToSet(tree_members) = ToSet(Front(tree_members)) \cup {caller}
        /\ Distinct(Front(tree_members))
    BY <1>13, FrontFacts DEF ResolutionInv
  <2>4. \A i \in 1 .. n : alias(tree_members[i]) = IF i = n THEN current ELSE tree_members[i + 1]
    BY DEF ResolutionInv
  <2>. HIDE DEF caller, n
  <2>5. alias(caller) = current
    BY <2>3, <2>4
  <2>6. ultimate_typename[current] = Reaches(current) /\ ~ Looping(current)
    BY <2>1, <2>2 DEF ResolutionInv
  <2>7. ~ Looping(caller) /\ Reaches(caller) = Reaches(current)
    BY <1>1, <2>3, <2>5, <2>6, ReachesAlias
  <2>8. /\ DOMAIN ultimate_typename' = Typedefs
        /\ ultimate_typename'[caller] = ultimate_typename[current]
        /\ \A t \in Typedefs : t # caller => ultimate_typename'[t] = ultimate_typename[t]
    BY <2>1, <2>2, <2>3
  <2>9. \A t \in Typedefs : Resolved(t)' <=> (t = caller \/ Resolved(t))
    BY <2>1, <2>8 DEF Resolved
  <2>10. \A t \in Typedefs : Resolved(t)' => ultimate_typename'[t] = Reaches(t) /\ ~ Looping(t)
    BY <2>6, <2>7, <2>8, <2>9 DEF ResolutionInv
  <2>11. \A t \in Typedefs :
           Resolved(t)' \/ t \in ToSet(waiting) \/ t \in ToSet(Front(tree_members)) \/ t = caller
    BY <2>1, <2>3, <2>9 DEF ResolutionInv
  <2>12. \A i \in 1 .. Len(tree_members') :
           alias(tree_members'[i]) = IF i = Len(tree_members') THEN current' ELSE tree_members'[i + 1]
    <3>. TAKE i \in 1 .. Len(tree_members')
    <3>1. /\ i \in 1 .. n - 1 /\ i \in 1 .. n /\ i # n /\ (i = n - 1 => i + 1 = n)
          /\ (i # n - 1 => i + 1 \in 1 .. n - 1) /\ Len(tree_members') = n - 1
      BY <2>1, <2>3
    <3>2. alias(tree_members'[i]) = tree_members[i + 1]
      BY <2>1, <2>3, <2>4, <3>1
    <3>3. CASE i = n - 1
      BY <2>1, <2>3, <3>1, <3>2, <3>3
    <3>4. CASE i # n - 1
      BY <2>1, <2>3, <3>1, <3>2, <3>4
    <3>. QED BY <3>3, <3>4
  <2>13. caller # NoType
    BY <1>1, <2>3
  <2>. QED BY <1>5, <2>1, <2>2, <2>3, <2>8, <2>10, <2>11, <2>12, <2>13 DEF ResolutionInv
<1>. QED BY <1>3, <1>6, <1>7, <1>8, <1>10, <1>11, <1>12, <1>13, ResolutionSteps

Core == Progress /\ SeenInv /\ TypedefsInv /\ ResolutionInv

LEMMA CoreStart ==
  ASSUME Init
  PROVE  Core
BY ProgressStart, TypedefsStart, ResolutionStart DEF Core

LEMMA CoreStep ==
  ASSUME Core, [Next]_vars
  PROVE  Core'
BY ProgressStep, SeenStep, TypedefsStep, ResolutionStep DEF Core

LEMMA CoreInvariant == Spec => []Core
<1>1. Init => Core
  BY CoreStart
<1>2. Core /\ [Next]_vars => Core'
  BY CoreStep
<1>. QED BY <1>1, <1>2, PTL DEF Spec

LEMMA DistinctIsShort ==
  ASSUME NEW A, IsFiniteSet(A), NEW s \in Seq(A), Distinct(s)
  PROVE  Len(s) <= Cardinality(A)
<1>1. /\ Len(s) \in Nat /\ DOMAIN s = 1 .. Len(s) /\ \A i \in 1 .. Len(s) : s[i] \in A
      /\ s \in [1 .. Len(s) -> A]
  BY Members, LenProperties
<1>2. s \in Injection(1 .. Len(s), A)
  <2>. DEFINE n == Len(s)
  <2>1. s \in [1 .. n -> A] /\ \A i, j \in 1 .. n : s[i] = s[j] => i = j
    BY <1>1 DEF Distinct
  <2>. HIDE DEF n
  <2>2. s \in Injection(1 .. n, A)
    BY <2>1 DEF Injection, IsInjective
  <2>. QED BY <2>2 DEF n
<1>3. Cardinality(1 .. Len(s)) = Len(s)
  <2>. DEFINE n == Len(s)
  <2>1. n \in Nat
    BY <1>1
  <2>. HIDE DEF n
  <2>2. Cardinality(1 .. n) = n
    BY <2>1, FS_Interval
  <2>. QED BY <2>2 DEF n
<1>4. Cardinality(1 .. Len(s)) <= Cardinality(A)
  BY <1>2, FS_Injection
<1>. QED BY <1>3, <1>4

(* Whatever the file: every variable of augment holds what its type says,    *)
(* find_ultimate_typename's stack repeats no typedef, so that it is never    *)
(* longer than there are typedefs (AugmentedAST.js:419).                     *)
THEOREM TypeCorrect == Spec => []TypeOK
<1>1. ASSUME Core PROVE TypeOK
  <2>0. Input
    BY <1>1 DEF Core, Progress
  <2>1. NamesTypeOK
    BY <1>1, NamesTypeCorrect DEF Core
  <2>2. /\ pc \in {"typedefs", "checking", "adding", "accepted", "arrays", "composites",
                   "non_intrinsics", "externals", "done", "refused"}
        /\ error \in {"none", "reserved", "no_values", "no_return_type", "duplicate_names",
                      "Loop_in_typedefs", "Unsupported_type"}
    BY <1>1 DEF Core, Progress, Late
  <2>3. /\ pc # "typedefs" => DOMAIN ultimate_typename = Typedefs
        /\ current \in Typedefs \union {NoType}
        /\ tree_members \in Seq(Typedefs) /\ Distinct(tree_members)
    BY <1>1 DEF Core, ResolutionInv
  <2>4. Range(tree_members) \subseteq Typedefs
    BY <2>3, IsListOf
  <2>5. Len(tree_members) <= Cardinality(Typedefs)
    BY <1>1, <2>0, <2>3, TypedefsFacts, DistinctIsShort DEF Core
  <2>. QED BY <2>1, <2>2, <2>3, <2>4, <2>5 DEF TypeOK
<1>. QED BY <1>1, CoreInvariant, PTL

----------------------------------------------------------------------------
(* What was recorded of the constructs that augment has looked at. *)
Looked == {i \in DOMAIN ast : IF ast[i].kind = "typedef" THEN pc # "typedefs" ELSE i < next}

LookedTypes == UNION {Range(ast[i].types) : i \in Looked}

Externals(thing) == IF thing.kind = "enum" THEN {} ELSE Range(thing.externalTypes)

RecordedInv ==
  /\ array_types = UNION {create_array_type(e) : e \in LookedTypes}
  /\ composites = UNION {create_composite_type(e) : e \in LookedTypes}
  /\ typeCheckQueue = {fix_type_name(ast[i].name) : i \in Looked} \cup UNION {Queued(e) : e \in LookedTypes}
  /\ allExternalTypes = UNION {Externals(ast[i]) : i \in Looked}

LEMMA RecordedStart ==
  ASSUME Init
  PROVE  RecordedInv
<1>1. Input /\ next = 1 /\ pc = "typedefs"
  BY DEF Init, NamesInit, Input
<1>2. Looked = {}
  BY <1>1, InputFacts DEF Looked
<1>3. LookedTypes = {}
  BY <1>2 DEF LookedTypes
<1>. QED BY <1>2, <1>3 DEF Init, RecordedInv

(* More constructs are looked at. *)
LEMMA Recorded ==
  ASSUME RecordedInv, input' = input, NEW I, Looked' = Looked \cup I,
         Record(UNION {Range(ast[i].types) : i \in I}, {fix_type_name(ast[i].name) : i \in I},
                UNION {Externals(ast[i]) : i \in I})
  PROVE  RecordedInv'
<1>. DEFINE types == UNION {Range(ast[i].types) : i \in I}
<1>1. ast' = ast
  BY DEF ast
<1>2. LookedTypes' = LookedTypes \cup types
  BY <1>1 DEF LookedTypes
<1>3. array_types' = UNION {create_array_type(e) : e \in LookedTypes \cup types}
  BY DEF RecordedInv, Record
<1>4. composites' = UNION {create_composite_type(e) : e \in LookedTypes \cup types}
  BY DEF RecordedInv, Record
<1>5. typeCheckQueue' = {fix_type_name(ast[i].name) : i \in Looked \cup I}
                          \cup UNION {Queued(e) : e \in LookedTypes \cup types}
  BY DEF RecordedInv, Record
<1>6. allExternalTypes' = UNION {Externals(ast[i]) : i \in Looked \cup I}
  BY DEF RecordedInv, Record
<1>7. \A i : Externals(ast[i])' = Externals(ast[i])
  BY <1>1 DEF Externals
<1>. QED BY <1>1, <1>2, <1>3, <1>4, <1>5, <1>6, <1>7 DEF RecordedInv

(* The steps of augment as these records see them. *)
AddsOne(kind) ==
  /\ Adding(kind) /\ next' = next + 1 /\ UNCHANGED <<input, pc>>
  /\ Record(Range(this_thing.types), {fix_type_name(this_thing.name)}, Externals(this_thing))

Idle ==
  /\ UNCHANGED used
  /\ pc' = "typedefs" <=> pc = "typedefs"
  /\ next' = next \/ skipTypedef

LEMMA RecordSteps ==
  ASSUME Progress, [Next]_vars
  PROVE  RecordTypedefs \/ (\E kind \in Kinds : AddsOne(kind)) \/ Idle
<1>1. CASE UNCHANGED vars
  BY <1>1 DEF vars, names_vars, Idle
<1>2. CASE StartTypedef \/ FollowAlias \/ ReachRoot \/ Return
  BY <1>2 DEF StartTypedef, FollowAlias, ReachRoot, Return, names_vars, Idle
<1>3. CASE ThrowLoop
  BY <1>3 DEF ThrowLoop, Throw, Resolving, Idle
<1>4. CASE FixNames
  BY <1>4 DEF FixNames, fix_names, Throw, Idle
<1>5. CASE AddThing
  <2>1. CASE addDictionary
    BY <1>5, <2>1 DEF AddThing, addDictionary, Adding, Added, AddsOne, Externals, Kinds
  <2>2. CASE addCallback
    BY <1>5, <2>2 DEF AddThing, addCallback, Adding, Added, AddsOne, Externals, Kinds
  <2>3. CASE addInterface
    BY <1>5, <2>3 DEF AddThing, addInterface, Adding, Added, AddsOne, Externals, Kinds
  <2>. QED BY <1>5, <2>1, <2>2, <2>3 DEF AddThing
<1>6. CASE AddEnum
  <2>1. /\ Adding("enum") /\ next' = next + 1 /\ UNCHANGED <<input, pc>> /\ this_thing.kind = "enum"
        /\ Record({}, {fix_type_name(this_thing.name)}, {})
    BY <1>6 DEF AddEnum, addEnum, Adding, Added
  <2>2. this_thing \in Range(ast)
    <3>1. Len(ast) \in Nat /\ next \in 1 .. Len(ast) + 1 /\ next <= Len(ast)
      BY <2>1, InputFacts DEF Progress, Adding
    <3>2. next \in 1 .. Len(ast)
      BY <3>1
    <3>3. Input
      BY DEF Progress
    <3>. QED BY <3>2, <3>3, InputFacts DEF this_thing
  <2>3. this_thing.types = << >>
    BY <2>1, <2>2, InputFacts DEF Progress
  <2>4. Range(this_thing.types) = {} /\ Externals(this_thing) = {}
    BY <2>1, <2>3 DEF Range, Externals
  <2>5. AddsOne("enum")
    BY <2>1, <2>4 DEF AddsOne
  <2>. QED BY <2>5 DEF Kinds
<1>7. CASE AddNothing
  <2>1. CASE addEmptyEnum
    BY <1>7, <2>1 DEF AddNothing, addEmptyEnum, Refuse, Throw, Adding, Idle
  <2>2. CASE addUntypedInterface
    BY <1>7, <2>2 DEF AddNothing, addUntypedInterface, Refuse, Throw, Adding, Idle
  <2>3. CASE skipTypedef
    BY <1>7, <2>3 DEF AddNothing, skipTypedef, Adding, Idle
  <2>. QED BY <1>7, <2>1, <2>2, <2>3 DEF AddNothing
<1>8. CASE ReportReusedNames
  BY <1>8 DEF ReportReusedNames, report_reused_names, Throw, Idle
<1>9. CASE processTypeCheckQueue \/ UnsupportedType \/ convert_list_of_array_types_to_dictionaries
           \/ build_composite_types \/ fix_non_intrinsics_lists \/ fix_externalTypes_lists
  BY <1>9 DEF processTypeCheckQueue, UnsupportedType, convert_list_of_array_types_to_dictionaries,
              build_composite_types, fix_non_intrinsics_lists, fix_externalTypes_lists, Proceed, Idle
<1>10. CASE Stop
  BY <1>1, <1>10 DEF Stop
<1>. QED BY <1>1, <1>2, <1>3, <1>4, <1>5, <1>6, <1>7, <1>8, <1>9, <1>10, Zenon DEF Next

LEMMA LookedNext ==
  ASSUME Input, next \in 1 .. Len(ast), ast[next].kind # "typedef", next' = next + 1,
         UNCHANGED <<input, pc>>
  PROVE  Looked' = Looked \cup {next}
<1>1. ast' = ast /\ Len(ast) \in Nat /\ DOMAIN ast = 1 .. Len(ast)
  BY InputFacts DEF ast
<1>2. \A i \in 1 .. Len(ast) : i < next + 1 <=> (i < next \/ i = next)
  BY <1>1
<1>. QED BY <1>1, <1>2 DEF Looked

LEMMA RecordedStep ==
  ASSUME Progress, RecordedInv, [Next]_vars
  PROVE  RecordedInv'
<1>1. Input /\ input' = input /\ ast' = ast
  BY ProgressStep DEF Progress, ast
<1>2. /\ Len(ast) \in Nat /\ DOMAIN ast = 1 .. Len(ast)
      /\ \A i \in 1 .. Len(ast) : ast[i] \in Range(ast)
      /\ \A thing \in Range(ast) : \E i \in 1 .. Len(ast) : thing = ast[i]
  BY <1>1, InputFacts
<1>3. next \in 1 .. Len(ast) + 1
  BY DEF Progress
<1>4. CASE RecordTypedefs
  <2>. DEFINE declared == Kept(ast, {t \in Range(ast) : t.kind = "typedef"})
              things == {t \in Range(ast) : t.kind = "typedef"}
              names == [k \in DOMAIN declared |-> fix_type_name(declared[k].name)]
  <2>1. /\ pc = "typedefs" /\ pc' = "checking" /\ next' = next /\ next = 1
        /\ Record({t.types[1] : t \in Range(declared)}, Range(names),
                  UNION {Range(t.externalTypes) : t \in Range(declared)})
    BY <1>4 DEF RecordTypedefs, record_typedefs, Progress, Early
  <2>2. Range(declared) = things
    <3>1. ast \in Seq(Range(ast)) /\ Range(ast) = ToSet(ast)
      BY <1>1, InputFacts, ListFacts
    <3>2. declared \in Seq(Range(ast)) /\ ToSet(declared) = things
      BY <3>1, KeptPlaces, MembersOfKept
    <3>. HIDE DEF declared
    <3>. QED BY <3>2, IsListOf
  <2>3. \A t : t \in things <=> \E i \in TypedefsOf : t = ast[i]
    BY <1>2 DEF TypedefsOf
  <2>4. Looked' = Looked \cup TypedefsOf
    BY <1>1, <2>1 DEF Looked, TypedefsOf
  <2>5. {t.types[1] : t \in things} = UNION {Range(ast[i].types) : i \in TypedefsOf}
    <3>1. \A i \in TypedefsOf : Range(ast[i].types) = {ast[i].types[1]}
      <4>. TAKE i \in TypedefsOf
      <4>1. IsList(ast[i].types) /\ Len(ast[i].types) = 1
        BY <1>1, <1>2, InputFacts DEF TypedefsOf
      <4>2. \A e : e \in Range(ast[i].types) <=> \E k \in 1 .. 1 : ast[i].types[k] = e
        BY <4>1, ListFacts
      <4>. QED BY <4>2
    <3>. QED BY <2>3, <3>1
  <2>6. Range(names) = {fix_type_name(ast[i].name) : i \in TypedefsOf}
    <3>. HIDE DEF declared, things
    <3>1. Range(names) = {fix_type_name(t.name) : t \in Range(declared)}
      BY DEF Range
    <3>. HIDE DEF names
    <3>. QED BY <2>2, <2>3, <3>1
  <2>7. UNION {Range(t.externalTypes) : t \in things} = UNION {Externals(ast[i]) : i \in TypedefsOf}
    <3>1. \A i \in TypedefsOf : Externals(ast[i]) = Range(ast[i].externalTypes)
      BY DEF TypedefsOf, Externals
    <3>. QED BY <2>3, <3>1
  <2>. HIDE DEF declared, things, names
  <2>8. Record(UNION {Range(ast[i].types) : i \in TypedefsOf}, {fix_type_name(ast[i].name) : i \in TypedefsOf},
               UNION {Externals(ast[i]) : i \in TypedefsOf})
    BY <2>1, <2>2, <2>5, <2>6, <2>7
  <2>. QED BY <1>1, <2>4, <2>8, Recorded
<1>5. ASSUME NEW kind \in Kinds, AddsOne(kind) PROVE RecordedInv'
  <2>1. PICK u : u = next
    OBVIOUS
  <2>2. u \in 1 .. Len(ast) /\ this_thing = ast[u] /\ ast[u].kind # "typedef"
    BY <1>2, <1>3, <1>5, <2>1 DEF AddsOne, Adding, this_thing, Kinds
  <2>3. Looked' = Looked \cup {u}
    BY <1>1, <1>5, <2>1, <2>2, LookedNext DEF AddsOne
  <2>4. /\ Record(Range(ast[u].types), {fix_type_name(ast[u].name)}, Externals(ast[u]))
        /\ Range(ast[u].types) = UNION {Range(ast[i].types) : i \in {u}}
        /\ {fix_type_name(ast[u].name)} = {fix_type_name(ast[i].name) : i \in {u}}
        /\ Externals(ast[u]) = UNION {Externals(ast[i]) : i \in {u}}
    BY <1>5, <2>2 DEF AddsOne
  <2>. QED BY <1>1, <2>3, <2>4, Recorded
<1>6. CASE Idle
  <2>1. Looked' = Looked
    <3>1. CASE next' = next
      BY <1>1, <1>6, <3>1 DEF Idle, Looked
    <3>2. CASE skipTypedef
      <4>1. next' = next + 1 /\ pc' = pc /\ ast[next].kind = "typedef"
        BY <3>2 DEF skipTypedef, Adding, this_thing
      <4>2. \A i \in 1 .. Len(ast) : i < next + 1 <=> (i < next \/ i = next)
        BY <1>2, <1>3
      <4>. QED BY <1>1, <1>2, <4>1, <4>2 DEF Looked
    <3>. QED BY <1>6, <3>1, <3>2 DEF Idle
  <2>2. LookedTypes' = LookedTypes /\ \A i : Externals(ast[i])' = Externals(ast[i])
    BY <1>1, <2>1 DEF LookedTypes, Externals
  <2>3. UNCHANGED <<array_types, composites, allExternalTypes, typeCheckQueue>>
    BY <1>6 DEF Idle, used
  <2>. QED BY <1>1, <2>1, <2>2, <2>3 DEF RecordedInv
<1>. QED BY <1>4, <1>5, <1>6, RecordSteps

----------------------------------------------------------------------------
(* What the constructs that were added have in the tables. *)
StoredFor(i) ==
  LET thing == ast[i]
      arguments == fixed(thing.names)
  IN  CASE thing.kind = "dictionary" -> Stored(thing.names, arguments, << >>)
        [] thing.kind = "callback" -> Stored(arguments, arguments, << >>)
        [] thing.kind = "enum" ->
             Stored(thing.names,
                    [k \in DOMAIN thing.names |-> fix_enum(expand_enums(thing, thing.names[k]))], << >>)
        [] thing.kind = "interface" ->
             Stored(arguments, arguments,
                    [k \in DOMAIN thing.operations |->
                       [name |-> thing.operations[k].name,
                        arguments |-> fixed(thing.operations[k].arguments)]])

HeadersFor(i) ==
  Headers([k \in DOMAIN ast[i].types |-> Listed(ast[i].types[k])], ast[i].externalTypes)

Key(i) == fix_type_name(ast[i].name)

AddedOf(kind) == {i \in DOMAIN ast : i < next /\ ast[i].kind = kind}

StoresOne(kind) ==
  /\ Adding(kind) /\ next' = next + 1 /\ next \in 1 .. Len(ast)
  /\ UNCHANGED <<input, pc, local_reserved_words, typedefs, error>>
  /\ tables' = [tables EXCEPT ![kind] = With(@, Key(next), StoredFor(next))]
  /\ IF kind = "enum" THEN UNCHANGED headers
     ELSE headers' = [headers EXCEPT ![kind] = With(@, Key(next), HeadersFor(next))]

Arrayed == {"composites", "non_intrinsics", "externals", "done"}

StoresNothing ==
  /\ UNCHANGED tables
  /\ next' = next \/ skipTypedef
  /\ (pc' \in Arrayed <=> pc \in Arrayed)
  /\ (error' = "no_values" <=> error = "no_values")

LEMMA StoreIsWith ==
  ASSUME NEW kind, NEW stored, Store(kind, stored)
  PROVE  tables' = [tables EXCEPT ![kind] = With(@, Key(next), stored)]
BY Zenon DEF Store, StoreUnder, With, Key, this_thing

LEMMA StoreSteps ==
  ASSUME Progress, [Next]_vars
  PROVE  \/ \E kind \in Kinds : StoresOne(kind)
         \/ StoresNothing
         \/ convert_list_of_array_types_to_dictionaries
         \/ error' = "no_values" /\ pc' = "refused"
<1>0. ASSUME NEW kind, Adding(kind) PROVE next \in 1 .. Len(ast) /\ ast[next].kind = kind
  <2>1. Input /\ next \in 1 .. Len(ast) + 1
    BY DEF Progress
  <2>2. Len(ast) \in Nat /\ next <= Len(ast)
    BY <1>0, <2>1, InputFacts DEF Adding
  <2>. QED BY <1>0, <2>1, <2>2 DEF Adding, this_thing
<1>1. CASE UNCHANGED vars
  BY <1>1 DEF vars, names_vars, StoresNothing
<1>2. CASE RecordTypedefs
  BY <1>2 DEF RecordTypedefs, record_typedefs, StoresNothing, Arrayed
<1>3. CASE StartTypedef \/ FollowAlias \/ ReachRoot \/ Return
  BY <1>3 DEF StartTypedef, FollowAlias, ReachRoot, Return, names_vars, StoresNothing
<1>4. CASE ThrowLoop
  BY <1>4 DEF ThrowLoop, Throw, Resolving, StoresNothing, Arrayed, Progress
<1>5. CASE FixNames
  BY <1>5 DEF FixNames, fix_names, Throw, StoresNothing, Arrayed, Progress
<1>6. CASE AddThing
  <2>. DEFINE HeadersStored(kind) == headers' = [headers EXCEPT ![kind] = With(@, Key(next), HeadersFor(next))]
  <2>0. HeadersStored(this_thing.kind)
    BY <1>6, Zenon DEF AddThing, Key, HeadersFor, this_thing
  <2>. HIDE DEF HeadersStored
  <2>1. CASE addDictionary
    <3>1. Store("dictionary", StoredFor(next))
      BY <1>0, <2>1 DEF addDictionary, StoredFor, this_thing
    <3>2. /\ Adding("dictionary") /\ next' = next + 1 /\ HeadersStored("dictionary")
          /\ UNCHANGED <<input, pc, local_reserved_words, typedefs, error>>
      BY <2>0, <2>1 DEF addDictionary, Added, Adding
    <3>3. tables' = [tables EXCEPT !["dictionary"] = With(@, Key(next), StoredFor(next))]
      BY <3>1, StoreIsWith
    <3>. QED BY <1>0, <3>2, <3>3 DEF StoresOne, HeadersStored, Kinds
  <2>2. CASE addCallback
    <3>1. Store("callback", StoredFor(next))
      BY <1>0, <2>2 DEF addCallback, StoredFor, this_thing
    <3>2. /\ Adding("callback") /\ next' = next + 1 /\ HeadersStored("callback")
          /\ UNCHANGED <<input, pc, local_reserved_words, typedefs, error>>
      BY <2>0, <2>2 DEF addCallback, Added, Adding
    <3>3. tables' = [tables EXCEPT !["callback"] = With(@, Key(next), StoredFor(next))]
      BY <3>1, StoreIsWith
    <3>. QED BY <1>0, <3>2, <3>3 DEF StoresOne, HeadersStored, Kinds
  <2>3. CASE addInterface
    <3>1. Store("interface", StoredFor(next))
      BY <1>0, <2>3 DEF addInterface, StoredFor, this_thing
    <3>2. /\ Adding("interface") /\ next' = next + 1 /\ HeadersStored("interface")
          /\ UNCHANGED <<input, pc, local_reserved_words, typedefs, error>>
      BY <2>0, <2>3 DEF addInterface, Added, Adding
    <3>3. tables' = [tables EXCEPT !["interface"] = With(@, Key(next), StoredFor(next))]
      BY <3>1, StoreIsWith
    <3>. QED BY <1>0, <3>2, <3>3 DEF StoresOne, HeadersStored, Kinds
  <2>. QED BY <1>6, <2>1, <2>2, <2>3 DEF AddThing
<1>7. CASE AddEnum
  <2>1. Store("enum", StoredFor(next))
    BY <1>0, <1>7 DEF AddEnum, addEnum, StoredFor, this_thing
  <2>2. /\ Adding("enum") /\ next' = next + 1 /\ UNCHANGED headers
        /\ UNCHANGED <<input, pc, local_reserved_words, typedefs, error>>
    BY <1>7 DEF AddEnum, addEnum, Added, Adding
  <2>3. tables' = [tables EXCEPT !["enum"] = With(@, Key(next), StoredFor(next))]
    BY <2>1, StoreIsWith
  <2>. QED BY <1>0, <2>2, <2>3 DEF StoresOne, Kinds
<1>8. CASE AddNothing
  <2>1. CASE addEmptyEnum
    BY <2>1 DEF addEmptyEnum, Refuse, Throw
  <2>2. CASE addUntypedInterface
    BY <2>2 DEF addUntypedInterface, Refuse, Throw, Adding, StoresNothing, Arrayed, Progress
  <2>3. CASE skipTypedef
    BY <2>3 DEF skipTypedef, Adding, StoresNothing
  <2>. QED BY <1>8, <2>1, <2>2, <2>3 DEF AddNothing
<1>9. CASE ReportReusedNames
  BY <1>9 DEF ReportReusedNames, report_reused_names, Throw, StoresNothing, Arrayed, Progress
<1>10. CASE processTypeCheckQueue \/ UnsupportedType
  BY <1>10 DEF processTypeCheckQueue, UnsupportedType, Proceed, StoresNothing, Arrayed, Progress
<1>11. CASE build_composite_types \/ fix_non_intrinsics_lists \/ fix_externalTypes_lists
  BY <1>11 DEF build_composite_types, fix_non_intrinsics_lists, fix_externalTypes_lists, Proceed,
               StoresNothing, Arrayed
<1>12. CASE Stop
  BY <1>1, <1>12 DEF Stop
<1>. QED BY <1>1, <1>2, <1>3, <1>4, <1>5, <1>6, <1>7, <1>8, <1>9, <1>10, <1>11, <1>12, Zenon DEF Next

(* The tables have the C names of the constructs, and of the arrays later.   *)
Keys(kind) ==
  {Key(i) : i \in AddedOf(kind)}
    \cup (IF kind = "dictionary" /\ pc \in Arrayed THEN array_types ELSE {})

KeysInv == error # "no_values" => \A kind \in Kinds : DOMAIN tables[kind] = Keys(kind)

LEMMA AddedNext ==
  ASSUME Input, next \in 1 .. Len(ast), input' = input, next' = next + 1, NEW kind
  PROVE  /\ kind = ast[next].kind => AddedOf(kind)' = AddedOf(kind) \cup {next}
         /\ kind # ast[next].kind => AddedOf(kind)' = AddedOf(kind)
<1>1. ast' = ast /\ Len(ast) \in Nat /\ DOMAIN ast = 1 .. Len(ast)
  BY InputFacts DEF ast
<1>2. \A i \in 1 .. Len(ast) : i < next + 1 <=> (i < next \/ i = next)
  BY <1>1
<1>. QED BY <1>1, <1>2 DEF AddedOf

LEMMA AddedSame ==
  ASSUME Progress, StoresNothing, input' = input, NEW kind \in Kinds
  PROVE  AddedOf(kind)' = AddedOf(kind)
<1>1. ast' = ast
  BY DEF ast
<1>2. CASE next' = next
  BY <1>1, <1>2 DEF AddedOf
<1>3. CASE skipTypedef
  <2>1. next' = next + 1 /\ ast[next].kind = "typedef" /\ next <= Len(ast) /\ Input /\ next \in 1 .. Len(ast) + 1
    BY <1>3 DEF skipTypedef, Adding, this_thing, Progress
  <2>2. Len(ast) \in Nat
    BY <2>1, InputFacts
  <2>3. next \in 1 .. Len(ast) /\ kind # ast[next].kind
    BY <2>1, <2>2 DEF Kinds
  <2>. QED BY <2>1, <2>3, AddedNext
<1>. QED BY <1>2, <1>3 DEF StoresNothing

LEMMA KeysStart ==
  ASSUME Init
  PROVE  KeysInv
<1>1. Input /\ next = 1 /\ pc = "typedefs" /\ tables = [kind \in Kinds |-> << >>] /\ DOMAIN << >> = {}
  BY DEF Init, NamesInit, Input
<1>2. \A kind : AddedOf(kind) = {}
  BY <1>1, InputFacts DEF AddedOf
<1>. QED BY <1>1, <1>2 DEF KeysInv, Keys, Arrayed

LEMMA KeysStep ==
  ASSUME Progress, RecordedInv, KeysInv, [Next]_vars
  PROVE  KeysInv'
<1>1. Input /\ input' = input /\ ast' = ast
  BY ProgressStep DEF Progress, ast
<1>2. \A i : Key(i)' = Key(i)
  BY <1>1 DEF Key
<1>3. DOMAIN tables = Kinds
  BY DEF Progress
<1>4. ASSUME NEW kind \in Kinds, StoresOne(kind) PROVE KeysInv'
  <2>1. PICK u : u = next
    OBVIOUS
  <2>2. /\ Adding(kind) /\ next' = u + 1 /\ u \in 1 .. Len(ast) /\ pc' = "adding" /\ pc = "adding"
        /\ tables' = [tables EXCEPT ![kind] = With(@, Key(u), StoredFor(u))] /\ ast[u].kind = kind
    BY <1>4, <2>1 DEF StoresOne, Adding, this_thing
  <2>3. error = "none"
    BY <2>2 DEF Progress
  <2>4. ASSUME NEW k \in Kinds PROVE DOMAIN tables'[k] = Keys(k)'
    <3>1. DOMAIN tables[k] = {Key(i) : i \in AddedOf(k)}
      BY <2>2, <2>3 DEF KeysInv, Keys, Arrayed
    <3>2. Keys(k)' = {Key(i) : i \in AddedOf(k)'}
      BY <1>2, <2>2 DEF Keys, Arrayed
    <3>3. CASE k = kind
      <4>1. tables'[k] = With(tables[k], Key(u), StoredFor(u))
        BY <1>3, <2>2, <3>3
      <4>2. DOMAIN tables'[k] = DOMAIN tables[k] \cup {Key(u)}
        BY <4>1 DEF With
      <4>3. AddedOf(k)' = AddedOf(k) \cup {u}
        BY <1>1, <2>1, <2>2, <3>3, AddedNext
      <4>. QED BY <3>1, <3>2, <4>2, <4>3
    <3>4. CASE k # kind
      <4>1. tables'[k] = tables[k]
        BY <1>3, <2>2, <3>4
      <4>2. AddedOf(k)' = AddedOf(k)
        BY <1>1, <2>1, <2>2, <3>4, AddedNext
      <4>. QED BY <3>1, <3>2, <4>1, <4>2
    <3>. QED BY <3>3, <3>4
  <2>. QED BY <2>4 DEF KeysInv
<1>5. CASE StoresNothing
  <2>1. \A kind \in Kinds : AddedOf(kind)' = AddedOf(kind)
    BY <1>1, <1>5, AddedSame
  <2>2. pc \in Arrayed => array_types' = array_types
    <3>1. CASE Idle
      BY <3>1 DEF Idle, used
    <3>2. ASSUME NEW kind \in Kinds, AddsOne(kind) PROVE pc = "adding"
      BY <3>2 DEF AddsOne, Adding
    <3>3. CASE RecordTypedefs
      BY <3>3 DEF RecordTypedefs, record_typedefs, Arrayed
    <3>. QED BY <3>1, <3>2, <3>3, RecordSteps DEF Arrayed
  <2>3. \A kind \in Kinds : Keys(kind)' = Keys(kind)
    BY <1>2, <1>5, <2>1, <2>2 DEF Keys, StoresNothing
  <2>. QED BY <1>5, <2>3 DEF KeysInv, StoresNothing
<1>6. CASE convert_list_of_array_types_to_dictionaries
  <2>1. /\ pc = "arrays" /\ pc' = "composites" /\ array_types' = array_types /\ next' = next
        /\ error' = error
        /\ \A k \in Kinds : DOMAIN tables'[k] = IF k = "dictionary" THEN DOMAIN tables[k] \cup array_types
                                               ELSE DOMAIN tables[k]
    BY <1>3, <1>6 DEF convert_list_of_array_types_to_dictionaries, Proceed, used
  <2>2. \A kind : AddedOf(kind)' = AddedOf(kind)
    BY <1>1, <2>1 DEF AddedOf
  <2>3. \A kind : Keys(kind)' = {Key(i) : i \in AddedOf(kind)}
                                  \cup (IF kind = "dictionary" THEN array_types ELSE {})
    BY <1>2, <2>1, <2>2 DEF Keys, Arrayed
  <2>4. \A kind : Keys(kind) = {Key(i) : i \in AddedOf(kind)}
    BY <2>1 DEF Keys, Arrayed
  <2>. QED BY <2>1, <2>3, <2>4 DEF KeysInv
<1>7. CASE error' = "no_values"
  BY <1>7 DEF KeysInv
<1>. QED BY <1>4, <1>5, <1>6, <1>7, StoreSteps

----------------------------------------------------------------------------
(* What the check of the names found. *)
CheckedInv ==
  /\ pc \in Late \ {"accepted"} => \A name \in typeCheckQueue : isAllowedType(name)
  /\ error = "Unsupported_type" => \E name \in typeCheckQueue : ~ isAllowedType(name)

LEMMA AllowedStays ==
  ASSUME UNCHANGED <<typedefs, used>>, \A kind \in Kinds : DOMAIN tables[kind] \subseteq DOMAIN tables'[kind],
         NEW name
  PROVE  /\ isAllowedType(name) => isAllowedType(name)'
         /\ tables' = tables => isAllowedType(name)' = isAllowedType(name)
<1>1. UNCHANGED <<typedefs, allExternalTypes, array_types, composites>>
  BY DEF used
<1>2. isAllowedType(name) => isAllowedType(name)'
  BY <1>1, Zenon DEF isAllowedType, Typedefs
<1>3. tables' = tables => isAllowedType(name)' = isAllowedType(name)
  BY <1>1, Zenon DEF isAllowedType, Typedefs
<1>. QED BY <1>2, <1>3

LEMMA CheckedSteps ==
  ASSUME Progress, [Next]_vars
  PROVE  \/ UNCHANGED vars
         \/ processTypeCheckQueue \/ UnsupportedType
         \/ /\ pc \in Late \ {"accepted"}
            /\ UNCHANGED <<typedefs, used, error>>
            /\ \A kind \in Kinds : DOMAIN tables[kind] \subseteq DOMAIN tables'[kind]
         \/ pc' \notin Late \ {"accepted"} /\ error' # "Unsupported_type"
<1>0. pc # "refused" => error # "Unsupported_type"
  BY DEF Progress
<1>1. CASE RecordTypedefs
  BY <1>0, <1>1 DEF RecordTypedefs, record_typedefs, Late
<1>2. CASE StartTypedef \/ FollowAlias \/ ReachRoot \/ Return
  BY <1>0, <1>2 DEF StartTypedef, FollowAlias, ReachRoot, Return, Calling, Resolving, names_vars, Late
<1>3. CASE ThrowLoop
  BY <1>3 DEF ThrowLoop, Throw, Late
<1>4. CASE FixNames
  BY <1>0, <1>4 DEF FixNames, fix_names, Throw, Late
<1>5. CASE AddThing \/ AddEnum \/ AddNothing
  <2>1. addDictionary \/ addCallback \/ addInterface \/ addEnum \/ addEmptyEnum \/ addUntypedInterface \/ skipTypedef
    BY <1>5 DEF AddThing, AddEnum, AddNothing
  <2>2. pc = "adding"
    BY <2>1 DEF addDictionary, addCallback, addInterface, addEnum, addEmptyEnum, addUntypedInterface,
                skipTypedef, Adding
  <2>3. \/ pc' = pc /\ error' = error
        \/ pc' = "refused" /\ error' \in {"no_values", "no_return_type"}
    <3>1. CASE addDictionary
      BY <3>1 DEF addDictionary, Adding, Added
    <3>2. CASE addCallback
      BY <3>2 DEF addCallback, Adding, Added
    <3>3. CASE addInterface
      BY <3>3 DEF addInterface, Adding, Added
    <3>4. CASE addEnum
      BY <3>4 DEF addEnum, Adding, Added
    <3>5. CASE addEmptyEnum
      BY <3>5 DEF addEmptyEnum, Adding, Refuse, Throw
    <3>6. CASE addUntypedInterface
      BY <3>6 DEF addUntypedInterface, Adding, Refuse, Throw
    <3>7. CASE skipTypedef
      BY <3>7 DEF skipTypedef
    <3>. QED BY <2>1, <3>1, <3>2, <3>3, <3>4, <3>5, <3>6, <3>7
  <2>. QED BY <1>0, <2>2, <2>3 DEF Late
<1>6. CASE ReportReusedNames
  BY <1>0, <1>6 DEF ReportReusedNames, report_reused_names, Throw, Late
<1>7. CASE convert_list_of_array_types_to_dictionaries
  <2>1. DOMAIN tables = Kinds
    BY DEF Progress
  <2>2. /\ pc = "arrays" /\ UNCHANGED <<typedefs, used, error>>
        /\ \A k \in Kinds : DOMAIN tables'[k] = IF k = "dictionary" THEN DOMAIN tables[k] \cup array_types
                                               ELSE DOMAIN tables[k]
    BY <1>7, <2>1 DEF convert_list_of_array_types_to_dictionaries, Proceed
  <2>. QED BY <2>2 DEF Late
<1>8. CASE build_composite_types \/ fix_non_intrinsics_lists \/ fix_externalTypes_lists
  BY <1>8 DEF build_composite_types, fix_non_intrinsics_lists, fix_externalTypes_lists, Proceed, Late
<1>9. CASE Stop
  BY <1>9 DEF Stop
<1>. QED BY <1>1, <1>2, <1>3, <1>4, <1>5, <1>6, <1>7, <1>8, <1>9, Zenon DEF Next

LEMMA CheckedStart ==
  ASSUME Init
  PROVE  CheckedInv
BY DEF Init, NamesInit, CheckedInv, Late

LEMMA CheckedStep ==
  ASSUME Progress, CheckedInv, [Next]_vars
  PROVE  CheckedInv'
<1>1. CASE UNCHANGED vars
  <2>1. UNCHANGED <<typedefs, used, tables, pc, error, typeCheckQueue>>
    BY <1>1 DEF vars, names_vars, used
  <2>2. \A name : isAllowedType(name)' = isAllowedType(name)
    BY <2>1, AllowedStays
  <2>. QED BY <2>1, <2>2, Zenon DEF CheckedInv
<1>2. CASE processTypeCheckQueue
  <2>1. /\ pc' = "arrays" /\ UNCHANGED <<typedefs, used, tables, error, typeCheckQueue>> /\ pc = "accepted"
        /\ \A name \in typeCheckQueue : isAllowedType(name)
    BY <1>2 DEF processTypeCheckQueue, Proceed, used
  <2>2. \A name : isAllowedType(name)' = isAllowedType(name)
    BY <2>1, AllowedStays
  <2>3. error' # "Unsupported_type"
    BY <2>1 DEF Progress
  <2>. QED BY <2>1, <2>2, <2>3 DEF CheckedInv
<1>3. CASE UnsupportedType
  <2>1. /\ pc' = "refused" /\ UNCHANGED <<typedefs, used, tables, typeCheckQueue>>
        /\ \E name \in typeCheckQueue : ~ isAllowedType(name)
    BY <1>3 DEF UnsupportedType, Proceed, used
  <2>2. \A name : isAllowedType(name)' = isAllowedType(name)
    BY <2>1, AllowedStays
  <2>. QED BY <2>1, <2>2 DEF CheckedInv, Late
<1>4. CASE /\ pc \in Late \ {"accepted"}
           /\ UNCHANGED <<typedefs, used, error>>
           /\ \A kind \in Kinds : DOMAIN tables[kind] \subseteq DOMAIN tables'[kind]
  <2>1. typeCheckQueue' = typeCheckQueue
    BY <1>4 DEF used
  <2>2. \A name : isAllowedType(name) => isAllowedType(name)'
    BY <1>4, AllowedStays
  <2>3. error' # "Unsupported_type"
    BY <1>4 DEF Progress, Late
  <2>. QED BY <1>4, <2>1, <2>2, <2>3 DEF CheckedInv
<1>5. CASE pc' \notin Late \ {"accepted"} /\ error' # "Unsupported_type"
  BY <1>5 DEF CheckedInv
<1>. QED BY <1>1, <1>2, <1>3, <1>4, <1>5, CheckedSteps

(* Names and what fix_type makes of them. *)
LEMMA FreeAdds ==
  ASSUME NEW name, IsList(name), NEW words, IsFiniteSet(words)
  PROVE  Range(Free(name, words)) \subseteq Range(name) \cup {underscore}
<1>1. PICK n \in Nat : Free(name, words) = Longer(name, n)
  BY FreeFacts
<1>. DEFINE l == Len(name)
            long == Longer(name, n)
<1>2. /\ IsList(long) /\ Len(long) = l + n
      /\ \A i \in 1 .. l : long[i] = name[i]
      /\ \A i \in l + 1 .. l + n : long[i] = underscore
  BY <1>1, LongerFacts
<1>3. l \in Nat /\ \A i \in 1 .. l : name[i] \in Range(name)
  BY ListFacts
<1>4. ASSUME NEW x \in Range(long) PROVE x \in Range(name) \cup {underscore}
  <2>1. PICK i \in 1 .. Len(long) : long[i] = x
    BY <1>2, ListFacts
  <2>2. i \in 1 .. l \/ i \in l + 1 .. l + n
    <3>. HIDE DEF l, long
    <3>. QED BY <1>2, <1>3
  <2>. QED BY <1>2, <1>3, <2>1, <2>2
<1>. QED BY <1>1, <1>4

LEMMA NoWordIsAnArray ==
  ASSUME NEW name, IsList(name), name # << >>, Last(name) = "_array"
  PROVE  fix_type(name) = name
<1>1. name \notin C_reserved_words
  BY WordsAssumption
<1>2. PICK n \in Nat : fix_type(name) = Longer(name, n) /\ n = 0
  BY <1>1, FiniteWords, FreeFacts DEF fix_type
<1>. QED BY <1>2, LongerFacts

LEMMA ArrayFacts ==
  ASSUME NEW name, IsList(name), NEW depth \in Nat, depth # 0
  PROVE  /\ IsList(array_of(name, depth)) /\ array_of(name, depth) # << >>
         /\ Last(array_of(name, depth)) = "_array"
         /\ "_array" \in Range(array_of(name, depth))
         /\ depth = 1 => element(array_of(name, depth)) = name
<1>. DEFINE l == Len(name)
            array == array_of(name, depth)
<1>1. /\ IsList(array) /\ Len(array) = l + depth
      /\ \A i \in 1 .. l : array[i] = name[i]
      /\ \A i \in l + 1 .. l + depth : array[i] = "_array"
  BY ArrayOfFacts
<1>2. l \in Nat /\ name \in Seq(Range(name))
  BY ListFacts
<1>3. Len(array) # 0 /\ Len(array) \in l + 1 .. l + depth /\ Len(array) \in 1 .. Len(array)
  <2>. HIDE DEF l, array
  <2>. QED BY <1>1, <1>2
<1>4. array # << >> /\ array \in Seq(Range(array)) /\ \A i \in 1 .. Len(array) : array[i] \in Range(array)
  BY <1>1, <1>3, EmptyList, ListFacts
<1>5. Last(array) = "_array" /\ "_array" \in Range(array)
  <2>1. array[Len(array)] = "_array"
    BY <1>1, <1>3
  <2>2. array[Len(array)] \in Range(array)
    BY <1>3, <1>4
  <2>3. Last(array) = array[Len(array)]
    BY <1>4, FrontFacts
  <2>. QED BY <2>1, <2>2, <2>3
<1>6. ASSUME depth = 1 PROVE Front(array) = name
  <2>1. /\ Front(array) \in Seq(Range(array)) /\ Len(Front(array)) = Len(array) - 1
        /\ \A i \in 1 .. Len(array) - 1 : Front(array)[i] = array[i]
    BY <1>4, FrontFacts
  <2>2. Len(array) - 1 = l
    <3>. HIDE DEF l, array
    <3>. QED BY <1>1, <1>2, <1>6
  <2>3. \A i \in 1 .. Len(Front(array)) : Front(array)[i] = name[i]
    BY <1>1, <2>1, <2>2
  <2>. QED BY <1>2, <2>1, <2>2, <2>3, SameLists
<1>. QED BY <1>1, <1>4, <1>5, <1>6 DEF element

(* What is queued and recorded for a type that the check decides.            *)
LEMMA SimpleTypes ==
  ASSUME Input, NEW thing \in Range(ast), NEW e \in Range(thing.types)
  PROVE  /\ e.depth = 0 => Queued(e) = {fix_type(base(e))} /\ create_array_type(e) = {}
         /\ Simple(e) => fix_type(base(e)) \in Queued(e)
         /\ Simple(e) /\ e.depth # 0 => /\ Queued(e) = {typename(e), fix_type(base(e))}
                                        /\ typename(e) \in create_array_type(e)
<1>1. e.depth \in Nat /\ IsList(base(e)) /\ (e.depth = 0 => typename(e) = base(e))
  BY TypeFacts
<1>2. CASE e.depth = 0
  <2>1. 1 .. e.depth = {}
    BY <1>2
  <2>. QED BY <1>1, <1>2, <2>1 DEF Queued, create_array_type
<1>3. CASE Simple(e) /\ e.depth # 0
  <2>1. e.depth = 1 /\ fix_type(base(e)) = base(e)
    BY <1>3 DEF Simple
  <2>2. typename(e) = array_of(base(e), 1)
    BY <2>1 DEF typename
  <2>3. /\ IsList(typename(e)) /\ typename(e) # << >> /\ Last(typename(e)) = "_array"
        /\ element(typename(e)) = base(e)
    BY <1>1, <2>2, ArrayFacts
  <2>4. fix_type(typename(e)) = typename(e)
    BY <2>3, NoWordIsAnArray
  <2>5. 1 \in 1 .. e.depth
    BY <2>1
  <2>. QED BY <1>3, <2>1, <2>2, <2>3, <2>4, <2>5 DEF Queued, create_array_type
<1>. QED BY <1>2, <1>3 DEF Simple

(* When all constructs were looked at. *)
LEMMA AllLooked ==
  ASSUME Progress, next = Len(ast) + 1, pc # "typedefs"
  PROVE  /\ Looked = DOMAIN ast
         /\ LookedTypes = Used
         /\ \A kind : AddedOf(kind) = {i \in DOMAIN ast : ast[i].kind = kind}
<1>1. Input
  BY DEF Progress
<1>2. Len(ast) \in Nat /\ DOMAIN ast = 1 .. Len(ast)
  BY <1>1, InputFacts
<1>3. \A i \in 1 .. Len(ast) : i < Len(ast) + 1
  BY <1>2
<1>4. Looked = DOMAIN ast /\ \A kind : AddedOf(kind) = {i \in DOMAIN ast : ast[i].kind = kind}
  BY <1>2, <1>3 DEF Looked, AddedOf
<1>5. LookedTypes = Used
  <2>1. \A thing \in Range(ast) : \E i \in DOMAIN ast : thing = ast[i]
    BY <1>1, <1>2, InputFacts
  <2>2. \A i \in DOMAIN ast : ast[i] \in Range(ast)
    BY <1>1, <1>2, InputFacts
  <2>. QED BY <1>4, <2>1, <2>2 DEF LookedTypes, Used
<1>. QED BY <1>4, <1>5

LEMMA ExternalTypes ==
  ASSUME Progress, RecordedInv, next = Len(ast) + 1, pc # "typedefs", NEW name
  PROVE  name \in allExternalTypes <=> DeclaredExternal(name)
<1>1. Looked = DOMAIN ast
  BY AllLooked
<1>2. Input
  BY DEF Progress
<1>3. DOMAIN ast = 1 .. Len(ast)
  BY <1>2, InputFacts
<1>4. \A thing \in Range(ast) : \E i \in DOMAIN ast : thing = ast[i]
  BY <1>2, <1>3, InputFacts
<1>5. \A i \in DOMAIN ast : ast[i] \in Range(ast)
  BY <1>2, <1>3, InputFacts
<1>6. name \in allExternalTypes <=> \E i \in DOMAIN ast : name \in Externals(ast[i])
  BY <1>1 DEF RecordedInv
<1>. QED BY <1>4, <1>5, <1>6 DEF Externals, DeclaredExternal

(* What is known is allowed. *)
LEMMA KnownIsAllowed ==
  ASSUME Progress, TypedefsInv, RecordedInv, KeysInv, next = Len(ast) + 1, pc # "typedefs",
         error # "no_values", NEW name, Known(name)
  PROVE  isAllowedType(name)
<1>1. Input /\ DOMAIN tables = Kinds
  BY DEF Progress
<1>2. CASE name \in Intrinsic
  BY <1>2 DEF isAllowedType
<1>3. CASE DeclaredExternal(name)
  BY <1>3, ExternalTypes DEF isAllowedType
<1>4. ASSUME NEW thing \in Range(ast), name = fix_type_name(thing.name) PROVE isAllowedType(name)
  <2>1. PICK i \in DOMAIN ast : thing = ast[i]
    BY <1>1, InputFacts
  <2>2. thing.kind \in Kinds \cup {"typedef"}
    BY <1>1, InputFacts
  <2>3. CASE thing.kind = "typedef"
    <3>1. i \in TypedefsOf
      BY <2>1, <2>3 DEF TypedefsOf
    <3>2. name \in Typedefs
      BY <1>4, <2>1, <3>1 DEF TypedefsInv, Typedefs
    <3>. QED BY <3>2 DEF isAllowedType
  <2>4. CASE thing.kind \in Kinds
    <3>1. i \in AddedOf(thing.kind)
      BY <2>1, AllLooked
    <3>2. name \in Keys(thing.kind)
      BY <1>4, <2>1, <3>1 DEF Keys, Key
    <3>3. name \in DOMAIN tables[thing.kind]
      BY <2>4, <3>2 DEF KeysInv
    <3>. QED BY <2>4, <3>3 DEF isAllowedType
  <2>. QED BY <2>2, <2>3, <2>4
<1>. QED BY <1>2, <1>3, <1>4 DEF Known

(* What is allowed is known, unless it is called like an array or a union.   *)
LEMMA AllowedIsKnown ==
  ASSUME Progress, TypedefsInv, RecordedInv, KeysInv, next = Len(ast) + 1, pc # "typedefs",
         error # "no_values", NEW name, isAllowedType(name),
         "_array" \notin Range(name), "_or_" \notin Range(name)
  PROVE  Known(name)
<1>1. Input /\ DOMAIN tables = Kinds
  BY DEF Progress
<1>2. LookedTypes = UNION {Range(thing.types) : thing \in Range(ast)}
  BY AllLooked DEF Used
<1>3. DOMAIN ast = 1 .. Len(ast) /\ \A i \in 1 .. Len(ast) : ast[i] \in Range(ast)
  BY <1>1, InputFacts
<1>4. CASE name \in Intrinsic
  BY <1>4 DEF Known
<1>5. CASE name \in Typedefs
  <2>1. PICK i \in TypedefsOf : name = fix_type_name(ast[i].name)
    BY <1>1, <1>5, TypedefsFacts
  <2>. QED BY <1>3, <2>1 DEF Known, TypedefsOf
<1>6. CASE name \in allExternalTypes
  BY <1>6, ExternalTypes DEF Known
<1>7. name \notin array_types
  <2>. SUFFICES ASSUME name \in array_types PROVE FALSE
    OBVIOUS
  <2>1. PICK e \in LookedTypes : name \in create_array_type(e)
    BY DEF RecordedInv
  <2>2. PICK thing \in Range(ast) : e \in Range(thing.types)
    BY <1>2, <2>1
  <2>3. e.depth \in Nat /\ IsList(base(e))
    BY <1>1, <2>2, TypeFacts
  <2>4. PICK depth \in 1 .. e.depth : name = array_of(base(e), depth)
    BY <2>1, Zenon DEF create_array_type
  <2>5. depth \in Nat /\ depth # 0
    <3>1. \A m \in Nat : \A n \in 1 .. m : n \in Nat /\ n # 0
      OBVIOUS
    <3>. QED BY <2>3, <2>4, <3>1, Zenon
  <2>. QED BY <2>3, <2>4, <2>5, ArrayFacts
<1>8. ASSUME NEW kind \in Kinds, name \in DOMAIN tables[kind] PROVE Known(name)
  <2>1. name \in Keys(kind)
    BY <1>8 DEF KeysInv
  <2>2. PICK i \in AddedOf(kind) : name = Key(i)
    BY <1>7, <2>1 DEF Keys
  <2>3. i \in DOMAIN ast
    BY <2>2 DEF AddedOf
  <2>. QED BY <1>3, <2>2, <2>3 DEF Known, Key
<1>9. ASSUME NEW members \in composites, name = union_name(members) PROVE FALSE
  <2>1. PICK e \in LookedTypes : members \in create_composite_type(e)
    BY <1>9 DEF RecordedInv
  <2>2. PICK thing \in Range(ast) : e \in Range(thing.types)
    BY <1>2, <2>1
  <2>3. members = e.members /\ Len(members) # 1
    BY <2>1 DEF create_composite_type
  <2>4. "_or_" \in Range(base(e)) /\ base(e) = union_name(e.members)
    BY <1>1, <2>2, <2>3, TypeFacts
  <2>. QED BY <1>9, <2>3, <2>4
<1>. QED BY <1>4, <1>5, <1>6, <1>7, <1>8, <1>9 DEF isAllowedType

(* The four parts of AliasesAreResolved. *)
LEMMA AllResolved ==
  ASSUME Core, pc \notin {"typedefs", "checking"}, error # "Loop_in_typedefs"
  PROVE  \A t \in Typedefs : Resolved(t) /\ ultimate_typename[t] = Reaches(t) /\ ~ Looping(t)
<1>1. current = NoType /\ waiting = << >>
  BY DEF Core, ResolutionInv
<1>2. tree_members = << >>
  BY <1>1 DEF Core, ResolutionInv
<1>3. NoType \notin Typedefs
  BY TypedefsFacts DEF Core, Progress
<1>4. ToSet(<< >>) = {}
  BY EmptySeq DEF ToSet
<1>5. \A t \in Typedefs : Resolved(t)
  BY <1>1, <1>2, <1>3, <1>4 DEF Core, ResolutionInv
<1>. QED BY <1>5 DEF Core, ResolutionInv

LEMMA RefusedForALoop ==
  ASSUME Core
  PROVE  error = "Loop_in_typedefs" <=> (error # "none" /\ \E t \in Typedefs : Looping(t))
<1>1. error = "Loop_in_typedefs" => \E t \in Typedefs : Looping(t)
  BY DEF Core, ResolutionInv
<1>2. ASSUME error # "none", error # "Loop_in_typedefs" PROVE ~ \E t \in Typedefs : Looping(t)
  <2>1. pc \notin {"typedefs", "checking"}
    BY <1>2 DEF Core, Progress
  <2>. QED BY <1>2, <2>1, AllResolved
<1>. QED BY <1>1, <1>2

LEMMA RefusedForAType ==
  ASSUME Progress, TypedefsInv, RecordedInv, KeysInv, CheckedInv, error = "Unsupported_type"
  PROVE  \E e \in Used : ~ Known(fix_type(base(e))) \/ (e.depth > 0 /\ ~ Simple(e))
<1>. SUFFICES ASSUME \A e \in Used : Known(fix_type(base(e))) /\ (e.depth > 0 => Simple(e)) PROVE FALSE
  BY Zenon
<1>1. Input /\ next = Len(ast) + 1 /\ pc = "refused"
  BY DEF Progress
<1>2. Looked = DOMAIN ast /\ LookedTypes = Used
  BY <1>1, AllLooked
<1>3. PICK name \in typeCheckQueue : ~ isAllowedType(name)
  BY DEF CheckedInv
<1>4. ~ Known(name)
  BY <1>1, <1>3, KnownIsAllowed
<1>5. ASSUME NEW i \in DOMAIN ast, name = fix_type_name(ast[i].name) PROVE FALSE
  BY <1>1, <1>4, <1>5, InputFacts DEF Known
<1>6. ASSUME NEW e \in Used, name \in Queued(e) PROVE FALSE
  <2>1. PICK thing \in Range(ast) : e \in Range(thing.types)
    BY DEF Used
  <2>2. e.depth = 0 \/ (e.depth > 0 /\ e.depth # 0)
    <3>1. e.depth \in Nat
      BY <1>1, <2>1, TypeFacts
    <3>2. \A n \in Nat : n = 0 \/ (n > 0 /\ n # 0)
      OBVIOUS
    <3>. QED BY <3>1, <3>2, Zenon
  <2>3. CASE e.depth = 0
    <3>1. name = fix_type(base(e))
      BY <1>1, <1>6, <2>1, <2>3, SimpleTypes
    <3>2. Known(fix_type(base(e)))
      OBVIOUS
    <3>. QED BY <1>4, <3>1, <3>2
  <2>4. CASE e.depth > 0 /\ e.depth # 0
    <3>1. e.depth # 0 /\ Simple(e)
      BY <2>4
    <3>2. Queued(e) = {typename(e), fix_type(base(e))} /\ typename(e) \in create_array_type(e)
      BY <1>1, <2>1, <3>1, SimpleTypes
    <3>3. typename(e) \in array_types
      BY <1>2, <3>2 DEF RecordedInv
    <3>4. name # typename(e)
      BY <1>3, <3>3 DEF isAllowedType
    <3>5. name = fix_type(base(e))
      BY <1>6, <3>2, <3>4
    <3>6. Known(fix_type(base(e)))
      OBVIOUS
    <3>. QED BY <1>4, <3>5, <3>6
  <2>. QED BY <2>2, <2>3, <2>4
<1>. QED BY <1>2, <1>3, <1>5, <1>6 DEF RecordedInv

LEMMA AcceptedTypes ==
  ASSUME Progress, TypedefsInv, RecordedInv, KeysInv, CheckedInv, pc = "done",
         NEW e \in Used, Simple(e), ~ Composed(base(e))
  PROVE  Known(fix_type(base(e)))
<1>. DEFINE name == fix_type(base(e))
<1>1. Input /\ next = Len(ast) + 1 /\ error # "no_values"
  BY DEF Progress, Late
<1>2. PICK thing \in Range(ast) : e \in Range(thing.types)
  BY DEF Used
<1>3. LookedTypes = Used
  BY <1>1, AllLooked
<1>4. name \in Queued(e)
  BY <1>1, <1>2, SimpleTypes
<1>5. name \in typeCheckQueue
  BY <1>3, <1>4 DEF RecordedInv
<1>6. isAllowedType(name)
  BY <1>5 DEF CheckedInv, Late
<1>7. Range(name) \subseteq Range(base(e)) \cup {underscore}
  BY <1>1, <1>2, TypeFacts, FreeAdds, FiniteWords DEF fix_type
<1>8. underscore # "_array" /\ underscore # "_or_"
  BY Zenon DEF underscore
<1>9. "_array" \notin Range(name) /\ "_or_" \notin Range(name)
  BY <1>7, <1>8 DEF Composed
<1>. QED BY <1>1, <1>6, <1>9, AllowedIsKnown

LEMMA CheckedInvariant == Spec => [](Core /\ RecordedInv /\ KeysInv /\ CheckedInv)
<1>1. Init => Core /\ RecordedInv /\ KeysInv /\ CheckedInv
  BY CoreStart, RecordedStart, KeysStart, CheckedStart
<1>2. Core /\ RecordedInv /\ KeysInv /\ CheckedInv /\ [Next]_vars => (Core /\ RecordedInv /\ KeysInv /\ CheckedInv)'
  BY CoreStep, RecordedStep, KeysStep, CheckedStep DEF Core
<1>. QED BY <1>1, <1>2, PTL DEF Spec

(* Whatever the file: it is refused for its typedefs exactly when they go in *)
(* a circle, and each typedef is resolved to the end of its chain.  It is    *)
(* refused for a type only if that is nothing's name, and accepted only if   *)
(* every simple type is known, unless its name looks like that of an array   *)
(* or a union (record_typedefs, processTypeCheckQueue; AugmentedAST.js:407,  *)
(* :2242).                                                                   *)
THEOREM AliasesAreAlwaysResolved == Spec => []AliasesAreResolved
<1>1. ASSUME Core, RecordedInv, KeysInv, CheckedInv PROVE AliasesAreResolved
  <2>1. error = "Loop_in_typedefs" <=> (error # "none" /\ \E t \in Typedefs : Looping(t))
    BY <1>1, RefusedForALoop
  <2>2. pc = "adding" => \A t \in Typedefs : ultimate_typename[t] = Reaches(t)
    <3>1. pc = "adding" => error = "none"
      BY <1>1 DEF Core, Progress
    <3>. QED BY <1>1, <3>1, AllResolved
  <2>3. error = "Unsupported_type" => \E e \in Used : ~ Known(fix_type(base(e))) \/ (e.depth > 0 /\ ~ Simple(e))
    BY <1>1, RefusedForAType DEF Core
  <2>4. pc = "done" => \A e \in Used : Simple(e) /\ ~ Composed(base(e)) => Known(fix_type(base(e)))
    BY <1>1, AcceptedTypes DEF Core
  <2>. QED BY <2>1, <2>2, <2>3, <2>4 DEF AliasesAreResolved
<1>. QED BY <1>1, CheckedInvariant, PTL

----------------------------------------------------------------------------
(* Lists without repeated members. *)
LEMMA UniqueFacts ==
  ASSUME NEW A, NEW names \in Seq(A)
  PROVE  /\ Unique(names) \in Seq(A)
         /\ ToSet(Unique(names)) = ToSet(names)
         /\ Distinct(Unique(names))
<1>. DEFINE n == Len(names)
            S == {k \in DOMAIN names : \A i \in 1 .. (k - 1) : names[i] # names[k]}
            first == Increasing(S, n)
            unique == [k \in DOMAIN first |-> names[first[k]]]
<1>1. /\ n \in Nat /\ DOMAIN names = 1 .. n /\ \A k \in 1 .. n : names[k] \in A
      /\ \A x : x \in ToSet(names) <=> \E k \in 1 .. n : names[k] = x
  BY Members
<1>2. S \subseteq 1 .. n
  BY <1>1
<1>3. Unique(names) = unique
  BY DEF Unique
<1>. HIDE DEF n
<1>4. first \in Seq(1 .. n) /\ ToSet(first) = S /\ Ascending(first)
  <2>. HIDE DEF S
  <2>. QED BY <1>1, <1>2, IncreasingFacts
<1>. HIDE DEF first
<1>. DEFINE m == Len(first)
<1>5. /\ m \in Nat /\ DOMAIN first = 1 .. m /\ \A k \in 1 .. m : first[k] \in 1 .. n /\ first[k] \in S
      /\ \A x : x \in S <=> \E k \in 1 .. m : first[k] = x
  BY <1>4, Members
<1>. HIDE DEF m
<1>6. unique \in Seq(A) /\ Len(unique) = m
  <2>1. unique \in [1 .. m -> A]
    BY <1>1, <1>5
  <2>. HIDE DEF unique
  <2>. QED BY <1>5, <2>1, TupleIsSeq
<1>7. \A k \in 1 .. m : unique[k] = names[first[k]]
  BY <1>5
<1>. HIDE DEF unique
<1>8. \A x : x \in ToSet(unique) <=> \E k \in 1 .. m : unique[k] = x
  BY <1>6, Members
<1>9. ASSUME NEW x \in ToSet(names) PROVE x \in ToSet(unique)
  <2>. DEFINE T == {k \in 1 .. n : names[k] = x}
  <2>1. T # {} /\ T \subseteq Nat
    BY <1>1
  <2>2. PICK k \in T : \A j \in T : k <= j
    <3>. HIDE DEF T
    <3>. QED BY <2>1, LeastNumber
  <2>3. \A i \in 1 .. (k - 1) : i \in 1 .. n /\ ~ (k <= i)
    BY <1>1
  <2>4. k \in S
    BY <1>1, <2>2, <2>3
  <2>5. PICK l \in 1 .. m : first[l] = k
    BY <1>5, <2>4
  <2>6. unique[l] = x
    BY <1>7, <2>2, <2>5
  <2>. QED BY <1>8, <2>6
<1>10. ASSUME NEW x \in ToSet(unique) PROVE x \in ToSet(names)
  BY <1>1, <1>5, <1>7, <1>8, <1>10
<1>11. ASSUME NEW j \in 1 .. m, NEW k \in 1 .. m, j < k PROVE unique[j] # unique[k]
  <2>1. first[j] < first[k]
    BY <1>4, <1>11 DEF Ascending, m
  <2>2. first[j] \in 1 .. (first[k] - 1)
    <3>1. first[j] \in 1 .. n /\ first[k] \in 1 .. n
      BY <1>5
    <3>. QED BY <1>1, <2>1, <3>1
  <2>3. names[first[j]] # names[first[k]]
    BY <1>5, <2>2
  <2>. QED BY <1>7, <2>3
<1>12. Distinct(unique)
  <2>1. \A j, k \in 1 .. m : j < k \/ k < j \/ j = k
    BY <1>5
  <2>. QED BY <1>6, <1>11, <2>1 DEF Distinct
<1>. QED BY <1>3, <1>6, <1>9, <1>10, <1>12

LEMMA WithoutFacts ==
  ASSUME NEW A, NEW list \in Seq(A), NEW names
  PROVE  /\ Without(list, names) \in Seq(A)
         /\ ToSet(Without(list, names)) = ToSet(list) \ names
         /\ Distinct(list) => Distinct(Without(list, names))
<1>1. Range(list) = ToSet(list)
  BY IsListOf
<1>2. ToSet(Without(list, names)) = ToSet(list) \cap (ToSet(list) \ names)
  BY <1>1, MembersOfKept DEF Without
<1>. QED BY <1>2, KeptPlaces, KeptDistinct DEF Without

LEMMA Once ==
  ASSUME NEW A, NEW list \in Seq(A), Distinct(list), NEW name
  PROVE  /\ name \in ToSet(list) => Only(list, name)
         /\ name \notin ToSet(list) => Occurrences(list, name) = {}
<1>1. /\ DOMAIN list = 1 .. Len(list)
      /\ \A x : x \in ToSet(list) <=> \E i \in 1 .. Len(list) : list[i] = x
  BY Members
<1>2. ASSUME name \in ToSet(list) PROVE Only(list, name)
  <2>1. PICK k \in 1 .. Len(list) : list[k] = name
    BY <1>1, <1>2
  <2>2. Occurrences(list, name) = {k}
    BY <1>1, <2>1 DEF Occurrences, Distinct
  <2>. QED BY <1>1, <2>1, <2>2 DEF Only
<1>3. name \notin ToSet(list) => Occurrences(list, name) = {}
  BY <1>1 DEF Occurrences
<1>. QED BY <1>2, <1>3

----------------------------------------------------------------------------
(* What the two walks make of the headers of a thing. *)
FirstWalk(h) ==
  [non_intrinsic_types |-> Here(h.non_intrinsic_types),
   externalTypes |-> h.externalTypes \o External(h.non_intrinsic_types)]

SecondWalk(h) ==
  [non_intrinsic_types |-> h.non_intrinsic_types \o Here(h.externalTypes),
   externalTypes |-> External(h.externalTypes)]

LEMMA OneHome ==
  ASSUME NEW A, NEW h, h.non_intrinsic_types \in Seq(A), h.externalTypes \in Seq(A),
         Distinct(h.non_intrinsic_types), Distinct(h.externalTypes),
         ToSet(h.non_intrinsic_types) \cap ToSet(h.externalTypes) = {},
         NEW name, name \in ToSet(h.non_intrinsic_types) \cup ToSet(h.externalTypes),
         NEW g, g = SecondWalk(FirstWalk(h))
  PROVE  IF name \in all_external_types
         THEN Only(g.externalTypes, name) /\ Occurrences(g.non_intrinsic_types, name) = {}
         ELSE Only(g.non_intrinsic_types, name) /\ Occurrences(g.externalTypes, name) = {}
<1>. DEFINE E == all_external_types
            types == h.non_intrinsic_types
            externals == h.externalTypes
            types1 == Here(types)
            externals1 == externals \o External(types)
            types2 == types1 \o Here(externals1)
            externals2 == External(externals1)
<1>1. g.non_intrinsic_types = types2 /\ g.externalTypes = externals2
  BY DEF FirstWalk, SecondWalk
<1>. HIDE DEF types, externals
<1>2. types1 \in Seq(A) /\ ToSet(types1) = ToSet(types) \ E /\ Distinct(types1)
  BY WithoutFacts DEF Here, types
<1>3. External(types) \in Seq(A) /\ ToSet(External(types)) = ToSet(types) \cap E /\ Distinct(External(types))
  BY KeptPlaces, MembersOfKept, KeptDistinct DEF External, types
<1>4. externals \in Seq(A) /\ Distinct(externals) /\ ToSet(types) \cap ToSet(externals) = {}
  BY DEF types, externals
<1>5. externals1 \in Seq(A) /\ ToSet(externals1) = ToSet(externals) \cup (ToSet(types) \cap E) /\ Distinct(externals1)
  <2>1. ToSet(externals) \cap ToSet(External(types)) = {}
    BY <1>3, <1>4
  <2>. QED BY <1>3, <1>4, <2>1, ConcatProperties, MembersOfConcat, ConcatDistinct
<1>. HIDE DEF types1, externals1
<1>6. Here(externals1) \in Seq(A) /\ ToSet(Here(externals1)) = ToSet(externals1) \ E /\ Distinct(Here(externals1))
  BY <1>5, WithoutFacts DEF Here
<1>7. externals2 \in Seq(A) /\ ToSet(externals2) = ToSet(externals1) \cap E /\ Distinct(externals2)
  BY <1>5, KeptPlaces, MembersOfKept, KeptDistinct DEF External
<1>8. types2 \in Seq(A) /\ ToSet(types2) = ToSet(types1) \cup (ToSet(externals1) \ E) /\ Distinct(types2)
  <2>1. ToSet(types1) \cap ToSet(Here(externals1)) = {}
    BY <1>2, <1>4, <1>5, <1>6
  <2>. QED BY <1>2, <1>6, <2>1, ConcatProperties, MembersOfConcat, ConcatDistinct
<1>. HIDE DEF types2, externals2
<1>9. name \in ToSet(types) \cup ToSet(externals)
  BY DEF types, externals
<1>10. CASE name \in E
  <2>1. name \in ToSet(externals2) /\ name \notin ToSet(types2)
    BY <1>2, <1>5, <1>7, <1>8, <1>9, <1>10
  <2>. QED BY <1>1, <1>7, <1>8, <1>10, <2>1, Once
<1>11. CASE name \notin E
  <2>1. name \in ToSet(types2) /\ name \notin ToSet(externals2)
    BY <1>2, <1>5, <1>7, <1>8, <1>9, <1>11
  <2>. QED BY <1>1, <1>7, <1>8, <1>11, <2>1, Once
<1>. QED BY <1>10, <1>11

Ultimate(type) == IF type \in Typedefs THEN ultimate_typename[type] ELSE type

LEMMA NeededFacts ==
  ASSUME NEW A, NEW type \in A, Ultimate(type) \in A
  PROVE  /\ Needed(type) \in Seq(A)
         /\ Ultimate(type) \notin Intrinsic => Ultimate(type) \in ToSet(Needed(type))
<1>. DEFINE front == IF type \in Typedefs THEN <<type>> ELSE << >>
            back == IF Ultimate(type) \in Intrinsic THEN << >> ELSE <<Ultimate(type)>>
<1>1. Needed(type) = front \o back
  BY DEF Needed, Ultimate
<1>2. front \in Seq(A)
  BY EmptySeq
<1>3. back \in Seq(A) /\ (Ultimate(type) \notin Intrinsic => Ultimate(type) \in ToSet(back))
  <2>1. PICK u \in A : u = Ultimate(type)
    OBVIOUS
  <2>2. CASE u \in Intrinsic
    BY <2>1, <2>2, EmptySeq
  <2>3. CASE u \notin Intrinsic
    <3>1. back = <<u>>
      BY <2>1, <2>3
    <3>2. <<u>> \in Seq(A) /\ Len(<<u>>) = 1 /\ <<u>>[1] = u /\ 1 \in 1 .. 1
      OBVIOUS
    <3>3. u \in ToSet(<<u>>)
      BY <3>2, Members
    <3>. QED BY <2>1, <3>1, <3>2, <3>3
  <2>. QED BY <2>2, <2>3
<1>. HIDE DEF front, back
<1>. QED BY <1>1, <1>2, <1>3, ConcatProperties, MembersOfConcat

ListsOf(h, names, externals, A) ==
  /\ h.non_intrinsic_types \in Seq(A) /\ h.externalTypes \in Seq(A)
  /\ h.externalTypes = externals
  /\ Distinct(h.non_intrinsic_types)
  /\ ToSet(h.non_intrinsic_types) \cap ToSet(h.externalTypes) = {}
  /\ \A k \in 1 .. Len(names) :
       Ultimate(names[k]) \notin Intrinsic =>
         Ultimate(names[k]) \in ToSet(h.non_intrinsic_types) \cup ToSet(h.externalTypes)

LEMMA HeadersFacts ==
  ASSUME NEW B, NEW names \in Seq(B), NEW externals, IsList(externals), NEW h, h = Headers(names, externals)
  PROVE  \E A : ListsOf(h, names, externals, A)
<1>. DEFINE n == Len(names)
            A == {names[k] : k \in 1 .. n} \cup {Ultimate(names[k]) : k \in 1 .. n} \cup Range(externals)
            pieces == [k \in DOMAIN names |-> Needed(names[k])]
<1>1. n \in Nat /\ DOMAIN names = 1 .. n
  BY Members
<1>. HIDE DEF n
<1>2. \A k \in 1 .. n : names[k] \in A /\ Ultimate(names[k]) \in A
  OBVIOUS
<1>3. externals \in Seq(A) /\ Range(externals) = ToSet(externals)
  <2>1. Range(externals) \subseteq A
    OBVIOUS
  <2>. HIDE DEF A
  <2>. QED BY <2>1, ListFacts, Widened
<1>. HIDE DEF A
<1>4. \A k \in 1 .. n : Needed(names[k]) \in Seq(A)
  BY <1>2, NeededFacts
<1>5. pieces \in Seq(Seq(A)) /\ Len(pieces) = n
  <2>1. pieces \in [1 .. n -> Seq(A)]
    BY <1>1, <1>4
  <2>. HIDE DEF pieces
  <2>. QED BY <1>1, <2>1, TupleIsSeq
<1>6. \A k \in 1 .. n : pieces[k] = Needed(names[k])
  BY <1>1
<1>7. /\ h.non_intrinsic_types = Without(Unique(FlattenSeq(pieces)), Range(externals))
      /\ h.externalTypes = externals
  BY DEF Headers, get_non_intrinsic_types_list
<1>. HIDE DEF pieces
<1>8. FlattenSeq(pieces) \in Seq(A)
      /\ \A x : x \in ToSet(FlattenSeq(pieces)) <=> \E k \in 1 .. n : x \in ToSet(pieces[k])
  BY <1>5, FlattenedMembers
<1>9. /\ Unique(FlattenSeq(pieces)) \in Seq(A)
      /\ ToSet(Unique(FlattenSeq(pieces))) = ToSet(FlattenSeq(pieces))
      /\ Distinct(Unique(FlattenSeq(pieces)))
  BY <1>8, UniqueFacts
<1>10. /\ h.non_intrinsic_types \in Seq(A) /\ Distinct(h.non_intrinsic_types)
       /\ ToSet(h.non_intrinsic_types) = ToSet(FlattenSeq(pieces)) \ ToSet(externals)
  BY <1>3, <1>7, <1>9, WithoutFacts
<1>11. ASSUME NEW k \in 1 .. n, Ultimate(names[k]) \notin Intrinsic
       PROVE  Ultimate(names[k]) \in ToSet(h.non_intrinsic_types) \cup ToSet(h.externalTypes)
  <2>1. Ultimate(names[k]) \in ToSet(pieces[k])
    BY <1>2, <1>6, <1>11, NeededFacts
  <2>2. Ultimate(names[k]) \in ToSet(FlattenSeq(pieces))
    BY <1>8, <2>1
  <2>. QED BY <1>7, <1>10, <2>2
<1>12. n = Len(names)
  BY DEF n
<1>. QED BY <1>3, <1>7, <1>10, <1>11, <1>12 DEF ListsOf

----------------------------------------------------------------------------
(* Once the typedefs are resolved the headers of a thing are settled. *)
LEMMA SettledSteps ==
  ASSUME Progress, pc \notin {"typedefs", "checking"}, [Next]_vars
  PROVE  UNCHANGED <<resolution, typedefs, ultimate_typename>>
<1>1. ~ RecordTypedefs
  BY DEF RecordTypedefs, record_typedefs
<1>2. ~ StartTypedef /\ ~ ThrowLoop /\ ~ FollowAlias /\ ~ ReachRoot /\ ~ Return
  BY DEF StartTypedef, ThrowLoop, FollowAlias, ReachRoot, Return, Calling, Resolving
<1>3. Elsewhere
  BY <1>1, <1>2, ResolutionSteps
<1>. QED BY <1>3 DEF Elsewhere, resolution

LEMMA SameHeaders ==
  ASSUME UNCHANGED <<typedefs, ultimate_typename>>, NEW names, NEW externals
  PROVE  Headers(names, externals)' = Headers(names, externals)
<1>1. \A type : Needed(type)' = Needed(type)
  BY DEF Needed, Typedefs
<1>2. [k \in DOMAIN names |-> Needed(names[k])]' = [k \in DOMAIN names |-> Needed(names[k])]
  BY <1>1
<1>. QED BY <1>2 DEF Headers, get_non_intrinsic_types_list

HeadersOfArray(array) == Headers(<<fix_type(element(array))>>, << >>)

LEMMA SameThings ==
  ASSUME input' = input, UNCHANGED <<typedefs, ultimate_typename>>
  PROVE  /\ \A i : HeadersFor(i)' = HeadersFor(i) /\ Key(i)' = Key(i)
         /\ \A array : HeadersOfArray(array)' = HeadersOfArray(array)
<1>1. ast' = ast
  BY DEF ast
<1>2. ASSUME NEW i PROVE HeadersFor(i)' = HeadersFor(i)
  <2>1. PICK names : names = [k \in DOMAIN ast[i].types |-> Listed(ast[i].types[k])]
    OBVIOUS
  <2>2. PICK externals : externals = ast[i].externalTypes
    OBVIOUS
  <2>3. HeadersFor(i) = Headers(names, externals) /\ HeadersFor(i)' = Headers(names, externals)'
    BY <1>1, <2>1, <2>2 DEF HeadersFor
  <2>. QED BY <2>3, SameHeaders
<1>3. \A array : HeadersOfArray(array)' = HeadersOfArray(array)
  BY SameHeaders DEF HeadersOfArray
<1>4. \A i : Key(i)' = Key(i)
  BY <1>1 DEF Key
<1>. QED BY <1>2, <1>3, <1>4

(* Nothing else of its kind is stored under the C name of the construct. *)
Sole(i) ==
  \A j \in DOMAIN ast :
    ast[j].kind = ast[i].kind /\ fix_type_name(ast[j].name) = fix_type_name(ast[i].name) => j = i

(* How far the walks have come. *)
Moved(h) == CASE pc = "externals" -> FirstWalk(h)
              [] pc = "done"      -> SecondWalk(FirstWalk(h))
              [] OTHER            -> h

HeadersInv ==
  pc # "refused" =>
    /\ DOMAIN headers = HeaderKinds
    /\ \A i \in DOMAIN ast :
         i < next /\ ast[i].kind \in Walked /\ Sole(i)
           /\ (pc \in Arrayed /\ ast[i].kind = "dictionary" => Key(i) \notin array_types) =>
         Key(i) \in DOMAIN headers[ast[i].kind] /\ headers[ast[i].kind][Key(i)] = Moved(HeadersFor(i))
    /\ pc \in Arrayed =>
         \A array \in array_types :
           /\ array \in DOMAIN headers["dictionary"]
           /\ headers["dictionary"][array] = Moved(HeadersOfArray(array))

Before == {"typedefs", "checking", "adding", "accepted", "arrays"}

Quiet ==
  /\ UNCHANGED headers
  /\ \/ pc' = "refused"
     \/ pc \in Before /\ pc' \in Before /\ (next' = next \/ skipTypedef)
     \/ pc' = pc /\ UNCHANGED vars

Walks(from, to, change(_)) ==
  /\ pc = from /\ pc' = to /\ UNCHANGED <<input, next, tables, typedefs, used, resolution>>
  /\ headers' = [kind \in HeaderKinds |->
       IF kind \in Walked THEN [n \in DOMAIN headers[kind] |-> change(headers[kind][n])]
                          ELSE headers[kind]]

LEMMA HeadersSteps ==
  ASSUME Progress, [Next]_vars
  PROVE  \/ \E kind \in Kinds : StoresOne(kind)
         \/ Quiet
         \/ convert_list_of_array_types_to_dictionaries \/ build_composite_types
         \/ Walks("non_intrinsics", "externals", FirstWalk) \/ Walks("externals", "done", SecondWalk)
<1>1. CASE UNCHANGED vars
  BY <1>1 DEF vars, names_vars, Quiet
<1>2. CASE RecordTypedefs
  BY <1>2 DEF RecordTypedefs, record_typedefs, Quiet, Before
<1>3. CASE StartTypedef \/ FollowAlias \/ ReachRoot \/ Return
  BY <1>3 DEF StartTypedef, FollowAlias, ReachRoot, Return, Calling, Resolving, names_vars, Quiet, Before
<1>4. CASE ThrowLoop
  BY <1>4 DEF ThrowLoop, Throw, Quiet
<1>5. CASE FixNames
  BY <1>5 DEF FixNames, fix_names, Throw, Quiet, Before
<1>6. CASE AddThing \/ AddEnum
  <2>1. (pc = "adding" /\ pc' = "adding" /\ next' # next) /\ ~ skipTypedef
    <3>1. ASSUME NEW kind \in Kinds, Adding(kind), Added(kind) PROVE (pc = "adding" /\ pc' = "adding" /\ next' # next) /\ ~ skipTypedef
      BY <3>1 DEF Adding, Added, skipTypedef, Progress, Kinds
    <3>. QED BY <1>6, <3>1 DEF AddThing, AddEnum, addDictionary, addCallback, addInterface, addEnum, Kinds
  <2>2. ~ StoresNothing /\ ~ convert_list_of_array_types_to_dictionaries
    BY <2>1 DEF StoresNothing, convert_list_of_array_types_to_dictionaries, Proceed
  <2>. QED BY <2>1, <2>2, StoreSteps
<1>7. CASE AddNothing
  <2>1. CASE addEmptyEnum \/ addUntypedInterface
    BY <1>7, <2>1 DEF AddNothing, addEmptyEnum, addUntypedInterface, Refuse, Throw, Quiet
  <2>2. CASE skipTypedef
    BY <1>7, <2>2 DEF AddNothing, skipTypedef, Adding, Quiet, Before
  <2>. QED BY <1>7, <2>1, <2>2 DEF AddNothing
<1>8. CASE ReportReusedNames
  BY <1>8 DEF ReportReusedNames, report_reused_names, Throw, Quiet, Before
<1>9. CASE processTypeCheckQueue \/ UnsupportedType
  BY <1>9 DEF processTypeCheckQueue, UnsupportedType, Proceed, Quiet, Before
<1>10. CASE fix_non_intrinsics_lists
  BY <1>10, Zenon DEF fix_non_intrinsics_lists, Walks, Walk, Proceed, FirstWalk
<1>11. CASE fix_externalTypes_lists
  BY <1>11, Zenon DEF fix_externalTypes_lists, Walks, Walk, Proceed, SecondWalk
<1>12. CASE Stop
  BY <1>1, <1>12 DEF Stop
<1>. QED BY <1>1, <1>2, <1>3, <1>4, <1>5, <1>6, <1>7, <1>8, <1>9, <1>10, <1>11, <1>12, Zenon DEF Next

LEMMA HeadersStart ==
  ASSUME Init
  PROVE  HeadersInv
<1>1. Input /\ next = 1 /\ pc = "typedefs" /\ headers = [kind \in HeaderKinds |-> << >>]
  BY DEF Init, NamesInit, Input
<1>2. \A i \in DOMAIN ast : ~ (i < next)
  BY <1>1, InputFacts
<1>. QED BY <1>1, <1>2 DEF HeadersInv, Arrayed

LEMMA SameWalk ==
  ASSUME UNCHANGED <<allExternalTypes, tables>>, NEW h
  PROVE  FirstWalk(h)' = FirstWalk(h) /\ SecondWalk(h)' = SecondWalk(h)
<1>1. all_external_types' = all_external_types
  BY DEF all_external_types, defined_in_this_file
<1>2. \A list : External(list)' = External(list) /\ Here(list)' = Here(list)
  BY <1>1 DEF External, Here
<1>. QED BY <1>2 DEF FirstWalk, SecondWalk

LEMMA HeadersStep ==
  ASSUME Progress, HeadersInv, [Next]_vars
  PROVE  HeadersInv'
<1>1. Input /\ input' = input /\ ast' = ast
  BY ProgressStep DEF Progress, ast
<1>2. Len(ast) \in Nat /\ DOMAIN ast = 1 .. Len(ast)
  BY <1>1, InputFacts
<1>3. \A i : Sole(i)' = Sole(i)
  BY <1>1 DEF Sole
<1>4. pc \notin {"typedefs", "checking"} =>
        /\ UNCHANGED <<typedefs, ultimate_typename>>
        /\ \A i : HeadersFor(i)' = HeadersFor(i) /\ Key(i)' = Key(i)
        /\ \A array : HeadersOfArray(array)' = HeadersOfArray(array)
  BY <1>1, SettledSteps, SameThings
<1>5. next \in 1 .. Len(ast) + 1 /\ (pc \in {"typedefs", "checking"} => next = 1)
  BY DEF Progress, Early
<1>6. ASSUME NEW kind \in Kinds, StoresOne(kind) PROVE HeadersInv'
  <2>1. PICK u : u = next
    OBVIOUS
  <2>2. /\ u \in 1 .. Len(ast) /\ next' = u + 1 /\ pc = "adding" /\ pc' = "adding" /\ ast[u].kind = kind
        /\ IF kind = "enum" THEN UNCHANGED headers
           ELSE headers' = [headers EXCEPT ![kind] = With(@, Key(u), HeadersFor(u))]
    BY <1>6, <2>1 DEF StoresOne, Adding, this_thing
  <2>3. DOMAIN headers = HeaderKinds /\ DOMAIN headers' = HeaderKinds
    BY <2>2 DEF HeadersInv
  <2>4. ASSUME NEW i \in DOMAIN ast, i < u + 1, ast[i].kind \in Walked, Sole(i)
        PROVE  Key(i) \in DOMAIN headers'[ast[i].kind] /\ headers'[ast[i].kind][Key(i)] = HeadersFor(i)
    <3>1. CASE i = u
      <4>1. kind \in HeaderKinds /\ kind # "enum"
        BY <2>2, <2>4, <3>1 DEF Walked, HeaderKinds
      <4>2. headers'[kind] = With(headers[kind], Key(u), HeadersFor(u))
        BY <2>2, <2>3, <4>1
      <4>. QED BY <2>2, <3>1, <4>2 DEF With
    <3>2. CASE i # u
      <4>1. i < u
        BY <1>2, <2>2, <2>4, <3>2
      <4>2. Key(i) \in DOMAIN headers[ast[i].kind] /\ headers[ast[i].kind][Key(i)] = HeadersFor(i)
        BY <2>1, <2>2, <2>4, <4>1 DEF HeadersInv, Moved, Arrayed
      <4>3. CASE ast[i].kind = kind /\ kind # "enum"
        <5>1. kind \in HeaderKinds
          BY <2>4, <4>3 DEF Walked, HeaderKinds
        <5>2. headers'[kind] = With(headers[kind], Key(u), HeadersFor(u))
          BY <2>2, <2>3, <4>3, <5>1
        <5>3. Key(i) # Key(u)
          BY <1>2, <2>2, <2>4, <3>2, <4>3 DEF Sole, Key
        <5>. QED BY <4>2, <4>3, <5>2, <5>3 DEF With
      <4>4. CASE ast[i].kind # kind \/ kind = "enum"
        <5>1. ast[i].kind \in HeaderKinds
          BY <2>4 DEF Walked, HeaderKinds
        <5>2. headers'[ast[i].kind] = headers[ast[i].kind]
          BY <2>2, <2>3, <4>4, <5>1
        <5>. QED BY <4>2, <5>2
      <4>. QED BY <4>3, <4>4
    <3>. QED BY <3>1, <3>2
  <2>. QED BY <1>1, <1>3, <1>4, <2>2, <2>3, <2>4 DEF HeadersInv, Moved, Arrayed
<1>7. CASE Quiet
  <2>1. CASE pc' = "refused"
    BY <2>1 DEF HeadersInv
  <2>2. CASE UNCHANGED vars
    <3>1. UNCHANGED <<pc, next, headers, array_types, allExternalTypes, tables, typedefs, ultimate_typename>>
      BY <2>2 DEF vars, names_vars, used, resolution
    <3>2. /\ \A i : HeadersFor(i)' = HeadersFor(i) /\ Key(i)' = Key(i)
          /\ \A array : HeadersOfArray(array)' = HeadersOfArray(array)
      BY <1>1, <3>1, SameThings
    <3>3. \A h : FirstWalk(h)' = FirstWalk(h) /\ SecondWalk(h)' = SecondWalk(h)
      BY <3>1, SameWalk
    <3>4. \A i : Moved(HeadersFor(i))' = Moved(HeadersFor(i))
      <4>. TAKE i
      <4>1. PICK h : h = HeadersFor(i)
        OBVIOUS
      <4>2. HeadersFor(i)' = h
        BY <3>2, <4>1
      <4>3. PICK g : g = FirstWalk(h)
        OBVIOUS
      <4>4. FirstWalk(h)' = g /\ SecondWalk(g)' = SecondWalk(g)
        BY <3>3, <4>3
      <4>. QED BY <3>1, <4>1, <4>2, <4>3, <4>4 DEF Moved
    <3>5. \A i : Moved(HeadersOfArray(i))' = Moved(HeadersOfArray(i))
      <4>. TAKE i
      <4>1. PICK h : h = HeadersOfArray(i)
        OBVIOUS
      <4>2. HeadersOfArray(i)' = h
        BY <3>2, <4>1
      <4>3. PICK g : g = FirstWalk(h)
        OBVIOUS
      <4>4. FirstWalk(h)' = g /\ SecondWalk(g)' = SecondWalk(g)
        BY <3>3, <4>3
      <4>. QED BY <3>1, <4>1, <4>2, <4>3, <4>4 DEF Moved
    <3>. QED BY <1>1, <1>3, <3>1, <3>2, <3>4, <3>5 DEF HeadersInv
  <2>3. CASE pc \in Before /\ pc' \in Before /\ (next' = next \/ skipTypedef)
    <3>1. UNCHANGED headers /\ pc # "refused"
      BY <1>7, <2>3 DEF Quiet, Before
    <3>2. ASSUME NEW i \in DOMAIN ast, i < next', ast[i].kind \in Walked, Sole(i)
          PROVE  i < next /\ pc \notin {"typedefs", "checking"}
      <4>1. CASE next' = next
        BY <1>2, <1>5, <3>2, <4>1
      <4>2. CASE skipTypedef
        <5>1. next' = next + 1 /\ pc = "adding" /\ ast[next].kind = "typedef"
          BY <4>2 DEF skipTypedef, Adding, this_thing
        <5>2. i # next
          BY <3>2, <5>1 DEF Walked
        <5>. QED BY <1>2, <1>5, <3>2, <5>1, <5>2
      <4>. QED BY <2>3, <4>1, <4>2
    <3>. QED BY <1>1, <1>3, <1>4, <2>3, <3>1, <3>2 DEF HeadersInv, Moved, Before, Arrayed
  <2>. QED BY <1>7, <2>1, <2>2, <2>3 DEF Quiet
<1>8. CASE convert_list_of_array_types_to_dictionaries
  <2>1. /\ pc = "arrays" /\ pc' = "composites" /\ array_types' = array_types /\ next' = next
        /\ headers' = [headers EXCEPT !["dictionary"] =
              [n \in DOMAIN @ \union array_types |-> IF n \in array_types THEN HeadersOfArray(n) ELSE @[n]]]
    BY <1>8 DEF convert_list_of_array_types_to_dictionaries, Proceed, used, HeadersOfArray
  <2>2. DOMAIN headers = HeaderKinds /\ DOMAIN headers' = HeaderKinds /\ "dictionary" \in HeaderKinds
    BY <2>1 DEF HeadersInv, HeaderKinds
  <2>3. headers'["dictionary"] = [n \in DOMAIN headers["dictionary"] \union array_types |->
                                    IF n \in array_types THEN HeadersOfArray(n) ELSE headers["dictionary"][n]]
        /\ \A kind \in HeaderKinds : kind # "dictionary" => headers'[kind] = headers[kind]
    BY <2>1, <2>2
  <2>4. Walked \subseteq HeaderKinds
    BY DEF Walked, HeaderKinds
  <2>5. ASSUME NEW i \in DOMAIN ast, i < next, ast[i].kind \in Walked, Sole(i),
               ast[i].kind = "dictionary" => Key(i) \notin array_types
        PROVE  Key(i) \in DOMAIN headers'[ast[i].kind] /\ headers'[ast[i].kind][Key(i)] = HeadersFor(i)
    <3>1. Key(i) \in DOMAIN headers[ast[i].kind] /\ headers[ast[i].kind][Key(i)] = HeadersFor(i)
      BY <2>1, <2>5 DEF HeadersInv, Moved, Arrayed
    <3>. QED BY <2>3, <2>4, <2>5, <3>1
  <2>6. \A array \in array_types : /\ array \in DOMAIN headers'["dictionary"]
                                   /\ headers'["dictionary"][array] = HeadersOfArray(array)
    BY <2>3
  <2>. QED BY <1>1, <1>3, <1>4, <2>1, <2>2, <2>5, <2>6 DEF HeadersInv, Moved, Arrayed
<1>9. CASE build_composite_types
  <2>1. /\ pc = "composites" /\ pc' = "non_intrinsics" /\ array_types' = array_types /\ next' = next
        /\ \E other : headers' = [headers EXCEPT !["composite"] = other]
    BY <1>9, Zenon DEF build_composite_types, Proceed, used
  <2>2. DOMAIN headers = HeaderKinds
    BY <2>1 DEF HeadersInv
  <2>3. DOMAIN headers' = HeaderKinds /\ \A kind \in Walked : headers'[kind] = headers[kind]
    BY <2>1, <2>2 DEF Walked, HeaderKinds
  <2>4. "dictionary" \in Walked
    BY DEF Walked
  <2>. QED BY <1>1, <1>3, <1>4, <2>1, <2>3, <2>4 DEF HeadersInv, Moved, Arrayed
<1>10. ASSUME NEW from, NEW to, <<from, to>> \in {<<"non_intrinsics", "externals">>, <<"externals", "done">>},
              pc = from, pc' = to, UNCHANGED <<next, used, tables>>,
              \A kind \in Walked : /\ DOMAIN headers'[kind] = DOMAIN headers[kind]
                                   /\ \A n \in DOMAIN headers[kind] :
                                        headers'[kind][n] = IF to = "done" THEN SecondWalk(headers[kind][n])
                                                            ELSE FirstWalk(headers[kind][n]),
              DOMAIN headers' = HeaderKinds
       PROVE  HeadersInv'
  <2>1. pc \in Arrayed /\ pc' \in Arrayed /\ pc # "refused" /\ pc \notin {"typedefs", "checking"}
    BY <1>10 DEF Arrayed
  <2>2. UNCHANGED <<array_types, allExternalTypes, tables>>
    BY <1>10 DEF used
  <2>3. \A h : FirstWalk(h)' = FirstWalk(h) /\ SecondWalk(h)' = SecondWalk(h)
    BY <2>2, SameWalk
  <2>4. ASSUME NEW kind \in Walked, NEW n \in DOMAIN headers[kind], NEW h, headers[kind][n] = Moved(h)
        PROVE  n \in DOMAIN headers'[kind] /\ headers'[kind][n] = Moved(h)'
    <3>1. PICK g : g = FirstWalk(h)
      OBVIOUS
    <3>2. FirstWalk(h)' = g /\ SecondWalk(g)' = SecondWalk(g)
      BY <2>3, <3>1
    <3>3. CASE from = "non_intrinsics"
      <4>1. Moved(h) = h /\ Moved(h)' = g /\ to = "externals"
        BY <1>10, <3>2, <3>3 DEF Moved
      <4>. QED BY <1>10, <2>4, <3>1, <4>1
    <3>4. CASE from = "externals"
      <4>1. Moved(h) = g /\ Moved(h)' = SecondWalk(g) /\ to = "done"
        BY <1>10, <3>1, <3>2, <3>4 DEF Moved
      <4>. QED BY <1>10, <2>4, <3>1, <4>1
    <3>. QED BY <1>10, <3>3, <3>4
  <2>5. ASSUME NEW i \in DOMAIN ast, i < next, ast[i].kind \in Walked, Sole(i),
               ast[i].kind = "dictionary" => Key(i) \notin array_types
        PROVE  Key(i) \in DOMAIN headers'[ast[i].kind] /\ headers'[ast[i].kind][Key(i)] = Moved(HeadersFor(i))'
    <3>1. PICK k, h : k = Key(i) /\ h = HeadersFor(i)
      OBVIOUS
    <3>2. k \in DOMAIN headers[ast[i].kind] /\ headers[ast[i].kind][k] = Moved(h)
      BY <2>1, <2>5, <3>1 DEF HeadersInv
    <3>3. k \in DOMAIN headers'[ast[i].kind] /\ headers'[ast[i].kind][k] = Moved(h)'
      BY <2>4, <2>5, <3>2
    <3>4. HeadersFor(i)' = h
      BY <1>4, <2>1, <3>1
    <3>5. Moved(HeadersFor(i))' = Moved(h)'
      BY <3>4 DEF Moved
    <3>. QED BY <3>1, <3>3, <3>5
  <2>6. ASSUME NEW array \in array_types
        PROVE  array \in DOMAIN headers'["dictionary"] /\ headers'["dictionary"][array] = Moved(HeadersOfArray(array))'
    <3>1. PICK h : h = HeadersOfArray(array)
      OBVIOUS
    <3>2. array \in DOMAIN headers["dictionary"] /\ headers["dictionary"][array] = Moved(h)
      BY <2>1, <3>1 DEF HeadersInv
    <3>3. "dictionary" \in Walked
      BY DEF Walked
    <3>4. array \in DOMAIN headers'["dictionary"] /\ headers'["dictionary"][array] = Moved(h)'
      BY <2>4, <3>2, <3>3
    <3>5. HeadersOfArray(array)' = h
      BY <1>4, <2>1, <3>1
    <3>6. Moved(HeadersOfArray(array))' = Moved(h)'
      BY <3>5 DEF Moved
    <3>. QED BY <3>4, <3>6
  <2>. QED BY <1>1, <1>3, <1>4, <1>10, <2>1, <2>2, <2>5, <2>6 DEF HeadersInv
<1>11. CASE Walks("non_intrinsics", "externals", FirstWalk)
  <2>1. Walked \subseteq HeaderKinds
    BY DEF Walked, HeaderKinds
  <2>. QED BY <1>10, <1>11, <2>1 DEF Walks
<1>12. CASE Walks("externals", "done", SecondWalk)
  <2>1. Walked \subseteq HeaderKinds
    BY DEF Walked, HeaderKinds
  <2>. QED BY <1>10, <1>12, <2>1 DEF Walks
<1>. QED BY <1>6, <1>7, <1>8, <1>9, <1>11, <1>12, HeadersSteps

LEMMA ElsewhereIsExternal ==
  ASSUME Core, RecordedInv, KeysInv, pc = "done", NEW name
  PROVE  name \in all_external_types <=> DeclaredElsewhere(name)
<1>1. Progress /\ Input /\ next = Len(ast) + 1 /\ error # "no_values"
  BY DEF Core, Progress, Late
<1>2. name \in allExternalTypes <=> DeclaredExternal(name)
  BY <1>1, ExternalTypes
<1>3. \A kind : AddedOf(kind) = {i \in DOMAIN ast : ast[i].kind = kind}
  BY <1>1, AllLooked
<1>4. \A thing \in Range(ast) : \E i \in DOMAIN ast : thing = ast[i]
  BY <1>1, InputFacts
<1>5. \A i \in DOMAIN ast : ast[i] \in Range(ast)
  BY <1>1, InputFacts
<1>6. name \in defined_in_this_file <=> \E kind \in Walked : name \in Keys(kind)
  BY <1>1 DEF defined_in_this_file, KeysInv, Walked, Kinds
<1>7. name \in defined_in_this_file <=>
        \/ name \in array_types
        \/ \E i \in DOMAIN ast : ast[i].kind \in Walked /\ name = fix_type_name(ast[i].name)
  BY <1>3, <1>6 DEF Keys, Key, Arrayed, Walked
<1>8. name \in defined_in_this_file <=>
        \/ name \in array_types
        \/ \E thing \in Range(ast) : thing.kind \in Walked /\ fix_type_name(thing.name) = name
  BY <1>4, <1>5, <1>7
<1>. QED BY <1>2, <1>8 DEF all_external_types, DeclaredElsewhere

LEMMA UltimateIsReached ==
  ASSUME Core, pc \notin {"typedefs", "checking", "refused"}, NEW type
  PROVE  Ultimate(type) = Reaches(type)
<1>1. error # "Loop_in_typedefs" /\ Cardinality(Typedefs) \in Nat
  BY TypedefsFacts DEF Core, Progress
<1>2. CASE type \in Typedefs
  BY <1>1, <1>2, AllResolved DEF Ultimate
<1>3. CASE type \notin Typedefs
  BY <1>1, <1>3, ReachesItself DEF Ultimate
<1>. QED BY <1>2, <1>3

LEMMA AtHome ==
  ASSUME Core, RecordedInv, KeysInv, pc = "done", NEW B, NEW names \in Seq(B),
         NEW externals, IsList(externals), IsInjective(externals),
         NEW k \in 1 .. Len(names), Reaches(names[k]) \notin Intrinsic,
         NEW g, g = Moved(Headers(names, externals))
  PROVE  IsAtHome(g, Reaches(names[k]))
<1>. DEFINE name == Reaches(names[k])
<1>1. Ultimate(names[k]) = name
  BY UltimateIsReached
<1>. HIDE DEF name
<1>2. PICK h : h = Headers(names, externals)
  OBVIOUS
<1>3. g = SecondWalk(FirstWalk(h))
  BY <1>2 DEF Moved
<1>4. PICK A : ListsOf(h, names, externals, A)
  BY <1>2, HeadersFacts
<1>9. /\ h.non_intrinsic_types \in Seq(A) /\ h.externalTypes \in Seq(A)
      /\ h.externalTypes = externals
      /\ Distinct(h.non_intrinsic_types)
      /\ ToSet(h.non_intrinsic_types) \cap ToSet(h.externalTypes) = {}
      /\ \A l \in 1 .. Len(names) :
           Ultimate(names[l]) \notin Intrinsic =>
             Ultimate(names[l]) \in ToSet(h.non_intrinsic_types) \cup ToSet(h.externalTypes)
  BY <1>4 DEF ListsOf
<1>5. Distinct(h.externalTypes)
  <2>1. DOMAIN externals = 1 .. Len(externals)
    BY ListFacts
  <2>. QED BY <1>9, <2>1, Zenon DEF Distinct, IsInjective
<1>6. name \in ToSet(h.non_intrinsic_types) \cup ToSet(h.externalTypes)
  BY <1>1, <1>9 DEF name
<1>7. IF name \in all_external_types
      THEN Only(g.externalTypes, name) /\ Occurrences(g.non_intrinsic_types, name) = {}
      ELSE Only(g.non_intrinsic_types, name) /\ Occurrences(g.externalTypes, name) = {}
  BY <1>3, <1>9, <1>5, <1>6, OneHome
<1>8. IsAtHome(g, name)
  BY <1>7, ElsewhereIsExternal DEF IsAtHome
<1>. QED BY <1>8 DEF name

LEMMA ThingsAtHome ==
  ASSUME Core, RecordedInv, KeysInv, HeadersInv, pc = "done",
         NEW i \in DOMAIN ast, ast[i].kind \in Walked, Alone(i), NEW e \in Range(ast[i].types),
         Reaches(fix_type(typename(e))) \notin Intrinsic, Listed(e) = fix_type(typename(e))
  PROVE  IsAtHome(headers[ast[i].kind][fix_type_name(ast[i].name)], Reaches(fix_type(typename(e))))
<1>1. Input /\ next = Len(ast) + 1
  BY DEF Core, Progress, Late
<1>2. Len(ast) \in Nat /\ i \in 1 .. Len(ast) /\ ast[i] \in Range(ast)
  BY <1>1, InputFacts
<1>3. i < next
  BY <1>1, <1>2
<1>4. IsList(ast[i].types) /\ IsList(ast[i].externalTypes)
  BY <1>1, <1>2, InputFacts
<1>. DEFINE types == ast[i].types
            names == [k \in DOMAIN types |-> Listed(types[k])]
            B == {Listed(x) : x \in Range(types)}
            n == Len(types)
<1>5. /\ n \in Nat /\ DOMAIN types = 1 .. n /\ \A k \in 1 .. n : types[k] \in Range(types)
      /\ \E k \in 1 .. n : types[k] = e
  BY <1>4, ListFacts
<1>6. HeadersFor(i) = Headers(names, ast[i].externalTypes)
  BY DEF HeadersFor
<1>7. Sole(i) /\ Key(i) \notin array_types /\ IsInjective(ast[i].externalTypes)
  BY DEF Alone, Sole, Key
<1>8. headers[ast[i].kind][Key(i)] = Moved(HeadersFor(i))
  BY <1>3, <1>7 DEF HeadersInv
<1>. HIDE DEF n, types
<1>9. names \in Seq(B) /\ Len(names) = n
  <2>1. names \in [1 .. n -> B]
    BY <1>5
  <2>. HIDE DEF names, B
  <2>. QED BY <1>5, <2>1, TupleIsSeq
<1>10. PICK k \in 1 .. n : types[k] = e
  BY <1>5
<1>11. names[k] = fix_type(typename(e))
  BY <1>5, <1>10
<1>. HIDE DEF names, B
<1>12. Reaches(names[k]) \notin Intrinsic
  BY <1>11
<1>13. PICK g : g = Moved(Headers(names, ast[i].externalTypes))
  OBVIOUS
<1>14. IsAtHome(g, Reaches(names[k]))
  BY <1>4, <1>7, <1>9, <1>12, <1>13, AtHome
<1>15. headers[ast[i].kind][Key(i)] = g
  BY <1>6, <1>8, <1>13
<1>. QED BY <1>11, <1>14, <1>15 DEF Key

LEMMA ArraysAtHome ==
  ASSUME Core, RecordedInv, KeysInv, HeadersInv, pc = "done", NEW array \in array_types,
         Reaches(fix_type(element(array))) \notin Intrinsic
  PROVE  IsAtHome(headers["dictionary"][array], Reaches(fix_type(element(array))))
<1>1. headers["dictionary"][array] = Moved(HeadersOfArray(array))
  BY DEF HeadersInv, Arrayed
<1>2. PICK type : type = fix_type(element(array))
  OBVIOUS
<1>. DEFINE names == <<type>>
<1>3. names \in Seq({type}) /\ Len(names) = 1 /\ names[1] = type /\ 1 \in 1 .. Len(names)
  OBVIOUS
<1>4. IsList(<< >>) /\ IsInjective(<< >>)
  <2>1. DOMAIN << >> = {}
    OBVIOUS
  <2>2. << >> \in Seq({})
    BY EmptySeq
  <2>. QED BY <2>1, <2>2, IsListOf DEF IsInjective
<1>5. headers["dictionary"][array] = Moved(Headers(names, << >>))
  BY <1>1, <1>2 DEF HeadersOfArray
<1>. HIDE DEF names
<1>6. Reaches(names[1]) \notin Intrinsic
  BY <1>2, <1>3
<1>7. PICK g : g = Moved(Headers(names, << >>))
  OBVIOUS
<1>8. IsAtHome(g, Reaches(names[1]))
  BY <1>3, <1>4, <1>6, <1>7, AtHome
<1>. QED BY <1>2, <1>3, <1>5, <1>7, <1>8

LEMMA HeadersInvariant == Spec => [](Core /\ RecordedInv /\ KeysInv /\ HeadersInv)
<1>1. Init => Core /\ RecordedInv /\ KeysInv /\ HeadersInv
  BY CoreStart, RecordedStart, KeysStart, HeadersStart
<1>2. Core /\ RecordedInv /\ KeysInv /\ HeadersInv /\ [Next]_vars => (Core /\ RecordedInv /\ KeysInv /\ HeadersInv)'
  BY CoreStep, RecordedStep, KeysStep, HeadersStep DEF Core
<1>. QED BY <1>1, <1>2, PTL DEF Spec

(* Whatever the file: in the end each type that a callback, dictionary or    *)
(* interface uses, and the element of each array, is once in exactly one of  *)
(* the two lists of its user, the one that its place of declaration asks for *)
(* (find_and_recategorize_external_types, AugmentedAST.js:989).              *)
THEOREM EveryTypeAlwaysHasOneHome == Spec => []EveryTypeHasOneHome
<1>1. ASSUME Core, RecordedInv, KeysInv, HeadersInv PROVE EveryTypeHasOneHome
  <2>1. ASSUME pc = "done", NEW i \in DOMAIN ast, ast[i].kind \in Walked /\ Alone(i), NEW e \in Range(ast[i].types),
               Reaches(fix_type(typename(e))) \notin Intrinsic /\ Listed(e) = fix_type(typename(e))
        PROVE  IsAtHome(headers[ast[i].kind][fix_type_name(ast[i].name)], Reaches(fix_type(typename(e))))
    BY <1>1, <2>1, ThingsAtHome
  <2>2. ASSUME pc = "done", NEW array \in array_types, Reaches(fix_type(element(array))) \notin Intrinsic
        PROVE  IsAtHome(headers["dictionary"][array], Reaches(fix_type(element(array))))
    BY <1>1, <2>2, ArraysAtHome
  <2>. QED BY <2>1, <2>2, Zenon DEF EveryTypeHasOneHome
<1>. QED BY <1>1, HeadersInvariant, PTL

----------------------------------------------------------------------------
(* What is stored, until the arrays become dictionaries. *)
Naming == pc \in {"adding", "accepted"} \/ error = "duplicate_names"

TablesInv ==
  Naming =>
    \A kind \in Kinds : \A n \in DOMAIN tables[kind] :
      \E i \in AddedOf(kind) : Key(i) = n /\ tables[kind][n] = StoredFor(i)

(* What was reported. *)
Duplicates == DuplicateMembers \union DuplicateArguments \union DuplicateConstructs

ReportInv ==
  /\ pc = "accepted" => Duplicates = {}
  /\ error = "duplicate_names" => Duplicates # {} /\ error_messages = Duplicates

LEMMA SameStored ==
  ASSUME input' = input, local_reserved_words' = local_reserved_words
  PROVE  \A i : StoredFor(i)' = StoredFor(i) /\ Key(i)' = Key(i)
<1>1. ast' = ast
  BY DEF ast
<1>2. \A name : fix_name(name)' = fix_name(name)
  BY DEF fix_name
<1>3. \A names : fixed(names)' = fixed(names)
  BY <1>2 DEF fixed
<1>4. \A value : fix_enum(value)' = fix_enum(value)
  BY <1>2, Zenon DEF fix_enum
<1>5. ASSUME NEW i PROVE StoredFor(i)' = StoredFor(i)
  <2>1. PICK thing : thing = ast[i]
    OBVIOUS
  <2>2. \A value : expand_enums(thing, value)' = expand_enums(thing, value)
    BY Zenon DEF expand_enums
  <2>3. \A value : fix_enum(expand_enums(thing, value))' = fix_enum(expand_enums(thing, value))
    <3>. TAKE value
    <3>1. PICK v : v = expand_enums(thing, value)
      OBVIOUS
    <3>2. expand_enums(thing, value)' = v
      BY <2>2, <3>1
    <3>. QED BY <1>4, <3>1, <3>2
  <2>. QED BY <1>1, <1>3, <2>1, <2>3, Zenon DEF StoredFor
<1>6. \A i : Key(i)' = Key(i)
  BY <1>1 DEF Key
<1>. QED BY <1>5, <1>6

LEMMA NamingSteps ==
  ASSUME Progress, [Next]_vars, Naming'
  PROVE  /\ pc = "checking" \/ Naming
         /\ Naming => local_reserved_words' = local_reserved_words /\ pc \notin {"typedefs", "checking"}
         /\ pc = "checking" => next' = next /\ tables' = tables /\ tables = [kind \in Kinds |-> << >>]
<1>0. /\ pc = "refused" <=> error # "none"
      /\ Early => tables = [kind \in Kinds |-> << >>]
  BY DEF Progress
<1>1. CASE UNCHANGED names_vars
  BY <1>0, <1>1 DEF names_vars, Naming
<1>2. CASE record_typedefs
  BY <1>0, <1>2 DEF record_typedefs, Naming
<1>3. CASE fix_names
  <2>1. pc = "checking" /\ next' = next /\ tables' = tables
    BY <1>3 DEF fix_names
  <2>. QED BY <1>0, <2>1 DEF Naming, Early
<1>4. CASE report_reused_names \/ skipTypedef
  BY <1>0, <1>4 DEF report_reused_names, skipTypedef, Adding, Naming
<1>5. ASSUME NEW kind \in Kinds, Adds(kind)
      PROVE  pc = "adding" /\ local_reserved_words' = local_reserved_words
  BY <1>5 DEF Adds, Adding, Added
<1>6. CASE Refuses("enum", "no_values") \/ Refuses("interface", "no_return_type")
  BY <1>6 DEF Refuses, Refuse, Throw, Naming
<1>7. ASSUME Throw("Loop_in_typedefs") \/ Throw("Unsupported_type") PROVE FALSE
  BY <1>7 DEF Throw, Naming
<1>8. CASE /\ pc \in Late /\ pc' \in Late \ {"accepted"}
           /\ DOMAIN tables' = DOMAIN tables
           /\ UNCHANGED <<input, next, local_reserved_words, typedefs,
                          construct_names_seen, error_messages, error>>
  BY <1>0, <1>8 DEF Naming, Late
<1>. QED BY <1>0, <1>1, <1>2, <1>3, <1>4, <1>5, <1>6, <1>7, <1>8, NamesSteps DEF Naming

LEMMA TablesStart ==
  ASSUME Init
  PROVE  TablesInv /\ ReportInv
BY DEF Init, NamesInit, TablesInv, ReportInv, Naming

LEMMA TablesStep ==
  ASSUME Progress, TablesInv, [Next]_vars
  PROVE  TablesInv'
<1>. SUFFICES ASSUME Naming', NEW kind \in Kinds, NEW n \in DOMAIN tables'[kind]
              PROVE  \E i \in AddedOf(kind)' : Key(i)' = n /\ tables'[kind][n] = StoredFor(i)'
  BY DEF TablesInv
<1>1. Input /\ input' = input /\ ast' = ast
  BY ProgressStep DEF Progress, ast
<1>2. CASE pc = "checking"
  <2>1. tables'[kind] = << >> /\ DOMAIN << >> = {}
    BY <1>2, NamingSteps
  <2>. QED BY <2>1
<1>3. CASE Naming
  <2>1. local_reserved_words' = local_reserved_words /\ DOMAIN tables = Kinds
    BY <1>3, NamingSteps DEF Progress
  <2>2. \A i : StoredFor(i)' = StoredFor(i) /\ Key(i)' = Key(i)
    BY <1>1, <2>1, SameStored
  <2>3. ASSUME NEW k \in Kinds, StoresOne(k)
        PROVE  \E i \in AddedOf(kind)' : Key(i)' = n /\ tables'[kind][n] = StoredFor(i)'
    <3>1. PICK u : u = next
      OBVIOUS
    <3>2. /\ u \in 1 .. Len(ast) /\ next' = next + 1 /\ ast[u].kind = k
          /\ tables' = [tables EXCEPT ![k] = With(@, Key(u), StoredFor(u))]
      BY <2>3, <3>1 DEF StoresOne, Adding, this_thing
    <3>3. AddedOf(kind)' = IF kind = k THEN AddedOf(kind) \cup {u} ELSE AddedOf(kind)
      BY <1>1, <3>1, <3>2, AddedNext
    <3>4. CASE kind = k
      <4>1. tables'[kind] = With(tables[kind], Key(u), StoredFor(u))
        BY <2>1, <3>2, <3>4
      <4>2. CASE n = Key(u)
        <5>1. tables'[kind][n] = StoredFor(u)
          BY <4>1, <4>2 DEF With
        <5>. QED BY <2>2, <3>3, <3>4, <4>2, <5>1
      <4>3. CASE n # Key(u)
        <5>1. n \in DOMAIN tables[kind] /\ tables'[kind][n] = tables[kind][n]
          BY <4>1, <4>3 DEF With
        <5>2. PICK i \in AddedOf(kind) : Key(i) = n /\ tables[kind][n] = StoredFor(i)
          BY <1>3, <5>1 DEF TablesInv
        <5>. QED BY <2>2, <3>3, <3>4, <5>1, <5>2
      <4>. QED BY <4>2, <4>3
    <3>5. CASE kind # k
      <4>1. tables'[kind] = tables[kind]
        BY <2>1, <3>2, <3>5
      <4>2. PICK i \in AddedOf(kind) : Key(i) = n /\ tables[kind][n] = StoredFor(i)
        BY <1>3, <4>1 DEF TablesInv
      <4>. QED BY <2>2, <3>3, <3>5, <4>1, <4>2
    <3>. QED BY <3>4, <3>5
  <2>4. CASE StoresNothing
    <3>1. AddedOf(kind)' = AddedOf(kind) /\ tables' = tables
      BY <1>1, <2>4, AddedSame DEF StoresNothing
    <3>2. PICK i \in AddedOf(kind) : Key(i) = n /\ tables[kind][n] = StoredFor(i)
      BY <1>3, <3>1 DEF TablesInv
    <3>. QED BY <2>2, <3>1, <3>2
  <2>5. ~ convert_list_of_array_types_to_dictionaries
    BY <1>3 DEF convert_list_of_array_types_to_dictionaries, Proceed, Naming, Progress
  <2>6. error' # "no_values"
    <3>1. Progress'
      BY ProgressStep
    <3>. QED BY <3>1 DEF Naming, Progress
  <2>. QED BY <2>3, <2>4, <2>5, <2>6, StoreSteps
<1>. QED BY <1>2, <1>3, NamingSteps

LEMMA SameDuplicates ==
  ASSUME UNCHANGED <<tables, construct_names_seen>>
  PROVE  Duplicates' = Duplicates
<1>1. DuplicateMembers' = DuplicateMembers
  BY DEF DuplicateMembers
<1>2. DuplicateArguments' = DuplicateArguments
  BY DEF DuplicateArguments
<1>3. DuplicateConstructs' = DuplicateConstructs
  <2>1. \A n : total_occurences(n)' = total_occurences(n)
    BY DEF total_occurences
  <2>. QED BY <2>1 DEF DuplicateConstructs
<1>. QED BY <1>1, <1>2, <1>3 DEF Duplicates

LEMMA ReportStep ==
  ASSUME Progress, ReportInv, [Next]_vars
  PROVE  ReportInv'
<1>0. pc = "refused" <=> error # "none"
  BY DEF Progress
<1>1. CASE UNCHANGED names_vars
  <2>1. Duplicates' = Duplicates
    <3>1. UNCHANGED <<tables, construct_names_seen>>
      BY <1>1 DEF names_vars
    <3>. QED BY <3>1, SameDuplicates
  <2>. QED BY <1>1, <2>1 DEF names_vars, ReportInv
<1>2. CASE report_reused_names
  <2>1. UNCHANGED <<tables, construct_names_seen>>
    BY <1>2 DEF report_reused_names
  <2>2. Duplicates' = Duplicates
    BY <2>1, SameDuplicates
  <2>3. /\ pc = "adding" /\ error_messages' = Duplicates
        /\ IF error_messages' = {} THEN pc' = "accepted" /\ error' = error
                                  ELSE pc' = "refused" /\ error' = "duplicate_names"
    BY <1>2 DEF report_reused_names, Duplicates, Throw
  <2>. QED BY <1>0, <2>2, <2>3 DEF ReportInv
<1>3. ASSUME pc' # "accepted", error' # "duplicate_names" PROVE ReportInv'
  BY <1>3 DEF ReportInv
<1>4. CASE record_typedefs
  BY <1>0, <1>3, <1>4 DEF record_typedefs
<1>5. CASE fix_names
  BY <1>0, <1>3, <1>5 DEF fix_names, Throw
<1>6. CASE skipTypedef
  BY <1>0, <1>3, <1>6 DEF skipTypedef, Adding
<1>7. ASSUME NEW kind \in Kinds, Adds(kind) PROVE ReportInv'
  BY <1>0, <1>3, <1>7 DEF Adds, Adding, Added
<1>8. CASE Refuses("enum", "no_values") \/ Refuses("interface", "no_return_type")
  BY <1>3, <1>8 DEF Refuses, Refuse, Throw
<1>9. ASSUME Throw("Loop_in_typedefs") \/ Throw("Unsupported_type") PROVE ReportInv'
  BY <1>3, <1>9 DEF Throw
<1>10. CASE /\ pc \in Late /\ pc' \in Late \ {"accepted"}
            /\ DOMAIN tables' = DOMAIN tables
            /\ UNCHANGED <<input, next, local_reserved_words, typedefs,
                           construct_names_seen, error_messages, error>>
  BY <1>0, <1>3, <1>10 DEF Late
<1>. QED BY <1>1, <1>2, <1>4, <1>5, <1>6, <1>7, <1>8, <1>9, <1>10, NamesSteps

(* Counting. *)
LEMMA MoreThanOne ==
  ASSUME NEW S, IsFiniteSet(S)
  PROVE  /\ Cardinality(S) \in Nat
         /\ Cardinality(S) > 1 <=> \E a, b \in S : a # b
<1>1. Cardinality(S) \in Nat
  BY FS_CardinalityType
<1>2. ASSUME NEW a \in S, NEW b \in S, a # b PROVE Cardinality(S) > 1
  <2>1. Cardinality({a}) = 1 /\ IsFiniteSet({a})
    BY FS_Singleton
  <2>2. Cardinality({a} \cup {b}) = Cardinality({a}) + 1
    BY <1>2, <2>1, FS_AddElement
  <2>3. Cardinality({a} \cup {b}) <= Cardinality(S)
    <3>1. {a} \cup {b} \in SUBSET S
      OBVIOUS
    <3>. QED BY <3>1, FS_Subset
  <2>. QED BY <1>1, <2>1, <2>2, <2>3
<1>3. ASSUME \A a, b \in S : a = b PROVE ~ (Cardinality(S) > 1)
  <2>1. CASE S = {}
    <3>1. Cardinality(S) = 0
      BY <2>1, FS_EmptySet
    <3>. QED BY <3>1
  <2>2. CASE S # {}
    <3>1. PICK a : S = {a}
      BY <1>3, <2>2
    <3>2. Cardinality(S) = 1
      BY <3>1, FS_Singleton
    <3>. QED BY <3>2
  <2>. QED BY <2>1, <2>2
<1>. QED BY <1>1, <1>2, <1>3

LEMMA Repeated ==
  ASSUME NEW names, IsList(names)
  PROVE  find_duplicates_in_named_list(names) = {} <=> IsInjective(names)
<1>. DEFINE Places_(n) == {k \in DOMAIN names : names[k] = n}
            repeated == {n \in Range(names) : Cardinality(Places_(n)) > 1}
<1>1. DOMAIN names = 1 .. Len(names) /\ Len(names) \in Nat /\ \A i \in 1 .. Len(names) : names[i] \in Range(names)
  BY ListFacts
<1>2. IsFiniteSet(1 .. Len(names))
  BY <1>1, FS_Interval
<1>3. \A n : IsFiniteSet(Places_(n))
  <2>. TAKE n
  <2>1. Places_(n) \in SUBSET (1 .. Len(names))
    BY <1>1
  <2>. QED BY <1>2, <2>1, FS_Subset
<1>4. find_duplicates_in_named_list(names) = {[name |-> n, occurences |-> Cardinality(Places_(n))] : n \in repeated}
  BY Zenon DEF find_duplicates_in_named_list
<1>5. find_duplicates_in_named_list(names) = {} <=> repeated = {}
  <2>. HIDE DEF repeated
  <2>. QED BY <1>4
<1>6. \A n : Cardinality(Places_(n)) > 1 <=> \E a, b \in Places_(n) : a # b
  BY <1>3, MoreThanOne
<1>7. repeated = {} <=> \A n \in Range(names) : \A a, b \in Places_(n) : a = b
  <2>1. repeated = {} <=> \A n \in Range(names) : ~ (Cardinality(Places_(n)) > 1)
    <3>. HIDE DEF Places_
    <3>. QED OBVIOUS
  <2>. HIDE DEF Places_, repeated
  <2>. QED BY <1>6, <2>1
<1>. QED BY <1>1, <1>5, <1>7 DEF IsInjective

----------------------------------------------------------------------------
(* Names without underscores, and what becomes of them. *)
LEMMA FreeIsInjective ==
  ASSUME NEW a, IsList(a), NEW b, IsList(b), underscore \notin Range(a), underscore \notin Range(b),
         NEW words, IsFiniteSet(words), Free(a, words) = Free(b, words)
  PROVE  a = b
<1>1. PICK n \in Nat : Free(a, words) = Longer(a, n)
  BY FreeFacts
<1>2. PICK m \in Nat : Free(b, words) = Longer(b, m)
  BY FreeFacts
<1>. QED BY <1>1, <1>2, LongerIsInjective

LEMMA FreeWithout ==
  ASSUME NEW a, IsList(a), NEW words, IsFiniteSet(words), underscore \notin Range(Free(a, words))
  PROVE  Free(a, words) = a
<1>1. PICK n \in Nat : Free(a, words) = Longer(a, n)
  BY FreeFacts
<1>. DEFINE l == Len(a)
            long == Longer(a, n)
<1>2. /\ IsList(long) /\ Len(long) = l + n /\ (n = 0 => long = a)
      /\ \A i \in l + 1 .. l + n : long[i] = underscore
  BY <1>1, LongerFacts
<1>3. l \in Nat
  BY ListFacts
<1>4. ASSUME n # 0 PROVE FALSE
  <2>1. l + n \in l + 1 .. l + n /\ l + n \in 1 .. Len(long)
    <3>. HIDE DEF l, long
    <3>. QED BY <1>2, <1>3, <1>4
  <2>2. long[l + n] \in Range(long)
    BY <1>2, <2>1, ListFacts
  <2>. QED BY <1>1, <1>2, <2>1, <2>2
<1>. QED BY <1>1, <1>2, <1>4

LEMMA FiniteNames ==
  ASSUME Input
  PROVE  IsFiniteSet(AllNames) /\ IsFiniteSet(CWordsAndTypes \union AllNames)
<1>1. IsFiniteSet(1 .. Len(ast)) /\ DOMAIN ast = 1 .. Len(ast)
  BY InputFacts, FS_Interval
<1>. DEFINE names == [i \in 1 .. Len(ast) |-> ast[i].name]
<1>2. names \in Surjection(1 .. Len(ast), AllNames)
  BY <1>1 DEF AllNames, Surjection
<1>3. IsFiniteSet(AllNames)
  BY <1>1, <1>2, FS_Surjection
<1>. QED BY <1>3, FiniteWords, FS_Union

LEMMA FixNameFacts ==
  ASSUME Input, local_reserved_words = AllNames, NEW name, IsList(name)
  PROVE  /\ IsList(fix_name(name)) /\ fix_name(name) \notin CWordsAndTypes \union AllNames
         /\ underscore \notin Range(fix_name(name)) => fix_name(name) = name
         /\ \A other : IsList(other) /\ underscore \notin Range(name) /\ underscore \notin Range(other)
                         /\ fix_name(other) = fix_name(name) => other = name
<1>. DEFINE words == CWordsAndTypes \union AllNames
<1>1. IsFiniteSet(words) /\ \A other : fix_name(other) = Free(other, words)
  BY FiniteNames DEF fix_name
<1>. HIDE DEF words
<1>2. IsList(Free(name, words))
  BY <1>1, FreeIsList
<1>3. Free(name, words) \notin words
  BY <1>1, FreeFacts
<1>4. underscore \notin Range(Free(name, words)) => Free(name, words) = name
  BY <1>1, FreeWithout
<1>5. \A other : IsList(other) /\ underscore \notin Range(name) /\ underscore \notin Range(other)
                   /\ Free(other, words) = Free(name, words) => other = name
  BY <1>1, FreeIsInjective
<1>6. words = CWordsAndTypes \union AllNames
  BY DEF words
<1>. QED BY <1>1, <1>2, <1>3, <1>4, <1>5, <1>6

Smooth(list) == \A name \in Range(list) : underscore \notin Range(name)

LEMMA FixedFacts ==
  ASSUME Input, local_reserved_words = AllNames, NEW list, IsListOfNames(list)
  PROVE  /\ IsList(fixed(list))
         /\ \A name : name \in Range(fixed(list)) <=> \E other \in Range(list) : name = fix_name(other)
         /\ Range(fixed(list)) \cap (CWordsAndTypes \union AllNames) = {}
         /\ ~ IsInjective(list) => ~ IsInjective(fixed(list))
         /\ Smooth(list) /\ IsInjective(list) => IsInjective(fixed(list))
<1>. DEFINE n == Len(list)
            new == [k \in DOMAIN list |-> fix_name(list[k])]
            A == {fix_name(name) : name \in Range(list)}
<1>1. /\ n \in Nat /\ DOMAIN list = 1 .. n /\ \A k \in 1 .. n : list[k] \in Range(list)
      /\ \A x : x \in Range(list) <=> \E k \in 1 .. n : list[k] = x
  BY ListFacts DEF IsListOfNames
<1>. HIDE DEF n
<1>2. \A k \in 1 .. n : IsList(list[k])
  BY <1>1 DEF IsListOfNames
<1>3. fixed(list) = new
  BY DEF fixed
<1>4. /\ new \in Seq(A) /\ Len(new) = n /\ DOMAIN new = 1 .. n
      /\ \A k \in 1 .. n : new[k] = fix_name(list[k])
  <2>1. new \in [1 .. n -> A]
    BY <1>1
  <2>2. DOMAIN new = 1 .. n /\ \A k \in 1 .. n : new[k] = fix_name(list[k])
    BY <1>1
  <2>. HIDE DEF new, A
  <2>. QED BY <1>1, <2>1, <2>2, TupleIsSeq
<1>. HIDE DEF new, A
<1>5. IsList(new)
  BY <1>4, IsListOf
<1>6. \A x : x \in Range(new) <=> \E k \in 1 .. n : new[k] = x
  BY <1>4, <1>5, ListFacts
<1>7. \A name : name \in Range(new) <=> \E other \in Range(list) : name = fix_name(other)
  BY <1>1, <1>4, <1>6
<1>8. \A k \in 1 .. n : fix_name(list[k]) \notin CWordsAndTypes \union AllNames
  BY <1>2, FixNameFacts
<1>9. Range(new) \cap (CWordsAndTypes \union AllNames) = {}
  BY <1>4, <1>6, <1>8
<1>10. ~ IsInjective(list) => ~ IsInjective(new)
  BY <1>1, <1>4 DEF IsInjective
<1>11. ASSUME Smooth(list), IsInjective(list) PROVE IsInjective(new)
  <2>1. ASSUME NEW a \in 1 .. n, NEW b \in 1 .. n, new[a] = new[b] PROVE a = b
    <3>1. underscore \notin Range(list[a]) /\ underscore \notin Range(list[b])
      BY <1>1, <1>11 DEF Smooth
    <3>2. fix_name(list[a]) = fix_name(list[b])
      BY <1>4, <2>1
    <3>3. list[a] = list[b]
      BY <1>2, <3>1, <3>2, FixNameFacts
    <3>. QED BY <1>1, <1>11, <3>3 DEF IsInjective
  <2>. QED BY <1>4, <2>1 DEF IsInjective
<1>. QED BY <1>3, <1>5, <1>7, <1>9, <1>10, <1>11

LEMMA ConcatInjective ==
  ASSUME NEW s, IsList(s), NEW t, IsList(t)
  PROVE  /\ IsList(s \o t)
         /\ IsInjective(s \o t) <=> IsInjective(s) /\ IsInjective(t) /\ Range(s) \cap Range(t) = {}
<1>. DEFINE A == Range(s) \cup Range(t)
            k == Len(s)
            l == Len(t)
            both == s \o t
<1>1. s \in Seq(Range(s)) /\ t \in Seq(Range(t)) /\ Range(s) \subseteq A /\ Range(t) \subseteq A
  BY ListFacts
<1>2. s \in Seq(A) /\ t \in Seq(A)
  <2>. HIDE DEF A
  <2>. QED BY <1>1, Widened
<1>3. /\ k \in Nat /\ DOMAIN s = 1 .. k /\ \A x : x \in Range(s) <=> \E i \in 1 .. k : s[i] = x
  BY ListFacts
<1>4. /\ l \in Nat /\ DOMAIN t = 1 .. l /\ \A x : x \in Range(t) <=> \E i \in 1 .. l : t[i] = x
  BY ListFacts
<1>. HIDE DEF A
<1>5. /\ both \in Seq(A) /\ Len(both) = k + l
      /\ \A i \in 1 .. k + l : both[i] = IF i <= k THEN s[i] ELSE t[i - k]
  BY <1>2, ConcatProperties
<1>6. DOMAIN both = 1 .. k + l /\ IsList(both)
  BY <1>5, Members, IsListOf
<1>. HIDE DEF k, l, both
<1>7. /\ \A i \in 1 .. k : i \in 1 .. k + l /\ both[i] = s[i]
      /\ \A i \in 1 .. l : i + k \in 1 .. k + l /\ both[i + k] = t[i]
  <2>1. \A i \in 1 .. k : i \in 1 .. k + l /\ i <= k
    BY <1>3, <1>4
  <2>2. \A i \in 1 .. l : i + k \in 1 .. k + l /\ ~ (i + k <= k) /\ (i + k) - k = i
    BY <1>3, <1>4
  <2>. QED BY <1>5, <2>1, <2>2
<1>8. \A i \in 1 .. k + l : i \in 1 .. k \/ \E j \in 1 .. l : i = j + k
  <2>. TAKE i \in 1 .. k + l
  <2>1. CASE i <= k
    BY <1>3, <1>4, <2>1
  <2>2. CASE ~ (i <= k)
    <3>1. i - k \in 1 .. l /\ i = (i - k) + k
      BY <1>3, <1>4, <2>2
    <3>. QED BY <3>1
  <2>. QED BY <2>1, <2>2
<1>9. ASSUME IsInjective(both) PROVE IsInjective(s) /\ IsInjective(t) /\ Range(s) \cap Range(t) = {}
  <2>1. IsInjective(s)
    BY <1>3, <1>6, <1>7, <1>9 DEF IsInjective
  <2>2. ASSUME NEW a \in 1 .. l, NEW b \in 1 .. l, t[a] = t[b] PROVE a = b
    <3>1. a + k = b + k
      BY <1>6, <1>7, <1>9, <2>2 DEF IsInjective
    <3>. QED BY <1>3, <1>4, <3>1
  <2>3. ASSUME NEW a \in 1 .. k, NEW b \in 1 .. l, s[a] = t[b] PROVE FALSE
    <3>1. a = b + k
      BY <1>6, <1>7, <1>9, <2>3 DEF IsInjective
    <3>. QED BY <1>3, <1>4, <3>1
  <2>4. Range(s) \cap Range(t) = {}
    BY <1>3, <1>4, <2>3
  <2>5. IsInjective(t)
    BY <1>4, <2>2 DEF IsInjective
  <2>. QED BY <2>1, <2>4, <2>5
<1>10. ASSUME IsInjective(s), IsInjective(t), Range(s) \cap Range(t) = {} PROVE IsInjective(both)
  <2>1. ASSUME NEW a \in 1 .. k + l, NEW b \in 1 .. k + l, both[a] = both[b] PROVE a = b
    <3>1. CASE a \in 1 .. k /\ b \in 1 .. k
      BY <1>3, <1>7, <1>10, <2>1, <3>1 DEF IsInjective
    <3>2. ASSUME NEW i \in 1 .. l, a = i + k, b \in 1 .. k PROVE FALSE
      BY <1>3, <1>4, <1>7, <1>10, <2>1, <3>2
    <3>3. ASSUME NEW i \in 1 .. l, b = i + k, a \in 1 .. k PROVE FALSE
      BY <1>3, <1>4, <1>7, <1>10, <2>1, <3>3
    <3>4. ASSUME NEW i \in 1 .. l, NEW j \in 1 .. l, a = i + k, b = j + k PROVE a = b
      <4>1. t[i] = t[j]
        BY <1>7, <2>1, <3>4
      <4>. QED BY <1>4, <1>10, <3>4, <4>1 DEF IsInjective
    <3>. QED BY <1>8, <3>1, <3>2, <3>3, <3>4
  <2>. QED BY <1>6, <2>1 DEF IsInjective
<1>. QED BY <1>6, <1>9, <1>10 DEF both

(* The lists of names of a construct. *)
LEMMA MappedList ==
  ASSUME NEW list, IsList(list), NEW other, DOMAIN other = DOMAIN list, other = [k \in DOMAIN other |-> other[k]]
  PROVE  IsList(other) /\ Len(other) = Len(list)
<1>. DEFINE n == Len(list)
            A == {other[k] : k \in 1 .. n}
<1>1. n \in Nat /\ DOMAIN other = 1 .. n
  BY ListFacts
<1>. HIDE DEF n
<1>2. other \in [1 .. n -> A]
  BY <1>1
<1>. HIDE DEF A
<1>3. other \in Seq(A) /\ Len(other) = n
  BY <1>1, <1>2, TupleIsSeq
<1>. QED BY <1>3, IsListOf DEF n

LEMMA ThingLists ==
  ASSUME Input, NEW i \in DOMAIN ast, NEW thing, thing = ast[i]
  PROVE  /\ IsListOfNames(thing.names)
         /\ IsListOfNames(OperationNames(thing))
         /\ IsList(thing.operations)
         /\ \A k \in DOMAIN thing.operations : IsListOfNames(thing.operations[k].arguments)
         /\ thing.kind # "interface" => thing.operations = << >> /\ OperationNames(thing) = << >>
<1>1. thing \in Range(ast)
  BY InputFacts
<1>2. /\ IsListOfNames(thing.names)
      /\ IsList(thing.operations)
      /\ \A operation \in Range(thing.operations) :
           IsList(operation.name) /\ IsListOfNames(operation.arguments)
      /\ thing.kind # "interface" => thing.operations = << >>
  BY <1>1, InputFacts
<1>. DEFINE ops == thing.operations
            names == [k \in DOMAIN ops |-> ops[k].name]
<1>3. \A k \in DOMAIN ops : ops[k] \in Range(ops)
  BY <1>2, ListFacts
<1>4. OperationNames(thing) = names
  BY DEF OperationNames
<1>5. IsList(names) /\ Len(names) = Len(ops) /\ DOMAIN names = DOMAIN ops /\ \A k \in DOMAIN ops : names[k] = ops[k].name
  <2>1. DOMAIN names = DOMAIN ops /\ names = [k \in DOMAIN names |-> names[k]]
    OBVIOUS
  <2>2. \A k \in DOMAIN ops : names[k] = ops[k].name
    OBVIOUS
  <2>. HIDE DEF names, ops
  <2>3. IsList(ops)
    BY <1>2 DEF ops
  <2>4. IsList(names) /\ Len(names) = Len(ops)
    BY <2>1, <2>3, MappedList
  <2>. QED BY <2>1, <2>2, <2>4
<1>. HIDE DEF names
<1>6. IsListOfNames(names)
  <2>1. \A name \in Range(names) : \E k \in DOMAIN ops : name = ops[k].name
    BY <1>5, ListFacts
  <2>. QED BY <1>2, <1>3, <1>5, <2>1 DEF IsListOfNames
<1>7. ops = << >> => names = << >>
  <2>1. ops = << >> => Len(ops) = 0
    OBVIOUS
  <2>. QED BY <1>5, <2>1, EmptyList
<1>. QED BY <1>2, <1>3, <1>4, <1>6, <1>7

StoredAs(s, thing) ==
  /\ OperationNames(s) = OperationNames(thing)
  /\ DOMAIN s.operations = DOMAIN thing.operations
  /\ \A k \in DOMAIN s.operations :
       s.operations[k].arguments = fixed(thing.operations[k].arguments)
  /\ s.names = IF thing.kind \in {"callback", "interface"} THEN fixed(thing.names) ELSE thing.names
  /\ thing.kind # "enum" => s.C_names = fixed(thing.names)
  /\ thing.kind = "enum" =>
       s.C_names = [k \in DOMAIN thing.names |-> fix_enum(expand_enums(thing, thing.names[k]))]

LEMMA StoredLists ==
  ASSUME Input, NEW i \in DOMAIN ast, NEW thing, thing = ast[i], thing.kind \in Kinds, NEW s, s = StoredFor(i)
  PROVE  StoredAs(s, thing)
<1>. DEFINE ops == [k \in DOMAIN thing.operations |->
                      [name |-> thing.operations[k].name,
                       arguments |-> fixed(thing.operations[k].arguments)]]
            values == [k \in DOMAIN thing.names |-> fix_enum(expand_enums(thing, thing.names[k]))]
<1>0. thing.kind # "interface" => thing.operations = << >> /\ OperationNames(thing) = << >>
  BY ThingLists
<1>1. DOMAIN << >> = {}
  OBVIOUS
<1>2. OperationNames([names |-> 0, C_names |-> 0, operations |-> << >>]) = << >>
  <2>1. OperationNames([names |-> 0, C_names |-> 0, operations |-> << >>]) = [k \in {} |-> << >>[k].name]
    BY <1>1 DEF OperationNames
  <2>2. IsList(<< >>)
    BY EmptySeq, IsListOf
  <2>3. Len([k \in {} |-> << >>[k].name]) = 0 /\ IsList([k \in {} |-> << >>[k].name])
    <3>. DEFINE none == [k \in {} |-> << >>[k].name]
    <3>1. DOMAIN none = DOMAIN << >> /\ none = [k \in DOMAIN none |-> none[k]] /\ Len(<< >>) = 0
      BY <1>1
    <3>. HIDE DEF none
    <3>. QED BY <2>2, <3>1, MappedList
  <2>. QED BY <2>1, <2>3, EmptyList
<1>3. ASSUME s.operations = << >> PROVE OperationNames(s) = << >>
  <2>1. OperationNames(s) = OperationNames([names |-> 0, C_names |-> 0, operations |-> << >>])
    BY <1>3 DEF OperationNames
  <2>. QED BY <1>2, <2>1
<1>4. CASE thing.kind = "dictionary"
  <2>1. s = [names |-> thing.names, C_names |-> fixed(thing.names), operations |-> << >>]
    BY <1>4 DEF StoredFor, Stored
  <2>2. s.operations = << >> /\ s.names = thing.names /\ s.C_names = fixed(thing.names)
    BY <2>1
  <2>. QED BY <1>0, <1>1, <1>3, <1>4, <2>2 DEF StoredAs
<1>5. CASE thing.kind = "callback"
  <2>1. s = [names |-> fixed(thing.names), C_names |-> fixed(thing.names), operations |-> << >>]
    BY <1>5 DEF StoredFor, Stored
  <2>2. s.operations = << >> /\ s.names = fixed(thing.names) /\ s.C_names = fixed(thing.names)
    BY <2>1
  <2>. QED BY <1>0, <1>1, <1>3, <1>5, <2>2 DEF StoredAs
<1>6. CASE thing.kind = "enum"
  <2>1. s = [names |-> thing.names, C_names |-> values, operations |-> << >>]
    BY <1>6 DEF StoredFor, Stored
  <2>2. s.operations = << >> /\ s.names = thing.names /\ s.C_names = values
    BY <2>1
  <2>. QED BY <1>0, <1>1, <1>3, <1>6, <2>2 DEF StoredAs
<1>7. CASE thing.kind = "interface"
  <2>1. s = [names |-> fixed(thing.names), C_names |-> fixed(thing.names), operations |-> ops]
    BY <1>7 DEF StoredFor, Stored
  <2>2. s.operations = ops /\ s.names = fixed(thing.names) /\ s.C_names = fixed(thing.names)
    BY <2>1
  <2>3. OperationNames(s) = OperationNames(thing)
    BY <2>2 DEF OperationNames
  <2>. QED BY <1>7, <2>2, <2>3 DEF StoredAs
<1>. QED BY <1>4, <1>5, <1>6, <1>7 DEF Kinds

LEMMA PlainNames ==
  ASSUME Plain, NEW i \in DOMAIN ast
  PROVE  /\ Smooth(ast[i].names) /\ Smooth(OperationNames(ast[i]))
         /\ \A k \in DOMAIN ast[i].operations : Smooth(ast[i].operations[k].arguments)
         /\ \A name \in Range(ast[i].names) : "plus" \notin Range(name) /\ (name # << >> => Last(name) # blank)
         /\ underscore \notin Range(ast[i].name) /\ "plus" \notin Range(ast[i].name)
<1>1. \A list \in Scopes(ast[i]) \union {<<ast[i].name>>} : \A name \in Range(list) :
        /\ underscore \notin Range(name) /\ "plus" \notin Range(name)
        /\ name # << >> => Last(name) # blank
  <2>1. underscore \in {underscore, "plus"} /\ "plus" \in {underscore, "plus"}
    OBVIOUS
  <2>. QED BY <2>1, Zenon DEF Plain
<1>2. ast[i].name \in Range(<<ast[i].name>>)
  <2>1. PICK name : name = ast[i].name
    OBVIOUS
  <2>2. <<name>> \in Seq({name}) /\ <<name>>[1] = name /\ 1 \in DOMAIN <<name>>
    OBVIOUS
  <2>3. name \in Range(<<name>>)
    BY <2>2, Zenon DEF Range
  <2>. QED BY <2>1, <2>3
<1>. QED BY <1>1, <1>2, Zenon DEF Scopes, Smooth

(* What the search for duplicates in the tables decides about a construct. *)
LEMMA CheckedLists ==
  ASSUME Input, local_reserved_words = AllNames, Plain, NEW i \in Constructs, NEW s, s = StoredFor(i)
  PROVE  /\ IsList(s.names \o OperationNames(s))
         /\ IsInjective(s.names \o OperationNames(s)) <=>
              IsInjective(ast[i].names) /\ IsInjective(OperationNames(ast[i])) /\ ~ SharesItsName(ast[i])
         /\ DOMAIN s.operations = DOMAIN ast[i].operations
         /\ \A k \in DOMAIN s.operations :
              /\ IsList(s.operations[k].arguments)
              /\ IsInjective(s.operations[k].arguments) <=> IsInjective(ast[i].operations[k].arguments)
<1>1. i \in DOMAIN ast /\ ast[i].kind \in Kinds
  BY InputFacts DEF Constructs
<1>2. PICK thing : thing = ast[i]
  OBVIOUS
<1>3. /\ OperationNames(s) = OperationNames(thing)
      /\ DOMAIN s.operations = DOMAIN thing.operations
      /\ \A k \in DOMAIN s.operations :
           s.operations[k].arguments = fixed(thing.operations[k].arguments)
      /\ s.names = IF thing.kind \in {"callback", "interface"} THEN fixed(thing.names) ELSE thing.names
  <2>1. thing.kind \in Kinds
    BY <1>1, <1>2
  <2>2. StoredAs(s, thing)
    BY <1>1, <1>2, <2>1, StoredLists
  <2>. QED BY <2>2 DEF StoredAs
<1>4. /\ IsListOfNames(thing.names)
      /\ IsListOfNames(OperationNames(thing))
      /\ \A k \in DOMAIN thing.operations : IsListOfNames(thing.operations[k].arguments)
      /\ thing.kind # "interface" => OperationNames(thing) = << >>
  BY <1>1, <1>2, ThingLists
<1>5. /\ Smooth(thing.names) /\ Smooth(OperationNames(thing))
      /\ \A k \in DOMAIN thing.operations : Smooth(thing.operations[k].arguments)
  BY <1>1, <1>2, PlainNames
<1>6. /\ IsList(fixed(thing.names)) /\ (IsInjective(fixed(thing.names)) <=> IsInjective(thing.names))
      /\ \A name : name \in Range(fixed(thing.names)) <=> \E other \in Range(thing.names) : name = fix_name(other)
  BY <1>4, <1>5, FixedFacts
<1>7. \A k \in DOMAIN s.operations :
        /\ IsList(s.operations[k].arguments)
        /\ IsInjective(s.operations[k].arguments) <=> IsInjective(thing.operations[k].arguments)
  BY <1>3, <1>4, <1>5, FixedFacts
<1>8. IsList(s.names) /\ IsList(OperationNames(s))
  BY <1>3, <1>4, <1>6 DEF IsListOfNames
<1>9. /\ IsList(s.names \o OperationNames(s))
      /\ IsInjective(s.names \o OperationNames(s)) <=>
           IsInjective(s.names) /\ IsInjective(OperationNames(s)) /\ Range(s.names) \cap Range(OperationNames(s)) = {}
  BY <1>8, ConcatInjective
<1>10. Range(s.names) \cap Range(OperationNames(s)) = {} <=> ~ SharesItsName(thing)
  <2>1. CASE thing.kind = "interface"
    <3>1. Range(s.names) = Range(fixed(thing.names)) /\ Range(OperationNames(s)) = Range(OperationNames(thing))
      BY <1>3, <2>1
    <3>2. ASSUME NEW name \in Range(thing.names), fix_name(name) \in Range(OperationNames(thing))
          PROVE  fix_name(name) = name
      <4>1. underscore \notin Range(fix_name(name)) /\ IsList(name)
        BY <1>4, <1>5, <3>2 DEF Smooth, IsListOfNames
      <4>. QED BY <4>1, FixNameFacts
    <3>. QED BY <1>6, <3>1, <3>2 DEF SharesItsName
  <2>2. CASE thing.kind # "interface"
    <3>1. OperationNames(s) = << >> /\ OperationNames(thing) = << >>
      BY <1>3, <1>4, <2>2
    <3>2. Range(<< >>) = {}
      <4>1. DOMAIN << >> = {}
        OBVIOUS
      <4>. QED BY <4>1 DEF Range
    <3>. QED BY <3>1, <3>2 DEF SharesItsName
  <2>. QED BY <2>1, <2>2
<1>11. IsInjective(s.names) <=> IsInjective(thing.names)
  BY <1>3, <1>6
<1>. QED BY <1>2, <1>3, <1>7, <1>9, <1>10, <1>11

----------------------------------------------------------------------------
(* What is known when the names have been reported. *)
Named(n) == {i \in Constructs : ast[i].name = n}

Checked(s) == s.names \o OperationNames(s)

LEMMA Reporting ==
  ASSUME Progress, SeenInv, pc = "accepted" \/ error = "duplicate_names"
  PROVE  /\ Input /\ local_reserved_words = AllNames /\ Naming /\ error # "no_values"
         /\ \A kind : AddedOf(kind) = {i \in DOMAIN ast : ast[i].kind = kind}
         /\ DOMAIN construct_names_seen = {ast[i].name : i \in Constructs}
         /\ \A n \in DOMAIN construct_names_seen : total_occurences(n) = Cardinality(Named(n))
<1>1. /\ Input /\ next = Len(ast) + 1 /\ error \notin {"no_values", "no_return_type"} /\ Naming
      /\ ~ Early
  BY DEF Progress, Late, Naming, Early
<1>2. local_reserved_words = AllNames
  BY <1>1 DEF Progress
<1>. DEFINE l == Len(ast)
<1>3. l \in Nat /\ DOMAIN ast = 1 .. l
  BY <1>1, InputFacts
<1>4. SeenUpTo(next - 1) /\ next = l + 1
  BY <1>1 DEF SeenInv
<1>. HIDE DEF l
<1>5. next - 1 = l /\ \A i \in 1 .. l : i <= l /\ i < next
  BY <1>3, <1>4
<1>6. Constructs \subseteq 1 .. l
  BY <1>3 DEF Constructs
<1>7. {j \in Constructs : j <= l} = Constructs /\ \A n : NamedUpTo(n, l) = Named(n)
  BY <1>5, <1>6 DEF NamedUpTo, Named
<1>8. \A kind : AddedOf(kind) = {i \in DOMAIN ast : ast[i].kind = kind}
  BY <1>3, <1>5 DEF AddedOf
<1>9. SeenUpTo(l)
  BY <1>4, <1>5
<1>10. /\ DOMAIN construct_names_seen = {ast[i].name : i \in {j \in Constructs : j <= l}}
       /\ \A n \in DOMAIN construct_names_seen : total_occurences(n) = Cardinality(NamedUpTo(n, l))
  BY <1>9 DEF SeenUpTo
<1>. QED BY <1>1, <1>2, <1>7, <1>8, <1>10

LEMMA NamedIsFinite ==
  ASSUME Input
  PROVE  IsFiniteSet(Constructs) /\ \A n : IsFiniteSet(Named(n))
<1>1. IsFiniteSet(1 .. Len(ast)) /\ DOMAIN ast = 1 .. Len(ast)
  BY InputFacts, FS_Interval
<1>2. Constructs \in SUBSET (1 .. Len(ast)) /\ \A n : Named(n) \in SUBSET (1 .. Len(ast))
  BY <1>1 DEF Constructs, Named
<1>. QED BY <1>1, <1>2, FS_Subset

LEMMA WhatIsReported ==
  /\ DuplicateMembers # {} <=>
       \E kind \in Kinds : \E n \in DOMAIN tables[kind] :
         find_duplicates_in_named_list(Checked(tables[kind][n])) # {}
  /\ DuplicateArguments # {} <=>
       \E n \in DOMAIN tables["interface"] : \E k \in DOMAIN tables["interface"][n].operations :
         find_duplicates_in_named_list(tables["interface"][n].operations[k].arguments) # {}
  /\ DuplicateConstructs # {} <=> \E n \in DOMAIN construct_names_seen : total_occurences(n) > 1
<1>1. \A duplicates, scope : report_duplicates(duplicates, scope) # {} <=> duplicates # {}
  BY DEF report_duplicates
<1>2. DuplicateMembers # {} <=>
        \E kind \in Kinds : \E n \in DOMAIN tables[kind] :
          find_duplicates_in_named_list(Checked(tables[kind][n])) # {}
  <2>. DEFINE found(kind, n) == find_duplicates_in_named_list(Checked(tables[kind][n]))
              reported(kind, n) == report_duplicates(found(kind, n), <<kind, n>>)
  <2>1. DuplicateMembers = UNION {UNION {reported(kind, n) : n \in DOMAIN tables[kind]} : kind \in Kinds}
    BY DEF DuplicateMembers, Checked
  <2>2. \A kind, n : reported(kind, n) # {} <=> found(kind, n) # {}
    BY <1>1
  <2>. HIDE DEF reported, found
  <2>3. \A x : x \in DuplicateMembers <=> \E kind \in Kinds : \E n \in DOMAIN tables[kind] : x \in reported(kind, n)
    BY <2>1
  <2>4. DuplicateMembers # {} <=> \E kind \in Kinds : \E n \in DOMAIN tables[kind] : reported(kind, n) # {}
    BY <2>3
  <2>. QED BY <2>2, <2>4 DEF found
<1>3. DuplicateArguments # {} <=>
        \E n \in DOMAIN tables["interface"] : \E k \in DOMAIN tables["interface"][n].operations :
          find_duplicates_in_named_list(tables["interface"][n].operations[k].arguments) # {}
  <2>. DEFINE found(n, k) == find_duplicates_in_named_list(tables["interface"][n].operations[k].arguments)
              reported(n, k) == report_duplicates(found(n, k), <<"operation", n, k>>)
              places(n) == DOMAIN tables["interface"][n].operations
  <2>1. DuplicateArguments = UNION {UNION {reported(n, k) : k \in places(n)} : n \in DOMAIN tables["interface"]}
    BY DEF DuplicateArguments
  <2>2. \A n, k : reported(n, k) # {} <=> found(n, k) # {}
    BY <1>1
  <2>. HIDE DEF reported, found, places
  <2>3. \A x : x \in DuplicateArguments <=> \E n \in DOMAIN tables["interface"] : \E k \in places(n) : x \in reported(n, k)
    BY <2>1
  <2>4. DuplicateArguments # {} <=> \E n \in DOMAIN tables["interface"] : \E k \in places(n) : reported(n, k) # {}
    BY <2>3
  <2>. QED BY <2>2, <2>4 DEF found, places
<1>4. DuplicateConstructs # {} <=> \E n \in DOMAIN construct_names_seen : total_occurences(n) > 1
  <2>. DEFINE many == {n \in DOMAIN construct_names_seen : total_occurences(n) > 1}
  <2>1. DuplicateConstructs = {[scope |-> <<"construct">>, name |-> n, occurences |-> total_occurences(n)] : n \in many}
    BY DEF DuplicateConstructs
  <2>2. many # {} <=> \E n \in DOMAIN construct_names_seen : total_occurences(n) > 1
    OBVIOUS
  <2>. HIDE DEF many
  <2>3. DuplicateConstructs # {} <=> many # {}
    BY <2>1
  <2>. QED BY <2>2, <2>3
<1>. QED BY <1>2, <1>3, <1>4

Repeats(i) ==
  \/ Cardinality(Named(ast[i].name)) > 1
  \/ \E list \in Scopes(ast[i]) : ~ IsInjective(list)
  \/ SharesItsName(ast[i])

LEMMA RefusedRepeats ==
  ASSUME Progress, SeenInv, TablesInv, ReportInv, Plain, error = "duplicate_names"
  PROVE  \E i \in Constructs : Repeats(i)
<1>1. /\ Input /\ local_reserved_words = AllNames /\ Naming
      /\ \A kind : AddedOf(kind) = {i \in DOMAIN ast : ast[i].kind = kind}
      /\ DOMAIN construct_names_seen = {ast[i].name : i \in Constructs}
      /\ \A n \in DOMAIN construct_names_seen : total_occurences(n) = Cardinality(Named(n))
  BY Reporting
<1>2. Duplicates # {}
  BY DEF ReportInv
<1>3. ASSUME NEW kind \in Kinds, NEW n \in DOMAIN tables[kind]
      PROVE  \E i \in Constructs : ast[i].kind = kind /\ tables[kind][n] = StoredFor(i)
  <2>1. PICK i \in AddedOf(kind) : tables[kind][n] = StoredFor(i)
    BY <1>1, <1>3 DEF TablesInv
  <2>2. i \in Constructs /\ ast[i].kind = kind
    BY <1>1 DEF Constructs, Kinds
  <2>. QED BY <2>1, <2>2
<1>4. ASSUME NEW kind \in Kinds, NEW n \in DOMAIN tables[kind],
             find_duplicates_in_named_list(Checked(tables[kind][n])) # {}
      PROVE  \E i \in Constructs : Repeats(i)
  <2>1. PICK i \in Constructs : tables[kind][n] = StoredFor(i)
    BY <1>3
  <2>2. PICK s : s = StoredFor(i)
    OBVIOUS
  <2>3. IsList(Checked(s)) /\ (IsInjective(Checked(s)) <=>
          IsInjective(ast[i].names) /\ IsInjective(OperationNames(ast[i])) /\ ~ SharesItsName(ast[i]))
    BY <1>1, <2>2, CheckedLists DEF Checked
  <2>4. find_duplicates_in_named_list(Checked(s)) # {}
    BY <1>4, <2>1, <2>2
  <2>5. ~ IsInjective(Checked(s))
    BY <2>3, <2>4, Repeated
  <2>6. ast[i].names \in Scopes(ast[i]) /\ OperationNames(ast[i]) \in Scopes(ast[i])
    BY DEF Scopes
  <2>. QED BY <2>3, <2>5, <2>6 DEF Repeats
<1>5. ASSUME NEW n \in DOMAIN tables["interface"], NEW k \in DOMAIN tables["interface"][n].operations,
             find_duplicates_in_named_list(tables["interface"][n].operations[k].arguments) # {}
      PROVE  \E i \in Constructs : Repeats(i)
  <2>0. "interface" \in Kinds
    BY DEF Kinds
  <2>1. PICK i \in Constructs : tables["interface"][n] = StoredFor(i)
    BY <1>3, <2>0
  <2>2. PICK s : s = StoredFor(i)
    OBVIOUS
  <2>3. /\ DOMAIN s.operations = DOMAIN ast[i].operations
        /\ \A m \in DOMAIN s.operations :
             /\ IsList(s.operations[m].arguments)
             /\ IsInjective(s.operations[m].arguments) <=> IsInjective(ast[i].operations[m].arguments)
    BY <1>1, <2>2, CheckedLists
  <2>4. k \in DOMAIN s.operations /\ find_duplicates_in_named_list(s.operations[k].arguments) # {}
    BY <1>5, <2>1, <2>2
  <2>5. ~ IsInjective(ast[i].operations[k].arguments) /\ k \in DOMAIN ast[i].operations
    BY <2>3, <2>4, Repeated
  <2>6. ast[i].operations[k].arguments \in Scopes(ast[i])
    BY <2>5 DEF Scopes
  <2>. QED BY <2>5, <2>6 DEF Repeats
<1>6. ASSUME NEW n \in DOMAIN construct_names_seen, total_occurences(n) > 1
      PROVE  \E i \in Constructs : Repeats(i)
  <2>1. PICK i \in Constructs : n = ast[i].name
    BY <1>1
  <2>. QED BY <1>1, <1>6, <2>1 DEF Repeats
<1>7. DuplicateMembers # {} \/ DuplicateArguments # {} \/ DuplicateConstructs # {}
  BY <1>2 DEF Duplicates
<1>. QED BY <1>4, <1>5, <1>6, <1>7, WhatIsReported

(* In a file without repeated constructs each has its own place. *)
LEMMA OneOfEachName ==
  ASSUME Progress, SeenInv, ReportInv, pc = "accepted", NEW i \in Constructs
  PROVE  ~ (Cardinality(Named(ast[i].name)) > 1)
<1>1. /\ DOMAIN construct_names_seen = {ast[j].name : j \in Constructs}
      /\ \A n \in DOMAIN construct_names_seen : total_occurences(n) = Cardinality(Named(n))
  BY Reporting
<1>2. DuplicateConstructs = {}
  BY DEF ReportInv, Duplicates
<1>3. \A n \in DOMAIN construct_names_seen : ~ (total_occurences(n) > 1)
  BY <1>2, WhatIsReported
<1>. QED BY <1>1, <1>3

LEMMA KeysDiffer ==
  ASSUME Progress, SeenInv, ReportInv, Plain, pc = "accepted", NEW i \in Constructs, NEW j \in Constructs,
         Key(i) = Key(j)
  PROVE  i = j
<1>1. Input /\ i \in DOMAIN ast /\ j \in DOMAIN ast
  BY DEF Progress, Constructs
<1>2. IsList(ast[i].name) /\ IsList(ast[j].name)
  BY <1>1, InputFacts
<1>3. underscore \notin Range(ast[i].name) /\ underscore \notin Range(ast[j].name)
  BY <1>1, PlainNames
<1>4. ast[i].name = ast[j].name
  BY <1>2, <1>3, FreeIsInjective, FiniteWords DEF Key, fix_type_name
<1>5. IsFiniteSet(Named(ast[i].name)) /\ ~ (Cardinality(Named(ast[i].name)) > 1)
  BY <1>1, NamedIsFinite, OneOfEachName
<1>6. i \in Named(ast[i].name) /\ j \in Named(ast[i].name)
  BY <1>4 DEF Named
<1>. QED BY <1>5, <1>6, MoreThanOne

LEMMA StoredThere ==
  ASSUME Progress, SeenInv, KeysInv, TablesInv, ReportInv, Plain, pc = "accepted", NEW i \in Constructs
  PROVE  /\ ast[i].kind \in Kinds
         /\ Key(i) \in DOMAIN tables[ast[i].kind]
         /\ tables[ast[i].kind][Key(i)] = StoredFor(i)
<1>1. PICK kind : kind = ast[i].kind
  OBVIOUS
<1>2. /\ Input /\ Naming /\ error # "no_values"
      /\ \A k : AddedOf(k) = {j \in DOMAIN ast : ast[j].kind = k}
  BY Reporting
<1>3. i \in DOMAIN ast /\ kind \in Kinds
  BY <1>1, <1>2, InputFacts DEF Constructs
<1>4. i \in AddedOf(kind)
  BY <1>1, <1>2, <1>3
<1>5. Key(i) \in DOMAIN tables[kind]
  BY <1>2, <1>3, <1>4 DEF KeysInv, Keys
<1>6. PICK j \in AddedOf(kind) : Key(j) = Key(i) /\ tables[kind][Key(i)] = StoredFor(j)
  BY <1>2, <1>3, <1>5 DEF TablesInv
<1>7. j \in Constructs
  BY <1>2, <1>3 DEF Constructs, Kinds
<1>8. j = i
  BY <1>6, <1>7, KeysDiffer
<1>. QED BY <1>1, <1>3, <1>5, <1>6, <1>8

LEMMA AcceptedRepeatsNothing ==
  ASSUME Progress, SeenInv, KeysInv, TablesInv, ReportInv, Plain, pc = "accepted", NEW i \in Constructs
  PROVE  ~ Repeats(i)
<1>1. Input /\ local_reserved_words = AllNames
  BY Reporting
<1>2. PICK kind : kind = ast[i].kind
  OBVIOUS
<1>3. PICK s : s = StoredFor(i)
  OBVIOUS
<1>4. kind \in Kinds /\ Key(i) \in DOMAIN tables[kind] /\ tables[kind][Key(i)] = s
  BY <1>2, <1>3, StoredThere
<1>5. /\ IsList(Checked(s)) /\ (IsInjective(Checked(s)) <=>
          IsInjective(ast[i].names) /\ IsInjective(OperationNames(ast[i])) /\ ~ SharesItsName(ast[i]))
      /\ DOMAIN s.operations = DOMAIN ast[i].operations
      /\ \A m \in DOMAIN s.operations :
             /\ IsList(s.operations[m].arguments)
             /\ IsInjective(s.operations[m].arguments) <=> IsInjective(ast[i].operations[m].arguments)
  BY <1>1, <1>3, CheckedLists DEF Checked
<1>6. DuplicateMembers = {} /\ DuplicateArguments = {}
  BY DEF ReportInv, Duplicates
<1>7. find_duplicates_in_named_list(Checked(s)) = {}
  BY <1>4, <1>6, WhatIsReported
<1>8. IsInjective(ast[i].names) /\ IsInjective(OperationNames(ast[i])) /\ ~ SharesItsName(ast[i])
  BY <1>5, <1>7, Repeated
<1>9. ASSUME NEW k \in DOMAIN ast[i].operations PROVE IsInjective(ast[i].operations[k].arguments)
  <2>1. kind = "interface"
    <3>1. i \in DOMAIN ast
      BY DEF Constructs
    <3>2. ast[i].kind # "interface" => ast[i].operations = << >>
      BY <1>1, <3>1, ThingLists
    <3>3. DOMAIN << >> = {}
      OBVIOUS
    <3>. QED BY <1>2, <1>9, <3>2, <3>3
  <2>2. tables["interface"][Key(i)] = s /\ Key(i) \in DOMAIN tables["interface"] /\ k \in DOMAIN s.operations
    BY <1>4, <1>5, <2>1
  <2>3. find_duplicates_in_named_list(s.operations[k].arguments) = {}
    BY <1>6, <2>2, WhatIsReported
  <2>. QED BY <1>5, <2>2, <2>3, Repeated
<1>10. \A list \in Scopes(ast[i]) : IsInjective(list)
  BY <1>8, <1>9 DEF Scopes
<1>. QED BY <1>8, <1>10, OneOfEachName DEF Repeats

(* Every invariant that the names need. *)
NamingInv == Progress /\ SeenInv /\ KeysInv /\ TablesInv /\ ReportInv

LEMMA NamingInvariant == Spec => []NamingInv
<1>1. Init => Core /\ RecordedInv /\ KeysInv /\ TablesInv /\ ReportInv
  BY CoreStart, RecordedStart, KeysStart, TablesStart
<1>2. Core /\ RecordedInv /\ KeysInv /\ TablesInv /\ ReportInv /\ [Next]_vars => (Core /\ RecordedInv /\ KeysInv /\ TablesInv /\ ReportInv)'
  BY CoreStep, RecordedStep, KeysStep, TablesStep, ReportStep DEF Core
<1>3. Core /\ RecordedInv /\ KeysInv /\ TablesInv /\ ReportInv => NamingInv
  BY DEF Core, NamingInv
<1>. QED BY <1>1, <1>2, <1>3, PTL DEF Spec

(* Whatever the file, if none of its names looks like a renamed one: it is   *)
(* refused for repeated names exactly if it repeats one, and the report has  *)
(* every repeated construct with the number of its declarations              *)
(* (report_reused_names, AugmentedAST.js:2894).                              *)
THEOREM RepeatsAreAlwaysReported == Spec => []RepeatsAreReported
<1>1. ASSUME NamingInv PROVE RepeatsAreReported
  <2>. SUFFICES ASSUME Plain
                PROVE  /\ error = "duplicate_names" => \E i \in Constructs : Repeats(i)
                       /\ pc = "accepted" => ~ \E i \in Constructs : Repeats(i)
                       /\ error = "duplicate_names" =>
                            \A i \in Constructs :
                              Cardinality(Named(ast[i].name)) > 1 =>
                                [scope |-> <<"construct">>, name |-> ast[i].name,
                                 occurences |-> Cardinality(Named(ast[i].name))] \in error_messages
    BY Zenon DEF RepeatsAreReported, Repeats, Named
  <2>1. error = "duplicate_names" => \E i \in Constructs : Repeats(i)
    BY <1>1, RefusedRepeats DEF NamingInv
  <2>2. pc = "accepted" => ~ \E i \in Constructs : Repeats(i)
    BY <1>1, AcceptedRepeatsNothing DEF NamingInv
  <2>3. ASSUME error = "duplicate_names", NEW i \in Constructs, Cardinality(Named(ast[i].name)) > 1
        PROVE  [scope |-> <<"construct">>, name |-> ast[i].name,
                occurences |-> Cardinality(Named(ast[i].name))] \in error_messages
    <3>1. PICK n : n = ast[i].name
      OBVIOUS
    <3>2. n \in DOMAIN construct_names_seen /\ total_occurences(n) = Cardinality(Named(n))
      BY <1>1, <2>3, <3>1, Reporting DEF NamingInv
    <3>3. [scope |-> <<"construct">>, name |-> n, occurences |-> total_occurences(n)] \in DuplicateConstructs
      BY <2>3, <3>1, <3>2 DEF DuplicateConstructs
    <3>4. error_messages = Duplicates
      BY <1>1, <2>3 DEF NamingInv, ReportInv
    <3>. QED BY <3>1, <3>2, <3>3, <3>4 DEF Duplicates
  <2>. QED BY <2>1, <2>2, <2>3
<1>. QED BY <1>1, NamingInvariant, PTL

----------------------------------------------------------------------------
(* Enumerators.  A value loses nothing when fix_enum makes an enumerator of  *)
(* it: it can be read off the enumerator again, from the end.                *)
(* What fix_enum makes of the pieces of a value. *)
Code(piece) ==
  CASE piece = blank -> <<underscore>>
    [] piece = plus  -> <<underscore, "plus">>
    [] OTHER         -> <<piece>>

Coded(v) == FlattenSeq([k \in DOMAIN v |-> Code(v[k])])

LEMMA PiecesDiffer == underscore # blank /\ underscore # plus /\ blank # plus /\ underscore # "plus"
BY Zenon DEF underscore, blank, plus

LEMMA FixEnumIsCoded ==
  ASSUME NEW value
  PROVE  fix_enum(value) = fix_name(Coded(value))
BY Zenon DEF fix_enum, Coded, Code

LEMMA CodeFacts ==
  ASSUME NEW A, NEW piece \in A, underscore \in A, "plus" \in A
  PROVE  /\ Code(piece) \in Seq(A) /\ Len(Code(piece)) \in {1, 2}
         /\ piece = blank => Code(piece) = <<underscore>>
         /\ piece = plus => Code(piece) = <<underscore, "plus">>
         /\ piece \notin {blank, plus} => Code(piece) = <<piece>>
<1>1. piece = blank => Code(piece) = <<underscore>>
  BY PiecesDiffer DEF Code
<1>2. piece = plus => Code(piece) = <<underscore, "plus">>
  BY PiecesDiffer DEF Code
<1>3. piece \notin {blank, plus} => Code(piece) = <<piece>>
  BY DEF Code
<1>4. <<underscore>> \in Seq(A) /\ <<underscore, "plus">> \in Seq(A) /\ <<piece>> \in Seq(A)
  OBVIOUS
<1>5. Len(<<underscore>>) = 1 /\ Len(<<underscore, "plus">>) = 2 /\ Len(<<piece>>) = 1
  OBVIOUS
<1>. QED BY <1>1, <1>2, <1>3, <1>4, <1>5

(* The last piece can be read off the end. *)
Ends(A, s, piece, all) == s \in Seq(A) /\ piece \in A /\ piece # "plus" /\ all = s \o Code(piece)

LEMMA LastCode ==
  ASSUME NEW A, underscore \in A, "plus" \in A, NEW s, NEW t, NEW a, NEW b, NEW all,
         Ends(A, s, a, all), Ends(A, t, b, all)
  PROVE  s = t /\ Code(a) = Code(b)
<1>0. /\ s \in Seq(A) /\ a \in A /\ a # "plus" /\ all = s \o Code(a)
      /\ t \in Seq(A) /\ b \in A /\ b # "plus" /\ all = t \o Code(b)
  BY DEF Ends
<1>1. PICK c \in Seq(A) : c = Code(a) /\ Len(c) \in {1, 2}
  BY <1>0, CodeFacts
<1>2. PICK d \in Seq(A) : d = Code(b) /\ Len(d) \in {1, 2}
  BY <1>0, CodeFacts
<1>. DEFINE k == Len(s)
            l == Len(t)
            i == Len(c)
            j == Len(d)
            both == s \o c
<1>3. k \in Nat /\ l \in Nat /\ i \in Nat /\ j \in Nat /\ i # 0 /\ j # 0
  <2>1. k \in Nat /\ l \in Nat
    BY <1>0, Members
  <2>2. i \in {1, 2} /\ j \in {1, 2}
    BY <1>0, <1>1, <1>2
  <2>. HIDE DEF i, j, k, l
  <2>. QED BY <2>1, <2>2
<1>4. both \in Seq(A) /\ Len(both) = k + i /\ both[k + i] = c[i]
  <2>1. /\ both \in Seq(A) /\ Len(both) = k + i
        /\ \A m \in 1 .. k + i : both[m] = IF m <= k THEN s[m] ELSE c[m - k]
    BY <1>0, <1>1, ConcatProperties
  <2>. HIDE DEF k, i, both
  <2>2. k + i \in 1 .. k + i /\ ~ (k + i <= k) /\ (k + i) - k = i
    BY <1>3
  <2>. QED BY <2>1, <2>2
<1>5. Len(both) = l + j /\ both[l + j] = d[j]
  <2>0. both = t \o d
    BY <1>0, <1>1, <1>2
  <2>1. /\ Len(both) = l + j
        /\ \A m \in 1 .. l + j : both[m] = IF m <= l THEN t[m] ELSE d[m - l]
    BY <1>0, <1>2, <2>0, ConcatProperties
  <2>. HIDE DEF l, j, both
  <2>2. l + j \in 1 .. l + j /\ ~ (l + j <= l) /\ (l + j) - l = j
    BY <1>3
  <2>. QED BY <2>1, <2>2
<1>6. c[i] = d[j]
  <2>1. k + i = l + j
    BY <1>4, <1>5
  <2>. QED BY <1>4, <1>5, <2>1
<1>7. /\ c = <<underscore>> \/ (c = <<underscore, "plus">> /\ a = plus) \/ c = <<a>>
      /\ d = <<underscore>> \/ (d = <<underscore, "plus">> /\ b = plus) \/ d = <<b>>
  BY <1>0, <1>1, <1>2, CodeFacts
<1>8. /\ (c = <<c[i]>> /\ c[i] # "plus") \/ (c = <<underscore, "plus">> /\ c[i] = "plus")
      /\ (d = <<d[j]>> /\ d[j] # "plus") \/ (d = <<underscore, "plus">> /\ d[j] = "plus")
  <2>1. \A x : Len(<<x>>) = 1 /\ <<x>>[1] = x
    OBVIOUS
  <2>2. Len(<<underscore, "plus">>) = 2 /\ <<underscore, "plus">>[2] = "plus"
    OBVIOUS
  <2>. QED BY <1>0, <1>7, <2>1, <2>2, PiecesDiffer
<1>9. c = d
  BY <1>6, <1>8
<1>10. s \o c = t \o c
  BY <1>0, <1>1, <1>2, <1>9
<1>11. s = t
  BY <1>0, <1>1, <1>10, ConcatSimplifications
<1>. QED BY <1>1, <1>2, <1>9, <1>11

(* What becomes of the beginnings of a value. *)
Beginnings(pre, v) ==
  /\ pre[0] = << >>
  /\ \A i \in 1 .. Len(v) : pre[i] = pre[i - 1] \o Code(v[i])

LEMMA CodedBeginnings ==
  ASSUME NEW A, NEW v \in Seq(A), underscore \in A, "plus" \in A
  PROVE  \E pre \in [0 .. Len(v) -> Seq(A)] : Beginnings(pre, v) /\ Coded(v) = pre[Len(v)]
<1>. DEFINE n == Len(v)
            codes == [k \in 1 .. n |-> Code(v[k])]
<1>1. n \in Nat /\ DOMAIN v = 1 .. n /\ \A i \in 1 .. n : v[i] \in A
  BY Members
<1>2. \A i \in 1 .. n : Code(v[i]) \in Seq(A)
  BY <1>1, CodeFacts
<1>3. codes \in Seq(Seq(A)) /\ Len(codes) = n /\ \A i \in 1 .. n : codes[i] = Code(v[i])
  <2>1. codes \in [1 .. n -> Seq(A)] /\ \A i \in 1 .. n : codes[i] = Code(v[i])
    BY <1>2
  <2>. HIDE DEF codes, n
  <2>. QED BY <1>1, <2>1, TupleIsSeq
<1>4. Coded(v) = FlattenSeq(codes)
  BY <1>1 DEF Coded
<1>. HIDE DEF codes, n
<1>5. << >> \in Seq(A)
  BY EmptySeq
<1>6. CASE n = 0
  <2>1. codes = << >> /\ Len(<< >>) = 0
    BY <1>3, <1>6, EmptySeq
  <2>2. FlattenSeq(<< >>) = << >>
    BY <2>1 DEF FlattenSeq
  <2>. DEFINE pre == [i \in 0 .. n |-> << >>]
  <2>3. pre \in [0 .. n -> Seq(A)] /\ pre[0] = << >> /\ pre[n] = << >> /\ 1 .. n = {}
    BY <1>5, <1>6
  <2>. HIDE DEF pre
  <2>. QED BY <1>4, <2>1, <2>2, <2>3 DEF Beginnings, n
<1>7. CASE n # 0
  <2>1. codes # << >>
    BY <1>3, <1>7, EmptySeq
  <2>2. PICK flat : FlattenedFrom(flat, codes, n) /\ FlattenSeq(codes) = flat[n]
    BY <1>3, <2>1, FlattenedIsLast
  <2>3. \A i \in 1 .. n : flat[i] = IF i = 1 THEN codes[i] ELSE flat[i - 1] \o codes[i]
    BY <2>2 DEF FlattenedFrom
  <2>. DEFINE pre == [i \in 0 .. n |-> IF i = 0 THEN << >> ELSE flat[i]]
  <2>4. n \in 0 .. n /\ 0 \in 0 .. n /\ \A i \in 1 .. n : i \in 0 .. n /\ i - 1 \in 0 .. n /\ i # 0 /\ (i - 1 = 0 <=> i = 1)
    BY <1>1
  <2>5. \A i \in 1 .. n : pre[i] = flat[i] /\ pre[i - 1] = IF i = 1 THEN << >> ELSE flat[i - 1]
    BY <2>4
  <2>6. pre[0] = << >> /\ pre[n] = flat[n]
    BY <1>7, <2>4
  <2>7. DOMAIN pre = 0 .. n /\ pre = [i \in 0 .. n |-> pre[i]]
    OBVIOUS
  <2>. HIDE DEF pre
  <2>8. ASSUME NEW i \in 1 .. n PROVE pre[i] = pre[i - 1] \o Code(v[i])
    <3>1. << >> \o codes[i] = codes[i]
      BY <1>2, <1>3, ConcatEmptySeq
    <3>. QED BY <1>3, <2>3, <2>5, <3>1
  <2>9. \A i \in 0 .. n : pre[i] \in Seq(A)
    <3>. DEFINE T == {m \in Nat : m <= n => pre[m] \in Seq(A)}
    <3>1. 0 \in T
      BY <1>5, <2>6
    <3>2. ASSUME NEW m \in Nat, m \in T PROVE m + 1 \in T
      <4>. SUFFICES ASSUME m + 1 <= n PROVE pre[m + 1] \in Seq(A)
        OBVIOUS
      <4>1. m + 1 \in 1 .. n /\ (m + 1) - 1 = m /\ m <= n
        BY <1>1
      <4>2. pre[m] \in Seq(A) /\ pre[m + 1] = pre[m] \o Code(v[m + 1]) /\ Code(v[m + 1]) \in Seq(A)
        BY <1>2, <2>8, <3>2, <4>1
      <4>. QED BY <4>2, ConcatProperties
    <3>3. Nat \subseteq T
      <4>. HIDE DEF T
      <4>. QED BY <3>1, <3>2, Induction
    <3>. QED BY <1>1, <3>3
  <2>10. pre \in [0 .. n -> Seq(A)]
    BY <2>7, <2>9
  <2>. QED BY <1>4, <2>2, <2>6, <2>8, <2>10 DEF Beginnings, n
<1>. QED BY <1>6, <1>7

LEMMA Decoded ==
  ASSUME NEW A, underscore \in A, "plus" \in A, NEW u \in Seq(A), NEW v \in Seq(A),
         \A i \in 1 .. Len(u) : u[i] # "plus", \A i \in 1 .. Len(v) : v[i] # "plus", Coded(u) = Coded(v)
  PROVE  Len(u) = Len(v) /\ \A i \in 1 .. Len(u) : Code(u[i]) = Code(v[i])
<1>. DEFINE k == Len(u)
            l == Len(v)
<1>1. k \in Nat /\ l \in Nat /\ (\A i \in 1 .. k : u[i] \in A) /\ (\A i \in 1 .. l : v[i] \in A)
  BY Members
<1>2. PICK pre \in [0 .. k -> Seq(A)] : Beginnings(pre, u) /\ Coded(u) = pre[k]
  BY CodedBeginnings
<1>3. PICK qre \in [0 .. l -> Seq(A)] : Beginnings(qre, v) /\ Coded(v) = qre[l]
  BY CodedBeginnings
<1>4. pre[0] = << >> /\ \A i \in 1 .. k : pre[i] = pre[i - 1] \o Code(u[i])
  BY <1>2 DEF Beginnings
<1>5. qre[0] = << >> /\ \A i \in 1 .. l : qre[i] = qre[i - 1] \o Code(v[i])
  BY <1>3 DEF Beginnings
<1>. DEFINE Same(i, j) == i = j /\ \A m \in 1 .. i : Code(u[m]) = Code(v[m])
            T == {i \in Nat : \A j \in 0 .. l : i <= k /\ pre[i] = qre[j] => Same(i, j)}
<1>6. ASSUME NEW s \in Seq(A), NEW a \in A PROVE s \o Code(a) # << >>
  <2>1. PICK c \in Seq(A) : c = Code(a) /\ Len(c) \in {1, 2}
    BY CodeFacts
  <2>2. Len(s \o c) = Len(s) + Len(c) /\ Len(s) \in Nat
    BY ConcatProperties, Members
  <2>3. Len(s \o c) # 0 /\ Len(<< >>) = 0
    <3>. DEFINE n == Len(s)
                m == Len(c)
    <3>1. n \in Nat /\ m \in {1, 2}
      BY <2>1, <2>2
    <3>2. n + m # 0
      <4>. HIDE DEF n, m
      <4>. QED BY <3>1
    <3>. QED BY <2>2, <3>2
  <2>. QED BY <2>1, <2>3
<1>. HIDE DEF k, l
<1>7. 0 \in T
  <2>. SUFFICES ASSUME NEW j \in 0 .. l, pre[0] = qre[j] PROVE Same(0, j)
    OBVIOUS
  <2>1. j = 0
    <3>. SUFFICES ASSUME j # 0 PROVE FALSE
      OBVIOUS
    <3>1. j \in 1 .. l /\ j - 1 \in 0 .. l
      BY <1>1
    <3>2. qre[j] = qre[j - 1] \o Code(v[j]) /\ qre[j - 1] \in Seq(A) /\ v[j] \in A
      BY <1>1, <1>3, <1>5, <3>1
    <3>. QED BY <1>4, <1>6, <3>2
  <2>. QED BY <2>1
<1>8. ASSUME NEW i \in Nat, i \in T PROVE i + 1 \in T
  <2>. SUFFICES ASSUME NEW j \in 0 .. l, i + 1 <= k, pre[i + 1] = qre[j] PROVE Same(i + 1, j)
    OBVIOUS
  <2>1. i + 1 \in 1 .. k /\ (i + 1) - 1 = i /\ i <= k /\ i \in 0 .. k
    BY <1>1
  <2>2. pre[i + 1] = pre[i] \o Code(u[i + 1]) /\ pre[i] \in Seq(A) /\ u[i + 1] \in A /\ u[i + 1] # "plus"
    <3>1. u[i + 1] # "plus"
      BY <2>1 DEF k
    <3>. QED BY <1>1, <1>2, <1>4, <2>1, <3>1
  <2>3. j # 0
    BY <1>5, <1>6, <2>2
  <2>4. j \in 1 .. l /\ j - 1 \in 0 .. l /\ (i = j - 1 => i + 1 = j)
    BY <1>1, <2>3
  <2>5. qre[j] = qre[j - 1] \o Code(v[j]) /\ qre[j - 1] \in Seq(A) /\ v[j] \in A /\ v[j] # "plus"
    <3>1. v[j] # "plus"
      BY <2>4 DEF l
    <3>. QED BY <1>1, <1>3, <1>5, <2>4, <3>1
  <2>6. pre[i] = qre[j - 1] /\ Code(u[i + 1]) = Code(v[j])
    <3>1. Ends(A, pre[i], u[i + 1], pre[i + 1]) /\ Ends(A, qre[j - 1], v[j], pre[i + 1])
      BY <2>2, <2>5 DEF Ends
    <3>. QED BY <3>1, LastCode
  <2>7. Same(i, j - 1)
    BY <1>8, <2>1, <2>4, <2>6
  <2>8. \A m \in 1 .. i + 1 : m \in 1 .. i \/ m = i + 1
    OBVIOUS
  <2>. QED BY <2>4, <2>6, <2>7, <2>8
<1>9. Nat \subseteq T
  <2>. HIDE DEF T
  <2>. QED BY <1>7, <1>8, Induction
<1>10. pre[k] = qre[l] /\ l \in 0 .. l /\ k <= k
  <2>1. pre[k] = qre[l]
    BY <1>2, <1>3
  <2>2. l \in 0 .. l /\ k <= k
    BY <1>1
  <2>. QED BY <2>1, <2>2
<1>11. Same(k, l)
  <2>1. k \in T
    <3>. HIDE DEF T
    <3>. QED BY <1>1, <1>9
  <2>. QED BY <1>10, <2>1
<1>. QED BY <1>11 DEF k, l

(* Underscores can be added before or after. *)
LEMMA LongerStep ==
  ASSUME NEW name, IsList(name), NEW n \in Nat
  PROVE  Longer(name, n + 1) = Longer(name, n) \o <<underscore>>
<1>. DEFINE l == Len(name)
            A == Range(Longer(name, n)) \cup {underscore}
            s == Longer(name, n + 1)
            t == Longer(name, n)
            both == t \o <<underscore>>
<1>1. /\ l \in Nat /\ IsList(s) /\ IsList(t) /\ Len(s) = l + (n + 1) /\ Len(t) = l + n
      /\ \A i \in 1 .. l : s[i] = name[i] /\ t[i] = name[i]
      /\ \A i \in l + 1 .. l + (n + 1) : s[i] = underscore
      /\ \A i \in l + 1 .. l + n : t[i] = underscore
  <2>1. n + 1 \in Nat
    OBVIOUS
  <2>2. /\ l \in Nat /\ IsList(s) /\ Len(s) = l + (n + 1)
        /\ \A i \in 1 .. l : s[i] = name[i]
        /\ \A i \in l + 1 .. l + (n + 1) : s[i] = underscore
    <3>1. PICK m \in Nat : m = n + 1
      BY <2>1
    <3>2. /\ IsList(Longer(name, m)) /\ Len(Longer(name, m)) = l + m
          /\ \A i \in 1 .. l : Longer(name, m)[i] = name[i]
          /\ \A i \in l + 1 .. l + m : Longer(name, m)[i] = underscore
      BY LongerFacts
    <3>3. l \in Nat
      BY ListFacts
    <3>. HIDE DEF l
    <3>. QED BY <3>1, <3>2, <3>3
  <2>3. /\ IsList(t) /\ Len(t) = l + n
        /\ \A i \in 1 .. l : t[i] = name[i]
        /\ \A i \in l + 1 .. l + n : t[i] = underscore
    BY LongerFacts
  <2>. HIDE DEF s, t, l
  <2>. QED BY <2>2, <2>3
<1>2. t \in Seq(Range(t)) /\ Range(t) \subseteq A /\ underscore \in A
  BY <1>1, ListFacts
<1>3. t \in Seq(A)
  <2>. HIDE DEF A
  <2>. QED BY <1>2, Widened
<1>. HIDE DEF A, l, s, t
<1>4. <<underscore>> \in Seq(A) /\ Len(<<underscore>>) = 1 /\ <<underscore>>[1] = underscore
  BY <1>2
<1>5. /\ both \in Seq(A) /\ Len(both) = Len(t) + 1
      /\ \A i \in 1 .. Len(t) + 1 : both[i] = IF i <= Len(t) THEN t[i] ELSE <<underscore>>[i - Len(t)]
  BY <1>3, <1>4, ConcatProperties
<1>. HIDE DEF both
<1>6. Len(both) = Len(s)
  BY <1>1, <1>5
<1>7. ASSUME NEW i \in 1 .. Len(both) PROVE both[i] = s[i]
  <2>1. i \in 1 .. l + (n + 1) /\ i \in 1 .. Len(t) + 1
    BY <1>1, <1>5, <1>6
  <2>2. CASE i <= Len(t)
    <3>1. i \in 1 .. l \/ (i \in l + 1 .. l + n /\ i \in l + 1 .. l + (n + 1))
      BY <1>1, <2>1, <2>2
    <3>. QED BY <1>1, <1>5, <2>1, <2>2, <3>1
  <2>3. CASE ~ (i <= Len(t))
    <3>1. i \in l + 1 .. l + (n + 1) /\ i - Len(t) = 1
      BY <1>1, <2>1, <2>3
    <3>. QED BY <1>1, <1>4, <1>5, <2>1, <2>3, <3>1
  <2>. QED BY <2>2, <2>3
<1>8. s \in Seq(Range(s))
  BY <1>1, ListFacts
<1>9. both = s
  BY <1>5, <1>6, <1>7, <1>8, SameLists
<1>. QED BY <1>9 DEF both, s, t

LEMMA CodedLonger ==
  ASSUME NEW v, IsList(v), NEW n \in Nat
  PROVE  IsList(Coded(v)) /\ Coded(Longer(v, n)) = Longer(Coded(v), n)
<1>. DEFINE A == Range(Longer(v, n)) \cup Range(v) \cup {underscore, "plus"}
            l == Len(v)
            w == Longer(v, n)
<1>1. /\ l \in Nat /\ IsList(w) /\ Len(w) = l + n
      /\ \A i \in 1 .. l : w[i] = v[i]
      /\ \A i \in l + 1 .. l + n : w[i] = underscore
  <2>1. l \in Nat
    BY ListFacts
  <2>2. /\ IsList(w) /\ Len(w) = l + n
        /\ \A i \in 1 .. l : w[i] = v[i]
        /\ \A i \in l + 1 .. l + n : w[i] = underscore
    BY LongerFacts
  <2>. HIDE DEF w, l
  <2>. QED BY <2>1, <2>2
<1>2. v \in Seq(Range(v)) /\ w \in Seq(Range(w)) /\ Range(v) \subseteq A /\ Range(w) \subseteq A
      /\ underscore \in A /\ "plus" \in A
  BY <1>1, ListFacts
<1>. HIDE DEF A
<1>3. v \in Seq(A) /\ w \in Seq(A)
  BY <1>2, Widened
<1>4. PICK pre \in [0 .. l -> Seq(A)] : Beginnings(pre, v) /\ Coded(v) = pre[l]
  BY <1>2, <1>3, CodedBeginnings
<1>5. PICK qre \in [0 .. Len(w) -> Seq(A)] : Beginnings(qre, w) /\ Coded(w) = qre[Len(w)]
  BY <1>2, <1>3, CodedBeginnings
<1>6. pre[0] = << >> /\ \A i \in 1 .. l : pre[i] = pre[i - 1] \o Code(v[i])
  BY <1>4 DEF Beginnings
<1>7. qre[0] = << >> /\ \A i \in 1 .. l + n : qre[i] = qre[i - 1] \o Code(w[i])
  BY <1>1, <1>5 DEF Beginnings
<1>8. IsList(Coded(v))
  <2>1. l \in 0 .. l
    <3>. HIDE DEF l
    <3>. QED BY <1>1
  <2>2. Coded(v) \in Seq(A)
    BY <1>4, <2>1
  <2>. QED BY <2>2, IsListOf
<1>. HIDE DEF l, w
<1>9. \A m \in Nat : m <= l => qre[m] = pre[m]
  <2>. DEFINE T == {m \in Nat : m <= l => qre[m] = pre[m]}
  <2>1. 0 \in T
    BY <1>6, <1>7
  <2>2. ASSUME NEW m \in Nat, m \in T PROVE m + 1 \in T
    <3>. SUFFICES ASSUME m + 1 <= l PROVE qre[m + 1] = pre[m + 1]
      OBVIOUS
    <3>1. m + 1 \in 1 .. l /\ m + 1 \in 1 .. l + n /\ (m + 1) - 1 = m /\ m <= l
      BY <1>1
    <3>. QED BY <1>1, <1>6, <1>7, <2>2, <3>1
  <2>3. Nat \subseteq T
    <3>. HIDE DEF T
    <3>. QED BY <2>1, <2>2, Induction
  <2>. QED BY <2>3
<1>10. Code(underscore) = <<underscore>>
  BY <1>2, CodeFacts, PiecesDiffer
<1>11. \A m \in Nat : m <= n => qre[l + m] = Longer(Coded(v), m)
  <2>. DEFINE T == {m \in Nat : m <= n => qre[l + m] = Longer(Coded(v), m)}
  <2>1. 0 \in T
    <3>1. Longer(Coded(v), 0) = Coded(v)
      BY <1>8, LongerFacts
    <3>2. l + 0 = l /\ l <= l
      BY <1>1
    <3>3. qre[l + 0] = Coded(v)
      BY <1>1, <1>4, <1>9, <3>2
    <3>. QED BY <3>1, <3>3
  <2>2. ASSUME NEW m \in Nat, m \in T PROVE m + 1 \in T
    <3>. SUFFICES ASSUME m + 1 <= n PROVE qre[l + (m + 1)] = Longer(Coded(v), m + 1)
      OBVIOUS
    <3>1. /\ l + (m + 1) \in 1 .. l + n /\ l + (m + 1) \in l + 1 .. l + n
          /\ (l + (m + 1)) - 1 = l + m /\ m <= n
      BY <1>1
    <3>2. qre[l + (m + 1)] = qre[l + m] \o <<underscore>>
      BY <1>1, <1>7, <1>10, <3>1
    <3>3. qre[l + m] = Longer(Coded(v), m)
      BY <2>2, <3>1
    <3>. QED BY <1>8, <3>2, <3>3, LongerStep
  <2>3. Nat \subseteq T
    <3>. HIDE DEF T
    <3>. QED BY <2>1, <2>2, Induction
  <2>. QED BY <2>3
<1>12. Coded(w) = Longer(Coded(v), n)
  BY <1>1, <1>5, <1>11
<1>. QED BY <1>8, <1>12 DEF w

(* A name with underscores at the end. *)
At(x, k) == IF k <= Len(x) THEN x[k] ELSE underscore

LEMMA SameCode ==
  ASSUME NEW a, NEW b, a # "plus", b # "plus", Code(a) = Code(b)
  PROVE  a = b \/ (a \in {underscore, blank} /\ b \in {underscore, blank})
<1>. DEFINE A == {a, b, underscore, "plus"}
<1>1. /\ a \in A /\ b \in A /\ underscore \in A /\ "plus" \in A
  OBVIOUS
<1>. HIDE DEF A
<1>2. /\ a = blank => Code(a) = <<underscore>>
      /\ a = plus => Code(a) = <<underscore, "plus">>
      /\ a \notin {blank, plus} => Code(a) = <<a>>
  BY <1>1, CodeFacts
<1>3. /\ b = blank => Code(b) = <<underscore>>
      /\ b = plus => Code(b) = <<underscore, "plus">>
      /\ b \notin {blank, plus} => Code(b) = <<b>>
  BY <1>1, CodeFacts
<1>4. \A x : <<x>> # <<underscore, "plus">>
  <2>1. \A x : Len(<<x>>) = 1
    OBVIOUS
  <2>2. Len(<<underscore, "plus">>) = 2
    OBVIOUS
  <2>. QED BY <2>1, <2>2
<1>5. \A x, y : <<x>> = <<y>> => x = y
  <2>1. \A x : <<x>>[1] = x
    OBVIOUS
  <2>. QED BY <2>1
<1>. QED BY <1>2, <1>3, <1>4, <1>5

LEMMA FixEnumFacts ==
  ASSUME Input, local_reserved_words = AllNames, NEW x, IsList(x)
  PROVE  /\ IsList(fix_enum(x)) /\ fix_enum(x) \notin CWordsAndTypes \union AllNames
         /\ \E n \in Nat : fix_enum(x) = Coded(Longer(x, n))
<1>1. PICK c : c = Coded(x)
  OBVIOUS
<1>2. IsList(c)
  <2>1. IsList(Coded(x)) /\ Coded(Longer(x, 0)) = Longer(Coded(x), 0)
    BY CodedLonger
  <2>. QED BY <1>1, <2>1
<1>3. fix_enum(x) = fix_name(c)
  BY <1>1, FixEnumIsCoded
<1>4. IsList(fix_name(c)) /\ fix_name(c) \notin CWordsAndTypes \union AllNames
  BY <1>2, FixNameFacts
<1>5. PICK n \in Nat : Free(c, CWordsAndTypes \union AllNames) = Longer(c, n)
  BY <1>2, FreeFacts, FiniteNames
<1>6. fix_name(c) = Longer(c, n)
  BY <1>5 DEF fix_name
<1>7. Longer(c, n) = Coded(Longer(x, n))
  BY <1>1, CodedLonger
<1>. QED BY <1>3, <1>4, <1>6, <1>7

LEMMA AtLonger ==
  ASSUME NEW x, IsList(x), "plus" \notin Range(x), NEW n \in Nat
  PROVE  /\ Len(x) \in Nat /\ IsList(Longer(x, n)) /\ Len(Longer(x, n)) = Len(x) + n
         /\ \A k \in 1 .. Len(x) + n : Longer(x, n)[k] = At(x, k) /\ At(x, k) # "plus"
<1>. DEFINE l == Len(x)
            w == Longer(x, n)
<1>1. /\ l \in Nat /\ IsList(w) /\ Len(w) = l + n
      /\ \A k \in 1 .. l : w[k] = x[k] /\ x[k] # "plus"
      /\ \A k \in l + 1 .. l + n : w[k] = underscore
  <2>1. l \in Nat /\ \A k \in 1 .. l : x[k] \in Range(x)
    BY ListFacts
  <2>2. /\ IsList(w) /\ Len(w) = l + n
        /\ \A k \in 1 .. l : w[k] = x[k]
        /\ \A k \in l + 1 .. l + n : w[k] = underscore
    BY LongerFacts
  <2>. HIDE DEF w, l
  <2>. QED BY <2>1, <2>2
<1>. HIDE DEF l, w
<1>2. ASSUME NEW k \in 1 .. l + n PROVE w[k] = At(x, k) /\ At(x, k) # "plus"
  <2>1. CASE k <= l
    <3>1. k \in 1 .. l
      BY <1>1, <2>1
    <3>. QED BY <1>1, <2>1, <3>1 DEF At, l
  <2>2. CASE ~ (k <= l)
    <3>1. k \in l + 1 .. l + n
      BY <1>1, <2>2
    <3>. QED BY <1>1, <2>2, <3>1, PiecesDiffer DEF At, l
  <2>. QED BY <2>1, <2>2
<1>. QED BY <1>1, <1>2 DEF l, w

Alike(x, y) ==
  \E n, m \in Nat : /\ Len(x) + n = Len(y) + m
                    /\ \A k \in 1 .. Len(x) + n :
                         \/ At(x, k) = At(y, k)
                         \/ At(x, k) \in {underscore, blank} /\ At(y, k) \in {underscore, blank}

LEMMA SameCodes ==
  ASSUME Input, local_reserved_words = AllNames, NEW x, IsList(x), NEW y, IsList(y),
         "plus" \notin Range(x), "plus" \notin Range(y), fix_enum(x) = fix_enum(y)
  PROVE  Alike(x, y)
<1>1. PICK n \in Nat : fix_enum(x) = Coded(Longer(x, n))
  BY FixEnumFacts
<1>2. PICK m \in Nat : fix_enum(y) = Coded(Longer(y, m))
  BY FixEnumFacts
<1>3. PICK u : u = Longer(x, n)
  OBVIOUS
<1>4. PICK v : v = Longer(y, m)
  OBVIOUS
<1>5. /\ IsList(u) /\ Len(u) = Len(x) + n
      /\ \A k \in 1 .. Len(x) + n : u[k] = At(x, k) /\ At(x, k) # "plus"
  BY <1>3, AtLonger
<1>6. /\ IsList(v) /\ Len(v) = Len(y) + m
      /\ \A k \in 1 .. Len(y) + m : v[k] = At(y, k) /\ At(y, k) # "plus"
  BY <1>4, AtLonger
<1>. DEFINE A == Range(u) \cup Range(v) \cup {underscore, "plus"}
<1>7. /\ u \in Seq(Range(u)) /\ v \in Seq(Range(v)) /\ Range(u) \subseteq A /\ Range(v) \subseteq A
      /\ underscore \in A /\ "plus" \in A
  BY <1>5, <1>6, ListFacts
<1>. HIDE DEF A
<1>8. u \in Seq(A) /\ v \in Seq(A)
  BY <1>7, Widened
<1>9. (\A k \in 1 .. Len(u) : u[k] # "plus") /\ (\A k \in 1 .. Len(v) : v[k] # "plus")
  BY <1>5, <1>6
<1>10. Coded(u) = Coded(v)
  BY <1>1, <1>2, <1>3, <1>4
<1>11. Len(u) = Len(v) /\ \A k \in 1 .. Len(u) : Code(u[k]) = Code(v[k])
  BY <1>7, <1>8, <1>9, <1>10, Decoded
<1>12. ASSUME NEW k \in 1 .. Len(x) + n
       PROVE  \/ At(x, k) = At(y, k)
              \/ At(x, k) \in {underscore, blank} /\ At(y, k) \in {underscore, blank}
  <2>1. PICK a : a = At(x, k)
    OBVIOUS
  <2>2. PICK b : b = At(y, k)
    OBVIOUS
  <2>3. a # "plus" /\ b # "plus" /\ Code(a) = Code(b)
    BY <1>5, <1>6, <1>11, <2>1, <2>2
  <2>. QED BY <2>1, <2>2, <2>3, SameCode
<1>. QED BY <1>5, <1>6, <1>11, <1>12 DEF Alike

(* A value after so many pieces. *)
HasValue(x, d, a) ==
  /\ IsList(a) /\ underscore \notin Range(a) /\ (a # << >> => Last(a) # blank)
  /\ Len(x) = d + Len(a)
  /\ \A k \in 1 .. Len(a) : x[d + k] = a[k]

LEMMA NoLongerValue ==
  ASSUME NEW x, NEW y, NEW d \in Nat, NEW a, NEW b, HasValue(x, d, a), HasValue(y, d, b), Alike(x, y)
  PROVE  Len(b) <= Len(a)
<1>. DEFINE k == Len(a)
            l == Len(b)
<1>1. k \in Nat /\ l \in Nat /\ \A i \in 1 .. l : b[i] \in Range(b)
  BY ListFacts DEF HasValue
<1>2. PICK n \in Nat, m \in Nat :
        /\ Len(x) + n = Len(y) + m
        /\ \A i \in 1 .. Len(x) + n :
             \/ At(x, i) = At(y, i)
             \/ At(x, i) \in {underscore, blank} /\ At(y, i) \in {underscore, blank}
  BY DEF Alike
<1>3. Len(x) = d + k /\ Len(y) = d + l /\ \A i \in 1 .. l : y[d + i] = b[i]
  BY DEF HasValue
<1>4. b # << >> => b[l] # blank
  BY DEF HasValue, Last
<1>5. b = << >> => l = 0
  BY EmptySeq
<1>. HIDE DEF k, l
<1>. SUFFICES ASSUME ~ (l <= k) PROVE FALSE
  BY DEF k, l
<1>6. l \in 1 .. l /\ d + l \in 1 .. (d + k) + n /\ ~ (d + l <= d + k) /\ d + l <= d + l /\ l # 0
  <2>1. (d + k) + n = (d + l) + m
    BY <1>2, <1>3
  <2>. QED BY <1>1, <2>1
<1>7. At(x, d + l) = underscore /\ At(y, d + l) = b[l]
  BY <1>3, <1>6 DEF At
<1>8. b[l] \in {underscore, blank}
  BY <1>2, <1>3, <1>6, <1>7
<1>9. b[l] # blank /\ b[l] # underscore
  BY <1>1, <1>4, <1>5, <1>6 DEF HasValue
<1>. QED BY <1>8, <1>9

LEMMA AlikeBack ==
  ASSUME NEW x, NEW y, Alike(x, y)
  PROVE  Alike(y, x)
<1>1. PICK n \in Nat, m \in Nat :
        /\ Len(x) + n = Len(y) + m
        /\ \A i \in 1 .. Len(x) + n :
             \/ At(x, i) = At(y, i)
             \/ At(x, i) \in {underscore, blank} /\ At(y, i) \in {underscore, blank}
  BY DEF Alike
<1>2. \A i \in 1 .. Len(y) + m :
        \/ At(y, i) = At(x, i)
        \/ At(y, i) \in {underscore, blank} /\ At(x, i) \in {underscore, blank}
  BY <1>1
<1>. QED BY <1>1, <1>2 DEF Alike

LEMMA SameValue ==
  ASSUME NEW x, NEW y, NEW d \in Nat, NEW a, NEW b, HasValue(x, d, a), HasValue(y, d, b), Alike(x, y)
  PROVE  a = b
<1>. DEFINE k == Len(a)
<1>1. Len(a) = Len(b) /\ k \in Nat
  <2>1. Len(a) <= Len(b) /\ Len(b) <= Len(a)
    BY NoLongerValue, AlikeBack
  <2>2. Len(a) \in Nat /\ Len(b) \in Nat
    BY ListFacts DEF HasValue
  <2>. QED BY <2>1, <2>2
<1>2. PICK n \in Nat, m \in Nat :
        /\ Len(x) + n = Len(y) + m
        /\ \A i \in 1 .. Len(x) + n :
             \/ At(x, i) = At(y, i)
             \/ At(x, i) \in {underscore, blank} /\ At(y, i) \in {underscore, blank}
  BY DEF Alike
<1>3. /\ Len(x) = d + k /\ Len(y) = d + k
      /\ \A i \in 1 .. k : x[d + i] = a[i] /\ y[d + i] = b[i]
  BY <1>1 DEF HasValue
<1>4. \A i \in 1 .. k : a[i] # underscore /\ b[i] # underscore
  BY <1>1, ListFacts DEF HasValue
<1>. HIDE DEF k
<1>5. ASSUME NEW i \in 1 .. k PROVE a[i] = b[i]
  <2>1. d + i \in 1 .. (d + k) + n /\ d + i <= d + k
    BY <1>1
  <2>2. At(x, d + i) = a[i] /\ At(y, d + i) = b[i]
    BY <1>3, <2>1 DEF At
  <2>. QED BY <1>2, <1>3, <1>4, <2>1, <2>2
<1>6. a \in Seq(Range(a)) /\ b \in Seq(Range(b))
  BY ListFacts DEF HasValue
<1>. QED BY <1>1, <1>5, <1>6, SameLists DEF k

(* A value after the name of its enum. *)
HasName(x, name) ==
  /\ IsList(name) /\ underscore \notin Range(name) /\ blank \notin Range(name)
  /\ Len(name) < Len(x)
  /\ \A k \in 1 .. Len(name) : x[k] = name[k]
  /\ x[Len(name) + 1] = underscore

LEMMA NoLongerName ==
  ASSUME NEW x, IsList(x), NEW y, IsList(y), NEW a, NEW b, HasName(x, a), HasName(y, b), Alike(x, y)
  PROVE  Len(b) <= Len(a)
<1>. DEFINE k == Len(a)
            l == Len(b)
<1>1. k \in Nat /\ l \in Nat /\ (\A i \in 1 .. l : b[i] \in Range(b)) /\ Len(x) \in Nat /\ Len(y) \in Nat
  BY ListFacts DEF HasName
<1>2. PICK n \in Nat, m \in Nat :
        /\ Len(x) + n = Len(y) + m
        /\ \A i \in 1 .. Len(x) + n :
             \/ At(x, i) = At(y, i)
             \/ At(x, i) \in {underscore, blank} /\ At(y, i) \in {underscore, blank}
  BY DEF Alike
<1>3. k < Len(x) /\ l < Len(y) /\ x[k + 1] = underscore /\ \A i \in 1 .. l : y[i] = b[i]
  BY DEF HasName
<1>. HIDE DEF k, l
<1>. SUFFICES ASSUME ~ (l <= k) PROVE FALSE
  BY DEF k, l
<1>4. k + 1 \in 1 .. l /\ k + 1 \in 1 .. Len(x) + n /\ k + 1 <= Len(x) /\ k + 1 <= Len(y)
  BY <1>1, <1>3
<1>5. At(x, k + 1) = underscore /\ At(y, k + 1) = b[k + 1]
  BY <1>3, <1>4 DEF At
<1>6. b[k + 1] \in {underscore, blank}
  BY <1>2, <1>4, <1>5
<1>7. b[k + 1] \in Range(b)
  BY <1>1, <1>4
<1>. QED BY <1>6, <1>7 DEF HasName

LEMMA SameEnum ==
  ASSUME NEW x, IsList(x), NEW y, IsList(y), NEW a, NEW b, HasName(x, a), HasName(y, b), Alike(x, y)
  PROVE  a = b
<1>. DEFINE k == Len(a)
<1>1. Len(a) = Len(b) /\ k \in Nat
  <2>1. Len(a) <= Len(b) /\ Len(b) <= Len(a)
    BY NoLongerName, AlikeBack
  <2>2. Len(a) \in Nat /\ Len(b) \in Nat
    BY ListFacts DEF HasName
  <2>. QED BY <2>1, <2>2
<1>2. PICK n \in Nat, m \in Nat :
        /\ Len(x) + n = Len(y) + m
        /\ \A i \in 1 .. Len(x) + n :
             \/ At(x, i) = At(y, i)
             \/ At(x, i) \in {underscore, blank} /\ At(y, i) \in {underscore, blank}
  BY DEF Alike
<1>3. /\ Len(x) \in Nat /\ Len(y) \in Nat /\ k < Len(x) /\ k < Len(y)
      /\ \A i \in 1 .. k : x[i] = a[i] /\ y[i] = b[i]
  BY <1>1, ListFacts DEF HasName
<1>4. \A i \in 1 .. k : a[i] \notin {underscore, blank}
  BY <1>1, ListFacts DEF HasName
<1>. HIDE DEF k
<1>5. ASSUME NEW i \in 1 .. k PROVE a[i] = b[i]
  <2>1. i \in 1 .. Len(x) + n /\ i <= Len(x) /\ i <= Len(y)
    BY <1>1, <1>3
  <2>2. At(x, i) = a[i] /\ At(y, i) = b[i]
    BY <1>3, <2>1 DEF At
  <2>. QED BY <1>2, <1>4, <2>1, <2>2
<1>6. a \in Seq(Range(a)) /\ b \in Seq(Range(b))
  BY ListFacts DEF HasName
<1>. QED BY <1>1, <1>5, <1>6, SameLists DEF k

LEMMA Prefixed ==
  ASSUME NEW name, IsList(name), NEW value, IsList(value), NEW x, x = name \o <<underscore>> \o value
  PROVE  /\ IsList(x) /\ Len(x) = (Len(name) + 1) + Len(value)
         /\ \A k \in 1 .. Len(name) : x[k] = name[k]
         /\ x[Len(name) + 1] = underscore
         /\ \A k \in 1 .. Len(value) : x[(Len(name) + 1) + k] = value[k]
         /\ Range(x) = (Range(name) \cup {underscore}) \cup Range(value)
<1>. DEFINE A == Range(name) \cup Range(value) \cup {underscore}
            k == Len(name)
            l == Len(value)
            one == <<underscore>>
            first == name \o one
<1>1. /\ name \in Seq(Range(name)) /\ value \in Seq(Range(value)) /\ Range(name) \subseteq A
      /\ Range(value) \subseteq A /\ underscore \in A /\ k \in Nat /\ l \in Nat
      /\ Range(name) = ToSet(name) /\ Range(value) = ToSet(value)
  BY ListFacts
<1>. HIDE DEF A
<1>2. name \in Seq(A) /\ value \in Seq(A)
  BY <1>1, Widened
<1>3. one \in Seq(A) /\ Len(one) = 1 /\ one[1] = underscore
  BY <1>1
<1>4. ToSet(one) = {underscore}
  <2>1. 1 .. 1 = {1}
    OBVIOUS
  <2>2. \A e : e \in ToSet(one) <=> \E i \in 1 .. Len(one) : one[i] = e
    BY <1>3, Members
  <2>. HIDE DEF one
  <2>. QED BY <1>3, <2>1, <2>2
<1>. HIDE DEF one
<1>5. /\ first \in Seq(A) /\ Len(first) = k + 1
      /\ \A i \in 1 .. k + 1 : first[i] = IF i <= k THEN name[i] ELSE one[i - k]
  <2>1. /\ first \in Seq(A) /\ Len(first) = k + Len(one)
        /\ \A i \in 1 .. k + Len(one) : first[i] = IF i <= k THEN name[i] ELSE one[i - k]
    BY <1>2, <1>3, ConcatProperties
  <2>. HIDE DEF first, k
  <2>. QED BY <1>3, <2>1
<1>6. ToSet(first) = ToSet(name) \cup {underscore}
  BY <1>2, <1>3, <1>4, MembersOfConcat
<1>7. x = first \o value
  BY DEF one
<1>. HIDE DEF first
<1>8. /\ x \in Seq(A) /\ Len(x) = (k + 1) + l
      /\ \A i \in 1 .. (k + 1) + l : x[i] = IF i <= k + 1 THEN first[i] ELSE value[i - (k + 1)]
  BY <1>2, <1>5, <1>7, ConcatProperties
<1>9. ToSet(x) = ToSet(first) \cup ToSet(value)
  BY <1>2, <1>5, <1>7, MembersOfConcat
<1>10. IsList(x) /\ Range(x) = ToSet(x)
  BY <1>8, IsListOf
<1>. HIDE DEF k, l
<1>11. ASSUME NEW i \in 1 .. k PROVE x[i] = name[i]
  <2>1. i \in 1 .. (k + 1) + l /\ i <= k + 1 /\ i \in 1 .. k + 1 /\ i <= k
    BY <1>1
  <2>. QED BY <1>5, <1>8, <2>1
<1>12. x[k + 1] = underscore
  <2>1. k + 1 \in 1 .. (k + 1) + l /\ k + 1 <= k + 1 /\ k + 1 \in 1 .. k + 1 /\ ~ (k + 1 <= k) /\ (k + 1) - k = 1
    BY <1>1
  <2>. QED BY <1>3, <1>5, <1>8, <2>1
<1>13. ASSUME NEW i \in 1 .. l PROVE x[(k + 1) + i] = value[i]
  <2>1. (k + 1) + i \in 1 .. (k + 1) + l /\ ~ ((k + 1) + i <= k + 1) /\ ((k + 1) + i) - (k + 1) = i
    BY <1>1
  <2>. QED BY <1>8, <2>1
<1>. QED BY <1>1, <1>6, <1>8, <1>9, <1>10, <1>11, <1>12, <1>13 DEF k, l

(* How many pieces an enum puts before its values. *)
Offset(thing) == IF input.leave_enums_alone THEN 0 ELSE Len(thing.name) + 1

LEMMA Expanded ==
  ASSUME Input, Plain, NEW i \in DOMAIN ast, NEW k \in DOMAIN ast[i].names, NEW thing, thing = ast[i],
         NEW x, x = expand_enums(thing, thing.names[k])
  PROVE  /\ IsList(x) /\ "plus" \notin Range(x)
         /\ Offset(thing) \in Nat /\ HasValue(x, Offset(thing), thing.names[k])
         /\ ~ input.leave_enums_alone => HasName(x, thing.name)
<1>1. /\ thing \in Range(ast)
      /\ IsList(thing.name) /\ Range(thing.name) \cap {blank, plus} = {} /\ IsListOfNames(thing.names)
  BY InputFacts
<1>2. PICK value : value = thing.names[k]
  OBVIOUS
<1>3. value \in Range(thing.names)
  BY <1>1, <1>2, ListFacts DEF IsListOfNames
<1>4. /\ IsList(value) /\ "plus" \notin Range(value) /\ underscore \notin Range(value)
      /\ value # << >> => Last(value) # blank
  BY <1>1, <1>3, PlainNames DEF IsListOfNames, Smooth
<1>5. "plus" \notin Range(thing.name) /\ underscore \notin Range(thing.name)
  BY PlainNames
<1>6. Len(value) \in Nat /\ Len(thing.name) \in Nat
  BY <1>1, <1>4, ListFacts
<1>7. CASE input.leave_enums_alone
  <2>1. x = value /\ Offset(thing) = 0
    BY <1>2, <1>7 DEF expand_enums, Offset
  <2>2. Len(value) = 0 + Len(value)
    BY <1>6
  <2>3. \A j \in 1 .. Len(value) : value[0 + j] = value[j]
    <3>1. \A n \in Nat : \A j \in 1 .. n : 0 + j = j
      OBVIOUS
    <3>. QED BY <1>6, <3>1
  <2>. QED BY <1>2, <1>4, <1>7, <2>1, <2>2, <2>3 DEF HasValue
<1>8. CASE ~ input.leave_enums_alone
  <2>1. x = thing.name \o <<underscore>> \o value /\ Offset(thing) = Len(thing.name) + 1
    BY <1>2, <1>8 DEF expand_enums, Offset
  <2>2. /\ IsList(x) /\ Len(x) = (Len(thing.name) + 1) + Len(value)
        /\ \A j \in 1 .. Len(thing.name) : x[j] = thing.name[j]
        /\ x[Len(thing.name) + 1] = underscore
        /\ \A j \in 1 .. Len(value) : x[(Len(thing.name) + 1) + j] = value[j]
        /\ Range(x) = (Range(thing.name) \cup {underscore}) \cup Range(value)
    BY <1>1, <1>4, <2>1, Prefixed
  <2>3. HasValue(x, Offset(thing), value)
    BY <1>4, <2>1, <2>2 DEF HasValue
  <2>4. HasName(x, thing.name)
    <3>1. Len(thing.name) < Len(x)
      <4>1. \A n, m \in Nat : n < (n + 1) + m
        OBVIOUS
      <4>. QED BY <1>6, <2>2, <4>1
    <3>. QED BY <1>1, <1>5, <2>2, <3>1 DEF HasName
  <2>5. "plus" \notin Range(x)
    BY <1>4, <1>5, <2>2, PiecesDiffer
  <2>6. Offset(thing) \in Nat
    BY <1>6, <2>1
  <2>. QED BY <1>2, <2>2, <2>3, <2>4, <2>5, <2>6
<1>. QED BY <1>7, <1>8

(* The enumerators of an enum. *)
Enumerators(thing) == [k \in DOMAIN thing.names |-> fix_enum(expand_enums(thing, thing.names[k]))]

LEMMA EnumeratorsDiffer ==
  ASSUME Input, local_reserved_words = AllNames, Plain, NEW i \in DOMAIN ast, NEW thing, thing = ast[i],
         IsInjective(thing.names)
  PROVE  IsInjective(Enumerators(thing))
<1>1. ASSUME NEW j \in DOMAIN thing.names, NEW k \in DOMAIN thing.names,
             fix_enum(expand_enums(thing, thing.names[j])) = fix_enum(expand_enums(thing, thing.names[k]))
      PROVE  j = k
  <2>1. PICK x : x = expand_enums(thing, thing.names[j])
    OBVIOUS
  <2>2. PICK y : y = expand_enums(thing, thing.names[k])
    OBVIOUS
  <2>3. IsList(x) /\ "plus" \notin Range(x) /\ Offset(thing) \in Nat /\ HasValue(x, Offset(thing), thing.names[j])
    BY <2>1, Expanded
  <2>4. IsList(y) /\ "plus" \notin Range(y) /\ HasValue(y, Offset(thing), thing.names[k])
    BY <2>2, Expanded
  <2>5. Alike(x, y)
    BY <1>1, <2>1, <2>2, <2>3, <2>4, SameCodes
  <2>6. thing.names[j] = thing.names[k]
    BY <2>3, <2>4, <2>5, SameValue
  <2>. QED BY <2>6 DEF IsInjective
<1>2. /\ DOMAIN Enumerators(thing) = DOMAIN thing.names
      /\ \A k \in DOMAIN thing.names : Enumerators(thing)[k] = fix_enum(expand_enums(thing, thing.names[k]))
  BY DEF Enumerators
<1>. QED BY <1>1, <1>2 DEF IsInjective

LEMMA EnumeratorFacts ==
  ASSUME Input, local_reserved_words = AllNames, Plain, NEW i \in DOMAIN ast, NEW thing, thing = ast[i],
         NEW e \in Range(Enumerators(thing))
  PROVE  /\ e \notin CWordsAndTypes \union AllNames
         /\ \E x : /\ e = fix_enum(x) /\ IsList(x) /\ "plus" \notin Range(x)
                   /\ ~ input.leave_enums_alone => HasName(x, thing.name)
<1>1. PICK k \in DOMAIN thing.names : e = fix_enum(expand_enums(thing, thing.names[k]))
  <2>1. /\ DOMAIN Enumerators(thing) = DOMAIN thing.names
        /\ \A k \in DOMAIN thing.names : Enumerators(thing)[k] = fix_enum(expand_enums(thing, thing.names[k]))
    BY DEF Enumerators
  <2>2. \E k \in DOMAIN Enumerators(thing) : e = Enumerators(thing)[k]
    BY Zenon DEF Range
  <2>. QED BY <2>1, <2>2
<1>2. PICK x : x = expand_enums(thing, thing.names[k])
  OBVIOUS
<1>3. IsList(x) /\ "plus" \notin Range(x) /\ (~ input.leave_enums_alone => HasName(x, thing.name))
  BY <1>2, Expanded
<1>4. fix_enum(x) \notin CWordsAndTypes \union AllNames
  BY <1>3, FixEnumFacts
<1>. QED BY <1>1, <1>2, <1>3, <1>4

LEMMA EnumsApart ==
  ASSUME Input, local_reserved_words = AllNames, Plain, ~ input.leave_enums_alone,
         NEW i \in DOMAIN ast, NEW j \in DOMAIN ast, NEW e,
         e \in Range(Enumerators(ast[i])), e \in Range(Enumerators(ast[j]))
  PROVE  ast[i].name = ast[j].name
<1>1. PICK x : e = fix_enum(x) /\ IsList(x) /\ "plus" \notin Range(x) /\ HasName(x, ast[i].name)
  BY EnumeratorFacts
<1>2. PICK y : e = fix_enum(y) /\ IsList(y) /\ "plus" \notin Range(y) /\ HasName(y, ast[j].name)
  BY EnumeratorFacts
<1>3. Alike(x, y)
  BY <1>1, <1>2, SameCodes
<1>. QED BY <1>1, <1>2, <1>3, SameEnum

----------------------------------------------------------------------------
(* The tables of an accepted file, and the C names in them. *)
Things == UNION {{<<kind, n>> : n \in DOMAIN tables[kind]} : kind \in Kinds}
ThingAt(t) == tables[t[1]][t[2]]
ListsAt(t) == {ThingAt(t).C_names} \union {ThingAt(t).operations[k].arguments : k \in DOMAIN ThingAt(t).operations}
KeptNames == {ast[i].name : i \in DOMAIN ast} \ CWordsAndTypes

Place(i) == <<ast[i].kind, Key(i)>>

LEMMA ThingsAreConstructs ==
  ASSUME NamingInv, Plain, pc = "accepted"
  PROVE  /\ \A i \in Constructs : Place(i) \in Things /\ ThingAt(Place(i)) = StoredFor(i) /\ ast[i].kind \in Kinds
         /\ \A t \in Things : \E i \in Constructs : t = Place(i)
         /\ \A n \in DOMAIN tables["enum"] : \E i \in Constructs : ast[i].kind = "enum" /\ Key(i) = n
<1>0. Progress /\ SeenInv /\ KeysInv /\ TablesInv /\ ReportInv
  BY DEF NamingInv
<1>1. /\ Naming /\ \A kind : AddedOf(kind) = {i \in DOMAIN ast : ast[i].kind = kind}
  BY <1>0, Reporting
<1>2. ASSUME NEW i \in Constructs
      PROVE  Place(i) \in Things /\ ThingAt(Place(i)) = StoredFor(i) /\ ast[i].kind \in Kinds
  <2>1. PICK kind : kind = ast[i].kind
    OBVIOUS
  <2>2. PICK n : n = Key(i)
    OBVIOUS
  <2>3. kind \in Kinds /\ n \in DOMAIN tables[kind] /\ tables[kind][n] = StoredFor(i)
    BY <1>0, <2>1, <2>2, StoredThere
  <2>4. Place(i) = <<kind, n>>
    BY <2>1, <2>2 DEF Place
  <2>5. <<kind, n>> \in Things
    BY <2>3 DEF Things
  <2>6. ThingAt(<<kind, n>>) = tables[kind][n]
    BY DEF ThingAt
  <2>. QED BY <2>1, <2>3, <2>4, <2>5, <2>6
<1>3. ASSUME NEW kind \in Kinds, NEW n \in DOMAIN tables[kind]
      PROVE  \E i \in Constructs : ast[i].kind = kind /\ Key(i) = n
  <2>1. PICK i \in AddedOf(kind) : Key(i) = n
    BY <1>1, <1>3 DEF TablesInv, NamingInv
  <2>2. i \in Constructs /\ ast[i].kind = kind
    BY <1>1 DEF Constructs, Kinds
  <2>. QED BY <2>1, <2>2
<1>4. ASSUME NEW t \in Things PROVE \E i \in Constructs : t = Place(i)
  <2>1. PICK kind \in Kinds : \E n \in DOMAIN tables[kind] : t = <<kind, n>>
    BY DEF Things
  <2>2. PICK n \in DOMAIN tables[kind] : t = <<kind, n>>
    BY <2>1
  <2>3. PICK i \in Constructs : ast[i].kind = kind /\ Key(i) = n
    BY <1>3
  <2>. QED BY <2>2, <2>3 DEF Place
<1>5. "enum" \in Kinds
  BY DEF Kinds
<1>. QED BY <1>2, <1>3, <1>4, <1>5

LEMMA AsManyThings ==
  ASSUME NamingInv, Plain, pc = "accepted"
  PROVE  /\ Cardinality(Things) = Cardinality(Constructs)
         /\ Cardinality({t[2] : t \in Things}) = Cardinality(Things)
<1>. DEFINE keys == {t[2] : t \in Things}
            places == [i \in Constructs |-> Place(i)]
            names == [i \in Constructs |-> Key(i)]
<1>0. Input /\ IsFiniteSet(Constructs)
  BY NamedIsFinite DEF NamingInv, Progress
<1>1. /\ \A i \in Constructs : Place(i) \in Things
      /\ \A t \in Things : \E i \in Constructs : t = Place(i)
  BY ThingsAreConstructs
<1>2. \A i : Place(i)[2] = Key(i)
  BY DEF Place
<1>3. \A i, j \in Constructs : Key(i) = Key(j) => i = j
  BY KeysDiffer DEF NamingInv
<1>4. \A i, j \in Constructs : Place(i) = Place(j) => i = j
  <2>. SUFFICES ASSUME NEW i \in Constructs, NEW j \in Constructs, Place(i) = Place(j) PROVE i = j
    OBVIOUS
  <2>1. Place(i)[2] = Place(j)[2]
    OBVIOUS
  <2>. QED BY <1>2, <1>3, <2>1
<1>5. places \in Bijection(Constructs, Things)
  <2>1. /\ DOMAIN places = Constructs /\ \A i \in Constructs : places[i] = Place(i)
        /\ places = [i \in Constructs |-> places[i]]
    OBVIOUS
  <2>. HIDE DEF places
  <2>2. places \in [Constructs -> Things]
    BY <1>1, <2>1
  <2>3. IsInjective(places)
    BY <1>4, <2>1 DEF IsInjective
  <2>4. \A t \in Things : \E i \in Constructs : places[i] = t
    BY <1>1, <2>1
  <2>. QED BY <2>2, <2>3, <2>4 DEF Bijection, Injection, Surjection
<1>6. Cardinality(Things) = Cardinality(Constructs)
  <2>1. ExistsBijection(Constructs, Things)
    BY <1>5 DEF ExistsBijection
  <2>. QED BY <1>0, <2>1, FS_Bijection
<1>7. names \in Bijection(Constructs, keys)
  <2>1. /\ DOMAIN names = Constructs /\ \A i \in Constructs : names[i] = Key(i)
        /\ names = [i \in Constructs |-> names[i]]
    OBVIOUS
  <2>2. \A n : n \in keys <=> \E t \in Things : n = t[2]
    OBVIOUS
  <2>. HIDE DEF names, keys
  <2>3. \A i \in Constructs : Key(i) \in keys
    BY <1>1, <1>2, <2>2
  <2>4. names \in [Constructs -> keys]
    BY <2>1, <2>3
  <2>5. IsInjective(names)
    BY <1>3, <2>1 DEF IsInjective
  <2>6. \A n \in keys : \E i \in Constructs : names[i] = n
    <3>. TAKE n \in keys
    <3>1. PICK t \in Things : n = t[2]
      BY <2>2
    <3>2. PICK i \in Constructs : t = Place(i)
      BY <1>1
    <3>3. n = Key(i)
      BY <1>2, <3>1, <3>2
    <3>. QED BY <2>1, <3>3
  <2>. QED BY <2>4, <2>5, <2>6 DEF Bijection, Injection, Surjection
<1>8. Cardinality(keys) = Cardinality(Constructs)
  <2>. HIDE DEF keys
  <2>1. ExistsBijection(Constructs, keys)
    BY <1>7 DEF ExistsBijection
  <2>. QED BY <1>0, <2>1, FS_Bijection
<1>. QED BY <1>6, <1>8

LEMMA ListsAreRight ==
  ASSUME NamingInv, Plain, pc = "accepted", NEW i \in Constructs, NEW s, s = StoredFor(i)
  PROVE  /\ IsInjective(s.C_names) /\ Range(s.C_names) \cap (CWordsAndTypes \union AllNames) = {}
         /\ \A k \in DOMAIN s.operations :
              /\ IsInjective(s.operations[k].arguments)
              /\ Range(s.operations[k].arguments) \cap (CWordsAndTypes \union AllNames) = {}
<1>1. Input /\ local_reserved_words = AllNames /\ i \in DOMAIN ast
  BY Reporting DEF NamingInv, Constructs
<1>2. PICK thing : thing = ast[i]
  OBVIOUS
<1>3. thing.kind \in Kinds
  BY <1>1, <1>2, InputFacts DEF Constructs
<1>4. StoredAs(s, thing)
  BY <1>1, <1>2, <1>3, StoredLists
<1>5. \A list \in Scopes(thing) : IsInjective(list)
  <2>1. ~ Repeats(i)
    BY AcceptedRepeatsNothing DEF NamingInv
  <2>. QED BY <1>2, <2>1 DEF Repeats
<1>6. IsInjective(thing.names) /\ \A k \in DOMAIN thing.operations : IsInjective(thing.operations[k].arguments)
  BY <1>5 DEF Scopes
<1>7. IsListOfNames(thing.names) /\ \A k \in DOMAIN thing.operations : IsListOfNames(thing.operations[k].arguments)
  BY <1>1, <1>2, ThingLists
<1>8. Smooth(thing.names) /\ \A k \in DOMAIN thing.operations : Smooth(thing.operations[k].arguments)
  BY <1>1, <1>2, PlainNames
<1>9. ASSUME NEW k \in DOMAIN s.operations
      PROVE  /\ IsInjective(s.operations[k].arguments)
             /\ Range(s.operations[k].arguments) \cap (CWordsAndTypes \union AllNames) = {}
  <2>1. PICK list : list = thing.operations[k].arguments
    OBVIOUS
  <2>2. s.operations[k].arguments = fixed(list) /\ k \in DOMAIN thing.operations
    BY <1>4, <2>1 DEF StoredAs
  <2>3. IsListOfNames(list) /\ Smooth(list) /\ IsInjective(list)
    BY <1>6, <1>7, <1>8, <2>1, <2>2
  <2>. QED BY <1>1, <2>2, <2>3, FixedFacts
<1>10. CASE thing.kind = "enum"
  <2>1. s.C_names = Enumerators(thing)
    BY <1>4, <1>10 DEF StoredAs, Enumerators
  <2>2. IsInjective(Enumerators(thing))
    BY <1>1, <1>2, <1>6, EnumeratorsDiffer
  <2>3. \A e \in Range(Enumerators(thing)) : e \notin CWordsAndTypes \union AllNames
    BY <1>1, <1>2, EnumeratorFacts
  <2>. QED BY <1>9, <2>1, <2>2, <2>3
<1>11. CASE thing.kind # "enum"
  <2>1. s.C_names = fixed(thing.names)
    BY <1>4, <1>11 DEF StoredAs
  <2>2. IsInjective(fixed(thing.names)) /\ Range(fixed(thing.names)) \cap (CWordsAndTypes \union AllNames) = {}
    BY <1>1, <1>6, <1>7, <1>8, FixedFacts
  <2>. QED BY <1>9, <2>1, <2>2
<1>. QED BY <1>10, <1>11

(* Whatever the file, if it is accepted and none of its names looks like a   *)
(* renamed one: all constructs have a place of their own, no list of fields, *)
(* arguments or enumerators repeats a C name, none of these is a C word or   *)
(* the name of a construct, and two enums whose values carry their names     *)
(* share no enumerator (fix_names_and_types and fix_enum,                    *)
(* AugmentedAST.js:1165).                                                    *)
THEOREM CNamesAreAlwaysDistinct == Spec => []CNamesAreDistinct
<1>1. ASSUME NamingInv, Plain, pc = "accepted", NEW t \in Things, NEW list \in ListsAt(t)
      PROVE  IsInjective(list) /\ Range(list) \intersect (CWordsAndTypes \union KeptNames) = {}
  <2>1. PICK i \in Constructs : t = Place(i)
    BY <1>1, ThingsAreConstructs
  <2>2. PICK s : s = StoredFor(i)
    OBVIOUS
  <2>3. ThingAt(t) = s
    BY <1>1, <2>1, <2>2, ThingsAreConstructs
  <2>4. list = s.C_names \/ \E k \in DOMAIN s.operations : list = s.operations[k].arguments
    BY <2>3 DEF ListsAt
  <2>5. IsInjective(list) /\ Range(list) \cap (CWordsAndTypes \union AllNames) = {}
    BY <1>1, <2>2, <2>4, ListsAreRight
  <2>6. KeptNames \subseteq AllNames
    BY DEF KeptNames, AllNames
  <2>. QED BY <2>5, <2>6
<1>2. ASSUME NamingInv, Plain, pc = "accepted", ~ input.leave_enums_alone,
             NEW n \in DOMAIN tables["enum"], NEW m \in DOMAIN tables["enum"], n # m
      PROVE  Range(tables["enum"][n].C_names) \intersect Range(tables["enum"][m].C_names) = {}
  <2>0. Input /\ local_reserved_words = AllNames
    BY <1>2, Reporting DEF NamingInv
  <2>1. ASSUME NEW u \in DOMAIN tables["enum"]
        PROVE  \E i \in Constructs : Key(i) = u /\ tables["enum"][u].C_names = Enumerators(ast[i])
    <3>1. PICK i \in Constructs : ast[i].kind = "enum" /\ Key(i) = u
      BY <1>2, ThingsAreConstructs
    <3>2. PICK thing : thing = ast[i]
      OBVIOUS
    <3>3. PICK s : s = StoredFor(i)
      OBVIOUS
    <3>4. i \in DOMAIN ast /\ thing.kind \in Kinds
      BY <3>1, <3>2 DEF Constructs, Kinds
    <3>5. StoredAs(s, thing)
      BY <2>0, <3>2, <3>3, <3>4, StoredLists
    <3>6. s.C_names = Enumerators(thing)
      BY <3>1, <3>2, <3>5 DEF StoredAs, Enumerators
    <3>7. Place(i) = <<"enum", u>> /\ ThingAt(Place(i)) = s
      BY <1>2, <3>1, <3>3, ThingsAreConstructs DEF Place
    <3>8. ThingAt(<<"enum", u>>) = tables["enum"][u]
      BY DEF ThingAt
    <3>. QED BY <3>1, <3>2, <3>6, <3>7, <3>8
  <2>2. PICK i \in Constructs : Key(i) = n /\ tables["enum"][n].C_names = Enumerators(ast[i])
    BY <2>1
  <2>3. PICK j \in Constructs : Key(j) = m /\ tables["enum"][m].C_names = Enumerators(ast[j])
    BY <2>1
  <2>4. i \in DOMAIN ast /\ j \in DOMAIN ast
    BY DEF Constructs
  <2>5. ASSUME NEW e, e \in Range(Enumerators(ast[i])), e \in Range(Enumerators(ast[j])) PROVE FALSE
    <3>1. ast[i].name = ast[j].name
      BY <1>2, <2>0, <2>4, <2>5, EnumsApart
    <3>2. Key(i) = Key(j)
      BY <3>1 DEF Key
    <3>. QED BY <1>2, <2>2, <2>3, <3>2
  <2>. QED BY <2>2, <2>3, <2>5
<1>3. ASSUME NamingInv PROVE CNamesAreDistinct
  <2>. SUFFICES ASSUME Plain, pc = "accepted"
                PROVE  /\ Cardinality(Things) = Cardinality(Constructs)
                       /\ Cardinality({t[2] : t \in Things}) = Cardinality(Things)
                       /\ \A t \in Things : \A list \in ListsAt(t) :
                            IsInjective(list) /\ Range(list) \intersect (CWordsAndTypes \union KeptNames) = {}
                       /\ ~ input.leave_enums_alone =>
                            \A n, m \in DOMAIN tables["enum"] :
                              n # m => Range(tables["enum"][n].C_names)
                                         \intersect Range(tables["enum"][m].C_names) = {}
    BY Zenon DEF CNamesAreDistinct, Things, ThingAt, ListsAt, KeptNames
  <2>1. /\ Cardinality(Things) = Cardinality(Constructs)
        /\ Cardinality({t[2] : t \in Things}) = Cardinality(Things)
    BY <1>3, AsManyThings
  <2>2. \A t \in Things : \A list \in ListsAt(t) :
          IsInjective(list) /\ Range(list) \intersect (CWordsAndTypes \union KeptNames) = {}
    BY <1>1, <1>3
  <2>3. ~ input.leave_enums_alone =>
          \A n, m \in DOMAIN tables["enum"] :
            n # m => Range(tables["enum"][n].C_names) \intersect Range(tables["enum"][m].C_names) = {}
    BY <1>2, <1>3
  <2>. QED BY <2>1, <2>2, <2>3
<1>. QED BY <1>3, NamingInvariant, PTL

=============================================================================

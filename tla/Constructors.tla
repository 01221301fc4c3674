---------------------------- MODULE Constructors ----------------------------
(***************************************************************************)
(* The constructors of an interface: sort_constructors of AugmentedAST     *)
(* orders them for the compiler, and create_<interface>_handler, the C     *)
(* function that interface.mustache prints from that order, runs when a    *)
(* script does a "new".                                                    *)
(*                                                                         *)
(* A constructor is known by its position in the WebIDL file, from 1.      *)
(***************************************************************************)
EXTENDS Subsequences, SequencesExt

CONSTANTS
  Inputs,    \* lists of constructors: sequences of Signature
  MaxArgs    \* bound on the number of arguments a script passes

(* The numbers of plain and of optional parameters, and whether the list of *)
(* parameters ends in a variadic one.                                       *)
Signature == [required : Nat, optional : Nat, variadic : BOOLEAN]

VARIABLES
  constructors,         \* the interface's list
  sorted_constructors,  \* what sort_constructors makes of it
  args_cnt,             \* the number of arguments of the "new"
  level,                \* the branch of the if-else chain taken, 0 if none
  tried,                \* the handlers run so far: <<constructor, succeeded>>
  new_value,            \* what the C variable new_<interface> holds
  phase

vars == <<constructors, sorted_constructors, args_cnt, level, tried, new_value, phase>>

----------------------------------------------------------------------------
One(condition) == IF condition THEN 1 ELSE 0

(* Variadics count as optional. *)
optional_count(c) == c.optional + One(c.variadic)
argument_count(c) == c.required + optional_count(c)

Positions == 1 .. Len(constructors)
saw_a_variadic == \E i \in Positions : constructors[i].variadic

(* The highest index of the array "buckets": the most parameters of any     *)
(* constructor, and one more if one is variadic.                            *)
LastBucket ==
  Max({argument_count(constructors[i]) : i \in Positions}) + One(saw_a_variadic)

(* The simple count of parameters; << >> stands for a hole in the array. *)
CountedBucket(n) ==
  Increasing({i \in Positions : argument_count(constructors[i]) = n}, Len(constructors))

(* Wrong: a constructor goes to the end of the bucket. *)
PushInto(bucket, i) == Append(bucket, i)

(* insert: before the first later constructor, unless it is there already. *)
InsertInto(bucket, i) ==
  LET later == SelectInSeq(bucket, LAMBDA j : j >= i)
  IN  IF later = 0 THEN Append(bucket, i)
      ELSE IF bucket[later] = i THEN bucket
      ELSE InsertAt(bucket, later, i)

(* Wrong: one bucket too many, for a call without a required parameter. *)
OtherBucketsOneMore(c) ==
  LET count == argument_count(c)
  IN  {count - k : k \in {k \in 1 .. optional_count(c) + 1 : k <= count}}
        \cup (IF c.variadic THEN count + 1 .. LastBucket ELSE {})

(* The other buckets a constructor goes to: those for calls that leave out  *)
(* optional parameters, and for a variadic one all the higher ones.         *)
OtherBuckets(c) ==
  LET count == argument_count(c)
  IN  {count - k : k \in 1 .. optional_count(c)}
        \cup (IF c.variadic THEN count + 1 .. LastBucket ELSE {})

(* What the second loop makes of a bucket, one constructor after the other. *)
FilledBucket(n) ==
  LET filled[i \in 0 .. Len(constructors)] ==
        IF i = 0 THEN CountedBucket(n)
        ELSE IF n \in OtherBuckets(constructors[i]) THEN InsertInto(filled[i - 1], i)
        ELSE filled[i - 1]
  IN  filled[Len(constructors)]

(* A bucket equal to the last one kept below it is emptied, and the         *)
(* comparison of that one widened to ">=".                                  *)
Collapse(s, current) ==
  IF s.buckets[current] = << >> THEN s
  ELSE IF s.buckets[current] = s.buckets[s.previous]
       THEN [s EXCEPT !.buckets[current] = << >>, !.greater_than[s.previous] = TRUE]
  ELSE [s EXCEPT !.previous = current]

Collapsed ==
  LET collapsed[current \in 0 .. LastBucket] ==
        IF current = 0
        THEN [buckets |-> [n \in 0 .. LastBucket |-> FilledBucket(n)], previous |-> 0,
              greater_than |-> [n \in 0 .. LastBucket |-> saw_a_variadic /\ n = LastBucket]]
        ELSE Collapse(collapsed[current - 1], current)
  IN  collapsed[LastBucket]

(* One entry for each bucket left, from most to fewest parameters. *)
SortConstructors ==
  LET left == Collapsed
      kept == Kept([k \in 1 .. LastBucket + 1 |-> LastBucket + 1 - k],
                   {n \in 0 .. LastBucket : left.buckets[n] # << >>})
  IN  [l \in DOMAIN kept |->
         [greater_than |-> left.greater_than[kept[l]],
          constructors_at_this_level |-> left.buckets[kept[l]],
          parameter_count |-> kept[l]]]

(* Wrong: only the last constructor of the first level is marked. *)
LastOfTheFirstLevel(i) ==
  Last(Head(sorted_constructors).constructors_at_this_level) = i

(* The mark is on the constructor's object, which all its buckets share. *)
last_constructor_in_list(i) ==
  \E l \in DOMAIN sorted_constructors :
     Last(sorted_constructors[l].constructors_at_this_level) = i

(* "args_cnt >= 0" is always true: the last branch is a bare "else". *)
no_final_check_necessary ==
  Last(sorted_constructors).parameter_count = 0 /\ Last(sorted_constructors).greater_than

----------------------------------------------------------------------------
Init ==
  /\ constructors \in Inputs
  /\ sorted_constructors = << >>
  /\ args_cnt = 0
  /\ level = 0
  /\ tried = << >>
  /\ new_value = "none"
  /\ phase = "compiling"

Compile ==
  /\ phase = "compiling" /\ constructors # << >>
  /\ sorted_constructors' = SortConstructors
  /\ phase' = "compiled"
  /\ UNCHANGED <<constructors, args_cnt, level, tried, new_value>>

Branch(n, l) ==
  \/ n = sorted_constructors[l].parameter_count
  \/ sorted_constructors[l].greater_than /\ n >= sorted_constructors[l].parameter_count
  \/ no_final_check_necessary /\ l = Len(sorted_constructors)

(* The branch of the if-else chain that n arguments lead to, 0 for the one  *)
(* that raises "No constructor found for those parameters".                 *)
BranchFor(n) == SelectInSeq([l \in DOMAIN sorted_constructors |-> l], LAMBDA l : Branch(n, l))

(* A script evaluates "new" with n arguments. *)
New(n) ==
  /\ phase = "compiled"
  /\ args_cnt' = n
  /\ level' = BranchFor(n)
  /\ IF BranchFor(n) = 0 THEN new_value' = "error" /\ phase' = "returned"
     ELSE phase' = "dispatching" /\ UNCHANGED new_value
  /\ UNCHANGED <<constructors, sorted_constructors, tried>>

AtThisLevel == sorted_constructors[level].constructors_at_this_level

Trying == AtThisLevel[Len(tried) + 1]

(***************************************************************************)
(* The next handler of the branch has returned.  The test of its result,   *)
(* and the release of an error, are printed only for constructors that are *)
(* not marked.                                                             *)
(***************************************************************************)
HandlerReturned(succeeds) ==
  /\ phase = "dispatching"
  /\ tried' = Append(tried, <<Trying, succeeds>>)
  /\ new_value' = IF succeeds THEN "object"
                  ELSE IF last_constructor_in_list(Trying) THEN "error"
                  ELSE "released"
  /\ phase' = IF \/ succeeds /\ ~ last_constructor_in_list(Trying)
                 \/ Len(tried) + 1 = Len(AtThisLevel)
              THEN "returned" ELSE phase
  /\ UNCHANGED <<constructors, sorted_constructors, args_cnt, level>>

(* Whether a handler accepts the arguments is up to their types, but it     *)
(* never accepts too few; it ignores extra ones.                            *)
RunHandler(succeeds) ==
  /\ HandlerReturned(succeeds)
  /\ succeeds => args_cnt >= constructors[Trying].required

(* The script has its object, or the error. *)
Stop == phase = "returned" /\ UNCHANGED vars

Next ==
  \/ Compile
  \/ \E n \in 0 .. MaxArgs : New(n)
  \/ \E succeeds \in BOOLEAN : RunHandler(succeeds)
  \/ Stop

Spec == Init /\ [][Next]_vars

----------------------------------------------------------------------------
TypeOK ==
  /\ constructors \in Seq(Signature)
  /\ \A l \in DOMAIN sorted_constructors :
        sorted_constructors[l] \in [greater_than : BOOLEAN, parameter_count : Nat,
                                    constructors_at_this_level : Seq(Positions)]
  /\ args_cnt \in 0 .. MaxArgs
  /\ level \in 0 .. Len(sorted_constructors)
  /\ tried \in Seq(Positions \X BOOLEAN)
  /\ new_value \in {"none", "object", "error", "released"}
  /\ phase \in {"compiling", "compiled", "dispatching", "returned"}

(* What WebIDL says of a call with n arguments. *)
Callable(i, n) ==
  /\ n >= constructors[i].required
  /\ constructors[i].variadic \/ n <= argument_count(constructors[i])

CallableInOrder(n) == Increasing({i \in Positions : Callable(i, n)}, Len(constructors))

(* For every number of arguments that some constructor can be called with,  *)
(* the buckets, their collapsing and the comparisons of the if-else chain   *)
(* together lead to a branch with exactly the constructors that can be      *)
(* called, in the order of the WebIDL file.                                 *)
BranchesFitTheSignatures ==
  phase = "compiled" =>
     \A n \in 0 .. MaxArgs :
        CallableInOrder(n) # << >> =>
           /\ BranchFor(n) # 0
           /\ sorted_constructors[BranchFor(n)].constructors_at_this_level
                = CallableInOrder(n)

(* "We want the functions in each bucket to be called in the same order     *)
(* that they occurred in the WebIDL": no handler runs twice or early.       *)
TriedInOrder ==
  \A k \in DOMAIN tried : \A j \in 1 .. k - 1 : tried[j][1] < tried[k][1]

(* "The rule is that we resolve ambiguity in favor of the first call in the *)
(* WebIDL": once a constructor has accepted the arguments no other one runs.*)
FirstMatchWins == \A k \in DOMAIN tried : tried[k][2] => k = Len(tried)

(* An error is released before the next handler is tried, and the value     *)
(* that is returned to the interpreter is never one that has been released: *)
(* the last constructor of every branch is one that is marked.              *)
ResultIsNotReleased == phase = "returned" => new_value \in {"object", "error"}
============================================================================

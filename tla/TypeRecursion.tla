--------------------------- MODULE TypeRecursion ---------------------------
(***************************************************************************)
(* The recursive-type check of the compiler: AugmentedAST's                *)
(* ensure_no_recursion_in_types and walk_object_graph, and the loop of     *)
(* generate.js that prints the cycle it reports.                           *)
(*                                                                         *)
(* walk_object_graph is a recursive depth-first walk.  A state of this     *)
(* module is a point between two calls of it: current_seen is the code's   *)
(* array of names, and next_member holds, for each call still active, the  *)
(* loop index at which that call will resume.                              *)
(***************************************************************************)
EXTENDS Naturals, Sequences

CONSTANTS
  Types,      \* every name a field's C_Type can be
  Objects,    \* the names that are interfaces or dictionaries
  Inputs,     \* the field lists the check can be handed: a set of functions
  Undefined   \* JavaScript's undefined

ASSUME ObjectsAssumption == Objects \subseteq Types
ASSUME InputsAssumption == Inputs \subseteq [Types -> Seq(Types)]
ASSUME UndefinedAssumption == Undefined \notin Types

VARIABLES
  members,                     \* the C_Types of each type's members or attributes
  roots,                       \* the keys the outer loop has not reached yet
  current_seen,                \* the names of the active calls, outermost first
  next_member,                 \* the loop index of each active call
  recursive_type_check__seen,  \* every name ever walked
  outcome,                     \* what the check has come to
  first_in_chain,              \* the name the exception carries
  report                       \* the lines printed, as pairs <<field, owner>>

vars == <<members, roots, current_seen, next_member,
          recursive_type_check__seen, outcome, first_in_chain, report>>

Outcomes == {"walking", "accepted", "cyclic_structs", "reported"}

(* x has a field of type y, and y is a key of the objects list. *)
HasField(x, y) == \E i \in DOMAIN members[x] : members[x][i] = y

(* Wrong: takes the names walked for the names of the active calls. *)
OnStackBySeen(x) == x \in recursive_type_check__seen

OnStack(x) == \E i \in DOMAIN current_seen : current_seen[i] = x

Init ==
  /\ members \in Inputs
  /\ roots = Objects
  /\ current_seen = << >>
  /\ next_member = << >>
  /\ recursive_type_check__seen = {}
  /\ outcome = "walking"
  /\ first_in_chain = Undefined
  /\ report = << >>

----------------------------------------------------------------------------
(***************************************************************************)
(* One call of walk_object_graph up to its loop.  resumed is the loop      *)
(* indices of the calls below it, the caller's already advanced.           *)
(***************************************************************************)
ThrowCyclic(current) ==
  /\ outcome' = "cyclic_structs"
  /\ first_in_chain' = current
  /\ UNCHANGED <<current_seen, recursive_type_check__seen>>

ReturnAtOnce == UNCHANGED <<current_seen, recursive_type_check__seen, outcome, first_in_chain>>

(* Wrong: the name is not recorded as walked. *)
EnterUnrecorded(current) ==
  /\ current_seen' = Append(current_seen, current)
  /\ UNCHANGED <<recursive_type_check__seen, outcome, first_in_chain>>

Enter(current) ==
  /\ current_seen' = Append(current_seen, current)
  /\ recursive_type_check__seen' = recursive_type_check__seen \cup {current}
  /\ UNCHANGED <<outcome, first_in_chain>>

(* Wrong: the test for names already walked comes first. *)
WalkSeenFirst(current, resumed) ==
  IF current \in recursive_type_check__seen
  THEN ReturnAtOnce /\ next_member' = resumed
  ELSE Enter(current) /\ next_member' = Append(resumed, 1)

WalkObjectGraph(current, resumed) ==
  \/ /\ OnStack(current)
     /\ ThrowCyclic(current)
     /\ next_member' = resumed
  \/ /\ ~ OnStack(current)
     /\ current \in recursive_type_check__seen
     /\ ReturnAtOnce
     /\ next_member' = resumed
  \/ /\ ~ OnStack(current)
     /\ current \notin recursive_type_check__seen
     /\ Enter(current)
     /\ next_member' = Append(resumed, 1)

(* The loop of ensure_no_recursion_in_types: a fresh current_seen for each  *)
(* key.  The order of the keys is the order of the WebIDL file: any order.  *)
StartRoot(root) ==
  /\ outcome = "walking"
  /\ current_seen = << >>
  /\ roots' = roots \ {root}
  /\ WalkObjectGraph(root, next_member)
  /\ UNCHANGED <<members, report>>

Top == current_seen[Len(current_seen)]
TopIndex == next_member[Len(next_member)]
Advanced == [next_member EXCEPT ![Len(next_member)] = @ + 1]

(* Wrong: a field that is no object does not advance the loop. *)
VisitObjectsOnly ==
  /\ outcome = "walking"
  /\ current_seen # << >>
  /\ TopIndex <= Len(members[Top])
  /\ IF members[Top][TopIndex] \in Objects
     THEN WalkObjectGraph(members[Top][TopIndex], Advanced)
     ELSE ReturnAtOnce /\ UNCHANGED next_member
  /\ UNCHANGED <<members, roots, report>>

(* One turn of the loop over the fields of the innermost active call. *)
VisitMember ==
  /\ outcome = "walking"
  /\ current_seen # << >>
  /\ TopIndex <= Len(members[Top])
  /\ LET member_type == members[Top][TopIndex]
     IN  IF member_type \in Objects
         THEN WalkObjectGraph(member_type, Advanced)
         ELSE /\ next_member' = Advanced
              /\ ReturnAtOnce
  /\ UNCHANGED <<members, roots, report>>

(* The loop is over: current_seen.pop and return to the caller. *)
Return ==
  /\ outcome = "walking"
  /\ current_seen # << >>
  /\ TopIndex > Len(members[Top])
  /\ current_seen' = SubSeq(current_seen, 1, Len(current_seen) - 1)
  /\ next_member' = SubSeq(next_member, 1, Len(next_member) - 1)
  /\ UNCHANGED <<members, roots, recursive_type_check__seen, outcome, first_in_chain, report>>

(* Wrong: the outer loop ends at the first key that is no cycle. *)
AcceptFirst ==
  /\ outcome = "walking"
  /\ current_seen = << >>
  /\ roots # Objects
  /\ outcome' = "accepted"
  /\ UNCHANGED <<members, roots, current_seen, next_member,
                 recursive_type_check__seen, first_in_chain, report>>

(* The keys have all been walked. *)
Accept ==
  /\ outcome = "walking"
  /\ current_seen = << >>
  /\ roots = {}
  /\ outcome' = "accepted"
  /\ UNCHANGED <<members, roots, current_seen, next_member,
                 recursive_type_check__seen, first_in_chain, report>>

(* Wrong: the index starts one below the end of the array. *)
PrintLineBelow ==
  /\ outcome = "cyclic_structs"
  /\ LET i       == Len(current_seen) - 1 - Len(report)
         current == IF report = << >> THEN first_in_chain ELSE report[Len(report)][2]
         next    == IF i >= 1 THEN current_seen[i] ELSE Undefined
     IN  /\ report' = Append(report, <<current, next>>)
         /\ outcome' = IF next = first_in_chain THEN "reported" ELSE outcome
  /\ UNCHANGED <<members, roots, current_seen, next_member,
                 recursive_type_check__seen, first_in_chain>>

(***************************************************************************)
(* generate.js catches the exception: a do/while walks current_seen from   *)
(* its end, printing "current is a field of next" until next is the name   *)
(* it started from.  An index below the array reads undefined.             *)
(***************************************************************************)
PrintLine ==
  /\ outcome = "cyclic_structs"
  /\ LET i       == Len(current_seen) - Len(report)
         current == IF report = << >> THEN first_in_chain ELSE report[Len(report)][2]
         next    == IF i >= 1 THEN current_seen[i] ELSE Undefined
     IN  /\ report' = Append(report, <<current, next>>)
         /\ outcome' = IF next = first_in_chain THEN "reported" ELSE outcome
  /\ UNCHANGED <<members, roots, current_seen, next_member,
                 recursive_type_check__seen, first_in_chain>>

Finished == outcome \in {"accepted", "reported"}

(* process.exit, or the rest of the compilation: the check itself is over. *)
Stop == Finished /\ UNCHANGED vars

Next ==
  \/ \E root \in roots : StartRoot(root)
  \/ VisitMember
  \/ Return
  \/ Accept
  \/ PrintLine
  \/ Stop

Spec == Init /\ [][Next]_vars

(* The compiler is one sequential program: it takes its next step. *)
FairSpec == Spec /\ WF_vars(Next)

----------------------------------------------------------------------------
(***************************************************************************)
(* A set of types is recursive when it has a nonempty subset in which      *)
(* every type has a field whose type is in the subset: for finitely many   *)
(* types, exactly when following fields can go round in a circle.          *)
(***************************************************************************)
RecursiveAmong(S) ==
  \E C \in SUBSET S : C # {} /\ \A x \in C : \E y \in C : HasField(x, y)

TypeOK ==
  /\ members \in [Types -> Seq(Types)]
  /\ roots \subseteq Objects
  /\ current_seen \in Seq(Objects)
  /\ next_member \in Seq(Nat \ {0})
  /\ Len(next_member) = Len(current_seen)
  /\ recursive_type_check__seen \subseteq Objects
  /\ outcome \in Outcomes
  /\ first_in_chain \in Objects \cup {Undefined}
  /\ report \in Seq((Objects \cup {Undefined}) \X (Objects \cup {Undefined}))

(* The check lets a file through only if no interface or dictionary reaches *)
(* itself through its fields (walk_object_graph ran to its end).            *)
AcceptedIsAcyclic == outcome = "accepted" => ~ RecursiveAmong(Objects)

(* The check never rejects a legal file: when it throws cyclic_structs the  *)
(* objects really are recursive, in particular a type that is only shared   *)
(* by two others is not taken for a cycle.                                  *)
RejectedIsRecursive == outcome \in {"cyclic_structs", "reported"} => RecursiveAmong(Objects)

(* The message generate.js prints is a cycle of the file: each line names a *)
(* field and its owner, each line starts from the owner of the line before, *)
(* and the last owner is the field of the first line.                       *)
ReportIsACycle ==
  outcome = "reported" =>
     /\ report # << >>
     /\ \A i \in DOMAIN report : HasField(report[i][2], report[i][1])
     /\ \A i \in 1 .. Len(report) - 1 : report[i + 1][1] = report[i][2]
     /\ report[Len(report)][2] = report[1][1]

(***************************************************************************)
(* The inductive invariant behind these.  A walked name that is not on the *)
(* stack is finished.                                                      *)
(***************************************************************************)
Walked == {x \in recursive_type_check__seen : ~ OnStack(x)}

(* Each active call was made for the field its caller's index stands after. *)
StackIsAPath ==
  \A i \in 1 .. Len(current_seen) - 1 :
     /\ next_member[i] - 1 \in DOMAIN members[current_seen[i]]
     /\ members[current_seen[i]][next_member[i] - 1] = current_seen[i + 1]

(* What an active call has passed has been walked, and is not one of the    *)
(* calls around it.                                                         *)
PassedAreWalked ==
  outcome = "walking" =>
     \A i \in 1 .. Len(current_seen) :
        \A j \in DOMAIN members[current_seen[i]] :
           j < next_member[i] /\ members[current_seen[i]][j] \in Objects =>
              /\ members[current_seen[i]][j] \in recursive_type_check__seen
              /\ \A k \in 1 .. i : current_seen[k] # members[current_seen[i]][j]

WalkedAreClosed == \A x \in Walked : \A y \in Objects : HasField(x, y) => y \in Walked

StackAndRoots ==
  /\ \A i \in 1 .. Len(current_seen) : current_seen[i] \in recursive_type_check__seen
  /\ \A i, j \in 1 .. Len(current_seen) : current_seen[i] = current_seen[j] => i = j
  /\ Objects \subseteq roots \cup recursive_type_check__seen
  /\ outcome = "accepted" => roots = {} /\ current_seen = << >>

ThrownFromATurn ==
  outcome \in {"cyclic_structs", "reported"} =>
     /\ OnStack(first_in_chain)
     /\ HasField(Top, first_in_chain)

(* The lines printed so far follow the stack down from its top. *)
ReportFollowsStack ==
  /\ outcome \in {"walking", "accepted"} => report = << >>
  /\ \A i \in 1 .. Len(report) :
        /\ i <= Len(current_seen)
        /\ report[i][2] = current_seen[Len(current_seen) - i + 1]
        /\ report[i][1] = IF i = 1 THEN first_in_chain ELSE report[i - 1][2]
        /\ outcome = "cyclic_structs" => report[i][2] # first_in_chain
  /\ outcome = "reported" => report # << >> /\ report[Len(report)][2] = first_in_chain

IInv ==
  /\ TypeOK
  /\ StackIsAPath
  /\ PassedAreWalked
  /\ WalkedAreClosed
  /\ ~ RecursiveAmong(Walked)
  /\ StackAndRoots
  /\ ThrownFromATurn
  /\ ReportFollowsStack

(* The walk and the do/while that prints its result both come to an end, on *)
(* recursive inputs as on others.                                           *)
Terminates == <>Finished

(* The verdict the states of the walk stand for. *)
verdict ==
  CASE outcome = "accepted" -> "accepted"
    [] outcome \in {"cyclic_structs", "reported"} -> "rejected"
    [] OTHER -> "undecided"

Abstract == INSTANCE TypeCheckVerdict WITH members <- members, verdict <- verdict

(* The walk, call by call, implements the one-step decision of              *)
(* TypeCheckVerdict: it is never revised and never wrong.                   *)
ImplementsVerdict == Abstract!Spec

(* What the comment above the call promises, of every way a C struct can    *)
(* contain another: also through a typedef's name or a union's.             *)
NoRecursiveTypes == outcome = "accepted" => ~ RecursiveAmong(Types)
============================================================================

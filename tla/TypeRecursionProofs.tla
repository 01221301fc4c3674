------------------------ MODULE TypeRecursionProofs ------------------------
(***************************************************************************)
(* Proofs about TypeRecursion, for every set of types and every field list. *)
(***************************************************************************)
EXTENDS TypeRecursion, SequenceTheorems, TLAPS

(* Pushing onto a stack and popping it. *)
LEMMA Push ==
  ASSUME NEW S, NEW s \in Seq(S), NEW e \in S
  PROVE  /\ Append(s, e) \in Seq(S)
         /\ Len(Append(s, e)) = Len(s) + 1
         /\ \A i \in 1 .. Len(s) : Append(s, e)[i] = s[i]
         /\ Append(s, e)[Len(s) + 1] = e
  BY AppendProperties

LEMMA Pop ==
  ASSUME NEW S, NEW s \in Seq(S), s # << >>
  PROVE  /\ SubSeq(s, 1, Len(s) - 1) \in Seq(S)
         /\ Len(SubSeq(s, 1, Len(s) - 1)) = Len(s) - 1
         /\ \A i \in 1 .. Len(s) - 1 : SubSeq(s, 1, Len(s) - 1)[i] = s[i]
<1>. DEFINE n == Len(s) - 1
<1>1. Len(s) \in Nat \ {0}
  BY EmptySeq
<1>2. \A i \in 1 .. n : s[i] \in S
  BY <1>1, ElementOfSeq
<1>3. n \in Nat
  BY <1>1
<1>. HIDE DEF n
<1>4. /\ SubSeq(s, 1, n) \in Seq(S)
      /\ Len(SubSeq(s, 1, n)) = IF 1 <= n THEN n - 1 + 1 ELSE 0
      /\ \A i \in 1 .. n - 1 + 1 : SubSeq(s, 1, n)[i] = s[1 + i - 1]
  BY <1>2, <1>3, SubSeqProperties
<1>5. Len(SubSeq(s, 1, n)) = n /\ \A i \in 1 .. n : SubSeq(s, 1, n)[i] = s[i]
  BY <1>3, <1>4
<1>. QED BY <1>4, <1>5 DEF n

(* The loop index of a caller moves past the field it is calling for. *)
LEMMA AdvancedIsAnIndexList ==
  ASSUME TypeOK, current_seen # << >>
  PROVE  /\ Len(current_seen) \in Nat \ {0}
         /\ Top \in Objects
         /\ TopIndex \in Nat \ {0}
         /\ Advanced \in Seq(Nat \ {0})
         /\ Len(Advanced) = Len(current_seen)
         /\ \A i \in 1 .. Len(current_seen) - 1 : Advanced[i] = next_member[i]
         /\ Advanced[Len(current_seen)] = TopIndex + 1
<1>1. Len(current_seen) \in Nat \ {0}
  BY EmptySeq, LenProperties DEF TypeOK
<1>2. Top \in Objects /\ TopIndex \in Nat \ {0}
  BY <1>1, ElementOfSeq DEF TypeOK, Top, TopIndex
<1>3. next_member \in Seq(Nat \ {0}) /\ Len(next_member) = Len(current_seen)
  BY DEF TypeOK
<1>4. TopIndex + 1 \in Nat \ {0}
  BY <1>2
<1>. QED BY <1>1, <1>2, <1>3, <1>4, ExceptSeq DEF Advanced, TopIndex

----------------------------------------------------------------------------
(* A step of the walk keeps the stack of names and the list of loop indices *)
(* in step with each other.                                                 *)
LEMMA CallTypes ==
  ASSUME TypeOK, NEW current \in Objects, NEW resumed \in Seq(Nat \ {0}),
         Len(resumed) = Len(current_seen), WalkObjectGraph(current, resumed)
  PROVE  /\ current_seen' \in Seq(Objects)
         /\ next_member' \in Seq(Nat \ {0})
         /\ Len(next_member') = Len(current_seen')
         /\ recursive_type_check__seen' \subseteq Objects
         /\ outcome' \in Outcomes
         /\ first_in_chain' \in Objects \cup {Undefined}
<1>1. CASE ThrowCyclic(current) /\ next_member' = resumed
  BY <1>1 DEF ThrowCyclic, TypeOK, Outcomes
<1>2. CASE ReturnAtOnce /\ next_member' = resumed
  BY <1>2 DEF ReturnAtOnce, TypeOK
<1>3. CASE Enter(current) /\ next_member' = Append(resumed, 1)
  <2>1. current_seen' \in Seq(Objects) /\ Len(current_seen') = Len(current_seen) + 1
    BY <1>3, Push DEF Enter, TypeOK
  <2>2. next_member' \in Seq(Nat \ {0}) /\ Len(next_member') = Len(resumed) + 1
    BY <1>3, Push
  <2>. QED BY <1>3, <2>1, <2>2 DEF Enter, TypeOK
<1>. QED BY <1>1, <1>2, <1>3 DEF WalkObjectGraph

(* Every variable of the check keeps its type: the stack holds names of     *)
(* objects and there is one loop index for each active call.                *)
THEOREM TypeCorrect == Spec => []TypeOK
<1>1. Init => TypeOK
  <2>. SUFFICES ASSUME Init PROVE TypeOK
    OBVIOUS
  <2>1. members \in [Types -> Seq(Types)]
    BY InputsAssumption DEF Init
  <2>. QED BY <2>1, EmptySeq DEF Init, TypeOK, Outcomes
<1>2. TypeOK /\ [Next]_vars => TypeOK'
  <2>. SUFFICES ASSUME TypeOK, [Next]_vars PROVE TypeOK'
    OBVIOUS
  <2>1. ASSUME NEW root \in roots, StartRoot(root) PROVE TypeOK'
    <3>1. root \in Objects /\ next_member \in Seq(Nat \ {0}) /\ Len(next_member) = Len(current_seen)
      BY DEF TypeOK
    <3>. QED BY <2>1, <3>1, CallTypes DEF StartRoot, TypeOK
  <2>2. CASE VisitMember
    <3>. DEFINE member_type == members[Top][TopIndex]
    <3>1. Advanced \in Seq(Nat \ {0}) /\ Len(Advanced) = Len(current_seen)
      BY <2>2, AdvancedIsAnIndexList DEF VisitMember
    <3>2. CASE member_type \in Objects
      BY <2>2, <3>1, <3>2, CallTypes DEF VisitMember, TypeOK
    <3>3. CASE member_type \notin Objects
      BY <2>2, <3>1, <3>3 DEF VisitMember, ReturnAtOnce, TypeOK
    <3>. QED BY <3>2, <3>3
  <2>3. CASE Return
    <3>1. current_seen' \in Seq(Objects) /\ Len(current_seen') = Len(current_seen) - 1
      BY <2>3, Pop DEF Return, TypeOK
    <3>2. next_member # << >>
      BY <2>3, AdvancedIsAnIndexList, EmptySeq DEF Return, TypeOK
    <3>3. next_member' \in Seq(Nat \ {0}) /\ Len(next_member') = Len(next_member) - 1
      BY <2>3, <3>2, Pop DEF Return, TypeOK
    <3>. QED BY <2>3, <3>1, <3>3 DEF Return, TypeOK
  <2>4. CASE Accept
    BY <2>4 DEF Accept, TypeOK, Outcomes
  <2>5. CASE PrintLine
    <3>. DEFINE i       == Len(current_seen) - Len(report)
                current == IF report = << >> THEN first_in_chain ELSE report[Len(report)][2]
                next    == IF i >= 1 THEN current_seen[i] ELSE Undefined
                Names   == Objects \cup {Undefined}
    <3>1. Len(report) \in Nat /\ Len(current_seen) \in Nat
      BY LenProperties DEF TypeOK
    <3>2. next \in Names
      BY <3>1, ElementOfSeq DEF TypeOK
    <3>3. current \in Names
      <4>1. CASE report = << >>
        BY <4>1 DEF TypeOK
      <4>2. CASE report # << >>
        <5>1. Len(report) \in 1 .. Len(report)
          BY <4>2, EmptySeq DEF TypeOK
        <5>. QED BY <4>2, <5>1, ElementOfSeq DEF TypeOK
      <4>. QED BY <4>1, <4>2
    <3>4. report' = Append(report, <<current, next>>)
      BY <2>5 DEF PrintLine
    <3>5. report' \in Seq(Names \X Names)
      BY <3>2, <3>3, <3>4, Push DEF TypeOK
    <3>6. outcome' \in Outcomes
      BY <2>5 DEF PrintLine, TypeOK, Outcomes
    <3>. QED BY <2>5, <3>5, <3>6 DEF PrintLine, TypeOK
  <2>6. CASE UNCHANGED vars
    BY <2>6 DEF vars, TypeOK
  <2>. QED BY <2>1, <2>2, <2>3, <2>4, <2>5, <2>6 DEF Next, Stop
<1>. QED BY <1>1, <1>2, PTL DEF Spec

----------------------------------------------------------------------------
(* The facts about the stack that every step uses. *)
LEMMA StackFacts ==
  ASSUME TypeOK
  PROVE  /\ Len(current_seen) \in Nat
         /\ DOMAIN current_seen = 1 .. Len(current_seen)
         /\ \A x : OnStack(x) <=> \E i \in 1 .. Len(current_seen) : current_seen[i] = x
         /\ \A i \in 1 .. Len(current_seen) : current_seen[i] \in Objects
         /\ Len(next_member) = Len(current_seen)
         /\ \A i \in 1 .. Len(current_seen) : next_member[i] \in Nat \ {0}
         /\ \A x \in Types : DOMAIN members[x] = 1 .. Len(members[x]) /\ Len(members[x]) \in Nat
<1>1. \A x \in Types : members[x] \in Seq(Types)
  BY DEF TypeOK
<1>2. \A i \in 1 .. Len(next_member) : next_member[i] \in Nat \ {0}
  BY ElementOfSeq DEF TypeOK
<1>. QED BY <1>1, <1>2, LenProperties, ElementOfSeq DEF TypeOK, OnStack

(* The indices resumed says the calls below stand after the field their     *)
(* callee was called for, and the innermost one after a field of type       *)
(* current.                                                                 *)
CalledFor(current, resumed) ==
  /\ resumed \in Seq(Nat \ {0})
  /\ Len(resumed) = Len(current_seen)
  /\ \A i \in 1 .. Len(current_seen) - 1 : resumed[i] = next_member[i]
  /\ current_seen # << >> =>
        /\ resumed[Len(current_seen)] = TopIndex + 1
        /\ TopIndex \in DOMAIN members[Top]
        /\ members[Top][TopIndex] = current

(* Entering a call for a name not walked before. *)
LEMMA EnterKeepsInvariant ==
  ASSUME IInv, TypeOK', NEW current \in Objects, NEW resumed, CalledFor(current, resumed),
         outcome = "walking", ~ OnStack(current), current \notin recursive_type_check__seen,
         Enter(current), next_member' = Append(resumed, 1),
         UNCHANGED <<members, report>>, Objects \subseteq roots' \cup {current} \cup recursive_type_check__seen
  PROVE  IInv'
<1>. DEFINE n == Len(current_seen)
<1>0. /\ TypeOK /\ StackIsAPath /\ PassedAreWalked /\ WalkedAreClosed
      /\ ~ RecursiveAmong(Walked) /\ StackAndRoots /\ ReportFollowsStack
  BY DEF IInv
<1>1. /\ Len(current_seen') = n + 1
      /\ \A i \in 1 .. n : current_seen'[i] = current_seen[i]
      /\ current_seen'[n + 1] = current
  BY <1>0, Push DEF Enter, TypeOK
<1>2. /\ \A i \in 1 .. n : next_member'[i] = resumed[i]
      /\ next_member'[n + 1] = 1
  <2>1. 1 \in Nat \ {0}
    OBVIOUS
  <2>. QED BY <2>1, Push DEF CalledFor
<1>3. n \in Nat /\ members' = members /\ outcome' = "walking"
  BY <1>0, StackFacts DEF Enter
<1>4. \A x : OnStack(x)' <=> (OnStack(x) \/ x = current)
  <2>1. DOMAIN current_seen' = 1 .. n + 1
    BY <1>1, <1>3, LenProperties DEF TypeOK
  <2>2. DOMAIN current_seen = 1 .. n
    BY <1>0, StackFacts
  <2>. QED BY <1>1, <1>3, <2>1, <2>2 DEF OnStack
<1>5. Walked' = Walked
  BY <1>4 DEF Walked, Enter
<1>6. StackIsAPath'
  <2>. SUFFICES ASSUME NEW i \in 1 .. n
                PROVE  /\ next_member'[i] - 1 \in DOMAIN members[current_seen'[i]]
                       /\ members[current_seen'[i]][next_member'[i] - 1] = current_seen'[i + 1]
    <3>1. 1 .. Len(current_seen') - 1 = 1 .. n
      BY <1>1, <1>3
    <3>. QED BY <1>3, <3>1 DEF StackIsAPath
  <2>1. CASE i < n
    <3>1. i \in 1 .. n - 1 /\ i + 1 \in 1 .. n
      BY <1>3, <2>1
    <3>. QED BY <1>0, <1>1, <1>2, <3>1 DEF StackIsAPath, CalledFor
  <2>2. CASE i = n
    <3>1. current_seen # << >> /\ n \in 1 .. n /\ TopIndex \in Nat
      BY <2>2, <1>3, <1>0, EmptySeq, AdvancedIsAnIndexList DEF TypeOK
    <3>2. resumed[n] - 1 = TopIndex
      BY <3>1 DEF CalledFor
    <3>3. TopIndex \in DOMAIN members[Top] /\ members[Top][TopIndex] = current
      BY <3>1 DEF CalledFor
    <3>4. current_seen'[i] = Top /\ next_member'[i] - 1 = TopIndex /\ current_seen'[i + 1] = current
      BY <1>1, <1>2, <2>2, <3>1, <3>2 DEF Top
    <3>. QED BY <3>3, <3>4, Zenon
  <2>3. i < n \/ i = n
    BY <1>3
  <2>. QED BY <2>1, <2>2, <2>3, Zenon
<1>7. PassedAreWalked'
  <2>. SUFFICES ASSUME NEW i \in 1 .. n + 1, NEW j \in DOMAIN members[current_seen'[i]],
                       j < next_member'[i], members[current_seen'[i]][j] \in Objects
                PROVE  /\ members[current_seen'[i]][j] \in recursive_type_check__seen'
                       /\ \A k \in 1 .. i : current_seen'[k] # members[current_seen'[i]][j]
    <3>1. 1 .. Len(current_seen') = 1 .. n + 1
      BY <1>1
    <3>. QED BY <1>3, <3>1 DEF PassedAreWalked
  <2>1. CASE i = n + 1
    <3>1. current_seen'[i] \in Types
      BY <1>1, <2>1, ObjectsAssumption
    <3>2. j \in Nat \ {0}
      BY <3>1, <1>0, StackFacts
    <3>3. j < 1
      BY <1>2, <2>1
    <3>. QED BY <3>2, <3>3
  <2>2. CASE i \in 1 .. n
    <3>1. current_seen'[i] = current_seen[i] /\ current_seen[i] \in Types
      BY <1>1, <2>2, <1>0, StackFacts, ObjectsAssumption
    <3>2. j \in Nat \ {0}
      BY <3>1, <1>0, StackFacts
    <3>. DEFINE y == members[current_seen[i]][j]
    <3>3. CASE j < next_member[i]
      <4>1. y \in recursive_type_check__seen /\ \A k \in 1 .. i : current_seen[k] # y
        BY <1>0, <2>2, <3>1, <3>3 DEF PassedAreWalked
      <4>. QED BY <1>1, <2>2, <3>1, <4>1 DEF Enter
    <3>4. CASE ~ (j < next_member[i])
      <4>1. i = n
        BY <1>2, <1>3, <2>2, <3>2, <3>4 DEF CalledFor
      <4>2. current_seen # << >> /\ TopIndex \in Nat
        BY <1>3, <2>2, <1>0, EmptySeq, AdvancedIsAnIndexList DEF TypeOK
      <4>3. next_member'[i] = TopIndex + 1
        BY <1>2, <2>2, <4>1, <4>2 DEF CalledFor
      <4>4. next_member[i] = TopIndex
        BY <1>0, <4>1 DEF TopIndex, TypeOK
      <4>5. j = TopIndex
        <5>1. j < TopIndex + 1 /\ ~ (j < TopIndex)
          BY <3>4, <4>3, <4>4, Zenon
        <5>. QED BY <3>2, <4>2, <5>1
      <4>6. y = current
        BY <4>1, <4>2, <4>5 DEF CalledFor, Top
      <4>7. \A k \in 1 .. i : current_seen[k] # current
        BY <2>2, <1>3, <1>0, StackFacts
      <4>. QED BY <1>1, <2>2, <3>1, <4>6, <4>7 DEF Enter
    <3>. QED BY <3>3, <3>4
  <2>. QED BY <1>3, <2>1, <2>2
<1>8. WalkedAreClosed' /\ ~ RecursiveAmong(Walked)'
  <2>1. \A x, y : HasField(x, y)' <=> HasField(x, y)
    BY <1>3 DEF HasField
  <2>. QED BY <1>0, <1>5, <2>1 DEF WalkedAreClosed, RecursiveAmong
<1>9. StackAndRoots'
  <2>1. \A i \in 1 .. n + 1 : current_seen'[i] \in recursive_type_check__seen'
    BY <1>0, <1>1, <1>3 DEF StackAndRoots, Enter
  <2>2. \A i, j \in 1 .. n + 1 : current_seen'[i] = current_seen'[j] => i = j
    <3>1. \A i \in 1 .. n : current_seen[i] # current
      BY <1>0, StackFacts
    <3>. QED BY <1>0, <1>1, <1>3, <3>1 DEF StackAndRoots
  <2>3. Objects \subseteq roots' \cup recursive_type_check__seen'
    BY DEF Enter
  <2>. QED BY <1>1, <1>3, <2>1, <2>2, <2>3 DEF StackAndRoots
<1>10. ThrownFromATurn' /\ ReportFollowsStack'
  <2>1. report = << >>
    BY <1>0 DEF ReportFollowsStack
  <2>2. Len(report) = 0 /\ report' = << >>
    BY <2>1
  <2>. QED BY <1>3, <2>2 DEF ThrownFromATurn, ReportFollowsStack
<1>. QED BY <1>0, <1>6, <1>7, <1>8, <1>9, <1>10 DEF IInv

(* Coming back at once from a call: the name was finished before, or is no  *)
(* object at all.                                                           *)
LEMMA SkipKeepsInvariant ==
  ASSUME IInv, TypeOK', NEW current, NEW resumed, CalledFor(current, resumed),
         outcome = "walking", current \in Objects => current \in Walked,
         ReturnAtOnce, next_member' = resumed,
         UNCHANGED <<members, report>>, Objects \subseteq roots' \cup recursive_type_check__seen
  PROVE  IInv'
<1>. DEFINE n == Len(current_seen)
<1>0. /\ TypeOK /\ StackIsAPath /\ PassedAreWalked /\ WalkedAreClosed
      /\ ~ RecursiveAmong(Walked) /\ StackAndRoots /\ ReportFollowsStack
  BY DEF IInv
<1>1. /\ current_seen' = current_seen /\ members' = members /\ outcome' = "walking"
      /\ recursive_type_check__seen' = recursive_type_check__seen /\ n \in Nat
      /\ report' = report /\ first_in_chain' = first_in_chain
  BY <1>0, StackFacts DEF ReturnAtOnce
<1>2. StackIsAPath'
  BY <1>0, <1>1 DEF StackIsAPath, CalledFor
<1>3. Walked' = Walked /\ WalkedAreClosed' /\ ~ RecursiveAmong(Walked)'
  <2>1. \A x : OnStack(x)' <=> OnStack(x)
    BY <1>1 DEF OnStack
  <2>2. \A x, y : HasField(x, y)' <=> HasField(x, y)
    BY <1>1 DEF HasField
  <2>3. Walked' = Walked
    BY <1>1, <2>1 DEF Walked
  <2>. QED BY <1>0, <2>2, <2>3 DEF WalkedAreClosed, RecursiveAmong
<1>4. PassedAreWalked'
  <2>. SUFFICES ASSUME NEW i \in 1 .. n, NEW j \in DOMAIN members[current_seen[i]],
                       j < resumed[i], members[current_seen[i]][j] \in Objects
                PROVE  /\ members[current_seen[i]][j] \in recursive_type_check__seen
                       /\ \A k \in 1 .. i : current_seen[k] # members[current_seen[i]][j]
    BY <1>1 DEF PassedAreWalked
  <2>1. current_seen[i] \in Types /\ j \in Nat
    <3>1. current_seen[i] \in Types
      BY <1>0, StackFacts, ObjectsAssumption
    <3>. QED BY <1>0, <3>1, StackFacts
  <2>. DEFINE y == members[current_seen[i]][j]
  <2>2. CASE j < next_member[i]
    BY <1>0, <2>2 DEF PassedAreWalked
  <2>3. CASE ~ (j < next_member[i])
    <3>1. i = n
      BY <1>1, <2>1, <2>3 DEF CalledFor
    <3>2. current_seen # << >> /\ TopIndex \in Nat
      BY <1>0, <1>1, EmptySeq, AdvancedIsAnIndexList DEF TypeOK
    <3>3. next_member[i] = TopIndex
      BY <1>0, <3>1 DEF TopIndex, TypeOK
    <3>4. resumed[i] = TopIndex + 1
      BY <3>1, <3>2 DEF CalledFor
    <3>5. j < TopIndex + 1 /\ ~ (j < TopIndex)
      BY <2>3, <3>3, <3>4, Zenon
    <3>6. j = TopIndex
      BY <2>1, <3>2, <3>5
    <3>7. y = current
      BY <3>1, <3>2, <3>6 DEF CalledFor, Top
    <3>8. current \in recursive_type_check__seen /\ \A k \in 1 .. n : current_seen[k] # current
      BY <1>0, <3>7, StackFacts DEF Walked
    <3>. QED BY <3>1, <3>7, <3>8
  <2>. QED BY <2>2, <2>3
<1>5. StackAndRoots'
  BY <1>0, <1>1 DEF StackAndRoots
<1>6. ThrownFromATurn' /\ ReportFollowsStack'
  BY <1>0, <1>1 DEF ThrownFromATurn, ReportFollowsStack
<1>. QED BY <1>2, <1>3, <1>4, <1>5, <1>6 DEF IInv

(* Throwing: the name is on the stack, and is a field of the type on top.   *)
LEMMA ThrowKeepsInvariant ==
  ASSUME IInv, TypeOK', NEW current \in Objects, NEW resumed, CalledFor(current, resumed),
         outcome = "walking", OnStack(current),
         ThrowCyclic(current), next_member' = resumed,
         UNCHANGED <<members, report>>, Objects \subseteq roots' \cup recursive_type_check__seen
  PROVE  IInv'
<1>. DEFINE n == Len(current_seen)
<1>0. /\ TypeOK /\ StackIsAPath /\ PassedAreWalked /\ WalkedAreClosed
      /\ ~ RecursiveAmong(Walked) /\ StackAndRoots /\ ReportFollowsStack
  BY DEF IInv
<1>1. /\ current_seen' = current_seen /\ members' = members /\ outcome' = "cyclic_structs"
      /\ recursive_type_check__seen' = recursive_type_check__seen /\ n \in Nat
      /\ report' = report /\ first_in_chain' = current
  BY <1>0, StackFacts DEF ThrowCyclic
<1>2. StackIsAPath'
  BY <1>0, <1>1 DEF StackIsAPath, CalledFor
<1>3. WalkedAreClosed' /\ ~ RecursiveAmong(Walked)'
  <2>1. \A x : OnStack(x)' <=> OnStack(x)
    BY <1>1 DEF OnStack
  <2>2. \A x, y : HasField(x, y)' <=> HasField(x, y)
    BY <1>1 DEF HasField
  <2>3. Walked' = Walked
    BY <1>1, <2>1 DEF Walked
  <2>. QED BY <1>0, <2>2, <2>3 DEF WalkedAreClosed, RecursiveAmong
<1>4. PassedAreWalked'
  BY <1>1 DEF PassedAreWalked
<1>5. StackAndRoots'
  BY <1>0, <1>1 DEF StackAndRoots
<1>6. ThrownFromATurn'
  <2>1. current_seen # << >>
    BY <1>0, StackFacts, EmptySeq
  <2>2. HasField(Top, current)
    BY <2>1 DEF CalledFor, HasField
  <2>. QED BY <1>1, <2>2 DEF ThrownFromATurn, OnStack, HasField, Top
<1>7. ReportFollowsStack'
  <2>1. report = << >>
    BY <1>0 DEF ReportFollowsStack
  <2>2. Len(report') = 0
    BY <1>1, <2>1
  <2>. QED BY <1>1, <2>2 DEF ReportFollowsStack
<1>. QED BY <1>2, <1>3, <1>4, <1>5, <1>6, <1>7 DEF IInv

(* Adding a type all of whose fields lead into a closed set that is not     *)
(* recursive makes nothing recursive.                                       *)
LEMMA AddingASink ==
  ASSUME NEW F, NEW v, v \notin F, ~ RecursiveAmong(F),
         \A x \in F \cup {v} : \A y \in F \cup {v} : HasField(x, y) => y \in F
  PROVE  ~ RecursiveAmong(F \cup {v})
<1>. SUFFICES ASSUME NEW C \in SUBSET (F \cup {v}), C # {},
                     \A x \in C : \E y \in C : HasField(x, y)
              PROVE  FALSE
  BY DEF RecursiveAmong
<1>. DEFINE D == C \ {v}
<1>1. D \in SUBSET F
  OBVIOUS
<1>2. D # {}
  <2>1. PICK x \in C : TRUE
    OBVIOUS
  <2>2. PICK y \in C : HasField(x, y)
    OBVIOUS
  <2>. QED BY <2>2
<1>3. \A x \in D : \E y \in D : HasField(x, y)
  OBVIOUS
<1>. QED BY <1>1, <1>2, <1>3 DEF RecursiveAmong

(* Returning from the innermost call finishes the name on top.              *)
LEMMA ReturnKeepsInvariant ==
  ASSUME IInv, TypeOK', Return
  PROVE  IInv'
<1>. DEFINE n == Len(current_seen)
<1>0. /\ TypeOK /\ StackIsAPath /\ PassedAreWalked /\ WalkedAreClosed
      /\ ~ RecursiveAmong(Walked) /\ StackAndRoots /\ ReportFollowsStack
  BY DEF IInv
<1>a. PICK top \in Objects : top = Top
  BY <1>0, AdvancedIsAnIndexList DEF Return
<1>1. /\ n \in Nat \ {0} /\ top = current_seen[n]
      /\ TopIndex \in Nat /\ TopIndex = next_member[n] /\ TopIndex > Len(members[top])
  BY <1>0, <1>a, AdvancedIsAnIndexList DEF Return, Top, TopIndex, TypeOK
<1>2. /\ Len(current_seen') = n - 1
      /\ \A i \in 1 .. n - 1 : current_seen'[i] = current_seen[i]
  BY <1>0, Pop DEF Return, TypeOK
<1>3. \A i \in 1 .. n - 1 : next_member'[i] = next_member[i]
  <2>1. next_member # << >> /\ Len(next_member) = n
    BY <1>0, <1>1, EmptySeq DEF TypeOK
  <2>. QED BY <1>0, <2>1, Pop DEF Return, TypeOK
<1>4. /\ members' = members /\ outcome' = "walking" /\ outcome = "walking"
      /\ recursive_type_check__seen' = recursive_type_check__seen
      /\ report' = report /\ roots' = roots
  BY DEF Return
<1>5. \A x : OnStack(x)' <=> \E i \in 1 .. n - 1 : current_seen[i] = x
  <2>1. DOMAIN current_seen' = 1 .. n - 1
    BY <1>2, LenProperties DEF TypeOK
  <2>. QED BY <1>2, <2>1 DEF OnStack
<1>6. \A x : OnStack(x) <=> OnStack(x)' \/ x = top
  BY <1>0, <1>1, <1>5, StackFacts
<1>7. top \in recursive_type_check__seen /\ ~ OnStack(top)'
  BY <1>0, <1>1, <1>5 DEF StackAndRoots
<1>8. Walked' = Walked \cup {top} /\ top \notin Walked
  BY <1>4, <1>6, <1>7 DEF Walked
<1>9. \A y \in Objects : HasField(top, y) => y \in Walked
  <2>. SUFFICES ASSUME NEW j \in DOMAIN members[top], members[top][j] \in Objects
                PROVE  members[top][j] \in Walked
    BY DEF HasField
  <2>1. j \in Nat /\ j <= Len(members[top]) /\ Len(members[top]) \in Nat
    BY <1>0, <1>1, StackFacts, ObjectsAssumption
  <2>2. j < next_member[n]
    BY <1>1, <2>1
  <2>3. /\ members[top][j] \in recursive_type_check__seen
        /\ \A k \in 1 .. n : current_seen[k] # members[top][j]
    BY <1>0, <1>1, <1>4, <2>2 DEF PassedAreWalked
  <2>. QED BY <1>0, <2>3, StackFacts DEF Walked
<1>10. \A x, y : HasField(x, y)' <=> HasField(x, y)
  BY <1>4 DEF HasField
<1>11. Walked \subseteq Objects
  BY <1>0 DEF Walked, TypeOK
<1>12. WalkedAreClosed'
  BY <1>0, <1>8, <1>9, <1>10 DEF WalkedAreClosed
<1>13. ~ RecursiveAmong(Walked)'
  <2>1. ~ RecursiveAmong(Walked \cup {top})
    <3>1. \A x \in Walked \cup {top} : \A y \in Walked \cup {top} : HasField(x, y) => y \in Walked
      BY <1>0, <1>1, <1>9, <1>11 DEF WalkedAreClosed
    <3>. QED BY <1>0, <1>8, <3>1, AddingASink
  <2>. QED BY <1>8, <1>10, <2>1 DEF RecursiveAmong
<1>14. StackIsAPath'
  <2>. SUFFICES ASSUME NEW i \in 1 .. n - 2
                PROVE  /\ next_member'[i] - 1 \in DOMAIN members[current_seen'[i]]
                       /\ members[current_seen'[i]][next_member'[i] - 1] = current_seen'[i + 1]
    <3>1. 1 .. Len(current_seen') - 1 = 1 .. n - 2
      BY <1>1, <1>2
    <3>. QED BY <1>4, <3>1 DEF StackIsAPath
  <2>1. i \in 1 .. n - 1 /\ i + 1 \in 1 .. n - 1
    BY <1>1
  <2>2. /\ next_member'[i] = next_member[i]
        /\ current_seen'[i] = current_seen[i] /\ current_seen'[i + 1] = current_seen[i + 1]
    BY <1>2, <1>3, <2>1
  <2>. QED BY <1>0, <2>1, <2>2 DEF StackIsAPath
<1>15. PassedAreWalked'
  <2>1. 1 .. Len(current_seen') = 1 .. n - 1
    BY <1>2
  <2>2. \A i \in 1 .. n - 1 : i \in 1 .. n /\ \A k \in 1 .. i : k \in 1 .. n - 1
    BY <1>1
  <2>3. \A i \in 1 .. n - 1 : /\ current_seen'[i] = current_seen[i]
                               /\ next_member'[i] = next_member[i]
                               /\ \A k \in 1 .. i : current_seen'[k] = current_seen[k]
    BY <1>2, <1>3, <2>2
  <2>. QED BY <1>0, <1>4, <2>1, <2>2, <2>3 DEF PassedAreWalked
<1>16. StackAndRoots'
  BY <1>0, <1>1, <1>2, <1>4 DEF StackAndRoots
<1>17. ThrownFromATurn' /\ ReportFollowsStack'
  <2>1. report' = << >>
    BY <1>0, <1>4 DEF ReportFollowsStack
  <2>2. Len(report') = 0
    BY <2>1
  <2>. QED BY <1>4, <2>1, <2>2 DEF ThrownFromATurn, ReportFollowsStack
<1>. QED BY <1>12, <1>13, <1>14, <1>15, <1>16, <1>17 DEF IInv

(* Printing a line: the stack still has the name the loop looks for below   *)
(* the part already printed.                                                *)
LEMMA PrintKeepsInvariant ==
  ASSUME IInv, TypeOK', PrintLine
  PROVE  IInv'
<1>. DEFINE n       == Len(current_seen)
            m       == Len(report)
            i       == n - m
            current == IF report = << >> THEN first_in_chain ELSE report[m][2]
            next    == IF i >= 1 THEN current_seen[i] ELSE Undefined
<1>0. /\ TypeOK /\ StackIsAPath /\ WalkedAreClosed /\ ~ RecursiveAmong(Walked)
      /\ StackAndRoots /\ ThrownFromATurn /\ ReportFollowsStack
  BY DEF IInv
<1>1. /\ members' = members /\ roots' = roots /\ current_seen' = current_seen
      /\ next_member' = next_member /\ first_in_chain' = first_in_chain
      /\ recursive_type_check__seen' = recursive_type_check__seen
      /\ outcome = "cyclic_structs" /\ outcome' \in {"cyclic_structs", "reported"}
      /\ report' = Append(report, <<current, next>>)
      /\ outcome' = IF next = first_in_chain THEN "reported" ELSE "cyclic_structs"
  BY DEF PrintLine
<1>2. n \in Nat /\ m \in Nat
  BY <1>0, LenProperties DEF TypeOK
<1>3. i \in 1 .. n
  <2>1. PICK p \in 1 .. n : current_seen[p] = first_in_chain
    BY <1>0, <1>1, StackFacts DEF ThrownFromATurn
  <2>2. CASE m >= n - p + 1
    <3>1. n - p + 1 \in 1 .. m /\ n - (n - p + 1) + 1 = p
      BY <1>2, <2>2
    <3>2. report[n - p + 1][2] = current_seen[p] /\ report[n - p + 1][2] # first_in_chain
      BY <1>0, <1>1, <3>1 DEF ReportFollowsStack
    <3>. QED BY <2>1, <3>2
  <2>3. CASE ~ (m >= n - p + 1)
    BY <1>2, <2>3
  <2>. QED BY <2>2, <2>3
<1>4. next = current_seen[i]
  BY <1>2, <1>3
<1>. HIDE DEF i, current, next
<1>5. /\ Len(report') = m + 1
      /\ \A k \in 1 .. m : report'[k] = report[k]
      /\ report'[m + 1] = <<current, next>>
  <2>. DEFINE Names == Objects \cup {Undefined}
  <2>1. next \in Names
    BY <1>0, <1>3, <1>4, StackFacts
  <2>2. current \in Names
    <3>1. CASE report = << >>
      BY <1>0, <3>1 DEF current, TypeOK
    <3>2. CASE report # << >>
      <4>1. m \in 1 .. m
        BY <1>0, <3>2, EmptySeq DEF TypeOK
      <4>. QED BY <1>0, <3>2, <4>1, ElementOfSeq DEF TypeOK, current
    <3>. QED BY <3>1, <3>2
  <2>3. <<current, next>> \in Names \X Names
    BY <2>1, <2>2
  <2>4. report \in Seq(Names \X Names)
    BY <1>0 DEF TypeOK
  <2>. QED BY <1>1, <2>3, <2>4, Push
<1>6. ReportFollowsStack'
  <2>1. ASSUME NEW k \in 1 .. m + 1
        PROVE  /\ k <= n
               /\ report'[k][2] = current_seen[n - k + 1]
               /\ report'[k][1] = IF k = 1 THEN first_in_chain ELSE report'[k - 1][2]
               /\ outcome' = "cyclic_structs" => report'[k][2] # first_in_chain
    <3>1. CASE k \in 1 .. m
      <4>1. k # 1 => k - 1 \in 1 .. m
        BY <1>2, <3>1
      <4>2. report'[k] = report[k] /\ (k # 1 => report'[k - 1] = report[k - 1])
        BY <1>5, <3>1, <4>1
      <4>. QED BY <1>0, <1>1, <3>1, <4>2 DEF ReportFollowsStack
    <3>2. CASE k = m + 1
      <4>1. n - k + 1 = i /\ k <= n
        BY <1>2, <1>3, <3>2 DEF i
      <4>2. report'[k][2] = next /\ report'[k][1] = current
        BY <1>5, <3>2
      <4>3. current = IF k = 1 THEN first_in_chain ELSE report'[k - 1][2]
        <5>1. CASE report = << >>
          <6>1. m = 0
            BY <5>1
          <6>. QED BY <3>2, <5>1, <6>1 DEF current
        <5>2. CASE report # << >>
          <6>1. m \in 1 .. m /\ k # 1 /\ k - 1 = m
            BY <1>0, <3>2, <5>2, EmptySeq DEF TypeOK
          <6>2. report'[k - 1] = report[m]
            BY <1>5, <6>1
          <6>. QED BY <5>2, <6>1, <6>2 DEF current
        <5>. QED BY <5>1, <5>2
      <4>. QED BY <1>1, <1>4, <4>1, <4>2, <4>3
    <3>3. k \in 1 .. m \/ k = m + 1
      BY <1>2
    <3>. QED BY <3>1, <3>2, <3>3
  <2>2. outcome' = "reported" => report' # << >> /\ report'[Len(report')][2] = first_in_chain
    <3>1. report' # << >>
      BY <1>2, <1>5
    <3>. QED BY <1>1, <1>5, <3>1
  <2>. QED BY <1>1, <1>5, <2>1, <2>2 DEF ReportFollowsStack
<1>7. WalkedAreClosed' /\ ~ RecursiveAmong(Walked)'
  <2>1. \A x : OnStack(x)' <=> OnStack(x)
    BY <1>1 DEF OnStack
  <2>2. \A x, y : HasField(x, y)' <=> HasField(x, y)
    BY <1>1 DEF HasField
  <2>3. Walked' = Walked
    BY <1>1, <2>1 DEF Walked
  <2>. QED BY <1>0, <2>2, <2>3 DEF WalkedAreClosed, RecursiveAmong
<1>8. StackIsAPath'
  BY <1>0, <1>1 DEF StackIsAPath
<1>9. StackAndRoots' /\ PassedAreWalked'
  BY <1>0, <1>1 DEF StackAndRoots, PassedAreWalked
<1>10. ThrownFromATurn'
  BY <1>0, <1>1 DEF ThrownFromATurn, OnStack, HasField, Top
<1>. QED BY <1>6, <1>7, <1>8, <1>9, <1>10 DEF IInv

(* Steps that leave the walk as it is. *)
LEMMA AcceptKeepsInvariant ==
  ASSUME IInv, TypeOK', Accept
  PROVE  IInv'
<1>0. /\ TypeOK /\ StackIsAPath /\ WalkedAreClosed /\ ~ RecursiveAmong(Walked)
      /\ StackAndRoots /\ ReportFollowsStack
  BY DEF IInv
<1>1. /\ members' = members /\ roots' = roots /\ current_seen' = current_seen
      /\ next_member' = next_member /\ report' = report /\ outcome = "walking"
      /\ recursive_type_check__seen' = recursive_type_check__seen
      /\ outcome' = "accepted" /\ roots = {} /\ current_seen = << >>
  BY DEF Accept
<1>2. WalkedAreClosed' /\ ~ RecursiveAmong(Walked)'
  <2>1. \A x : OnStack(x)' <=> OnStack(x)
    BY <1>1 DEF OnStack
  <2>2. \A x, y : HasField(x, y)' <=> HasField(x, y)
    BY <1>1 DEF HasField
  <2>3. Walked' = Walked
    BY <1>1, <2>1 DEF Walked
  <2>. QED BY <1>0, <2>2, <2>3 DEF WalkedAreClosed, RecursiveAmong
<1>3. StackIsAPath' /\ StackAndRoots' /\ PassedAreWalked' /\ ThrownFromATurn'
  BY <1>0, <1>1 DEF StackIsAPath, StackAndRoots, PassedAreWalked, ThrownFromATurn
<1>4. ReportFollowsStack'
  <2>1. report = << >> /\ Len(report') = 0
    BY <1>0, <1>1 DEF ReportFollowsStack
  <2>. QED BY <1>1, <2>1 DEF ReportFollowsStack
<1>. QED BY <1>2, <1>3, <1>4 DEF IInv

----------------------------------------------------------------------------
LEMMA WalkKeepsInvariant ==
  ASSUME IInv, TypeOK', NEW current \in Objects, NEW resumed, CalledFor(current, resumed),
         outcome = "walking", WalkObjectGraph(current, resumed),
         UNCHANGED <<members, report>>,
         current_seen # << >> => roots' = roots,
         current_seen = << >> => roots' = roots \ {current}
  PROVE  IInv'
<1>0. TypeOK /\ StackAndRoots
  BY DEF IInv
<1>1. Objects \subseteq roots' \cup {current} \cup recursive_type_check__seen
  BY <1>0 DEF StackAndRoots
<1>2. CASE OnStack(current) /\ ThrowCyclic(current) /\ next_member' = resumed
  <2>1. current_seen # << >>
    BY <1>0, <1>2, StackFacts, EmptySeq
  <2>2. Objects \subseteq roots' \cup recursive_type_check__seen
    BY <1>0, <2>1 DEF StackAndRoots
  <2>. QED BY <1>2, <2>2, ThrowKeepsInvariant
<1>3. CASE /\ ~ OnStack(current) /\ current \in recursive_type_check__seen
           /\ ReturnAtOnce /\ next_member' = resumed
  <2>1. current \in Walked
    BY <1>3 DEF Walked
  <2>2. Objects \subseteq roots' \cup recursive_type_check__seen
    BY <1>1, <1>3
  <2>. QED BY <1>3, <2>1, <2>2, SkipKeepsInvariant
<1>4. CASE /\ ~ OnStack(current) /\ current \notin recursive_type_check__seen
           /\ Enter(current) /\ next_member' = Append(resumed, 1)
  BY <1>1, <1>4, EnterKeepsInvariant
<1>. QED BY <1>2, <1>3, <1>4 DEF WalkObjectGraph

(* The invariant from which the correctness of the check follows. *)
THEOREM Invariance == Spec => []IInv
<1>1. Init => IInv
  <2>. SUFFICES ASSUME Init PROVE IInv
    OBVIOUS
  <2>1. TypeOK
    <3>1. members \in [Types -> Seq(Types)]
      BY InputsAssumption DEF Init
    <3>. QED BY <3>1, EmptySeq DEF Init, TypeOK, Outcomes
  <2>2. Len(current_seen) = 0 /\ Len(report) = 0
    BY DEF Init
  <2>3. Walked = {}
    BY DEF Init, Walked
  <2>4. StackIsAPath /\ PassedAreWalked /\ StackAndRoots
    BY <2>2 DEF StackIsAPath, PassedAreWalked, StackAndRoots, Init
  <2>5. WalkedAreClosed /\ ~ RecursiveAmong(Walked)
    BY <2>3 DEF WalkedAreClosed, RecursiveAmong
  <2>6. ThrownFromATurn /\ ReportFollowsStack
    BY <2>2 DEF ThrownFromATurn, ReportFollowsStack, Init
  <2>. QED BY <2>1, <2>4, <2>5, <2>6 DEF IInv
<1>2. IInv /\ TypeOK' /\ [Next]_vars => IInv'
  <2>. SUFFICES ASSUME IInv, TypeOK', [Next]_vars PROVE IInv'
    OBVIOUS
  <2>0. TypeOK
    BY DEF IInv
  <2>1. ASSUME NEW root \in roots, StartRoot(root) PROVE IInv'
    <3>1. root \in Objects
      BY <2>0 DEF TypeOK
    <3>2. CalledFor(root, next_member)
      <4>1. Len(current_seen) = 0 /\ next_member \in Seq(Nat \ {0}) /\ Len(next_member) = Len(current_seen)
        BY <2>0, <2>1 DEF StartRoot, TypeOK
      <4>. QED BY <2>1, <4>1 DEF CalledFor, StartRoot
    <3>. QED BY <2>1, <3>1, <3>2, WalkKeepsInvariant DEF StartRoot
  <2>2. CASE VisitMember
    <3>. DEFINE member_type == members[Top][TopIndex]
    <3>1. CalledFor(member_type, Advanced)
      <4>1. TopIndex \in DOMAIN members[Top]
        <5>1. /\ Top \in Types /\ TopIndex \in Nat \ {0} /\ TopIndex <= Len(members[Top])
          BY <2>0, <2>2, AdvancedIsAnIndexList, ObjectsAssumption DEF VisitMember
        <5>2. DOMAIN members[Top] = 1 .. Len(members[Top]) /\ Len(members[Top]) \in Nat
          BY <2>0, <5>1, StackFacts
        <5>. QED BY <5>1, <5>2
      <4>. QED BY <2>0, <2>2, <4>1, AdvancedIsAnIndexList DEF CalledFor, VisitMember
    <3>2. CASE member_type \in Objects
      BY <2>2, <3>1, <3>2, WalkKeepsInvariant DEF VisitMember
    <3>3. CASE member_type \notin Objects
      <4>1. Objects \subseteq roots' \cup recursive_type_check__seen
        BY <2>2 DEF VisitMember, IInv, StackAndRoots
      <4>. QED BY <2>2, <3>1, <3>3, <4>1, SkipKeepsInvariant DEF VisitMember
    <3>. QED BY <3>2, <3>3
  <2>3. CASE Return
    BY <2>3, ReturnKeepsInvariant
  <2>4. CASE Accept
    BY <2>4, AcceptKeepsInvariant
  <2>5. CASE PrintLine
    BY <2>5, PrintKeepsInvariant
  <2>6. CASE UNCHANGED vars
    <3>1. /\ members' = members /\ roots' = roots /\ current_seen' = current_seen
          /\ next_member' = next_member /\ report' = report /\ outcome' = outcome
          /\ recursive_type_check__seen' = recursive_type_check__seen
          /\ first_in_chain' = first_in_chain
      BY <2>6 DEF vars
    <3>2. /\ TypeOK /\ StackIsAPath /\ PassedAreWalked /\ WalkedAreClosed
          /\ ~ RecursiveAmong(Walked) /\ StackAndRoots /\ ThrownFromATurn /\ ReportFollowsStack
      BY DEF IInv
    <3>3. WalkedAreClosed' /\ ~ RecursiveAmong(Walked)'
      <4>1. \A x : OnStack(x)' <=> OnStack(x)
        BY <3>1 DEF OnStack
      <4>2. \A x, y : HasField(x, y)' <=> HasField(x, y)
        BY <3>1 DEF HasField
      <4>3. Walked' = Walked
        BY <3>1, <4>1 DEF Walked
      <4>. QED BY <3>2, <4>2, <4>3 DEF WalkedAreClosed, RecursiveAmong
    <3>4. StackIsAPath' /\ StackAndRoots'
      BY <3>1, <3>2 DEF StackIsAPath, StackAndRoots
    <3>5. PassedAreWalked'
      BY <3>1, <3>2 DEF PassedAreWalked
    <3>6. ThrownFromATurn'
      BY <3>1, <3>2 DEF ThrownFromATurn, OnStack, HasField, Top
    <3>7. ReportFollowsStack'
      BY <3>1, <3>2 DEF ReportFollowsStack
    <3>. QED BY <3>3, <3>4, <3>5, <3>6, <3>7 DEF IInv
  <2>. QED BY <2>1, <2>2, <2>3, <2>4, <2>5, <2>6 DEF Next, Stop
<1>. QED BY <1>1, <1>2, TypeCorrect, PTL DEF Spec

(* A file that passes has no recursive interface or dictionary.             *)
LEMMA InvariantAccepts == IInv => AcceptedIsAcyclic
<1>. SUFFICES ASSUME IInv, outcome = "accepted" PROVE ~ RecursiveAmong(Objects)
  BY DEF AcceptedIsAcyclic
<1>1. Objects \subseteq recursive_type_check__seen /\ current_seen = << >>
  BY DEF IInv, StackAndRoots
<1>2. \A x : ~ OnStack(x)
  <2>1. DOMAIN current_seen = {}
    BY <1>1
  <2>. QED BY <2>1 DEF OnStack
<1>3. Walked = Objects
  BY <1>1, <1>2 DEF Walked, IInv, TypeOK
<1>. QED BY <1>3 DEF IInv

(* The names from the repeated one to the top of the stack contain each     *)
(* other in a circle.                                                       *)
LEMMA InvariantRejects == IInv => RejectedIsRecursive
<1>. SUFFICES ASSUME IInv, outcome \in {"cyclic_structs", "reported"} PROVE RecursiveAmong(Objects)
  BY DEF RejectedIsRecursive
<1>. DEFINE n == Len(current_seen)
<1>0. TypeOK /\ StackIsAPath /\ ThrownFromATurn
  BY DEF IInv
<1>1. PICK p \in 1 .. n : current_seen[p] = first_in_chain
  BY <1>0, StackFacts DEF ThrownFromATurn
<1>. DEFINE C == {current_seen[k] : k \in p .. n}
<1>2. n \in Nat
  BY <1>0, StackFacts
<1>3. C \in SUBSET Objects
  <2>1. \A k \in p .. n : k \in 1 .. n
    BY <1>2
  <2>. QED BY <1>0, <2>1, StackFacts
<1>4. C # {}
  BY <1>2
<1>5. ASSUME NEW k \in p .. n PROVE \E y \in C : HasField(current_seen[k], y)
  <2>1. CASE k = n
    <3>1. HasField(current_seen[k], first_in_chain)
      BY <1>0, <2>1 DEF ThrownFromATurn, Top
    <3>2. first_in_chain \in C
      BY <1>1, <1>2
    <3>. QED BY <3>1, <3>2
  <2>2. CASE k # n
    <3>1. k \in 1 .. n - 1 /\ k + 1 \in p .. n
      BY <1>2, <2>2
    <3>2. HasField(current_seen[k], current_seen[k + 1])
      BY <1>0, <3>1 DEF StackIsAPath, HasField
    <3>3. current_seen[k + 1] \in C
      BY <3>1
    <3>. QED BY <3>2, <3>3
  <2>. QED BY <2>1, <2>2
<1>. QED BY <1>3, <1>4, <1>5 DEF RecursiveAmong

(* walk_object_graph lets no recursive type through. *)
THEOREM AcceptedIsAcyclicHolds == Spec => []AcceptedIsAcyclic
BY Invariance, InvariantAccepts, PTL

(* walk_object_graph rejects no file whose types are not recursive. *)
THEOREM RejectedIsRecursiveHolds == Spec => []RejectedIsRecursive
BY Invariance, InvariantRejects, PTL

(* Each line printed is a field and its owner, and the lines close a circle. *)
LEMMA InvariantReports == IInv => ReportIsACycle
<1>. SUFFICES ASSUME IInv, outcome = "reported" PROVE ReportIsACycle
  BY DEF ReportIsACycle
<1>. DEFINE n == Len(current_seen)
            m == Len(report)
<1>0. TypeOK /\ StackIsAPath /\ ThrownFromATurn /\ ReportFollowsStack
  BY DEF IInv
<1>1. report # << >> /\ n \in Nat /\ m \in Nat \ {0} /\ DOMAIN report = 1 .. m
  BY <1>0, EmptySeq, LenProperties DEF TypeOK, ReportFollowsStack
<1>2. \A i \in 1 .. m : /\ i <= n
                        /\ report[i][2] = current_seen[n - i + 1]
                        /\ report[i][1] = IF i = 1 THEN first_in_chain ELSE report[i - 1][2]
  BY <1>0 DEF ReportFollowsStack
<1>3. ASSUME NEW i \in 1 .. m PROVE HasField(report[i][2], report[i][1])
  <2>1. CASE i = 1
    <3>1. n - i + 1 = n
      BY <1>1, <2>1
    <3>. QED BY <1>0, <1>2, <2>1, <3>1 DEF ThrownFromATurn, Top
  <2>2. CASE i # 1
    <3>1. i - 1 \in 1 .. m
      BY <1>1, <2>2
    <3>. DEFINE k == n - i + 1
    <3>2. k \in 1 .. n - 1 /\ n - (i - 1) + 1 = k + 1
      BY <1>1, <1>2, <2>2
    <3>3. report[i][2] = current_seen[k] /\ report[i][1] = report[i - 1][2]
      BY <1>2, <2>2
    <3>4. report[i - 1][2] = current_seen[k + 1]
      BY <1>2, <3>1, <3>2
    <3>. HIDE DEF k
    <3>5. HasField(current_seen[k], current_seen[k + 1])
      BY <1>0, <3>2 DEF StackIsAPath, HasField
    <3>. QED BY <3>3, <3>4, <3>5
  <2>. QED BY <2>1, <2>2
<1>4. ASSUME NEW i \in 1 .. m - 1 PROVE report[i + 1][1] = report[i][2]
  <2>1. i + 1 \in 1 .. m /\ i + 1 # 1 /\ i + 1 - 1 = i
    BY <1>1
  <2>. QED BY <1>2, <2>1
<1>5. report[m][2] = report[1][1]
  <2>1. report[1][1] = first_in_chain
    BY <1>1, <1>2
  <2>. QED BY <1>0, <2>1 DEF ReportFollowsStack
<1>. QED BY <1>1, <1>3, <1>4, <1>5 DEF ReportIsACycle

(* The cycle generate.js prints is a cycle of the file. *)
THEOREM ReportIsACycleHolds == Spec => []ReportIsACycle
BY Invariance, InvariantReports, PTL

----------------------------------------------------------------------------
(* Only a walk that has not ended can change the verdict. *)
LEMMA VerdictIsFinal ==
  ASSUME [Next]_vars
  PROVE  /\ members' = members
         /\ outcome # "walking" => verdict' = verdict
<1>1. CASE \E root \in roots : StartRoot(root)
  BY <1>1 DEF StartRoot
<1>2. CASE VisitMember
  BY <1>2 DEF VisitMember
<1>3. CASE Return
  BY <1>3 DEF Return
<1>4. CASE Accept
  BY <1>4 DEF Accept
<1>5. CASE PrintLine
  BY <1>5 DEF PrintLine, verdict
<1>6. CASE UNCHANGED vars
  BY <1>6 DEF vars, verdict
<1>. QED BY <1>1, <1>2, <1>3, <1>4, <1>5, <1>6 DEF Next, Stop

(* The walk implements TypeCheckVerdict: its single decision is the right   *)
(* one, and final.                                                          *)
THEOREM WalkImplementsVerdict == Spec => ImplementsVerdict
<1>1. Init => Abstract!Init
  BY DEF Init, Abstract!Init, verdict
<1>2. IInv' /\ AcceptedIsAcyclic' /\ RejectedIsRecursive' /\ [Next]_vars
         => [Abstract!Decide]_<<members, verdict>>
  <2>. SUFFICES ASSUME IInv', AcceptedIsAcyclic', RejectedIsRecursive', [Next]_vars
                PROVE  [Abstract!Decide]_<<members, verdict>>
    OBVIOUS
  <2>1. members' = members
    BY VerdictIsFinal
  <2>2. CASE outcome # "walking"
    BY <2>1, <2>2, VerdictIsFinal
  <2>3. CASE outcome = "walking"
    <3>1. verdict = "undecided"
      BY <2>3 DEF verdict
    <3>2. Abstract!Recursive <=> RecursiveAmong(Objects)
      BY DEF Abstract!Recursive, Abstract!Contains, RecursiveAmong, HasField
    <3>3. RecursiveAmong(Objects)' <=> RecursiveAmong(Objects)
      BY <2>1 DEF RecursiveAmong, HasField
    <3>4. CASE outcome' = "accepted"
      <4>1. ~ RecursiveAmong(Objects)
        BY <3>3, <3>4 DEF AcceptedIsAcyclic
      <4>2. verdict' = "accepted"
        BY <3>4 DEF verdict
      <4>. QED BY <2>1, <3>1, <3>2, <4>1, <4>2 DEF Abstract!Decide
    <3>5. CASE outcome' \in {"cyclic_structs", "reported"}
      <4>1. RecursiveAmong(Objects)
        BY <3>3, <3>5 DEF RejectedIsRecursive
      <4>2. verdict' = "rejected"
        BY <3>5 DEF verdict
      <4>. QED BY <2>1, <3>1, <3>2, <4>1, <4>2 DEF Abstract!Decide
    <3>6. CASE outcome' = "walking"
      BY <2>1, <3>1, <3>6 DEF verdict
    <3>. QED BY <3>4, <3>5, <3>6 DEF IInv, TypeOK, Outcomes
  <2>. QED BY <2>2, <2>3
<1>. QED BY <1>1, <1>2, Invariance, AcceptedIsAcyclicHolds, RejectedIsRecursiveHolds, PTL
     DEF Spec, ImplementsVerdict, Abstract!Spec
============================================================================

------------------------- MODULE InheritanceProofs -------------------------
(***************************************************************************)
(* Proofs about Inheritance, for every finite set of objects, every        *)
(* inheritance relation and all lists of members and operations.           *)
(***************************************************************************)
EXTENDS Inheritance, SequenceFacts

(* Generation, for a relation that need not be the current one. *)
Parent(parents, y) == IF y \in Objects THEN parents[y] ELSE None
Up(parents, x) ==
  LET up[n \in Nat] ==
        IF n = 0 THEN x
        ELSE IF up[n - 1] \in Objects THEN parents[up[n - 1]] ELSE None
  IN  up

LEMMA GenerationIsUp ==
  \A x : Generation(x) = Up(inheritance, x)
BY DEF Generation, Up

UpTo(up, parents, x, max) ==
  /\ up = [n \in 0 .. max |-> up[n]]
  /\ up[0] = x
  /\ \A n \in 1 .. max : up[n] = Parent(parents, up[n - 1])

LEMMA UpToExists ==
  ASSUME NEW parents, NEW x, NEW max \in Nat
  PROVE  \E up : UpTo(up, parents, x, max)
<1>. DEFINE T == {m \in Nat : \E up : UpTo(up, parents, x, m)}
<1>1. 0 \in T
  <2>1. UpTo([n \in 0 .. 0 |-> x], parents, x, 0)
    BY DEF UpTo
  <2>. QED BY <2>1
<1>2. ASSUME NEW m \in Nat, m \in T
      PROVE  m + 1 \in T
  <2>1. PICK up : UpTo(up, parents, x, m)
    BY <1>2
  <2>. DEFINE longer == [n \in 0 .. m + 1 |-> IF n = m + 1 THEN Parent(parents, up[m])
                                              ELSE up[n]]
  <2>2. longer = [n \in 0 .. m + 1 |-> longer[n]]
    OBVIOUS
  <2>3. /\ longer[m + 1] = Parent(parents, up[m])
        /\ \A n \in 0 .. m : longer[n] = up[n]
    OBVIOUS
  <2>. HIDE DEF longer
  <2>4. \A n \in 1 .. m + 1 : longer[n] = Parent(parents, longer[n - 1])
    <3>. SUFFICES ASSUME NEW n \in 1 .. m + 1
                  PROVE  longer[n] = Parent(parents, longer[n - 1])
      OBVIOUS
    <3>1. CASE n = m + 1
      <4>1. n - 1 = m /\ m \in 0 .. m
        BY <3>1
      <4>. QED BY <3>1, <4>1, <2>3
    <3>2. CASE n # m + 1
      <4>1. n \in 1 .. m /\ n \in 0 .. m /\ n - 1 \in 0 .. m
        BY <3>2
      <4>. QED BY <4>1, <2>1, <2>3 DEF UpTo
    <3>. QED BY <3>1, <3>2
  <2>5. longer[0] = x
    <3>1. 0 \in 0 .. m
      OBVIOUS
    <3>. QED BY <3>1, <2>1, <2>3 DEF UpTo
  <2>6. UpTo(longer, parents, x, m + 1)
    BY <2>2, <2>4, <2>5 DEF UpTo
  <2>. QED BY <2>6
<1>. HIDE DEF T
<1>3. max \in T
  BY <1>1, <1>2, Induction
<1>. QED BY <1>3 DEF T

(* The recursive definition of the generations has a solution, and so they  *)
(* are what it says.                                                        *)
LEMMA UpFacts ==
  ASSUME NEW parents, NEW x
  PROVE  /\ Up(parents, x)[0] = x
         /\ \A n \in Nat : Up(parents, x)[n + 1] = Parent(parents, Up(parents, x)[n])
<1>. DEFINE to(m)   == CHOOSE up : UpTo(up, parents, x, m)
            T       == {k \in Nat : \A m \in Nat : k <= m => to(m)[k] = to(k)[k]}
            ups     == [n \in Nat |-> to(n)[n]]
            IsUp(f) == f = [n \in Nat |->
                              IF n = 0 THEN x
                              ELSE IF f[n - 1] \in Objects THEN parents[f[n - 1]] ELSE None]
<1>1. \A m \in Nat : UpTo(to(m), parents, x, m)
  BY UpToExists
<1>. HIDE DEF to
<1>2. \A m \in Nat : to(m)[0] = x
  BY <1>1 DEF UpTo
<1>3. \A m \in Nat : \A k \in Nat : k + 1 <= m => to(m)[k + 1] = Parent(parents, to(m)[k])
  <2>. SUFFICES ASSUME NEW m \in Nat, NEW k \in Nat, k + 1 <= m
                PROVE  to(m)[k + 1] = Parent(parents, to(m)[k])
    OBVIOUS
  <2>1. k + 1 \in 1 .. m /\ (k + 1) - 1 = k
    OBVIOUS
  <2>. QED BY <1>1, <2>1 DEF UpTo
<1>4. 0 \in T
  BY <1>2
<1>5. ASSUME NEW k \in Nat, k \in T
      PROVE  k + 1 \in T
  <2>. SUFFICES ASSUME NEW m \in Nat, k + 1 <= m
                PROVE  to(m)[k + 1] = to(k + 1)[k + 1]
    OBVIOUS
  <2>1. k <= m /\ k <= k + 1 /\ k + 1 \in Nat
    OBVIOUS
  <2>2. to(m)[k] = to(k)[k] /\ to(k + 1)[k] = to(k)[k]
    BY <1>5, <2>1
  <2>. QED BY <2>1, <2>2, <1>3
<1>6. Nat \subseteq T
  <2>. HIDE DEF T
  <2>. QED BY <1>4, <1>5, Induction
<1>7. \A k \in Nat : to(k + 1)[k] = to(k)[k]
  BY <1>6
<1>. HIDE DEF T
<1>8. /\ ups[0] = x
      /\ \A n \in Nat : ups[n + 1] = Parent(parents, ups[n])
  BY <1>2, <1>3, <1>7
<1>9. ups = [n \in Nat |-> ups[n]]
  OBVIOUS
<1>. HIDE DEF ups
<1>10. \A n \in Nat : ups[n] = IF n = 0 THEN x
                               ELSE IF ups[n - 1] \in Objects THEN parents[ups[n - 1]]
                               ELSE None
  <2>. SUFFICES ASSUME NEW n \in Nat, n # 0
                PROVE  ups[n] = IF ups[n - 1] \in Objects THEN parents[ups[n - 1]] ELSE None
    BY <1>8
  <2>1. n - 1 \in Nat /\ (n - 1) + 1 = n
    OBVIOUS
  <2>. QED BY <1>8, <2>1 DEF Parent
<1>11. IsUp(ups)
  BY <1>9, <1>10
<1>12. Up(parents, x) = CHOOSE f : IsUp(f)
  BY DEF Up
<1>13. IsUp(Up(parents, x))
  <2>. HIDE DEF IsUp
  <2>. QED BY <1>11, <1>12
<1>14. \A n \in Nat : Up(parents, x)[n] =
          IF n = 0 THEN x
          ELSE IF Up(parents, x)[n - 1] \in Objects THEN parents[Up(parents, x)[n - 1]]
          ELSE None
  BY <1>13
<1>15. \A n \in Nat : n + 1 \in Nat /\ n + 1 # 0 /\ (n + 1) - 1 = n
  OBVIOUS
<1>. QED BY <1>14, <1>15 DEF Parent

(* The generations above an ancestor are the higher ones. *)
LEMMA UpAbove ==
  ASSUME NEW parents, NEW x, NEW m \in Nat, NEW n \in Nat
  PROVE  Up(parents, x)[m + n] = Up(parents, Up(parents, x)[m])[n]
<1>. DEFINE y == Up(parents, x)[m]
            T == {k \in Nat : Up(parents, x)[m + k] = Up(parents, y)[k]}
<1>1. 0 \in T
  BY UpFacts
<1>2. ASSUME NEW k \in Nat, k \in T
      PROVE  k + 1 \in T
  <2>1. m + k \in Nat /\ (m + k) + 1 = m + (k + 1)
    OBVIOUS
  <2>2. Up(parents, x)[(m + k) + 1] = Parent(parents, Up(parents, x)[m + k])
    BY <2>1, UpFacts
  <2>. HIDE DEF y
  <2>3. Up(parents, y)[k + 1] = Parent(parents, Up(parents, y)[k])
    BY UpFacts
  <2>. QED BY <1>2, <2>1, <2>2, <2>3
<1>3. n \in T
  <2>. HIDE DEF T
  <2>. QED BY <1>1, <1>2, Induction
<1>. QED BY <1>3

LEMMA UpOfParent ==
  ASSUME NEW parents, NEW x \in Objects, NEW n \in Nat
  PROVE  Up(parents, x)[n + 1] = Up(parents, parents[x])[n]
<1>1. Up(parents, x)[1] = parents[x]
  <2>1. Up(parents, x)[0 + 1] = Parent(parents, Up(parents, x)[0])
    BY UpFacts
  <2>. QED BY <2>1, UpFacts DEF Parent
<1>2. Up(parents, x)[1 + n] = Up(parents, Up(parents, x)[1])[n]
  BY UpAbove
<1>3. 1 + n = n + 1
  OBVIOUS
<1>. QED BY <1>1, <1>2, <1>3

(* Below an object there are only objects: nothing is above what is none. *)
LEMMA UpBelow ==
  ASSUME NEW parents, NEW x, NEW n \in Nat, Up(parents, x)[n] \in Objects,
         NEW k \in 0 .. n
  PROVE  Up(parents, x)[k] \in Objects
<1>. DEFINE T == {d \in Nat : d <= n => Up(parents, x)[n - d] \in Objects}
<1>1. 0 \in T
  OBVIOUS
<1>2. ASSUME NEW d \in Nat, d \in T
      PROVE  d + 1 \in T
  <2>. SUFFICES ASSUME d + 1 <= n
                PROVE  Up(parents, x)[n - (d + 1)] \in Objects
    OBVIOUS
  <2>1. n - (d + 1) \in Nat /\ (n - (d + 1)) + 1 = n - d
    OBVIOUS
  <2>2. Up(parents, x)[n - d] \in Objects
    BY <1>2
  <2>3. Up(parents, x)[n - d] = Parent(parents, Up(parents, x)[n - (d + 1)])
    BY <2>1, UpFacts
  <2>. QED BY <2>2, <2>3, NoneAssumption DEF Parent
<1>3. n - k \in Nat /\ n - k <= n /\ n - (n - k) = k
  OBVIOUS
<1>4. n - k \in T
  <2>. HIDE DEF T
  <2>. QED BY <1>1, <1>2, <1>3, Induction
<1>. QED BY <1>3, <1>4

(* y first appears in the n-th generation above x *)
IsFirst(parents, x, y, n) ==
  /\ Up(parents, x)[n] = y
  /\ \A k \in 0 .. n - 1 : Up(parents, x)[k] # y

LEMMA FirstExists ==
  ASSUME NEW parents, NEW x, NEW y, NEW n \in Nat, Up(parents, x)[n] = y
  PROVE  \E m \in 0 .. n : IsFirst(parents, x, y, m)
<1>. DEFINE T == {m \in Nat : Up(parents, x)[m] = y}
<1>1. T \subseteq Nat /\ n \in T
  OBVIOUS
<1>2. PICK m \in T : \A k \in T : m <= k
  BY <1>1, LeastNumber
<1>3. m \in 0 .. n /\ Up(parents, x)[m] = y
  BY <1>1, <1>2
<1>4. \A k \in 0 .. m - 1 : k \in Nat /\ ~ (m <= k)
  BY <1>3
<1>5. \A k \in 0 .. m - 1 : Up(parents, x)[k] # y
  BY <1>2, <1>4
<1>. QED BY <1>3, <1>5 DEF IsFirst

(* There are no more generations up to an object's first appearance than    *)
(* objects, because all of them are different.                              *)
LEMMA FirstIsBounded ==
  ASSUME NEW parents, NEW x, NEW y \in Objects, NEW n \in Nat, IsFirst(parents, x, y, n)
  PROVE  n + 1 <= Cardinality(Objects)
<1>1. IsFiniteSet(0 .. n) /\ Cardinality(0 .. n) = n + 1
  BY FS_Interval
<1>2. IsFiniteSet(Objects) /\ Cardinality(Objects) \in Nat
  BY ObjectsAssumption, FS_CardinalityType
<1>. SUFFICES ASSUME Cardinality(Objects) < Cardinality(0 .. n)
              PROVE  FALSE
  BY <1>1, <1>2
<1>. DEFINE f == [k \in 0 .. n |-> Up(parents, x)[k]]
<1>3. f \in [0 .. n -> Objects]
  BY UpBelow DEF IsFirst
<1>4. PICK i \in 0 .. n, j \in 0 .. n : i # j /\ f[i] = f[j]
  <2>. HIDE DEF f
  <2>. QED BY <1>1, <1>2, <1>3, FS_PigeonHole
<1>5. ASSUME NEW k \in 0 .. n, NEW l \in 0 .. n, k < l,
             Up(parents, x)[k] = Up(parents, x)[l]
      PROVE  FALSE
  <2>1. n - l \in Nat /\ l + (n - l) = n /\ k + (n - l) \in 0 .. n - 1
    BY <1>5
  <2>2. \A d \in Nat : Up(parents, x)[k + d] = Up(parents, x)[l + d]
    <3>. TAKE d \in Nat
    <3>1. k \in Nat /\ l \in Nat
      OBVIOUS
    <3>2. /\ Up(parents, x)[k + d] = Up(parents, Up(parents, x)[k])[d]
          /\ Up(parents, x)[l + d] = Up(parents, Up(parents, x)[l])[d]
      BY <3>1, UpAbove
    <3>. QED BY <1>5, <3>2
  <2>. QED BY <2>1, <2>2 DEF IsFirst
<1>6. Up(parents, x)[i] = Up(parents, x)[j]
  BY <1>4
<1>. QED BY <1>4, <1>5, <1>6

----------------------------------------------------------------------------
(* What is above an object. *)

Above(parents, x, y) == \E n \in Nat : Up(parents, x)[n + 1] = y

LEMMA AboveIsAncestor ==
  ASSUME NEW x \in Objects, NEW y \in Objects
  PROVE  Above(inheritance, x, y) <=> IsAncestor(x, y)
<1>1. Cardinality(Objects) \in Nat
  BY ObjectsAssumption, FS_CardinalityType
<1>2. ASSUME IsAncestor(x, y)
      PROVE  Above(inheritance, x, y)
  <2>1. PICK n \in 1 .. Cardinality(Objects) : Up(inheritance, x)[n] = y
    BY <1>2, GenerationIsUp DEF IsAncestor
  <2>2. n - 1 \in Nat /\ (n - 1) + 1 = n
    BY <1>1
  <2>. QED BY <2>1, <2>2 DEF Above
<1>3. ASSUME Above(inheritance, x, y)
      PROVE  IsAncestor(x, y)
  <2>1. PICK n \in Nat : Up(inheritance, inheritance[x])[n] = y
    BY <1>3, UpOfParent DEF Above
  <2>2. PICK m \in 0 .. n : IsFirst(inheritance, inheritance[x], y, m)
    BY <2>1, FirstExists
  <2>3. m \in Nat /\ m + 1 \in 1 .. Cardinality(Objects)
    <3>1. m \in Nat
      OBVIOUS
    <3>. QED BY <1>1, <2>2, <3>1, FirstIsBounded
  <2>4. Up(inheritance, x)[m + 1] = y
    BY <2>2, <2>3, UpOfParent DEF IsFirst
  <2>. QED BY <2>3, <2>4, GenerationIsUp DEF IsAncestor
<1>. QED BY <1>2, <1>3

----------------------------------------------------------------------------
(* A name is found in the nearest object that defines it: in the object     *)
(* itself, or else where its parent finds it.  own: the pairs <<object,     *)
(* name>> such that the object itself defines the name.                     *)

Nearest(parents, own, x, f) ==
  /\ f \in own
  /\ \E n \in Nat : /\ Up(parents, x)[n] = f[1]
                    /\ \A k \in 0 .. n - 1 : <<Up(parents, x)[k], f[2]>> \notin own

LEMMA NearestStep ==
  ASSUME NEW parents, NEW own \in SUBSET Fields, NEW x \in Objects, NEW f \in Fields
  PROVE  Nearest(parents, own, x, f)
           <=> \/ f \in own /\ f[1] = x
               \/ <<x, f[2]>> \notin own /\ Nearest(parents, own, parents[x], f)
<1>1. Up(parents, x)[0] = x
  BY UpFacts
<1>2. \A n \in Nat : Up(parents, x)[n + 1] = Up(parents, parents[x])[n]
  BY UpOfParent
<1>3. f = <<f[1], f[2]>>
  BY DEF Fields
<1>4. ASSUME Nearest(parents, own, x, f), ~ (f[1] = x)
      PROVE  <<x, f[2]>> \notin own /\ Nearest(parents, own, parents[x], f)
  <2>1. PICK n \in Nat : /\ Up(parents, x)[n] = f[1]
                         /\ \A k \in 0 .. n - 1 : <<Up(parents, x)[k], f[2]>> \notin own
    BY <1>4 DEF Nearest
  <2>2. n # 0
    BY <1>1, <1>4, <2>1
  <2>3. n - 1 \in Nat /\ (n - 1) + 1 = n /\ 0 \in 0 .. n - 1
    BY <2>2
  <2>4. Up(parents, parents[x])[n - 1] = f[1]
    BY <1>2, <2>1, <2>3
  <2>5. \A k \in 0 .. (n - 1) - 1 : <<Up(parents, parents[x])[k], f[2]>> \notin own
    <3>. TAKE k \in 0 .. (n - 1) - 1
    <3>1. k \in Nat /\ k + 1 \in 0 .. n - 1
      BY <2>3
    <3>. QED BY <1>2, <2>1, <3>1
  <2>. QED BY <1>1, <1>4, <2>1, <2>3, <2>4, <2>5 DEF Nearest
<1>5. ASSUME f \in own, f[1] = x
      PROVE  Nearest(parents, own, x, f)
  <2>1. \A k \in 0 .. 0 - 1 : FALSE
    OBVIOUS
  <2>. QED BY <1>1, <1>5, <2>1 DEF Nearest
<1>6. ASSUME <<x, f[2]>> \notin own, Nearest(parents, own, parents[x], f)
      PROVE  Nearest(parents, own, x, f)
  <2>1. PICK n \in Nat :
           /\ Up(parents, parents[x])[n] = f[1]
           /\ \A k \in 0 .. n - 1 : <<Up(parents, parents[x])[k], f[2]>> \notin own
    BY <1>6 DEF Nearest
  <2>2. \A k \in 0 .. (n + 1) - 1 : <<Up(parents, x)[k], f[2]>> \notin own
    <3>. TAKE k \in 0 .. (n + 1) - 1
    <3>1. CASE k = 0
      BY <1>1, <1>6, <3>1
    <3>2. CASE k # 0
      <4>1. k - 1 \in 0 .. n - 1 /\ k - 1 \in Nat /\ (k - 1) + 1 = k
        BY <3>2
      <4>. QED BY <1>2, <2>1, <4>1
    <3>. QED BY <3>1, <3>2
  <2>3. Up(parents, x)[n + 1] = f[1] /\ n + 1 \in Nat
    BY <1>2, <2>1
  <2>. QED BY <1>6, <2>2, <2>3 DEF Nearest
<1>7. Nearest(parents, own, x, f) => f \in own
  BY DEF Nearest
<1>. QED BY <1>4, <1>5, <1>6, <1>7

(* Nothing is found in what is not an object. *)
LEMMA NearestOfNone ==
  ASSUME NEW parents, NEW own \in SUBSET Fields, NEW y, y \notin Objects, NEW f \in Fields
  PROVE  ~ Nearest(parents, own, y, f)
<1>. SUFFICES ASSUME Nearest(parents, own, y, f)
              PROVE  FALSE
  OBVIOUS
<1>1. PICK n \in Nat : Up(parents, y)[n] = f[1]
  BY DEF Nearest
<1>2. f[1] \in Objects
  BY DEF Fields
<1>3. Up(parents, y)[0] \in Objects
  <2>1. 0 \in 0 .. n
    OBVIOUS
  <2>. QED BY <1>1, <1>2, <2>1, UpBelow
<1>. QED BY <1>3, UpFacts

----------------------------------------------------------------------------
(* What the lists of fields hold, while the objects in `defined` are done.  *)

OwnOf(lists) == {f \in Fields : f \in ToSet(lists[f[1]])}

NamesDiffer(list) ==
  \A i, j \in 1 .. Len(list) : i < j => list[i][2] # list[j][2]

(* "earliest parent first" *)
Ordered(parents, list) ==
  \A i, j \in 1 .. Len(list) :
     i < j => list[i][1] = list[j][1] \/ Above(parents, list[j][1], list[i][1])

FieldLists(parents, lists, defined) ==
  /\ \A x \in Objects : NamesDiffer(lists[x])
  /\ \A x \in Objects : Ordered(parents, lists[x])
  /\ \A x \in Objects : ToSet(lists[x]) \subseteq OwnOf(lists)
  /\ \A x \in Objects \ defined : \A f \in ToSet(lists[x]) : f[1] = x
  /\ \A x \in defined : ToSet(lists[x]) = {f \in Fields : Nearest(parents, OwnOf(lists), x, f)}

(* An object without a parent is done as it is. *)
LEMMA FieldsOfARoot ==
  ASSUME NEW parents, NEW lists \in [Objects -> Seq(Fields)], NEW defined \in SUBSET Objects,
         NEW to \in Objects \ defined, parents[to] = None, FieldLists(parents, lists, defined)
  PROVE  FieldLists(parents, lists, defined \cup {to})
<1>. DEFINE own == OwnOf(lists)
<1>1. own \in SUBSET Fields /\ ToSet(lists[to]) \subseteq own
  BY DEF FieldLists, OwnOf
<1>2. \A f \in ToSet(lists[to]) : f[1] = to
  BY DEF FieldLists
<1>3. \A f \in own : f[1] = to => f \in ToSet(lists[to])
  BY DEF OwnOf
<1>. HIDE DEF own
<1>4. \A f \in Fields : Nearest(parents, own, to, f) <=> f \in own /\ f[1] = to
  BY ZenonT(40), <1>1, NearestStep, NearestOfNone, NoneAssumption
<1>5. ToSet(lists[to]) = {f \in Fields : Nearest(parents, own, to, f)}
  BY <1>1, <1>2, <1>3, <1>4
<1>. QED BY <1>5 DEF FieldLists, own

(* An object whose parent is done, but which is not. *)
IsHeir(parents, defined, to, from) ==
  to \in Objects \ defined /\ from \in defined /\ parents[to] = from

(* What augment_thing makes of such an object. *)
FieldsAfter(lists, to, from) ==
  [lists EXCEPT ![to] = LackingFields(lists[from], lists[to]) \o lists[to]]

LEMMA FieldsOfAnHeir ==
  ASSUME NEW parents, NEW lists \in [Objects -> Seq(Fields)], NEW defined \in SUBSET Objects,
         NEW to, NEW from, IsHeir(parents, defined, to, from),
         FieldLists(parents, lists, defined)
  PROVE  /\ LackingFields(lists[from], lists[to]) \in Seq(Fields)
         /\ ToSet(LackingFields(lists[from], lists[to])) \subseteq ToSet(lists[from])
         /\ FieldsAfter(lists, to, from) \in [Objects -> Seq(Fields)]
         /\ FieldLists(parents, FieldsAfter(lists, to, from), defined \cup {to})
<1>0. /\ to \in Objects \ defined /\ from \in defined /\ parents[to] = from
      /\ to \in Objects /\ from \in Objects
  BY DEF IsHeir
<1>. USE <1>0
<1>. DEFINE theirs == lists[from]
            ours   == lists[to]
            Lacked == {f \in ToSet(theirs) : f[2] \notin NamesOf(ours)}
            new    == Kept(theirs, Lacked)
            own    == OwnOf(lists)
            after  == FieldsAfter(lists, to, from)
<1>1. /\ theirs \in Seq(Fields) /\ ours \in Seq(Fields) /\ from \in Objects /\ from # to
      /\ LackingFields(lists[from], lists[to]) = new
      /\ to \in Objects /\ after = [lists EXCEPT ![to] = new \o ours]
  BY <1>0 DEF LackingFields, FieldsAfter
<1>2. /\ own \in SUBSET Fields
      /\ \A x \in Objects : ToSet(lists[x]) \subseteq own
      /\ \A f \in ToSet(ours) : f[1] = to
      /\ \A f \in own : f \in ToSet(lists[f[1]])
      /\ ToSet(theirs) = {f \in Fields : Nearest(parents, own, from, f)}
  BY <1>0, <1>1 DEF FieldLists, OwnOf
<1>3. NamesDiffer(theirs) /\ NamesDiffer(ours) /\ Ordered(parents, theirs) /\ Ordered(parents, ours)
  BY <1>1 DEF FieldLists
<1>4. \A name : name \in NamesOf(ours) <=> \E f \in ToSet(ours) : f[2] = name
  BY DEF NamesOf, ToSet
<1>. HIDE DEF own, after
<1>5. new \in Seq(Fields)
  <2>. HIDE DEF Lacked
  <2>. QED BY <1>1, KeptPlaces
<1>6. ToSet(new) = Lacked
  <2>1. ToSet(new) = ToSet(theirs) \cap Lacked
    <3>. HIDE DEF Lacked
    <3>. QED BY <1>1, MembersOfKept
  <2>. QED BY <2>1
<1>. HIDE DEF new
<1>7. new \o ours \in Seq(Fields) /\ ToSet(new \o ours) = Lacked \cup ToSet(ours)
  BY <1>1, <1>5, <1>6, ConcatProperties, MembersOfConcat
<1>8. /\ after \in [Objects -> Seq(Fields)]
      /\ after[to] = new \o ours
      /\ \A x \in Objects : x # to => after[x] = lists[x]
  BY <1>1, <1>7
<1>9. \A f \in Lacked : f \in own /\ f[1] # to /\ f[2] \notin NamesOf(ours)
  <2>. TAKE f \in Lacked
  <2>1. f \in own /\ f \in ToSet(theirs)
    BY <1>1, <1>2
  <2>2. f[1] = to => f \in ToSet(ours)
    BY <1>2, <2>1
  <2>. QED BY <1>4, <2>1, <2>2
<1>10. OwnOf(after) = own
  <2>1. ASSUME NEW f \in Fields
        PROVE  f \in ToSet(after[f[1]]) <=> f \in ToSet(lists[f[1]])
    <3>1. f[1] \in Objects
      BY DEF Fields
    <3>2. CASE f[1] = to
      BY <1>7, <1>8, <1>9, <3>2
    <3>3. CASE f[1] # to
      BY <1>8, <3>1, <3>3
    <3>. QED BY <3>2, <3>3
  <2>. QED BY <2>1 DEF OwnOf, own
<1>17. ConcatPairs(new \o ours, new, ours)
  BY <1>1, <1>5, PairsOfConcat
<1>11. NamesDiffer(after[to])
  <2>. SUFFICES ASSUME NEW i \in 1 .. Len(new \o ours), NEW j \in 1 .. Len(new \o ours), i < j
                PROVE  (new \o ours)[i][2] # (new \o ours)[j][2]
    BY <1>8 DEF NamesDiffer
  <2>1. ASSUME NEW k \in 1 .. Len(new), NEW l \in 1 .. Len(new), k < l
        PROVE  new[k][2] # new[l][2]
    <3>1. \E m, n \in 1 .. Len(theirs) : m < n /\ new[k] = theirs[m] /\ new[l] = theirs[n]
      <4>1. InOrder(new, theirs)
        <5>. HIDE DEF Lacked
        <5>. QED BY <1>1, KeptInOrder DEF new
      <4>. QED BY <2>1, <4>1 DEF InOrder
    <3>. QED BY <3>1, <1>3 DEF NamesDiffer
  <2>2. ASSUME NEW f \in ToSet(new), NEW g \in ToSet(ours)
        PROVE  f[2] # g[2]
    BY <1>4, <1>6, <1>9
  <2>. DEFINE both == new \o ours
  <2>3. \/ \E k, l \in 1 .. Len(new) : k < l /\ both[i] = new[k] /\ both[j] = new[l]
        \/ both[i] \in ToSet(new) /\ both[j] \in ToSet(ours)
        \/ \E k, l \in 1 .. Len(ours) : k < l /\ both[i] = ours[k] /\ both[j] = ours[l]
    BY <1>17 DEF ConcatPairs
  <2>4. \A k, l \in 1 .. Len(ours) : k < l => ours[k][2] # ours[l][2]
    BY <1>3 DEF NamesDiffer
  <2>. HIDE DEF both, ours, Lacked
  <2>5. both[i][2] # both[j][2]
    BY <2>1, <2>2, <2>3, <2>4
  <2>. QED BY <2>5 DEF both
<1>12. Ordered(parents, after[to])
  <2>. SUFFICES ASSUME NEW i \in 1 .. Len(new \o ours), NEW j \in 1 .. Len(new \o ours), i < j
                PROVE  \/ (new \o ours)[i][1] = (new \o ours)[j][1]
                       \/ Above(parents, (new \o ours)[j][1], (new \o ours)[i][1])
    BY ZenonT(40), <1>8 DEF Ordered
  <2>1. ASSUME NEW k \in 1 .. Len(new), NEW l \in 1 .. Len(new), k < l
        PROVE  new[k][1] = new[l][1] \/ Above(parents, new[l][1], new[k][1])
    <3>1. \E m, n \in 1 .. Len(theirs) : m < n /\ new[k] = theirs[m] /\ new[l] = theirs[n]
      <4>1. InOrder(new, theirs)
        <5>. HIDE DEF Lacked
        <5>. QED BY <1>1, KeptInOrder DEF new
      <4>. QED BY <2>1, <4>1 DEF InOrder
    <3>. QED BY <3>1, <1>3 DEF Ordered
  <2>2. ASSUME NEW f \in ToSet(new), NEW g \in ToSet(ours)
        PROVE  f[1] = g[1] \/ Above(parents, g[1], f[1])
    <3>1. g[1] = to /\ f \in Fields /\ Nearest(parents, own, from, f)
      BY <1>2, <1>6
    <3>2. PICK n \in Nat : Up(parents, from)[n] = f[1]
      BY <3>1 DEF Nearest
    <3>3. Up(parents, to)[n + 1] = f[1]
      BY <3>2, UpOfParent
    <3>. QED BY <3>1, <3>3 DEF Above
  <2>. DEFINE both == new \o ours
  <2>3. \/ \E k, l \in 1 .. Len(new) : k < l /\ both[i] = new[k] /\ both[j] = new[l]
        \/ both[i] \in ToSet(new) /\ both[j] \in ToSet(ours)
        \/ \E k, l \in 1 .. Len(ours) : k < l /\ both[i] = ours[k] /\ both[j] = ours[l]
    BY <1>17 DEF ConcatPairs
  <2>4. \A k, l \in 1 .. Len(ours) : k < l => 
                ours[k][1] = ours[l][1] \/ Above(parents, ours[l][1], ours[k][1])
    BY <1>3 DEF Ordered
  <2>. HIDE DEF both, ours, Lacked
  <2>5. both[i][1] = both[j][1] \/ Above(parents, both[j][1], both[i][1])
    <3>1. CASE \E k, l \in 1 .. Len(new) : k < l /\ both[i] = new[k] /\ both[j] = new[l]
      <4>1. PICK k \in 1 .. Len(new), l \in 1 .. Len(new) :
               k < l /\ both[i] = new[k] /\ both[j] = new[l]
        BY <3>1
      <4>2. new[k][1] = new[l][1] \/ Above(parents, new[l][1], new[k][1])
        BY <2>1, <4>1
      <4>. QED BY <4>1, <4>2
    <3>2. CASE both[i] \in ToSet(new) /\ both[j] \in ToSet(ours)
      BY <2>2, <3>2
    <3>3. CASE \E k, l \in 1 .. Len(ours) : k < l /\ both[i] = ours[k] /\ both[j] = ours[l]
      <4>1. PICK k \in 1 .. Len(ours), l \in 1 .. Len(ours) :
               k < l /\ both[i] = ours[k] /\ both[j] = ours[l]
        BY <3>3
      <4>2. ours[k][1] = ours[l][1] \/ Above(parents, ours[l][1], ours[k][1])
        BY <2>4, <4>1
      <4>. QED BY <4>1, <4>2
    <3>. QED BY <2>3, <3>1, <3>2, <3>3
  <2>. QED BY <2>5 DEF both
<1>13. ToSet(after[to]) = {f \in Fields : Nearest(parents, own, to, f)}
  <2>. SUFFICES ASSUME NEW f \in Fields
                PROVE  f \in ToSet(after[to]) <=> Nearest(parents, own, to, f)
    <3>1. ToSet(after[to]) \subseteq Fields
      BY <1>8, Members
    <3>. QED BY <3>1
  <2>1. Nearest(parents, own, to, f)
           <=> \/ f \in own /\ f[1] = to
               \/ <<to, f[2]>> \notin own /\ Nearest(parents, own, from, f)
    BY <1>2, NearestStep
  <2>2. f \in own /\ f[1] = to <=> f \in ToSet(ours)
    BY <1>1, <1>2
  <2>3. <<to, f[2]>> \in own <=> f[2] \in NamesOf(ours)
    <3>1. <<to, f[2]>> \in Fields /\ <<to, f[2]>>[1] = to
      BY DEF Fields
    <3>2. <<to, f[2]>> \in own => <<to, f[2]>> \in ToSet(ours)
      BY <1>2, <3>1
    <3>3. ASSUME NEW g \in ToSet(ours), g[2] = f[2]
          PROVE  <<to, f[2]>> \in own
      <4>1. g \in Fields /\ g[1] = to /\ g \in own
        BY <1>1, <1>2
      <4>2. g = <<to, f[2]>>
        BY <3>3, <4>1 DEF Fields
      <4>. QED BY <4>1, <4>2
    <3>. QED BY <1>4, <3>1, <3>2, <3>3
  <2>4. f \in Lacked <=> Nearest(parents, own, from, f) /\ f[2] \notin NamesOf(ours)
    BY <1>2
  <2>. QED BY <1>7, <1>8, <2>1, <2>2, <2>3, <2>4
<1>14. \A x \in Objects : ToSet(after[x]) \subseteq own
  <2>. TAKE x \in Objects
  <2>1. CASE x = to
    <3>1. \A f \in ToSet(after[to]) : f \in own
      BY <1>13 DEF Nearest
    <3>. QED BY <2>1, <3>1
  <2>2. CASE x # to
    BY <1>2, <1>8, <2>2
  <2>. QED BY <2>1, <2>2
<1>15. FieldLists(parents, after, defined \cup {to})
  <2>1. \A x \in Objects : NamesDiffer(after[x]) /\ Ordered(parents, after[x])
    BY <1>8, <1>11, <1>12 DEF FieldLists
  <2>2. \A x \in Objects \ (defined \cup {to}) : \A f \in ToSet(after[x]) : f[1] = x
    BY <1>8 DEF FieldLists
  <2>3. \A x \in defined \cup {to} :
           ToSet(after[x]) = {f \in Fields : Nearest(parents, own, x, f)}
    <3>1. \A x \in defined : ToSet(lists[x]) = {f \in Fields : Nearest(parents, own, x, f)}
      BY DEF FieldLists, own
    <3>2. \A x \in defined : after[x] = lists[x]
      BY <1>8
    <3>. QED BY <1>13, <3>1, <3>2
  <2>. QED BY <1>10, <1>14, <2>1, <2>2, <2>3 DEF FieldLists
<1>16. ToSet(new) \subseteq ToSet(theirs)
  BY <1>6
<1>. QED BY <1>1, <1>5, <1>8, <1>15, <1>16 DEF after

----------------------------------------------------------------------------
(* What the lists of operations hold, while the objects in `defined` are    *)
(* done.  A handler is the pair of the interface that generates it and the  *)
(* operation's name.                                                        *)

AllOperations == OperationsOf(Objects \cup {None})
Handler(x, o) == <<HandlerOwner(x, o), o.operationName>>
OwnHandlers(lists) ==
  {h \in Fields : \E o \in ToSet(lists[h[1]]) :
                     ~ o.inherited_operation /\ o.operationName = h[2]}

OperationsDiffer(list) ==
  \A i, j \in 1 .. Len(list) : i < j => list[i].operationName # list[j].operationName

OperationLists(parents, lists, defined) ==
  /\ \A x \in Objects : OperationsDiffer(lists[x])
  /\ \A x \in Objects : \A o \in ToSet(lists[x]) :
        /\ ~ o.inherited_operation => o.interfaceName = x
        /\ Handler(x, o) \in OwnHandlers(lists)
  /\ \A x \in Objects \ defined : \A o \in ToSet(lists[x]) : ~ o.inherited_operation
  /\ \A x \in defined : \A h \in Fields :
        Nearest(parents, OwnHandlers(lists), x, h)
          => \E o \in ToSet(lists[x]) : Handler(x, o) = h

LEMMA OwnOperationsAreFound ==
  ASSUME NEW lists, NEW to, NEW h \in OwnHandlers(lists), h[1] = to
  PROVE  \E o \in ToSet(lists[to]) : Handler(to, o) = h
<1>1. h \in Fields /\ h = <<to, h[2]>>
  BY DEF OwnHandlers, Fields
<1>2. PICK o \in ToSet(lists[to]) : ~ o.inherited_operation /\ o.operationName = h[2]
  BY DEF OwnHandlers
<1>3. Handler(to, o) = <<to, h[2]>>
  BY <1>2 DEF Handler, HandlerOwner
<1>. QED BY <1>1, <1>2, <1>3

LEMMA OperationsOfARoot ==
  ASSUME NEW parents, NEW lists \in [Objects -> Seq(AllOperations)],
         NEW defined \in SUBSET Objects, NEW to \in Objects \ defined, parents[to] = None,
         OperationLists(parents, lists, defined)
  PROVE  OperationLists(parents, lists, defined \cup {to})
<1>. DEFINE own == OwnHandlers(lists)
<1>1. own \in SUBSET Fields
  BY DEF OwnHandlers
<1>2. \A h \in own : h[1] = to => \E o \in ToSet(lists[to]) : Handler(to, o) = h
  <2>. TAKE h \in own
  <2>. HAVE h[1] = to
  <2>. QED BY OwnOperationsAreFound
<1>. HIDE DEF own
<1>3. \A h \in Fields : Nearest(parents, own, to, h) => h \in own /\ h[1] = to
  <2>. TAKE h \in Fields
  <2>1. ~ Nearest(parents, own, None, h)
    BY <1>1, NearestOfNone, NoneAssumption
  <2>. QED BY <1>1, <2>1, NearestStep
<1>4. \A h \in Fields : Nearest(parents, own, to, h)
                          => \E o \in ToSet(lists[to]) : Handler(to, o) = h
  BY <1>2, <1>3
<1>. QED BY <1>4 DEF OperationLists, own

LEMMA InheritedFacts ==
  ASSUME NEW o \in AllOperations
  PROVE  /\ Inherited(o) \in AllOperations
         /\ Inherited(o).inherited_operation
         /\ Inherited(o).operationName = o.operationName
         /\ Inherited(o).defining_interface = IF o.inherited_operation THEN o.defining_interface
                                              ELSE o.interfaceName
BY DEF AllOperations, OperationsOf, Inherited

OperationsAfter(lists, to, from) ==
  LET lacking == LackingOperations(lists[from], lists[to])
  IN  [lists EXCEPT ![to] = @ \o [i \in DOMAIN lacking |-> Inherited(lacking[i])]]

LEMMA OperationsOfAnHeir ==
  ASSUME NEW parents, NEW lists \in [Objects -> Seq(AllOperations)],
         NEW defined \in SUBSET Objects,
         NEW to, NEW from, IsHeir(parents, defined, to, from),
         OperationLists(parents, lists, defined)
  PROVE  /\ LackingOperations(lists[from], lists[to]) \in Seq(AllOperations)
         /\ OperationsAfter(lists, to, from) \in [Objects -> Seq(AllOperations)]
         /\ OperationLists(parents, OperationsAfter(lists, to, from), defined \cup {to})
<1>0. /\ to \in Objects \ defined /\ from \in defined /\ parents[to] = from
      /\ to \in Objects /\ from \in Objects
  BY DEF IsHeir
<1>. USE <1>0
<1>. DEFINE theirs == lists[from]
            ours   == lists[to]
            lacking == LackingOperations(theirs, ours)
            after   == OperationsAfter(lists, to, from)
            Lacked == {o \in ToSet(theirs) : o.operationName \notin OperationNames(ours)}
            new    == [i \in DOMAIN lacking |-> Inherited(lacking[i])]
            own    == OwnHandlers(lists)
<1>1. theirs \in Seq(AllOperations) /\ ours \in Seq(AllOperations)
      /\ from \in Objects /\ from # to /\ lacking = Kept(theirs, Lacked)
      /\ to \in Objects /\ after = [lists EXCEPT ![to] = ours \o new]
  BY <1>0 DEF LackingOperations, OperationsAfter
<1>2. /\ own \in SUBSET Fields
      /\ \A o \in ToSet(ours) : ~ o.inherited_operation
      /\ \A o \in ToSet(theirs) : /\ ~ o.inherited_operation => o.interfaceName = from
                                  /\ Handler(from, o) \in own
      /\ \A h \in Fields : Nearest(parents, own, from, h)
                             => \E o \in ToSet(theirs) : Handler(from, o) = h
  BY <1>0, <1>1 DEF OperationLists, OwnHandlers
<1>3. OperationsDiffer(theirs) /\ OperationsDiffer(ours)
  BY <1>1 DEF OperationLists
<1>4. \A name : name \in OperationNames(ours) <=> \E o \in ToSet(ours) : o.operationName = name
  BY DEF OperationNames, ToSet
<1>5. \A h \in own : h[1] = to => \E o \in ToSet(ours) : Handler(to, o) = h
  <2>. SUFFICES ASSUME NEW h \in OwnHandlers(lists), h[1] = to
                PROVE  \E o \in ToSet(ours) : Handler(to, o) = h
    OBVIOUS
  <2>. QED BY OwnOperationsAreFound
<1>. HIDE DEF own, lacking, after
<1>11. after = [lists EXCEPT ![to] = ours \o new]
  BY <1>1
<1>. HIDE DEF ours, theirs, Lacked
<1>6. lacking \in Seq(AllOperations)
  BY <1>1, KeptPlaces
<1>7. ToSet(lacking) = Lacked /\ Lacked \subseteq ToSet(theirs)
  <2>1. ToSet(lacking) = ToSet(theirs) \cap Lacked
    BY <1>1, MembersOfKept
  <2>. QED BY <2>1 DEF Lacked
<1>8. /\ DOMAIN lacking = 1 .. Len(lacking) /\ Len(lacking) \in Nat
      /\ \A i \in 1 .. Len(lacking) : lacking[i] \in AllOperations /\ lacking[i] \in Lacked
  BY <1>6, <1>7, Members
<1>9. /\ new \in Seq(AllOperations) /\ Len(new) = Len(lacking)
      /\ \A i \in 1 .. Len(new) : new[i] = Inherited(lacking[i])
  <2>1. \A i \in 1 .. Len(lacking) : Inherited(lacking[i]) \in AllOperations
    BY <1>8, InheritedFacts
  <2>2. new = [i \in 1 .. Len(lacking) |-> Inherited(lacking[i])]
    BY <1>8
  <2>. HIDE DEF new
  <2>3. new \in [1 .. Len(lacking) -> AllOperations]
    BY <2>1, <2>2
  <2>4. new \in Seq(AllOperations) /\ Len(new) = Len(lacking)
    BY <1>8, <2>3, TupleIsSeq
  <2>. QED BY <2>2, <2>4
<1>. HIDE DEF new
<1>10. \A o : o \in ToSet(new) <=> \E p \in Lacked : o = Inherited(p)
  <2>1. ASSUME NEW o \in ToSet(new)
        PROVE  \E p \in Lacked : o = Inherited(p)
    <3>1. PICK i \in 1 .. Len(new) : new[i] = o
      BY <1>9, Members
    <3>. QED BY <1>8, <1>9, <3>1
  <2>2. ASSUME NEW p \in Lacked
        PROVE  Inherited(p) \in ToSet(new)
    <3>1. PICK i \in 1 .. Len(lacking) : lacking[i] = p
      BY <1>6, <1>7, Members
    <3>2. new[i] = Inherited(p) /\ i \in 1 .. Len(new)
      BY <1>9, <3>1
    <3>. QED BY <1>9, <3>2, Members
  <2>. QED BY <2>1, <2>2
<1>19. ours \in Seq(AllOperations) /\ new \in Seq(AllOperations)
  BY <1>1, <1>9
<1>12. /\ after \in [Objects -> Seq(AllOperations)]
       /\ after[to] = ours \o new
       /\ \A x \in Objects : x # to => after[x] = lists[x]
       /\ ToSet(after[to]) = ToSet(ours) \cup ToSet(new)
  <2>1. ours \o new \in Seq(AllOperations)
    BY <1>19, ConcatProperties
  <2>2. ToSet(ours \o new) = ToSet(ours) \cup ToSet(new)
    BY <1>19, MembersOfConcat
  <2>. QED BY <1>11, <2>1, <2>2
<1>13. \A p \in Lacked : /\ Inherited(p).inherited_operation
                         /\ Inherited(p).operationName = p.operationName
                         /\ Handler(to, Inherited(p)) = Handler(from, p)
                         /\ Handler(from, p) \in own
  <2>. TAKE p \in Lacked
  <2>1. p \in AllOperations /\ p \in ToSet(theirs)
    BY <1>1, <1>7, Members
  <2>2. ~ p.inherited_operation => p.interfaceName = from
    BY <1>2, <2>1
  <2>3. Handler(from, p) \in own
    BY <1>2, <2>1
  <2>. QED BY <2>1, <2>2, <2>3, InheritedFacts DEF Handler, HandlerOwner
<1>14. OwnHandlers(after) = own
  <2>1. ASSUME NEW h \in Fields
        PROVE  (\E o \in ToSet(after[h[1]]) : ~ o.inherited_operation /\ o.operationName = h[2])
                 <=> (\E o \in ToSet(lists[h[1]]) :
                         ~ o.inherited_operation /\ o.operationName = h[2])
    <3>1. h[1] \in Objects
      BY DEF Fields
    <3>2. CASE h[1] = to
      <4>1. \A o \in ToSet(new) : o.inherited_operation
        <5>. TAKE o \in ToSet(new)
        <5>1. PICK p \in Lacked : o = Inherited(p)
          BY <1>10
        <5>. QED BY <1>13, <5>1
      <4>2. /\ ToSet(after[h[1]]) = ToSet(ours) \cup ToSet(new)
            /\ ToSet(lists[h[1]]) = ToSet(ours)
        BY <1>12, <3>2 DEF ours
      <4>. QED BY <4>1, <4>2
    <3>3. CASE h[1] # to
      BY <1>12, <3>1, <3>3
    <3>. QED BY <3>2, <3>3
  <2>. QED BY <2>1 DEF OwnHandlers, own
<1>15. OperationsDiffer(after[to])
  <2>1. ConcatPairs(ours \o new, ours, new)
    BY <1>19, PairsOfConcat
  <2>2. ASSUME NEW k \in 1 .. Len(new), NEW l \in 1 .. Len(new), k < l
        PROVE  new[k].operationName # new[l].operationName
    <3>1. \E m, n \in 1 .. Len(theirs) : m < n /\ lacking[k] = theirs[m] /\ lacking[l] = theirs[n]
      <4>1. k \in 1 .. Len(lacking) /\ l \in 1 .. Len(lacking)
        BY <1>9
      <4>2. InOrder(lacking, theirs)
        BY <1>1, KeptInOrder
      <4>. QED BY <2>2, <4>1, <4>2 DEF InOrder
    <3>2. lacking[k].operationName # lacking[l].operationName
      BY <3>1, <1>3 DEF OperationsDiffer
    <3>. QED BY <1>8, <1>9, <1>13, <3>2
  <2>3. ASSUME NEW o \in ToSet(ours), NEW p \in ToSet(new)
        PROVE  o.operationName # p.operationName
    <3>1. PICK q \in Lacked : p = Inherited(q)
      BY <1>10
    <3>2. p.operationName = q.operationName /\ q.operationName \notin OperationNames(ours)
      BY <1>13, <3>1 DEF Lacked
    <3>. QED BY <1>4, <3>2
  <2>. SUFFICES ASSUME NEW i \in 1 .. Len(ours \o new), NEW j \in 1 .. Len(ours \o new), i < j
                PROVE  (ours \o new)[i].operationName # (ours \o new)[j].operationName
    <3>1. SUFFICES OperationsDiffer(ours \o new)
      BY <1>12
    <3>. QED BY DEF OperationsDiffer
  <2>. DEFINE both == ours \o new
  <2>4. \/ \E k, l \in 1 .. Len(ours) : k < l /\ both[i] = ours[k] /\ both[j] = ours[l]
        \/ both[i] \in ToSet(ours) /\ both[j] \in ToSet(new)
        \/ \E k, l \in 1 .. Len(new) : k < l /\ both[i] = new[k] /\ both[j] = new[l]
    BY <2>1 DEF ConcatPairs
  <2>5. \A k, l \in 1 .. Len(ours) : k < l => ours[k].operationName # ours[l].operationName
    BY <1>3 DEF OperationsDiffer
  <2>. HIDE DEF both
  <2>6. both[i].operationName # both[j].operationName
    BY <2>2, <2>3, <2>4, <2>5
  <2>. QED BY <2>6 DEF both
<1>16. \A h \in Fields : Nearest(parents, own, to, h)
                           => \E o \in ToSet(after[to]) : Handler(to, o) = h
  <2>. SUFFICES ASSUME NEW h \in Fields, Nearest(parents, own, to, h)
                PROVE  \E o \in ToSet(after[to]) : Handler(to, o) = h
    OBVIOUS
  <2>1. \/ h \in own /\ h[1] = to
        \/ <<to, h[2]>> \notin own /\ Nearest(parents, own, from, h)
    BY <1>2, NearestStep
  <2>2. CASE h \in own /\ h[1] = to
    BY <1>5, <1>12, <2>2
  <2>3. CASE <<to, h[2]>> \notin own /\ Nearest(parents, own, from, h)
    <3>1. PICK p \in ToSet(theirs) : Handler(from, p) = h
      BY <1>2, <2>3
    <3>2. p.operationName = h[2]
      BY <3>1 DEF Handler
    <3>3. h[2] \notin OperationNames(ours)
      <4>. SUFFICES ASSUME NEW o \in ToSet(ours), o.operationName = h[2]
                    PROVE  <<to, h[2]>> \in own
        BY <1>4, <2>3
      <4>1. <<to, h[2]>> \in Fields /\ <<to, h[2]>>[1] = to /\ <<to, h[2]>>[2] = h[2]
        BY DEF Fields
      <4>. QED BY <1>2, <4>1 DEF OwnHandlers, own, ours
    <3>4. p \in Lacked
      BY <3>2, <3>3 DEF Lacked
    <3>5. Inherited(p) \in ToSet(after[to]) /\ Handler(to, Inherited(p)) = h
      BY <1>10, <1>12, <1>13, <3>1, <3>4
    <3>. QED BY <3>5
  <2>. QED BY <2>1, <2>2, <2>3
<1>17. \A o \in ToSet(after[to]) : /\ ~ o.inherited_operation => o.interfaceName = to
                                   /\ Handler(to, o) \in own
  <2>. TAKE o \in ToSet(after[to])
  <2>1. CASE o \in ToSet(ours)
    BY <2>1 DEF OperationLists, own, ours
  <2>2. CASE o \in ToSet(new)
    BY <1>10, <1>13, <2>2
  <2>. QED BY <1>12, <2>1, <2>2
<1>18. OperationLists(parents, after, defined \cup {to})
  <2>1. \A x \in Objects : OperationsDiffer(after[x])
    BY <1>12, <1>15 DEF OperationLists
  <2>2. \A x \in Objects : \A o \in ToSet(after[x]) :
           /\ ~ o.inherited_operation => o.interfaceName = x
           /\ Handler(x, o) \in own
    BY <1>12, <1>17 DEF OperationLists, own
  <2>3. \A x \in Objects \ (defined \cup {to}) : \A o \in ToSet(after[x]) : ~ o.inherited_operation
    BY <1>12 DEF OperationLists
  <2>4. \A x \in defined \cup {to} : \A h \in Fields :
           Nearest(parents, own, x, h) => \E o \in ToSet(after[x]) : Handler(x, o) = h
    <3>1. \A x \in defined : \A h \in Fields :
             Nearest(parents, own, x, h) => \E o \in ToSet(lists[x]) : Handler(x, o) = h
      BY DEF OperationLists, own
    <3>2. \A x \in defined : after[x] = lists[x]
      BY <1>12
    <3>. QED BY <1>16, <3>1, <3>2
  <2>. QED BY <1>14, <2>1, <2>2, <2>3, <2>4 DEF OperationLists
<1>. QED BY <1>6, <1>12, <1>18 DEF after, lacking, theirs, ours

----------------------------------------------------------------------------
(* A field's owner is reached from x over parents whose header each         *)
(* generation includes.                                                     *)

Reaches(parents, includes, x, y, n) ==
  /\ Up(parents, x)[n] = y
  /\ \A k \in 0 .. n - 1 : Up(parents, x)[k + 1] \in includes[Up(parents, x)[k]]

Included(parents, lists, includes) ==
  \A x \in Objects : \A f \in ToSet(lists[x]) :
     \E n \in Nat : Reaches(parents, includes, x, f[1], n)

IncludesAfter(includes, to, from, copied) ==
  IF copied THEN [includes EXCEPT ![to] = @ \cup {from}] ELSE includes

LEMMA IncludesOfAnHeir ==
  ASSUME NEW parents, NEW lists \in [Objects -> Seq(Fields)],
         NEW includes \in [Objects -> SUBSET Objects],
         NEW to \in Objects, NEW from \in Objects, parents[to] = from,
         Included(parents, lists, includes), NEW copied \in BOOLEAN,
         NEW after, \A x \in Objects : x # to => after[x] = lists[x],
         \A f \in ToSet(after[to]) : \/ f \in ToSet(lists[to])
                                     \/ copied /\ f \in ToSet(lists[from]),
         NEW included, included = IncludesAfter(includes, to, from, copied)
  PROVE  /\ included \in [Objects -> SUBSET Objects]
         /\ Included(parents, after, included)
<1>1. /\ included \in [Objects -> SUBSET Objects]
      /\ \A y \in Objects : includes[y] \subseteq included[y]
      /\ copied => from \in included[to]
  BY DEF IncludesAfter
<1>2. ASSUME NEW x \in Objects, NEW f \in ToSet(lists[x])
      PROVE  \E n \in Nat : Reaches(parents, included, x, f[1], n)
  <2>1. f[1] \in Objects
    BY Members DEF Fields
  <2>2. PICK n \in Nat : Reaches(parents, includes, x, f[1], n)
    BY DEF Included
  <2>3. \A k \in 0 .. n - 1 : Up(parents, x)[k] \in Objects
    <3>1. \A k \in 0 .. n - 1 : k \in 0 .. n
      OBVIOUS
    <3>. QED BY <2>1, <2>2, <3>1, UpBelow DEF Reaches
  <2>4. Reaches(parents, included, x, f[1], n)
    BY <1>1, <2>2, <2>3 DEF Reaches
  <2>. QED BY <2>4
<1>3. ASSUME NEW f \in ToSet(lists[from]), copied
      PROVE  \E n \in Nat : Reaches(parents, included, to, f[1], n)
  <2>1. PICK n \in Nat : Reaches(parents, included, from, f[1], n)
    BY <1>2
  <2>2. /\ Up(parents, to)[0] = to /\ Up(parents, from)[0] = from
        /\ \A k \in Nat : Up(parents, to)[k + 1] = Up(parents, from)[k]
    <3>1. \A k \in Nat : Up(parents, to)[k + 1] = Up(parents, parents[to])[k]
      BY UpOfParent
    <3>. QED BY <3>1, UpFacts
  <2>3. Up(parents, to)[n + 1] = f[1]
    BY <2>1, <2>2 DEF Reaches
  <2>4. \A k \in 0 .. (n + 1) - 1 : Up(parents, to)[k + 1] \in included[Up(parents, to)[k]]
    <3>. TAKE k \in 0 .. (n + 1) - 1
    <3>1. CASE k = 0
      <4>1. Up(parents, to)[0 + 1] = from
        BY <2>2
      <4>. QED BY <1>1, <1>3, <2>2, <3>1, <4>1
    <3>2. CASE k # 0
      <4>1. k - 1 \in 0 .. n - 1 /\ k - 1 \in Nat /\ (k - 1) + 1 = k /\ k \in Nat
        BY <3>2
      <4>2. Up(parents, to)[k] = Up(parents, from)[k - 1]
        BY <2>2, <4>1
      <4>3. Up(parents, to)[k + 1] = Up(parents, from)[k]
        BY <2>2, <4>1
      <4>4. Up(parents, from)[(k - 1) + 1] \in included[Up(parents, from)[k - 1]]
        BY <2>1, <4>1 DEF Reaches
      <4>. QED BY <4>1, <4>2, <4>3, <4>4
    <3>. QED BY <3>1, <3>2
  <2>5. n + 1 \in Nat /\ Reaches(parents, included, to, f[1], n + 1)
    BY <2>3, <2>4 DEF Reaches
  <2>. QED BY <2>5
<1>4. \A x \in Objects : \A f \in ToSet(after[x]) :
         \E n \in Nat : Reaches(parents, included, x, f[1], n)
  <2>. TAKE x \in Objects
  <2>1. CASE x = to
    BY <1>2, <1>3, <2>1
  <2>2. CASE x # to
    BY <1>2, <2>2
  <2>. QED BY <2>1, <2>2
<1>. QED BY <1>1, <1>4 DEF Included

----------------------------------------------------------------------------
(* Every generation of an object in a cycle is an object. *)
LEMMA CycleIsClosed ==
  ASSUME NEW parents, NEW x \in Objects, Above(parents, x, x), NEW n \in Nat
  PROVE  Up(parents, x)[n] \in Objects
<1>. DEFINE Outside == {k \in Nat : Up(parents, x)[k] \notin Objects}
<1>. SUFFICES ASSUME Outside # {}
              PROVE  FALSE
  OBVIOUS
<1>1. PICK k \in Outside : \A l \in Outside : k <= l
  <2>1. Outside \subseteq Nat
    OBVIOUS
  <2>. HIDE DEF Outside
  <2>. QED BY <2>1, LeastNumber
<1>2. PICK m \in Nat : Up(parents, x)[m + 1] = x
  BY DEF Above
<1>3. m + 1 \in Nat /\ k \in Nat
  OBVIOUS
<1>4. CASE k <= m
  <2>1. k \in 0 .. m + 1
    BY <1>4
  <2>. QED BY <1>1, <1>2, <1>3, <2>1, UpBelow
<1>5. CASE ~ (k <= m)
  <2>1. k - (m + 1) \in Nat /\ (m + 1) + (k - (m + 1)) = k /\ ~ (k <= k - (m + 1))
    BY <1>5
  <2>2. \A d \in Nat : Up(parents, x)[(m + 1) + d] = Up(parents, x)[d]
    <3>. TAKE d \in Nat
    <3>1. Up(parents, x)[(m + 1) + d] = Up(parents, Up(parents, x)[m + 1])[d]
      BY <1>3, UpAbove
    <3>. QED BY <1>2, <3>1
  <2>3. Up(parents, x)[k] = Up(parents, x)[k - (m + 1)]
    BY <2>1, <2>2
  <2>. QED BY <1>1, <2>1, <2>3
<1>. QED BY <1>4, <1>5

----------------------------------------------------------------------------
(* The inductive invariant.  The active calls go up one inheritance chain,  *)
(* whose last object is the one whose parent is looked at; and an object    *)
(* whose call has returned is done, with all its ancestors.                 *)

ChainOK ==
  /\ \A i, j \in 1 .. Len(seen_in_this_chain) :
        i < j => seen_in_this_chain[i] # seen_in_this_chain[j]
  /\ \A i \in 1 .. Len(seen_in_this_chain) - 1 :
        inheritance[seen_in_this_chain[i]] = seen_in_this_chain[i + 1]
  /\ depth > 0 /\ ~ parent_is_defined => depth = Len(seen_in_this_chain)
  /\ parent_is_defined => depth > 0 /\ parent \in Defined

DefinedOK ==
  /\ \A x \in Defined : inheritance[x] = None \/ inheritance[x] \in Defined
  /\ \A x \in Defined : ~ Above(inheritance, x, x)

CopiesOK ==
  /\ FieldLists(inheritance, fields, Defined)
  /\ OperationLists(inheritance, operations, Defined)
  /\ Included(inheritance, fields, non_intrinsic_types)

(* The lines of the report climb from the first object to its child. *)
ReportOK ==
  LET up == Up(inheritance, first_in_chain)
      n  == Len(report)
  IN  /\ outcome \notin Cyclic => report = << >>
      /\ outcome \in Cyclic =>
           /\ first_in_chain \in Objects
           /\ Above(inheritance, first_in_chain, first_in_chain)
           /\ \A i \in 1 .. n : report[i] = <<up[i - 1], up[i]>>
           /\ \A i \in 1 .. n - 1 : up[i] # first_in_chain
           /\ IF outcome = "reported" THEN n > 0 /\ up[n] = first_in_chain
              ELSE n > 0 => up[n] # first_in_chain

OutcomeOK ==
  outcome = "done" => depth = 0 /\ Objects \subseteq already_seen

IInv ==
  /\ TypeOK
  /\ ChainOK
  /\ DefinedOK
  /\ CopiesOK
  /\ ReportOK
  /\ OutcomeOK

----------------------------------------------------------------------------
(* Where an element is found in a list. *)
LEMMA FoundPlace ==
  ASSUME NEW A, NEW list \in Seq(A), NEW e, Contains(list, e)
  PROVE  IndexOf(list, e) \in Nat
<1>. DEFINE places == {i \in 1 .. Len(list) : list[i] = e}
<1>1. Len(list) \in Nat
  BY Members
<1>2. places \subseteq Nat /\ places # {} /\ \A i \in places : i \in 1 .. Len(list)
  BY DEF Contains
<1>3. \E i \in places : \A j \in places : i <= j
  <2>. HIDE DEF places
  <2>. QED BY <1>2, LeastNumber
<1>. DEFINE place == CHOOSE i \in places : \A j \in places : i <= j
<1>4. IndexOf(list, e) = place - 1
  BY <1>2 DEF IndexOf, SelectInSeq, Min
<1>5. place \in places
  <2>. HIDE DEF places
  <2>. QED BY <1>3
<1>6. place \in Nat /\ place >= 1
  <2>. HIDE DEF place
  <2>. QED BY <1>1, <1>2, <1>5
<1>. QED BY <1>4, <1>6

LEMMA RenumberedType ==
  ASSUME field_index \in [Fields -> Nat], NEW list \in Seq(Fields)
  PROVE  Renumbered(list) \in [Fields -> Nat]
<1>1. \A m \in Fields : Contains(list, m) => IndexOf(list, m) \in Nat
  BY FoundPlace
<1>2. \A m \in Fields : (IF Contains(list, m) THEN IndexOf(list, m) ELSE field_index[m]) \in Nat
  BY <1>1
<1>3. DOMAIN field_index = Fields
  OBVIOUS
<1>. QED BY <1>2, <1>3 DEF Renumbered

----------------------------------------------------------------------------
(* The objects the compiler has read define only what is theirs. *)
LEMMA InitIInv ==
  Init => IInv
<1>0. SUFFICES ASSUME NEW input \in Inputs,
                /\ are_dictionaries = input.are_dictionaries
                /\ inheritance = input.inheritance
                /\ externalTypes = input.externalTypes
                /\ fields = [x \in Objects |->
                               [i \in DOMAIN input.fields[x] |-> <<x, input.fields[x][i]>>]]
                /\ operations = [x \in Objects |->
                                   [i \in DOMAIN input.operations[x] |->
                                      Operation(x, input.operations[x][i])]]
                /\ field_index = [m \in Objects \X Names |->
                                    IF Contains(input.fields[m[1]], m[2])
                                    THEN IndexOf(input.fields[m[1]], m[2]) ELSE 0]
                /\ non_intrinsic_types = [x \in Objects |-> {}]
                /\ already_seen = {}
                /\ seen_in_this_chain = << >>
                /\ depth = 0
                /\ parent_is_defined = FALSE
                /\ outcome = "walking"
                /\ first_in_chain = None
                /\ report = << >>
              PROVE  IInv
  BY DEF Init
<1>1. /\ input.are_dictionaries \in BOOLEAN
      /\ input.inheritance \in [Objects -> Objects \cup Elsewhere \cup {None}]
      /\ input.externalTypes \in [Objects -> SUBSET Elsewhere]
      /\ input.fields \in [Objects -> Seq(Names)]
      /\ input.operations \in [Objects -> Seq(Names)]
      /\ \A x \in Objects : IsInjective(input.fields[x]) /\ IsInjective(input.operations[x])
  BY <1>0, InputsAssumption
<1>2. ASSUME NEW x \in Objects
      PROVE  /\ fields[x] \in Seq(Fields)
             /\ Len(fields[x]) = Len(input.fields[x])
             /\ \A i \in 1 .. Len(fields[x]) : fields[x][i] = <<x, input.fields[x][i]>>
             /\ \A f \in ToSet(fields[x]) : f[1] = x
             /\ NamesDiffer(fields[x])
  <2>. DEFINE names == input.fields[x]
  <2>1. /\ names \in Seq(Names) /\ Len(names) \in Nat /\ DOMAIN names = 1 .. Len(names)
        /\ \A i \in 1 .. Len(names) : names[i] \in Names
    BY <1>1, Members
  <2>2. \A i, j \in 1 .. Len(names) : names[i] = names[j] => i = j
    BY <1>1, <2>1 DEF IsInjective
  <2>3. fields[x] = [i \in 1 .. Len(names) |-> <<x, names[i]>>]
    BY <1>0, <2>1
  <2>. HIDE DEF names
  <2>4. fields[x] \in [1 .. Len(names) -> Fields]
    BY <2>1, <2>3 DEF Fields
  <2>5. fields[x] \in Seq(Fields) /\ Len(fields[x]) = Len(names)
    BY <2>1, <2>4, TupleIsSeq
  <2>6. \A i \in 1 .. Len(names) : fields[x][i] = <<x, names[i]>>
    BY <2>3
  <2>7. \A f \in ToSet(fields[x]) : f[1] = x
    BY <2>5, <2>6, Members
  <2>8. NamesDiffer(fields[x])
    BY <2>1, <2>2, <2>5, <2>6 DEF NamesDiffer
  <2>. QED BY <2>5, <2>6, <2>7, <2>8 DEF names
<1>3. ASSUME NEW x \in Objects
      PROVE  /\ operations[x] \in Seq(AllOperations)
             /\ \A o \in ToSet(operations[x]) : /\ ~ o.inherited_operation
                                                /\ o.interfaceName = x
                                                /\ o.operationName \in Names
             /\ OperationsDiffer(operations[x])
  <2>. DEFINE names == input.operations[x]
  <2>1. /\ names \in Seq(Names) /\ Len(names) \in Nat /\ DOMAIN names = 1 .. Len(names)
        /\ \A i \in 1 .. Len(names) : names[i] \in Names
    BY <1>1, Members
  <2>2. \A i, j \in 1 .. Len(names) : names[i] = names[j] => i = j
    BY <1>1, <2>1 DEF IsInjective
  <2>3. operations[x] = [i \in 1 .. Len(names) |-> Operation(x, names[i])]
    BY <1>0, <2>1
  <2>. HIDE DEF names
  <2>4. \A name \in Names : /\ Operation(x, name) \in AllOperations
                            /\ ~ Operation(x, name).inherited_operation
                            /\ Operation(x, name).interfaceName = x
                            /\ Operation(x, name).operationName = name
    BY DEF Operation, AllOperations, OperationsOf
  <2>5. operations[x] \in [1 .. Len(names) -> AllOperations]
    BY <2>1, <2>3, <2>4
  <2>6. operations[x] \in Seq(AllOperations) /\ Len(operations[x]) = Len(names)
    BY <2>1, <2>5, TupleIsSeq
  <2>7. \A i \in 1 .. Len(names) : operations[x][i] = Operation(x, names[i])
    BY <2>3
  <2>8. \A o \in ToSet(operations[x]) : \E name \in Names : o = Operation(x, name)
    BY <2>1, <2>6, <2>7, Members
  <2>9. OperationsDiffer(operations[x])
    BY <2>1, <2>2, <2>4, <2>6, <2>7 DEF OperationsDiffer
  <2>. QED BY <2>4, <2>6, <2>8, <2>9
<1>4. fields \in [Objects -> Seq(Fields)] /\ operations \in [Objects -> Seq(AllOperations)]
  BY <1>0, <1>2, <1>3
<1>5. field_index \in [Fields -> Nat]
  <2>1. \A m \in Fields : m[1] \in Objects /\ input.fields[m[1]] \in Seq(Names)
    BY <1>1 DEF Fields
  <2>2. \A m \in Fields : Contains(input.fields[m[1]], m[2])
           => IndexOf(input.fields[m[1]], m[2]) \in Nat
    BY <2>1, FoundPlace
  <2>. QED BY <1>0, <2>2 DEF Fields
<1>6. TypeOK
  <2>1. are_dictionaries \in BOOLEAN
    BY <1>0, <1>1
  <2>2. /\ inheritance \in [Objects -> Objects \cup Elsewhere \cup {None}]
        /\ externalTypes \in [Objects -> SUBSET Elsewhere]
    BY <1>0, <1>1
  <2>3. non_intrinsic_types \in [Objects -> SUBSET Objects]
    BY <1>0
  <2>4. already_seen \subseteq Objects /\ parent_is_defined \in BOOLEAN
        /\ outcome \in Outcomes /\ first_in_chain \in Objects \cup {None}
    BY <1>0 DEF Outcomes
  <2>5. /\ seen_in_this_chain \in Seq(already_seen) /\ report \in Seq(Objects \X Objects)
        /\ depth \in 0 .. Len(seen_in_this_chain)
    BY <1>0, EmptySeq
  <2>. QED BY <2>1, <2>2, <2>3, <2>4, <2>5, <1>4, <1>5 DEF TypeOK, AllOperations
<1>7. Defined = {}
  BY <1>0 DEF Defined
<1>8. FieldLists(inheritance, fields, {})
  <2>1. \A x \in Objects : ToSet(fields[x]) \subseteq OwnOf(fields)
    <3>. SUFFICES ASSUME NEW x \in Objects, NEW f \in ToSet(fields[x])
                  PROVE  f \in OwnOf(fields)
      OBVIOUS
    <3>1. f \in Fields /\ f[1] = x
      BY <1>2, Members
    <3>. QED BY <3>1 DEF OwnOf
  <2>2. \A x \in Objects : Ordered(inheritance, fields[x])
    <3>1. \A x \in Objects : \A i \in 1 .. Len(fields[x]) : fields[x][i][1] = x
      BY <1>2
    <3>. QED BY <3>1 DEF Ordered
  <2>. QED BY <1>2, <2>1, <2>2 DEF FieldLists
<1>9. OperationLists(inheritance, operations, {})
  <2>1. ASSUME NEW x \in Objects, NEW o \in ToSet(operations[x])
        PROVE  Handler(x, o) \in OwnHandlers(operations)
    <3>1. ~ o.inherited_operation /\ o.operationName \in Names
      BY <1>3
    <3>2. Handler(x, o) = <<x, o.operationName>> /\ <<x, o.operationName>> \in Fields
      BY <3>1 DEF Handler, HandlerOwner, Fields
    <3>. QED BY <3>1, <3>2 DEF OwnHandlers
  <2>. QED BY <1>3, <2>1 DEF OperationLists
<1>10. Included(inheritance, fields, non_intrinsic_types)
  <2>. SUFFICES ASSUME NEW x \in Objects, NEW f \in ToSet(fields[x])
                PROVE  Reaches(inheritance, non_intrinsic_types, x, f[1], 0)
    BY DEF Included
  <2>1. Up(inheritance, x)[0] = f[1]
    BY <1>2, UpFacts
  <2>2. \A k \in 0 .. 0 - 1 : FALSE
    OBVIOUS
  <2>. QED BY <2>1, <2>2 DEF Reaches
<1>11. CopiesOK
  BY <1>7, <1>8, <1>9, <1>10 DEF CopiesOK
<1>12. ChainOK /\ DefinedOK
  <2>1. Len(seen_in_this_chain) = 0
    BY <1>0, EmptySeq
  <2>. QED BY <1>0, <1>7, <2>1 DEF ChainOK, DefinedOK
<1>13. ReportOK /\ OutcomeOK
  BY <1>0 DEF ReportOK, OutcomeOK, Cyclic
<1>. QED BY <1>6, <1>11, <1>12, <1>13 DEF IInv

----------------------------------------------------------------------------
(* The objects of the chain. *)
LEMMA WalkFacts ==
  ASSUME TypeOK
  PROVE  /\ Len(seen_in_this_chain) \in Nat /\ depth \in Nat
         /\ depth <= Len(seen_in_this_chain)
         /\ \A i \in 1 .. Len(seen_in_this_chain) :
               seen_in_this_chain[i] \in already_seen /\ seen_in_this_chain[i] \in Objects
         /\ Defined \subseteq already_seen /\ Defined \subseteq Objects
         /\ \A x : Contains(seen_in_this_chain, x)
                     <=> \E i \in 1 .. Len(seen_in_this_chain) : seen_in_this_chain[i] = x
         /\ depth > 0 => /\ depth \in 1 .. Len(seen_in_this_chain)
                         /\ target \in Objects /\ target \in already_seen
                         /\ target \notin Defined
                         /\ parent \in Objects \cup Elsewhere \cup {None}
<1>1. /\ Len(seen_in_this_chain) \in Nat
      /\ \A i \in 1 .. Len(seen_in_this_chain) : seen_in_this_chain[i] \in already_seen
  BY Members DEF TypeOK
<1>2. depth \in Nat /\ depth <= Len(seen_in_this_chain) /\ already_seen \subseteq Objects
  BY <1>1 DEF TypeOK
<1>3. Defined \subseteq already_seen
  BY DEF Defined
<1>4. ASSUME depth > 0
      PROVE  /\ depth \in 1 .. Len(seen_in_this_chain)
             /\ target \in Objects /\ target \in already_seen /\ target \notin Defined
             /\ parent \in Objects \cup Elsewhere \cup {None}
  <2>1. depth \in 1 .. Len(seen_in_this_chain) /\ depth \in 1 .. depth
    BY <1>1, <1>2, <1>4
  <2>2. target \in already_seen /\ target \in Objects /\ target \notin Defined
    BY <1>1, <1>2, <2>1 DEF target, Defined
  <2>3. parent \in Objects \cup Elsewhere \cup {None}
    BY <2>2 DEF parent, TypeOK
  <2>. QED BY <2>1, <2>2, <2>3
<1>. QED BY <1>1, <1>2, <1>3, <1>4 DEF Contains

(* The chain climbs. *)
LEMMA ChainIsUp ==
  ASSUME TypeOK, ChainOK, NEW i \in 1 .. Len(seen_in_this_chain), NEW n \in Nat,
         i + n <= Len(seen_in_this_chain)
  PROVE  Up(inheritance, seen_in_this_chain[i])[n] = seen_in_this_chain[i + n]
<1>. DEFINE up == Up(inheritance, seen_in_this_chain[i])
            T  == {k \in Nat : i + k <= Len(seen_in_this_chain)
                                 => up[k] = seen_in_this_chain[i + k]}
<1>1. up[0] = seen_in_this_chain[i] /\ \A k \in Nat : up[k + 1] = Parent(inheritance, up[k])
  <2>. DEFINE x == seen_in_this_chain[i]
  <2>. HIDE DEF x
  <2>1. /\ Up(inheritance, x)[0] = x
        /\ \A k \in Nat : Up(inheritance, x)[k + 1] = Parent(inheritance, Up(inheritance, x)[k])
    BY UpFacts
  <2>. QED BY <2>1 DEF x
<1>. HIDE DEF up
<1>2. i \in Nat /\ i + 0 = i
  BY WalkFacts
<1>3. 0 \in T
  BY <1>1, <1>2
<1>4. ASSUME NEW k \in Nat, k \in T
      PROVE  k + 1 \in T
  <2>. SUFFICES ASSUME i + (k + 1) <= Len(seen_in_this_chain)
                PROVE  up[k + 1] = seen_in_this_chain[i + (k + 1)]
    OBVIOUS
  <2>1. /\ i + k <= Len(seen_in_this_chain) /\ i + (k + 1) = (i + k) + 1
        /\ i + k \in 1 .. Len(seen_in_this_chain) - 1
        /\ i + k \in 1 .. Len(seen_in_this_chain)
    BY <1>2, WalkFacts
  <2>2. up[k] = seen_in_this_chain[i + k]
    BY <1>4, <2>1
  <2>3. inheritance[seen_in_this_chain[i + k]] = seen_in_this_chain[(i + k) + 1]
    BY <2>1 DEF ChainOK
  <2>4. seen_in_this_chain[i + k] \in Objects
    BY <2>1, WalkFacts
  <2>. QED BY <1>1, <2>1, <2>2, <2>3, <2>4 DEF Parent
<1>5. n \in T
  <2>. HIDE DEF T
  <2>. QED BY <1>3, <1>4, Induction
<1>. QED BY <1>5 DEF up

(* What is above a done object is done, or nothing. *)
LEMMA AncestorsAreDefined ==
  ASSUME TypeOK, DefinedOK, NEW x \in Defined, NEW n \in Nat
  PROVE  Up(inheritance, x)[n] \in Defined \cup {None}
<1>. DEFINE T == {k \in Nat : Up(inheritance, x)[k] \in Defined \cup {None}}
<1>1. Up(inheritance, x)[0] = x
      /\ \A k \in Nat : Up(inheritance, x)[k + 1] = Parent(inheritance, Up(inheritance, x)[k])
  BY UpFacts
<1>2. 0 \in T
  BY <1>1
<1>3. ASSUME NEW k \in Nat, k \in T
      PROVE  k + 1 \in T
  <2>1. CASE Up(inheritance, x)[k] \in Defined
    <3>1. Up(inheritance, x)[k] \in Objects
      BY <2>1, WalkFacts
    <3>. QED BY <1>1, <2>1, <3>1 DEF Parent, DefinedOK
  <2>2. CASE Up(inheritance, x)[k] = None
    BY <1>1, <2>2, NoneAssumption DEF Parent
  <2>. QED BY <1>3, <2>1, <2>2
<1>4. n \in T
  <2>. HIDE DEF T
  <2>. QED BY <1>2, <1>3, Induction
<1>. QED BY <1>4

----------------------------------------------------------------------------
(* Steps that leave the lists and the set of done objects alone. *)
LEMMA CopiesKept ==
  ASSUME CopiesOK, DefinedOK, UNCHANGED <<definitions, copies>>, Defined' = Defined
  PROVE  CopiesOK' /\ DefinedOK'
<1>1. UNCHANGED <<inheritance, fields, operations, non_intrinsic_types>>
  BY DEF definitions, copies
<1>2. CopiesOK'
  BY <1>1 DEF CopiesOK
<1>3. DefinedOK'
  BY <1>1 DEF DefinedOK
<1>. QED BY <1>2, <1>3

(* A call is added to the chain for an object that no call has seen. *)
LEMMA CallStep ==
  ASSUME IInv, outcome = "walking", NEW name \in Objects \ already_seen, NEW chain,
         \/ depth = 0 /\ chain = << >>
         \/ InCall /\ parent = name /\ chain = seen_in_this_chain,
         Call(name, chain), UNCHANGED <<definitions, copies, failure, report>>
  PROVE  IInv'
<1>. USE DEF IInv
<1>1. /\ chain \in Seq(already_seen) /\ Len(chain) = depth
      /\ \A i \in 1 .. Len(chain) : chain[i] = seen_in_this_chain[i]
      /\ Len(chain) \in Nat /\ Len(chain) <= Len(seen_in_this_chain)
  <2>1. CASE depth = 0 /\ chain = << >>
    BY <2>1, EmptySeq, WalkFacts
  <2>2. CASE InCall /\ chain = seen_in_this_chain
    <3>1. depth = Len(seen_in_this_chain)
      BY <2>2 DEF InCall, ChainOK
    <3>. QED BY <2>2, <3>1, WalkFacts DEF TypeOK
  <2>. QED BY <2>1, <2>2
<1>2. /\ seen_in_this_chain' \in Seq(already_seen')
      /\ Len(seen_in_this_chain') = Len(chain) + 1
      /\ \A i \in 1 .. Len(chain) : seen_in_this_chain'[i] = seen_in_this_chain[i]
      /\ seen_in_this_chain'[Len(chain) + 1] = name
  <2>1. chain \in Seq(already_seen') /\ name \in already_seen'
    BY <1>1, SeqMonotonic DEF Call
  <2>. QED BY <1>1, <2>1, AppendProperties DEF Call
<1>3. /\ depth' = Len(seen_in_this_chain') /\ depth' = depth + 1
      /\ already_seen' = already_seen \cup {name} /\ parent_is_defined' = FALSE
  BY <1>1, <1>2 DEF Call
<1>4. /\ UNCHANGED <<inheritance, fields, operations, non_intrinsic_types>>
      /\ UNCHANGED <<are_dictionaries, externalTypes, field_index>>
      /\ UNCHANGED <<outcome, first_in_chain, report>>
  BY DEF definitions, copies, failure
<1>5. TypeOK'
  <2>1. already_seen' \subseteq Objects
    BY <1>3 DEF TypeOK
  <2>2. depth' \in 0 .. Len(seen_in_this_chain')
    BY <1>1, <1>2, <1>3
  <2>. QED BY <1>2, <1>3, <1>4, <2>1, <2>2 DEF TypeOK
<1>6. Defined' = Defined
  <2>1. \A x : x \in Defined' <=> /\ x \in already_seen \cup {name}
                                  /\ \A i \in 1 .. Len(chain) + 1 : seen_in_this_chain'[i] # x
    BY <1>2, <1>3 DEF Defined
  <2>2. \A x : x \in Defined <=> /\ x \in already_seen
                                 /\ \A i \in 1 .. Len(chain) : seen_in_this_chain[i] # x
    BY <1>1 DEF Defined
  <2>3. \A i \in 1 .. Len(chain) + 1 : i \in 1 .. Len(chain) \/ i = Len(chain) + 1
    BY <1>1
  <2>4. ASSUME NEW x
        PROVE  x \in Defined' <=> x \in Defined
    <3>1. CASE x = name
      <4>1. Len(chain) + 1 \in 1 .. Len(chain) + 1 /\ name \notin already_seen
        BY <1>1
      <4>. QED BY <1>2, <2>1, <2>2, <3>1, <4>1
    <3>2. CASE x # name
      <4>1. (\A i \in 1 .. Len(chain) + 1 : seen_in_this_chain'[i] # x)
              <=> (\A i \in 1 .. Len(chain) : seen_in_this_chain[i] # x)
        <5>1. \A i \in 1 .. Len(chain) : i \in 1 .. Len(chain) + 1
          BY <1>1
        <5>. QED BY <1>2, <2>3, <3>2, <5>1
      <4>. QED BY <2>1, <2>2, <3>2, <4>1
    <3>. QED BY <3>1, <3>2
  <2>. QED BY <2>4
<1>7. ChainOK'
  <2>1. \A i \in 1 .. Len(chain) : seen_in_this_chain[i] \in already_seen
    BY <1>1, WalkFacts
  <2>2. \A i, j \in 1 .. Len(chain) + 1 : i < j => seen_in_this_chain'[i] # seen_in_this_chain'[j]
    <3>. SUFFICES ASSUME NEW i \in 1 .. Len(chain) + 1, NEW j \in 1 .. Len(chain) + 1, i < j
                  PROVE  seen_in_this_chain'[i] # seen_in_this_chain'[j]
      OBVIOUS
    <3>1. i \in 1 .. Len(chain)
      BY <1>1
    <3>2. CASE j = Len(chain) + 1
      BY <1>2, <2>1, <3>1, <3>2
    <3>3. CASE j # Len(chain) + 1
      <4>1. j \in 1 .. Len(chain)
        BY <1>1, <3>3
      <4>. QED BY <1>1, <1>2, <3>1, <4>1 DEF ChainOK
    <3>. QED BY <3>2, <3>3
  <2>3. \A i \in 1 .. Len(chain) : inheritance[seen_in_this_chain'[i]] = seen_in_this_chain'[i + 1]
    <3>. TAKE i \in 1 .. Len(chain)
    <3>1. CASE i = Len(chain)
      <4>1. depth = i /\ parent = name
        BY <1>1, <3>1 DEF InCall
      <4>. QED BY <1>2, <3>1, <4>1 DEF parent, target
    <3>2. CASE i # Len(chain)
      <4>1. i + 1 \in 1 .. Len(chain) /\ i \in 1 .. Len(seen_in_this_chain) - 1
        BY <1>1, <3>2
      <4>. QED BY <1>2, <4>1 DEF ChainOK
    <3>. QED BY <3>1, <3>2
  <2>4. Len(seen_in_this_chain') - 1 = Len(chain)
    BY <1>1, <1>2
  <2>. QED BY <1>2, <1>3, <1>4, <2>2, <2>3, <2>4 DEF ChainOK
<1>8. CopiesOK' /\ DefinedOK'
  BY <1>6, CopiesKept
<1>9. ReportOK' /\ OutcomeOK'
  BY <1>4 DEF ReportOK, OutcomeOK
<1>. QED BY <1>5, <1>7, <1>8, <1>9

(* A call returns: its object is done. *)
LEMMA ReturnStep ==
  ASSUME IInv, outcome = "walking", depth > 0, Return, inheritance' = inheritance,
         parent = None \/ parent \in Defined
  PROVE  /\ Defined' = Defined \cup {target}
         /\ ChainOK' /\ DefinedOK' /\ ReportOK' /\ OutcomeOK'
         /\ depth' \in 0 .. Len(seen_in_this_chain')
         /\ UNCHANGED <<definitions, failure, report, already_seen, seen_in_this_chain>>
         /\ parent_is_defined' \in BOOLEAN
<1>. USE DEF IInv
<1>1. /\ depth' = depth - 1 /\ parent_is_defined' = (depth > 1)
      /\ UNCHANGED <<definitions, failure, report, already_seen, seen_in_this_chain>>
      /\ UNCHANGED <<outcome, first_in_chain>>
  BY DEF Return, failure
<1>2. /\ depth \in Nat /\ depth \in 1 .. Len(seen_in_this_chain)
      /\ Len(seen_in_this_chain) \in Nat
      /\ target \in already_seen /\ target \in Objects /\ target \notin Defined
      /\ target = seen_in_this_chain[depth]
  BY WalkFacts DEF target
<1>3. Defined' = Defined \cup {target}
  <2>1. \A x : x \in Defined' <=> /\ x \in already_seen
                                  /\ \A i \in 1 .. depth - 1 : seen_in_this_chain[i] # x
    BY <1>1 DEF Defined
  <2>2. \A x : x \in Defined <=> /\ x \in already_seen
                                 /\ \A i \in 1 .. depth : seen_in_this_chain[i] # x
    BY DEF Defined
  <2>3. \A i \in 1 .. depth : i \in 1 .. depth - 1 \/ i = depth
    BY <1>2
  <2>4. \A i \in 1 .. depth - 1 : i \in 1 .. depth
    BY <1>2
  <2>5. \A i \in 1 .. depth - 1 : seen_in_this_chain[i] # target
    <3>1. \A i \in 1 .. depth - 1 : i \in 1 .. Len(seen_in_this_chain) /\ i < depth
      BY <1>2
    <3>. QED BY <1>2, <3>1 DEF ChainOK
  <2>6. ASSUME NEW x
        PROVE  x \in Defined' <=> x \in Defined \/ x = target
    <3>1. CASE x = target
      BY <1>2, <2>1, <2>5, <3>1
    <3>2. CASE x # target
      BY <1>2, <2>1, <2>2, <2>3, <2>4, <3>2
    <3>. QED BY <3>1, <3>2
  <2>. QED BY <2>6
<1>4. ChainOK'
  <2>1. ASSUME depth > 1
        PROVE  parent' \in Defined'
    <3>1. depth - 1 \in 1 .. Len(seen_in_this_chain) - 1 /\ (depth - 1) + 1 = depth
      BY <1>2, <2>1
    <3>2. inheritance[seen_in_this_chain[depth - 1]] = target
      BY <1>2, <3>1 DEF ChainOK
    <3>3. parent' = inheritance[seen_in_this_chain[depth - 1]]
      BY <1>1 DEF parent, target
    <3>. QED BY <1>3, <3>2, <3>3
  <2>2. depth' > 0 => depth > 1
    BY <1>1, <1>2
  <2>3. depth > 1 => depth' > 0
    BY <1>1, <1>2
  <2>. QED BY <1>1, <2>1, <2>2, <2>3 DEF ChainOK
<1>5. DefinedOK'
  <2>1. inheritance[target] = parent
    BY DEF parent
  <2>2. \A x \in Defined' : inheritance'[x] = None \/ inheritance'[x] \in Defined'
    BY <1>3, <2>1 DEF DefinedOK
  <2>3. ~ Above(inheritance, target, target)
    <3>. SUFFICES ASSUME NEW n \in Nat, Up(inheritance, target)[n + 1] = target
                  PROVE  FALSE
      BY DEF Above
    <3>1. Up(inheritance, parent)[n] = target
      BY <1>2, <2>1, UpOfParent
    <3>2. CASE parent \in Defined
      <4>1. target \in Defined \cup {None}
        BY <3>1, <3>2, AncestorsAreDefined
      <4>. QED BY <1>2, <4>1, NoneAssumption
    <3>3. CASE parent = None
      <4>1. 0 \in 0 .. n
        OBVIOUS
      <4>2. Up(inheritance, parent)[0] \in Objects
        BY <1>2, <3>1, <4>1, UpBelow
      <4>. QED BY <3>3, <4>2, UpFacts, NoneAssumption
    <3>. QED BY <3>2, <3>3
  <2>4. \A x \in Defined' : ~ Above(inheritance', x, x)
    BY <1>3, <2>3 DEF DefinedOK
  <2>. QED BY <2>2, <2>4 DEF DefinedOK
<1>6. ReportOK' /\ OutcomeOK'
  BY <1>1 DEF ReportOK, OutcomeOK
<1>. QED BY <1>1, <1>2, <1>3, <1>4, <1>5, <1>6

LEMMA NoParentStep ==
  ASSUME IInv, NoParent
  PROVE  IInv'
<1>. USE DEF IInv
<1>1. /\ outcome = "walking" /\ depth > 0 /\ parent = None /\ Return
      /\ UNCHANGED <<fields, field_index, operations, non_intrinsic_types>>
  BY DEF NoParent, InCall, copies
<1>2. UNCHANGED <<are_dictionaries, inheritance, externalTypes>>
  BY <1>1 DEF Return, definitions
<1>3. /\ Defined' = Defined \cup {target}
      /\ ChainOK' /\ DefinedOK' /\ ReportOK' /\ OutcomeOK'
      /\ depth' \in 0 .. Len(seen_in_this_chain')
      /\ UNCHANGED <<failure, report, already_seen, seen_in_this_chain>>
      /\ parent_is_defined' \in BOOLEAN
  BY <1>1, <1>2, ReturnStep
<1>4. TypeOK'
  BY <1>1, <1>2, <1>3 DEF TypeOK, failure
<1>5. target \in Objects \ Defined /\ Defined \in SUBSET Objects /\ inheritance[target] = None
  BY <1>1, WalkFacts DEF parent
<1>6. /\ FieldLists(inheritance, fields, Defined \cup {target})
      /\ OperationLists(inheritance, operations, Defined \cup {target})
  <2>1. fields \in [Objects -> Seq(Fields)] /\ operations \in [Objects -> Seq(AllOperations)]
    BY DEF TypeOK, AllOperations
  <2>2. /\ FieldLists(inheritance, fields, Defined)
        /\ OperationLists(inheritance, operations, Defined)
    BY DEF CopiesOK
  <2>. HIDE DEF IInv
  <2>3. FieldLists(inheritance, fields, Defined \cup {target})
    BY <1>5, <2>1, <2>2, FieldsOfARoot
  <2>4. OperationLists(inheritance, operations, Defined \cup {target})
    BY <1>5, <2>1, <2>2, OperationsOfARoot
  <2>. QED BY <2>3, <2>4
<1>7. CopiesOK'
  BY <1>1, <1>2, <1>3, <1>6 DEF CopiesOK
<1>. QED BY <1>3, <1>4, <1>7

LEMMA CopyStep ==
  ASSUME IInv, CopyFromParent
  PROVE  IInv'
<1>. DEFINE new_fields     == LackingFields(fields[parent], fields[target])
            new_operations == LackingOperations(operations[parent], operations[target])
            copied         == CopiedAny(new_fields, new_operations)
<1>1. /\ outcome = "walking" /\ depth > 0 /\ parent_is_defined /\ Return
      /\ AugmentThing(parent, target)
  BY DEF CopyFromParent
<1>2. /\ TypeOK /\ ChainOK /\ DefinedOK /\ CopiesOK
      /\ parent \in Defined
  BY <1>1 DEF IInv, ChainOK
<1>3. UNCHANGED <<are_dictionaries, inheritance, externalTypes>>
  BY <1>1 DEF Return, definitions
<1>4. /\ Defined' = Defined \cup {target}
      /\ ChainOK' /\ DefinedOK' /\ ReportOK' /\ OutcomeOK'
      /\ depth' \in 0 .. Len(seen_in_this_chain')
      /\ UNCHANGED <<failure, report, already_seen, seen_in_this_chain>>
      /\ parent_is_defined' \in BOOLEAN
  BY <1>1, <1>2, <1>3, ReturnStep
<1>5. /\ IsHeir(inheritance, Defined, target, parent) /\ Defined \in SUBSET Objects
      /\ target \in Objects /\ parent \in Objects /\ inheritance[target] = parent
  BY <1>1, <1>2, WalkFacts DEF parent, IsHeir
<1>6. /\ inheritance \in [Objects -> Objects \cup Elsewhere \cup {None}]
      /\ fields \in [Objects -> Seq(Fields)] /\ operations \in [Objects -> Seq(AllOperations)]
      /\ field_index \in [Fields -> Nat]
      /\ non_intrinsic_types \in [Objects -> SUBSET Objects]
  BY <1>2 DEF TypeOK, AllOperations
<1>7. /\ FieldLists(inheritance, fields, Defined)
      /\ OperationLists(inheritance, operations, Defined)
      /\ Included(inheritance, fields, non_intrinsic_types)
  BY <1>2 DEF CopiesOK
<1>8. /\ fields' = [fields EXCEPT ![target] = new_fields \o fields[target]]
      /\ field_index' = IF are_dictionaries /\ copied
                        THEN Renumbered(new_fields \o fields[target])
                        ELSE field_index
      /\ operations' = [operations EXCEPT ![target] =
                          @ \o [i \in DOMAIN new_operations |-> Inherited(new_operations[i])]]
      /\ non_intrinsic_types' =
            IF copied THEN [non_intrinsic_types EXCEPT ![target] = @ \cup {parent}]
            ELSE non_intrinsic_types
  BY <1>1 DEF AugmentThing, Unshifted
<1>9. /\ new_fields \in Seq(Fields)
      /\ ToSet(new_fields) \subseteq ToSet(fields[parent])
      /\ fields' \in [Objects -> Seq(Fields)]
      /\ FieldLists(inheritance, fields', Defined \cup {target})
  <2>1. fields' = FieldsAfter(fields, target, parent)
    BY <1>8 DEF FieldsAfter
  <2>. QED BY <1>5, <1>6, <1>7, <2>1, FieldsOfAnHeir
<1>10. /\ new_operations \in Seq(AllOperations)
       /\ operations' \in [Objects -> Seq(AllOperations)]
       /\ OperationLists(inheritance, operations', Defined \cup {target})
  <2>1. operations' = OperationsAfter(operations, target, parent)
    BY <1>8 DEF OperationsAfter
  <2>. QED BY <1>5, <1>6, <1>7, <2>1, OperationsOfAnHeir
<1>. HIDE DEF new_fields, new_operations
<1>11. field_index' \in [Fields -> Nat]
  <2>1. new_fields \o fields[target] \in Seq(Fields)
    BY <1>5, <1>6, <1>9, ConcatProperties
  <2>2. Renumbered(new_fields \o fields[target]) \in [Fields -> Nat]
    BY <1>6, <2>1, RenumberedType
  <2>. QED BY <1>6, <1>8, <2>2
<1>12. /\ non_intrinsic_types' \in [Objects -> SUBSET Objects]
       /\ Included(inheritance, fields', non_intrinsic_types')
  <2>1. fields'[target] = new_fields \o fields[target]
        /\ \A x \in Objects : x # target => fields'[x] = fields[x]
    BY <1>5, <1>6, <1>8
  <2>2. ASSUME NEW f \in ToSet(fields'[target])
        PROVE  f \in ToSet(fields[target]) \/ (copied /\ f \in ToSet(fields[parent]))
    <3>1. f \in ToSet(new_fields) \cup ToSet(fields[target])
      BY <1>5, <1>6, <1>9, <2>1, MembersOfConcat
    <3>2. ASSUME f \in ToSet(new_fields)
          PROVE  copied
      <4>1. Len(new_fields) \in Nat /\ Len(new_fields) >= 1
        BY <1>9, <3>2, Members
      <4>2. Len(new_operations) \in Nat
        BY <1>10, Members
      <4>. QED BY <4>1, <4>2 DEF CopiedAny
    <3>. QED BY <1>9, <3>1, <3>2
  <2>3. copied \in BOOLEAN
    BY DEF CopiedAny
  <2>. HIDE DEF copied
  <2>4. non_intrinsic_types' = IncludesAfter(non_intrinsic_types, target, parent, copied)
    BY <1>8 DEF IncludesAfter
  <2>. QED BY <1>5, <1>6, <1>7, <2>1, <2>2, <2>3, <2>4, IncludesOfAnHeir
<1>13. CopiesOK'
  BY <1>3, <1>4, <1>9, <1>10, <1>12 DEF CopiesOK
<1>14. TypeOK'
  BY <1>2, <1>3, <1>4, <1>9, <1>10, <1>11, <1>12 DEF TypeOK, AllOperations, failure
<1>. QED BY <1>4, <1>13, <1>14 DEF IInv

----------------------------------------------------------------------------
(* Steps that move nothing in the walk. *)
LEMMA WalkKept ==
  ASSUME ChainOK, CopiesOK, DefinedOK, UNCHANGED <<definitions, copies, walk>>
  PROVE  ChainOK' /\ CopiesOK' /\ DefinedOK'
<1>1. UNCHANGED <<inheritance, already_seen, seen_in_this_chain, depth, parent_is_defined>>
  BY DEF definitions, walk
<1>2. Defined' = Defined /\ parent' = parent
  BY <1>1 DEF Defined, parent, target
<1>3. ChainOK'
  BY <1>1, <1>2 DEF ChainOK
<1>. QED BY <1>2, <1>3, CopiesKept

LEMMA ThrowStep ==
  ASSUME IInv, NEW error \in Outcomes \ {"reported"}, outcome = "walking", Throw(error),
         error # "done",
         \/ error \notin Cyclic /\ first_in_chain' = first_in_chain
         \/ /\ first_in_chain' \in Objects
            /\ Above(inheritance, first_in_chain', first_in_chain')
  PROVE  IInv'
<1>. USE DEF IInv
<1>1. /\ outcome' = error
      /\ UNCHANGED <<definitions, copies, walk, report>>
      /\ UNCHANGED <<are_dictionaries, inheritance, externalTypes>>
      /\ UNCHANGED <<fields, field_index, operations, non_intrinsic_types>>
      /\ UNCHANGED <<already_seen, seen_in_this_chain, depth, parent_is_defined>>
  BY DEF Throw, definitions, copies, walk
<1>2. TypeOK'
  BY <1>1 DEF TypeOK
<1>3. ChainOK' /\ CopiesOK' /\ DefinedOK'
  BY <1>1, WalkKept
<1>4. ReportOK'
  <2>1. report = << >> /\ report' = << >> /\ Len(<< >>) = 0
    BY <1>1, EmptySeq DEF ReportOK, Cyclic
  <2>2. CASE error \notin Cyclic
    BY <1>1, <2>1, <2>2 DEF ReportOK
  <2>3. CASE error \in Cyclic
    <3>1. outcome' = "cyclic_inheritance" /\ inheritance' = inheritance
          /\ first_in_chain' \in Objects
          /\ Above(inheritance', first_in_chain', first_in_chain')
      BY <1>1, <2>3 DEF Cyclic
    <3>. QED BY <2>1, <3>1 DEF ReportOK, Cyclic
  <2>. QED BY <2>2, <2>3
<1>5. OutcomeOK'
  BY <1>1 DEF OutcomeOK
<1>. QED BY <1>2, <1>3, <1>4, <1>5

(* The parent is in the chain: it has come back to the innermost object. *)
LEMMA CycleStep ==
  ASSUME IInv, ParentInChain
  PROVE  IInv'
<1>1. /\ outcome = "walking" /\ depth > 0 /\ ~ parent_is_defined
      /\ Contains(seen_in_this_chain, parent)
      /\ Throw("cyclic_inheritance") /\ first_in_chain' = target
  BY DEF ParentInChain, InCall
<1>2. /\ TypeOK /\ ChainOK
      /\ depth = Len(seen_in_this_chain) /\ depth \in 1 .. Len(seen_in_this_chain)
      /\ Len(seen_in_this_chain) \in Nat /\ target \in Objects
  BY <1>1, WalkFacts DEF IInv, ChainOK
<1>3. PICK i \in 1 .. Len(seen_in_this_chain) : seen_in_this_chain[i] = parent
  BY <1>1 DEF Contains
<1>4. depth - i \in Nat /\ i + (depth - i) = depth
  BY <1>2
<1>5. Up(inheritance, parent)[depth - i] = target
  <2>1. Up(inheritance, seen_in_this_chain[i])[depth - i] = seen_in_this_chain[i + (depth - i)]
    BY <1>2, <1>4, ChainIsUp
  <2>. QED BY <1>3, <1>4, <2>1 DEF target
<1>6. Up(inheritance, target)[(depth - i) + 1] = target
  BY <1>2, <1>4, <1>5, UpOfParent DEF parent
<1>7. Above(inheritance, target, target)
  BY <1>4, <1>6 DEF Above
<1>8. "cyclic_inheritance" \in Outcomes \ {"reported"}
  BY DEF Outcomes, Cyclic
<1>. QED BY <1>1, <1>2, <1>7, <1>8, ThrowStep

(* "current inherits from next" *)
LEMMA PrintStep ==
  ASSUME IInv, PrintLine
  PROVE  IInv'
<1>. DEFINE up      == Up(inheritance, first_in_chain)
            n       == Len(report)
            current == IF report = << >> THEN first_in_chain ELSE Last(report)[2]
            next    == inheritance[current]
<1>1. /\ outcome = "cyclic_inheritance"
      /\ report' = Append(report, <<current, next>>)
      /\ outcome' = IF next = first_in_chain THEN "reported" ELSE outcome
      /\ UNCHANGED <<definitions, copies, walk, first_in_chain>>
  BY DEF PrintLine
<1>2. /\ TypeOK /\ ChainOK /\ CopiesOK /\ DefinedOK
      /\ first_in_chain \in Objects
      /\ Above(inheritance, first_in_chain, first_in_chain)
      /\ \A i \in 1 .. n : report[i] = <<up[i - 1], up[i]>>
      /\ \A i \in 1 .. n - 1 : up[i] # first_in_chain
      /\ n > 0 => up[n] # first_in_chain
  BY <1>1 DEF IInv, ReportOK, Cyclic
<1>3. /\ UNCHANGED <<are_dictionaries, inheritance, externalTypes>>
      /\ UNCHANGED <<fields, field_index, operations, non_intrinsic_types>>
      /\ UNCHANGED <<already_seen, seen_in_this_chain, depth, parent_is_defined>>
  BY <1>1 DEF definitions, copies, walk
<1>4. report \in Seq(Objects \X Objects) /\ n \in Nat
  BY <1>2, Members DEF TypeOK
<1>5. up[0] = first_in_chain /\ \A k \in Nat : up[k + 1] = Parent(inheritance, up[k])
  BY UpFacts
<1>6. \A k \in Nat : up[k] \in Objects
  BY <1>2, CycleIsClosed
<1>7. current = up[n]
  <2>1. CASE report = << >>
    BY <1>5, <2>1, EmptySeq
  <2>2. CASE report # << >>
    <3>1. n \in 1 .. n
      BY <1>4, <2>2, EmptySeq
    <3>. QED BY <1>2, <2>2, <3>1 DEF Last
  <2>. QED BY <2>1, <2>2
<1>8. next = up[n + 1]
  BY <1>4, <1>5, <1>6, <1>7 DEF Parent
<1>. HIDE DEF current, next, up
<1>9. /\ report' \in Seq(Objects \X Objects) /\ Len(report') = n + 1
      /\ \A i \in 1 .. n : report'[i] = report[i]
      /\ report'[n + 1] = <<up[n], up[n + 1]>>
  <2>1. <<current, next>> \in Objects \X Objects
    <3>1. n + 1 \in Nat
      BY <1>4
    <3>. QED BY <1>4, <1>6, <1>7, <1>8, <3>1
  <2>. QED BY <1>1, <1>4, <1>7, <1>8, <2>1, AppendProperties
<1>10. TypeOK'
  BY <1>1, <1>2, <1>3, <1>9 DEF TypeOK, Outcomes, Cyclic
<1>11. ChainOK' /\ CopiesOK' /\ DefinedOK'
  BY <1>1, <1>2, WalkKept
<1>12. ReportOK'
  <2>1. \A i \in 1 .. n + 1 : report'[i] = <<up[i - 1], up[i]>>
    <3>. TAKE i \in 1 .. n + 1
    <3>1. CASE i = n + 1
      <4>1. i - 1 = n
        BY <1>4, <3>1
      <4>. QED BY <1>9, <3>1, <4>1
    <3>2. CASE i # n + 1
      <4>1. i \in 1 .. n
        BY <1>4, <3>2
      <4>. QED BY <1>2, <1>9, <4>1
    <3>. QED BY <3>1, <3>2
  <2>2. \A i \in 1 .. (n + 1) - 1 : up[i] # first_in_chain
    <3>. TAKE i \in 1 .. (n + 1) - 1
    <3>1. i \in 1 .. n - 1 \/ (i = n /\ n > 0)
      BY <1>4
    <3>. QED BY <1>2, <3>1
  <2>3. /\ outcome' \in Cyclic
        /\ outcome' = "reported" => up[n + 1] = first_in_chain
        /\ outcome' # "reported" => up[n + 1] # first_in_chain
    BY <1>1, <1>8 DEF Cyclic
  <2>4. up = Up(inheritance', first_in_chain') /\ first_in_chain' = first_in_chain
        /\ inheritance' = inheritance
    BY <1>1, <1>3 DEF up
  <2>. QED BY <1>2, <1>4, <1>9, <2>1, <2>2, <2>3, <2>4 DEF ReportOK
<1>13. OutcomeOK'
  BY <1>1, <1>3 DEF OutcomeOK, IInv
<1>. QED BY <1>10, <1>11, <1>12, <1>13 DEF IInv

(* The parent was done before, by an earlier call or chain. *)
LEMMA AlreadyDefinedStep ==
  ASSUME IInv, ParentAlreadyDefined
  PROVE  IInv'
<1>1. /\ depth > 0 /\ ~ parent_is_defined
      /\ parent \in already_seen /\ ~ Contains(seen_in_this_chain, parent)
      /\ parent_is_defined' = TRUE
      /\ UNCHANGED <<definitions, copies, failure, report, already_seen, seen_in_this_chain, depth>>
  BY DEF ParentAlreadyDefined, InCall
<1>2. TypeOK /\ ChainOK /\ CopiesOK /\ DefinedOK
  BY DEF IInv
<1>3. /\ UNCHANGED <<are_dictionaries, inheritance, externalTypes>>
      /\ UNCHANGED <<fields, field_index, operations, non_intrinsic_types>>
      /\ UNCHANGED <<outcome, first_in_chain>>
  BY <1>1 DEF definitions, copies, failure
<1>4. parent \in Defined
  <2>1. depth = Len(seen_in_this_chain)
    BY <1>1, <1>2 DEF ChainOK
  <2>. QED BY <1>1, <1>2, <2>1, WalkFacts DEF Defined
<1>5. Defined' = Defined /\ parent' = parent
  BY <1>1, <1>3 DEF Defined, parent, target
<1>6. TypeOK'
  BY <1>1, <1>2, <1>3 DEF TypeOK
<1>7. ChainOK'
  BY <1>1, <1>2, <1>3, <1>4, <1>5 DEF ChainOK
<1>8. CopiesOK' /\ DefinedOK'
  BY <1>1, <1>2, <1>5, CopiesKept
<1>9. ReportOK' /\ OutcomeOK'
  BY <1>1, <1>3 DEF IInv, ReportOK, OutcomeOK
<1>. QED BY <1>6, <1>7, <1>8, <1>9 DEF IInv

LEMMA FoundStep ==
  ASSUME IInv, ChainsFound
  PROVE  IInv'
<1>1. /\ outcome = "walking" /\ depth = 0 /\ Objects \subseteq already_seen /\ outcome' = "done"
      /\ UNCHANGED <<definitions, copies, walk, first_in_chain, report>>
  BY DEF ChainsFound
<1>2. TypeOK /\ ChainOK /\ CopiesOK /\ DefinedOK
  BY DEF IInv
<1>3. /\ UNCHANGED <<are_dictionaries, inheritance, externalTypes>>
      /\ UNCHANGED <<fields, field_index, operations, non_intrinsic_types>>
      /\ UNCHANGED <<already_seen, seen_in_this_chain, depth, parent_is_defined>>
  BY <1>1 DEF definitions, copies, walk
<1>4. TypeOK'
  BY <1>1, <1>2, <1>3 DEF TypeOK, Outcomes
<1>5. ChainOK' /\ CopiesOK' /\ DefinedOK'
  BY <1>1, <1>2, WalkKept
<1>6. ReportOK' /\ OutcomeOK'
  BY <1>1, <1>3 DEF IInv, ReportOK, OutcomeOK, Cyclic
<1>. QED BY <1>4, <1>5, <1>6 DEF IInv

LEMMA IInvIsInductive ==
  IInv /\ [Next]_vars => IInv'
<1>. SUFFICES ASSUME IInv, [Next]_vars
              PROVE  IInv'
  OBVIOUS
<1>1. ASSUME NEW i \in Objects, StartObject(i)
      PROVE  IInv'
  <2>1. /\ outcome = "walking" /\ depth = 0 /\ i \in Objects \ already_seen /\ Call(i, << >>)
        /\ UNCHANGED <<definitions, copies, failure, report>>
    BY <1>1 DEF StartObject
  <2>. QED BY <2>1, CallStep
<1>2. CASE ParentMissing
  <2>1. outcome = "walking" /\ first_in_chain' = first_in_chain
    BY <1>2 DEF ParentMissing, InCall
  <2>2. Throw("external_inheritance") \/ Throw("no_definition")
    BY <1>2 DEF ParentMissing
  <2>3. \A error \in {"external_inheritance", "no_definition"} :
           error \in Outcomes \ {"reported"} /\ error # "done" /\ error \notin Cyclic
    BY DEF Outcomes, Cyclic
  <2>. QED BY <2>1, <2>2, <2>3, ThrowStep
<1>3. CASE ParentInChain
  BY <1>3, CycleStep
<1>4. CASE DefineParent
  <2>1. /\ outcome = "walking" /\ InCall /\ parent \in Objects \ already_seen
        /\ Call(parent, seen_in_this_chain)
        /\ UNCHANGED <<definitions, copies, failure, report>>
    BY <1>4 DEF DefineParent, InCall
  <2>. QED BY <2>1, CallStep
<1>5. CASE ParentAlreadyDefined
  BY <1>5, AlreadyDefinedStep
<1>6. CASE CopyFromParent
  BY <1>6, CopyStep
<1>7. CASE NoParent
  BY <1>7, NoParentStep
<1>8. CASE ChainsFound
  BY <1>8, FoundStep
<1>9. CASE PrintLine
  BY <1>9, PrintStep
<1>10. CASE UNCHANGED vars
  <2>1. /\ UNCHANGED <<definitions, copies, walk, outcome, first_in_chain, report>>
        /\ UNCHANGED <<are_dictionaries, inheritance, externalTypes>>
        /\ UNCHANGED <<fields, field_index, operations, non_intrinsic_types>>
        /\ UNCHANGED <<already_seen, seen_in_this_chain, depth, parent_is_defined>>
    BY <1>10 DEF vars, definitions, copies, walk, failure
  <2>2. TypeOK'
    BY <2>1 DEF IInv, TypeOK
  <2>3. ChainOK' /\ CopiesOK' /\ DefinedOK'
    BY <2>1, WalkKept DEF IInv
  <2>4. ReportOK' /\ OutcomeOK'
    BY <2>1 DEF IInv, ReportOK, OutcomeOK
  <2>. QED BY <2>2, <2>3, <2>4 DEF IInv
<1>. QED BY <1>1, <1>2, <1>3, <1>4, <1>5, <1>6, <1>7, <1>8, <1>9, <1>10 DEF Next, Stop

THEOREM IInvHolds == Spec => []IInv
<1>1. Init => IInv
  BY InitIInv
<1>2. IInv /\ [Next]_vars => IInv'
  BY IInvIsInductive
<1>. QED BY <1>1, <1>2, PTL DEF Spec

(* Every variable keeps its type: what is copied are fields and operations  *)
(* of the objects, and what is printed are pairs of objects.                *)
THEOREM TypeCorrect == Spec => []TypeOK
<1>1. IInv => TypeOK
  BY DEF IInv
<1>. QED BY <1>1, IInvHolds, PTL

----------------------------------------------------------------------------
(* What the invariant says at the end of the pass. *)
LEMMA AllDefined ==
  ASSUME IInv, outcome = "done"
  PROVE  Defined = Objects
<1>1. depth = 0 /\ already_seen = Objects
  BY DEF IInv, OutcomeOK, TypeOK
<1>. QED BY <1>1 DEF Defined

LEMMA FirstIsInRange ==
  ASSUME NEW parents, NEW x, NEW y \in Objects, NEW n \in Nat, IsFirst(parents, x, y, n)
  PROVE  n \in 0 .. Cardinality(Objects)
<1>1. Cardinality(Objects) \in Nat
  BY ObjectsAssumption, FS_CardinalityType
<1>2. n + 1 <= Cardinality(Objects)
  BY FirstIsBounded
<1>. QED BY <1>1, <1>2

LEMMA OwnersAreIncludedFollows ==
  IInv => OwnersAreIncluded
<1>0. SUFFICES ASSUME IInv, NEW x \in Objects, NEW f \in ToSet(fields[x])
               PROVE  \E n \in 0 .. Cardinality(Objects) :
                         /\ Generation(x)[n] = f[1]
                         /\ \A k \in 0 .. n - 1 :
                              Generation(x)[k + 1] \in non_intrinsic_types[Generation(x)[k]]
  BY DEF OwnersAreIncluded
<1>1. f[1] \in Objects
  <2>1. fields[x] \in Seq(Fields)
    BY <1>0 DEF IInv, TypeOK
  <2>. QED BY <2>1, Members DEF Fields
<1>2. PICK n \in Nat : Reaches(inheritance, non_intrinsic_types, x, f[1], n)
  BY <1>0 DEF IInv, CopiesOK, Included
<1>3. PICK m \in 0 .. n : IsFirst(inheritance, x, f[1], m)
  BY <1>2, FirstExists DEF Reaches
<1>4. m \in 0 .. Cardinality(Objects)
  <2>1. m \in Nat
    OBVIOUS
  <2>. QED BY <1>1, <1>3, <2>1, FirstIsInRange
<1>5. Up(inheritance, x)[m] = f[1]
  BY <1>3 DEF IsFirst
<1>6. \A k \in 0 .. m - 1 : 
         Up(inheritance, x)[k + 1] \in non_intrinsic_types[Up(inheritance, x)[k]]
  <2>1. \A k \in 0 .. m - 1 : k \in 0 .. n - 1
    OBVIOUS
  <2>. QED BY <1>2, <2>1 DEF Reaches
<1>. QED BY <1>4, <1>5, <1>6, GenerationIsUp

(* For every inheritance relation, the header of the owner of an inherited  *)
(* field is included by each object on the way up to the owner, although    *)
(* augment_object adds a parent to non_intrinsic_types only if it copied    *)
(* from it.                                                                 *)
THEOREM OwnersAreIncludedHolds == Spec => []OwnersAreIncluded
<1>1. IInv => OwnersAreIncluded
  BY OwnersAreIncludedFollows
<1>. QED BY <1>1, IInvHolds, PTL

(* The n-th generation is the nearest that defines a name if it is the      *)
(* first that does.                                                         *)
LEMMA NearestIsInRange ==
  ASSUME NEW own \in SUBSET Fields, NEW x \in Objects, NEW f \in Fields
  PROVE  Nearest(inheritance, own, x, f)
           <=> /\ f \in own
               /\ \E n \in 0 .. Cardinality(Objects) :
                     /\ Up(inheritance, x)[n] = f[1]
                     /\ \A k \in 0 .. n - 1 : <<Up(inheritance, x)[k], f[2]>> \notin own
<1>1. Cardinality(Objects) \in Nat
  BY ObjectsAssumption, FS_CardinalityType
<1>2. ASSUME Nearest(inheritance, own, x, f)
      PROVE  \E n \in 0 .. Cardinality(Objects) :
                /\ Up(inheritance, x)[n] = f[1]
                /\ \A k \in 0 .. n - 1 : <<Up(inheritance, x)[k], f[2]>> \notin own
  <2>1. PICK n \in Nat : /\ Up(inheritance, x)[n] = f[1]
                         /\ \A k \in 0 .. n - 1 : <<Up(inheritance, x)[k], f[2]>> \notin own
    BY <1>2 DEF Nearest
  <2>2. f = <<f[1], f[2]>> /\ f[1] \in Objects
    BY DEF Fields
  <2>3. \A k \in 0 .. n - 1 : Up(inheritance, x)[k] # f[1]
    BY <1>2, <2>1, <2>2 DEF Nearest
  <2>4. n \in 0 .. Cardinality(Objects)
    BY <2>1, <2>2, <2>3, FirstIsInRange DEF IsFirst
  <2>. QED BY <2>1, <2>4
<1>3. 0 .. Cardinality(Objects) \subseteq Nat
  BY <1>1
<1>. QED BY <1>2, <1>3 DEF Nearest

LEMMA OwnFieldsAreOwn ==
  ASSUME TypeOK, NEW f \in Fields
  PROVE  f \in OwnFields(f[1]) <=> f \in OwnOf(fields)
BY DEF OwnFields, OwnOf

LEMMA FieldsAreInheritedFollows ==
  IInv => FieldsAreInherited
<1>0. SUFFICES ASSUME IInv, outcome = "done", NEW x \in Objects
               PROVE  /\ ToSet(fields[x]) =
                           {f \in Fields :
                              \E n \in 0 .. Cardinality(Objects) :
                                 /\ Generation(x)[n] = f[1]
                                 /\ IsNearest(x, n, LAMBDA y : <<y, f[2]>> \in OwnFields(y))}
                      /\ IsInjective(fields[x])
                      /\ \A i \in DOMAIN fields[x] : \A j \in 1 .. i - 1 :
                            \/ fields[x][i][1] = fields[x][j][1]
                            \/ IsAncestor(fields[x][i][1], fields[x][j][1])
  BY DEF FieldsAreInherited, NearestFieldsAreInherited, EarliestParentFirst
<1>. DEFINE own == OwnOf(fields)
            up  == Up(inheritance, x)
<1>1. TypeOK /\ FieldLists(inheritance, fields, Objects)
  BY <1>0, AllDefined DEF IInv, CopiesOK
<1>2. own \in SUBSET Fields /\ ToSet(fields[x]) = {f \in Fields : Nearest(inheritance, own, x, f)}
  BY <1>1 DEF FieldLists, OwnOf
<1>3. /\ fields[x] \in Seq(Fields) /\ Len(fields[x]) \in Nat
      /\ DOMAIN fields[x] = 1 .. Len(fields[x])
      /\ \A i \in 1 .. Len(fields[x]) : fields[x][i] \in Fields
  BY <1>1, Members DEF TypeOK
<1>4. \A y \in Objects : \A f \in Fields :
         <<y, f[2]>> \in OwnFields(y) <=> <<y, f[2]>> \in own
  <2>. TAKE y \in Objects
  <2>. TAKE f \in Fields
  <2>1. <<y, f[2]>> \in Fields /\ <<y, f[2]>>[1] = y
    BY DEF Fields
  <2>. QED BY <1>1, <2>1, OwnFieldsAreOwn
<1>. HIDE DEF own
<1>5. ASSUME NEW f \in Fields, NEW n \in 0 .. Cardinality(Objects), up[n] = f[1]
      PROVE  IsNearest(x, n, LAMBDA y : <<y, f[2]>> \in OwnFields(y))
               <=> /\ f \in own
                   /\ \A k \in 0 .. n - 1 : <<up[k], f[2]>> \notin own
  <2>1. Generation(x) = up
    BY GenerationIsUp
  <2>2. n \in Nat /\ f[1] \in Objects /\ f = <<f[1], f[2]>>
    <3>1. Cardinality(Objects) \in Nat
      BY ObjectsAssumption, FS_CardinalityType
    <3>. QED BY <3>1 DEF Fields
  <2>3. \A k \in 0 .. n - 1 : up[k] \in Objects
    <3>1. \A k \in 0 .. n - 1 : k \in 0 .. n
      BY <2>2
    <3>. QED BY <1>5, <2>2, <3>1, UpBelow
  <2>. HIDE DEF up
  <2>4. \A k \in 0 .. n - 1 : <<up[k], f[2]>> \in OwnFields(up[k]) <=> <<up[k], f[2]>> \in own
    BY <1>4, <2>3
  <2>5. <<up[n], f[2]>> \in OwnFields(up[n]) <=> f \in own
    BY <1>4, <1>5, <2>2
  <2>. QED BY <1>5, <2>1, <2>2, <2>4, <2>5 DEF IsNearest
<1>6. ToSet(fields[x]) =
        {f \in Fields : \E n \in 0 .. Cardinality(Objects) :
                           /\ Generation(x)[n] = f[1]
                           /\ IsNearest(x, n, LAMBDA y : <<y, f[2]>> \in OwnFields(y))}
  <2>1. ASSUME NEW f \in Fields
        PROVE  Nearest(inheritance, own, x, f)
                 <=> \E n \in 0 .. Cardinality(Objects) :
                        /\ Generation(x)[n] = f[1]
                        /\ IsNearest(x, n, LAMBDA y : <<y, f[2]>> \in OwnFields(y))
    <3>1. Generation(x) = up
      BY GenerationIsUp
    <3>2. Nearest(inheritance, own, x, f)
            <=> /\ f \in own
                /\ \E n \in 0 .. Cardinality(Objects) :
                     /\ up[n] = f[1]
                     /\ \A k \in 0 .. n - 1 : <<up[k], f[2]>> \notin own
      BY <1>2, NearestIsInRange
    <3>. HIDE DEF up
    <3>. QED BY <1>5, <3>1, <3>2
  <2>. QED BY <1>2, <2>1
<1>7. IsInjective(fields[x])
  <2>1. \A i, j \in 1 .. Len(fields[x]) : i < j => fields[x][i] # fields[x][j]
    BY <1>1 DEF FieldLists, NamesDiffer
  <2>2. \A i, j \in 1 .. Len(fields[x]) : i # j => i < j \/ j < i
    BY <1>3
  <2>. QED BY <1>3, <2>1, <2>2 DEF IsInjective
<1>8. ASSUME NEW i \in DOMAIN fields[x], NEW j \in 1 .. i - 1
      PROVE  \/ fields[x][i][1] = fields[x][j][1]
             \/ IsAncestor(fields[x][i][1], fields[x][j][1])
  <2>1. i \in 1 .. Len(fields[x]) /\ j \in 1 .. Len(fields[x]) /\ j < i
    BY <1>3
  <2>2. fields[x][i][1] \in Objects /\ fields[x][j][1] \in Objects
    BY <1>3, <2>1 DEF Fields
  <2>3. \/ fields[x][j][1] = fields[x][i][1]
        \/ Above(inheritance, fields[x][i][1], fields[x][j][1])
    BY <1>1, <2>1 DEF FieldLists, Ordered
  <2>. QED BY <2>2, <2>3, AboveIsAncestor
<1>. QED BY <1>6, <1>7, <1>8

(* For every inheritance relation and whatever the order of the file, the   *)
(* members of a dictionary or attributes of an interface are those of the   *)
(* nearest ancestor that defines each name, each once, and those of a       *)
(* farther ancestor come before those of a nearer.                          *)
THEOREM FieldsAreInheritedHolds == Spec => []FieldsAreInherited
<1>1. IInv => FieldsAreInherited
  BY FieldsAreInheritedFollows
<1>. QED BY <1>1, IInvHolds, PTL

LEMMA OwnHandlersAreOwn ==
  ASSUME IInv, NEW y \in Objects, NEW name \in Names
  PROVE  (\E o \in OwnOperations(y) : o.operationName = name)
           <=> <<y, name>> \in OwnHandlers(operations)
<1>1. <<y, name>> \in Fields /\ <<y, name>>[1] = y /\ <<y, name>>[2] = name
  BY DEF Fields
<1>. QED BY <1>1 DEF OwnHandlers, OwnOperations

LEMMA HandlersAreTheNearestFollows ==
  IInv => HandlersAreTheNearest
<1>. DEFINE Defines(n, y) == \E o \in OwnOperations(y) : o.operationName = n
            own == OwnHandlers(operations)
<1>0. SUFFICES ASSUME IInv, outcome = "done", NEW x \in Objects
               PROVE  /\ \A i, j \in DOMAIN operations[x] :
                           operations[x][i].operationName = operations[x][j].operationName => i = j
                      /\ \A name \in Names, n \in 0 .. Cardinality(Objects) :
                           IsNearest(x, n, LAMBDA y : Defines(name, y)) =>
                              \E o \in ToSet(operations[x]) :
                                 o.operationName = name /\ HandlerOwner(x, o) = Generation(x)[n]
                      /\ \A o \in ToSet(operations[x]) :
                           Defines(o.operationName, HandlerOwner(x, o))
  BY DEF HandlersAreTheNearest
<1>1. /\ OperationLists(inheritance, operations, Objects)
      /\ operations[x] \in Seq(AllOperations)
  BY <1>0, AllDefined DEF IInv, CopiesOK, TypeOK, AllOperations
<1>2. ASSUME NEW i \in DOMAIN operations[x], NEW j \in DOMAIN operations[x],
             operations[x][i].operationName = operations[x][j].operationName
      PROVE  i = j
  <2>1. i \in 1 .. Len(operations[x]) /\ j \in 1 .. Len(operations[x]) /\ Len(operations[x]) \in Nat
    BY <1>1, Members
  <2>2. ~ (i < j) /\ ~ (j < i)
    BY <1>1, <1>2, <2>1 DEF OperationLists, OperationsDiffer
  <2>. QED BY <2>1, <2>2
<1>3. \A y \in Objects : \A name \in Names : Defines(name, y) <=> <<y, name>> \in own
  BY <1>0, OwnHandlersAreOwn
<1>4. own \in SUBSET Fields
  BY DEF OwnHandlers
<1>. HIDE DEF own, Defines
<1>5. ASSUME NEW name \in Names, NEW n \in 0 .. Cardinality(Objects),
             IsNearest(x, n, LAMBDA y : Defines(name, y))
      PROVE  \E o \in ToSet(operations[x]) :
                o.operationName = name /\ HandlerOwner(x, o) = Generation(x)[n]
  <2>. DEFINE up == Up(inheritance, x)
              h  == <<up[n], name>>
  <2>1. Generation(x) = up
    BY GenerationIsUp
  <2>2. /\ up[n] \in Objects
        /\ Defines(name, up[n])
        /\ \A k \in 0 .. n - 1 : ~ Defines(name, up[k])
    BY <1>5, <2>1 DEF IsNearest
  <2>3. n \in Nat
    BY ObjectsAssumption, FS_CardinalityType
  <2>4. \A k \in 0 .. n - 1 : up[k] \in Objects
    <3>1. \A k \in 0 .. n - 1 : k \in 0 .. n
      BY <2>3
    <3>. QED BY <2>2, <2>3, <3>1, UpBelow
  <2>5. h \in Fields /\ h[1] = up[n] /\ h[2] = name
    BY <2>2 DEF Fields
  <2>. HIDE DEF up
  <2>6. h \in own /\ \A k \in 0 .. n - 1 : <<up[k], name>> \notin own
    BY <1>3, <2>2, <2>4
  <2>. HIDE DEF h
  <2>7. Nearest(inheritance, own, x, h)
    BY <2>3, <2>5, <2>6 DEF Nearest, up
  <2>8. PICK o \in ToSet(operations[x]) : Handler(x, o) = h
    BY <1>1, <2>5, <2>7 DEF OperationLists, own
  <2>9. HandlerOwner(x, o) = h[1] /\ o.operationName = h[2]
    BY <2>8 DEF Handler
  <2>. QED BY <2>1, <2>5, <2>9
<1>6. ASSUME NEW o \in ToSet(operations[x])
      PROVE  Defines(o.operationName, HandlerOwner(x, o))
  <2>1. Handler(x, o) \in own
    BY <1>1 DEF OperationLists, own
  <2>2. Handler(x, o) \in Fields
    BY <1>4, <2>1
  <2>3. HandlerOwner(x, o) \in Objects /\ o.operationName \in Names
    BY <2>2 DEF Handler, Fields
  <2>. QED BY <1>3, <2>1, <2>3 DEF Handler
<1>. QED BY <1>2, <1>5, <1>6 DEF Defines

(* For every inheritance relation, each name an object has an operation of, *)
(* own or inherited, has one operation, handled by the C function of the    *)
(* nearest interface that defines the name itself.                          *)
THEOREM HandlersAreTheNearestHolds == Spec => []HandlersAreTheNearest
<1>1. IInv => HandlersAreTheNearest
  BY HandlersAreTheNearestFollows
<1>. QED BY <1>1, IInvHolds, PTL

(* A step changes the lists of one object at most, and of none that is      *)
(* done.                                                                    *)
LEMMA StepKeepsDefined ==
  ASSUME IInv, [Next]_vars, NEW x \in Defined
  PROVE  /\ fields'[x] = fields[x]
         /\ operations'[x] = operations[x]
         /\ non_intrinsic_types'[x] = non_intrinsic_types[x]
<1>1. CASE CopyFromParent
  <2>1. x # target /\ x \in Objects
    BY <1>1, WalkFacts DEF IInv, CopyFromParent
  <2>2. TypeOK /\ AugmentThing(parent, target)
    BY <1>1 DEF IInv, CopyFromParent
  <2>3. /\ fields \in [Objects -> Seq(Fields)]
        /\ operations \in [Objects -> Seq(AllOperations)]
        /\ non_intrinsic_types \in [Objects -> SUBSET Objects]
    BY <2>2 DEF TypeOK, AllOperations
  <2>4. /\ \E new : fields' = [fields EXCEPT ![target] = new]
        /\ \E new : operations' = [operations EXCEPT ![target] = new]
        /\ \/ \E new : non_intrinsic_types' = [non_intrinsic_types EXCEPT ![target] = new]
           \/ non_intrinsic_types' = non_intrinsic_types
    BY <2>2 DEF AugmentThing
  <2>. QED BY <2>1, <2>3, <2>4
<1>2. CASE UNCHANGED copies
  BY <1>2 DEF copies
<1>3. CopyFromParent \/ UNCHANGED copies
  BY DEF Next, StartObject, ParentMissing, ParentInChain, DefineParent, ParentAlreadyDefined,
         NoParent, ChainsFound, PrintLine, Stop, Throw, vars
<1>. QED BY <1>1, <1>2, <1>3

(* Whatever order the objects come in, nothing is added to an object once   *)
(* its own call of augment_object has returned.                             *)
THEOREM DefinedObjectsAreFinalHolds == Spec => DefinedObjectsAreFinal
<1>1. IInv /\ [Next]_vars =>
        [\A x \in Defined : /\ fields'[x] = fields[x]
                            /\ operations'[x] = operations[x]
                            /\ non_intrinsic_types'[x] = non_intrinsic_types[x]]_vars
  BY StepKeepsDefined
<1>. QED BY <1>1, IInvHolds, PTL DEF Spec, DefinedObjectsAreFinal

LEMMA OnlyCyclesAreCyclicFollows ==
  IInv => OnlyCyclesAreCyclic
<1>1. ASSUME IInv, outcome = "done", NEW x \in Objects
      PROVE  inheritance[x] \notin Elsewhere /\ ~ InACycle(x)
  <2>1. /\ inheritance[x] = None \/ inheritance[x] \in Objects
        /\ ~ Above(inheritance, x, x)
    BY <1>1, AllDefined DEF IInv, DefinedOK
  <2>2. ~ InACycle(x)
    BY <2>1, AboveIsAncestor DEF InACycle
  <2>. QED BY <2>1, <2>2, ElsewhereAssumption, NoneAssumption
<1>2. ASSUME IInv, outcome \in Cyclic
      PROVE  InACycle(first_in_chain)
  <2>1. first_in_chain \in Objects /\ Above(inheritance, first_in_chain, first_in_chain)
    BY <1>2 DEF IInv, ReportOK
  <2>. QED BY <2>1, AboveIsAncestor DEF InACycle
<1>. QED BY <1>1, <1>2 DEF OnlyCyclesAreCyclic

LEMMA ReportIsTheCycleFollows ==
  IInv => ReportIsTheCycle
<1>0. SUFFICES ASSUME IInv, outcome = "reported"
               PROVE  /\ \A i \in DOMAIN report : report[i][2] = inheritance[report[i][1]]
                      /\ {report[i][1] : i \in DOMAIN report}
                           = {x \in Objects : \/ x = first_in_chain
                                             \/ IsAncestor(first_in_chain, x)}
                      /\ IsInjective(report)
  BY DEF ReportIsTheCycle
<1>. DEFINE first == first_in_chain
            up    == Up(inheritance, first)
            n     == Len(report)
<1>1. /\ first \in Objects /\ Above(inheritance, first, first)
      /\ \A i \in 1 .. n : report[i] = <<up[i - 1], up[i]>>
      /\ \A i \in 1 .. n - 1 : up[i] # first
      /\ n > 0 /\ up[n] = first
  BY <1>0 DEF IInv, ReportOK, Cyclic
<1>2. n \in Nat /\ DOMAIN report = 1 .. n
  BY <1>0, Members DEF IInv, TypeOK
<1>3. \A k \in Nat : up[k] \in Objects
  BY <1>1, CycleIsClosed
<1>4. up[0] = first /\ \A k \in Nat : up[k + 1] = inheritance[up[k]]
  BY <1>3, UpFacts DEF Parent
<1>5. \A i \in 1 .. n : i - 1 \in Nat /\ (i - 1) + 1 = i /\ i \in Nat
  BY <1>2
<1>6. \A i \in 1 .. n : report[i][2] = inheritance[report[i][1]]
  <2>1. \A i \in 1 .. n : report[i][1] = up[i - 1] /\ report[i][2] = up[i]
    BY <1>1
  <2>. HIDE DEF up, n
  <2>. QED BY <1>4, <1>5, <2>1
<1>7. ASSUME NEW d \in Nat
      PROVE  up[n + d] = up[d]
  <2>1. up[n + d] = Up(inheritance, up[n])[d]
    <3>. HIDE DEF n
    <3>. QED BY <1>2, UpAbove
  <2>. QED BY <1>1, <2>1
<1>8. ASSUME NEW i \in 1 .. n, NEW x, x = report[i][1]
      PROVE  x \in Objects /\ (x = first \/ IsAncestor(first, x))
  <2>1. x = up[i - 1] /\ x \in Objects
    BY <1>1, <1>3, <1>5, <1>8
  <2>2. CASE i = 1
    BY <1>4, <2>1, <2>2
  <2>3. CASE i # 1
    <3>1. i - 2 \in Nat /\ (i - 2) + 1 = i - 1
      BY <1>2, <2>3
    <3>2. Above(inheritance, first, x)
      BY <2>1, <3>1 DEF Above
    <3>. QED BY <1>1, <2>1, <3>2, AboveIsAncestor
  <2>. QED BY <2>2, <2>3
<1>9. ASSUME NEW x \in Objects, x = first \/ IsAncestor(first, x)
      PROVE  \E i \in 1 .. n : x = report[i][1]
  <2>1. PICK m \in Nat : up[m] = x
    <3>1. CASE x = first
      BY <1>4, <3>1
    <3>2. CASE IsAncestor(first, x)
      <4>1. PICK l \in Nat : up[l + 1] = x
        BY <1>1, <3>2, AboveIsAncestor DEF Above
      <4>2. l + 1 \in Nat
        OBVIOUS
      <4>. QED BY <4>1, <4>2
    <3>. QED BY <1>9, <3>1, <3>2
  <2>2. PICK k \in 0 .. m : IsFirst(inheritance, first, x, k)
    BY <2>1, FirstExists
  <2>3. up[k] = x /\ \A l \in 0 .. k - 1 : up[l] # x
    BY <2>2 DEF IsFirst
  <2>4. k < n
    <3>. SUFFICES ASSUME ~ (k < n)
                  PROVE  FALSE
      OBVIOUS
    <3>1. k - n \in Nat /\ n + (k - n) = k /\ k - n \in 0 .. k - 1
      BY <1>1, <1>2
    <3>. QED BY <1>7, <2>3, <3>1
  <2>5. k + 1 \in 1 .. n /\ (k + 1) - 1 = k
    BY <1>2, <2>4
  <2>6. report[k + 1][1] = up[k]
    BY <1>1, <2>5
  <2>. QED BY <2>3, <2>5, <2>6
<1>10. ASSUME NEW i \in 1 .. n, NEW j \in 1 .. n, i < j, report[i] = report[j]
       PROVE  FALSE
  <2>1. up[i] = up[j]
    BY <1>1, <1>10
  <2>2. n - j \in Nat /\ i + (n - j) \in 1 .. n - 1 /\ j + (n - j) = n /\ i \in Nat /\ j \in Nat
    BY <1>2, <1>10
  <2>3. /\ up[i + (n - j)] = Up(inheritance, up[i])[n - j]
        /\ up[j + (n - j)] = Up(inheritance, up[j])[n - j]
    <3>. DEFINE d == n - j
    <3>. HIDE DEF d
    <3>1. d \in Nat
      BY <2>2 DEF d
    <3>2. up[i + d] = Up(inheritance, up[i])[d] /\ up[j + d] = Up(inheritance, up[j])[d]
      BY <2>2, <3>1, UpAbove
    <3>. QED BY <3>2 DEF d
  <2>. QED BY <1>1, <2>1, <2>2, <2>3
<1>11. IsInjective(report)
  <2>1. \A i, j \in 1 .. n : i # j => i < j \/ j < i
    BY <1>2
  <2>. QED BY <1>2, <1>10, <2>1 DEF IsInjective
<1>. HIDE DEF n, first, up
<1>12. {report[i][1] : i \in 1 .. n} = {x \in Objects : x = first \/ IsAncestor(first, x)}
  BY <1>8, <1>9
<1>. QED BY <1>2, <1>6, <1>11, <1>12 DEF n, first

(* For every inheritance relation, the pass completes only without a cycle, *)
(* reports only an object that is its own ancestor, and prints each object  *)
(* of the cycle and no other, once, with its own parent.                    *)
THEOREM CyclesAreReportedHolds == Spec => []CyclesAreReported
<1>1. IInv => CyclesAreReported
  BY OnlyCyclesAreCyclicFollows, ReportIsTheCycleFollows DEF CyclesAreReported
<1>. QED BY <1>1, IInvHolds, PTL
=============================================================================

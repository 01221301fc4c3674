------------------------- MODULE RuntimeInitProofs -------------------------
(***************************************************************************)
(* Proofs about RuntimeInit, for every set of constructs, whatever their    *)
(* kinds, what they depend on, and the order in which the loader runs the   *)
(* functions that register them.                                            *)
(***************************************************************************)
EXTENDS RuntimeInit, SequenceTheorems, TLAPS

----------------------------------------------------------------------------
(* The holder.                                                              *)

(* No prototype is registered before the holder is made. *)
Consistent(h) == h \in Holder /\ (h.exists \/ h.properties = {})

(* What a balanced use of the holder leaves: it exists, it has the given    *)
(* properties, and C holds what it held before.                             *)
Balanced(h, g, properties) ==
  /\ g \in Holder
  /\ g.exists
  /\ g.properties = properties
  /\ g.handles = h.handles

LEMMA AcquireType ==
  ASSUME NEW h \in Holder, NEW v \in Values
  PROVE  /\ Acquire(h, v) \in Holder
         /\ Acquire(h, v).exists = h.exists
         /\ Acquire(h, v).properties = h.properties
         /\ Acquire(h, v).handles = [h.handles EXCEPT ![v] = @ + 1]
  BY DEF Holder, Acquire

LEMMA ReleaseType ==
  ASSUME NEW h \in Holder, NEW v \in Values
  PROVE  /\ Release(h, v) \in Holder
         /\ Release(h, v).exists = h.exists
         /\ Release(h, v).properties = h.properties
         /\ Release(h, v).handles = [h.handles EXCEPT ![v] = @ - 1]
  BY DEF Holder, Release

(* A reference that is acquired and released has not been there. *)
LEMMA BackAndForth ==
  ASSUME NEW f \in [Values -> Int], NEW v \in Values,
         NEW g, g = [f EXCEPT ![v] = @ + 1]
  PROVE  [g EXCEPT ![v] = @ - 1] = f
<1>. DEFINE k == [g EXCEPT ![v] = @ - 1]
<1>1. g \in [Values -> Int] /\ g[v] = f[v] + 1 /\ \A w \in Values \ {v} : g[w] = f[w]
  OBVIOUS
<1>2. k \in [Values -> Int] /\ k[v] = g[v] - 1 /\ \A w \in Values \ {v} : k[w] = g[w]
  BY <1>1
<1>. HIDE DEF k
<1>3. \A w \in Values : k[w] = f[w]
  BY <1>1, <1>2
<1>. QED BY <1>2, <1>3 DEF k

LEMMA GetHolder ==
  ASSUME NEW h, Consistent(h)
  PROVE  /\ get_prototypes_holder(h) \in Holder
         /\ get_prototypes_holder(h).exists
         /\ get_prototypes_holder(h).properties = h.properties
         /\ get_prototypes_holder(h).handles = [h.handles EXCEPT ![q36] = @ + 1]
<1>. DEFINE made == [Acquire(h, q36) EXCEPT !.exists = TRUE, !.properties = {}, !.this = TRUE]
            new == create_prototypes_holder(h)
            got == IF h.exists THEN h ELSE new
<1>1. h \in Holder /\ q36 \in Values
  BY DEF Consistent, Values
<1>2. /\ Acquire(h, q36) \in Holder
      /\ Acquire(h, q36).handles = [h.handles EXCEPT ![q36] = @ + 1]
  BY <1>1, AcquireType
<1>3. /\ made \in Holder /\ made.exists /\ made.properties = {}
      /\ made.handles = [h.handles EXCEPT ![q36] = @ + 1]
  BY <1>2 DEF Holder
<1>4. /\ new \in Holder /\ new.exists /\ new.properties = {}
      /\ new.handles = [made.handles EXCEPT ![q36] = @ - 1]
  <2>. HIDE DEF made
  <2>1. /\ Release(made, q36) \in Holder
        /\ Release(made, q36).exists = made.exists
        /\ Release(made, q36).properties = made.properties
        /\ Release(made, q36).handles = [made.handles EXCEPT ![q36] = @ - 1]
    BY <1>1, <1>3, ReleaseType
  <2>2. new = Release(made, q36)
    BY DEF create_prototypes_holder, made
  <2>. QED BY <1>3, <2>1, <2>2
<1>5. h.handles \in [Values -> Int]
  BY <1>1 DEF Holder
<1>6. new.handles = h.handles
  BY <1>1, <1>3, <1>4, <1>5, BackAndForth
<1>7. /\ got \in Holder /\ got.exists
      /\ got.properties = h.properties /\ got.handles = h.handles
  BY <1>1, <1>4, <1>6 DEF Consistent
<1>. HIDE DEF got, new
<1>8. get_prototypes_holder(h) = Acquire(got, q36)
  BY DEF get_prototypes_holder, got, new
<1>. QED BY <1>1, <1>7, <1>8, AcquireType

(* get_prototype returns one more reference, if there is a prototype. *)
LEMMA GetPrototype ==
  ASSUME NEW h, Consistent(h), NEW x \in Constructs
  PROVE  /\ get_prototype(h, x) \in Holder
         /\ get_prototype(h, x).exists
         /\ get_prototype(h, x).properties = h.properties
         /\ get_prototype(h, x).handles =
              IF x \in h.properties THEN [h.handles EXCEPT ![x] = @ + 1] ELSE h.handles
<1>. DEFINE held == get_prototypes_holder(h)
            got == IF x \in held.properties THEN Acquire(held, x) ELSE held
<1>1. q36 \in Values /\ x \in Values /\ h.handles \in [Values -> Int]
  BY DEF Values, Consistent, Holder
<1>2. /\ held \in Holder /\ held.exists /\ held.properties = h.properties
      /\ held.handles = [h.handles EXCEPT ![q36] = @ + 1]
  BY GetHolder
<1>. HIDE DEF held
<1>3. /\ got \in Holder /\ got.exists /\ got.properties = h.properties
      /\ got.handles = IF x \in h.properties THEN [held.handles EXCEPT ![x] = @ + 1]
                       ELSE held.handles
  BY <1>1, <1>2, AcquireType
<1>. HIDE DEF got
<1>4. get_prototype(h, x) = Release(got, q36)
  BY DEF get_prototype, got, held
<1>5. [got.handles EXCEPT ![q36] = @ - 1] =
        IF x \in h.properties THEN [h.handles EXCEPT ![x] = @ + 1] ELSE h.handles
  <2>1. CASE x \in h.properties
    <3>. DEFINE f == [h.handles EXCEPT ![x] = @ + 1]
    <3>1. f \in [Values -> Int]
      BY <1>1
    <3>2. got.handles = [f EXCEPT ![q36] = @ + 1]
      BY <1>1, <1>2, <1>3, <2>1
    <3>. HIDE DEF f
    <3>3. [got.handles EXCEPT ![q36] = @ - 1] = f
      BY <1>1, <3>1, <3>2, BackAndForth
    <3>. QED BY <2>1, <3>3 DEF f
  <2>2. CASE x \notin h.properties
    BY <1>1, <1>2, <1>3, <2>2, BackAndForth
  <2>. QED BY <2>1, <2>2
<1>. QED BY <1>1, <1>3, <1>4, <1>5, ReleaseType

(* The look-up at the head of an initializer, and the same at the end of a  *)
(* require, keep no reference.                                              *)
LEMMA LookUpBalanced ==
  ASSUME Consistent(holder), NEW x \in Constructs
  PROVE  /\ Balanced(holder, LookUp(x), holder.properties)
         /\ GraftPrototype(x) = LookUp(x)
<1>. DEFINE got == get_prototype(holder, x)
<1>1. /\ got \in Holder /\ got.exists /\ got.properties = holder.properties
      /\ got.handles = IF x \in holder.properties THEN [holder.handles EXCEPT ![x] = @ + 1]
                       ELSE holder.handles
  BY GetPrototype
<1>2. x \in Values /\ holder.handles \in [Values -> Int]
  BY DEF Values, Consistent, Holder
<1>. HIDE DEF got
<1>3. CASE x \in holder.properties
  <2>1. LookUp(x) = Release(got, x)
    BY <1>3 DEF LookUp, prototypes, got
  <2>2. [got.handles EXCEPT ![x] = @ - 1] = holder.handles
    BY <1>1, <1>2, <1>3, BackAndForth
  <2>. QED BY <1>1, <1>2, <2>1, <2>2, ReleaseType DEF Balanced, LookUp, GraftPrototype
<1>4. CASE x \notin holder.properties
  <2>1. LookUp(x) = got
    BY <1>4 DEF LookUp, prototypes, got
  <2>. QED BY <1>1, <1>4, <2>1 DEF Balanced, LookUp, GraftPrototype
<1>. QED BY <1>3, <1>4

LEMMA RegisterBalanced ==
  ASSUME NEW h, Consistent(h), NEW x \in Constructs
  PROVE  Balanced(h, register_prototype(h, x), h.properties \cup {x})
<1>. DEFINE held == get_prototypes_holder(h)
            put == [held EXCEPT !.properties = @ \cup {x}]
<1>1. q36 \in Values /\ h.handles \in [Values -> Int]
  BY DEF Values, Consistent, Holder
<1>2. /\ held \in Holder /\ held.exists /\ held.properties = h.properties
      /\ held.handles = [h.handles EXCEPT ![q36] = @ + 1]
  BY GetHolder
<1>. HIDE DEF held
<1>3. /\ put \in Holder /\ put.exists /\ put.properties = h.properties \cup {x}
      /\ put.handles = held.handles
  BY <1>2 DEF Holder
<1>. HIDE DEF put
<1>4. register_prototype(h, x) = Release(put, q36)
  BY DEF register_prototype, put, held
<1>5. [put.handles EXCEPT ![q36] = @ - 1] = h.handles
  BY <1>1, <1>2, <1>3, BackAndForth
<1>. QED BY <1>1, <1>3, <1>4, <1>5, ReleaseType DEF Balanced

(* A new prototype is registered, if it has to be, and released. *)
LEMMA MakePrototypeBalanced ==
  ASSUME Consistent(holder), NEW x \in Constructs
  PROVE  Balanced(holder, MakePrototype(x),
                  IF RegistersPrototype(x) THEN holder.properties \cup {x} ELSE holder.properties)
<1>. DEFINE found == LookUp(x)
            made == Acquire(found, x)
            kept == IF RegistersPrototype(x) THEN register_prototype(made, x) ELSE made
<1>1. x \in Values /\ holder.handles \in [Values -> Int]
  BY DEF Values, Consistent, Holder
<1>2. Balanced(holder, found, holder.properties)
  BY LookUpBalanced
<1>. HIDE DEF found
<1>3. /\ made \in Holder /\ made.exists /\ made.properties = holder.properties
      /\ made.handles = [holder.handles EXCEPT ![x] = @ + 1]
  BY <1>1, <1>2, AcquireType DEF Balanced
<1>. HIDE DEF made
<1>4. Consistent(made)
  BY <1>3 DEF Consistent
<1>5. /\ kept \in Holder /\ kept.exists /\ kept.handles = made.handles
      /\ kept.properties = IF RegistersPrototype(x) THEN holder.properties \cup {x}
                           ELSE holder.properties
  <2>1. Balanced(made, register_prototype(made, x), made.properties \cup {x})
    BY <1>4, RegisterBalanced
  <2>. QED BY <1>3, <2>1 DEF Balanced
<1>. HIDE DEF kept
<1>6. MakePrototype(x) = Release(kept, x)
  BY DEF MakePrototype, kept, made, found
<1>7. [kept.handles EXCEPT ![x] = @ - 1] = holder.handles
  BY <1>1, <1>3, <1>5, BackAndForth
<1>. QED BY <1>1, <1>5, <1>6, <1>7, ReleaseType DEF Balanced

----------------------------------------------------------------------------
(* The inductive invariant.                                                 *)

Frames == [construct : Constructs, pending : SUBSET Constructs]

(* x needs no initializer any more: its prototype is registered or, if it   *)
(* has none to register, it has been made.                                  *)
Begun(x) ==
  \/ x \in prototypes
  \/ ~RegistersPrototype(x) /\ (HasInitializer(x) => created[x] > 0)

(* Every function of the C code leaves the references as it found them. *)
HolderSound ==
  /\ Consistent(holder)
  /\ phase # "over" => holder.handles = [v \in Values |-> 0]

(* Uids are handed out in increasing order. *)
UidsSound ==
  /\ counter > any_uid
  /\ \A x \in Constructs : uid[x] = 0 \/ (uid[x] > any_uid /\ uid[x] < counter)

TablesSound == list_size > 0 /\ table_capacity > 0

(* What is over when main, and when the script, begins. *)
PhasesSound ==
  /\ phase = "loading" => next_initializer = 1
  /\ phase # "loading" => \A x \in Constructs : uid[x] # 0
  /\ phase \in {"running", "over"} => next_initializer > Len(initializer_list)
  /\ phase \in {"loading", "over"} => calls = << >>

(* What was made under a global name is in the global object, and the       *)
(* holder has no other prototypes than it should.                           *)
GlobalsSound ==
  /\ \A x \in Constructs : IsGlobal(x) /\ created[x] > 0 => x \in global_object
  /\ \A x \in prototypes : RegistersPrototype(x)

(* The loop has initialized what it has passed. *)
PassedHaveBegun == \A k \in 1 .. next_initializer - 1 : Begun(initializer_list[k])

IInv ==
  /\ TypeOK
  /\ HolderSound
  /\ UidsSound
  /\ TablesSound
  /\ RegistrationsAreSound
  /\ PhasesSound
  /\ InitializedOnceAndInTime
  /\ GlobalsSound
  /\ PassedHaveBegun

----------------------------------------------------------------------------
(* Registration.                                                            *)

(* A table that grows when it is full has room for one more entry. *)
LEMMA AppendToTable ==
  ASSUME NEW S, NEW list \in Seq(S), NEW x \in S, x \notin ToSet(list), IsInjective(list),
         NEW size \in Nat, size > 0, Len(list) <= size
  PROVE  /\ Append(list, x) \in Seq(S)
         /\ Grown(size, list) \in Nat
         /\ Grown(size, list) > 0
         /\ Len(Append(list, x)) <= Grown(size, list)
         /\ Len(Append(list, x)) = Len(list) + 1
         /\ \A i \in 1 .. Len(list) : Append(list, x)[i] = list[i]
         /\ ToSet(Append(list, x)) = ToSet(list) \cup {x}
         /\ IsInjective(Append(list, x))
<1>. DEFINE new == Append(list, x)
<1>1. /\ new \in Seq(S) /\ Len(new) = Len(list) + 1
      /\ \A i \in 1 .. Len(list) : new[i] = list[i]
      /\ new[Len(list) + 1] = x
  BY AppendProperties
<1>2. /\ Len(list) \in Nat /\ DOMAIN list = 1 .. Len(list)
      /\ DOMAIN new = 1 .. Len(list) + 1
  BY <1>1, LenProperties
<1>. HIDE DEF new
<1>3. /\ Grown(size, list) \in Nat /\ Grown(size, list) > 0
      /\ Len(new) <= Grown(size, list)
  <2>1. size \in Nat /\ size > 0 /\ Len(list) <= size /\ Len(new) = Len(list) + 1
    BY <1>1
  <2>2. CASE Len(list) = size
    BY <1>2, <2>1, <2>2 DEF Grown
  <2>3. CASE Len(list) # size
    <3>1. Grown(size, list) = size
      BY <2>3 DEF Grown
    <3>2. \A n \in Nat : n <= size /\ n # size => n + 1 <= size
      BY <2>1
    <3>. QED BY <1>2, <2>1, <2>3, <3>1, <3>2
  <2>. QED BY <2>2, <2>3
<1>4. \A i \in DOMAIN new : i \in DOMAIN list \/ i = Len(list) + 1
  BY <1>2
<1>5. ToSet(new) = ToSet(list) \cup {x}
  BY <1>1, <1>2, <1>4 DEF ToSet
<1>6. \A i \in DOMAIN list : new[i] # x
  BY <1>1, <1>2 DEF ToSet
<1>7. IsInjective(new)
  <2>. SUFFICES ASSUME NEW a \in DOMAIN new, NEW b \in DOMAIN new, new[a] = new[b]
                PROVE  a = b
    BY DEF IsInjective
  <2>1. CASE a \in DOMAIN list /\ b \in DOMAIN list
    BY <1>1, <1>2, <2>1 DEF IsInjective
  <2>. QED BY <1>1, <1>4, <1>6, <2>1
<1>. QED BY <1>1, <1>3, <1>5, <1>7 DEF new

(* Whatever construct the loader registers next. *)
LEMMA RegistrationKeepsInvariant ==
  ASSUME IInv, NEW x \in Constructs, RegisterInitialize(x)
  PROVE  IInv'
<1>1. /\ uid \in [Constructs -> Nat] /\ counter \in Nat /\ any_uid \in Nat
      /\ initializer_list \in Seq(Constructs) /\ mapping_for_require \in Seq(Constructs)
      /\ list_size \in Nat /\ table_capacity \in Nat
      /\ counter > any_uid /\ list_size > 0 /\ table_capacity > 0
      /\ next_initializer = 1
  BY ConstantsAssumption DEF IInv, TypeOK, UidsSound, TablesSound, PhasesSound, RegisterInitialize
<1>2. EveryRegistrationIsKept /\ UidsAreDistinct
  BY DEF IInv, RegistrationsAreSound
<1>3. /\ uid[x] = 0 /\ phase = "loading"
      /\ uid' = [uid EXCEPT ![x] = counter] /\ counter' = counter + 1
      /\ UNCHANGED <<program, next_initializer, calls, holder, global_object,
                     created, requires, phase>>
  BY DEF RegisterInitialize, GetTypeUid
<1>4. /\ x \notin ToSet(initializer_list) /\ x \notin ToSet(mapping_for_require)
      /\ IsInjective(initializer_list) /\ IsInjective(mapping_for_require)
      /\ Len(initializer_list) <= list_size /\ Len(mapping_for_require) <= table_capacity
  BY <1>2, <1>3 DEF EveryRegistrationIsKept
<1>5. /\ uid' \in [Constructs -> Nat] /\ counter' \in Nat /\ counter' > any_uid
      /\ \A y \in Constructs : uid'[y] # 0 <=> (uid[y] # 0 \/ y = x)
  BY <1>1, <1>3
<1>6. UidsSound' /\ UidsAreDistinct'
  <2>1. \A y \in Constructs : uid[y] = 0 \/ (uid[y] > any_uid /\ uid[y] < counter)
    BY DEF IInv, UidsSound
  <2>2. \A y \in Constructs : IF y = x THEN uid'[y] = counter ELSE uid'[y] = uid[y]
    BY <1>1, <1>3
  <2>3. \A y \in Constructs : uid[y] \in Nat
    BY <1>1
  <2>4. UidsSound'
    BY <1>1, <1>3, <1>5, <2>1, <2>2, <2>3 DEF UidsSound
  <2>5. \A y \in Constructs : uid'[y] = 0 \/ uid'[y] > any_uid
    BY <2>4 DEF UidsSound
  <2>6. \A y, z \in Constructs : uid'[y] = uid'[z] /\ uid'[y] # 0 => y = z
    BY <1>1, <1>2, <2>1, <2>2, <2>3 DEF UidsAreDistinct
  <2>. QED BY <2>4, <2>5, <2>6 DEF UidsAreDistinct
<1>7. /\ initializer_list' \in Seq(Constructs) /\ list_size' \in Nat /\ list_size' > 0
      /\ Len(initializer_list') <= list_size'
      /\ Len(initializer_list') >= Len(initializer_list)
      /\ ToSet(initializer_list') =
           IF HasInitializer(x) THEN ToSet(initializer_list) \cup {x} ELSE ToSet(initializer_list)
      /\ IsInjective(initializer_list')
  <2>1. CASE HasInitializer(x)
    <3>1. /\ list_size' = Grown(list_size, initializer_list)
          /\ initializer_list' = Append(initializer_list, x)
      BY <2>1 DEF RegisterInitialize, RegisterInitializationFunction
    <3>2. Len(initializer_list) \in Nat
      BY <1>1
    <3>. QED BY <1>1, <1>4, <2>1, <3>1, <3>2, AppendToTable
  <2>2. CASE ~HasInitializer(x)
    <3>1. list_size' = list_size /\ initializer_list' = initializer_list
      BY <2>2 DEF RegisterInitialize
    <3>. QED BY <1>1, <1>4, <2>2, <3>1
  <2>. QED BY <2>1, <2>2
<1>8. /\ mapping_for_require' \in Seq(Constructs) /\ table_capacity' \in Nat /\ table_capacity' > 0
      /\ Len(mapping_for_require') <= table_capacity'
      /\ ToSet(mapping_for_require') =
           IF kind[x] = "module" THEN ToSet(mapping_for_require) \cup {x}
           ELSE ToSet(mapping_for_require)
      /\ IsInjective(mapping_for_require')
  <2>1. CASE kind[x] = "module"
    <3>1. /\ table_capacity' = Grown(table_capacity, mapping_for_require)
          /\ mapping_for_require' = Append(mapping_for_require, x)
      BY <2>1 DEF RegisterInitialize, RegisterRequireFunction
    <3>. QED BY <1>1, <1>4, <2>1, <3>1, AppendToTable
  <2>2. CASE kind[x] # "module"
    <3>1. table_capacity' = table_capacity /\ mapping_for_require' = mapping_for_require
      BY <2>2 DEF RegisterInitialize
    <3>. QED BY <1>1, <1>4, <2>2, <3>1
  <2>. QED BY <2>1, <2>2
<1>9. EveryRegistrationIsKept'
  <2>1. /\ ToSet(initializer_list) = {y \in Constructs : uid[y] # 0 /\ HasInitializer(y)}
        /\ ToSet(mapping_for_require) = {y \in Constructs : uid[y] # 0 /\ kind[y] = "module"}
    BY <1>2 DEF EveryRegistrationIsKept
  <2>2. kind' = kind
    BY <1>3 DEF program
  <2>3. ToSet(initializer_list') = {y \in Constructs : uid'[y] # 0 /\ HasInitializer(y)'}
    BY <1>5, <1>7, <2>1, <2>2 DEF HasInitializer
  <2>4. ToSet(mapping_for_require') = {y \in Constructs : uid'[y] # 0 /\ kind'[y] = "module"}
    BY <1>5, <1>8, <2>1, <2>2
  <2>. QED BY <1>7, <1>8, <2>3, <2>4 DEF EveryRegistrationIsKept
<1>10. TypeOK'
  <2>1. next_initializer' \in 1 .. Len(initializer_list') + 1
    BY <1>1, <1>3, <1>7
  <2>. QED BY <1>3, <1>5, <1>7, <1>8, <2>1 DEF IInv, TypeOK, program
<1>11. HolderSound' /\ PhasesSound'
  BY <1>3 DEF IInv, HolderSound, PhasesSound
<1>12. InitializedOnceAndInTime' /\ GlobalsSound'
  BY <1>3 DEF IInv, InitializedOnceAndInTime, OnePrototypeEach, DependenciesHaveBegun, GlobalsSound,
              program, RegistersPrototype, HasInitializer, IsGlobal, prototypes
<1>13. PassedHaveBegun'
  BY <1>1, <1>3 DEF PassedHaveBegun
<1>. QED BY <1>6, <1>7, <1>8, <1>9, <1>10, <1>11, <1>12, <1>13
         DEF IInv, TablesSound, RegistrationsAreSound

----------------------------------------------------------------------------
(* Initialization.                                                          *)

(* One call of an initializer: its construct has then begun, what had begun *)
(* stays so, and the caller of the call needs no more than that.            *)
LEMMA CallKeepsInvariant ==
  ASSUME IInv, UNCHANGED program, NEW x \in Constructs, NEW callers \in Seq(Frames),
         \A i \in DOMAIN callers :
            \A y \in dependencies[callers[i].construct] \ callers[i].pending : y = x \/ Begun(y),
         Initialize(x, callers)
  PROVE  /\ calls' \in Seq(Frames)
         /\ Consistent(holder)' /\ holder'.handles = holder.handles
         /\ global_object' \subseteq Constructs /\ created' \in [Constructs -> Nat]
         /\ InitializedOnceAndInTime' /\ GlobalsSound'
         /\ Begun(x)'
         /\ \A y \in Constructs : Begun(y) => Begun(y)'
<1>1. /\ kind \in [Constructs -> Kinds] /\ dependencies \in [Constructs -> SUBSET Constructs]
      /\ global_object \subseteq Constructs /\ created \in [Constructs -> Nat]
      /\ holder.properties \subseteq Constructs
      /\ Consistent(holder)
  BY DEF IInv, TypeOK, HolderSound, Holder
<1>2. OnePrototypeEach /\ GlobalsSound
  BY DEF IInv, InitializedOnceAndInTime
<1>3. kind' = kind /\ dependencies' = dependencies
  BY DEF program
<1>4. /\ RegistersPrototype(x) => HasInitializer(x)
      /\ IsGlobal(x) => HasInitializer(x)
  BY DEF RegistersPrototype, IsGlobal, HasInitializer
<1>. DOMAIN callers = 1 .. Len(callers) /\ Len(callers) \in Nat
  BY LenProperties
<1>5. \A i \in DOMAIN callers : callers[i].construct \in Constructs
  <2>. SUFFICES ASSUME NEW i \in DOMAIN callers PROVE callers[i].construct \in Constructs
    OBVIOUS
  <2>1. callers[i] \in Frames
    BY ElementOfSeq
  <2>. QED BY <2>1 DEF Frames
<1>6. CASE ReturnsAtOnce(x)
  <2>1. /\ calls' = callers /\ holder' = LookUp(x)
        /\ global_object' = global_object /\ created' = created
    BY <1>6 DEF Initialize
  <2>2. Balanced(holder, LookUp(x), holder.properties)
    BY <1>1, LookUpBalanced
  <2>3. /\ Consistent(holder)' /\ holder'.handles = holder.handles
        /\ prototypes' = prototypes
    BY <2>1, <2>2 DEF Balanced, Consistent, prototypes
  <2>4. \A y \in Constructs : Begun(y) <=> Begun(y)'
    BY <1>3, <2>1, <2>3 DEF Begun, RegistersPrototype, HasInitializer
  <2>5. x \in prototypes
    BY <1>6 DEF ReturnsAtOnce
  <2>6. Begun(x)'
    BY <2>3, <2>5 DEF Begun
  <2>7. OnePrototypeEach'
    BY <1>2, <1>3, <2>1, <2>3 DEF OnePrototypeEach, RegistersPrototype
  <2>8. GlobalsSound'
    BY <1>2, <1>3, <2>1, <2>3 DEF GlobalsSound, IsGlobal, RegistersPrototype
  <2>9. DependenciesHaveBegun'
    <3>. SUFFICES ASSUME NEW i \in DOMAIN callers,
                         NEW y \in dependencies[callers[i].construct] \ callers[i].pending
                  PROVE  Begun(y)'
      BY <1>3, <2>1 DEF DependenciesHaveBegun, Begun
    <3>1. callers[i].construct \in Constructs
      BY <1>5
    <3>2. y \in Constructs
      BY <1>1, <3>1
    <3>. QED BY <2>4, <2>6, <3>2
  <2>. QED BY <1>1, <2>1, <2>3, <2>4, <2>6, <2>7, <2>8, <2>9 DEF InitializedOnceAndInTime
<1>7. CASE ~ReturnsAtOnce(x)
  <2>1. /\ calls' = Append(callers, Frame(x))
        /\ holder' = IF HasInitializer(x) THEN MakePrototype(x) ELSE holder
        /\ global_object' = IF IsGlobal(x) THEN global_object \cup {x} ELSE global_object
        /\ created' = IF HasInitializer(x) THEN [created EXCEPT ![x] = @ + 1] ELSE created
    BY <1>7 DEF Initialize
  <2>2. HasInitializer(x) =>
          Balanced(holder, MakePrototype(x),
                   IF RegistersPrototype(x) THEN holder.properties \cup {x} ELSE holder.properties)
    BY <1>1, MakePrototypeBalanced
  <2>3. /\ Consistent(holder)' /\ holder'.handles = holder.handles
        /\ prototypes' = IF RegistersPrototype(x) THEN prototypes \cup {x} ELSE prototypes
    BY <1>1, <1>4, <2>1, <2>2 DEF Balanced, Consistent, prototypes
  <2>4. /\ created' \in [Constructs -> Nat]
        /\ \A y \in Constructs \ {x} : created'[y] = created[y]
        /\ created'[x] = IF HasInitializer(x) THEN created[x] + 1 ELSE created[x]
    BY <1>1, <2>1
  <2>5. \A y \in Constructs : created[y] \in Nat /\ created'[y] \in Nat
    BY <1>1, <2>4
  <2>6. \A y \in Constructs : created[y] > 0 => created'[y] > 0
    BY <2>4, <2>5
  <2>7. \A y \in Constructs : Begun(y) => Begun(y)'
    BY <1>3, <2>3, <2>6 DEF Begun, RegistersPrototype, HasInitializer
  <2>8. HasInitializer(x) => created'[x] > 0
    BY <2>4, <2>5
  <2>9. Begun(x)'
    BY <1>3, <2>3, <2>8 DEF Begun, RegistersPrototype, HasInitializer
  <2>10. OnePrototypeEach'
    <3>. SUFFICES ASSUME NEW y \in Constructs, RegistersPrototype(y)
                  PROVE  created'[y] = IF y \in prototypes' THEN 1 ELSE 0
      BY <1>3 DEF OnePrototypeEach, RegistersPrototype
    <3>1. created[y] = IF y \in prototypes THEN 1 ELSE 0
      BY <1>2 DEF OnePrototypeEach
    <3>2. CASE y = x
      <4>1. HasInitializer(x) /\ x \notin prototypes
        BY <1>4, <1>7, <3>2 DEF ReturnsAtOnce
      <4>. QED BY <2>3, <2>4, <3>1, <3>2, <4>1
    <3>3. CASE y # x
      BY <2>3, <2>4, <3>1, <3>3
    <3>. QED BY <3>2, <3>3
  <2>11. GlobalsSound'
    <3>. SUFFICES ASSUME NEW y \in Constructs, IsGlobal(y), created'[y] > 0
                  PROVE  y \in global_object'
      BY <1>2, <1>3, <2>3 DEF GlobalsSound, IsGlobal, RegistersPrototype
    <3>1. CASE y = x
      BY <2>1, <3>1
    <3>2. CASE y # x
      BY <1>2, <2>1, <2>4, <3>2 DEF GlobalsSound
    <3>. QED BY <3>1, <3>2
  <2>12. /\ Frame(x) \in Frames
         /\ Frame(x).construct = x /\ Frame(x).pending = dependencies[x]
    BY <1>1 DEF Frame, Frames
  <2>13. /\ calls' \in Seq(Frames)
         /\ Len(calls') = Len(callers) + 1
         /\ \A i \in 1 .. Len(callers) : calls'[i] = callers[i]
         /\ calls'[Len(callers) + 1] = Frame(x)
    BY <2>1, <2>12, AppendProperties
  <2>14. DependenciesHaveBegun'
    <3>. SUFFICES ASSUME NEW i \in DOMAIN calls',
                         NEW y \in dependencies[calls'[i].construct] \ calls'[i].pending
                  PROVE  Begun(y)'
      BY <1>3 DEF DependenciesHaveBegun, Begun
    <3>1. Len(callers) \in Nat /\ DOMAIN callers = 1 .. Len(callers)
      BY LenProperties
    <3>2. i \in DOMAIN callers \/ i = Len(callers) + 1
      BY <2>13, <3>1, LenProperties
    <3>3. CASE i \in DOMAIN callers
      <4>1. calls'[i] = callers[i] /\ callers[i].construct \in Constructs
        BY <1>5, <2>13, <3>1, <3>3
      <4>2. y \in Constructs /\ (y = x \/ Begun(y))
        BY <1>1, <3>3, <4>1
      <4>. QED BY <2>7, <2>9, <4>2
    <3>4. CASE i = Len(callers) + 1
      BY <2>12, <2>13, <3>4
    <3>. QED BY <3>2, <3>3, <3>4
  <2>15. global_object' \subseteq Constructs
    BY <1>1, <2>1
  <2>. QED BY <2>3, <2>4, <2>7, <2>9, <2>10, <2>11, <2>13, <2>14, <2>15
           DEF InitializedOnceAndInTime
<1>. QED BY <1>6, <1>7

(* What a step that only moves on, without the tables or the constructs,    *)
(* must show.                                                               *)
LEMMA TablesStay ==
  ASSUME IInv, UNCHANGED <<program, tables>>
  PROVE  UidsSound' /\ TablesSound' /\ RegistrationsAreSound'
  BY DEF IInv, UidsSound, TablesSound, RegistrationsAreSound, UidsAreDistinct,
         EveryRegistrationIsKept, program, tables, HasInitializer

LEMMA StartMainKeepsInvariant ==
  ASSUME IInv, StartMain
  PROVE  IInv'
<1>1. UidsSound' /\ TablesSound' /\ RegistrationsAreSound'
  BY TablesStay DEF StartMain
<1>2. TypeOK'
  BY DEF IInv, StartMain, TypeOK, program, tables
<1>3. HolderSound' /\ PhasesSound'
  BY DEF IInv, StartMain, HolderSound, PhasesSound, tables
<1>4. InitializedOnceAndInTime' /\ GlobalsSound'
  BY DEF IInv, StartMain, InitializedOnceAndInTime, OnePrototypeEach, DependenciesHaveBegun,
         GlobalsSound, program, RegistersPrototype, HasInitializer, IsGlobal, prototypes
<1>5. PassedHaveBegun'
  BY DEF IInv, StartMain, PassedHaveBegun, Begun, program, tables,
         RegistersPrototype, HasInitializer, prototypes
<1>. QED BY <1>1, <1>2, <1>3, <1>4, <1>5 DEF IInv

LEMMA StartScriptKeepsInvariant ==
  ASSUME IInv, StartScript
  PROVE  IInv'
<1>1. UidsSound' /\ TablesSound' /\ RegistrationsAreSound'
  BY TablesStay DEF StartScript
<1>2. TypeOK'
  BY DEF IInv, StartScript, TypeOK, program, tables
<1>3. HolderSound' /\ PhasesSound'
  BY DEF IInv, StartScript, HolderSound, PhasesSound, tables
<1>4. InitializedOnceAndInTime' /\ GlobalsSound'
  BY DEF IInv, StartScript, InitializedOnceAndInTime, OnePrototypeEach, DependenciesHaveBegun,
         GlobalsSound, program, RegistersPrototype, HasInitializer, IsGlobal, prototypes
<1>5. PassedHaveBegun'
  BY DEF IInv, StartScript, PassedHaveBegun, Begun, program, tables,
         RegistersPrototype, HasInitializer, prototypes
<1>. QED BY <1>1, <1>2, <1>3, <1>4, <1>5 DEF IInv

(* The index of the loop passes an entry whose construct has then begun. *)
LEMMA RunNextKeepsInvariant ==
  ASSUME IInv, RunNextInitializer
  PROVE  IInv'
<1>1. /\ phase = "initializing" /\ calls = << >>
      /\ next_initializer <= Len(initializer_list)
      /\ Initialize(initializer_list[next_initializer], << >>)
      /\ next_initializer' = next_initializer + 1
      /\ UNCHANGED <<program, tables, requires, phase>>
  BY DEF RunNextInitializer
<1>2. /\ initializer_list \in Seq(Constructs) /\ Len(initializer_list) \in Nat
      /\ next_initializer \in 1 .. Len(initializer_list)
  BY <1>1, LenProperties DEF IInv, TypeOK
<1>3. \A k \in 1 .. Len(initializer_list) : initializer_list[k] \in Constructs
  BY <1>2, ElementOfSeq
<1>. PICK x \in Constructs : x = initializer_list[next_initializer]
  BY <1>2, <1>3
<1>4. << >> \in Seq(Frames) /\ DOMAIN << >> = {}
  BY EmptySeq
<1>5. /\ calls' \in Seq(Frames)
      /\ Consistent(holder)' /\ holder'.handles = holder.handles
      /\ global_object' \subseteq Constructs /\ created' \in [Constructs -> Nat]
      /\ InitializedOnceAndInTime' /\ GlobalsSound'
      /\ Begun(x)'
      /\ \A y \in Constructs : Begun(y) => Begun(y)'
  BY <1>1, <1>3, <1>4, CallKeepsInvariant
<1>6. UidsSound' /\ TablesSound' /\ RegistrationsAreSound'
  BY <1>1, TablesStay
<1>7. TypeOK'
  <2>1. next_initializer' \in 1 .. Len(initializer_list') + 1
    BY <1>1, <1>2 DEF tables
  <2>. QED BY <1>1, <1>5, <2>1 DEF IInv, TypeOK, program, tables, Consistent, Frames
<1>8. HolderSound' /\ PhasesSound'
  BY <1>1, <1>5 DEF IInv, HolderSound, PhasesSound, tables
<1>9. PassedHaveBegun'
  <2>1. initializer_list' = initializer_list
    BY <1>1 DEF tables
  <2>2. \A k \in 1 .. next_initializer' - 1 :
          k \in 1 .. Len(initializer_list) /\ (k = next_initializer \/ k \in 1 .. next_initializer - 1)
    BY <1>1, <1>2
  <2>3. \A k \in 1 .. next_initializer - 1 : Begun(initializer_list[k])
    BY DEF IInv, PassedHaveBegun
  <2>4. \A k \in 1 .. next_initializer' - 1 : Begun(initializer_list[k])'
    <3>. SUFFICES ASSUME NEW k \in 1 .. next_initializer' - 1
                  PROVE  Begun(initializer_list[k])'
      OBVIOUS
    <3>1. CASE k = next_initializer
      BY <1>5, <2>1, <3>1 DEF Begun
    <3>2. CASE k \in 1 .. next_initializer - 1
      <4>1. Begun(initializer_list[k]) /\ initializer_list[k] \in Constructs
        BY <1>3, <2>2, <2>3, <3>2
      <4>. QED BY <1>5, <2>1, <4>1 DEF Begun
    <3>. QED BY <2>2, <3>1, <3>2
  <2>. QED BY <2>1, <2>4 DEF PassedHaveBegun
<1>. QED BY <1>5, <1>6, <1>7, <1>8, <1>9 DEF IInv

(* A dependency is taken from the list of the innermost call, and begun. *)
LEMMA DependencyKeepsInvariant ==
  ASSUME IInv, NEW x \in Constructs, InitializeDependency(x)
  PROVE  IInv'
<1>1. /\ calls # << >>
      /\ Initialize(x, [calls EXCEPT ![Len(calls)].pending = @ \ {x}])
      /\ UNCHANGED <<program, tables, next_initializer, requires, phase>>
  BY DEF InitializeDependency
<1>2. calls \in Seq(Frames)
  BY DEF IInv, TypeOK, Frames
<1>3. Len(calls) \in Nat \ {0} /\ DOMAIN calls = 1 .. Len(calls)
  BY <1>1, <1>2, EmptySeq, LenProperties
<1>4. calls[Len(calls)] \in Frames
  BY <1>2, <1>3, ElementOfSeq
<1>. DEFINE top == [calls[Len(calls)] EXCEPT !.pending = @ \ {x}]
            rest == [calls EXCEPT ![Len(calls)] = top]
<1>5. top \in Frames /\ top.construct = calls[Len(calls)].construct
      /\ top.pending = calls[Len(calls)].pending \ {x}
  BY <1>4 DEF Frames
<1>6. rest = [calls EXCEPT ![Len(calls)].pending = @ \ {x}]
  BY <1>3
<1>. HIDE DEF top
<1>7. /\ rest \in Seq(Frames) /\ Len(rest) = Len(calls)
      /\ \A i \in 1 .. Len(calls) : rest[i] = IF i = Len(calls) THEN top ELSE calls[i]
  BY <1>2, <1>3, <1>5, ExceptSeq
<1>. HIDE DEF rest
<1>. PICK callers \in Seq(Frames) : callers = rest
  BY <1>7
<1>8. DOMAIN callers = 1 .. Len(calls)
  BY <1>7, LenProperties
<1>9. \A i \in DOMAIN callers :
        \A y \in dependencies[callers[i].construct] \ callers[i].pending : y = x \/ Begun(y)
  <2>. SUFFICES ASSUME NEW i \in DOMAIN callers,
                       NEW y \in dependencies[callers[i].construct] \ callers[i].pending, y # x
                PROVE  Begun(y)
    OBVIOUS
  <2>1. i \in DOMAIN calls
    BY <1>3, <1>8
  <2>2. callers[i].construct = calls[i].construct
    BY <1>3, <1>5, <1>7, <1>8
  <2>3. y \notin calls[i].pending
    BY <1>3, <1>5, <1>7, <1>8
  <2>. QED BY <2>1, <2>2, <2>3 DEF IInv, InitializedOnceAndInTime, DependenciesHaveBegun, Begun
<1>10. Initialize(x, callers)
  BY <1>1, <1>6
<1>11. /\ calls' \in Seq(Frames)
       /\ Consistent(holder)' /\ holder'.handles = holder.handles
       /\ global_object' \subseteq Constructs /\ created' \in [Constructs -> Nat]
       /\ InitializedOnceAndInTime' /\ GlobalsSound'
       /\ \A y \in Constructs : Begun(y) => Begun(y)'
  BY <1>1, <1>9, <1>10, CallKeepsInvariant
<1>12. UidsSound' /\ TablesSound' /\ RegistrationsAreSound'
  BY <1>1, TablesStay
<1>13. TypeOK'
  BY <1>1, <1>11 DEF IInv, TypeOK, program, tables, Consistent, Frames
<1>14. phase \notin {"loading", "over"}
  BY <1>1 DEF IInv, PhasesSound
<1>15. HolderSound' /\ PhasesSound'
  BY <1>1, <1>11, <1>14 DEF IInv, HolderSound, PhasesSound, tables
<1>16. PassedHaveBegun'
  <2>1. initializer_list' = initializer_list /\ next_initializer' = next_initializer
    BY <1>1 DEF tables
  <2>2. \A k \in 1 .. next_initializer - 1 : k \in 1 .. Len(initializer_list)
    BY LenProperties DEF IInv, TypeOK
  <2>3. \A k \in 1 .. next_initializer - 1 : initializer_list[k] \in Constructs
    BY <2>2, ElementOfSeq DEF IInv, TypeOK
  <2>4. \A k \in 1 .. next_initializer - 1 : Begun(initializer_list[k])
    BY DEF IInv, PassedHaveBegun
  <2>5. \A k \in 1 .. next_initializer - 1 : Begun(initializer_list[k])'
    BY <1>11, <2>1, <2>3, <2>4 DEF Begun
  <2>. QED BY <2>1, <2>5 DEF PassedHaveBegun
<1>. QED BY <1>11, <1>12, <1>13, <1>15, <1>16 DEF IInv

(* Calls return in the order of the stack; a require that returns to the    *)
(* script looks its prototype up.                                           *)
LEMMA ReturnKeepsInvariant ==
  ASSUME IInv, Return
  PROVE  IInv'
<1>1. /\ calls # << >> /\ calls' = Front(calls)
      /\ holder' = IF phase = "running" /\ Len(calls) = 1
                   THEN GraftPrototype(calls[1].construct) ELSE holder
      /\ UNCHANGED <<program, tables, next_initializer, global_object, created, requires, phase>>
  BY DEF Return
<1>2. calls \in Seq(Frames) /\ Consistent(holder)
  BY DEF IInv, TypeOK, HolderSound, Frames
<1>3. Len(calls) \in Nat \ {0} /\ DOMAIN calls = 1 .. Len(calls)
  BY <1>1, <1>2, EmptySeq, LenProperties
<1>4. /\ calls' \in Seq(Frames)
      /\ \A i \in DOMAIN calls' : i \in DOMAIN calls /\ calls'[i] = calls[i]
  <2>. DEFINE n == Len(calls) - 1
  <2>1. n \in Nat /\ \A i \in 1 .. n : calls[i] \in Frames
    BY <1>2, <1>3, ElementOfSeq
  <2>2. calls' = SubSeq(calls, 1, n)
    BY <1>1 DEF Front
  <2>. HIDE DEF n
  <2>3. /\ SubSeq(calls, 1, n) \in Seq(Frames)
        /\ Len(SubSeq(calls, 1, n)) = IF 1 <= n THEN n - 1 + 1 ELSE 0
        /\ \A i \in 1 .. n - 1 + 1 : SubSeq(calls, 1, n)[i] = calls[1 + i - 1]
    BY <2>1, SubSeqProperties
  <2>4. Len(calls') = n /\ \A i \in 1 .. n : calls'[i] = calls[i]
    BY <2>1, <2>2, <2>3
  <2>5. DOMAIN calls' = 1 .. n
    BY <2>2, <2>3, <2>4, LenProperties
  <2>. QED BY <1>3, <2>2, <2>3, <2>4, <2>5 DEF n
<1>5. calls[1].construct \in Constructs
  <2>1. calls[1] \in Frames
    BY <1>2, <1>3, ElementOfSeq
  <2>. QED BY <2>1 DEF Frames
<1>6. Balanced(holder, holder', holder.properties) \/ holder' = holder
  BY <1>1, <1>2, <1>5, LookUpBalanced
<1>7. /\ Consistent(holder)' /\ holder'.handles = holder.handles
      /\ prototypes' = prototypes
  BY <1>2, <1>6 DEF Balanced, Consistent, prototypes
<1>8. UidsSound' /\ TablesSound' /\ RegistrationsAreSound'
  BY <1>1, TablesStay
<1>9. TypeOK'
  BY <1>1, <1>4, <1>7 DEF IInv, TypeOK, program, tables, Consistent, Frames
<1>10. phase \notin {"loading", "over"}
  BY <1>1 DEF IInv, PhasesSound
<1>11. HolderSound' /\ PhasesSound'
  BY <1>1, <1>7, <1>10 DEF IInv, HolderSound, PhasesSound, tables
<1>12. OnePrototypeEach' /\ GlobalsSound'
  BY <1>1, <1>7 DEF IInv, InitializedOnceAndInTime, OnePrototypeEach, GlobalsSound, program,
                    RegistersPrototype, IsGlobal
<1>13. DependenciesHaveBegun'
  BY <1>1, <1>4, <1>7 DEF IInv, InitializedOnceAndInTime, DependenciesHaveBegun, program,
                          RegistersPrototype, HasInitializer
<1>14. PassedHaveBegun'
  BY <1>1, <1>7 DEF IInv, PassedHaveBegun, Begun, program, tables,
                    RegistersPrototype, HasInitializer
<1>. QED BY <1>8, <1>9, <1>11, <1>12, <1>13, <1>14 DEF IInv, InitializedOnceAndInTime

(* A require begins with nothing done of what the module depends on. *)
LEMMA RequireKeepsInvariant ==
  ASSUME IInv, NEW x \in Constructs, Require(x)
  PROVE  IInv'
<1>1. /\ phase = "running" /\ requires < MaxRequires
      /\ calls' = <<Frame(x)>> /\ requires' = requires + 1
      /\ UNCHANGED <<program, tables, next_initializer, holder, global_object, created, phase>>
  BY DEF Require
<1>2. /\ Frame(x) \in Frames
      /\ Frame(x).construct = x /\ Frame(x).pending = dependencies[x]
  BY DEF IInv, TypeOK, Frame, Frames
<1>3. /\ calls' \in Seq(Frames) /\ DOMAIN calls' = {1} /\ calls'[1] = Frame(x)
  BY <1>1, <1>2
<1>4. UidsSound' /\ TablesSound' /\ RegistrationsAreSound'
  BY <1>1, TablesStay
<1>5. requires' \in 0 .. MaxRequires
  BY <1>1, ConstantsAssumption DEF IInv, TypeOK
<1>6. TypeOK'
  BY <1>1, <1>3, <1>5 DEF IInv, TypeOK, program, tables, Frames
<1>7. HolderSound' /\ PhasesSound'
  BY <1>1 DEF IInv, HolderSound, PhasesSound, tables
<1>8. OnePrototypeEach' /\ GlobalsSound' /\ PassedHaveBegun'
  BY <1>1 DEF IInv, InitializedOnceAndInTime, OnePrototypeEach, GlobalsSound, PassedHaveBegun,
              Begun, program, tables, RegistersPrototype, HasInitializer, IsGlobal, prototypes
<1>9. DependenciesHaveBegun'
  BY <1>1, <1>2, <1>3 DEF DependenciesHaveBegun, program
<1>. QED BY <1>4, <1>6, <1>7, <1>8, <1>9 DEF IInv, InitializedOnceAndInTime

(* The clean-up releases what start-up has kept, and more; what was         *)
(* registered stays.                                                        *)
LEMMA CleanUpKeepsInvariant ==
  ASSUME IInv, CleanUp
  PROVE  IInv'
<1>. DEFINE held == get_prototypes_holder(holder)
            bare == [held EXCEPT !.this = FALSE]
            once == Release(bare, q36)
<1>1. /\ phase = "running" /\ calls = << >> /\ phase' = "over"
      /\ holder' = webidl_utilities_cleanup(holder)
      /\ UNCHANGED <<program, tables, next_initializer, calls, global_object, created, requires>>
  BY DEF CleanUp
<1>2. Consistent(holder) /\ q36 \in Values
  BY DEF IInv, HolderSound, Values
<1>3. held \in Holder /\ held.exists /\ held.properties = holder.properties
  BY <1>2, GetHolder
<1>. HIDE DEF held
<1>4. bare \in Holder /\ bare.exists /\ bare.properties = holder.properties
  BY <1>3 DEF Holder
<1>. HIDE DEF bare
<1>5. once \in Holder /\ once.exists /\ once.properties = holder.properties
  BY <1>2, <1>4, ReleaseType
<1>. HIDE DEF once
<1>6. /\ Release(once, q36) \in Holder /\ Release(once, q36).exists
      /\ Release(once, q36).properties = holder.properties
  BY <1>2, <1>5, ReleaseType
<1>7. holder' = Release(once, q36)
  BY <1>1 DEF webidl_utilities_cleanup, once, bare, held
<1>8. Consistent(holder)' /\ prototypes' = prototypes
  BY <1>6, <1>7 DEF Consistent, prototypes
<1>9. UidsSound' /\ TablesSound' /\ RegistrationsAreSound'
  BY <1>1, TablesStay
<1>10. TypeOK'
  BY <1>1, <1>8 DEF IInv, TypeOK, program, tables, Consistent
<1>11. HolderSound' /\ PhasesSound'
  BY <1>1, <1>8 DEF IInv, HolderSound, PhasesSound, tables
<1>12. InitializedOnceAndInTime' /\ GlobalsSound' /\ PassedHaveBegun'
  BY <1>1, <1>8 DEF IInv, InitializedOnceAndInTime, OnePrototypeEach, DependenciesHaveBegun,
                    GlobalsSound, PassedHaveBegun, Begun, program, tables,
                    RegistersPrototype, HasInitializer, IsGlobal
<1>. QED BY <1>9, <1>10, <1>11, <1>12 DEF IInv

LEMMA StutterKeepsInvariant ==
  ASSUME IInv, UNCHANGED vars
  PROVE  IInv'
<1>1. UidsSound' /\ TablesSound' /\ RegistrationsAreSound'
  BY TablesStay DEF vars
<1>2. TypeOK' /\ HolderSound' /\ PhasesSound'
  BY DEF IInv, TypeOK, HolderSound, PhasesSound, vars, program, tables
<1>3. InitializedOnceAndInTime' /\ GlobalsSound' /\ PassedHaveBegun'
  BY DEF IInv, InitializedOnceAndInTime, OnePrototypeEach, DependenciesHaveBegun,
         GlobalsSound, PassedHaveBegun, Begun, vars, program, tables,
         RegistersPrototype, HasInitializer, IsGlobal, prototypes
<1>. QED BY <1>1, <1>2, <1>3 DEF IInv

----------------------------------------------------------------------------
(* The theorems.                                                            *)

LEMMA InitEstablishesInvariant ==
  ASSUME Init
  PROVE  IInv
<1>1. /\ kind \in [Constructs -> Kinds] /\ dependencies \in [Constructs -> SUBSET Constructs]
      /\ any_uid \in Nat /\ TableSize \in Nat \ {0} /\ MaxRequires \in Nat
  BY InputsAssumption, ConstantsAssumption DEF Init
<1>2. << >> \in Seq(Constructs) /\ << >> \in Seq(Frames) /\ Len(<< >>) = 0 /\ DOMAIN << >> = {}
  BY EmptySeq
<1>3. NoHolder \in Holder /\ Consistent(NoHolder) /\ NoHolder.properties = {}
      /\ NoHolder.handles = [v \in Values |-> 0]
  BY DEF NoHolder, Holder, Consistent
<1>4. TypeOK
  BY <1>1, <1>2, <1>3 DEF Init, TypeOK, Frames
<1>5. UidsSound /\ TablesSound /\ PhasesSound /\ HolderSound
  BY <1>1, <1>3 DEF Init, UidsSound, TablesSound, PhasesSound, HolderSound
<1>6. RegistrationsAreSound
  BY <1>1, <1>2 DEF Init, RegistrationsAreSound, UidsAreDistinct, EveryRegistrationIsKept,
                    ToSet, IsInjective
<1>7. InitializedOnceAndInTime /\ GlobalsSound /\ PassedHaveBegun
  BY <1>2, <1>3 DEF Init, InitializedOnceAndInTime, OnePrototypeEach, DependenciesHaveBegun,
                    GlobalsSound, PassedHaveBegun, prototypes
<1>. QED BY <1>4, <1>5, <1>6, <1>7 DEF IInv

(* The invariant is inductive. *)
THEOREM Invariance == Spec => []IInv
<1>1. IInv /\ [Next]_vars => IInv'
  <2>. SUFFICES ASSUME IInv, [Next]_vars PROVE IInv'
    OBVIOUS
  <2>1. CASE \E x \in Constructs : RegisterInitialize(x)
    BY <2>1, RegistrationKeepsInvariant
  <2>2. CASE StartMain
    BY <2>2, StartMainKeepsInvariant
  <2>3. CASE RunNextInitializer
    BY <2>3, RunNextKeepsInvariant
  <2>4. CASE \E x \in Constructs : InitializeDependency(x)
    BY <2>4, DependencyKeepsInvariant
  <2>5. CASE Return
    BY <2>5, ReturnKeepsInvariant
  <2>6. CASE StartScript
    BY <2>6, StartScriptKeepsInvariant
  <2>7. CASE \E x \in Constructs : Require(x)
    BY <2>7, RequireKeepsInvariant
  <2>8. CASE CleanUp
    BY <2>8, CleanUpKeepsInvariant
  <2>9. CASE Idle \/ UNCHANGED vars
    BY <2>9, StutterKeepsInvariant DEF Idle
  <2>. QED BY <2>1, <2>2, <2>3, <2>4, <2>5, <2>6, <2>7, <2>8, <2>9 DEF Next
<1>. QED BY <1>1, InitEstablishesInvariant, PTL DEF Spec

(* Every variable keeps its type; no loop index runs past its table. *)
THEOREM TypeCorrect == Spec => []TypeOK
<1>1. IInv => TypeOK
  BY DEF IInv
<1>. QED BY <1>1, Invariance, PTL

(* The functions that run before main may do so in any order: uids differ,  *)
(* no registration is lost, and none is written outside its table           *)
(* (utilities.mustache:496).                                                *)
THEOREM RegistrationsAreSoundHolds == Spec => []RegistrationsAreSound
<1>1. IInv => RegistrationsAreSound
  BY DEF IInv
<1>. QED BY <1>1, Invariance, PTL

(* However constructs depend on each other, each prototype is made once and *)
(* what an initializer needs has begun when it returns                      *)
(* (interface.mustache:343).                                                *)
THEOREM InitializedOnceAndInTimeHolds == Spec => []InitializedOnceAndInTime
<1>1. IInv => InitializedOnceAndInTime
  BY DEF IInv
<1>. QED BY <1>1, Invariance, PTL

(* When a script runs, everything that it can name has been set up          *)
(* (utilities.mustache:584).                                                *)
THEOREM ScriptFindsEverythingHolds == Spec => []ScriptFindsEverything
<1>1. ASSUME IInv, phase = "running", NEW x \in Constructs, HasInitializer(x)
      PROVE  Begun(x)
  <2>1. uid[x] # 0
    BY <1>1 DEF IInv, PhasesSound
  <2>2. x \in ToSet(initializer_list)
    BY <1>1, <2>1 DEF IInv, RegistrationsAreSound, EveryRegistrationIsKept
  <2>3. PICK k \in DOMAIN initializer_list : x = initializer_list[k]
    BY <2>2 DEF ToSet
  <2>4. k \in 1 .. Len(initializer_list) /\ Len(initializer_list) \in Nat
    BY <1>1, LenProperties DEF IInv, TypeOK
  <2>5. /\ next_initializer \in 1 .. Len(initializer_list) + 1
        /\ next_initializer > Len(initializer_list)
    BY <1>1 DEF IInv, TypeOK, PhasesSound
  <2>6. k \in 1 .. next_initializer - 1
    BY <2>4, <2>5
  <2>. QED BY <1>1, <2>3, <2>6 DEF IInv, PassedHaveBegun
<1>2. ASSUME IInv, phase = "running", NEW x \in Constructs
      PROVE  /\ RegistersPrototype(x) => x \in prototypes
             /\ IsGlobal(x) => x \in global_object
  <2>1. (RegistersPrototype(x) \/ IsGlobal(x)) => HasInitializer(x)
    BY DEF RegistersPrototype, IsGlobal, HasInitializer
  <2>2. HasInitializer(x) => Begun(x)
    BY <1>1, <1>2
  <2>3. RegistersPrototype(x) => x \in prototypes
    BY <2>1, <2>2 DEF Begun
  <2>4. IsGlobal(x) => created[x] > 0
    <3>1. RegistersPrototype(x) => created[x] = 1
      BY <1>2, <2>3 DEF IInv, InitializedOnceAndInTime, OnePrototypeEach
    <3>2. x \in prototypes => RegistersPrototype(x)
      BY <1>2 DEF IInv, GlobalsSound
    <3>. QED BY <2>1, <2>2, <3>1, <3>2 DEF Begun
  <2>. QED BY <1>2, <2>3, <2>4 DEF IInv, GlobalsSound
<1>3. IInv => ScriptFindsEverything
  BY <1>2 DEF ScriptFindsEverything
<1>. QED BY <1>3, Invariance, PTL

(* Start-up and requires release every reference that they acquire, and no  *)
(* other (utilities.mustache:1302).                                         *)
THEOREM ReferencesAreReturnedHolds == Spec => []ReferencesAreReturned
<1>1. IInv => ReferencesAreReturned
  <2>. SUFFICES ASSUME IInv, phase # "over" PROVE \A v \in Values : holder.handles[v] = 0
    BY DEF ReferencesAreReturned
  <2>. QED BY DEF IInv, HolderSound
<1>. QED BY <1>1, Invariance, PTL
=============================================================================

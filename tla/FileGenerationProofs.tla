------------------------ MODULE FileGenerationProofs ------------------------
(***************************************************************************)
(* Theorems about FileGeneration, for all command lines, .idl files and    *)
(* numbers of runs, threads and failures.                                  *)
(***************************************************************************)
EXTENDS FileGeneration, SequenceFacts

LEMMA RangeIsToSet ==
  ASSUME NEW s
  PROVE  Range(s) = ToSet(s)
BY DEF Range, ToSet


----------------------------------------------------------------------------
(* The command line: what a key has been given.                             *)

Text == STRING \cup Booleans

GivenStep(l, key, got, i) ==
  IF l[i].form # "word" /\ l[i].key = key THEN setKey(got, ValueAt(l, i)) ELSE got

GivenFrom(given, l, key, max) ==
  given = [i \in 0 .. max |->
             IF i = 0 THEN << >>
             ELSE IF l[i].form # "word" /\ l[i].key = key
             THEN setKey(given[i - 1], ValueAt(l, i))
             ELSE given[i - 1]]

(* A number is no .idl file and none of the values that the code looks for. *)
LEMMA ConvertedFacts ==
  ASSUME NEW v \in Text
  PROVE  /\ Converted(v) \in Text
         /\ Converted(v) \in IdlNames <=> v \in IdlNames
         /\ Converted(v) \in Booleans <=> v \in Booleans
         /\ v \in IdlNames \cup Booleans => Converted(v) = v
         /\ v \in Numerals => Converted(v) \in Numbers
         /\ v \notin Numerals => Converted(v) = v
<1>1. /\ v \in Numerals => Number[v] \in Numbers /\ Number[v] \in Text
      /\ (Numerals \cup Numbers) \cap (IdlNames \cup Booleans) = {}
  BY NumberAssumption DEF Numbers, Numerals, Range, Text
<1>2. CASE v \in Numerals
  <2>1. Converted(v) = Number[v]
    BY <1>2 DEF Converted
  <2>. QED BY <1>1, <1>2, <2>1
<1>3. CASE v \notin Numerals
  <2>1. Converted(v) = v
    BY <1>3 DEF Converted
  <2>. QED BY <1>3, <2>1
<1>. QED BY <1>2, <1>3

LEMMA LineFacts ==
  ASSUME NEW l \in Seq(AnArgument)
  PROVE  /\ Len(l) \in Nat /\ DOMAIN l = 1 .. Len(l)
         /\ \A i \in 1 .. Len(l) :
              /\ l[i].form \in {"value", "flag", "no", "word"}
              /\ l[i].value \in Text
              /\ ValueAt(l, i) \in Text
<1>1. /\ Len(l) \in Nat /\ DOMAIN l = 1 .. Len(l)
      /\ \A i \in 1 .. Len(l) : l[i] \in AnArgument
  BY Members
<1>2. \A i \in 1 .. Len(l) :
        /\ l[i].form \in {"value", "flag", "no", "word"}
        /\ l[i].value \in Text
  BY <1>1 DEF AnArgument, Text
<1>3. ASSUME NEW i \in 1 .. Len(l)
      PROVE  ValueAt(l, i) \in Text
  <2>1. TakesNext(l, i) => i + 1 \in 1 .. Len(l)
    BY <1>1 DEF TakesNext
  <2>2. /\ Converted(l[i].value) \in Text
        /\ TakesNext(l, i) => Converted(l[i + 1].value) \in Text
    BY <1>2, <2>1, ConvertedFacts
  <2>3. True \in Text /\ False \in Text
    BY DEF Text, Booleans
  <2>4. CASE TakesNext(l, i)
    BY <2>2, <2>3, <2>4 DEF ValueAt
  <2>5. CASE ~ TakesNext(l, i)
    BY <2>2, <2>3, <2>5 DEF ValueAt
  <2>. QED BY <2>4, <2>5
<1>. QED BY <1>1, <1>2, <1>3

LEMMA SetKeyType ==
  ASSUME NEW A, NEW given \in Seq(A), NEW v \in A
  PROVE  setKey(given, v) \in Seq(A)
BY AppendProperties DEF setKey

LEMMA GivenExists ==
  ASSUME NEW l \in Seq(AnArgument), NEW key
  PROVE  \E given : GivenFrom(given, l, key, Len(l))
<1>. DEFINE n    == Len(l)
            step == [i \in 1 .. n |-> [s \in Seq(Text) |-> GivenStep(l, key, s, i)]]
<1>1. n \in Nat /\ \A i \in 1 .. n : ValueAt(l, i) \in Text
  BY LineFacts
<1>2. step \in [1 .. n -> [Seq(Text) -> Seq(Text)]]
  <2>1. \A i \in 1 .. n : \A s \in Seq(Text) : GivenStep(l, key, s, i) \in Seq(Text)
    BY <1>1, SetKeyType DEF GivenStep
  <2>. QED BY <2>1
<1>3. << >> \in Seq(Text)
  BY EmptySeq
<1>4. PICK run_ \in [0 .. n -> Seq(Text)] : Runs(run_, << >>, step, n)
  <2>. HIDE DEF step
  <2>. QED BY <1>1, <1>2, <1>3, RunExists
<1>5. run_[0] = << >>
  BY <1>4 DEF Runs
<1>6. \A i \in 1 .. n : run_[i] = GivenStep(l, key, run_[i - 1], i)
  <2>. TAKE i \in 1 .. n
  <2>1. i - 1 \in 0 .. n
    BY <1>1
  <2>2. run_[i] = step[i][run_[i - 1]] /\ run_[i - 1] \in Seq(Text)
    BY <1>4, <2>1 DEF Runs
  <2>. QED BY <2>2
<1>. HIDE DEF step
<1>7. GivenFrom(run_, l, key, n)
  <2>1. run_ = [i \in 0 .. n |-> run_[i]]
    BY <1>4
  <2>2. \A i \in 0 .. n : i = 0 \/ i \in 1 .. n
    BY <1>1
  <2>3. \A i \in 0 .. n :
          run_[i] = IF i = 0 THEN << >>
                    ELSE IF l[i].form # "word" /\ l[i].key = key
                    THEN setKey(run_[i - 1], ValueAt(l, i))
                    ELSE run_[i - 1]
    BY <1>5, <1>6, <2>2 DEF GivenStep
  <2>. QED BY <2>1, <2>3 DEF GivenFrom
<1>. QED BY <1>7

LEMMA ArgvIsLast ==
  ASSUME NEW l \in Seq(AnArgument), NEW key
  PROVE  \E given : /\ given[0] = << >>
                    /\ \A i \in 1 .. Len(l) : given[i] = GivenStep(l, key, given[i - 1], i)
                    /\ argv(l, key) = given[Len(l)]
<1>. DEFINE given == CHOOSE f : GivenFrom(f, l, key, Len(l))
<1>1. GivenFrom(given, l, key, Len(l))
  BY GivenExists
<1>2. argv(l, key) = given[Len(l)]
  BY DEF argv, GivenFrom
<1>. HIDE DEF given
<1>3. Len(l) \in Nat
  BY LineFacts
<1>4. 0 \in 0 .. Len(l) /\ \A i \in 1 .. Len(l) : i \in 0 .. Len(l) /\ i # 0
  BY <1>3
<1>5. \A i \in 0 .. Len(l) :
        given[i] = IF i = 0 THEN << >> ELSE GivenStep(l, key, given[i - 1], i)
  BY <1>1 DEF GivenFrom, GivenStep
<1>6. \A i \in 1 .. Len(l) : given[i] = GivenStep(l, key, given[i - 1], i)
  BY <1>4, <1>5
<1>7. given[0] = << >>
  BY <1>4, <1>5
<1>. QED BY <1>2, <1>6, <1>7

(* The arguments that give a key something. *)
Gives(l, key) == {i \in 1 .. Len(l) : l[i].form # "word" /\ l[i].key = key}

(* A key is given some of the values that its arguments have: the last one, *)
(* and all that are no booleans.                                            *)
GivenSound(l, key, got, n) ==
  /\ got \in Seq(Text)
  /\ \A v \in ToSet(got) : \E i \in Gives(l, key) : i <= n /\ v = ValueAt(l, i)
  /\ \A i \in Gives(l, key) : i <= n /\ ValueAt(l, i) \notin Booleans =>
        ValueAt(l, i) \in ToSet(got)
  /\ got = << >> => \A i \in Gives(l, key) : ~ (i <= n)

LEMMA ArgvFacts ==
  ASSUME NEW l \in Seq(AnArgument), NEW key
  PROVE  GivenSound(l, key, argv(l, key), Len(l))
<1>. DEFINE n    == Len(l)
            G    == Gives(l, key)
<1>1. n \in Nat /\ \A i \in 1 .. n : ValueAt(l, i) \in Text
  BY LineFacts
<1>2. PICK given : /\ given[0] = << >>
                   /\ \A i \in 1 .. Len(l) : given[i] = GivenStep(l, key, given[i - 1], i)
                   /\ argv(l, key) = given[Len(l)]
  BY ArgvIsLast
<1>. DEFINE T == {m \in Nat : m <= n => GivenSound(l, key, given[m], m)}
<1>3. 0 \in T
  <2>1. << >> \in Seq(Text) /\ ToSet(<< >>) = {} /\ \A i \in G : ~ (i <= 0)
    BY <1>1, EmptySeq DEF ToSet, Gives
  <2>2. GivenSound(l, key, given[0], 0)
    BY <1>2, <2>1 DEF GivenSound
  <2>. QED BY <2>2
<1>4. ASSUME NEW m \in Nat, m \in T
      PROVE  m + 1 \in T
  <2>. SUFFICES ASSUME m + 1 <= n
                PROVE  GivenSound(l, key, given[m + 1], m + 1)
    OBVIOUS
  <2>1. m + 1 \in 1 .. n /\ (m + 1) - 1 = m
    BY <1>1
  <2>2. GivenSound(l, key, given[m], m)
    BY <1>1, <1>4
  <2>3. given[m + 1] = GivenStep(l, key, given[m], m + 1)
    BY <1>2, <2>1
  <2>4. \A i \in G : i \in 1 .. n /\ (i <= m + 1 <=> i <= m \/ i = m + 1)
    BY <1>1 DEF Gives
  <2>. DEFINE s == given[m]
              v == ValueAt(l, m + 1)
  <2>5. s \in Seq(Text) /\ v \in Text
    BY <1>1, <2>1, <2>2 DEF GivenSound
  <2>6. CASE m + 1 \notin G
    <3>1. given[m + 1] = s
      BY <2>1, <2>3, <2>6 DEF GivenStep, Gives
    <3>. QED BY <2>2, <2>4, <2>6, <3>1 DEF GivenSound
  <2>7. CASE m + 1 \in G
    <3>1. given[m + 1] = setKey(s, v)
      BY <2>3, <2>7 DEF GivenStep, Gives
    <3>2. setKey(s, v) \in Seq(Text)
      BY <2>5, SetKeyType
    <3>3. ToSet(setKey(s, v)) \subseteq ToSet(s) \cup {v} /\ v \in ToSet(setKey(s, v))
          /\ setKey(s, v) # << >>
      <4>1. CASE Len(s) = 1 /\ s[1] \in Booleans
        <5>1. setKey(s, v) = <<v>> /\ ToSet(<<v>>) = {v} /\ <<v>> # << >>
          BY <4>1 DEF setKey, ToSet
        <5>. QED BY <5>1
      <4>2. CASE ~ (Len(s) = 1 /\ s[1] \in Booleans)
        <5>1. setKey(s, v) = Append(s, v)
          BY <4>2 DEF setKey
        <5>2. ToSet(Append(s, v)) = ToSet(s) \cup {v}
          BY <2>5, AppendedMembers
        <5>3. Append(s, v) # << >>
          BY <2>5, AppendProperties
        <5>. QED BY <5>1, <5>2, <5>3
      <4>. QED BY <4>1, <4>2
    <3>4. \A x \in ToSet(s) : x \notin Booleans => x \in ToSet(setKey(s, v))
      <4>1. CASE Len(s) = 1 /\ s[1] \in Booleans
        <5>1. \A x \in ToSet(s) : x = s[1]
          BY <2>5, <4>1, Members
        <5>. QED BY <4>1, <5>1
      <4>2. CASE ~ (Len(s) = 1 /\ s[1] \in Booleans)
        <5>1. setKey(s, v) = Append(s, v)
          BY <4>2 DEF setKey
        <5>2. ToSet(Append(s, v)) = ToSet(s) \cup {v}
          BY <2>5, AppendedMembers
        <5>. QED BY <5>1, <5>2
      <4>. QED BY <4>1, <4>2
    <3>5. /\ \A x \in ToSet(s) : \E i \in G : i <= m /\ x = ValueAt(l, i)
          /\ \A i \in G : i <= m /\ ValueAt(l, i) \notin Booleans => ValueAt(l, i) \in ToSet(s)
      BY <2>2 DEF GivenSound
    <3>6. \A x \in ToSet(setKey(s, v)) : \E i \in G : i <= m + 1 /\ x = ValueAt(l, i)
      BY <2>4, <2>7, <3>3, <3>5
    <3>7. \A i \in G : i <= m + 1 /\ ValueAt(l, i) \notin Booleans =>
             ValueAt(l, i) \in ToSet(setKey(s, v))
      BY <2>4, <3>3, <3>4, <3>5
    <3>. QED BY <3>1, <3>2, <3>3, <3>6, <3>7 DEF GivenSound
  <2>. QED BY <2>6, <2>7
<1>5. n \in T
  <2>. HIDE DEF T
  <2>. QED BY <1>1, <1>3, <1>4, Induction
<1>. QED BY <1>1, <1>2, <1>5

----------------------------------------------------------------------------
(* The files on an accepted command line.                                   *)

WordPlaces(l) ==
  {i \in DOMAIN l : l[i].form = "word" /\ ~(i > 1 /\ TakesNext(l, i - 1))}

LEMMA WordsFacts ==
  ASSUME NEW l \in Seq(AnArgument)
  PROVE  /\ Words(l) \in Seq(Text)
         /\ \A v : v \in ToSet(Words(l)) <=> \E i \in WordPlaces(l) : Converted(l[i].value) = v
<1>. DEFINE n   == Len(l)
            own == Increasing(WordPlaces(l), n)
<1>1. /\ n \in Nat /\ DOMAIN l = 1 .. n
      /\ \A i \in 1 .. n : Converted(l[i].value) \in Text
  BY LineFacts, ConvertedFacts
<1>2. WordPlaces(l) \subseteq 1 .. n
  BY <1>1 DEF WordPlaces
<1>3. own \in Seq(1 .. n) /\ ToSet(own) = WordPlaces(l)
  BY <1>1, <1>2, IncreasingFacts
<1>4. Words(l) = [k \in DOMAIN own |-> Converted(l[own[k]].value)]
  BY DEF Words, WordPlaces
<1>. HIDE DEF own
<1>5. /\ Len(own) \in Nat /\ DOMAIN own = 1 .. Len(own)
      /\ \A k \in 1 .. Len(own) : own[k] \in 1 .. n
      /\ \A i : i \in ToSet(own) <=> \E k \in 1 .. Len(own) : own[k] = i
  BY <1>3, Members
<1>6. Words(l) \in [1 .. Len(own) -> Text]
  BY <1>1, <1>4, <1>5
<1>7. Words(l) \in Seq(Text) /\ Len(Words(l)) = Len(own)
  BY <1>5, <1>6, TupleIsSeq
<1>8. \A v : v \in ToSet(Words(l)) <=> \E k \in 1 .. Len(own) : Words(l)[k] = v
  BY <1>7, Members
<1>9. \A k \in 1 .. Len(own) : Words(l)[k] = Converted(l[own[k]].value)
  BY <1>4, <1>5
<1>10. ASSUME NEW v \in ToSet(Words(l))
       PROVE  \E i \in WordPlaces(l) : Converted(l[i].value) = v
  <2>1. PICK k \in 1 .. Len(own) : Words(l)[k] = v
    BY <1>8
  <2>2. own[k] \in WordPlaces(l)
    BY <1>3, <1>5
  <2>. QED BY <1>9, <2>1, <2>2
<1>11. ASSUME NEW i \in WordPlaces(l)
       PROVE  Converted(l[i].value) \in ToSet(Words(l))
  <2>1. PICK k \in 1 .. Len(own) : own[k] = i
    BY <1>3, <1>5
  <2>. QED BY <1>8, <1>9, <2>1
<1>. QED BY <1>7, <1>10, <1>11

LEMMA FlagsFacts ==
  /\ Len(Flags) \in Nat /\ DOMAIN Flags = 1 .. Len(Flags)
  /\ \A f : f \in DOMAIN acceptable_inputs <=> \E k \in 1 .. Len(Flags) : Flags[k] = f
  /\ \A k \in 1 .. Len(Flags) : Flags[k] \notin {"include", "help", "package"}
  /\ \A j, k \in 1 .. Len(Flags) : Flags[j] = Flags[k] => j = k
<1>1. Len(Flags) = 9 /\ DOMAIN Flags = 1 .. 9
  BY DEF Flags
<1>2. \A k \in 1 .. 9 : \/ k = 1 \/ k = 2 \/ k = 3 \/ k = 4 \/ k = 5 \/ k = 6
                        \/ k = 7 \/ k = 8 \/ k = 9
  OBVIOUS
<1>3. /\ Flags[1] = "fix_type_errors" /\ Flags[2] = "stubs" /\ Flags[3] = "debug_printing"
      /\ Flags[4] = "output_utility_files" /\ Flags[5] = "leave_enums_alone"
      /\ Flags[6] = "print_generation_message" /\ Flags[7] = "quiet"
      /\ Flags[8] = "arg_handling" /\ Flags[9] = "tied_to_jerryscript"
  BY DEF Flags
<1>4. DOMAIN acceptable_inputs =
        {"fix_type_errors", "stubs", "debug_printing", "output_utility_files",
         "leave_enums_alone", "print_generation_message", "quiet", "arg_handling",
         "tied_to_jerryscript"}
  BY DEF acceptable_inputs
<1>5. \A k \in 1 .. 9 : Flags[k] \in DOMAIN acceptable_inputs
  BY <1>2, <1>3, <1>4
<1>6. \A f \in DOMAIN acceptable_inputs : \E k \in 1 .. 9 : Flags[k] = f
  <2>1. /\ 1 \in 1 .. 9 /\ 2 \in 1 .. 9 /\ 3 \in 1 .. 9 /\ 4 \in 1 .. 9 /\ 5 \in 1 .. 9
        /\ 6 \in 1 .. 9 /\ 7 \in 1 .. 9 /\ 8 \in 1 .. 9 /\ 9 \in 1 .. 9
    OBVIOUS
  <2>. QED BY <1>3, <1>4, <2>1
<1>7. \A k \in 1 .. 9 : Flags[k] \notin {"include", "help", "package"}
  BY <1>2, <1>3
<1>8. \A j, k \in 1 .. 9 : Flags[j] = Flags[k] => j = k
  BY <1>2, <1>3
<1>. QED BY <1>1, <1>5, <1>6, <1>7, <1>8

(* What is moved from the flags to the files. *)
LEMMA FilesFacts ==
  ASSUME NEW l \in Seq(AnArgument)
  PROVE  /\ files(l) \in Seq(Text)
         /\ \A v : v \in ToSet(files(l)) <=>
              \/ \E i \in WordPlaces(l) : Converted(l[i].value) = v
              \/ \E k \in 1 .. Len(Flags) : v \in ToSet(argv(l, Flags[k])) /\ v \in IdlNames
<1>. DEFINE lists_ == [k \in DOMAIN Flags |-> Kept(argv(l, Flags[k]), IdlNames)]
            moved  == FlattenSeq(lists_)
            n      == Len(Flags)
<1>1. n \in Nat /\ DOMAIN Flags = 1 .. n
  BY FlagsFacts
<1>2. \A k \in 1 .. n : /\ lists_[k] \in Seq(Text)
                        /\ ToSet(lists_[k]) = ToSet(argv(l, Flags[k])) \cap IdlNames
  <2>. TAKE k \in 1 .. n
  <2>1. argv(l, Flags[k]) \in Seq(Text)
    BY ArgvFacts DEF GivenSound
  <2>2. lists_[k] = Kept(argv(l, Flags[k]), IdlNames)
    BY <1>1
  <2>3. \A given \in Seq(Text) : /\ Kept(given, IdlNames) \in Seq(Text)
                                 /\ ToSet(Kept(given, IdlNames)) = ToSet(given) \cap IdlNames
    BY KeptPlaces, MembersOfKept
  <2>. QED BY <2>1, <2>2, <2>3
<1>3. lists_ \in [1 .. n -> Seq(Text)]
  BY <1>1, <1>2
<1>. HIDE DEF lists_, n
<1>4. lists_ \in Seq(Seq(Text)) /\ Len(lists_) = n
  BY <1>1, <1>3, TupleIsSeq
<1>5. /\ moved \in Seq(Text)
      /\ \A v : v \in ToSet(moved) <=> \E k \in 1 .. n : v \in ToSet(lists_[k])
  BY <1>4, FlattenedMembers
<1>6. files(l) = Words(l) \o moved
  BY DEF files, lists_
<1>7. Words(l) \in Seq(Text)
  BY WordsFacts
<1>. HIDE DEF moved
<1>8. files(l) \in Seq(Text) /\ ToSet(files(l)) = ToSet(Words(l)) \cup ToSet(moved)
  BY <1>5, <1>6, <1>7, MembersOfConcat, ConcatProperties
<1>9. \A v : v \in ToSet(moved) <=>
         \E k \in 1 .. n : v \in ToSet(argv(l, Flags[k])) /\ v \in IdlNames
  BY <1>2, <1>5
<1>10. \A v : v \in ToSet(Words(l)) <=> \E i \in WordPlaces(l) : Converted(l[i].value) = v
  BY WordsFacts
<1>. QED BY <1>8, <1>9, <1>10 DEF n

(* What validate has checked when it finds nothing wrong. *)
LEMMA AcceptedFacts ==
  ASSUME NEW l, validate(l) = "none"
  PROVE  /\ argv(l, "package") # << >> /\ ~ (Len(argv(l, "package")) > 1)
         /\ argv(l, "package")[1] \notin Booleans \cup Numbers
         /\ files(l) # << >>
         /\ Range(files(l)) \cap Numbers = {}
         /\ Range(include_files(l)) \cap (Booleans \cup Numbers) = {}
         /\ ~ found_an_error(l)
BY DEF validate

LEMMA IdlArgumentFacts ==
  ASSUME NEW l, NEW i
  PROVE  /\ i \in IdlArguments(l, FALSE) <=>
              /\ i \in DOMAIN l /\ l[i].form \in {"value", "word"} /\ l[i].value \in IdlNames
              /\ ~ IsIncludes(l, i)
         /\ i \in IdlArguments(l, TRUE) <=>
              /\ i \in DOMAIN l /\ l[i].form \in {"value", "word"} /\ l[i].value \in IdlNames
              /\ IsIncludes(l, i)
<1>1. IsIncludes(l, i) \in BOOLEAN
  BY DEF IsIncludes
<1>. QED BY <1>1 DEF IdlArguments, IsIdl

(* The .idl file that a key has been given is the value of one of its       *)
(* arguments, or the word behind it.                                        *)
LEMMA GivenFile ==
  ASSUME NEW l \in Seq(AnArgument), NEW i \in 1 .. Len(l), l[i].form # "word",
         ValueAt(l, i) \in IdlNames
  PROVE  \/ l[i].form = "value" /\ ValueAt(l, i) = l[i].value
         \/ TakesNext(l, i) /\ i + 1 \in 1 .. Len(l) /\ ValueAt(l, i) = l[i + 1].value
<1>1. True \notin IdlNames /\ False \notin IdlNames
  BY IdlNamesAssumption DEF Booleans
<1>2. TakesNext(l, i) => i + 1 \in 1 .. Len(l)
  BY LineFacts DEF TakesNext
<1>3. l[i].form = "value" => ValueAt(l, i) = Converted(l[i].value)
  BY DEF ValueAt
<1>4. l[i].form = "no" => ValueAt(l, i) = False
  BY DEF ValueAt
<1>5. l[i].form # "no" /\ l[i].form # "value" /\ ~ TakesNext(l, i) => ValueAt(l, i) = True
  BY DEF ValueAt
<1>6. l[i].form # "no" /\ l[i].form # "value" /\ TakesNext(l, i) =>
         ValueAt(l, i) = Converted(l[i + 1].value)
  BY DEF ValueAt
<1>7. \A j \in 1 .. Len(l) : Converted(l[j].value) \in IdlNames => Converted(l[j].value) = l[j].value
  BY LineFacts, ConvertedFacts
<1>. QED BY <1>1, <1>2, <1>3, <1>4, <1>5, <1>6, <1>7

(* The argument that gives a key the .idl file of an argument. *)
LEMMA FileIsGiven ==
  ASSUME NEW l \in Seq(AnArgument), NEW i \in 1 .. Len(l),
         l[i].form \in {"value", "word"}, l[i].value \in IdlNames, i \notin WordPlaces(l)
  PROVE  \E j \in 1 .. Len(l) :
            /\ l[j].form # "word" /\ ValueAt(l, j) = l[i].value
            /\ IsIncludes(l, i) <=> l[j].key = "include"
<1>1. DOMAIN l = 1 .. Len(l) /\ Len(l) \in Nat
  BY LineFacts
<1>4. Converted(l[i].value) = l[i].value
  BY LineFacts, ConvertedFacts
<1>2. CASE l[i].form = "value"
  <2>1. ValueAt(l, i) = l[i].value
    BY <1>4, <1>2 DEF ValueAt
  <2>. QED BY <1>2, <2>1 DEF IsIncludes
<1>3. CASE l[i].form = "word"
  <2>1. i > 1 /\ TakesNext(l, i - 1)
    BY <1>1, <1>3 DEF WordPlaces
  <2>2. i - 1 \in 1 .. Len(l) /\ (i - 1) + 1 = i
    BY <1>1, <2>1
  <2>3. l[i - 1].form = "flag" /\ l[i].form = "word"
    BY <2>1, <2>2 DEF TakesNext
  <2>4. ValueAt(l, i - 1) = l[i].value
    BY <1>4, <2>1, <2>2, <2>3 DEF ValueAt
  <2>5. IsIncludes(l, i) <=> l[i - 1].key = "include"
    BY <2>1, <2>3 DEF IsIncludes
  <2>. QED BY <2>2, <2>3, <2>4, <2>5
<1>. QED BY <1>2, <1>3

LEMMA WordsAreNoIncludes ==
  ASSUME NEW l \in Seq(AnArgument), NEW i \in WordPlaces(l)
  PROVE  ~ IsIncludes(l, i) /\ i \in 1 .. Len(l) /\ l[i].form = "word"
<1>1. DOMAIN l = 1 .. Len(l) /\ Len(l) \in Nat
  BY LineFacts
<1>2. i \in 1 .. Len(l) /\ l[i].form = "word"
  BY <1>1 DEF WordPlaces
<1>3. i > 1 => i - 1 < Len(l) /\ (i - 1) + 1 = i
  BY <1>1, <1>2
<1>4. ~ IsIncludes(l, i)
  BY <1>2, <1>3 DEF IsIncludes, WordPlaces, TakesNext
<1>. QED BY <1>2, <1>4

(* On an accepted line, an .idl file is only given to --include or a flag.  *)
LEMMA FileIsOfAFlag ==
  ASSUME NEW l \in Seq(AnArgument), validate(l) = "none",
         NEW j \in 1 .. Len(l), l[j].form # "word", ValueAt(l, j) \in IdlNames
  PROVE  l[j].key = "include" \/ \E k \in 1 .. Len(Flags) : l[j].key = Flags[k]
<1>1. ~ found_an_error(l)
  BY AcceptedFacts
<1>2. /\ argv(l, "help") = << >>
      /\ argv(l, "package")[1] \notin IdlNames
      /\ l[j].key \in KnownKeys
  <2>1. j \in DOMAIN l
    BY LineFacts
  <2>. QED BY <1>1, <2>1 DEF found_an_error, IsIdl
<1>3. ValueAt(l, j) \notin Booleans
  BY IdlNamesAssumption
<1>4. l[j].key # "help"
  <2>. SUFFICES ASSUME l[j].key = "help"
                PROVE  FALSE
    OBVIOUS
  <2>1. j \in Gives(l, "help") /\ j <= Len(l)
    BY LineFacts DEF Gives
  <2>. QED BY <1>2, <2>1, ArgvFacts DEF GivenSound
<1>5. l[j].key # "package"
  <2>. SUFFICES ASSUME l[j].key = "package"
                PROVE  FALSE
    OBVIOUS
  <2>. DEFINE package == argv(l, "package")
  <2>1. j \in Gives(l, "package") /\ j <= Len(l)
    BY LineFacts DEF Gives
  <2>2. package \in Seq(Text) /\ ValueAt(l, j) \in ToSet(package)
    BY <1>3, <2>1, ArgvFacts DEF GivenSound
  <2>3. ~ (Len(package) > 1)
    BY AcceptedFacts
  <2>. HIDE DEF package
  <2>4. PICK k \in 1 .. Len(package) : package[k] = ValueAt(l, j)
    BY <2>2, Members
  <2>5. k = 1
    BY <2>2, <2>3, Members
  <2>. QED BY <1>2, <2>4, <2>5 DEF package
<1>6. l[j].key \in DOMAIN acceptable_inputs \cup {"include"}
  BY <1>2, <1>4, <1>5 DEF KnownKeys
<1>. QED BY <1>6, FlagsFacts

(* The files to compile are those of the line that are no --include's. *)
LEMMA CompiledFiles ==
  ASSUME NEW l \in Seq(AnArgument), validate(l) = "none"
  PROVE  \A v : v \in ToSet(files(l)) <=> \E i \in IdlArguments(l, FALSE) : l[i].value = v
<1>1. DOMAIN l = 1 .. Len(l) /\ Len(l) \in Nat
  BY LineFacts
<1>2. \A v \in ToSet(files(l)) : v \in IdlNames
  <2>1. ~ found_an_error(l)
    BY AcceptedFacts
  <2>. QED BY <2>1, RangeIsToSet DEF found_an_error, IsIdl
<1>3. ASSUME NEW v \in ToSet(files(l))
      PROVE  \E i \in IdlArguments(l, FALSE) : l[i].value = v
  <2>1. CASE \E i \in WordPlaces(l) : Converted(l[i].value) = v
    <3>1. PICK i \in WordPlaces(l) : Converted(l[i].value) = v
      BY <2>1
    <3>2. ~ IsIncludes(l, i) /\ i \in 1 .. Len(l) /\ l[i].form = "word"
      BY WordsAreNoIncludes
    <3>3. l[i].value = v /\ v \in IdlNames
      BY <1>2, <3>1, <3>2, LineFacts, ConvertedFacts
    <3>4. i \in IdlArguments(l, FALSE)
      BY <1>1, <3>2, <3>3, IdlArgumentFacts
    <3>. QED BY <3>3, <3>4
  <2>2. CASE \E k \in 1 .. Len(Flags) : v \in ToSet(argv(l, Flags[k])) /\ v \in IdlNames
    <3>1. PICK k \in 1 .. Len(Flags) : v \in ToSet(argv(l, Flags[k])) /\ v \in IdlNames
      BY <2>2
    <3>2. PICK j \in Gives(l, Flags[k]) : v = ValueAt(l, j)
      BY <3>1, ArgvFacts DEF GivenSound
    <3>3. j \in 1 .. Len(l) /\ l[j].form # "word" /\ l[j].key = Flags[k] /\ Flags[k] # "include"
      BY <3>2, FlagsFacts DEF Gives
    <3>4. CASE l[j].form = "value" /\ ValueAt(l, j) = l[j].value
      <4>1. ~ IsIncludes(l, j)
        BY <3>3, <3>4 DEF IsIncludes
      <4>2. j \in IdlArguments(l, FALSE)
        BY <1>1, <3>1, <3>2, <3>3, <3>4, <4>1, IdlArgumentFacts
      <4>. QED BY <3>2, <3>4, <4>2
    <3>5. CASE TakesNext(l, j) /\ j + 1 \in 1 .. Len(l) /\ ValueAt(l, j) = l[j + 1].value
      <4>1. l[j + 1].form = "word" /\ (j + 1) - 1 = j
        BY <1>1, <3>3, <3>5 DEF TakesNext
      <4>2. ~ IsIncludes(l, j + 1)
        BY <3>3, <4>1 DEF IsIncludes
      <4>3. j + 1 \in IdlArguments(l, FALSE)
        BY <1>1, <3>1, <3>2, <3>5, <4>1, <4>2, IdlArgumentFacts
      <4>. QED BY <3>2, <3>5, <4>3
    <3>. QED BY <3>1, <3>2, <3>3, <3>4, <3>5, GivenFile
  <2>. QED BY <2>1, <2>2, FilesFacts
<1>4. ASSUME NEW i \in IdlArguments(l, FALSE)
      PROVE  l[i].value \in ToSet(files(l))
  <2>1. /\ i \in 1 .. Len(l) /\ l[i].form \in {"value", "word"} /\ l[i].value \in IdlNames
        /\ ~ IsIncludes(l, i)
    BY <1>1, IdlArgumentFacts
  <2>2. CASE i \in WordPlaces(l)
    <3>1. Converted(l[i].value) = l[i].value
      BY <2>1, LineFacts, ConvertedFacts
    <3>. QED BY <2>2, <3>1, FilesFacts
  <2>3. CASE i \notin WordPlaces(l)
    <3>1. PICK j \in 1 .. Len(l) : l[j].form # "word" /\ ValueAt(l, j) = l[i].value
                                   /\ l[j].key # "include"
      BY <2>1, <2>3, FileIsGiven
    <3>2. PICK k \in 1 .. Len(Flags) : l[j].key = Flags[k]
      BY <2>1, <3>1, FileIsOfAFlag
    <3>3. j \in Gives(l, Flags[k]) /\ j <= Len(l) /\ ValueAt(l, j) \notin Booleans
      <4>1. ValueAt(l, j) \notin Booleans
        BY <2>1, <3>1, IdlNamesAssumption
      <4>. QED BY <1>1, <3>1, <3>2, <4>1 DEF Gives
    <3>4. ValueAt(l, j) \in ToSet(argv(l, Flags[k]))
      BY <3>3, ArgvFacts DEF GivenSound
    <3>. QED BY <2>1, <3>1, <3>4, FilesFacts
  <2>. QED BY <2>2, <2>3
<1>. QED BY <1>3, <1>4

(* The included files are those of the line that are an --include's. *)
LEMMA IncludedFiles ==
  ASSUME NEW l \in Seq(AnArgument), validate(l) = "none"
  PROVE  /\ include_files(l) \in Seq(Text)
         /\ \A v : v \in ToSet(include_files(l)) <=> \E i \in IdlArguments(l, TRUE) : l[i].value = v
<1>. DEFINE given == argv(l, "include")
<1>1. DOMAIN l = 1 .. Len(l) /\ Len(l) \in Nat
  BY LineFacts
<1>2. \A v \in ToSet(include_files(l)) : v \in IdlNames
  <2>1. ~ found_an_error(l)
    BY AcceptedFacts
  <2>. QED BY <2>1, RangeIsToSet DEF found_an_error, IsIdl
<1>3. GivenSound(l, "include", given, Len(l))
  BY ArgvFacts
<1>4. include_files(l) = IF Len(given) = 1 /\ given[1] \in Booleans \cup Numbers THEN << >> ELSE given
  BY DEF include_files
<1>. HIDE DEF given
<1>5. include_files(l) \in Seq(Text)
  BY <1>3, <1>4, EmptySeq DEF GivenSound
<1>6. ASSUME NEW v \in ToSet(include_files(l))
      PROVE  \E i \in IdlArguments(l, TRUE) : l[i].value = v
  <2>1. v \in ToSet(given)
    <3>1. ToSet(<< >>) = {}
      BY DEF ToSet
    <3>. QED BY <1>4, <1>6, <3>1
  <2>2. PICK j \in Gives(l, "include") : v = ValueAt(l, j)
    BY <1>3, <2>1 DEF GivenSound
  <2>3. j \in 1 .. Len(l) /\ l[j].form # "word" /\ l[j].key = "include" /\ v \in IdlNames
    BY <1>2, <2>2 DEF Gives
  <2>4. CASE l[j].form = "value" /\ ValueAt(l, j) = l[j].value
    <3>1. IsIncludes(l, j)
      BY <2>3, <2>4 DEF IsIncludes
    <3>2. j \in IdlArguments(l, TRUE)
      BY <1>1, <2>2, <2>3, <2>4, <3>1, IdlArgumentFacts
    <3>. QED BY <2>2, <2>4, <3>2
  <2>5. CASE TakesNext(l, j) /\ j + 1 \in 1 .. Len(l) /\ ValueAt(l, j) = l[j + 1].value
    <3>1. l[j].form = "flag" /\ l[j + 1].form = "word" /\ (j + 1) - 1 = j /\ j + 1 > 1
      BY <1>1, <2>3, <2>5 DEF TakesNext
    <3>2. IsIncludes(l, j + 1)
      BY <2>3, <3>1 DEF IsIncludes
    <3>3. j + 1 \in IdlArguments(l, TRUE)
      BY <1>1, <2>2, <2>3, <2>5, <3>1, <3>2, IdlArgumentFacts
    <3>. QED BY <2>2, <2>5, <3>3
  <2>. QED BY <2>2, <2>3, <2>4, <2>5, GivenFile
<1>7. ASSUME NEW i \in IdlArguments(l, TRUE)
      PROVE  l[i].value \in ToSet(include_files(l))
  <2>1. /\ i \in 1 .. Len(l) /\ l[i].form \in {"value", "word"} /\ l[i].value \in IdlNames
        /\ IsIncludes(l, i)
    BY <1>1, IdlArgumentFacts
  <2>2. i \notin WordPlaces(l)
    BY <2>1, WordsAreNoIncludes
  <2>3. PICK j \in 1 .. Len(l) : l[j].form # "word" /\ ValueAt(l, j) = l[i].value
                                 /\ l[j].key = "include"
    BY <2>1, <2>2, FileIsGiven
  <2>4. j \in Gives(l, "include") /\ j <= Len(l) /\ ValueAt(l, j) \notin Booleans
    <3>1. ValueAt(l, j) \notin Booleans
      BY <2>1, <2>3, IdlNamesAssumption
    <3>. QED BY <1>1, <2>3, <3>1 DEF Gives
  <2>5. ValueAt(l, j) \in ToSet(given)
    BY <1>3, <2>4 DEF GivenSound
  <2>6. given \in Seq(Text)
    BY <1>3 DEF GivenSound
  <2>7. ~ (Len(given) = 1 /\ given[1] \in Booleans \cup Numbers)
    <3>1. ValueAt(l, j) \notin Numbers
      BY <2>1, <2>3, NumberAssumption
    <3>. QED BY <2>4, <2>5, <2>6, <3>1, Members
  <2>. QED BY <1>4, <2>3, <2>5, <2>7
<1>. QED BY <1>5, <1>6, <1>7

----------------------------------------------------------------------------
(* What the .idl files declare.                                             *)

AnObject == [kind : Kinds, name : Seq(STRING), dont_print_this_thing_out : BOOLEAN]

IsName(name) == name \in Seq(STRING) /\ Len(name) = 1 /\ name # utilities_filename /\ name[1] # "_stubs"

Marked(object, included) ==
  [kind |-> object.kind, name |-> object.name, dont_print_this_thing_out |-> included]

MarkedObjects(file, included) ==
  [j \in DOMAIN Sources[file].objects |-> Marked(Sources[file].objects[j], included)]

(* What is declared in a file, in the form that it has on the lists. *)
Declared(file, included) ==
  {Marked(object, included) : object \in Range(Sources[file].objects)}

LEMMA SourceFacts ==
  ASSUME NEW file \in DOMAIN Sources, NEW included \in BOOLEAN
  PROVE  /\ MarkedObjects(file, included) \in Seq(AnObject)
         /\ ToSet(MarkedObjects(file, included)) = Declared(file, included)
         /\ \A o \in Declared(file, included) :
              o \in AnObject /\ IsName(o.name) /\ o.dont_print_this_thing_out = included
<1>. DEFINE objects == Sources[file].objects
            Raw     == [kind : Kinds, name : Seq(STRING)]
<1>1. /\ objects \in Seq(Raw)
      /\ \A k \in DOMAIN objects :
           Len(objects[k].name) = 1 /\ objects[k].name # utilities_filename
             /\ objects[k].name[1] # "_stubs"
  BY SourcesAssumption
<1>. HIDE DEF objects
<1>2. /\ Len(objects) \in Nat /\ DOMAIN objects = 1 .. Len(objects)
      /\ \A k \in 1 .. Len(objects) : objects[k] \in Raw
      /\ \A o : o \in Range(objects) <=> \E k \in 1 .. Len(objects) : objects[k] = o
  <2>1. objects \in Seq(Raw)
    BY <1>1
  <2>. HIDE DEF Raw
  <2>2. /\ Len(objects) \in Nat /\ DOMAIN objects = 1 .. Len(objects)
        /\ \A k \in 1 .. Len(objects) : objects[k] \in Raw
        /\ \A o : o \in ToSet(objects) <=> \E k \in 1 .. Len(objects) : objects[k] = o
    BY <2>1, Members
  <2>. QED BY <2>2, RangeIsToSet
<1>3. \A o \in Raw : /\ Marked(o, included) \in AnObject
                     /\ Marked(o, included).name = o.name
                     /\ Marked(o, included).dont_print_this_thing_out = included
  BY DEF Marked, AnObject
<1>4. \A k \in 1 .. Len(objects) : objects[k].name \in Seq(STRING)
  BY <1>2
<1>. HIDE DEF Raw
<1>. DEFINE marked == MarkedObjects(file, included)
<1>5. marked = [j \in 1 .. Len(objects) |-> Marked(objects[j], included)]
  BY <1>2 DEF MarkedObjects, objects
<1>. HIDE DEF marked
<1>6. marked \in [1 .. Len(objects) -> AnObject]
  BY <1>2, <1>3, <1>5
<1>7. marked \in Seq(AnObject) /\ Len(marked) = Len(objects)
  BY <1>2, <1>6, TupleIsSeq
<1>8. \A o : o \in ToSet(marked) <=> \E k \in 1 .. Len(objects) : marked[k] = o
  BY <1>7, Members
<1>9. \A o : o \in Declared(file, included) <=>
               \E k \in 1 .. Len(objects) : Marked(objects[k], included) = o
  BY <1>2 DEF Declared, objects
<1>10. \A k \in 1 .. Len(objects) : marked[k] = Marked(objects[k], included)
  BY <1>5
<1>11. ToSet(marked) = Declared(file, included)
  BY <1>8, <1>9, <1>10
<1>12. ASSUME NEW o \in Declared(file, included)
       PROVE  o \in AnObject /\ IsName(o.name) /\ o.dont_print_this_thing_out = included
  <2>1. PICK k \in 1 .. Len(objects) : Marked(objects[k], included) = o
    BY <1>9
  <2>2. o \in AnObject /\ o.name = objects[k].name /\ o.dont_print_this_thing_out = included
    BY <1>2, <1>3, <2>1
  <2>3. IsName(objects[k].name)
    BY <1>1, <1>2, <1>4 DEF IsName
  <2>. QED BY <2>2, <2>3
<1>. QED BY <1>7, <1>11, <1>12 DEF marked

LEMMA ReadFacts ==
  ASSUME NEW names \in Seq(Text), ToSet(names) \subseteq DOMAIN Sources,
         NEW included \in BOOLEAN
  PROVE  /\ readFiles(names, included) \in Seq(AnObject)
         /\ \A o : o \in ToSet(readFiles(names, included)) <=>
                     \E file \in ToSet(names) : o \in Declared(file, included)
<1>. DEFINE parts == [k \in DOMAIN names |-> MarkedObjects(names[k], included)]
            n     == Len(names)
<1>1. /\ n \in Nat /\ DOMAIN names = 1 .. n
      /\ \A k \in 1 .. n : names[k] \in DOMAIN Sources
      /\ \A file : file \in ToSet(names) <=> \E k \in 1 .. n : names[k] = file
  BY Members
<1>2. parts \in [1 .. n -> Seq(AnObject)]
  BY <1>1, SourceFacts
<1>3. \A k \in 1 .. n : ToSet(parts[k]) = Declared(names[k], included)
  BY <1>1, SourceFacts
<1>4. readFiles(names, included) = FlattenSeq(parts)
  BY DEF readFiles, MarkedObjects, Marked
<1>. HIDE DEF parts, n
<1>5. parts \in Seq(Seq(AnObject)) /\ Len(parts) = n
  BY <1>1, <1>2, TupleIsSeq
<1>6. /\ FlattenSeq(parts) \in Seq(AnObject)
      /\ \A o : o \in ToSet(FlattenSeq(parts)) <=> \E k \in 1 .. n : o \in ToSet(parts[k])
  BY <1>5, FlattenedMembers
<1>. QED BY <1>1, <1>3, <1>4, <1>6

(* A legal line's objects have different names, if they are of the kinds    *)
(* whose names are recorded; the mark says for each whether its file was    *)
(* included.                                                                *)
ParsedSound(l) ==
  LET parsed == parsed_file(l)
  IN  /\ parsed \in Seq(AnObject)
      /\ \A o \in ToSet(parsed) : IsName(o.name)
      /\ \A o, x \in ToSet(parsed) :
            o.kind \notin Made /\ x.kind \notin Made /\ o.name = x.name => o = x
      /\ \A o : o \in ToSet(parsed) <=>
           \/ \E file \in ToSet(files(l)) : o \in Declared(file, FALSE)
           \/ \E file \in ToSet(include_files(l)) : o \in Declared(file, TRUE)

LEMMA ParsedFacts ==
  ASSUME NEW l \in Seq(AnArgument), validate(l) = "none", IsLegal(l)
  PROVE  /\ ParsedSound(l)
         /\ ToSet(files(l)) \cup ToSet(include_files(l)) \subseteq DOMAIN Sources
<1>. DEFINE main     == files(l)
            included == include_files(l)
            parsed   == parsed_file(l)
<1>1. main \in Seq(Text) /\ included \in Seq(Text)
  BY FilesFacts, IncludedFiles
<1>2. ToSet(main) \cup ToSet(included) \subseteq DOMAIN Sources
  <2>1. ToSet(main \o included) \subseteq DOMAIN Sources
    BY RangeIsToSet DEF IsLegal
  <2>. HIDE DEF main, included
  <2>. QED BY <1>1, <2>1, MembersOfConcat
<1>3. /\ \A j, k \in DOMAIN parsed :
            parsed[j].kind \notin Made /\ parsed[k].kind \notin Made
              /\ parsed[j].name = parsed[k].name => j = k
      /\ parsed = readFiles(main, FALSE) \o readFiles(included, TRUE)
  BY DEF IsLegal, parsed_file
<1>. HIDE DEF main, included, parsed
<1>4. /\ readFiles(main, FALSE) \in Seq(AnObject) /\ readFiles(included, TRUE) \in Seq(AnObject)
      /\ \A o : o \in ToSet(readFiles(main, FALSE)) <=>
                  \E file \in ToSet(main) : o \in Declared(file, FALSE)
      /\ \A o : o \in ToSet(readFiles(included, TRUE)) <=>
                  \E file \in ToSet(included) : o \in Declared(file, TRUE)
  <2>1. ToSet(main) \subseteq DOMAIN Sources /\ ToSet(included) \subseteq DOMAIN Sources
    BY <1>2
  <2>. QED BY <1>1, <2>1, ReadFacts
<1>5. parsed \in Seq(AnObject)
  BY <1>3, <1>4, ConcatProperties
<1>6. \A o : o \in ToSet(parsed) <=>
         \/ \E file \in ToSet(main) : o \in Declared(file, FALSE)
         \/ \E file \in ToSet(included) : o \in Declared(file, TRUE)
  <2>1. ToSet(parsed) = ToSet(readFiles(main, FALSE)) \cup ToSet(readFiles(included, TRUE))
    <3>. DEFINE own == readFiles(main, FALSE)
                others == readFiles(included, TRUE)
    <3>1. own \in Seq(AnObject) /\ others \in Seq(AnObject) /\ parsed = own \o others
      BY <1>3, <1>4
    <3>. HIDE DEF own, others
    <3>2. ToSet(own \o others) = ToSet(own) \cup ToSet(others)
      BY <3>1, MembersOfConcat
    <3>. QED BY <3>1, <3>2 DEF own, others
  <2>. QED BY <1>4, <2>1
<1>7. \A o \in ToSet(parsed) : IsName(o.name)
  BY <1>2, <1>6, SourceFacts
<1>8. \A o, x \in ToSet(parsed) :
         o.kind \notin Made /\ x.kind \notin Made /\ o.name = x.name => o = x
  <2>1. DOMAIN parsed = 1 .. Len(parsed)
        /\ \A o : o \in ToSet(parsed) <=> \E k \in 1 .. Len(parsed) : parsed[k] = o
    BY <1>5, Members
  <2>. SUFFICES ASSUME NEW o \in ToSet(parsed), NEW x \in ToSet(parsed),
                       o.kind \notin Made, x.kind \notin Made, o.name = x.name
                PROVE  o = x
    OBVIOUS
  <2>2. PICK j \in 1 .. Len(parsed) : parsed[j] = o
    BY <2>1
  <2>3. PICK k \in 1 .. Len(parsed) : parsed[k] = x
    BY <2>1
  <2>. QED BY <1>3, <2>1, <2>2, <2>3
<1>. QED BY <1>2, <1>5, <1>6, <1>7, <1>8 DEF ParsedSound, parsed, main, included

(* One object for each name: none is lost, and none is added. *)
LEMMA ByNameFacts ==
  ASSUME NEW A, NEW s \in Seq(A)
  PROVE  /\ ByName(s) \in Seq(A)
         /\ ToSet(ByName(s)) \subseteq ToSet(s)
         /\ \A o \in ToSet(s) : \E x \in ToSet(ByName(s)) : x.name = o.name
<1>. DEFINE n     == Len(s)
            S     == {k \in DOMAIN s : \A j \in 1 .. k - 1 : s[j].name # s[k].name}
            first == Increasing(S, n)
            named == ByName(s)
<1>1. /\ n \in Nat /\ DOMAIN s = 1 .. n
      /\ \A k \in 1 .. n : s[k] \in A /\ s[k] \in ToSet(s)
      /\ \A o : o \in ToSet(s) <=> \E k \in 1 .. n : s[k] = o
  BY Members
<1>2. \A k : k \in S <=> k \in 1 .. n /\ \A j \in 1 .. k - 1 : s[j].name # s[k].name
  BY <1>1
<1>3. named = [k \in DOMAIN first |-> s[first[k]]]
  BY DEF ByName
<1>. HIDE DEF S, named, n
<1>4. first \in Seq(1 .. n) /\ ToSet(first) = S
  BY <1>1, <1>2, IncreasingFacts
<1>. HIDE DEF first
<1>5. /\ Len(first) \in Nat /\ DOMAIN first = 1 .. Len(first)
      /\ \A k \in 1 .. Len(first) : first[k] \in 1 .. n
      /\ \A i : i \in S <=> \E k \in 1 .. Len(first) : first[k] = i
  BY <1>4, Members
<1>6. named \in [1 .. Len(first) -> A] /\ \A k \in 1 .. Len(first) : named[k] = s[first[k]]
  BY <1>1, <1>3, <1>5
<1>7. named \in Seq(A) /\ Len(named) = Len(first)
  BY <1>5, <1>6, TupleIsSeq
<1>8. \A o : o \in ToSet(named) <=> \E k \in 1 .. Len(first) : named[k] = o
  BY <1>7, Members
<1>9. ToSet(named) \subseteq ToSet(s)
  BY <1>1, <1>5, <1>6, <1>8
<1>10. ASSUME NEW o \in ToSet(s)
       PROVE  \E x \in ToSet(named) : x.name = o.name
  <2>. DEFINE T == {k \in 1 .. n : s[k].name = o.name}
  <2>1. T \subseteq Nat /\ T # {}
    BY <1>1
  <2>2. PICK k \in T : \A j \in T : k <= j
    BY <2>1, LeastNumber
  <2>3. k \in 1 .. n /\ s[k].name = o.name
    OBVIOUS
  <2>4. \A j \in 1 .. k - 1 : j \in 1 .. n /\ ~ (k <= j)
    BY <1>1, <2>3
  <2>5. k \in S
    BY <1>2, <2>2, <2>3, <2>4
  <2>6. PICK i \in 1 .. Len(first) : first[i] = k
    BY <1>5, <2>5
  <2>. QED BY <1>6, <1>8, <2>3, <2>6
<1>. QED BY <1>7, <1>9, <1>10 DEF named

(* What the compiler makes of the declarations. *)
AllObjects(l) == {compiled(o) : o \in ToSet(parsed_file(l))}

CompiledSound(o) ==
  /\ compiled(o) \in AnObject
  /\ compiled(o).kind = o.kind /\ compiled(o).name = o.name
  /\ compiled(o).dont_print_this_thing_out = (o.kind \notin Made /\ o.dont_print_this_thing_out)
  /\ o.kind \notin Made => compiled(o) = o

LEMMA CompiledFacts ==
  ASSUME NEW o \in AnObject
  PROVE  CompiledSound(o)
BY DEF compiled, AnObject, CompiledSound

LEMMA ObjectsAreCompiled ==
  ASSUME NEW l, ParsedSound(l), NEW o \in AllObjects(l)
  PROVE  /\ o \in AnObject /\ IsName(o.name)
         /\ \E x \in ToSet(parsed_file(l)) : o = compiled(x) /\ x \in AnObject
<1>1. PICK x \in ToSet(parsed_file(l)) : o = compiled(x)
  BY DEF AllObjects
<1>2. x \in AnObject /\ IsName(x.name)
  <2>. DEFINE parsed == parsed_file(l)
  <2>1. parsed \in Seq(AnObject) /\ x \in ToSet(parsed) /\ IsName(x.name)
    BY <1>1 DEF ParsedSound
  <2>. HIDE DEF parsed
  <2>. QED BY <2>1, Members
<1>3. CompiledSound(x)
  BY <1>2, CompiledFacts
<1>. QED BY <1>1, <1>2, <1>3 DEF CompiledSound

(* Two objects of one kind and of one name are the same. *)
LEMMA SameObject ==
  ASSUME NEW l, ParsedSound(l), NEW o \in AllObjects(l), NEW x \in AllObjects(l),
         o.name = x.name, o.kind = x.kind \/ (o.kind \notin Made /\ x.kind \notin Made)
  PROVE  o = x
<1>1. PICK oo \in ToSet(parsed_file(l)) : o = compiled(oo) /\ oo \in AnObject
  BY ObjectsAreCompiled
<1>2. PICK xx \in ToSet(parsed_file(l)) : x = compiled(xx) /\ xx \in AnObject
  BY ObjectsAreCompiled
<1>3. CompiledSound(oo) /\ CompiledSound(xx)
  BY <1>1, <1>2, CompiledFacts
<1>4. CASE o.kind \in Made
  <2>1. /\ o.dont_print_this_thing_out = FALSE /\ x.dont_print_this_thing_out = FALSE
        /\ o.kind = x.kind /\ o \in AnObject /\ x \in AnObject
    BY <1>1, <1>2, <1>3, <1>4 DEF CompiledSound
  <2>. QED BY <2>1 DEF AnObject
<1>5. CASE o.kind \notin Made
  <2>1. oo.kind \notin Made /\ xx.kind \notin Made /\ oo.name = xx.name /\ o = oo /\ x = xx
    BY <1>1, <1>2, <1>3, <1>5 DEF CompiledSound
  <2>. QED BY <2>1 DEF ParsedSound
<1>. QED BY <1>4, <1>5

(* The list of a kind has the objects of that kind. *)
LEMMA ListFacts ==
  ASSUME NEW l, ParsedSound(l), NEW kind \in Kinds
  PROVE  /\ augAST(l)[kind] \in Seq(AnObject)
         /\ ToSet(augAST(l)[kind]) = {o \in AllObjects(l) : o.kind = kind}
<1>. DEFINE parsed  == parsed_file(l)
            objects == [k \in DOMAIN parsed |-> compiled(parsed[k])]
            ofKind  == Kept(objects, {o \in Range(objects) : o.kind = kind})
            list    == ByName(ofKind)
            n       == Len(parsed)
<1>1. augAST(l)[kind] = list
  BY DEF augAST
<1>2. /\ n \in Nat /\ DOMAIN parsed = 1 .. n
      /\ \A k \in 1 .. n : parsed[k] \in AnObject
      /\ \A o : o \in ToSet(parsed) <=> \E k \in 1 .. n : parsed[k] = o
  <2>1. parsed \in Seq(AnObject)
    BY DEF ParsedSound
  <2>. HIDE DEF parsed
  <2>. QED BY <2>1, Members
<1>3. objects = [k \in 1 .. n |-> compiled(parsed[k])]
  BY <1>2
<1>. HIDE DEF objects, parsed, n
<1>4. \A k \in 1 .. n : compiled(parsed[k]) \in AnObject
  BY <1>2, CompiledFacts DEF CompiledSound
<1>5. objects \in Seq(AnObject) /\ Len(objects) = n
  <2>1. objects \in [1 .. n -> AnObject]
    BY <1>3, <1>4
  <2>. QED BY <1>2, <2>1, TupleIsSeq
<1>6. ToSet(objects) = AllObjects(l)
  <2>1. \A o : o \in ToSet(objects) <=> \E k \in 1 .. n : objects[k] = o
    BY <1>5, Members
  <2>2. \A o : o \in AllObjects(l) <=> \E k \in 1 .. n : compiled(parsed[k]) = o
    BY <1>2 DEF AllObjects, parsed
  <2>. QED BY <1>3, <2>1, <2>2
<1>7. ofKind \in Seq(AnObject) /\ ToSet(ofKind) = {o \in AllObjects(l) : o.kind = kind}
  <2>1. Range(objects) = AllObjects(l)
    BY <1>6, RangeIsToSet
  <2>2. /\ ofKind \in Seq(AnObject)
        /\ ToSet(ofKind) = ToSet(objects) \cap {o \in Range(objects) : o.kind = kind}
    BY <1>5, KeptPlaces, MembersOfKept
  <2>. QED BY <1>6, <2>1, <2>2
<1>. HIDE DEF ofKind
<1>8. /\ list \in Seq(AnObject) /\ ToSet(list) \subseteq ToSet(ofKind)
      /\ \A o \in ToSet(ofKind) : \E x \in ToSet(list) : x.name = o.name
  BY <1>7, ByNameFacts
<1>. HIDE DEF list
<1>9. ASSUME NEW o \in ToSet(ofKind)
      PROVE  o \in ToSet(list)
  <2>1. PICK x \in ToSet(list) : x.name = o.name
    BY <1>8
  <2>2. x = o
    BY <1>7, <1>8, <2>1, SameObject
  <2>. QED BY <2>1, <2>2
<1>. QED BY <1>1, <1>7, <1>8, <1>9

----------------------------------------------------------------------------
(* The paths of the files.                                                  *)

Pieces == STRING \cup {"_stubs", ".h", "_private", ".c", "webidl_compiler_utilities"}
Generators == Range(Passes) \cup {"utilities"}

IsFileName(name) == name \in Seq(Pieces) /\ Len(name) = 1 /\ name[1] # "_stubs"

LEMMA PassFacts ==
  /\ Len(Passes) = 7 /\ DOMAIN Passes = 1 .. 7
  /\ Passes[1] = "typedefs" /\ Passes[2] = "interfaces" /\ Passes[3] = "stubs"
  /\ Passes[4] = "dictionaries" /\ Passes[5] = "enums" /\ Passes[6] = "callbacks"
  /\ Passes[7] = "composites"
  /\ \A n \in 1 .. 7 : n = 1 \/ n = 2 \/ n = 3 \/ n = 4 \/ n = 5 \/ n = 6 \/ n = 7
  /\ Range(Passes) = {"typedefs", "interfaces", "stubs", "dictionaries", "enums",
                      "callbacks", "composites"}
<1>1. Len(Passes) = 7 /\ DOMAIN Passes = 1 .. 7
  BY DEF Passes
<1>2. /\ Passes[1] = "typedefs" /\ Passes[2] = "interfaces" /\ Passes[3] = "stubs"
      /\ Passes[4] = "dictionaries" /\ Passes[5] = "enums" /\ Passes[6] = "callbacks"
      /\ Passes[7] = "composites"
  BY DEF Passes
<1>3. \A n \in 1 .. 7 : n = 1 \/ n = 2 \/ n = 3 \/ n = 4 \/ n = 5 \/ n = 6 \/ n = 7
  OBVIOUS
<1>4. /\ 1 \in 1 .. 7 /\ 2 \in 1 .. 7 /\ 3 \in 1 .. 7 /\ 4 \in 1 .. 7 /\ 5 \in 1 .. 7
      /\ 6 \in 1 .. 7 /\ 7 \in 1 .. 7
  OBVIOUS
<1>5. \A p : p \in Range(Passes) <=> \E n \in 1 .. 7 : Passes[n] = p
  BY <1>1 DEF Range
<1>6. \A p : p \in Range(Passes) <=>
         p \in {"typedefs", "interfaces", "stubs", "dictionaries", "enums", "callbacks",
                "composites"}
  BY <1>2, <1>3, <1>4, <1>5
<1>. QED BY <1>1, <1>2, <1>3, <1>6

LEMMA IndexFacts ==
  ASSUME NEW p \in Generators
  PROVE  /\ indices(p) \in Seq(1 .. 3)
         /\ ToSet(indices(p)) = IF p = "stubs" THEN {1, 3}
                                ELSE IF p = "typedefs" THEN {1, 2} ELSE {1, 2, 3}
<1>1. CASE p = "stubs"
  <2>1. indices(p) = <<1, 3>>
    BY <1>1 DEF indices
  <2>2. ToSet(<<1, 3>>) = {1, 3} /\ <<1, 3>> \in Seq(1 .. 3)
    BY DEF ToSet
  <2>. QED BY <1>1, <2>1, <2>2
<1>2. CASE p = "typedefs"
  <2>1. indices(p) = <<1, 2>>
    BY <1>2 DEF indices
  <2>2. ToSet(<<1, 2>>) = {1, 2} /\ <<1, 2>> \in Seq(1 .. 3)
    BY DEF ToSet
  <2>. QED BY <1>2, <2>1, <2>2
<1>3. CASE p # "stubs" /\ p # "typedefs"
  <2>1. indices(p) = <<1, 2, 3>>
    BY <1>3 DEF indices
  <2>2. ToSet(<<1, 2, 3>>) = {1, 2, 3} /\ <<1, 2, 3>> \in Seq(1 .. 3)
    BY DEF ToSet
  <2>. QED BY <1>3, <2>1, <2>2
<1>. QED BY <1>1, <1>2, <1>3

EndPiece(i) == IF i = 1 THEN ".h" ELSE IF i = 2 THEN "_private" ELSE ".c"

LEMMA EndFacts ==
  ASSUME NEW i \in 1 .. 3
  PROVE  LET e == header_or_body[i]
         IN  /\ e \in Seq(Pieces) /\ Len(e) \in {1, 2} /\ e[1] = EndPiece(i)
             /\ "_stubs" \notin ToSet(e)
<1>1. i = 1 \/ i = 2 \/ i = 3
  OBVIOUS
<1>2. CASE i = 1
  <2>1. header_or_body[i] = <<".h">>
    BY <1>2 DEF header_or_body
  <2>2. ToSet(<<".h">>) = {".h"} /\ <<".h">> \in Seq(Pieces)
    BY DEF ToSet, Pieces
  <2>. QED BY <1>2, <2>1, <2>2 DEF EndPiece
<1>3. CASE i = 2
  <2>1. header_or_body[i] = <<"_private", ".h">>
    BY <1>3 DEF header_or_body
  <2>2. ToSet(<<"_private", ".h">>) = {"_private", ".h"} /\ <<"_private", ".h">> \in Seq(Pieces)
    BY DEF ToSet, Pieces
  <2>. QED BY <1>3, <2>1, <2>2 DEF EndPiece
<1>4. CASE i = 3
  <2>1. header_or_body[i] = <<".c">>
    BY <1>4 DEF header_or_body
  <2>2. ToSet(<<".c">>) = {".c"} /\ <<".c">> \in Seq(Pieces)
    BY DEF ToSet, Pieces
  <2>. QED BY <1>4, <2>1, <2>2 DEF EndPiece
<1>. QED BY <1>1, <1>2, <1>3, <1>4

PathSound(path, p, name, i) ==
  /\ path \in Seq(Pieces)
  /\ path[1] = name[1]
  /\ path[2] = IF p = "stubs" THEN "_stubs" ELSE EndPiece(i)
  /\ p = "stubs" => path[3] = EndPiece(i)
  /\ "_stubs" \in ToSet(path) <=> p = "stubs"

LEMMA PathFacts ==
  ASSUME NEW p, NEW name, IsFileName(name), NEW i \in 1 .. 3
  PROVE  PathSound(CFileFileName(p, name, i), p, name, i)
<1>. DEFINE e == header_or_body[i]
            s == stubs_piece(p)
            front == name \o s
            path == front \o e
<1>1. name \in Seq(Pieces) /\ Len(name) = 1 /\ name[1] # "_stubs"
  BY DEF IsFileName
<1>2. /\ e \in Seq(Pieces) /\ Len(e) \in {1, 2} /\ e[1] = EndPiece(i)
      /\ "_stubs" \notin ToSet(e)
  BY EndFacts
<1>3. /\ s \in Seq(Pieces)
      /\ p = "stubs" => s = <<"_stubs">> /\ Len(s) = 1 /\ s[1] = "_stubs" /\ ToSet(s) = {"_stubs"}
      /\ p # "stubs" => s = << >> /\ Len(s) = 0 /\ ToSet(s) = {}
  <2>1. <<"_stubs">> \in Seq(Pieces) /\ << >> \in Seq(Pieces)
    BY DEF Pieces
  <2>2. ToSet(<<"_stubs">>) = {"_stubs"} /\ ToSet(<< >>) = {}
    BY DEF ToSet
  <2>. QED BY <2>1, <2>2 DEF stubs_piece
<1>4. CFileFileName(p, name, i) = path
  BY DEF CFileFileName
<1>. HIDE DEF e, s
<1>5. /\ front \in Seq(Pieces) /\ Len(front) = 1 + Len(s) /\ Len(s) \in Nat
      /\ \A k \in 1 .. 1 + Len(s) : front[k] = IF k <= 1 THEN name[k] ELSE s[k - 1]
      /\ ToSet(front) = ToSet(name) \cup ToSet(s)
  BY <1>1, <1>3, ConcatProperties, MembersOfConcat, Members
<1>. HIDE DEF front
<1>6. /\ path \in Seq(Pieces)
      /\ \A k \in 1 .. Len(front) + Len(e) :
            path[k] = IF k <= Len(front) THEN front[k] ELSE e[k - Len(front)]
      /\ ToSet(path) = ToSet(front) \cup ToSet(e)
  BY <1>2, <1>5, ConcatProperties, MembersOfConcat
<1>. HIDE DEF path
<1>7. "_stubs" \notin ToSet(name)
  BY <1>1, Members
<1>8. "_stubs" \in ToSet(path) <=> p = "stubs"
  BY <1>2, <1>3, <1>5, <1>6, <1>7
<1>9. path[1] = name[1]
  <2>1. 1 \in 1 .. Len(front) + Len(e) /\ 1 <= Len(front) /\ 1 \in 1 .. 1 + Len(s)
    BY <1>2, <1>5
  <2>. QED BY <1>5, <1>6, <2>1
<1>10. CASE p = "stubs"
  <2>1. Len(front) = 2 /\ front[2] = "_stubs"
    <3>1. Len(s) = 1 /\ s[1] = "_stubs"
      BY <1>3, <1>10
    <3>2. 2 \in 1 .. 1 + Len(s) /\ ~ (2 <= 1) /\ 2 - 1 = 1
      BY <3>1
    <3>3. front[2] = s[2 - 1]
      BY <1>5, <3>2
    <3>. QED BY <1>5, <3>1, <3>3
  <2>2. path[2] = front[2] /\ path[3] = e[1]
    BY <1>2, <1>6, <2>1
  <2>. QED BY <1>2, <1>4, <1>6, <1>8, <1>9, <1>10, <2>1, <2>2 DEF PathSound
<1>11. CASE p # "stubs"
  <2>1. Len(front) = 1
    BY <1>3, <1>5, <1>11
  <2>2. path[2] = e[1]
    BY <1>2, <1>6, <2>1
  <2>. QED BY <1>2, <1>4, <1>6, <1>8, <1>9, <1>11, <2>2 DEF PathSound
<1>. QED BY <1>10, <1>11

(* Different files have different paths. *)
LEMMA PathsDiffer ==
  ASSUME NEW p, NEW q, NEW m, NEW n, IsFileName(m), IsFileName(n),
         NEW i \in 1 .. 3, NEW j \in 1 .. 3,
         CFileFileName(p, m, i) = CFileFileName(q, n, j)
  PROVE  m = n /\ i = j /\ (p = "stubs" <=> q = "stubs")
<1>. DEFINE path == CFileFileName(p, m, i)
<1>1. PathSound(path, p, m, i) /\ PathSound(path, q, n, j)
  BY PathFacts
<1>. HIDE DEF path
<1>2. m[1] = n[1] /\ (p = "stubs" <=> q = "stubs")
  BY <1>1 DEF PathSound
<1>3. m = n
  BY <1>2, SeqEqual DEF IsFileName
<1>4. EndPiece(i) = EndPiece(j)
  BY <1>1, <1>2 DEF PathSound
<1>5. i = j
  BY <1>4 DEF EndPiece
<1>. QED BY <1>2, <1>3, <1>5

----------------------------------------------------------------------------
(* The requests that the generators make.                                   *)

AnAuthor == [pass : Generators \cup {"human"}, name : Seq(Pieces), run : Nat]
Request  == [op : {"mkdir", "open", "write"}, path : Seq(Pieces), by : AnAuthor]

Open(p, name, i) ==
  [op |-> "open", path |-> CFileFileName(p, name, i), by |-> Author(p, name)]

LEMMA OpenFacts ==
  ASSUME NEW p \in Generators, NEW name, IsFileName(name), NEW i \in 1 .. 3, run \in Nat
  PROVE  Open(p, name, i) \in Request
<1>1. CFileFileName(p, name, i) \in Seq(Pieces)
  BY PathFacts DEF PathSound
<1>2. Author(p, name) \in AnAuthor
  BY DEF Author, AnAuthor, IsFileName
<1>. QED BY <1>1, <1>2 DEF Open, Request

LEMMA ObjectWritesFacts ==
  ASSUME NEW p \in Generators, NEW name, IsFileName(name), run \in Nat
  PROVE  /\ ObjectWrites(p, name) \in Seq(Request)
         /\ \A r : r \in ToSet(ObjectWrites(p, name)) <=>
              \E i \in ToSet(indices(p)) : Writes(p, name, i) /\ r = Open(p, name, i)
<1>. DEFINE S       == {index \in 1 .. 3 : Writes(p, name, index)}
            written == Kept(indices(p), S)
            opens   == ObjectWrites(p, name)
            n       == Len(written)
<1>1. indices(p) \in Seq(1 .. 3)
  BY IndexFacts
<1>2. written \in Seq(1 .. 3) /\ ToSet(written) = ToSet(indices(p)) \cap S
  BY <1>1, KeptPlaces, MembersOfKept
<1>3. opens = [k \in DOMAIN written |-> Open(p, name, written[k])]
  BY DEF ObjectWrites, Open
<1>4. \A i : i \in S <=> i \in 1 .. 3 /\ Writes(p, name, i)
  OBVIOUS
<1>. HIDE DEF S, written, opens
<1>5. /\ n \in Nat /\ DOMAIN written = 1 .. n
      /\ \A k \in 1 .. n : written[k] \in 1 .. 3
      /\ \A i : i \in ToSet(written) <=> \E k \in 1 .. n : written[k] = i
  BY <1>2, Members
<1>6. /\ \A k \in 1 .. n : opens[k] = Open(p, name, written[k])
      /\ opens \in [1 .. n -> Request]
  BY <1>3, <1>5, OpenFacts
<1>7. opens \in Seq(Request) /\ Len(opens) = n
  BY <1>5, <1>6, TupleIsSeq
<1>8. \A r : r \in ToSet(opens) <=> \E k \in 1 .. n : opens[k] = r
  BY <1>7, Members
<1>9. \A i \in ToSet(indices(p)) : i \in 1 .. 3
  BY <1>1, Members
<1>10. ASSUME NEW r \in ToSet(opens)
       PROVE  \E i \in ToSet(indices(p)) : Writes(p, name, i) /\ r = Open(p, name, i)
  <2>1. PICK k \in 1 .. n : opens[k] = r
    BY <1>8
  <2>2. written[k] \in ToSet(indices(p)) /\ written[k] \in S
    BY <1>2, <1>5
  <2>. QED BY <1>4, <1>6, <2>1, <2>2
<1>11. ASSUME NEW i \in ToSet(indices(p)), Writes(p, name, i)
       PROVE  Open(p, name, i) \in ToSet(opens)
  <2>1. PICK k \in 1 .. n : written[k] = i
    BY <1>2, <1>4, <1>5, <1>9, <1>11
  <2>. QED BY <1>6, <1>8, <2>1
<1>. QED BY <1>7, <1>10, <1>11 DEF opens

LEMMA ListWritesFacts ==
  ASSUME NEW p \in Generators, NEW list \in Seq(AnObject),
         \A o \in ToSet(list) : IsFileName(o.name), run \in Nat
  PROVE  /\ ListWrites(p, list) \in Seq(Request)
         /\ \A r : r \in ToSet(ListWrites(p, list)) <=>
              \E o \in ToSet(list) : \E i \in ToSet(indices(p)) :
                 Writes(p, o.name, i) /\ r = Open(p, o.name, i)
<1>. DEFINE n     == Len(list)
            parts == [k \in DOMAIN list |-> ObjectWrites(p, list[k].name)]
<1>1. /\ n \in Nat /\ DOMAIN list = 1 .. n
      /\ \A k \in 1 .. n : list[k] \in ToSet(list)
      /\ \A o : o \in ToSet(list) <=> \E k \in 1 .. n : list[k] = o
  BY Members
<1>2. \A k \in 1 .. n : parts[k] = ObjectWrites(p, list[k].name)
  BY <1>1
<1>3. \A k \in 1 .. n : IsFileName(list[k].name)
  BY <1>1
<1>4. \A k \in 1 .. n : /\ parts[k] \in Seq(Request)
                        /\ \A r : r \in ToSet(parts[k]) <=>
                             \E i \in ToSet(indices(p)) :
                                Writes(p, list[k].name, i) /\ r = Open(p, list[k].name, i)
  BY <1>2, <1>3, ObjectWritesFacts
<1>5. parts \in [1 .. n -> Seq(Request)]
  BY <1>1, <1>4
<1>6. ListWrites(p, list) = FlattenSeq(parts)
  BY DEF ListWrites
<1>. HIDE DEF parts, n
<1>7. parts \in Seq(Seq(Request)) /\ Len(parts) = n
  BY <1>1, <1>5, TupleIsSeq
<1>8. /\ FlattenSeq(parts) \in Seq(Request)
      /\ \A r : r \in ToSet(FlattenSeq(parts)) <=> \E k \in 1 .. n : r \in ToSet(parts[k])
  BY <1>7, FlattenedMembers
<1>9. ASSUME NEW r
      PROVE  r \in ToSet(ListWrites(p, list)) <=>
               \E o \in ToSet(list) : \E i \in ToSet(indices(p)) :
                  Writes(p, o.name, i) /\ r = Open(p, o.name, i)
  <2>1. r \in ToSet(ListWrites(p, list)) <=> \E k \in 1 .. n : r \in ToSet(parts[k])
    BY <1>6, <1>8
  <2>2. (\E k \in 1 .. n : r \in ToSet(parts[k])) <=>
        \E k \in 1 .. n : \E i \in ToSet(indices(p)) :
           Writes(p, list[k].name, i) /\ r = Open(p, list[k].name, i)
    BY <1>4
  <2>. QED BY <1>1, <2>1, <2>2
<1>. QED BY <1>6, <1>8, <1>9

----------------------------------------------------------------------------
(* What a run has to write.                                                 *)

(* The objects that a generator prints. *)
ToPrint(l, p) ==
  {o \in AllObjects(l) : o.kind = object_type(p) /\ ~o.dont_print_this_thing_out}

KindFacts(p) ==
  /\ p \in Range(Passes) => object_type(p) \in Kinds
  /\ p \in Range(Passes) /\ p # "stubs" => object_type(p) = p

LEMMA KindsOfPasses ==
  ASSUME NEW p
  PROVE  KindFacts(p)
BY PassFacts DEF KindFacts, object_type, Kinds

LEMMA NamesAreFileNames ==
  ASSUME NEW name, IsName(name)
  PROVE  IsFileName(name) /\ name # utilities_filename
<1>1. name \in Seq(Pieces)
  <2>1. /\ name \in Seq(STRING) /\ Len(name) = 1
        /\ \A k \in 1 .. 1 : name[k] \in STRING
    BY Members DEF IsName
  <2>2. name \in [1 .. 1 -> Pieces]
    <3>1. DOMAIN name = 1 .. 1
      BY <2>1, Members
    <3>2. name = [k \in 1 .. 1 |-> name[k]]
      BY <2>1, <3>1, LenProperties
    <3>3. \A k \in 1 .. 1 : name[k] \in Pieces
      BY <2>1 DEF Pieces
    <3>. QED BY <3>2, <3>3
  <2>. QED BY <2>2, TupleIsSeq
<1>. QED BY <1>1 DEF IsName, IsFileName

LEMMA UtilitiesAreAFileName == IsFileName(utilities_filename)
<1>1. <<"webidl_compiler_utilities">> \in Seq(Pieces)
  BY DEF Pieces
<1>. QED BY <1>1 DEF IsFileName, utilities_filename

LEMMA PrintedFacts ==
  ASSUME NEW l, ParsedSound(l), NEW p, object_type(p) \in Kinds
  PROVE  LET printed == Printed(augAST(l)[object_type(p)])
         IN  /\ printed \in Seq(AnObject)
             /\ ToSet(printed) = ToPrint(l, p)
             /\ \A o \in ToSet(printed) : IsFileName(o.name)
<1>. DEFINE list    == augAST(l)[object_type(p)]
            printed == Printed(list)
            T       == {o \in Range(list) : ~o.dont_print_this_thing_out}
<1>1. list \in Seq(AnObject) /\ ToSet(list) = {o \in AllObjects(l) : o.kind = object_type(p)}
  BY ListFacts
<1>2. printed = Kept(list, T) /\ Range(list) = ToSet(list)
  BY RangeIsToSet DEF Printed
<1>3. \A o : o \in T <=> o \in Range(list) /\ ~o.dont_print_this_thing_out
  OBVIOUS
<1>. HIDE DEF list, printed, T
<1>4. printed \in Seq(AnObject) /\ ToSet(printed) = ToSet(list) \cap T
  BY <1>1, <1>2, KeptPlaces, MembersOfKept
<1>5. ToSet(printed) = ToPrint(l, p)
  BY <1>1, <1>2, <1>3, <1>4 DEF ToPrint
<1>6. \A o \in ToSet(printed) : IsFileName(o.name)
  BY <1>1, <1>4, ObjectsAreCompiled, NamesAreFileNames
<1>. QED BY <1>4, <1>5, <1>6 DEF printed, list

(* A generator has a file to write for the object with this name. *)
IsTarget(p, name) ==
  \/ p \in Range(Passes) /\ \E o \in ToPrint(line, p) : o.name = name
  \/ p = "utilities" /\ name = utilities_filename /\ option(line, "output_utility_files") = True

LEMMA TargetFacts ==
  ASSUME ParsedSound(line), NEW p, NEW name, IsTarget(p, name)
  PROVE  p \in Generators /\ IsFileName(name) /\ (p = "utilities" <=> name = utilities_filename)
<1>1. CASE p \in Range(Passes) /\ \E o \in ToPrint(line, p) : o.name = name
  <2>1. PICK o \in ToPrint(line, p) : o.name = name
    BY <1>1
  <2>2. IsName(name)
    BY <2>1, ObjectsAreCompiled DEF ToPrint
  <2>3. p # "utilities"
    BY <1>1, PassFacts
  <2>. QED BY <1>1, <2>2, <2>3, NamesAreFileNames DEF Generators
<1>2. CASE p = "utilities" /\ name = utilities_filename
  BY <1>2, UtilitiesAreAFileName DEF Generators
<1>. QED BY <1>1, <1>2 DEF IsTarget

----------------------------------------------------------------------------
(* The inductive invariant.                                                 *)

(* What the user types. *)
Plain(l) ==
  \A i \in DOMAIN l :
    l[i].value \notin Booleans \cup Numbers /\ (l[i].form = "word" => l[i].key = "")

Accepted(l) == l \in Seq(AnArgument) /\ validate(l) = "none" /\ IsLegal(l)

(* What is known of the command line once the run has got this far. *)
LineSound ==
  /\ exit # "none" => pc = "idle"
  /\ pc # "idle" \/ exit = "success" => run \in 1 .. MaxRuns /\ line \in Seq(AnArgument)
  /\ pc = "parsing" => validate(line) = "none"
  /\ pc = "rejecting" => validate(line) # "none"
  /\ pc \in {"parsing", "rejecting"} => Plain(line)
  /\ pc \in {"directory", "script", "loop"} \/ exit = "success" => Accepted(line)

(* Only the user's own stubs hold the user's text. *)
HumanSound == \A path \in DOMAIN disk : Human \in disk[path] => "_stubs" \in ToSet(path)

Mkdir == [op |-> "mkdir", path |-> << >>, by |-> Human]

MayOpen(path) ==
  path \in DOMAIN disk /\ Human \in disk[path] => option(line, "stubs") = "overwrite"

(* This text belongs to one of the files of this run. *)
IsOurs(path, by) ==
  \E p, name : /\ IsTarget(p, name) /\ by = Author(p, name)
               /\ \E i \in ToSet(indices(p)) : path = CFileFileName(p, name, i)

HasOurs(path) == \A by \in disk[path] : IsOurs(path, by)

(* A request for one of the files of this run: an open does not take the    *)
(* user's text away, and a write finds the file as its open left it, or     *)
(* with what other generators have written into it since.                   *)
FileRequest(r) ==
  /\ r.op \in {"open", "write"}
  /\ IsOurs(r.path, r.by)
  /\ r.op = "open" => MayOpen(r.path)
  /\ r.op = "write" => r.path \in DOMAIN disk /\ HasOurs(r.path)

QueueSound ==
  /\ queue \in Seq(Request)
  /\ pc \notin {"script", "loop"} => queue = << >>
  /\ \A r \in ToSet(queue) : r = Mkdir \/ (pc = "loop" /\ FileRequest(r))

(* The directory is there, or asked for first, or could not be made. *)
MkdirIsFirst(requests) == requests # << >> /\ requests[1] = Mkdir

DirectorySound ==
  pc \in {"script", "loop"} => directory \/ << >> \in failed \/ MkdirIsFirst(queue)

(* The opens of the generators that have been called. *)
Requested(r, n) ==
  \E k \in 1 .. 7 : /\ k < n
                    /\ \E o \in ToPrint(line, Passes[k]) : \E i \in ToSet(indices(Passes[k])) :
                         Writes(Passes[k], o.name, i) /\ r = Open(Passes[k], o.name, i)

ScriptSound ==
  /\ pc \in {"parsing", "directory"} => writes = << >> /\ pass = 1
  /\ pc \in {"directory", "script"} => lists = augAST(line)
  /\ pc = "script" => /\ writes \in Seq(Request)
                      /\ \A r : r \in ToSet(writes) <=> Requested(r, pass)

(* The file is there, or it is on its way, or its stream has failed. *)
Waiting(path) == \E r \in ToSet(queue) : r.op # "mkdir" /\ r.path = path
Promised(p, path) ==
  \/ path \in failed
  \/ Waiting(path)
  \/ path \in DOMAIN disk /\ disk[path] # {} /\ HasOurs(path)
  \/ p = "stubs" /\ option(line, "stubs") = "preserve" /\ path \in DOMAIN disk

PromiseSound ==
  pc = "loop" \/ exit = "success" =>
    \A p, name : IsTarget(p, name) =>
      \A i \in ToSet(indices(p)) :
        Promised(p, CFileFileName(p, name, i))

IInv == /\ TypeOK /\ LineSound /\ HumanSound /\ QueueSound /\ DirectorySound
        /\ ScriptSound /\ PromiseSound

(* The parts that only speak of the command line and the run. *)
LEMMA SameRun ==
  ASSUME line' = line, run' = run
  PROVE  /\ \A p, name : IsTarget(p, name)' <=> IsTarget(p, name)
         /\ \A p, name : Author(p, name)' = Author(p, name)
         /\ \A p, name, i : Open(p, name, i)' = Open(p, name, i)
         /\ \A path, by : IsOurs(path, by)' <=> IsOurs(path, by)
<1>1. /\ \A p, name : IsTarget(p, name)' <=> IsTarget(p, name)
      /\ \A p, name : Author(p, name)' = Author(p, name)
      /\ \A p, name, i : Open(p, name, i)' = Open(p, name, i)
  BY DEF IsTarget, Author, Open
<1>2. \A path, by : IsOurs(path, by)' <=> IsOurs(path, by)
  BY <1>1 DEF IsOurs
<1>. QED BY <1>1, <1>2

LEMMA SameDisk ==
  ASSUME line' = line, run' = run, disk' = disk
  PROVE  /\ \A p, name, i : Writes(p, name, i)' <=> Writes(p, name, i)
         /\ \A r : FileRequest(r)' <=> FileRequest(r)
         /\ \A r, n : Requested(r, n)' <=> Requested(r, n)
         /\ HumanSound' <=> HumanSound
         /\ \A path : HasOurs(path)' <=> HasOurs(path)
<1>1. \A p, name, i : Writes(p, name, i)' <=> Writes(p, name, i)
  BY DEF Writes
<1>2. \A r : FileRequest(r)' <=> FileRequest(r)
  <2>1. \A path : HasOurs(path)' <=> HasOurs(path)
    BY SameRun DEF HasOurs
  <2>. QED BY <2>1, SameRun DEF FileRequest, MayOpen
<1>3. \A r, n : Requested(r, n)' <=> Requested(r, n)
  BY <1>1, SameRun DEF Requested
<1>4. HumanSound' <=> HumanSound
  BY DEF HumanSound
<1>5. \A path : HasOurs(path)' <=> HasOurs(path)
  BY SameRun DEF HasOurs
<1>. QED BY <1>1, <1>2, <1>3, <1>4, <1>5

LEMMA EmptyQueue ==
  ASSUME NEW s, s = << >>
  PROVE  s \in Seq(Request) /\ ToSet(s) = {} /\ Len(s) = 0
BY DEF ToSet

LEMMA RunsFacts ==
  /\ MaxRuns \in Nat
  /\ \A r \in 1 .. MaxRuns : \A l \in Lines[r] : l \in Seq(AnArgument) /\ Plain(l)
<1>1. Lines \in Seq(SUBSET Seq(AnArgument))
  BY LinesAssumption
<1>2. /\ MaxRuns \in Nat /\ DOMAIN Lines = 1 .. MaxRuns
      /\ \A r \in 1 .. MaxRuns : Lines[r] \in SUBSET Seq(AnArgument)
  BY <1>1, Members DEF MaxRuns
<1>3. \A r \in DOMAIN Lines : \A l \in Lines[r] : Plain(l)
  BY LinesAssumption DEF Plain
<1>. QED BY <1>2, <1>3

LEMMA StartsSound == Init => IInv
<1>. SUFFICES ASSUME Init PROVE IInv
  OBVIOUS
<1>. USE DEF Init
<1>1. TypeOK
  <2>1. MaxMishaps \in Nat /\ MaxRuns \in Nat
    BY BoundsAssumption, RunsFacts
  <2>2. DOMAIN lists = Kinds
    BY DEF NoLists
  <2>3. pass \in 1 .. (Len(Passes) + 1)
    BY PassFacts
  <2>4. DOMAIN queue = {} /\ DOMAIN disk = {}
    OBVIOUS
  <2>. QED BY <2>1, <2>2, <2>3, <2>4 DEF TypeOK
<1>2. LineSound
  BY DEF LineSound
<1>3. HumanSound
  BY DEF HumanSound
<1>4. QueueSound
  BY EmptyQueue DEF QueueSound
<1>5. ScriptSound
  BY DEF ScriptSound
<1>6. PromiseSound
  BY DEF PromiseSound
<1>7. DirectorySound
  BY DEF DirectorySound
<1>. QED BY <1>1, <1>2, <1>3, <1>4, <1>5, <1>6, <1>7 DEF IInv

LEMMA StartKeeps == IInv /\ Start => IInv'
<1>. SUFFICES ASSUME IInv, Start PROVE IInv'
  OBVIOUS
<1>1. /\ pc = "idle" /\ run < MaxRuns /\ line' \in Lines[run + 1]
      /\ pc' \in {"parsing", "rejecting"} /\ (pc' = "parsing" <=> validate(line') = "none")
      /\ run' = run + 1 /\ lists' = NoLists /\ pass' = 1 /\ writes' = << >> /\ exit' = "none"
      /\ queue' = queue /\ mishaps' = mishaps /\ directory' = directory /\ disk' = disk
  BY DEF Start
<1>2. TypeOK /\ LineSound /\ HumanSound /\ QueueSound
  BY DEF IInv
<1>3. TypeOK'
  <2>1. run \in 0 .. MaxRuns /\ run' \in 0 .. MaxRuns /\ run \in Nat /\ run' = run + 1
    BY <1>1, <1>2, RunsFacts DEF TypeOK
  <2>2. \A p \in DOMAIN disk' : \A by \in disk'[p] : by = Human \/ by.run \in 1 .. run'
    <3>1. 1 .. run \subseteq 1 .. run'
      BY <2>1
    <3>2. \A p \in DOMAIN disk : \A by \in disk[p] : by = Human \/ by.run \in 1 .. run
      BY <1>2 DEF TypeOK
    <3>. QED BY <1>1, <3>1, <3>2
  <2>3. DOMAIN lists' = Kinds
    BY <1>1 DEF NoLists
  <2>4. pass' \in 1 .. (Len(Passes) + 1)
    BY <1>1, PassFacts
  <2>. QED BY <1>1, <1>2, <2>1, <2>2, <2>3, <2>4 DEF TypeOK
<1>4. LineSound'
  <2>1. run' \in 1 .. MaxRuns
    BY <1>1, <1>2, RunsFacts DEF TypeOK
  <2>2. line' \in Seq(AnArgument) /\ Plain(line')
    BY <1>1, <2>1, RunsFacts
  <2>. QED BY <1>1, <2>1, <2>2 DEF LineSound
<1>5. HumanSound'
  BY <1>1, <1>2 DEF HumanSound
<1>6. QueueSound'
  <2>1. queue' = << >>
    BY <1>1, <1>2 DEF QueueSound
  <2>. QED BY <2>1, EmptyQueue DEF QueueSound
<1>7. ScriptSound'
  BY <1>1 DEF ScriptSound
<1>8. PromiseSound'
  BY <1>1 DEF PromiseSound
<1>9. DirectorySound'
  BY <1>1 DEF DirectorySound
<1>. QED BY <1>3, <1>4, <1>5, <1>6, <1>7, <1>8, <1>9 DEF IInv

(* A run that ends with an error, or between two runs. *)
LEMMA EndKeeps ==
  IInv /\ (Reject \/ RejectFiles) => IInv'
<1>. SUFFICES ASSUME IInv, Reject \/ RejectFiles PROVE IInv'
  OBVIOUS
<1>1. /\ pc \in {"rejecting", "parsing"} /\ pc' = "idle" /\ exit' = "failure"
      /\ UNCHANGED <<lists, pass, writes, queue, run, failed, mishaps, directory, disk>>
  BY DEF Reject, RejectFiles, world
<1>2. TypeOK /\ LineSound /\ HumanSound /\ QueueSound
  BY DEF IInv
<1>3. TypeOK'
  BY <1>1, <1>2 DEF TypeOK
<1>4. LineSound'
  BY <1>1 DEF LineSound
<1>5. HumanSound'
  BY <1>1, <1>2 DEF HumanSound
<1>6. QueueSound'
  <2>1. queue' = << >>
    BY <1>1, <1>2 DEF QueueSound
  <2>. QED BY <2>1, EmptyQueue DEF QueueSound
<1>7. ScriptSound'
  BY <1>1 DEF ScriptSound
<1>8. PromiseSound'
  BY <1>1 DEF PromiseSound
<1>9. DirectorySound'
  BY <1>1 DEF DirectorySound
<1>. QED BY <1>3, <1>4, <1>5, <1>6, <1>7, <1>8, <1>9 DEF IInv

LEMMA ParseKeeps == IInv /\ Parse => IInv'
<1>. SUFFICES ASSUME IInv, Parse PROVE IInv'
  OBVIOUS
<1>1. /\ pc = "parsing" /\ IsLegal(line) /\ pc' = "directory"
      /\ lists' = augAST(line)
      /\ UNCHANGED <<line, pass, writes, queue, run, exit, failed, mishaps, directory, disk>>
  BY DEF Parse, world
<1>2. TypeOK /\ LineSound /\ HumanSound /\ QueueSound /\ ScriptSound
  BY DEF IInv
<1>3. TypeOK'
  <2>1. DOMAIN lists' = Kinds
    BY <1>1 DEF augAST
  <2>. QED BY <1>1, <1>2, <2>1 DEF TypeOK
<1>4. LineSound'
  <2>1. line \in Seq(AnArgument) /\ validate(line) = "none" /\ run \in 1 .. MaxRuns
    BY <1>1, <1>2 DEF LineSound
  <2>2. Accepted(line)
    BY <1>1, <2>1 DEF Accepted
  <2>3. exit = "none"
    BY <1>1, <1>2 DEF LineSound
  <2>4. Accepted(line')
    BY <1>1, <2>2
  <2>. QED BY <1>1, <2>1, <2>3, <2>4 DEF LineSound
<1>5. HumanSound'
  BY <1>1, <1>2 DEF HumanSound
<1>6. QueueSound'
  <2>1. queue' = << >>
    BY <1>1, <1>2 DEF QueueSound
  <2>. QED BY <2>1, EmptyQueue DEF QueueSound
<1>7. ScriptSound'
  <2>1. writes = << >> /\ pass = 1
    BY <1>1, <1>2 DEF ScriptSound
  <2>. QED BY <1>1, <2>1 DEF ScriptSound
<1>8. PromiseSound'
  <2>1. exit' # "success"
    BY <1>1, <1>2 DEF LineSound
  <2>. QED BY <1>1, <2>1 DEF PromiseSound
<1>9. DirectorySound'
  BY <1>1 DEF DirectorySound
<1>. QED BY <1>3, <1>4, <1>5, <1>6, <1>7, <1>8, <1>9 DEF IInv

LEMMA MakeDirectoryKeeps == IInv /\ MakeDirectory => IInv'
<1>. SUFFICES ASSUME IInv, MakeDirectory PROVE IInv'
  OBVIOUS
<1>1. /\ pc = "directory" /\ pc' = "script" /\ queue' = <<Mkdir>>
      /\ UNCHANGED <<line, lists, pass, writes, run, exit, failed, mishaps, directory, disk>>
  BY DEF MakeDirectory, world, Mkdir
<1>2. TypeOK /\ LineSound /\ HumanSound /\ ScriptSound
  BY DEF IInv
<1>3. TypeOK'
  <2>1. \A k \in DOMAIN queue' : queue'[k].op = "mkdir"
    BY <1>1 DEF Mkdir
  <2>. QED BY <1>1, <1>2, <2>1 DEF TypeOK
<1>4. LineSound' /\ exit' = "none"
  <2>1. line \in Seq(AnArgument) /\ Accepted(line) /\ run \in 1 .. MaxRuns /\ exit = "none"
    BY <1>1, <1>2 DEF LineSound, TypeOK
  <2>2. Accepted(line')
    BY <1>1, <2>1
  <2>. QED BY <1>1, <2>1, <2>2 DEF LineSound
<1>5. HumanSound'
  BY <1>1, <1>2 DEF HumanSound
<1>6. QueueSound'
  <2>1. Mkdir \in Request
    BY DEF Mkdir, Request, Human, AnAuthor
  <2>2. <<Mkdir>> \in Seq(Request) /\ ToSet(<<Mkdir>>) = {Mkdir}
    <3>. HIDE DEF Mkdir
    <3>. QED BY <2>1 DEF ToSet
  <2>3. ToSet(queue') = {Mkdir}
    BY <1>1, <2>2
  <2>. QED BY <1>1, <2>2, <2>3 DEF QueueSound
<1>7. ScriptSound'
  <2>1. writes = << >> /\ pass = 1
    BY <1>1, <1>2 DEF ScriptSound
  <2>2. \A r : ~ Requested(r, 1)'
    BY DEF Requested
  <2>3. lists' = augAST(line')
    BY <1>1, <1>2 DEF ScriptSound
  <2>4. writes \in Seq(Request) /\ ToSet(writes) = {}
    BY <2>1, EmptyQueue
  <2>5. \A r : r \in ToSet(writes') <=> Requested(r, pass)'
    BY <1>1, <2>1, <2>2, <2>4
  <2>. QED BY <1>1, <2>3, <2>4, <2>5 DEF ScriptSound
<1>8. PromiseSound'
  BY <1>1, <1>4 DEF PromiseSound
<1>9. DirectorySound'
  <2>1. MkdirIsFirst(<<Mkdir>>)
    BY DEF MkdirIsFirst
  <2>. QED BY <1>1, <2>1 DEF DirectorySound, MkdirIsFirst
<1>. QED BY <1>3, <1>4, <1>5, <1>6, <1>7, <1>8, <1>9 DEF IInv

(* What the objects of a legal line ask for. *)
LEMMA RunFacts ==
  ASSUME Accepted(line), run \in Nat
  PROVE  /\ ParsedSound(line)
         /\ \A p, name : IsTarget(p, name) =>
              p \in Generators /\ IsFileName(name) /\ ToSet(indices(p)) \subseteq 1 .. 3
<1>1. ParsedSound(line)
  BY ParsedFacts DEF Accepted
<1>2. ASSUME NEW p, NEW name, IsTarget(p, name)
      PROVE  p \in Generators /\ IsFileName(name) /\ ToSet(indices(p)) \subseteq 1 .. 3
  <2>1. p \in Generators /\ IsFileName(name)
    BY <1>1, <1>2, TargetFacts
  <2>2. indices(p) \in Seq(1 .. 3)
    BY <2>1, IndexFacts
  <2>. QED BY <2>1, <2>2, Members
<1>. QED BY <1>1, <1>2

(* A generator's call is for targets. *)
LEMMA RequestedTargets ==
  ASSUME NEW k \in 1 .. 7, NEW o \in ToPrint(line, Passes[k])
  PROVE  IsTarget(Passes[k], o.name)
<1>1. Passes[k] \in Range(Passes)
  BY PassFacts DEF Range
<1>. QED BY <1>1 DEF IsTarget

LEMMA NextRequested ==
  ASSUME NEW r, NEW n \in 1 .. 7
  PROVE  Requested(r, n + 1) <=>
           \/ Requested(r, n)
           \/ \E o \in ToPrint(line, Passes[n]) : \E i \in ToSet(indices(Passes[n])) :
                 Writes(Passes[n], o.name, i) /\ r = Open(Passes[n], o.name, i)
<1>1. \A k \in 1 .. 7 : k < n + 1 <=> k < n \/ k = n
  OBVIOUS
<1>2. n < n + 1
  OBVIOUS
<1>. DEFINE Asked(k) == \E o \in ToPrint(line, Passes[k]) : \E i \in ToSet(indices(Passes[k])) :
                 Writes(Passes[k], o.name, i) /\ r = Open(Passes[k], o.name, i)
<1>3. /\ Requested(r, n + 1) <=> \E k \in 1 .. 7 : k < n + 1 /\ Asked(k)
      /\ Requested(r, n) <=> \E k \in 1 .. 7 : k < n /\ Asked(k)
  BY DEF Requested
<1>. HIDE DEF Asked
<1>4. Requested(r, n + 1) <=> Requested(r, n) \/ Asked(n)
  BY <1>1, <1>2, <1>3
<1>. QED BY <1>4 DEF Asked

LEMMA GenerateKeeps == IInv /\ generate_C_files => IInv'
<1>. SUFFICES ASSUME IInv, generate_C_files PROVE IInv'
  OBVIOUS
<1>. DEFINE p       == Passes[pass]
            list    == lists[object_type(p)]
            printed == Printed(list)
            new     == ListWrites(p, printed)
<1>1. /\ pc = "script" /\ pass \in DOMAIN Passes /\ pass' = pass + 1
      /\ writes' = writes \o new
      /\ lists' = [lists EXCEPT ![object_type(p)] = list]
      /\ UNCHANGED <<line, pc, queue, run, exit, failed, mishaps, directory, disk>>
  BY DEF generate_C_files, world
<1>2. TypeOK /\ LineSound /\ HumanSound /\ QueueSound /\ DirectorySound /\ ScriptSound
  BY DEF IInv
<1>3. /\ run \in Nat /\ Accepted(line) /\ exit = "none"
      /\ lists = augAST(line)
      /\ writes \in Seq(Request)
      /\ \A r : r \in ToSet(writes) <=> Requested(r, pass)
  <2>1. run \in 1 .. MaxRuns /\ Accepted(line) /\ exit = "none"
    BY <1>1, <1>2 DEF LineSound, TypeOK
  <2>. QED BY <1>1, <1>2, <2>1, RunsFacts DEF ScriptSound
<1>4. /\ pass \in 1 .. 7 /\ p \in Range(Passes) /\ p \in Generators /\ object_type(p) \in Kinds
  <2>1. pass \in 1 .. 7
    BY <1>1, PassFacts
  <2>2. p \in Range(Passes)
    BY <1>1 DEF Range
  <2>. QED BY <2>1, <2>2, KindsOfPasses DEF KindFacts, Generators
<1>5. list = augAST(line)[object_type(p)] /\ lists' = lists
  <2>1. lists = [kind \in Kinds |-> lists[kind]]
    BY <1>3 DEF augAST
  <2>. QED BY <1>1, <1>3, <1>4, <2>1
<1>6. ParsedSound(line)
  BY <1>3, RunFacts
<1>7. /\ printed \in Seq(AnObject)
      /\ ToSet(printed) = ToPrint(line, p)
      /\ \A o \in ToSet(printed) : IsFileName(o.name)
  BY <1>4, <1>5, <1>6, PrintedFacts
<1>. HIDE DEF printed, list
<1>8. /\ new \in Seq(Request)
      /\ \A r : r \in ToSet(new) <=>
           \E o \in ToPrint(line, p) : \E i \in ToSet(indices(p)) :
              Writes(p, o.name, i) /\ r = Open(p, o.name, i)
  <2>. HIDE DEF p
  <2>. QED BY <1>3, <1>4, <1>7, ListWritesFacts
<1>. HIDE DEF new
<1>9. writes' \in Seq(Request) /\ ToSet(writes') = ToSet(writes) \cup ToSet(new)
  BY <1>1, <1>3, <1>8, MembersOfConcat, ConcatProperties
<1>10. \A r : r \in ToSet(writes') <=> Requested(r, pass)'
  <2>1. ASSUME NEW r PROVE r \in ToSet(writes') <=> Requested(r, pass + 1)
    BY <1>3, <1>4, <1>8, <1>9, NextRequested
  <2>2. \A r : Requested(r, pass)' <=> Requested(r, pass + 1)
    <3>1. /\ \A q, name, i : Writes(q, name, i)' <=> Writes(q, name, i)
          /\ \A q, name, i : Open(q, name, i)' = Open(q, name, i)
      BY <1>1, SameDisk, SameRun
    <3>2. line' = line /\ pass' = pass + 1
      BY <1>1
    <3>. QED BY <3>1, <3>2 DEF Requested
  <2>. QED BY <2>1, <2>2
<1>11. TypeOK'
  <2>1. pass' \in 1 .. (Len(Passes) + 1)
    BY <1>1, <1>4, PassFacts
  <2>2. DOMAIN lists' = Kinds
    BY <1>2, <1>5 DEF TypeOK
  <2>. QED BY <1>1, <1>2, <2>1, <2>2 DEF TypeOK
<1>12. LineSound'
  BY <1>1, <1>2 DEF LineSound
<1>13. HumanSound'
  BY <1>1, <1>2 DEF HumanSound
<1>14. QueueSound' /\ DirectorySound'
  <2>1. \A r : FileRequest(r)' <=> FileRequest(r)
    BY <1>1, SameDisk
  <2>. QED BY <1>1, <1>2, <2>1 DEF QueueSound, DirectorySound, MkdirIsFirst
<1>15. ScriptSound'
  <2>1. lists' = augAST(line')
    BY <1>1, <1>3, <1>5
  <2>. QED BY <1>1, <1>9, <1>10, <2>1 DEF ScriptSound
<1>16. PromiseSound'
  BY <1>1, <1>3 DEF PromiseSound
<1>. QED BY <1>11, <1>12, <1>13, <1>14, <1>15, <1>16 DEF IInv

LEMMA StubsOption ==
  ASSUME NEW l, Accepted(l)
  PROVE  option(l, "stubs") \in {"preserve", "overwrite"}
<1>1. ~ found_an_error(l)
  BY AcceptedFacts DEF Accepted
<1>2. \A k \in DOMAIN Flags : option(l, Flags[k]) \in Range(acceptable_inputs[Flags[k]])
  BY <1>1 DEF found_an_error
<1>3. "stubs" \in DOMAIN acceptable_inputs /\ acceptable_inputs["stubs"] = <<"preserve", "overwrite">>
  BY DEF acceptable_inputs
<1>4. PICK k \in DOMAIN Flags : Flags[k] = "stubs"
  BY <1>3, FlagsFacts
<1>5. option(l, "stubs") \in Range(<<"preserve", "overwrite">>)
  BY <1>2, <1>3, <1>4
<1>. HIDE DEF option
<1>. QED BY <1>5 DEF Range

(* What the generators and the utilities ask for together. *)
Asks(r) ==
  \E p, name : /\ IsTarget(p, name)
               /\ \E i \in ToSet(indices(p)) : Writes(p, name, i) /\ r = Open(p, name, i)

UtilityOpens ==
  IF option(line, "output_utility_files") = True
  THEN ObjectWrites("utilities", utilities_filename) ELSE << >>

LEMMA UtilityOpensFacts ==
  ASSUME run \in Nat
  PROVE  /\ UtilityOpens \in Seq(Request)
         /\ \A r : r \in ToSet(UtilityOpens) <=>
              /\ option(line, "output_utility_files") = True
              /\ \E i \in ToSet(indices("utilities")) :
                    /\ Writes("utilities", utilities_filename, i)
                    /\ r = Open("utilities", utilities_filename, i)
<1>1. "utilities" \in Generators
  BY DEF Generators
<1>2. /\ ObjectWrites("utilities", utilities_filename) \in Seq(Request)
      /\ \A r : r \in ToSet(ObjectWrites("utilities", utilities_filename)) <=>
           \E i \in ToSet(indices("utilities")) :
              /\ Writes("utilities", utilities_filename, i)
              /\ r = Open("utilities", utilities_filename, i)
  BY <1>1, UtilitiesAreAFileName, ObjectWritesFacts
<1>3. CASE option(line, "output_utility_files") = True
  BY <1>2, <1>3 DEF UtilityOpens
<1>4. CASE option(line, "output_utility_files") # True
  <2>1. UtilityOpens = << >>
    BY <1>4 DEF UtilityOpens
  <2>. QED BY <1>4, <2>1, EmptyQueue
<1>. QED BY <1>3, <1>4

LEMMA AsksFacts ==
  ASSUME NEW r
  PROVE  Asks(r) <=>
           \/ Requested(r, 8)
           \/ /\ option(line, "output_utility_files") = True
              /\ \E i \in ToSet(indices("utilities")) :
                    /\ Writes("utilities", utilities_filename, i)
                    /\ r = Open("utilities", utilities_filename, i)
<1>1. ASSUME NEW k \in 1 .. 7, NEW o \in ToPrint(line, Passes[k]),
             NEW i \in ToSet(indices(Passes[k])), Writes(Passes[k], o.name, i),
             r = Open(Passes[k], o.name, i)
      PROVE  Asks(r)
  BY <1>1, RequestedTargets DEF Asks
<1>2. Requested(r, 8) => Asks(r)
  BY <1>1 DEF Requested
<1>3. ASSUME option(line, "output_utility_files") = True,
             NEW i \in ToSet(indices("utilities")), Writes("utilities", utilities_filename, i),
             r = Open("utilities", utilities_filename, i)
      PROVE  Asks(r)
  <2>1. IsTarget("utilities", utilities_filename)
    BY <1>3 DEF IsTarget
  <2>. QED BY <1>3, <2>1 DEF Asks
<1>4. ASSUME NEW p, NEW name, IsTarget(p, name), NEW i \in ToSet(indices(p)),
             Writes(p, name, i), r = Open(p, name, i)
      PROVE  \/ Requested(r, 8)
             \/ /\ option(line, "output_utility_files") = True
                /\ p = "utilities" /\ name = utilities_filename
  <2>1. CASE p \in Range(Passes) /\ \E o \in ToPrint(line, p) : o.name = name
    <3>1. PICK k \in 1 .. 7 : Passes[k] = p
      BY <2>1, PassFacts DEF Range
    <3>2. k < 8
      OBVIOUS
    <3>. QED BY <1>4, <2>1, <3>1, <3>2 DEF Requested
  <2>2. CASE p = "utilities" /\ name = utilities_filename /\ option(line, "output_utility_files") = True
    BY <2>2
  <2>. QED BY <1>4, <2>1, <2>2 DEF IsTarget
<1>5. ASSUME Asks(r), ~ Requested(r, 8)
      PROVE  /\ option(line, "output_utility_files") = True
             /\ \E i \in ToSet(indices("utilities")) :
                   /\ Writes("utilities", utilities_filename, i)
                   /\ r = Open("utilities", utilities_filename, i)
  BY <1>4, <1>5 DEF Asks
<1>. QED BY <1>2, <1>3, <1>5

LEMMA AsksAreFileRequests ==
  ASSUME HumanSound, Accepted(line), run \in Nat, NEW r, Asks(r)
  PROVE  FileRequest(r) /\ r.op = "open"
<1>1. PICK p, name : /\ IsTarget(p, name)
                     /\ \E i \in ToSet(indices(p)) : Writes(p, name, i) /\ r = Open(p, name, i)
  BY DEF Asks
<1>2. PICK i \in ToSet(indices(p)) : Writes(p, name, i) /\ r = Open(p, name, i)
  BY <1>1
<1>3. /\ r.op = "open" /\ r.path = CFileFileName(p, name, i) /\ r.by = Author(p, name)
  BY <1>2 DEF Open
<1>4. MayOpen(r.path)
  <2>. SUFFICES ASSUME r.path \in DOMAIN disk, Human \in disk[r.path]
                PROVE  option(line, "stubs") = "overwrite"
    BY DEF MayOpen
  <2>1. "_stubs" \in ToSet(r.path)
    BY DEF HumanSound
  <2>2. PathSound(CFileFileName(p, name, i), p, name, i)
    BY <1>1, RunFacts, PathFacts
  <2>3. p = "stubs"
    BY <1>3, <2>1, <2>2 DEF PathSound
  <2>. QED BY <1>2, <1>3, <2>3 DEF Writes
<1>. QED BY <1>1, <1>3, <1>4 DEF FileRequest, IsOurs

LEMMA ScriptQueue ==
  ASSUME QueueSound, pc = "script"
  PROVE  queue \in Seq(Request) /\ \A r \in ToSet(queue) : r = Mkdir
BY DEF QueueSound

(* Every file is asked for, or it is a stubs file that is there. *)
LEMMA TargetsAreAsked ==
  ASSUME Accepted(line), NEW p, NEW name, IsTarget(p, name), NEW i \in ToSet(indices(p))
  PROVE  \/ Asks(Open(p, name, i))
         \/ /\ p = "stubs" /\ option(line, "stubs") = "preserve"
            /\ CFileFileName(p, name, i) \in DOMAIN disk
<1>1. CASE Writes(p, name, i)
  BY <1>1 DEF Asks
<1>2. CASE ~ Writes(p, name, i)
  <2>1. option(line, "stubs") \in {"preserve", "overwrite"}
    BY StubsOption
  <2>. QED BY <1>2, <2>1 DEF Writes
<1>. QED BY <1>1, <1>2

(* What is put behind a queue leaves its head alone. *)
LEMMA HeadOfConcat ==
  ASSUME NEW s \in Seq(Request), NEW u \in Seq(Request), MkdirIsFirst(s)
  PROVE  MkdirIsFirst(s \o u)
<1>1. s # << >> /\ s[1] = Mkdir
  BY DEF MkdirIsFirst
<1>2. Len(s) \in Nat /\ Len(u) \in Nat /\ Len(s) # 0
  BY <1>1, Members, EmptySeq
<1>3. 1 \in 1 .. Len(s) + Len(u) /\ 1 <= Len(s)
  BY <1>2
<1>4. /\ s \o u \in Seq(Request) /\ Len(s \o u) = Len(s) + Len(u)
      /\ (s \o u)[1] = s[1]
  BY <1>3, ConcatProperties
<1>5. s \o u # << >>
  BY <1>2, <1>4, EmptySeq
<1>. QED BY <1>1, <1>4, <1>5 DEF MkdirIsFirst

LEMMA UtilitiesKeeps == IInv /\ utilities => IInv'
<1>. SUFFICES ASSUME IInv, utilities PROVE IInv'
  OBVIOUS
<1>. DEFINE extra == UtilityOpens
            new   == writes \o extra
<1>1. /\ pc = "script" /\ pass \notin DOMAIN Passes /\ pc' = "loop" /\ writes' = << >>
      /\ queue' = queue \o new
      /\ UNCHANGED <<line, lists, pass, run, exit, failed, mishaps, directory, disk>>
  BY DEF utilities, world, UtilityOpens, Enqueued
<1>2. TypeOK /\ LineSound /\ HumanSound /\ QueueSound /\ DirectorySound /\ ScriptSound
  BY DEF IInv
<1>3. /\ run \in Nat /\ Accepted(line) /\ exit = "none"
      /\ writes \in Seq(Request)
      /\ \A r : r \in ToSet(writes) <=> Requested(r, pass)
  <2>1. run \in 1 .. MaxRuns /\ Accepted(line) /\ exit = "none"
    BY <1>1, <1>2 DEF LineSound, TypeOK
  <2>. QED BY <1>1, <1>2, <2>1, RunsFacts DEF ScriptSound
<1>4. pass = 8
  <2>1. pass \in 1 .. 8 /\ pass \notin 1 .. 7
    BY <1>1, <1>2, PassFacts DEF TypeOK
  <2>. QED BY <2>1
<1>5. extra \in Seq(Request) /\ \A r : r \in ToSet(writes) \cup ToSet(extra) <=> Asks(r)
  <2>1. \A r : r \in ToSet(writes) <=> Requested(r, 8)
    BY <1>3, <1>4
  <2>. QED BY <1>3, <2>1, UtilityOpensFacts, AsksFacts
<1>. HIDE DEF extra
<1>6. new \in Seq(Request) /\ \A r : r \in ToSet(new) <=> Asks(r)
  BY <1>3, <1>5, MembersOfConcat, ConcatProperties
<1>. HIDE DEF new
<1>7. queue \in Seq(Request) /\ \A r \in ToSet(queue) : r = Mkdir
  BY <1>1, <1>2, ScriptQueue
<1>8. Mkdir.op = "mkdir"
  BY DEF Mkdir
<1>9. \A r : Asks(r) => FileRequest(r) /\ r.op = "open"
  BY <1>2, <1>3, AsksAreFileRequests
<1>10. queue' \in Seq(Request) /\ ToSet(queue') = ToSet(queue) \cup ToSet(new)
  BY <1>1, <1>6, <1>7, MembersOfConcat, ConcatProperties
<1>11. \A r \in ToSet(queue') : r = Mkdir \/ Asks(r)
  BY <1>6, <1>7, <1>10
<1>12. TypeOK'
  <2>1. \A k \in DOMAIN queue' : queue'[k].op # "write"
    <3>1. \A k \in DOMAIN queue' : queue'[k] \in ToSet(queue')
      BY <1>10, Members
    <3>. QED BY <1>8, <1>9, <1>11, <3>1
  <2>. QED BY <1>1, <1>2, <2>1 DEF TypeOK
<1>13. LineSound'
  <2>1. Accepted(line') /\ line \in Seq(AnArgument) /\ run \in 1 .. MaxRuns
    BY <1>1, <1>2, <1>3 DEF LineSound
  <2>. QED BY <1>1, <1>3, <2>1 DEF LineSound
<1>14. HumanSound'
  BY <1>1, <1>2 DEF HumanSound
<1>15. QueueSound'
  <2>1. \A r : FileRequest(r)' <=> FileRequest(r)
    BY <1>1, SameDisk
  <2>2. \A r \in ToSet(queue') : r = Mkdir \/ (pc' = "loop" /\ FileRequest(r)')
    BY <1>1, <1>9, <1>11, <2>1
  <2>. QED BY <1>1, <1>10, <2>2 DEF QueueSound
<1>16. DirectorySound'
  <2>1. MkdirIsFirst(queue) => MkdirIsFirst(queue \o new)
    BY <1>6, <1>7, HeadOfConcat
  <2>2. MkdirIsFirst(queue)' <=> MkdirIsFirst(queue \o new)
    BY <1>1 DEF MkdirIsFirst
  <2>. QED BY <1>1, <1>2, <2>1, <2>2 DEF DirectorySound
<1>17. ScriptSound'
  BY <1>1 DEF ScriptSound
<1>18. PromiseSound'
  <2>1. ASSUME NEW q, NEW name, IsTarget(q, name), NEW i \in ToSet(indices(q))
        PROVE  Promised(q, CFileFileName(q, name, i))'
    <3>1. CASE Asks(Open(q, name, i))
      <4>1. Open(q, name, i) \in ToSet(queue')
        BY <1>6, <1>10, <3>1
      <4>2. /\ Open(q, name, i).op # "mkdir"
            /\ Open(q, name, i).path = CFileFileName(q, name, i)
        BY DEF Open
      <4>. QED BY <4>1, <4>2 DEF Promised, Waiting
    <3>2. CASE /\ q = "stubs" /\ option(line, "stubs") = "preserve"
               /\ CFileFileName(q, name, i) \in DOMAIN disk
      BY <1>1, <3>2 DEF Promised
    <3>. QED BY <1>3, <2>1, <3>1, <3>2, TargetsAreAsked
  <2>2. \A q, name : IsTarget(q, name)' <=> IsTarget(q, name)
    BY <1>1, SameRun
  <2>. QED BY <2>1, <2>2 DEF PromiseSound
<1>. QED BY <1>12, <1>13, <1>14, <1>15, <1>16, <1>17, <1>18 DEF IInv

LEMMA ExitKeeps == IInv /\ Exit => IInv'
<1>. SUFFICES ASSUME IInv, Exit PROVE IInv'
  OBVIOUS
<1>1. /\ pc = "loop" /\ queue = << >> /\ pc' = "idle" /\ exit' = "success"
      /\ UNCHANGED <<line, lists, pass, writes, queue, run, failed, mishaps, directory, disk>>
  BY DEF Exit, world
<1>2. TypeOK /\ LineSound /\ HumanSound /\ PromiseSound
  BY DEF IInv
<1>3. TypeOK'
  BY <1>1, <1>2 DEF TypeOK
<1>4. LineSound'
  <2>1. Accepted(line') /\ line \in Seq(AnArgument) /\ run \in 1 .. MaxRuns
    BY <1>1, <1>2 DEF LineSound
  <2>. QED BY <1>1, <2>1 DEF LineSound
<1>5. HumanSound'
  BY <1>1, <1>2 DEF HumanSound
<1>6. QueueSound'
  BY <1>1, EmptyQueue DEF QueueSound
<1>7. ScriptSound'
  BY <1>1 DEF ScriptSound
<1>8. PromiseSound'
  <2>1. \A p, name : IsTarget(p, name)' <=> IsTarget(p, name)
    BY <1>1, SameRun
  <2>2. \A p, path : Promised(p, path)' <=> Promised(p, path)
    BY <1>1, SameDisk DEF Promised, Waiting
  <2>. QED BY <1>1, <1>2, <2>1, <2>2 DEF PromiseSound
<1>9. DirectorySound'
  BY <1>1 DEF DirectorySound
<1>. QED BY <1>3, <1>4, <1>5, <1>6, <1>7, <1>8, <1>9 DEF IInv

LEMMA InterruptKeeps == IInv /\ Interrupt => IInv'
<1>. SUFFICES ASSUME IInv, Interrupt PROVE IInv'
  OBVIOUS
<1>1. /\ mishaps < MaxMishaps /\ mishaps' = mishaps + 1
      /\ pc' = "idle" /\ exit' = "killed" /\ queue' = << >>
      /\ UNCHANGED <<line, lists, pass, writes, run, failed, directory, disk>>
  BY DEF Interrupt
<1>2. TypeOK /\ HumanSound
  BY DEF IInv
<1>3. TypeOK'
  <2>1. mishaps' \in 0 .. MaxMishaps
    BY <1>1, <1>2, BoundsAssumption DEF TypeOK
  <2>2. DOMAIN queue' = {}
    BY <1>1
  <2>. QED BY <1>1, <1>2, <2>1, <2>2 DEF TypeOK
<1>4. LineSound'
  BY <1>1 DEF LineSound
<1>5. HumanSound'
  BY <1>1, <1>2 DEF HumanSound
<1>6. QueueSound'
  BY <1>1, EmptyQueue DEF QueueSound
<1>7. ScriptSound'
  BY <1>1 DEF ScriptSound
<1>8. PromiseSound'
  BY <1>1 DEF PromiseSound
<1>9. DirectorySound'
  BY <1>1 DEF DirectorySound
<1>. QED BY <1>3, <1>4, <1>5, <1>6, <1>7, <1>8, <1>9 DEF IInv

LEMMA EditKeeps == IInv /\ Edit => IInv'
<1>. SUFFICES ASSUME IInv, Edit PROVE IInv'
  OBVIOUS
<1>1. PICK path \in DOMAIN disk : "_stubs" \in Range(path) /\ disk' = [disk EXCEPT ![path] = {Human}]
  BY DEF Edit
<1>2. /\ pc = "idle" /\ exit' = "edited"
      /\ UNCHANGED <<line, lists, pc, pass, writes, queue, failed, mishaps, directory, run>>
  BY DEF Edit
<1>3. TypeOK /\ HumanSound /\ QueueSound
  BY DEF IInv
<1>4. DOMAIN disk' = DOMAIN disk /\ \A p \in DOMAIN disk : disk'[p] = IF p = path THEN {Human} ELSE disk[p]
  BY <1>1
<1>5. queue' = << >> /\ DOMAIN queue' = {}
  BY <1>2, <1>3 DEF QueueSound
<1>6. TypeOK'
  <2>1. \A p \in DOMAIN disk' : \A by \in disk'[p] : by = Human \/ by.run \in 1 .. run'
    BY <1>2, <1>3, <1>4 DEF TypeOK
  <2>2. \A k \in DOMAIN queue' : queue'[k].op = "write" => queue'[k].path \in DOMAIN disk'
    BY <1>5
  <2>. QED BY <1>2, <1>3, <2>1, <2>2 DEF TypeOK
<1>7. LineSound'
  BY <1>2 DEF LineSound
<1>8. HumanSound'
  <2>1. "_stubs" \in ToSet(path)
    BY <1>1, RangeIsToSet
  <2>. QED BY <1>3, <1>4, <2>1 DEF HumanSound
<1>9. QueueSound'
  BY <1>2, <1>5, EmptyQueue DEF QueueSound
<1>10. ScriptSound'
  BY <1>2 DEF ScriptSound
<1>11. PromiseSound'
  BY <1>2 DEF PromiseSound
<1>12. DirectorySound'
  BY <1>2 DEF DirectorySound
<1>. QED BY <1>6, <1>7, <1>8, <1>9, <1>10, <1>11, <1>12 DEF IInv

LEMMA StutterKeeps == IInv /\ UNCHANGED vars => IInv'
<1>. SUFFICES ASSUME IInv, UNCHANGED vars PROVE IInv'
  OBVIOUS
<1>1. UNCHANGED <<line, lists, pc, pass, writes, queue, failed, mishaps, directory, disk, run, exit>>
  BY DEF vars
<1>2. TypeOK' /\ LineSound' /\ HumanSound' /\ DirectorySound'
  BY <1>1 DEF IInv, TypeOK, LineSound, HumanSound, DirectorySound, MkdirIsFirst
<1>3. QueueSound'
  <2>1. \A r : FileRequest(r)' <=> FileRequest(r)
    BY <1>1, SameDisk
  <2>2. QueueSound
    BY DEF IInv
  <2>. QED BY <1>1, <2>1, <2>2 DEF QueueSound
<1>4. ScriptSound'
  <2>1. \A r : Requested(r, pass)' <=> Requested(r, pass)
    <3>1. /\ \A q, name, i : Writes(q, name, i)' <=> Writes(q, name, i)
          /\ \A q, name, i : Open(q, name, i)' = Open(q, name, i)
      BY <1>1, SameDisk, SameRun
    <3>. QED BY <1>1, <3>1 DEF Requested
  <2>2. ScriptSound
    BY DEF IInv
  <2>. QED BY <1>1, <2>1, <2>2 DEF ScriptSound
<1>5. PromiseSound'
  <2>1. \A p, name : IsTarget(p, name)' <=> IsTarget(p, name)
    BY <1>1, SameRun
  <2>2. \A p, path : Promised(p, path)' <=> Promised(p, path)
    BY <1>1, SameDisk DEF Promised, Waiting
  <2>3. PromiseSound
    BY DEF IInv
  <2>. QED BY <1>1, <2>1, <2>2, <2>3 DEF PromiseSound
<1>. QED BY <1>2, <1>3, <1>4, <1>5 DEF IInv

(* The queue's writes, as a set. *)
LEMMA QueuedWrites ==
  ASSUME TypeOK
  PROVE  \A s \in ToSet(queue) : s.op = "write" => s.path \in DOMAIN disk
<1>1. \A s : s \in ToSet(queue) => \E j \in DOMAIN queue : queue[j] = s
  BY DEF ToSet
<1>. QED BY <1>1 DEF TypeOK

(* A request that is served is taken off the queue. *)
LEMMA Served ==
  ASSUME QueueSound, NEW k \in DOMAIN queue
  PROVE  LET rest == RemoveAt(queue, k)
         IN  /\ queue[k] \in Request /\ queue[k] \in ToSet(queue)
             /\ rest \in Seq(Request) /\ ToSet(rest) \subseteq ToSet(queue)
             /\ ToSet(queue) \subseteq ToSet(rest) \cup {queue[k]}
             /\ MkdirIsFirst(queue) /\ k # 1 => MkdirIsFirst(rest)
             /\ pc \in {"script", "loop"}
             /\ queue[k] = Mkdir \/ (pc = "loop" /\ FileRequest(queue[k]))
<1>1. queue \in Seq(Request)
  BY DEF QueueSound
<1>2. k \in 1 .. Len(queue)
  BY <1>1, Members
<1>3. queue[k] \in Request /\ queue[k] \in ToSet(queue)
  BY <1>1, <1>2, Members
<1>4. /\ RemoveAt(queue, k) \in Seq(Request) /\ ToSet(RemoveAt(queue, k)) \subseteq ToSet(queue)
      /\ ToSet(queue) \subseteq ToSet(RemoveAt(queue, k)) \cup {queue[k]}
      /\ k # 1 => RemoveAt(queue, k)[1] = queue[1] /\ RemoveAt(queue, k) # << >>
  BY <1>1, <1>2, RemovedMembers
<1>5. MkdirIsFirst(queue) /\ k # 1 => MkdirIsFirst(RemoveAt(queue, k))
  BY <1>4 DEF MkdirIsFirst
<1>6. pc \in {"script", "loop"}
  BY <1>3, EmptyQueue DEF QueueSound
<1>. QED BY <1>3, <1>4, <1>5, <1>6 DEF QueueSound

(* A request is dropped: the directory is there, or the stream has failed. *)
LEMMA DropKeeps ==
  ASSUME IInv, NEW k \in DOMAIN queue, queue' = RemoveAt(queue, k),
         line' = line, lists' = lists, pc' = pc, pass' = pass, writes' = writes, run' = run,
         exit' = exit, disk' = disk, mishaps' \in 0 .. MaxMishaps,
         directory' = directory \/ directory' = TRUE, failed \subseteq failed',
         \/ queue[k].op = "mkdir" /\ directory' = TRUE
         \/ queue[k].path \in failed'
  PROVE  IInv'
<1>. DEFINE r == queue[k]
<1>1. /\ TypeOK /\ LineSound /\ HumanSound /\ QueueSound /\ DirectorySound
      /\ ScriptSound /\ PromiseSound
  BY DEF IInv
<1>2. /\ r \in ToSet(queue) /\ queue' \in Seq(Request) /\ ToSet(queue') \subseteq ToSet(queue)
      /\ ToSet(queue) \subseteq ToSet(queue') \cup {r} /\ pc \in {"script", "loop"}
      /\ MkdirIsFirst(queue) /\ k # 1 => MkdirIsFirst(queue')
  BY <1>1, Served
<1>3. TypeOK'
  <2>1. \A j \in DOMAIN queue' : queue'[j].op = "write" => queue'[j].path \in DOMAIN disk'
    <3>1. \A s \in ToSet(queue) : s.op = "write" => s.path \in DOMAIN disk
      BY <1>1, QueuedWrites
    <3>2. \A j \in DOMAIN queue' : queue'[j] \in ToSet(queue')
      BY DEF ToSet
    <3>. QED BY <1>2, <3>1, <3>2
  <2>2. directory' \in BOOLEAN
    BY <1>1 DEF TypeOK
  <2>. QED BY <1>1, <2>1, <2>2 DEF TypeOK
<1>4. LineSound'
  BY <1>1 DEF LineSound
<1>5. HumanSound'
  BY <1>1 DEF HumanSound
<1>6. QueueSound'
  <2>1. \A s : FileRequest(s)' <=> FileRequest(s)
    BY SameDisk
  <2>. QED BY <1>1, <1>2, <2>1 DEF QueueSound
<1>7. DirectorySound'
  <2>1. directory \/ << >> \in failed \/ MkdirIsFirst(queue)
    BY <1>1, <1>2 DEF DirectorySound
  <2>2. CASE MkdirIsFirst(queue) /\ k # 1
    BY <1>2, <2>2 DEF DirectorySound, MkdirIsFirst
  <2>3. CASE MkdirIsFirst(queue) /\ k = 1
    <3>1. queue[k].path = << >>
      BY <2>3 DEF MkdirIsFirst, Mkdir
    <3>. QED BY <3>1 DEF DirectorySound
  <2>4. CASE directory \/ << >> \in failed
    BY <1>1, <2>4 DEF DirectorySound, TypeOK
  <2>. QED BY <2>1, <2>2, <2>3, <2>4
<1>8. ScriptSound'
  <2>1. \A s : Requested(s, pass)' <=> Requested(s, pass)
    <3>1. /\ \A q, name, i : Writes(q, name, i)' <=> Writes(q, name, i)
          /\ \A q, name, i : Open(q, name, i)' = Open(q, name, i)
      BY SameDisk, SameRun
    <3>. QED BY <3>1 DEF Requested
  <2>. QED BY <1>1, <2>1 DEF ScriptSound
<1>9. PromiseSound'
  <2>1. \A p, name : IsTarget(p, name)' <=> IsTarget(p, name)
    BY SameRun
  <2>2. \A path : HasOurs(path)' <=> HasOurs(path)
    BY SameDisk
  <2>3. ASSUME NEW p, NEW path, Promised(p, path)
        PROVE  Promised(p, path)'
    <3>1. CASE path \in failed
      BY <3>1 DEF Promised
    <3>2. CASE Waiting(path)
      <4>1. PICK s \in ToSet(queue) : s.op # "mkdir" /\ s.path = path
        BY <3>2 DEF Waiting
      <4>2. CASE s = r
        BY <4>1, <4>2 DEF Promised
      <4>3. CASE s # r
        BY <1>2, <4>1, <4>3 DEF Promised, Waiting
      <4>. QED BY <4>2, <4>3
    <3>3. CASE path \in DOMAIN disk /\ disk[path] # {} /\ HasOurs(path)
      BY <2>2, <3>3 DEF Promised
    <3>4. CASE p = "stubs" /\ option(line, "stubs") = "preserve" /\ path \in DOMAIN disk
      BY <3>4 DEF Promised
    <3>. QED BY <2>3, <3>1, <3>2, <3>3, <3>4 DEF Promised
  <2>. QED BY <1>1, <2>1, <2>3 DEF PromiseSound
<1>. QED BY <1>3, <1>4, <1>5, <1>6, <1>7, <1>8, <1>9 DEF IInv

LEMMA OpenKeeps ==
  ASSUME IInv, NEW k \in DOMAIN queue, open(queue[k], k), UNCHANGED script
  PROVE  IInv'
<1>. DEFINE r    == queue[k]
            w    == [r EXCEPT !.op = "write"]
            rest == RemoveAt(queue, k)
<1>1. /\ r.op = "open" /\ directory /\ queue' = Append(rest, w)
      /\ disk' = [p \in DOMAIN disk \union {r.path} |-> IF p = r.path THEN {} ELSE disk[p]]
      /\ UNCHANGED <<line, lists, pc, pass, writes, run, exit, failed, mishaps, directory>>
  BY DEF open, script
<1>2. TypeOK /\ LineSound /\ HumanSound /\ QueueSound /\ PromiseSound
  BY DEF IInv
<1>3. /\ r \in Request /\ r \in ToSet(queue)
      /\ rest \in Seq(Request) /\ ToSet(rest) \subseteq ToSet(queue)
      /\ ToSet(queue) \subseteq ToSet(rest) \cup {r}
      /\ pc = "loop" /\ FileRequest(r)
  <2>1. r # Mkdir
    BY <1>1 DEF Mkdir
  <2>. QED BY <1>2, <2>1, Served
<1>4. /\ DOMAIN disk' = DOMAIN disk \union {r.path} /\ disk'[r.path] = {}
      /\ \A path \in DOMAIN disk : path # r.path => disk'[path] = disk[path]
  BY <1>1
<1>5. w \in Request /\ w.op = "write" /\ w.path = r.path /\ w.by = r.by
  BY <1>3 DEF Request
<1>. HIDE DEF r, w, rest
<1>6. queue' \in Seq(Request) /\ ToSet(queue') = ToSet(rest) \cup {w}
  BY <1>1, <1>3, <1>5, AppendedMembers
<1>7. \A path, by : IsOurs(path, by)' <=> IsOurs(path, by)
  BY <1>1, SameRun
<1>8. ASSUME NEW path, path = r.path \/ (path \in DOMAIN disk /\ HasOurs(path))
      PROVE  HasOurs(path)'
  <2>1. CASE path = r.path
    <3>1. disk'[path] = {}
      BY <1>4, <2>1
    <3>. QED BY <3>1 DEF HasOurs
  <2>2. CASE path # r.path
    <3>1. disk'[path] = disk[path] /\ HasOurs(path)
      BY <1>4, <1>8, <2>2
    <3>. QED BY <1>7, <3>1 DEF HasOurs
  <2>. QED BY <2>1, <2>2
<1>9. TypeOK'
  <2>1. \A s \in ToSet(queue') : s.op = "write" => s.path \in DOMAIN disk'
    BY <1>2, <1>3, <1>4, <1>5, <1>6, QueuedWrites
  <2>2. \A j \in DOMAIN queue' : queue'[j] \in ToSet(queue')
    BY DEF ToSet
  <2>3. \A p \in DOMAIN disk' : \A by \in disk'[p] : by = Human \/ by.run \in 1 .. run'
    BY <1>1, <1>2, <1>4 DEF TypeOK
  <2>. QED BY <1>1, <1>2, <2>1, <2>2, <2>3 DEF TypeOK
<1>10. LineSound'
  BY <1>1, <1>2 DEF LineSound
<1>11. HumanSound'
  BY <1>2, <1>4 DEF HumanSound
<1>12. QueueSound'
  <2>1. ASSUME NEW s \in ToSet(rest), s # Mkdir
        PROVE  FileRequest(s)'
    <3>1. FileRequest(s)
      BY <1>2, <1>3, <2>1 DEF QueueSound
    <3>2. s.op = "open" => MayOpen(s.path)'
      BY <1>1, <1>4, <3>1 DEF FileRequest, MayOpen
    <3>3. s.op = "write" => s.path \in DOMAIN disk' /\ HasOurs(s.path)'
      BY <1>4, <1>8, <3>1 DEF FileRequest
    <3>. QED BY <1>7, <3>1, <3>2, <3>3 DEF FileRequest
  <2>2. ASSUME NEW s, s = w
        PROVE  FileRequest(s)'
    <3>1. s.op = "write" /\ s.path = r.path /\ s.by = r.by
      BY <1>5, <2>2
    <3>2. IsOurs(s.path, s.by)
      BY <1>3, <3>1 DEF FileRequest
    <3>3. s.path \in DOMAIN disk' /\ HasOurs(s.path)'
      BY <1>4, <1>8, <3>1
    <3>. QED BY <1>7, <3>1, <3>2, <3>3 DEF FileRequest
  <2>3. \A s \in ToSet(queue') : s = Mkdir \/ (pc' = "loop" /\ FileRequest(s)')
    BY <1>1, <1>3, <1>6, <2>1, <2>2
  <2>. QED BY <1>1, <1>3, <1>6, <2>3 DEF QueueSound
<1>13. DirectorySound'
  BY <1>1, <1>2 DEF DirectorySound, TypeOK
<1>14. ScriptSound'
  BY <1>1, <1>3 DEF ScriptSound
<1>15. PromiseSound'
  <2>1. \A p, name : IsTarget(p, name)' <=> IsTarget(p, name)
    BY <1>1, SameRun
  <2>2. ASSUME NEW p, NEW path, Promised(p, path)
        PROVE  Promised(p, path)'
    <3>1. CASE path = r.path
      BY <1>5, <1>6, <3>1 DEF Promised, Waiting
    <3>2. CASE path # r.path /\ Waiting(path)
      <4>1. PICK s \in ToSet(queue) : s.op # "mkdir" /\ s.path = path
        BY <3>2 DEF Waiting
      <4>2. s \in ToSet(queue')
        BY <1>3, <1>6, <3>2, <4>1
      <4>. QED BY <4>1, <4>2 DEF Promised, Waiting
    <3>3. CASE path # r.path /\ ~ Waiting(path)
      BY <1>1, <1>4, <1>8, <2>2, <3>3 DEF Promised
    <3>. QED BY <3>1, <3>2, <3>3
  <2>. QED BY <1>1, <1>2, <2>1, <2>2 DEF PromiseSound
<1>. QED BY <1>9, <1>10, <1>11, <1>12, <1>13, <1>14, <1>15 DEF IInv

(* A file that is written for a target has the generator's text in it. *)
LEMMA OwnText ==
  ASSUME Accepted(line), run \in Nat, NEW path, NEW by, IsOurs(path, by)
  PROVE  by # Human /\ by.run = run
<1>1. PICK p, name : IsTarget(p, name) /\ by = Author(p, name)
  BY DEF IsOurs
<1>2. p \in Generators
  BY <1>1, RunFacts
<1>3. p # "human"
  BY <1>2, PassFacts DEF Generators
<1>. QED BY <1>1, <1>3 DEF Author, Human

LEMMA WriteKeeps ==
  ASSUME IInv, NEW k \in DOMAIN queue, write(queue[k], k), UNCHANGED script
  PROVE  IInv'
<1>. DEFINE r == queue[k]
<1>1. /\ r.op = "write" /\ queue' = RemoveAt(queue, k)
      /\ \E kept \in SUBSET disk[r.path] : disk' = [disk EXCEPT ![r.path] = kept \union {r.by}]
      /\ UNCHANGED <<line, lists, pc, pass, writes, run, exit, failed, mishaps, directory>>
  BY DEF write, script
<1>2. TypeOK /\ LineSound /\ HumanSound /\ QueueSound /\ DirectorySound /\ PromiseSound
  BY DEF IInv
<1>3. /\ r \in ToSet(queue)
      /\ queue' \in Seq(Request) /\ ToSet(queue') \subseteq ToSet(queue)
      /\ ToSet(queue) \subseteq ToSet(queue') \cup {r}
      /\ MkdirIsFirst(queue) /\ k # 1 => MkdirIsFirst(queue')
      /\ pc = "loop" /\ FileRequest(r)
  <2>1. r # Mkdir
    BY <1>1 DEF Mkdir
  <2>. QED BY <1>1, <1>2, <2>1, Served
<1>4. MkdirIsFirst(queue) => k # 1
  BY <1>1 DEF MkdirIsFirst, Mkdir
<1>. HIDE DEF r
<1>5. /\ r.path \in DOMAIN disk /\ DOMAIN disk' = DOMAIN disk
      /\ disk'[r.path] \subseteq disk[r.path] \cup {r.by} /\ disk'[r.path] # {}
      /\ \A path \in DOMAIN disk : path # r.path => disk'[path] = disk[path]
  <2>1. r.path \in DOMAIN disk
    BY <1>1, <1>3 DEF FileRequest
  <2>2. PICK kept \in SUBSET disk[r.path] : disk' = [disk EXCEPT ![r.path] = kept \union {r.by}]
    BY <1>1
  <2>. QED BY <2>1, <2>2
<1>6. HasOurs(r.path) /\ IsOurs(r.path, r.by)
  BY <1>1, <1>3 DEF FileRequest
<1>7. /\ run \in 1 .. MaxRuns /\ run \in 1 .. run
      /\ \A path, by : IsOurs(path, by) => by # Human /\ by.run = run
  <2>1. Accepted(line) /\ run \in 1 .. MaxRuns /\ run \in Nat
    BY <1>2, <1>3, RunsFacts DEF LineSound
  <2>2. run \in 1 .. run
    BY <2>1, RunsFacts
  <2>. QED BY <2>1, <2>2, OwnText
<1>8. \A by \in disk'[r.path] : IsOurs(r.path, by)
  BY <1>5, <1>6 DEF HasOurs
<1>9. \A path, by : IsOurs(path, by)' <=> IsOurs(path, by)
  BY <1>1, SameRun
<1>10. ASSUME NEW path, path = r.path \/ (path \in DOMAIN disk /\ HasOurs(path))
       PROVE  HasOurs(path)'
  <2>1. CASE path = r.path
    BY <1>8, <1>9, <2>1 DEF HasOurs
  <2>2. CASE path # r.path
    <3>1. disk'[path] = disk[path] /\ HasOurs(path)
      BY <1>5, <1>10, <2>2
    <3>. QED BY <1>9, <3>1 DEF HasOurs
  <2>. QED BY <2>1, <2>2
<1>11. TypeOK'
  <2>1. \A s \in ToSet(queue') : s.op = "write" => s.path \in DOMAIN disk'
    BY <1>2, <1>3, <1>5, QueuedWrites
  <2>2. \A j \in DOMAIN queue' : queue'[j] \in ToSet(queue')
    BY DEF ToSet
  <2>3. \A p \in DOMAIN disk' : \A by \in disk'[p] : by = Human \/ by.run \in 1 .. run'
    BY <1>1, <1>2, <1>5, <1>7, <1>8 DEF TypeOK
  <2>. QED BY <1>1, <1>2, <2>1, <2>2, <2>3 DEF TypeOK
<1>12. LineSound'
  BY <1>1, <1>2 DEF LineSound
<1>13. HumanSound'
  BY <1>2, <1>5, <1>7, <1>8 DEF HumanSound
<1>14. QueueSound'
  <2>1. ASSUME NEW s \in ToSet(queue'), s # Mkdir
        PROVE  FileRequest(s)'
    <3>1. FileRequest(s)
      BY <1>2, <1>3, <2>1 DEF QueueSound
    <3>2. s.op = "open" => MayOpen(s.path)'
      BY <1>1, <1>5, <1>7, <1>8, <3>1 DEF FileRequest, MayOpen
    <3>3. s.op = "write" => s.path \in DOMAIN disk' /\ HasOurs(s.path)'
      BY <1>5, <1>10, <3>1 DEF FileRequest
    <3>. QED BY <1>9, <3>1, <3>2, <3>3 DEF FileRequest
  <2>2. \A s \in ToSet(queue') : s = Mkdir \/ (pc' = "loop" /\ FileRequest(s)')
    BY <1>1, <1>3, <2>1
  <2>. QED BY <1>1, <1>3, <2>2 DEF QueueSound
<1>15. DirectorySound'
  <2>1. MkdirIsFirst(queue)' <=> MkdirIsFirst(queue')
    BY DEF MkdirIsFirst
  <2>. QED BY <1>1, <1>2, <1>3, <1>4, <2>1 DEF DirectorySound
<1>16. ScriptSound'
  BY <1>1, <1>3 DEF ScriptSound
<1>17. PromiseSound'
  <2>1. \A p, name : IsTarget(p, name)' <=> IsTarget(p, name)
    BY <1>1, SameRun
  <2>2. ASSUME NEW p, NEW path, Promised(p, path)
        PROVE  Promised(p, path)'
    <3>1. CASE path = r.path
      BY <1>5, <1>10, <3>1 DEF Promised
    <3>2. CASE path # r.path /\ Waiting(path)
      <4>1. PICK s \in ToSet(queue) : s.op # "mkdir" /\ s.path = path
        BY <3>2 DEF Waiting
      <4>2. s \in ToSet(queue')
        BY <1>3, <3>2, <4>1
      <4>. QED BY <4>1, <4>2 DEF Promised, Waiting
    <3>3. CASE path # r.path /\ ~ Waiting(path)
      BY <1>1, <1>5, <1>10, <2>2, <3>3 DEF Promised
    <3>. QED BY <3>1, <3>2, <3>3
  <2>. QED BY <1>1, <1>2, <2>1, <2>2 DEF PromiseSound
<1>. QED BY <1>11, <1>12, <1>13, <1>14, <1>15, <1>16, <1>17 DEF IInv

LEMMA WorkKeeps == IInv /\ Work => IInv'
<1>. SUFFICES ASSUME IInv, Work PROVE IInv'
  OBVIOUS
<1>1. UNCHANGED script
  BY DEF Work
<1>2. PICK k \in DOMAIN queue :
         \/ mkdir(queue[k], k) \/ open(queue[k], k) \/ openWithoutDirectory(queue[k], k)
         \/ write(queue[k], k) \/ failure(queue[k], k)
  BY DEF Work
<1>3. TypeOK
  BY DEF IInv
<1>4. CASE mkdir(queue[k], k)
  BY <1>1, <1>3, <1>4, DropKeeps DEF mkdir, script, TypeOK
<1>5. CASE open(queue[k], k)
  BY <1>1, <1>5, OpenKeeps
<1>6. CASE openWithoutDirectory(queue[k], k)
  BY <1>1, <1>3, <1>6, DropKeeps DEF openWithoutDirectory, Fail, script, TypeOK
<1>7. CASE write(queue[k], k)
  BY <1>1, <1>7, WriteKeeps
<1>8. CASE failure(queue[k], k)
  <2>1. mishaps' \in 0 .. MaxMishaps
    BY <1>3, <1>8, BoundsAssumption DEF failure, TypeOK
  <2>. QED BY <1>1, <1>3, <1>8, <2>1, DropKeeps DEF failure, Fail, script, TypeOK
<1>. QED BY <1>2, <1>4, <1>5, <1>6, <1>7, <1>8

LEMMA NextKeeps == IInv /\ [Next]_vars => IInv'
<1>. SUFFICES ASSUME IInv, [Next]_vars PROVE IInv'
  OBVIOUS
<1>1. CASE Start
  BY <1>1, StartKeeps
<1>2. CASE Reject \/ RejectFiles
  BY <1>2, EndKeeps
<1>3. CASE Parse
  BY <1>3, ParseKeeps
<1>4. CASE MakeDirectory
  BY <1>4, MakeDirectoryKeeps
<1>5. CASE generate_C_files
  BY <1>5, GenerateKeeps
<1>6. CASE utilities
  BY <1>6, UtilitiesKeeps
<1>7. CASE Work
  BY <1>7, WorkKeeps
<1>8. CASE Exit
  BY <1>8, ExitKeeps
<1>9. CASE Interrupt
  BY <1>9, InterruptKeeps
<1>10. CASE Edit
  BY <1>10, EditKeeps
<1>11. CASE Done \/ UNCHANGED vars
  BY <1>11, StutterKeeps DEF Done
<1>. QED
  BY <1>1, <1>2, <1>3, <1>4, <1>5, <1>6, <1>7, <1>8, <1>9, <1>10, <1>11 DEF Next

(* The inductive invariant holds in every run. *)
THEOREM GenerationIsSound == Spec => []IInv
<1>1. Init => IInv
  BY StartsSound
<1>2. IInv /\ [Next]_vars => IInv'
  BY NextKeeps
<1>. QED BY <1>1, <1>2, PTL DEF Spec

(* The variables have their types, and a stream writes only into a file     *)
(* that it opened (qfs.write opens, then writes).                           *)
THEOREM FileGenerationTypeOK == Spec => []TypeOK
<1>1. IInv => TypeOK
  BY DEF IInv
<1>. QED BY <1>1, GenerationIsSound, PTL

----------------------------------------------------------------------------
(* The user's text.                                                         *)

LEMMA StepKeepsHumanCode ==
  IInv /\ [Next]_vars =>
    ((pc \in {"script", "loop"} /\ option(line, "stubs") # "overwrite") =>
        \A p \in DOMAIN disk :
          Human \in disk[p] => p \in DOMAIN disk' /\ disk'[p] = disk[p])
<1>. SUFFICES ASSUME IInv, [Next]_vars, pc \in {"script", "loop"},
                     option(line, "stubs") # "overwrite",
                     NEW p \in DOMAIN disk, Human \in disk[p]
              PROVE  p \in DOMAIN disk' /\ disk'[p] = disk[p]
  OBVIOUS
<1>1. QueueSound /\ LineSound
  BY DEF IInv
<1>2. CASE Work
  <2>1. PICK k \in DOMAIN queue :
           \/ mkdir(queue[k], k) \/ open(queue[k], k) \/ openWithoutDirectory(queue[k], k)
           \/ write(queue[k], k) \/ failure(queue[k], k)
    BY <1>2 DEF Work
  <2>. DEFINE r == queue[k]
  <2>2. r = Mkdir \/ FileRequest(r)
    BY <1>1, Served
  <2>. HIDE DEF r
  <2>3. CASE disk' = disk
    BY <2>3
  <2>4. CASE open(r, k)
    <3>1. /\ r.op = "open"
          /\ disk' = [q \in DOMAIN disk \union {r.path} |-> IF q = r.path THEN {} ELSE disk[q]]
      BY <2>4 DEF open
    <3>2. MayOpen(r.path)
      BY <2>2, <3>1 DEF FileRequest, Mkdir
    <3>3. p # r.path
      BY <3>2 DEF MayOpen
    <3>. QED BY <3>1, <3>3
  <2>5. CASE write(r, k)
    <3>1. r.op = "write" /\ \E kept \in SUBSET disk[r.path] :
                                disk' = [disk EXCEPT ![r.path] = kept \union {r.by}]
      BY <2>5 DEF write
    <3>2. HasOurs(r.path)
      BY <2>2, <3>1 DEF FileRequest, Mkdir
    <3>3. Accepted(line) /\ run \in Nat
      BY <1>1, RunsFacts DEF LineSound
    <3>4. p # r.path
      BY <3>2, <3>3, OwnText DEF HasOurs
    <3>. QED BY <3>1, <3>4
  <2>. QED BY <2>1, <2>3, <2>4, <2>5 DEF mkdir, openWithoutDirectory, failure, Fail, r
<1>3. CASE ~Work
  <2>1. disk' = disk
    BY <1>3 DEF Next, Start, Reject, Parse, RejectFiles, MakeDirectory, generate_C_files,
                utilities, Exit, Interrupt, Edit, Done, vars, world
  <2>. QED BY <2>1
<1>. QED BY <1>2, <1>3

(* What the user wrote into a stubs file stays there, byte for byte, in     *)
(* every later run that does not ask to overwrite, whatever its .idl file   *)
(* and wherever it is interrupted (docs/tutorial_part1.md:245, the test of  *)
(* file_generators.js:114).                                                 *)
THEOREM UserTextSurvives == Spec => HumanCodeIsKept
<1>1. Spec => []IInv
  BY GenerationIsSound
<1>2. Spec => [][Next]_vars
  BY DEF Spec
<1>. QED BY <1>1, <1>2, StepKeepsHumanCode, PTL DEF HumanCodeIsKept

----------------------------------------------------------------------------
(* The files that are asked for.                                            *)

LEMMA PairOfPieces ==
  ASSUME NEW A, NEW a \in A, NEW b \in A
  PROVE  <<a>> \o <<b>> = <<a, b>>
<1>1. <<a>> \in Seq(A) /\ <<b>> \in Seq(A) /\ <<a, b>> \in Seq(A)
  OBVIOUS
<1>2. Len(<<a>>) = 1 /\ Len(<<b>>) = 1 /\ Len(<<a, b>>) = 2 /\ <<a, b>>[1] = a /\ <<a, b>>[2] = b
  OBVIOUS
<1>. DEFINE both == <<a>> \o <<b>>
<1>3. both \in Seq(A) /\ Len(both) = 2 /\ both[1] = a /\ both[2] = b
  BY <1>1, <1>2, ConcatProperties
<1>. HIDE DEF both
<1>4. both = <<a, b>>
  BY <1>1, <1>2, <1>3, SeqEqual
<1>. QED BY <1>4 DEF both

(* The naming conventions and the names that the generators put together    *)
(* agree.                                                                   *)
LEMMA ExtensionPaths ==
  ASSUME NEW p \in DOMAIN Extensions, NEW name, IsFileName(name)
  PROVE  /\ p \in Range(Passes) /\ p \in Generators
         /\ \A e \in Extensions[p] : \E i \in ToSet(indices(p)) :
              name \o e = CFileFileName(p, name, i)
         /\ \A i \in ToSet(indices(p)) : \E e \in Extensions[p] :
              name \o e = CFileFileName(p, name, i)
<1>1. /\ DOMAIN Extensions = {"typedefs", "interfaces", "stubs", "dictionaries", "enums",
                              "callbacks", "composites"}
      /\ Extensions["stubs"] = {<<"_stubs", ".h">>, <<"_stubs", ".c">>}
      /\ Extensions["typedefs"] = {<<".h">>, <<"_private", ".h">>}
      /\ \A q \in DOMAIN Extensions : q # "stubs" /\ q # "typedefs" =>
           Extensions[q] = {<<".h">>, <<"_private", ".h">>, <<".c">>}
  BY DEF Extensions
<1>2. p \in Range(Passes) /\ p \in Generators
  BY <1>1, PassFacts DEF Generators
<1>3. /\ header_or_body[1] = <<".h">> /\ header_or_body[2] = <<"_private", ".h">>
      /\ header_or_body[3] = <<".c">>
  BY DEF header_or_body
<1>4. name \in Seq(Pieces)
  BY DEF IsFileName
<1>5. ToSet(indices(p)) = IF p = "stubs" THEN {1, 3}
                          ELSE IF p = "typedefs" THEN {1, 2} ELSE {1, 2, 3}
  BY <1>2, IndexFacts
<1>6. \A i : CFileFileName(p, name, i) = name \o stubs_piece(p) \o header_or_body[i]
  BY DEF CFileFileName
<1>7. CASE p = "stubs"
  <2>1. stubs_piece(p) = <<"_stubs">>
    BY <1>7 DEF stubs_piece
  <2>2. /\ <<"_stubs">> \in Seq(Pieces) /\ <<".h">> \in Seq(Pieces) /\ <<".c">> \in Seq(Pieces)
        /\ "_stubs" \in Pieces /\ ".h" \in Pieces /\ ".c" \in Pieces
    BY DEF Pieces
  <2>3. /\ (name \o <<"_stubs">>) \o <<".h">> = name \o (<<"_stubs">> \o <<".h">>)
        /\ (name \o <<"_stubs">>) \o <<".c">> = name \o (<<"_stubs">> \o <<".c">>)
    BY <1>4, <2>2, ConcatAssociative
  <2>4. /\ <<"_stubs">> \o <<".h">> = <<"_stubs", ".h">>
        /\ <<"_stubs">> \o <<".c">> = <<"_stubs", ".c">>
    BY <2>2, PairOfPieces
  <2>5. Extensions[p] = {<<"_stubs", ".h">>, <<"_stubs", ".c">>}
    BY <1>1, <1>7
  <2>6. ToSet(indices(p)) = {1, 3}
    BY <1>5, <1>7
  <2>7. /\ name \o <<"_stubs", ".h">> = CFileFileName(p, name, 1)
        /\ name \o <<"_stubs", ".c">> = CFileFileName(p, name, 3)
    BY <1>3, <1>6, <2>1, <2>3, <2>4
  <2>. QED BY <1>2, <2>5, <2>6, <2>7
<1>8. CASE p # "stubs"
  <2>1. stubs_piece(p) = << >> /\ name \o << >> = name
    BY <1>4, <1>8, ConcatEmptySeq DEF stubs_piece
  <2>2. \A i : CFileFileName(p, name, i) = name \o header_or_body[i]
    BY <1>6, <2>1
  <2>3. CASE p = "typedefs"
    <3>1. Extensions[p] = {<<".h">>, <<"_private", ".h">>} /\ ToSet(indices(p)) = {1, 2}
      BY <1>1, <1>5, <2>3
    <3>. QED BY <1>2, <1>3, <2>2, <3>1
  <2>4. CASE p # "typedefs"
    <3>1. Extensions[p] = {<<".h">>, <<"_private", ".h">>, <<".c">>}
      BY <1>1, <1>8, <2>4
    <3>2. ToSet(indices(p)) = {1, 2, 3}
      BY <1>5, <1>8, <2>4
    <3>. QED BY <1>2, <1>3, <2>2, <3>1, <3>2
  <2>. QED BY <2>3, <2>4
<1>. QED BY <1>7, <1>8

(* The objects that an .idl file of the command line declares are parsed,   *)
(* and marked if the file is an --include's.                                *)
LEMMA ObjectsAreParsed ==
  ASSUME Accepted(line), NEW p, NEW included \in BOOLEAN, NEW o \in Objects(p, included)
  PROVE  /\ Marked(o, included) \in ToSet(parsed_file(line))
         /\ o.kind = object_type(p) /\ IsName(o.name)
<1>1. line \in Seq(AnArgument) /\ validate(line) = "none"
  BY DEF Accepted
<1>2. /\ ParsedSound(line)
      /\ ToSet(files(line)) \cup ToSet(include_files(line)) \subseteq DOMAIN Sources
  BY ParsedFacts DEF Accepted
<1>3. PICK i \in IdlArguments(line, included) : o \in Range(Sources[line[i].value].objects)
  BY DEF Objects
<1>4. o.kind = object_type(p)
  BY DEF Objects
<1>. DEFINE file == line[i].value
<1>5. /\ included = FALSE => file \in ToSet(files(line))
      /\ included = TRUE => file \in ToSet(include_files(line))
  BY <1>1, <1>3, CompiledFiles, IncludedFiles
<1>6. Marked(o, included) \in Declared(file, included)
  BY <1>3 DEF Declared
<1>. HIDE DEF file
<1>7. Marked(o, included) \in ToSet(parsed_file(line))
  BY <1>2, <1>5, <1>6 DEF ParsedSound
<1>8. IsName(Marked(o, included).name)
  BY <1>2, <1>7 DEF ParsedSound
<1>. QED BY <1>4, <1>7, <1>8 DEF Marked

LEMMA FilesOf ==
  ASSUME NEW included, NEW f \in Files(included)
  PROVE  \E p \in DOMAIN Extensions :
            \E o \in Objects(p, included), e \in Extensions[p] :
               f = [path |-> o.name \o e, by |-> Author(p, o.name), pass |-> p]
<1>. DEFINE Of(p) == { [path |-> o.name \o e, by |-> Author(p, o.name), pass |-> p] :
                         o \in Objects(p, included), e \in Extensions[p] }
<1>1. Files(included) = UNION {Of(p) : p \in DOMAIN Extensions}
  BY DEF Files
<1>2. \A p : f \in Of(p) => \E o \in Objects(p, included), e \in Extensions[p] :
               f = [path |-> o.name \o e, by |-> Author(p, o.name), pass |-> p]
  OBVIOUS
<1>. HIDE DEF Of
<1>3. PICK p \in DOMAIN Extensions : f \in Of(p)
  BY <1>1
<1>. QED BY <1>2, <1>3

(* And nothing else is parsed. *)
LEMMA ParsedAreObjects ==
  ASSUME Accepted(line), NEW x \in ToSet(parsed_file(line)), NEW p, object_type(p) = x.kind
  PROVE  \E included \in BOOLEAN : \E o \in Objects(p, included) : x = Marked(o, included)
<1>1. line \in Seq(AnArgument) /\ validate(line) = "none"
  BY DEF Accepted
<1>2. ParsedSound(line)
  BY ParsedFacts DEF Accepted
<1>3. ASSUME NEW included \in BOOLEAN, NEW i \in IdlArguments(line, included),
             x \in Declared(line[i].value, included)
      PROVE  \E o \in Objects(p, included) : x = Marked(o, included)
  <2>1. PICK o \in Range(Sources[line[i].value].objects) : x = Marked(o, included)
    BY <1>3 DEF Declared
  <2>2. o.kind = object_type(p)
    BY <2>1 DEF Marked
  <2>3. o \in Objects(p, included)
    BY <2>2 DEF Objects
  <2>. QED BY <2>1, <2>3
<1>4. CASE \E file \in ToSet(files(line)) : x \in Declared(file, FALSE)
  <2>1. PICK file \in ToSet(files(line)) : x \in Declared(file, FALSE)
    BY <1>4
  <2>2. PICK i \in IdlArguments(line, FALSE) : line[i].value = file
    BY <1>1, CompiledFiles
  <2>. QED BY <1>3, <2>1, <2>2
<1>5. CASE \E file \in ToSet(include_files(line)) : x \in Declared(file, TRUE)
  <2>1. PICK file \in ToSet(include_files(line)) : x \in Declared(file, TRUE)
    BY <1>5
  <2>2. PICK i \in IdlArguments(line, TRUE) : line[i].value = file
    BY <1>1, IncludedFiles
  <2>. QED BY <1>3, <2>1, <2>2
<1>. QED BY <1>2, <1>4, <1>5 DEF ParsedSound

FileOf(p, name, e) == [path |-> name \o e, by |-> Author(p, name), pass |-> p]

LEMMA FileIsOf ==
  ASSUME NEW included, NEW p \in DOMAIN Extensions, NEW o \in Objects(p, included),
         NEW e \in Extensions[p]
  PROVE  FileOf(p, o.name, e) \in Files(included)
<1>. DEFINE Of(q) == {FileOf(q, x.name, d) : x \in Objects(q, included), d \in Extensions[q]}
<1>1. Files(included) = UNION {Of(q) : q \in DOMAIN Extensions}
  BY DEF Files, FileOf
<1>2. FileOf(p, o.name, e) \in Of(p)
  OBVIOUS
<1>. HIDE DEF Of
<1>. QED BY <1>1, <1>2

(* Typedefs and unions are printed wherever they come from; stubs are not   *)
(* made of them.                                                            *)
LEMMA MadeFacts ==
  ASSUME NEW p \in Range(Passes)
  PROVE  object_type(p) \in Made <=> p \in Made
BY PassFacts DEF object_type, Made

LEMMA CompiledOf ==
  ASSUME Accepted(line), NEW p, NEW included \in BOOLEAN, NEW o \in Objects(p, included)
  PROVE  /\ compiled(Marked(o, included)) \in AllObjects(line)
         /\ compiled(Marked(o, included)).kind = object_type(p)
         /\ compiled(Marked(o, included)).name = o.name
         /\ compiled(Marked(o, included)).dont_print_this_thing_out
              = (object_type(p) \notin Made /\ included)
<1>. DEFINE m == Marked(o, included)
<1>1. m \in ToSet(parsed_file(line)) /\ o.kind = object_type(p)
  BY ObjectsAreParsed
<1>2. m.kind = object_type(p) /\ m.name = o.name /\ m.dont_print_this_thing_out = included
  BY <1>1 DEF Marked
<1>3. m \in AnObject
  <2>. DEFINE parsed == parsed_file(line)
  <2>1. parsed \in Seq(AnObject) /\ m \in ToSet(parsed)
    BY <1>1, ParsedFacts DEF Accepted, ParsedSound
  <2>. HIDE DEF parsed, m
  <2>. QED BY <2>1, Members
<1>4. m \in ToSet(parsed_file(line)) => compiled(m) \in AllObjects(line)
  BY DEF AllObjects
<1>. HIDE DEF m
<1>5. CompiledSound(m)
  BY <1>3, CompiledFacts
<1>6. /\ compiled(m) \in AllObjects(line)
      /\ compiled(m).kind = object_type(p) /\ compiled(m).name = o.name
      /\ compiled(m).dont_print_this_thing_out = (object_type(p) \notin Made /\ included)
  BY <1>1, <1>2, <1>4, <1>5 DEF CompiledSound
<1>. QED BY <1>6 DEF m

LEMMA CompiledObjects ==
  ASSUME Accepted(line), NEW p \in Range(Passes), NEW included \in BOOLEAN,
         NEW o \in Objects(p, included), included => p \in Made
  PROVE  IsTarget(p, o.name)
<1>. DEFINE m == compiled(Marked(o, included))
<1>1. /\ m \in AllObjects(line) /\ m.kind = object_type(p) /\ m.name = o.name
      /\ m.dont_print_this_thing_out = (object_type(p) \notin Made /\ included)
  BY CompiledOf
<1>. HIDE DEF m
<1>2. m \in ToPrint(line, p)
  BY <1>1, MadeFacts DEF ToPrint
<1>. QED BY <1>1, <1>2 DEF IsTarget

LEMMA UtilityPaths ==
  ASSUME NEW i
  PROVE  CFileFileName("utilities", utilities_filename, i) = utilities_filename \o header_or_body[i]
<1>1. stubs_piece("utilities") = << >>
  BY DEF stubs_piece
<1>2. utilities_filename \in Seq(Pieces)
  BY UtilitiesAreAFileName DEF IsFileName
<1>3. utilities_filename \o << >> = utilities_filename
  BY <1>2, ConcatEmptySeq
<1>. QED BY <1>1, <1>3 DEF CFileFileName

LEMMA WantedTargets ==
  ASSUME Accepted(line), NEW f \in Wanted
  PROVE  \E name : /\ IsTarget(f.pass, name) /\ f.by = Author(f.pass, name)
                   /\ \E i \in ToSet(indices(f.pass)) : f.path = CFileFileName(f.pass, name, i)
<1>1. ASSUME NEW included \in BOOLEAN, f \in Files(included), included => f.pass \in Made
      PROVE  \E name : /\ IsTarget(f.pass, name) /\ f.by = Author(f.pass, name)
                       /\ \E i \in ToSet(indices(f.pass)) : f.path = CFileFileName(f.pass, name, i)
  <2>1. PICK p \in DOMAIN Extensions :
           \E o \in Objects(p, included), e \in Extensions[p] :
              f = [path |-> o.name \o e, by |-> Author(p, o.name), pass |-> p]
    BY <1>1, FilesOf
  <2>2. PICK o \in Objects(p, included), e \in Extensions[p] :
           f = [path |-> o.name \o e, by |-> Author(p, o.name), pass |-> p]
    BY <2>1
  <2>3. f.path = o.name \o e /\ f.by = Author(p, o.name) /\ f.pass = p
    BY <2>2
  <2>4. IsFileName(o.name)
    BY ObjectsAreParsed, NamesAreFileNames
  <2>5. p \in Range(Passes) /\ \E i \in ToSet(indices(p)) : o.name \o e = CFileFileName(p, o.name, i)
    BY <2>4, ExtensionPaths
  <2>6. IsTarget(p, o.name)
    BY <1>1, <2>3, <2>5, CompiledObjects
  <2>. QED BY <2>3, <2>5, <2>6
<1>2. CASE option(line, "output_utility_files") = True /\ f \in UtilityFiles
  <2>1. PICK e \in Range(header_or_body) :
           f = [path |-> utilities_filename \o e, by |-> Author("utilities", utilities_filename),
                pass |-> "utilities"]
    BY <1>2 DEF UtilityFiles
  <2>2. PICK i \in 1 .. 3 : e = header_or_body[i]
    BY DEF Range, header_or_body
  <2>3. "utilities" \in Generators /\ "utilities" # "stubs" /\ "utilities" # "typedefs"
    BY DEF Generators
  <2>4. i \in ToSet(indices("utilities"))
    BY <2>2, <2>3, IndexFacts
  <2>5. CFileFileName("utilities", utilities_filename, i) = utilities_filename \o e
    BY <2>2, UtilityPaths
  <2>6. IsTarget("utilities", utilities_filename)
    BY <1>2 DEF IsTarget
  <2>7. /\ f.path = utilities_filename \o e /\ f.by = Author("utilities", utilities_filename)
        /\ f.pass = "utilities"
    BY <2>1
  <2>. QED BY <2>4, <2>5, <2>6, <2>7
<1>3. \/ f \in Files(FALSE)
      \/ f \in Files(TRUE) /\ f.pass \in Made
      \/ option(line, "output_utility_files") = True /\ f \in UtilityFiles
  BY DEF Wanted
<1>. QED BY <1>1, <1>2, <1>3

(* And every target's file is wanted. *)
LEMMA TargetsAreWanted ==
  ASSUME Accepted(line), NEW p, NEW name, IsTarget(p, name), NEW i \in ToSet(indices(p))
  PROVE  \E f \in Wanted :
            f.path = CFileFileName(p, name, i) /\ f.by = Author(p, name) /\ f.pass = p
<1>1. ParsedSound(line)
  BY ParsedFacts DEF Accepted
<1>2. CASE p \in Range(Passes) /\ \E o \in ToPrint(line, p) : o.name = name
  <2>1. PICK m \in AllObjects(line) :
           m.kind = object_type(p) /\ ~ m.dont_print_this_thing_out /\ m.name = name
    BY <1>2 DEF ToPrint
  <2>2. PICK x \in ToSet(parsed_file(line)) : m = compiled(x) /\ x \in AnObject
    BY <1>1, ObjectsAreCompiled
  <2>3. x.kind = object_type(p) /\ x.name = name /\ (x.dont_print_this_thing_out => p \in Made)
    <3>1. CompiledSound(x)
      BY <2>2, CompiledFacts
    <3>. QED BY <1>2, <2>1, <2>2, <3>1, MadeFacts DEF CompiledSound
  <2>4. PICK included \in BOOLEAN : \E o \in Objects(p, included) : x = Marked(o, included)
    BY <2>3, ParsedAreObjects
  <2>5. PICK o \in Objects(p, included) : x = Marked(o, included)
    BY <2>4
  <2>6. o.name = name /\ (included => p \in Made)
    BY <2>3, <2>5 DEF Marked
  <2>7. IsFileName(name) /\ p \in DOMAIN Extensions
    <3>1. IsFileName(name)
      BY <2>5, <2>6, ObjectsAreParsed, NamesAreFileNames
    <3>. QED BY <1>2, <3>1, PassFacts DEF Extensions
  <2>8. PICK e \in Extensions[p] : name \o e = CFileFileName(p, name, i)
    BY <2>7, ExtensionPaths
  <2>. DEFINE f == FileOf(p, o.name, e)
  <2>9. f \in Files(included)
    BY <2>7, FileIsOf
  <2>10. f.path = CFileFileName(p, name, i) /\ f.by = Author(p, name) /\ f.pass = p
    BY <2>6, <2>8 DEF FileOf
  <2>. HIDE DEF f
  <2>11. f \in Wanted
    BY <2>6, <2>9, <2>10 DEF Wanted
  <2>. QED BY <2>10, <2>11
<1>3. CASE p = "utilities" /\ name = utilities_filename /\ option(line, "output_utility_files") = True
  <2>1. i \in 1 .. 3
    <3>1. p \in Generators
      BY <1>3 DEF Generators
    <3>2. indices(p) \in Seq(1 .. 3)
      BY <3>1, IndexFacts
    <3>. QED BY <3>2, Members
  <2>2. header_or_body[i] \in Range(header_or_body)
    BY <2>1 DEF Range, header_or_body
  <2>3. CFileFileName(p, name, i) = utilities_filename \o header_or_body[i]
    BY <1>3, UtilityPaths
  <2>. DEFINE f == [path |-> utilities_filename \o header_or_body[i],
                    by |-> Author("utilities", utilities_filename), pass |-> "utilities"]
  <2>4. f \in UtilityFiles
    BY <2>2 DEF UtilityFiles
  <2>5. f.path = CFileFileName(p, name, i) /\ f.by = Author(p, name) /\ f.pass = p
    BY <1>3, <2>3
  <2>. HIDE DEF f
  <2>6. f \in Wanted
    BY <1>3, <2>4 DEF Wanted
  <2>. QED BY <2>5, <2>6
<1>. QED BY <1>2, <1>3 DEF IsTarget

LEMMA OursIsWanted ==
  ASSUME Accepted(line), NEW path, NEW by, IsOurs(path, by)
  PROVE  by \in Authors(path)
<1>1. PICK p, name : /\ IsTarget(p, name) /\ by = Author(p, name)
                     /\ \E i \in ToSet(indices(p)) : path = CFileFileName(p, name, i)
  BY DEF IsOurs
<1>2. PICK f \in Wanted : f.path = path /\ f.by = by
  BY <1>1, TargetsAreWanted
<1>. QED BY <1>2 DEF Authors

LEMMA PromisesAreKept == IInv => EveryFileIsMade
<1>. SUFFICES ASSUME IInv PROVE EveryFileIsMade
  OBVIOUS
<1>1. /\ TypeOK /\ LineSound /\ QueueSound /\ DirectorySound /\ PromiseSound
  BY DEF IInv
<1>2. ASSUME exit = "success", NEW f \in Wanted, f.path \notin failed
      PROVE  /\ f.path \in DOMAIN disk
             /\ \/ disk[f.path] # {} /\ disk[f.path] \subseteq Authors(f.path)
                \/ f.pass = "stubs" /\ option(line, "stubs") = "preserve"
  <2>1. Accepted(line) /\ pc = "idle"
    BY <1>1, <1>2 DEF LineSound
  <2>2. PICK name : /\ IsTarget(f.pass, name) /\ f.by = Author(f.pass, name)
                    /\ \E i \in ToSet(indices(f.pass)) : f.path = CFileFileName(f.pass, name, i)
    BY <2>1, WantedTargets
  <2>3. Promised(f.pass, f.path)
    BY <1>1, <1>2, <2>2 DEF PromiseSound
  <2>4. ~ Waiting(f.path)
    BY <1>1, <2>1, EmptyQueue DEF QueueSound, Waiting
  <2>5. HasOurs(f.path) => disk[f.path] \subseteq Authors(f.path)
    BY <2>1, OursIsWanted DEF HasOurs
  <2>. QED BY <1>2, <2>3, <2>4, <2>5 DEF Promised
<1>3. ASSUME NEW k \in DOMAIN queue, queue[k].op = "open"
      PROVE  \/ directory \/ << >> \in failed
             \/ \E j \in 1 .. k - 1 : queue[j].op = "mkdir"
  <2>1. pc \in {"script", "loop"} /\ k \in 1 .. Len(queue)
    <3>1. k \in 1 .. Len(queue)
      BY <1>1, Members DEF QueueSound
    <3>. QED BY <1>1, <3>1, Served
  <2>2. CASE MkdirIsFirst(queue)
    <3>1. queue[1].op = "mkdir"
      BY <2>2 DEF MkdirIsFirst, Mkdir
    <3>2. k # 1
      BY <1>3, <3>1
    <3>3. 1 \in 1 .. k - 1
      BY <2>1, <3>2
    <3>. QED BY <3>1, <3>3
  <2>. QED BY <1>1, <2>1, <2>2 DEF DirectorySound
<1>. QED BY <1>2, <1>3 DEF EveryFileIsMade

(* After a run that was not interrupted every file that was asked for exists *)
(* and, stubs that were there before apart, holds this run's text and none   *)
(* of an earlier run's, even if that one was interrupted: the text that was  *)
(* asked for, or, where a typedef or a union has the name of something else, *)
(* that of one or both.  A file one of whose streams failed is the only      *)
(* exception, and no stream fails for want of the directory unless making it *)
(* failed or was overtaken by a later request: makeDirectory is asked for    *)
(* before any file (generate.js:92, file_generators.js:72-133).              *)
THEOREM FilesAreMade == Spec => []EveryFileIsMade
BY GenerationIsSound, PromisesAreKept, PTL

----------------------------------------------------------------------------
(* The files of included objects.                                           *)

(* Is this a file of an included object that the parser made, and of none   *)
(* that the compiler makes anew?                                            *)
OnlyIncluded(f) == f.pass \notin Made /\ ~ \E g \in Wanted : g.pass \in Made /\ g.path = f.path

(* Nothing of this run has the path of such a file. *)
LEMMA IncludedPaths ==
  ASSUME Accepted(line), NEW f \in Files(TRUE), OnlyIncluded(f), run \in Nat,
         NEW path, NEW by, IsOurs(path, by)
  PROVE  path # f.path
<1>. SUFFICES ASSUME path = f.path PROVE FALSE
  OBVIOUS
<1>1. PICK p \in DOMAIN Extensions :
         \E o \in Objects(p, TRUE), e \in Extensions[p] :
            f = [path |-> o.name \o e, by |-> Author(p, o.name), pass |-> p]
  BY FilesOf
<1>2. PICK o \in Objects(p, TRUE), e \in Extensions[p] :
         f = [path |-> o.name \o e, by |-> Author(p, o.name), pass |-> p]
  BY <1>1
<1>3. f.path = o.name \o e /\ f.pass = p /\ p \notin Made
  BY <1>2 DEF OnlyIncluded
<1>4. IsFileName(o.name) /\ o.name # utilities_filename
  BY ObjectsAreParsed, NamesAreFileNames
<1>5. PICK i \in ToSet(indices(p)) : f.path = CFileFileName(p, o.name, i)
  <2>1. \A d \in Extensions[p] : \E i \in ToSet(indices(p)) :
          o.name \o d = CFileFileName(p, o.name, i)
    BY <1>4, ExtensionPaths
  <2>2. \E i \in ToSet(indices(p)) : o.name \o e = CFileFileName(p, o.name, i)
    BY <2>1
  <2>. QED BY <1>3, <2>2
<1>6. PICK q, name : /\ IsTarget(q, name)
                     /\ \E j \in ToSet(indices(q)) : path = CFileFileName(q, name, j)
  BY DEF IsOurs
<1>7. PICK j \in ToSet(indices(q)) : path = CFileFileName(q, name, j)
  BY <1>6
<1>8. IsFileName(name) /\ i \in 1 .. 3 /\ j \in 1 .. 3
  <2>1. q \in Generators /\ IsFileName(name) /\ ToSet(indices(q)) \subseteq 1 .. 3
    BY <1>6, RunFacts
  <2>2. indices(p) \in Seq(1 .. 3)
    BY <1>4, ExtensionPaths, IndexFacts
  <2>3. ToSet(indices(p)) \subseteq 1 .. 3
    BY <2>2, Members
  <2>. QED BY <2>1, <2>3
<1>9. o.name = name
  <2>1. CFileFileName(p, o.name, i) = CFileFileName(q, name, j)
    BY <1>5, <1>7
  <2>2. ASSUME NEW m, NEW n, IsFileName(m), IsFileName(n),
               CFileFileName(p, m, i) = CFileFileName(q, n, j)
        PROVE  m = n
    BY <1>8, <2>2, PathsDiffer
  <2>. QED BY <1>4, <1>8, <2>1, <2>2
<1>10. q \in Range(Passes) /\ q \notin Made
  <2>1. PICK g \in Wanted : g.path = path /\ g.pass = q
    BY <1>6, <1>7, TargetsAreWanted
  <2>2. q \notin Made
    BY <2>1 DEF OnlyIncluded
  <2>. QED BY <1>4, <1>6, <1>9, <2>2 DEF IsTarget
<1>11. PICK m \in AllObjects(line) :
          m.kind = object_type(q) /\ ~ m.dont_print_this_thing_out /\ m.name = name
  BY <1>4, <1>6, <1>9 DEF IsTarget, ToPrint
<1>. DEFINE x == compiled(Marked(o, TRUE))
<1>12. /\ x \in AllObjects(line) /\ x.kind = object_type(p) /\ x.name = o.name
       /\ x.dont_print_this_thing_out = (object_type(p) \notin Made /\ TRUE)
  BY CompiledOf
<1>. HIDE DEF x
<1>13. object_type(p) \notin Made /\ object_type(q) \notin Made
  <2>1. p \in Range(Passes)
    BY <1>4, ExtensionPaths
  <2>. QED BY <1>3, <1>10, <2>1, MadeFacts
<1>14. m = x
  BY <1>9, <1>11, <1>12, <1>13, RunFacts, SameObject
<1>. QED BY <1>11, <1>12, <1>13, <1>14

LEMMA StepKeepsIncludedFiles ==
  IInv /\ [Next]_vars =>
    ((pc \in {"script", "loop"}) =>
        \A f \in Files(TRUE) :
          OnlyIncluded(f) =>
            /\ f.path \in DOMAIN disk' <=> f.path \in DOMAIN disk
            /\ f.path \in DOMAIN disk => disk'[f.path] = disk[f.path])
<1>. SUFFICES ASSUME IInv, [Next]_vars, pc \in {"script", "loop"}, NEW f \in Files(TRUE),
                     OnlyIncluded(f)
              PROVE  /\ f.path \in DOMAIN disk' <=> f.path \in DOMAIN disk
                     /\ f.path \in DOMAIN disk => disk'[f.path] = disk[f.path]
  OBVIOUS
<1>1. QueueSound /\ Accepted(line) /\ run \in Nat
  BY RunsFacts DEF IInv, LineSound
<1>2. CASE Work
  <2>1. PICK k \in DOMAIN queue :
           \/ mkdir(queue[k], k) \/ open(queue[k], k) \/ openWithoutDirectory(queue[k], k)
           \/ write(queue[k], k) \/ failure(queue[k], k)
    BY <1>2 DEF Work
  <2>. DEFINE r == queue[k]
  <2>2. r = Mkdir \/ FileRequest(r)
    BY <1>1, Served
  <2>. HIDE DEF r
  <2>3. CASE disk' = disk
    BY <2>3
  <2>4. CASE open(r, k)
    <3>1. /\ r.op = "open"
          /\ disk' = [q \in DOMAIN disk \union {r.path} |-> IF q = r.path THEN {} ELSE disk[q]]
      BY <2>4 DEF open
    <3>2. IsOurs(r.path, r.by)
      BY <2>2, <3>1 DEF FileRequest, Mkdir
    <3>3. f.path # r.path
      BY <1>1, <3>2, IncludedPaths
    <3>. QED BY <3>1, <3>3
  <2>5. CASE write(r, k)
    <3>1. r.op = "write" /\ \E kept \in SUBSET disk[r.path] :
                                disk' = [disk EXCEPT ![r.path] = kept \union {r.by}]
      BY <2>5 DEF write
    <3>2. IsOurs(r.path, r.by)
      BY <2>2, <3>1 DEF FileRequest, Mkdir
    <3>3. f.path # r.path
      BY <1>1, <3>2, IncludedPaths
    <3>. QED BY <3>1, <3>3
  <2>. QED BY <2>1, <2>3, <2>4, <2>5 DEF mkdir, openWithoutDirectory, failure, Fail, r
<1>3. CASE ~Work
  <2>1. disk' = disk
    BY <1>3 DEF Next, Start, Reject, Parse, RejectFiles, MakeDirectory, generate_C_files,
                utilities, Exit, Interrupt, Edit, Done, vars, world
  <2>. QED BY <2>1
<1>. QED BY <1>2, <1>3

(* The files of the interfaces, dictionaries, enums and callbacks of an     *)
(* included .idl file, stubs and all, belong to another package or an       *)
(* earlier run and are never touched (generate.js:45, file_generators.js    *)
(* :74), unless a typedef or a union on the same line has the same name.    *)
THEOREM IncludedFilesSurvive == Spec => IncludedFilesAreKept
<1>1. Spec => []IInv
  BY GenerationIsSound
<1>2. Spec => [][Next]_vars
  BY DEF Spec
<1>. QED BY <1>1, <1>2, StepKeepsIncludedFiles, PTL DEF IncludedFilesAreKept, OnlyIncluded

----------------------------------------------------------------------------
(* The options.                                                             *)

Possible(flag) == {acceptable_inputs[flag][1], acceptable_inputs[flag][2]}

(* The possible values of a flag are two: booleans, or words that do not    *)
(* look like booleans, and "on" and "off" only for debug_printing.          *)
PossibleSound(flag) ==
  /\ Range(acceptable_inputs[flag]) = Possible(flag)
  /\ Possible(flag) \cap (IdlNames \cup Numerals \cup Numbers) = {}
  /\ "true" \notin Possible(flag) /\ "false" \notin Possible(flag)
  /\ \/ Possible(flag) \subseteq Booleans /\ flag # "debug_printing"
     \/ Possible(flag) \cap (Booleans \cup {"on", "off"}) = {} /\ flag # "debug_printing"
     \/ Possible(flag) = {"on", "off"} /\ flag = "debug_printing"

LEMMA PossibleValues ==
  ASSUME NEW flag \in DOMAIN acceptable_inputs
  PROVE  PossibleSound(flag)
<1>1. \A a, b : Range(<<a, b>>) = {a, b} /\ <<a, b>>[1] = a /\ <<a, b>>[2] = b
  BY DEF Range
<1>2. DOMAIN acceptable_inputs =
        {"fix_type_errors", "stubs", "debug_printing", "output_utility_files",
         "leave_enums_alone", "print_generation_message", "quiet", "arg_handling",
         "tied_to_jerryscript"}
  BY DEF acceptable_inputs
<1>3. Range(acceptable_inputs[flag]) \cap (IdlNames \cup Numerals \cup Numbers) = {}
  <2>1. Range(acceptable_inputs[flag]) \cap IdlNames = {}
    BY IdlNamesAssumption
  <2>2. Range(acceptable_inputs[flag]) \cap (Numerals \cup Numbers) = {}
    BY NumberAssumption
  <2>. QED BY <2>1, <2>2
<1>4. /\ acceptable_inputs["stubs"] = <<"preserve", "overwrite">>
      /\ acceptable_inputs["debug_printing"] = <<"off", "on">>
      /\ acceptable_inputs["arg_handling"] = <<"original", "new">>
      /\ \A f \in DOMAIN acceptable_inputs : f \notin {"stubs", "debug_printing", "arg_handling"} =>
           acceptable_inputs[f] = <<True, False>> \/ acceptable_inputs[f] = <<False, True>>
  BY DEF acceptable_inputs
<1>5. CASE flag = "stubs"
  <2>1. Range(acceptable_inputs[flag]) = Possible(flag) /\ Possible(flag) = {"preserve", "overwrite"}
    BY <1>1, <1>4, <1>5 DEF Possible
  <2>. QED BY <1>3, <1>5, <2>1 DEF PossibleSound, Booleans, True, False
<1>6. CASE flag = "debug_printing"
  <2>1. Range(acceptable_inputs[flag]) = Possible(flag) /\ Possible(flag) = {"off", "on"}
    BY <1>1, <1>4, <1>6 DEF Possible
  <2>. QED BY <1>3, <1>6, <2>1 DEF PossibleSound
<1>7. CASE flag = "arg_handling"
  <2>1. Range(acceptable_inputs[flag]) = Possible(flag) /\ Possible(flag) = {"original", "new"}
    BY <1>1, <1>4, <1>7 DEF Possible
  <2>. QED BY <1>3, <1>7, <2>1 DEF PossibleSound, Booleans, True, False
<1>8. CASE flag \notin {"stubs", "debug_printing", "arg_handling"}
  <2>1. acceptable_inputs[flag] = <<True, False>> \/ acceptable_inputs[flag] = <<False, True>>
    BY <1>4, <1>8
  <2>2. Range(acceptable_inputs[flag]) = Possible(flag) /\ Possible(flag) = {True, False}
    BY <1>1, <2>1 DEF Possible
  <2>. QED BY <1>3, <1>8, <2>2 DEF PossibleSound, Booleans, True, False
<1>. QED BY <1>5, <1>6, <1>7, <1>8

(* What option makes of the first value. *)
OptionOf(flag, first) ==
  LET b == CASE first = "true" -> True
             [] first = "false" -> False
             [] OTHER -> first
  IN  IF b \in Booleans /\ acceptable_inputs[flag][1] \notin Booleans
      THEN IF b = True THEN "on" ELSE "off"
      ELSE b

Meant(flag, first) ==
  IF first = True THEN On(flag) ELSE IF first = False THEN Off(flag) ELSE GivenValue(flag, first)

LEMMA OptionOfFacts ==
  ASSUME NEW flag \in DOMAIN acceptable_inputs, NEW first
  PROVE  /\ OptionOf(flag, first) \in Possible(flag) => OptionOf(flag, first) = Meant(flag, first)
         /\ first \in Possible(flag) => OptionOf(flag, first) = first
<1>. DEFINE d == acceptable_inputs[flag][1]
<1>1. PossibleSound(flag) /\ d \in Possible(flag)
  BY PossibleValues DEF Possible
<1>2. True # False /\ "true" # "false" /\ "true" \notin Booleans /\ "false" \notin Booleans
      /\ "on" \notin Booleans /\ "off" \notin Booleans
      /\ Booleans = {True, False}
  BY DEF Booleans, True, False
<1>3. OptionOf(flag, first) =
        LET b == IF first = "true" THEN True ELSE IF first = "false" THEN False ELSE first
        IN  IF b \in Booleans /\ d \notin Booleans
            THEN IF b = True THEN "on" ELSE "off"
            ELSE b
  BY DEF OptionOf
<1>. HIDE DEF d
<1>4. CASE Possible(flag) \subseteq Booleans /\ flag # "debug_printing"
  <2>1. d \in Booleans /\ On(flag) = True /\ Off(flag) = False
    BY <1>1, <1>4 DEF On, Off
  <2>. QED BY <1>2, <1>3, <1>4, <2>1 DEF Meant, GivenValue
<1>5. CASE Possible(flag) \cap (Booleans \cup {"on", "off"}) = {} /\ flag # "debug_printing"
  <2>1. d \notin Booleans /\ "true" \notin Possible(flag) /\ "false" \notin Possible(flag)
    BY <1>1, <1>5 DEF PossibleSound
  <2>. QED BY <1>2, <1>3, <1>5, <2>1 DEF Meant, GivenValue
<1>6. CASE Possible(flag) = {"on", "off"} /\ flag = "debug_printing"
  <2>1. d \notin Booleans /\ On(flag) = "on" /\ Off(flag) = "off"
        /\ "true" \notin Possible(flag) /\ "false" \notin Possible(flag)
    BY <1>1, <1>2, <1>6 DEF On, Off, PossibleSound
  <2>. QED BY <1>2, <1>3, <1>6, <2>1 DEF Meant, GivenValue
<1>. QED BY <1>1, <1>4, <1>5, <1>6 DEF PossibleSound

LEMMA NoNumberIsPossible ==
  ASSUME NEW flag \in DOMAIN acceptable_inputs, NEW first \in Numbers
  PROVE  OptionOf(flag, first) \notin Possible(flag)
<1>1. first \notin Booleans /\ first # "true" /\ first # "false"
  BY NumberAssumption
<1>2. OptionOf(flag, first) = first
  BY <1>1 DEF OptionOf
<1>. QED BY <1>2, PossibleValues DEF PossibleSound

LEMMA MeaningFacts ==
  ASSUME NEW l \in Seq(AnArgument), Plain(l), NEW flag, NEW i \in Gives(l, flag)
  PROVE  IF ValueAt(l, i) \in IdlNames
         THEN Meaning(l, i) = acceptable_inputs[flag][2]
         ELSE ValueAt(l, i) \notin Numbers => Meaning(l, i) = Meant(flag, ValueAt(l, i))
<1>1. /\ i \in 1 .. Len(l) /\ Len(l) \in Nat /\ DOMAIN l = 1 .. Len(l)
      /\ l[i].form \in {"value", "flag", "no"} /\ l[i].key = flag
  BY LineFacts DEF Gives
<1>2. \A k \in 1 .. Len(l) : l[k].value \notin Booleans
  BY <1>1 DEF Plain
<1>3. True \in Booleans /\ False \in Booleans /\ True # False /\ Booleans \cap IdlNames = {}
  BY IdlNamesAssumption DEF Booleans, True, False
<1>. DEFINE Said(value) ==
              IF IsIdl(value) THEN acceptable_inputs[flag][2] ELSE GivenValue(flag, value)
<1>4. Meaning(l, i) =
        IF l[i].form = "value" THEN Said(l[i].value)
        ELSE IF l[i].form = "no" THEN Off(flag)
        ELSE IF i = Len(l) \/ l[i + 1].form # "word" THEN On(flag)
        ELSE Said(l[i + 1].value)
  BY <1>1 DEF Meaning
<1>5. \A v : v \notin Booleans => Said(v) = IF v \in IdlNames THEN acceptable_inputs[flag][2]
                                            ELSE Meant(flag, v)
  BY <1>3 DEF IsIdl, Meant
<1>11. \A k \in 1 .. Len(l) : LET v == l[k].value
                             IN  /\ Converted(v) \in IdlNames <=> v \in IdlNames
                                 /\ Converted(v) = v \/ (Converted(v) \in Numbers /\ v \notin IdlNames)
  BY <1>1, LineFacts, ConvertedFacts
<1>6. Meant(flag, True) = On(flag) /\ Meant(flag, False) = Off(flag)
  BY <1>3 DEF Meant
<1>. HIDE DEF Said
<1>7. CASE l[i].form = "value"
  <2>. DEFINE v == l[i].value
  <2>1. ValueAt(l, i) = Converted(v) /\ Meaning(l, i) = Said(v) /\ v \notin Booleans
    BY <1>1, <1>2, <1>4, <1>7 DEF ValueAt
  <2>2. /\ Converted(v) \in IdlNames <=> v \in IdlNames
        /\ Converted(v) = v \/ (Converted(v) \in Numbers /\ v \notin IdlNames)
    BY <1>1, <1>11
  <2>. HIDE DEF v
  <2>. QED BY <1>5, <2>1, <2>2
<1>8. CASE l[i].form = "no"
  <2>1. ValueAt(l, i) = False
    BY <1>8 DEF ValueAt
  <2>2. Meaning(l, i) = Off(flag)
    BY <1>4, <1>8
  <2>3. False \notin IdlNames
    BY <1>3
  <2>. QED BY <1>6, <2>1, <2>2, <2>3
<1>9. CASE l[i].form = "flag" /\ TakesNext(l, i)
  <2>1. ValueAt(l, i) = Converted(l[i + 1].value) /\ i + 1 \in 1 .. Len(l) /\ i # Len(l) /\ l[i + 1].form = "word"
    <3>. DEFINE n == Len(l)
    <3>1. i < n
      BY <1>9 DEF TakesNext
    <3>2. l[i + 1].form = "word"
      BY <1>9 DEF TakesNext
    <3>3. i \in 1 .. n /\ n \in Nat
      BY <1>1
    <3>. HIDE DEF n
    <3>4. i + 1 \in 1 .. n /\ i # n
      BY <3>1, <3>3
    <3>5. ValueAt(l, i) = Converted(l[i + 1].value)
      BY <1>9 DEF ValueAt
    <3>. QED BY <3>2, <3>4, <3>5 DEF n
  <2>2. Meaning(l, i) = Said(l[i + 1].value)
    BY <1>4, <1>9, <2>1
  <2>3. l[i + 1].value \notin Booleans
    BY <1>2, <2>1
  <2>. DEFINE v == l[i + 1].value
  <2>4. ValueAt(l, i) = Converted(v) /\ Meaning(l, i) = Said(v) /\ v \notin Booleans
    BY <2>1, <2>2, <2>3
  <2>5. /\ Converted(v) \in IdlNames <=> v \in IdlNames
        /\ Converted(v) = v \/ (Converted(v) \in Numbers /\ v \notin IdlNames)
    BY <2>1, <1>11
  <2>. HIDE DEF v
  <2>. QED BY <1>5, <2>4, <2>5
<1>10. CASE l[i].form = "flag" /\ ~ TakesNext(l, i)
  <2>1. ValueAt(l, i) = True
    BY <1>10 DEF ValueAt
  <2>4. i = Len(l) \/ l[i + 1].form # "word"
    <3>. DEFINE n == Len(l)
    <3>2. i \in 1 .. n /\ n \in Nat
      BY <1>1
    <3>. HIDE DEF n
    <3>3. i < n \/ i = n
      BY <3>2
    <3>1. i < Len(l) \/ i = Len(l)
      BY <3>3 DEF n
    <3>. QED BY <1>10, <3>1 DEF TakesNext
  <2>2. Meaning(l, i) = On(flag)
    BY <1>4, <1>10, <2>4
  <2>3. True \notin IdlNames
    BY <1>3
  <2>. QED BY <1>6, <2>1, <2>2, <2>3
<1>. QED BY <1>1, <1>7, <1>8, <1>9, <1>10

LEMMA OptionIsOf ==
  ASSUME NEW l, NEW flag
  PROVE  option(l, flag) = OptionOf(flag, Head(values(l, flag)))
BY DEF option, OptionOf

LEMMA OptionMeaning ==
  ASSUME NEW l \in Seq(AnArgument), Plain(l), validate(l) = "none",
         NEW flag \in DOMAIN acceptable_inputs
  PROVE  IF Gives(l, flag) = {} THEN option(l, flag) = acceptable_inputs[flag][1]
         ELSE \E i \in Gives(l, flag) : option(l, flag) = Meaning(l, i)
<1>. DEFINE got   == argv(l, flag)
            kept  == Kept(got, Range(got) \ IdlNames)
            first == Head(values(l, flag))
<1>1. /\ got \in Seq(Text)
      /\ \A v \in ToSet(got) : \E i \in Gives(l, flag) : v = ValueAt(l, i)
      /\ got = << >> => Gives(l, flag) = {}
  <2>1. GivenSound(l, flag, got, Len(l))
    BY ArgvFacts
  <2>2. \A i \in Gives(l, flag) : i <= Len(l)
    BY LineFacts DEF Gives
  <2>. QED BY <2>1, <2>2 DEF GivenSound
<1>2. option(l, flag) = OptionOf(flag, first)
  BY OptionIsOf
<1>3. option(l, flag) \in Possible(flag)
  <2>1. \A k \in DOMAIN Flags : option(l, Flags[k]) \in Range(acceptable_inputs[Flags[k]])
    BY AcceptedFacts DEF found_an_error
  <2>2. option(l, flag) \in Range(acceptable_inputs[flag])
    BY <2>1, FlagsFacts
  <2>. QED BY <2>2, PossibleValues DEF PossibleSound
<1>4. /\ got = << >> => first = acceptable_inputs[flag][1]
      /\ got # << >> /\ kept = << >> => first = acceptable_inputs[flag][2]
      /\ got # << >> /\ kept # << >> => first = Head(kept)
  <2>1. /\ got = << >> => values(l, flag) = <<acceptable_inputs[flag][1]>>
        /\ got # << >> /\ kept = << >> => values(l, flag) = <<acceptable_inputs[flag][2]>>
        /\ got # << >> /\ kept # << >> => values(l, flag) = kept
    BY DEF values
  <2>. HIDE DEF got, kept
  <2>. QED BY <2>1
<1>5. kept \in Seq(Text) /\ ToSet(kept) = ToSet(got) \ IdlNames
  <2>1. Range(got) = ToSet(got)
    BY RangeIsToSet
  <2>. HIDE DEF got
  <2>2. kept \in Seq(Text) /\ ToSet(kept) = ToSet(got) \cap (Range(got) \ IdlNames)
    BY <1>1, KeptPlaces, MembersOfKept
  <2>. QED BY <2>1, <2>2
<1>6. acceptable_inputs[flag][1] \in Possible(flag) /\ acceptable_inputs[flag][2] \in Possible(flag)
  BY DEF Possible
<1>. HIDE DEF got, kept, first
<1>7. CASE got = << >>
  BY <1>1, <1>2, <1>4, <1>6, <1>7, OptionOfFacts
<1>8. CASE got # << >> /\ kept = << >>
  <2>1. option(l, flag) = acceptable_inputs[flag][2]
    BY <1>2, <1>4, <1>6, <1>8, OptionOfFacts
  <2>2. got[1] \in ToSet(got)
    BY <1>1, <1>8, Members, EmptySeq
  <2>3. ToSet(kept) = {}
    BY <1>8, EmptyQueue
  <2>4. got[1] \in IdlNames
    BY <1>5, <2>2, <2>3
  <2>5. PICK i \in Gives(l, flag) : got[1] = ValueAt(l, i)
    BY <1>1, <2>2
  <2>. QED BY <2>1, <2>4, <2>5, MeaningFacts
<1>9. CASE got # << >> /\ kept # << >>
  <2>1. first = kept[1] /\ kept[1] \in ToSet(kept)
    <3>1. first = Head(kept)
      BY <1>4, <1>9
    <3>2. Head(kept) = kept[1] /\ 1 \in 1 .. Len(kept)
      BY <1>5, <1>9, HeadTailProperties, EmptySeq
    <3>. QED BY <1>5, <3>1, <3>2, Members
  <2>2. first \in ToSet(got) /\ first \notin IdlNames
    BY <1>5, <2>1
  <2>3. PICK i \in Gives(l, flag) : first = ValueAt(l, i)
    BY <1>1, <2>2
  <2>4. option(l, flag) = Meant(flag, first) /\ first \notin Numbers
    BY <1>2, <1>3, OptionOfFacts, NoNumberIsPossible
  <2>5. option(l, flag) = Meaning(l, i)
    BY <2>2, <2>3, <2>4, MeaningFacts
  <2>. QED BY <2>5
<1>. QED BY <1>7, <1>8, <1>9

(* A key that is given once, and no boolean, has what it was given. *)
LEMMA ArgvOnce ==
  ASSUME NEW l \in Seq(AnArgument), NEW key, NEW i \in Gives(l, key),
         \A j \in Gives(l, key) : j = i
  PROVE  argv(l, key) = <<ValueAt(l, i)>>
<1>. DEFINE n == Len(l)
            v == ValueAt(l, i)
<1>1. n \in Nat /\ i \in 1 .. n /\ v \in Text
  BY LineFacts DEF Gives
<1>2. PICK given : /\ given[0] = << >>
                   /\ \A j \in 1 .. Len(l) : given[j] = GivenStep(l, key, given[j - 1], j)
                   /\ argv(l, key) = given[Len(l)]
  BY ArgvIsLast
<1>3. setKey(<< >>, v) = <<v>>
  <2>1. Len(<< >>) # 1 /\ Append(<< >>, v) = <<v>>
    OBVIOUS
  <2>. QED BY <2>1 DEF setKey
<1>4. \A j \in 1 .. n : (l[j].form # "word" /\ l[j].key = key) <=> j = i
  BY <1>1 DEF Gives
<1>5. \A j \in 1 .. n : given[j] = IF j = i THEN setKey(given[j - 1], v) ELSE given[j - 1]
  BY <1>2, <1>4 DEF GivenStep
<1>. DEFINE T == {m \in Nat : m <= n => given[m] = IF m < i THEN << >> ELSE <<v>>}
<1>. HIDE DEF n, v
<1>6. 0 \in T
  BY <1>1, <1>2
<1>7. ASSUME NEW m \in Nat, m \in T
      PROVE  m + 1 \in T
  <2>. SUFFICES ASSUME m + 1 <= n
                PROVE  given[m + 1] = IF m + 1 < i THEN << >> ELSE <<v>>
    OBVIOUS
  <2>1. m + 1 \in 1 .. n /\ (m + 1) - 1 = m /\ m <= n
    BY <1>1
  <2>2. given[m] = IF m < i THEN << >> ELSE <<v>>
    BY <1>7, <2>1
  <2>3. given[m + 1] = IF m + 1 = i THEN setKey(given[m], v) ELSE given[m]
    BY <1>5, <2>1
  <2>4. CASE m + 1 = i
    <3>1. m < i /\ ~ (m + 1 < i)
      BY <1>1, <2>4
    <3>. QED BY <1>3, <2>2, <2>3, <2>4, <3>1
  <2>5. CASE m + 1 # i
    <3>1. m + 1 < i <=> m < i
      BY <1>1, <2>5
    <3>. QED BY <2>2, <2>3, <2>5, <3>1
  <2>. QED BY <2>4, <2>5
<1>8. n \in T
  <2>. HIDE DEF T
  <2>. QED BY <1>1, <1>6, <1>7, Induction
<1>9. ~ (n < i)
  BY <1>1
<1>10. given[n] = <<v>>
  BY <1>1, <1>8, <1>9
<1>. QED BY <1>2, <1>10 DEF n, v

LEMMA OptionOfGiven ==
  ASSUME NEW flag \in DOMAIN acceptable_inputs, NEW v, v \notin Booleans,
         GivenValue(flag, v) \in Possible(flag)
  PROVE  OptionOf(flag, v) \in Possible(flag) /\ v \notin IdlNames /\ v \notin Numerals
<1>. DEFINE d == acceptable_inputs[flag][1]
<1>1. PossibleSound(flag) /\ d \in Possible(flag)
  BY PossibleValues DEF Possible
<1>2. True # False /\ "true" # "false" /\ "on" \notin Booleans /\ "off" \notin Booleans
      /\ Booleans = {True, False}
  BY DEF Booleans, True, False
<1>3. OptionOf(flag, v) =
        LET b == IF v = "true" THEN True ELSE IF v = "false" THEN False ELSE v
        IN  IF b \in Booleans /\ d \notin Booleans
            THEN IF b = True THEN "on" ELSE "off"
            ELSE b
  BY DEF OptionOf
<1>. HIDE DEF d
<1>4. v \notin IdlNames /\ v \notin Numerals
  <2>1. /\ "true" \notin IdlNames /\ "false" \notin IdlNames
        /\ "true" \notin Numerals /\ "false" \notin Numerals
    BY IdlNamesAssumption, NumberAssumption
  <2>2. Possible(flag) \cap (IdlNames \cup Numerals) = {}
    BY <1>1 DEF PossibleSound
  <2>. QED BY <2>1, <2>2 DEF GivenValue
<1>5. CASE Possible(flag) \subseteq Booleans /\ flag # "debug_printing"
  <2>1. d \in Booleans /\ On(flag) = True /\ Off(flag) = False
    BY <1>1, <1>5 DEF On, Off
  <2>. QED BY <1>2, <1>3, <1>4, <1>5, <2>1 DEF GivenValue
<1>6. CASE Possible(flag) \cap (Booleans \cup {"on", "off"}) = {} /\ flag # "debug_printing"
  <2>1. On(flag) = True /\ Off(flag) = False
    BY <1>6 DEF On, Off
  <2>2. v # "true" /\ v # "false" /\ GivenValue(flag, v) = v
    BY <1>2, <1>6, <2>1 DEF GivenValue
  <2>. QED BY <1>3, <1>4, <2>2
<1>7. CASE Possible(flag) = {"on", "off"} /\ flag = "debug_printing"
  <2>1. d \notin Booleans /\ On(flag) = "on" /\ Off(flag) = "off"
    BY <1>1, <1>2, <1>7 DEF On, Off
  <2>. QED BY <1>2, <1>3, <1>4, <1>7, <2>1 DEF GivenValue
<1>. QED BY <1>1, <1>5, <1>6, <1>7 DEF PossibleSound

(* What the arguments of a documented line are. *)
LEMMA DocumentedArguments ==
  ASSUME NEW l \in Seq(AnArgument), Plain(l), Documented(l)
  PROVE  /\ \A i \in 1 .. Len(l) :
              \/ l[i].form = "word" /\ l[i].value \in IdlNames /\ i \in WordPlaces(l)
              \/ /\ l[i].form = "value" /\ ValueAt(l, i) = l[i].value
                 /\ l[i].value \notin Booleans \cup Numbers
                 /\ argv(l, l[i].key) = <<l[i].value>>
                 /\ \/ l[i].key = "package" /\ l[i].value \notin IdlNames
                    \/ l[i].key = "include" /\ l[i].value \in IdlNames
                    \/ /\ l[i].key \in DOMAIN acceptable_inputs
                       /\ GivenValue(l[i].key, l[i].value) \in Range(acceptable_inputs[l[i].key])
         /\ \E i \in 1 .. Len(l) : l[i].form = "word"
         /\ \E i \in 1 .. Len(l) : l[i].form = "value" /\ l[i].key = "package" /\ l[i].value # ""
<1>1. /\ Len(l) \in Nat /\ DOMAIN l = 1 .. Len(l)
      /\ \A i \in 1 .. Len(l) : /\ l[i].value \notin Booleans \cup Numbers
                                /\ l[i].form = "word" => l[i].key = ""
  BY LineFacts DEF Plain
<1>2. /\ \E i \in 1 .. Len(l) : l[i].form = "word"
      /\ \E i \in 1 .. Len(l) : l[i].key = "package" /\ l[i].value # ""
      /\ \A i \in 1 .. Len(l) :
           \/ l[i].form = "word" /\ l[i].value \in IdlNames
           \/ /\ l[i].form = "value"
              /\ \A j \in 1 .. Len(l) : l[j].key = l[i].key => j = i
              /\ \/ l[i].key = "package" /\ l[i].value \notin IdlNames /\ l[i].value \notin Numerals
                 \/ l[i].key = "include" /\ l[i].value \in IdlNames
                 \/ /\ l[i].key \in DOMAIN acceptable_inputs
                    /\ GivenValue(l[i].key, l[i].value) \in Range(acceptable_inputs[l[i].key])
  BY <1>1 DEF Documented, IsIdl
<1>3. ASSUME NEW i \in 1 .. Len(l), l[i].form = "word"
      PROVE  l[i].value \in IdlNames /\ i \in WordPlaces(l)
  <2>1. l[i].value \in IdlNames
    BY <1>2, <1>3
  <2>2. ~ (i > 1 /\ TakesNext(l, i - 1))
    <3>. SUFFICES ASSUME i > 1, l[i - 1].form = "flag" PROVE FALSE
      BY DEF TakesNext
    <3>. DEFINE n == Len(l)
    <3>2. i \in 1 .. n /\ n \in Nat
      BY <1>1
    <3>. HIDE DEF n
    <3>3. i - 1 \in 1 .. n
      BY <3>2
    <3>1. i - 1 \in 1 .. Len(l)
      BY <3>3 DEF n
    <3>. QED BY <1>2, <3>1
  <2>. QED BY <1>1, <1>3, <2>1, <2>2 DEF WordPlaces
<1>4. ASSUME NEW i \in 1 .. Len(l), l[i].form = "value"
      PROVE  ValueAt(l, i) = l[i].value /\ argv(l, l[i].key) = <<l[i].value>>
  <2>1. ValueAt(l, i) = l[i].value
    <3>. DEFINE v == l[i].value
    <3>1. ValueAt(l, i) = Converted(v) /\ v \notin Booleans
      BY <1>1, <1>4 DEF ValueAt
    <3>2. CASE v \in IdlNames
      <4>1. v \notin Numerals
        BY <3>2, NumberAssumption
      <4>. QED BY <3>1, <4>1 DEF Converted
    <3>3. CASE /\ l[i].key \in DOMAIN acceptable_inputs
               /\ GivenValue(l[i].key, v) \in Range(acceptable_inputs[l[i].key])
      <4>1. v \notin Numerals
        BY <3>1, <3>3, PossibleValues, OptionOfGiven DEF PossibleSound
      <4>. QED BY <3>1, <4>1 DEF Converted
    <3>4. CASE v \notin Numerals
      BY <3>1, <3>4 DEF Converted
    <3>. QED BY <1>2, <1>4, <3>2, <3>3, <3>4
  <2>2. i \in Gives(l, l[i].key)
    BY <1>4 DEF Gives
  <2>3. \A j \in Gives(l, l[i].key) : j = i
    BY <1>2, <1>4 DEF Gives
  <2>. QED BY <2>1, <2>2, <2>3, ArgvOnce
<1>5. \E i \in 1 .. Len(l) : l[i].form = "value" /\ l[i].key = "package" /\ l[i].value # ""
  <2>1. PICK i \in 1 .. Len(l) : l[i].key = "package" /\ l[i].value # ""
    BY <1>2
  <2>2. l[i].form # "word"
    BY <1>1, <2>1
  <2>. QED BY <1>2, <2>1, <2>2
<1>. QED BY <1>1, <1>2, <1>3, <1>4, <1>5

LEMMA ArgvOfNone ==
  ASSUME NEW l \in Seq(AnArgument), NEW key, Gives(l, key) = {}
  PROVE  argv(l, key) = << >>
<1>1. /\ argv(l, key) \in Seq(Text)
      /\ \A v \in ToSet(argv(l, key)) : \E i \in Gives(l, key) : v = ValueAt(l, i)
  BY ArgvFacts DEF GivenSound
<1>2. ToSet(argv(l, key)) = {}
  BY <1>1
<1>. HIDE DEF argv
<1>3. argv(l, key) # << >> => argv(l, key)[1] \in ToSet(argv(l, key))
  BY <1>1, Members, EmptySeq
<1>. QED BY <1>2, <1>3

LEMMA OneValue ==
  ASSUME NEW v
  PROVE  /\ <<v>> \in Seq({v}) /\ Len(<<v>>) = 1 /\ DOMAIN <<v>> = {1} /\ <<v>>[1] = v
         /\ Head(<<v>>) = v /\ ToSet(<<v>>) = {v} /\ Range(<<v>>) = {v} /\ <<v>> # << >>
BY DEF ToSet, Range

(* No flag of a documented line has a wrong value. *)
LEMMA DocumentedFlags ==
  ASSUME NEW l \in Seq(AnArgument), Plain(l), Documented(l), NEW flag \in DOMAIN acceptable_inputs,
         flag \notin {"include", "help", "package"}
  PROVE  ~ Inconsistent(l, flag) /\ option(l, flag) \in Range(acceptable_inputs[flag])
<1>. DEFINE got  == argv(l, flag)
            kept == Kept(got, Range(got) \ IdlNames)
            all  == values(l, flag)
<1>1. option(l, flag) = OptionOf(flag, Head(all))
  BY OptionIsOf
<1>2. PossibleSound(flag) /\ acceptable_inputs[flag][1] \in Possible(flag)
  BY PossibleValues DEF Possible
<1>3. Inconsistent(l, flag) => \E j \in DOMAIN all : Head(all) # all[j]
  BY DEF Inconsistent, equal_values
<1>4. CASE Gives(l, flag) = {}
  <2>1. got = << >>
    BY <1>4, ArgvOfNone
  <2>2. all = <<acceptable_inputs[flag][1]>>
    BY <2>1 DEF values
  <2>3. Head(all) = acceptable_inputs[flag][1] /\ \A j \in DOMAIN all : all[j] = Head(all)
    BY <2>2, OneValue
  <2>4. option(l, flag) \in Possible(flag)
    BY <1>1, <1>2, <2>3, OptionOfFacts
  <2>. QED BY <1>2, <1>3, <2>3, <2>4 DEF PossibleSound
<1>5. CASE Gives(l, flag) # {}
  <2>1. PICK i \in 1 .. Len(l) : l[i].form # "word" /\ l[i].key = flag
    BY <1>5 DEF Gives
  <2>. DEFINE v == l[i].value
  <2>2. /\ v \notin Booleans /\ got = <<v>>
        /\ GivenValue(flag, v) \in Range(acceptable_inputs[flag])
    BY <2>1, DocumentedArguments
  <2>3. GivenValue(flag, v) \in Possible(flag)
    BY <1>2, <2>2 DEF PossibleSound
  <2>. HIDE DEF v
  <2>4. OptionOf(flag, v) \in Possible(flag) /\ v \notin IdlNames
    BY <2>2, <2>3, OptionOfGiven
  <2>5. got \in Seq({v}) /\ ToSet(got) = {v} /\ Range(got) = {v} /\ got # << >>
    BY <2>2, OneValue
  <2>. HIDE DEF got
  <2>6. kept \in Seq({v}) /\ ToSet(kept) = ToSet(got) \cap (Range(got) \ IdlNames)
    BY <2>5, KeptPlaces, MembersOfKept
  <2>7. ToSet(kept) = {v}
    BY <2>4, <2>5, <2>6
  <2>8. all = kept
    <3>1. kept # << >>
      BY <2>7, EmptyQueue
    <3>2. all = IF got = << >> THEN <<acceptable_inputs[flag][1]>>
                ELSE IF kept = << >> THEN <<acceptable_inputs[flag][2]>> ELSE kept
      BY DEF values, got
    <3>. QED BY <2>5, <3>1, <3>2
  <2>. HIDE DEF kept, all
  <2>9. Head(all) = v /\ \A j \in DOMAIN all : all[j] = v
    <3>1. all \in Seq({v}) /\ all # << >>
      BY <2>6, <2>7, <2>8, EmptyQueue
    <3>2. DOMAIN all = 1 .. Len(all) /\ \A j \in 1 .. Len(all) : all[j] = v
      BY <3>1, Members
    <3>3. Head(all) = all[1] /\ 1 \in 1 .. Len(all)
      BY <3>1, HeadTailProperties, EmptySeq
    <3>. QED BY <3>2, <3>3
  <2>10. option(l, flag) \in Possible(flag)
    BY <1>1, <2>4, <2>9
  <2>. QED BY <1>2, <1>3, <2>9, <2>10 DEF PossibleSound
<1>. QED BY <1>4, <1>5

LEMMA DocumentedIsAccepted ==
  ASSUME NEW l \in Seq(AnArgument), Plain(l), Documented(l)
  PROVE  validate(l) = "none"
<1>. DEFINE package == argv(l, "package")
            help    == argv(l, "help")
<1>1. /\ \A f \in DOMAIN acceptable_inputs : f \notin {"include", "help", "package"}
      /\ \A k \in DOMAIN Flags : Flags[k] \in DOMAIN acceptable_inputs
  BY FlagsFacts
<1>2. \A i \in 1 .. Len(l) : l[i].form # "word" =>
         /\ l[i].form = "value" /\ ValueAt(l, i) = l[i].value
               /\ l[i].value \notin Booleans \cup Numbers
         /\ argv(l, l[i].key) = <<l[i].value>>
         /\ l[i].key \in KnownKeys /\ l[i].key # "help"
         /\ l[i].key = "package" => l[i].value \notin IdlNames
         /\ l[i].key = "include" => l[i].value \in IdlNames
  <2>1. ASSUME NEW i \in 1 .. Len(l), l[i].form # "word"
        PROVE  /\ l[i].form = "value" /\ ValueAt(l, i) = l[i].value
               /\ l[i].value \notin Booleans \cup Numbers
               /\ argv(l, l[i].key) = <<l[i].value>>
               /\ \/ l[i].key = "package" /\ l[i].value \notin IdlNames
                  \/ l[i].key = "include" /\ l[i].value \in IdlNames
                  \/ l[i].key \in DOMAIN acceptable_inputs
    BY <2>1, DocumentedArguments
  <2>. QED BY <1>1, <2>1 DEF KnownKeys
<1>3. help = << >>
  <2>1. Gives(l, "help") = {}
    BY <1>2 DEF Gives
  <2>. QED BY <2>1, ArgvOfNone
<1>4. /\ package # << >> /\ package # <<"">> /\ ~ (Len(package) > 1)
      /\ package[1] \notin Booleans \cup Numbers /\ package[1] \notin IdlNames
  <2>1. PICK i \in 1 .. Len(l) : l[i].form = "value" /\ l[i].key = "package" /\ l[i].value # ""
    BY DocumentedArguments
  <2>. DEFINE v == l[i].value
  <2>2. package = <<v>> /\ v \notin Booleans \cup Numbers /\ v \notin IdlNames /\ v # ""
    BY <1>2, <2>1
  <2>. HIDE DEF v, package
  <2>3. package # << >> /\ Len(package) = 1 /\ package[1] = v /\ <<"">>[1] = ""
    BY <2>2, OneValue
  <2>4. package # <<"">>
    BY <2>2, <2>3
  <2>5. ~ (Len(package) > 1)
    BY <2>3
  <2>6. package[1] \notin Booleans \cup Numbers /\ package[1] \notin IdlNames
    BY <2>2, <2>3
  <2>. QED BY <2>3, <2>4, <2>5, <2>6
<1>5. /\ files(l) # << >> /\ \A v \in Range(files(l)) : v \in IdlNames
  <2>1. PICK i \in 1 .. Len(l) : l[i].form = "word"
    BY DocumentedArguments
  <2>2. i \in WordPlaces(l)
    BY <2>1, DocumentedArguments
  <2>3. Converted(l[i].value) \in ToSet(files(l))
    BY <2>2, FilesFacts
  <2>4. files(l) # << >>
    BY <2>3, EmptyQueue
  <2>5. \A j \in WordPlaces(l) : j \in 1 .. Len(l) /\ l[j].form = "word"
    BY LineFacts DEF WordPlaces
  <2>6. \A j \in WordPlaces(l) : Converted(l[j].value) \in IdlNames
    <3>1. \A j \in WordPlaces(l) : l[j].value \in IdlNames /\ l[j].value \in Text
      BY <2>5, DocumentedArguments, LineFacts
    <3>. QED BY <3>1, ConvertedFacts
  <2>7. \A v \in ToSet(files(l)) : v \in IdlNames
    BY <2>6, FilesFacts
  <2>. QED BY <2>4, <2>7, RangeIsToSet
<1>6. \A v \in Range(include_files(l)) : v \in IdlNames /\ v \notin Booleans
  <2>1. \A v \in ToSet(argv(l, "include")) : \E i \in Gives(l, "include") : v = ValueAt(l, i)
    BY ArgvFacts DEF GivenSound
  <2>2. \A v \in ToSet(argv(l, "include")) : v \in IdlNames /\ v \notin Booleans
    BY <1>2, <2>1 DEF Gives
  <2>3. include_files(l) = argv(l, "include") \/ include_files(l) = << >>
    BY DEF include_files
  <2>4. ToSet(<< >>) = {}
    BY EmptyQueue
  <2>. QED BY <2>2, <2>3, <2>4, RangeIsToSet
<1>7. ~ found_an_error(l)
  <2>1. \A k \in DOMAIN Flags :
           ~ (\/ Inconsistent(l, Flags[k])
              \/ option(l, Flags[k]) \notin Range(acceptable_inputs[Flags[k]]))
    BY <1>1, DocumentedFlags
  <2>2. \A name \in Range(files(l)) \cup Range(include_files(l)) : IsIdl(name)
    BY <1>5, <1>6 DEF IsIdl
  <2>3. ~ IsIdl(argv(l, "package")[1])
    BY <1>4 DEF IsIdl
  <2>4. ~ (\E i \in DOMAIN l : l[i].form # "word" /\ l[i].key \notin KnownKeys)
    BY <1>2, LineFacts
  <2>. QED BY <1>3, <2>1, <2>2, <2>3, <2>4 DEF found_an_error
<1>8. ~ (Len(help) = 1 /\ help[1] \in {True, "true"})
  BY <1>3
<1>9. Range(files(l)) \cap Numbers = {} /\ Range(include_files(l)) \cap (Booleans \cup Numbers) = {}
  BY <1>5, <1>6, NumberAssumption
<1>. HIDE DEF package, help
<1>10. validate(l) =
         CASE Len(help) = 1 /\ help[1] \in {True, "true"} -> "need_help"
           [] package = << >> /\ files(l) = << >> -> "neither_package_nor_files_given"
           [] package \in {<< >>, <<"">>} -> "no_package_name_given"
           [] files(l) = << >> -> "no_filenames_given"
           [] \/ Len(package) > 1 \/ package[1] \in Booleans \cup Numbers
              \/ Range(files(l)) \cap Numbers # {}
              \/ Range(include_files(l)) \cap (Booleans \cup Numbers) # {} -> "TypeError"
           [] found_an_error(l) -> "incorrect_parameter_value"
           [] OTHER -> "none"
  BY DEF validate, package, help
<1>. QED BY <1>4, <1>5, <1>7, <1>8, <1>9, <1>10

LEMMA OptionsAreSound == IInv => OptionsAreAsGiven
<1>. SUFFICES ASSUME IInv PROVE OptionsAreAsGiven
  OBVIOUS
<1>1. LineSound
  BY DEF IInv
<1>2. pc \in {"parsing", "rejecting"} => line \in Seq(AnArgument) /\ Plain(line)
  BY <1>1 DEF LineSound
<1>3. ASSUME pc = "parsing", NEW flag \in Range(Flags)
      PROVE  LET given == {i \in DOMAIN line : line[i].form # "word" /\ line[i].key = flag}
             IN  option(line, flag) \in
                   IF given = {} THEN {acceptable_inputs[flag][1]}
                   ELSE {Meaning(line, i) : i \in given}
  <2>1. line \in Seq(AnArgument) /\ Plain(line) /\ validate(line) = "none"
    BY <1>1, <1>2, <1>3 DEF LineSound
  <2>2. flag \in DOMAIN acceptable_inputs
    BY FlagsFacts DEF Range
  <2>3. IF Gives(line, flag) = {} THEN option(line, flag) = acceptable_inputs[flag][1]
        ELSE \E i \in Gives(line, flag) : option(line, flag) = Meaning(line, i)
    BY <2>1, <2>2, OptionMeaning
  <2>4. {i \in DOMAIN line : line[i].form # "word" /\ line[i].key = flag} = Gives(line, flag)
    BY <2>1, LineFacts DEF Gives
  <2>. QED BY <2>3, <2>4
<1>4. ASSUME pc = "rejecting"
      PROVE  ~ Documented(line)
  BY <1>1, <1>2, <1>4, DocumentedIsAccepted DEF LineSound
<1>. QED BY <1>3, <1>4 DEF OptionsAreAsGiven

(* An accepted run has for every flag the default or what one of the        *)
(* arguments with that flag means, and the command lines of the usage       *)
(* message are accepted (parameters.js:70-181, 223-248, 257-350).           *)
THEOREM OptionsFollowTheLine == Spec => []OptionsAreAsGiven
BY GenerationIsSound, OptionsAreSound, PTL

----------------------------------------------------------------------------
(* How often an .idl file is compiled.                                      *)

(* A boolean that is replaced is no file. *)
LEMMA FilesOfSetKey ==
  ASSUME NEW given \in Seq(Text), NEW v \in Text
  PROVE  Kept(setKey(given, v), IdlNames)
           = IF v \in IdlNames THEN Append(Kept(given, IdlNames), v) ELSE Kept(given, IdlNames)
<1>1. CASE Len(given) = 1 /\ given[1] \in Booleans
  <2>1. given[1] \in Text /\ << >> \in Seq(Text)
    BY <1>1 DEF Text
  <2>2. given = Append(<< >>, given[1])
    <3>1. << given[1] >> \in Seq(Text) /\ Len(<< given[1] >>) = 1
      BY <2>1
    <3>2. given = << given[1] >>
      BY <1>1, <3>1, SeqEqual
    <3>. QED BY <3>2
  <2>3. << v >> = Append(<< >>, v)
    OBVIOUS
  <2>4. given[1] \notin IdlNames
    BY <1>1, IdlNamesAssumption
  <2>5. Kept(given, IdlNames) = Kept(<< >>, IdlNames)
    <3>. DEFINE b == given[1]
    <3>1. b \in Text /\ << >> \in Seq(Text) /\ b \notin IdlNames /\ given = Append(<< >>, b)
      BY <2>1, <2>2, <2>4
    <3>. HIDE DEF b
    <3>2. Kept(Append(<< >>, b), IdlNames)
            = IF b \in IdlNames THEN Append(Kept(<< >>, IdlNames), b) ELSE Kept(<< >>, IdlNames)
      BY <3>1, KeptOfAppend
    <3>. QED BY <3>1, <3>2
  <2>6. Kept(Append(<< >>, v), IdlNames)
          = IF v \in IdlNames THEN Append(Kept(<< >>, IdlNames), v) ELSE Kept(<< >>, IdlNames)
    BY <2>1, KeptOfAppend
  <2>7. setKey(given, v) = << v >>
    BY <1>1 DEF setKey
  <2>. QED BY <2>3, <2>5, <2>6, <2>7
<1>2. CASE ~ (Len(given) = 1 /\ given[1] \in Booleans)
  <2>1. setKey(given, v) = Append(given, v)
    BY <1>2 DEF setKey
  <2>. QED BY <2>1, KeptOfAppend
<1>. QED BY <1>1, <1>2

(* The arguments that give a key a file. *)
GivesFile(l, key, name) == {i \in Gives(l, key) : ValueAt(l, i) = name}

LEMMA GivenFilesCounted ==
  ASSUME NEW l \in Seq(AnArgument), NEW key, NEW name \in IdlNames
  PROVE  Counted(Kept(argv(l, key), IdlNames), name, GivesFile(l, key, name))
<1>. DEFINE n == Len(l)
            Upto(m) == {i \in GivesFile(l, key, name) : i <= m}
            Good(got, m) == got \in Seq(Text) /\ Counted(Kept(got, IdlNames), name, Upto(m))
<1>1. n \in Nat /\ \A i \in 1 .. n : ValueAt(l, i) \in Text
  BY LineFacts
<1>2. PICK given : /\ given[0] = << >>
                   /\ \A i \in 1 .. n : given[i] = GivenStep(l, key, given[i - 1], i)
                   /\ argv(l, key) = given[n]
  BY ArgvIsLast
<1>. HIDE DEF n
<1>3. Good(given[0], 0)
  <2>1. Upto(0) = {}
    BY DEF GivesFile, Gives
  <2>2. Kept(<< >>, IdlNames) = << >>
    <3>1. Len(<< >>) = 0 /\ Len(<< >>) \in Nat
      OBVIOUS
    <3>2. PICK kept : KeptFrom(kept, << >>, IdlNames, 0) /\ Kept(<< >>, IdlNames) = kept[0]
      BY <3>1, KeptIsLast
    <3>. QED BY <3>2, KeptSteps
  <2>3. << >> \in Seq(Text)
    BY EmptySeq
  <2>. HIDE DEF Upto
  <2>. QED BY <1>2, <2>1, <2>2, <2>3, CountedEmpty
<1>4. ASSUME NEW m \in Nat, m + 1 <= n, Good(given[m], m)
      PROVE  Good(given[m + 1], m + 1)
  <2>. DEFINE i == m + 1
              v == ValueAt(l, i)
  <2>1. i \in 1 .. n /\ i - 1 = m /\ ~ (i <= m)
        /\ \A k \in 1 .. n : k <= i <=> k <= m \/ k = i
    BY <1>1, <1>4
  <2>2. given[i] = GivenStep(l, key, given[m], i)
    BY <1>2, <2>1
  <2>3. given[m] \in Seq(Text) /\ Counted(Kept(given[m], IdlNames), name, Upto(m)) /\ v \in Text
    BY <1>1, <1>4, <2>1
  <2>4. \A k \in GivesFile(l, key, name) : k \in 1 .. n
    BY DEF GivesFile, Gives, n
  <2>5. i \in GivesFile(l, key, name) => Upto(i) = Upto(m) \cup {i}
    BY <2>1, <2>4
  <2>6. i \notin GivesFile(l, key, name) => Upto(i) = Upto(m)
    BY <2>1, <2>4
  <2>7. i \notin Upto(m)
    BY <2>1
  <2>8. i \in GivesFile(l, key, name) <=> l[i].form # "word" /\ l[i].key = key /\ v = name
    BY <2>1 DEF GivesFile, Gives, n
  <2>. HIDE DEF Upto, i, v
  <2>9. CASE l[i].form # "word" /\ l[i].key = key
    <3>1. given[i] = setKey(given[m], v)
      BY <2>2, <2>9 DEF GivenStep, v
    <3>2. given[i] \in Seq(Text)
      BY <2>3, <3>1, SetKeyType
    <3>3. Kept(given[m], IdlNames) \in Seq(Text)
      BY <2>3, KeptPlaces
    <3>. DEFINE kept == Kept(given[m], IdlNames)
                U    == Upto(m)
    <3>4. Kept(given[i], IdlNames) = IF v \in IdlNames THEN Append(kept, v) ELSE kept
      BY <2>3, <3>1, FilesOfSetKey
    <3>. HIDE DEF kept, U
    <3>5. kept \in Seq(Text) /\ Counted(kept, name, U) /\ i \notin U
      BY <2>3, <2>7, <3>3 DEF kept, U
    <3>6. /\ v = name => Counted(Append(kept, v), name, U \cup {i})
          /\ v # name => Counted(Append(kept, v), name, U)
      BY <2>3, <3>5, CountedAppend
    <3>7. Counted(Kept(given[i], IdlNames), name, Upto(i))
      <4>1. CASE v = name
        BY <2>5, <2>8, <2>9, <3>4, <3>6, <4>1 DEF U
      <4>2. CASE v # name
        <5>1. Upto(i) = U
          BY <2>6, <2>8, <4>2 DEF U
        <5>2. Kept(given[i], IdlNames) = Append(kept, v) \/ Kept(given[i], IdlNames) = kept
          BY <3>4
        <5>. QED BY <3>5, <3>6, <4>2, <5>1, <5>2
      <4>. QED BY <4>1, <4>2
    <3>. QED BY <3>2, <3>7 DEF i
  <2>10. CASE ~ (l[i].form # "word" /\ l[i].key = key)
    <3>1. given[i] = given[m] /\ Upto(i) = Upto(m)
      BY <2>2, <2>6, <2>8, <2>10 DEF GivenStep
    <3>. QED BY <2>3, <3>1 DEF i
  <2>. QED BY <2>9, <2>10
<1>. DEFINE T == {m \in Nat : m <= n => Good(given[m], m)}
<1>. HIDE DEF Good
<1>5. 0 \in T
  BY <1>3
<1>6. ASSUME NEW m \in Nat, m \in T
      PROVE  m + 1 \in T
  <2>. SUFFICES ASSUME m + 1 <= n
                PROVE  Good(given[m + 1], m + 1)
    OBVIOUS
  <2>1. m <= n
    BY <1>1
  <2>. QED BY <1>4, <1>6, <2>1
<1>7. Good(given[n], n)
  <2>1. n \in T
    <3>. HIDE DEF T
    <3>. QED BY <1>1, <1>5, <1>6, Induction
  <2>. QED BY <1>1, <2>1
<1>8. Upto(n) = GivesFile(l, key, name)
  <2>1. \A i \in GivesFile(l, key, name) : i <= n
    BY <1>1 DEF GivesFile, Gives, n
  <2>. QED BY <2>1
<1>. HIDE DEF Upto
<1>. QED BY <1>2, <1>7, <1>8 DEF Good

WordFiles(l, name) == {i \in WordPlaces(l) : l[i].value = name}

LEMMA WordFilesCounted ==
  ASSUME NEW l \in Seq(AnArgument), NEW name \in IdlNames
  PROVE  Counted(Words(l), name, WordFiles(l, name))
<1>. DEFINE n   == Len(l)
            W   == WordPlaces(l)
            own == Increasing(W, n)
            words == Words(l)
<1>1. n \in Nat /\ DOMAIN l = 1 .. n
  BY LineFacts
<1>2. W \subseteq 1 .. n
  BY <1>1 DEF WordPlaces
<1>12. \A i \in 1 .. n : Converted(l[i].value) = name <=> l[i].value = name
  BY LineFacts, ConvertedFacts
<1>3. own \in Seq(Nat) /\ ToSet(own) = W /\ Ascending(own)
  BY <1>1, <1>2, IncreasingFacts
<1>4. words = [k \in DOMAIN own |-> Converted(l[own[k]].value)]
  BY DEF Words, WordPlaces
<1>. HIDE DEF own, W, n
<1>5. /\ Len(own) \in Nat /\ DOMAIN own = 1 .. Len(own)
      /\ \A k \in 1 .. Len(own) : own[k] \in Nat
      /\ \A i : i \in W <=> \E k \in 1 .. Len(own) : own[k] = i
  BY <1>3, Members
<1>6. words \in Seq(Text)
  BY WordsFacts
<1>. HIDE DEF words
<1>7. DOMAIN words = 1 .. Len(own)
  BY <1>4, <1>5
<1>8. Len(words) = Len(own) /\ \A k \in 1 .. Len(own) : words[k] = Converted(l[own[k]].value)
  <2>1. Len(words) \in Nat /\ DOMAIN words = 1 .. Len(words)
    BY <1>6, Members
  <2>. QED BY <1>4, <1>5, <1>7, <2>1
<1>9. \A j, k \in 1 .. Len(words) : own[j] = own[k] => j = k
  <2>1. \A j, k \in 1 .. Len(own) : j < k => own[j] < own[k]
    BY <1>3 DEF Ascending
  <2>. QED BY <1>5, <1>8, <2>1
<1>10. Counted(words, name, {own[j] : j \in {k \in 1 .. Len(words) : words[k] = name}})
  BY <1>6, <1>9, CountedAt
<1>11. {own[j] : j \in {k \in 1 .. Len(words) : words[k] = name}} = WordFiles(l, name)
  <2>1. ASSUME NEW i
        PROVE  i \in WordFiles(l, name) <=>
                 \E j \in 1 .. Len(words) : words[j] = name /\ i = own[j]
    <3>1. i \in WordFiles(l, name) <=> i \in W /\ l[i].value = name
      BY DEF WordFiles, W
    <3>2. i \in W => i \in 1 .. n
      BY <1>2
    <3>. QED BY <1>5, <1>8, <1>12, <3>1, <3>2
  <2>. QED BY <2>1
<1>. QED BY <1>10, <1>11 DEF words

(* The places of the arguments that give the files of a name. *)
FileArguments(l, name) ==
  WordFiles(l, name) \cup UNION {GivesFile(l, Flags[k], name) : k \in 1 .. Len(Flags)}

LEMMA FilesCounted ==
  ASSUME NEW l \in Seq(AnArgument), NEW name \in IdlNames
  PROVE  Counted(files(l), name, FileArguments(l, name))
<1>. DEFINE lists_ == [k \in DOMAIN Flags |-> Kept(argv(l, Flags[k]), IdlNames)]
            moved  == FlattenSeq(lists_)
            n      == Len(Flags)
            P      == [k \in 1 .. n |-> GivesFile(l, Flags[k], name)]
            W      == WordFiles(l, name)
            G      == UNION {P[k] : k \in 1 .. n}
<1>1. n \in Nat /\ DOMAIN Flags = 1 .. n
  BY FlagsFacts
<1>2. \A k \in 1 .. n : /\ lists_[k] \in Seq(Text)
                        /\ Counted(lists_[k], name, P[k])
  <2>. TAKE k \in 1 .. n
  <2>1. argv(l, Flags[k]) \in Seq(Text)
    BY ArgvFacts DEF GivenSound
  <2>2. lists_[k] = Kept(argv(l, Flags[k]), IdlNames)
    BY <1>1
  <2>3. \A given \in Seq(Text) : Kept(given, IdlNames) \in Seq(Text)
    BY KeptPlaces
  <2>4. Counted(Kept(argv(l, Flags[k]), IdlNames), name, GivesFile(l, Flags[k], name))
    BY GivenFilesCounted
  <2>. QED BY <2>1, <2>2, <2>3, <2>4
<1>3. lists_ \in [1 .. n -> Seq(Text)]
  BY <1>1, <1>2
<1>4. \A j, k \in 1 .. n : j # k => P[j] \cap P[k] = {}
  <2>. TAKE j, k \in 1 .. n
  <2>. SUFFICES ASSUME j # k, NEW i \in P[j], i \in P[k]
                PROVE  FALSE
    OBVIOUS
  <2>1. l[i].key = Flags[j] /\ l[i].key = Flags[k]
    BY DEF GivesFile, Gives
  <2>. QED BY <2>1, FlagsFacts
<1>5. W \cap G = {}
  <2>. SUFFICES ASSUME NEW i \in W, i \in G
                PROVE  FALSE
    OBVIOUS
  <2>1. PICK k \in 1 .. n : i \in P[k]
    OBVIOUS
  <2>2. l[i].form # "word"
    BY <2>1 DEF GivesFile, Gives
  <2>3. l[i].form = "word"
    BY DEF WordFiles, WordPlaces
  <2>. QED BY <2>2, <2>3
<1>6. FileArguments(l, name) = W \cup G
  BY DEF FileArguments
<1>7. files(l) = Words(l) \o moved
  BY DEF files
<1>8. Words(l) \in Seq(Text) /\ Counted(Words(l), name, W)
  BY WordsFacts, WordFilesCounted
<1>. HIDE DEF lists_, n, P
<1>9. lists_ \in Seq(Seq(Text)) /\ Len(lists_) = n
  BY <1>1, <1>3, TupleIsSeq
<1>10. moved \in Seq(Text)
  BY <1>9, FlattenedMembers
<1>11. Counted(moved, name, G)
  <2>1. /\ \A k \in 1 .. Len(lists_) : Counted(lists_[k], name, P[k])
        /\ \A j, k \in 1 .. Len(lists_) : j # k => P[j] \cap P[k] = {}
    BY <1>2, <1>4, <1>9
  <2>2. Counted(FlattenSeq(lists_), name, AllOf(P, Len(lists_)))
    <3>. HIDE DEF W, moved
    <3>. QED BY <1>9, <2>1, CountedFlatten
  <2>. QED BY <1>9, <2>2 DEF AllOf
<1>. HIDE DEF moved, W, G
<1>12. Counted(Words(l) \o moved, name, W \cup G)
  BY <1>5, <1>8, <1>10, <1>11, CountedConcat
<1>. QED BY <1>6, <1>7, <1>12

(* The place of the file that an argument gives: its own, or the next one. *)
PlaceOfFile(l, i) == IF TakesNext(l, i) THEN i + 1 ELSE i

(* The arguments that name a file, of which none is an --include's. *)
NamesFile(l, name) == {i \in IdlArguments(l, FALSE) : l[i].value = name}

LEMMA PlacesAreFiles ==
  ASSUME NEW l \in Seq(AnArgument), NEW name \in IdlNames, NEW i \in FileArguments(l, name)
  PROVE  PlaceOfFile(l, i) \in NamesFile(l, name)
<1>1. DOMAIN l = 1 .. Len(l) /\ Len(l) \in Nat
  BY LineFacts
<1>2. CASE i \in WordFiles(l, name)
  <2>1. i \in WordPlaces(l) /\ l[i].value = name
    BY <1>2 DEF WordFiles
  <2>2. ~ IsIncludes(l, i) /\ i \in 1 .. Len(l) /\ l[i].form = "word"
    BY <2>1, WordsAreNoIncludes
  <2>3. i \in IdlArguments(l, FALSE)
    BY <1>1, <2>1, <2>2, IdlArgumentFacts
  <2>4. PlaceOfFile(l, i) = i
    BY <2>2 DEF PlaceOfFile, TakesNext
  <2>. QED BY <2>1, <2>3, <2>4 DEF NamesFile
<1>3. ASSUME NEW k \in 1 .. Len(Flags), i \in GivesFile(l, Flags[k], name)
      PROVE  PlaceOfFile(l, i) \in NamesFile(l, name)
  <2>1. i \in 1 .. Len(l) /\ l[i].form # "word" /\ l[i].key = Flags[k] /\ ValueAt(l, i) = name
    BY <1>3 DEF GivesFile, Gives
  <2>2. Flags[k] # "include"
    BY FlagsFacts
  <2>3. CASE l[i].form = "value" /\ ValueAt(l, i) = l[i].value
    <3>1. ~ IsIncludes(l, i)
      BY <2>1, <2>2, <2>3 DEF IsIncludes
    <3>2. i \in IdlArguments(l, FALSE)
      BY <1>1, <2>1, <2>3, <3>1, IdlArgumentFacts
    <3>3. PlaceOfFile(l, i) = i
      BY <2>3 DEF PlaceOfFile, TakesNext
    <3>. QED BY <2>1, <2>3, <3>2, <3>3 DEF NamesFile
  <2>4. CASE TakesNext(l, i) /\ i + 1 \in 1 .. Len(l) /\ ValueAt(l, i) = l[i + 1].value
    <3>1. l[i + 1].form = "word" /\ (i + 1) - 1 = i
      BY <1>1, <2>1, <2>4 DEF TakesNext
    <3>2. ~ IsIncludes(l, i + 1)
      BY <2>1, <2>2, <3>1 DEF IsIncludes
    <3>3. i + 1 \in IdlArguments(l, FALSE)
      BY <1>1, <2>1, <2>4, <3>1, <3>2, IdlArgumentFacts
    <3>4. PlaceOfFile(l, i) = i + 1
      BY <2>4 DEF PlaceOfFile
    <3>. QED BY <2>1, <2>4, <3>3, <3>4 DEF NamesFile
  <2>. QED BY <2>1, <2>3, <2>4, GivenFile
<1>. QED BY <1>2, <1>3 DEF FileArguments

LEMMA PlacesDiffer ==
  ASSUME NEW l \in Seq(AnArgument), NEW name,
         NEW i \in FileArguments(l, name), NEW j \in FileArguments(l, name),
         PlaceOfFile(l, i) = PlaceOfFile(l, j)
  PROVE  i = j
<1>1. DOMAIN l = 1 .. Len(l) /\ Len(l) \in Nat
  BY LineFacts
<1>2. \A k \in FileArguments(l, name) :
        k \in 1 .. Len(l) /\ (l[k].form # "word" \/ k \in WordPlaces(l))
  BY <1>1 DEF FileArguments, WordFiles, WordPlaces, GivesFile, Gives
<1>3. ASSUME NEW k \in FileArguments(l, name), NEW m \in FileArguments(l, name),
             TakesNext(l, k), m = k + 1
      PROVE  FALSE
  <2>1. l[m].form = "word"
    BY <1>3 DEF TakesNext
  <2>2. m \in WordPlaces(l)
    BY <1>2, <2>1
  <2>3. m > 1 /\ m - 1 = k
    BY <1>2, <1>3
  <2>. QED BY <1>3, <2>2, <2>3 DEF WordPlaces
<1>4. CASE TakesNext(l, i) /\ TakesNext(l, j)
  <2>1. i + 1 = j + 1
    BY <1>4 DEF PlaceOfFile
  <2>. QED BY <1>2, <2>1
<1>5. CASE ~ TakesNext(l, i) /\ ~ TakesNext(l, j)
  BY <1>5 DEF PlaceOfFile
<1>6. CASE TakesNext(l, i) /\ ~ TakesNext(l, j)
  BY <1>3, <1>6 DEF PlaceOfFile
<1>7. CASE ~ TakesNext(l, i) /\ TakesNext(l, j)
  BY <1>3, <1>7 DEF PlaceOfFile
<1>. QED BY <1>4, <1>5, <1>6, <1>7

LEMMA FilesHavePlaces ==
  ASSUME NEW l \in Seq(AnArgument), validate(l) = "none", NEW name \in IdlNames,
         NEW i \in NamesFile(l, name)
  PROVE  \E j \in FileArguments(l, name) : PlaceOfFile(l, j) = i
<1>1. DOMAIN l = 1 .. Len(l) /\ Len(l) \in Nat
  BY LineFacts
<1>2. /\ i \in 1 .. Len(l) /\ l[i].form \in {"value", "word"} /\ l[i].value = name
      /\ ~ IsIncludes(l, i)
  BY <1>1, IdlArgumentFacts DEF NamesFile
<1>7. Converted(name) = name
  BY <1>2, LineFacts, ConvertedFacts
<1>3. CASE i \in WordPlaces(l)
  <2>1. i \in FileArguments(l, name)
    BY <1>2, <1>3 DEF FileArguments, WordFiles
  <2>2. PlaceOfFile(l, i) = i
    BY <1>3 DEF WordPlaces, PlaceOfFile, TakesNext
  <2>. QED BY <2>1, <2>2
<1>4. ASSUME NEW j \in 1 .. Len(l), l[j].form # "word", ValueAt(l, j) = name, l[j].key # "include"
      PROVE  j \in FileArguments(l, name)
  <2>1. PICK k \in 1 .. Len(Flags) : l[j].key = Flags[k]
    BY <1>4, FileIsOfAFlag
  <2>2. j \in GivesFile(l, Flags[k], name)
    BY <1>4, <2>1 DEF GivesFile, Gives
  <2>. QED BY <2>2 DEF FileArguments
<1>5. CASE l[i].form = "value"
  <2>1. ValueAt(l, i) = name
    BY <1>2, <1>5, <1>7 DEF ValueAt
  <2>2. l[i].key # "include"
    BY <1>2, <1>5 DEF IsIncludes
  <2>3. PlaceOfFile(l, i) = i
    BY <1>5 DEF PlaceOfFile, TakesNext
  <2>. QED BY <1>2, <1>4, <1>5, <2>1, <2>2, <2>3
<1>6. CASE l[i].form = "word" /\ i \notin WordPlaces(l)
  <2>1. i > 1 /\ TakesNext(l, i - 1)
    BY <1>1, <1>2, <1>6 DEF WordPlaces
  <2>2. i - 1 \in 1 .. Len(l) /\ (i - 1) + 1 = i
    BY <1>1, <1>2, <2>1
  <2>3. l[i - 1].form = "flag"
    BY <2>1 DEF TakesNext
  <2>4. ValueAt(l, i - 1) = name
    BY <1>2, <1>7, <2>1, <2>2, <2>3 DEF ValueAt
  <2>5. l[i - 1].key # "include"
    BY <1>2, <1>6, <2>1, <2>3 DEF IsIncludes
  <2>6. PlaceOfFile(l, i - 1) = i
    BY <2>1, <2>2 DEF PlaceOfFile
  <2>. QED BY <1>4, <2>2, <2>3, <2>4, <2>5, <2>6
<1>. QED BY <1>2, <1>3, <1>5, <1>6

LEMMA FilesAreNamed ==
  ASSUME NEW l \in Seq(AnArgument), validate(l) = "none", NEW name \in IdlNames
  PROVE  Len(Kept(files(l), {name})) = Cardinality(NamesFile(l, name))
<1>. DEFINE S == FileArguments(l, name)
            T == NamesFile(l, name)
            f == [i \in S |-> PlaceOfFile(l, i)]
<1>1. f \in [S -> T]
  BY PlacesAreFiles
<1>2. \A i, j \in S : f[i] = f[j] => i = j
  BY PlacesDiffer
<1>3. \A t \in T : \E i \in S : f[i] = t
  BY FilesHavePlaces
<1>4. Counted(files(l), name, S)
  BY FilesCounted
<1>. HIDE DEF S, T, f
<1>5. f \in Bijection(S, T)
  BY <1>1, <1>2, <1>3 DEF Bijection, Injection, Surjection, IsInjective
<1>6. Counted(files(l), name, T)
  <2>1. ExistsBijection(S, T)
    BY <1>5 DEF ExistsBijection
  <2>. QED BY <1>4, <2>1, CountedBijection
<1>. QED BY <1>6 DEF Counted, T

LEMMA FilesAreCompiled == IInv => IdlFilesAreCompiled
<1>. SUFFICES ASSUME IInv, pc = "parsing", NEW name \in IdlNames
              PROVE  Len(Kept(files(line), {name}))
                       = Cardinality({i \in IdlArguments(line, FALSE) : line[i].value = name})
  BY DEF IdlFilesAreCompiled
<1>1. line \in Seq(AnArgument) /\ validate(line) = "none"
  BY DEF IInv, LineSound
<1>. QED BY <1>1, FilesAreNamed DEF NamesFile

(* An .idl file that stands anywhere on an accepted command line is         *)
(* compiled once for each time it stands there, even where minimist took it *)
(* for the value of the flag before it, unless it is an --include's         *)
(* (parameters.js:98-132).                                                  *)
THEOREM FilesOfTheLine == Spec => []IdlFilesAreCompiled
BY GenerationIsSound, FilesAreCompiled, PTL
=============================================================================

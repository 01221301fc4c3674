----------------------------- MODULE CommandLine -----------------------------
(***************************************************************************)
(* The command line of generate.js: how minimist splits it, and what       *)
(* parameters.js makes of that.  An argument is a record:                  *)
(*   [form |-> "value", key |-> "stubs", value |-> "overwrite"]            *)
(*        for --stubs=overwrite, "flag" for --stubs, "no" for --no-stubs,  *)
(*   and "word" for one that does not begin with "-".                      *)
(* JavaScript's booleans are True and False, and its numbers those that    *)
(* Number returns; no string that a user types is one of them.  What a key *)
(* has been given is a sequence: empty for undefined, and of length one    *)
(* for a value that is no array.                                           *)
(***************************************************************************)
EXTENDS Subsequences, SequencesExt

CONSTANTS
  IdlNames,   \* the strings that end with ".idl"
  Number      \* JavaScript's Number, for the strings that minimist's isNumber
              \* takes for numerals

True == "(true)"
False == "(false)"
Booleans == {True, False}
Numerals == DOMAIN Number
Numbers == Range(Number)

AnArgument ==
  [form : {"value", "flag", "no", "word"}, key : STRING, value : STRING]
Argument(form, key, value) == [form |-> form, key |-> key, value |-> value]

(* The possible values, the default first. *)
acceptable_inputs ==
  [fix_type_errors          |-> <<True, False>>,
   stubs                    |-> <<"preserve", "overwrite">>,
   debug_printing           |-> <<"off", "on">>,
   output_utility_files     |-> <<False, True>>,
   leave_enums_alone        |-> <<False, True>>,
   print_generation_message |-> <<True, False>>,
   quiet                    |-> <<False, True>>,
   arg_handling             |-> <<"original", "new">>,
   tied_to_jerryscript      |-> <<False, True>>]

(* No value of an option ends with ".idl" or is a number. *)
ASSUME IdlNamesAssumption ==
  /\ IdlNames \cap (Booleans \cup {"", "true", "false"}) = {}
  /\ \A flag \in DOMAIN acceptable_inputs : Range(acceptable_inputs[flag]) \cap IdlNames = {}

ASSUME NumberAssumption ==
  /\ Number \in [Numerals -> STRING]
  /\ (Numerals \cup Numbers) \cap (IdlNames \cup Booleans \cup {"true", "false"}) = {}
  /\ \A flag \in DOMAIN acceptable_inputs :
       Range(acceptable_inputs[flag]) \cap (Numerals \cup Numbers) = {}

(* Object.keys: include and help are in the table, too, and are treated apart. *)
Flags == <<"fix_type_errors", "stubs", "debug_printing", "output_utility_files",
           "leave_enums_alone", "print_generation_message", "quiet",
           "arg_handling", "tied_to_jerryscript">>

KnownKeys == DOMAIN acceptable_inputs \cup {"include", "help", "package"}

----------------------------------------------------------------------------
(* minimist.  Whatever looks like a number becomes one. *)
Converted(value) == IF value \in Numerals THEN Number[value] ELSE value

(* A flag takes the word that follows it for its value. *)
TakesNext(line, i) ==
  line[i].form = "flag" /\ i < Len(line) /\ line[i + 1].form = "word"

Words(line) ==
  LET own == Increasing({i \in DOMAIN line : /\ line[i].form = "word"
                                             /\ ~(i > 1 /\ TakesNext(line, i - 1))}, Len(line))
  IN  [k \in DOMAIN own |-> Converted(line[own[k]].value)]

ValueAt(line, i) ==
  IF line[i].form = "value" THEN Converted(line[i].value)
  ELSE IF line[i].form = "no" THEN False
  ELSE IF TakesNext(line, i) THEN Converted(line[i + 1].value)
  ELSE True

(* setKey: a second value makes an array, unless the first is a boolean, *)
(* which it replaces.                                                    *)
setKey(given, value) ==
  IF Len(given) = 1 /\ given[1] \in Booleans THEN <<value>> ELSE Append(given, value)

argv(line, key) ==
  LET given[i \in 0 .. Len(line)] ==
        IF i = 0 THEN << >>
        ELSE IF line[i].form # "word" /\ line[i].key = key
        THEN setKey(given[i - 1], ValueAt(line, i))
        ELSE given[i - 1]
  IN  given[Len(line)]

----------------------------------------------------------------------------
(* parameters.js: "a little bit of fuzzy logic".  The .idl file that minimist *)
(* took for the value of a flag is moved to the files; a flag that is left    *)
(* without a value gets its second one.                                       *)
IsIdl(value) == value \in IdlNames

(* Wrong: no file is moved. *)
FilesAsParsed(line) == Words(line)

files(line) ==
  Words(line) \o
    FlattenSeq([k \in DOMAIN Flags |-> Kept(argv(line, Flags[k]), IdlNames)])

(* Wrong: the flag gets its default back. *)
values_default(line, key) ==
  LET given == argv(line, key)
      kept == Kept(given, Range(given) \ IdlNames)
  IN  IF kept = << >> THEN <<acceptable_inputs[key][1]>> ELSE kept

values(line, key) ==
  LET given == argv(line, key)
      kept == Kept(given, Range(given) \ IdlNames)
  IN  CASE given = << >> -> <<acceptable_inputs[key][1]>>
        [] given # << >> /\ kept = << >> -> <<acceptable_inputs[key][2]>>
        [] OTHER -> kept

true_value(x) == x \in {"true", "on", "overwrite", True}
false_value(x) == x \in {"false", "off", False}

equal_values(x, y) ==
  \/ true_value(x) /\ true_value(y)
  \/ false_value(x) /\ false_value(y)
  \/ x = y

(* "The flag was entered more than once with different values." *)
Inconsistent(line, key) ==
  LET all == values(line, key)
  IN  \E j \in DOMAIN all : ~equal_values(Head(all), all[j])

(* "true" and "false" become booleans, then booleans "on" and "off" where the *)
(* possible values are strings.                                               *)
option(line, key) ==
  LET first == Head(values(line, key))
      b == CASE first = "true" -> True
             [] first = "false" -> False
             [] OTHER -> first
  IN  IF b \in Booleans /\ acceptable_inputs[key][1] \notin Booleans
      THEN IF b = True THEN "on" ELSE "off"
      ELSE b

(* A single string becomes an array; a boolean or a number has no length, and *)
(* is read as no files.                                                       *)
include_files(line) ==
  LET given == argv(line, "include")
  IN  IF Len(given) = 1 /\ given[1] \in Booleans \cup Numbers THEN << >> ELSE given

----------------------------------------------------------------------------
(* What validate finds wrong with the values. *)
found_an_error(line) ==
  \/ \E k \in DOMAIN Flags :
       \/ Inconsistent(line, Flags[k])
       \/ option(line, Flags[k]) \notin Range(acceptable_inputs[Flags[k]])
  \/ \E name \in Range(files(line)) \cup Range(include_files(line)) : ~IsIdl(name)
  \/ IsIdl(argv(line, "package")[1])
  \/ argv(line, "help") # << >>
  \/ \E i \in DOMAIN line : line[i].form # "word" /\ line[i].key \notin KnownKeys

(* The error that validate throws, or "none".  A package name that is an      *)
(* array, and a boolean or a number where a name is expected, have no         *)
(* endsWith: "TypeError".                                                     *)
validate(line) ==
  LET package == argv(line, "package")
      help == argv(line, "help")
  IN  CASE Len(help) = 1 /\ help[1] \in {True, "true"} -> "need_help"
        [] package = << >> /\ files(line) = << >> -> "neither_package_nor_files_given"
        [] package \in {<< >>, <<"">>} -> "no_package_name_given"
        [] files(line) = << >> -> "no_filenames_given"
        [] \/ Len(package) > 1 \/ package[1] \in Booleans \cup Numbers
           \/ Range(files(line)) \cap Numbers # {}
           \/ Range(include_files(line)) \cap (Booleans \cup Numbers) # {} -> "TypeError"
        [] found_an_error(line) -> "incorrect_parameter_value"
        [] OTHER -> "none"
==============================================================================

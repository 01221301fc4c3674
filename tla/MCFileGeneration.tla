-------------------------- MODULE MCFileGeneration --------------------------
(* Both runs may be given an interface and an enum, both printed; the        *)
(* interface with an included typedef of its name, or included with a        *)
(* typedef of its name, so that two streams write one file, and a run finds  *)
(* the files of the other kinds; the utilities alone where the interface is  *)
(* included, with the .idl file behind a flag; a file that is not legal, and *)
(* a file that is both compiled and included.  The first run may also be     *)
(* given several typedefs, two of them with one name, or any line of up to   *)
(* three arguments with or without a package: its files do not exist.        *)
EXTENDS FileGeneration

Idl == {"a.idl", "b.idl", "t.idl", "ts.idl", "empty.idl", "bad.idl", "x.idl", "y.idl"}

File(objects) == [parses |-> TRUE, objects |-> objects]
Object(kind, name) == [kind |-> kind, name |-> <<name>>]

Contents ==
  [name \in Idl \ {"x.idl", "y.idl"} |->
     CASE name = "a.idl" -> File(<<Object("interfaces", "A")>>)
       [] name = "b.idl" -> File(<<Object("enums", "B")>>)
       [] name = "t.idl" -> File(<<Object("typedefs", "A")>>)
       [] name = "ts.idl" -> File(<<Object("typedefs", "T"), Object("typedefs", "A"),
                                    Object("typedefs", "T")>>)
       [] name = "empty.idl" -> File(<<>>)
       [] name = "bad.idl" -> [parses |-> FALSE, objects |-> <<>>]]

SevenAsNumber == [numeral \in {"7"} |-> "(7)"]

Set(key, value) == Argument("value", key, value)
Flag(key) == Argument("flag", key, "")
No(key) == Argument("no", key, "")
Word(value) == Argument("word", "", value)
Package == Set("package", "p")

PackageLines ==
  { <<Package, Word("a.idl"), Word("b.idl")>>,
    <<Set("stubs", "overwrite"), Package, Set("include", "t.idl"), Word("a.idl")>>,
    <<Package, Set("include", "a.idl"), Word("t.idl")>>,
    <<Package, Set("include", "a.idl"), Flag("output_utility_files"), Word("empty.idl")>>,
    <<Package, Word("a.idl"), Word("bad.idl")>>,
    <<Package, Word("a.idl"), Set("include", "a.idl")>> }

TypedefLines == {<<Package, Word("ts.idl"), Set("include", "t.idl")>>}

Arguments ==
  { Word("x.idl"), Word("y.idl"), Word("overwrite"), Word("false"),
    Flag("stubs"), Set("stubs", "overwrite"), Set("stubs", "true"), No("stubs"),
    Flag("quiet"), Set("quiet", "true"), Set("quiet", "false"), No("quiet"),
    Set("quiet", "y.idl"), Flag("fix_type_errors"), Set("arg_handling", "new"),
    Flag("debug_printing"), No("debug_printing"), Set("include", "y.idl"),
    Word("7"), Set("package", "7"), Flag("include"), Flag("package"), Flag("help"),
    Set("qiuet", "true") }

AnyLines ==
  LET lines == SeqOf(Arguments, 3)
  IN  lines \cup {Append(l, Package) : l \in lines}

LinesOfRuns == <<PackageLines \cup TypedefLines \cup AnyLines, PackageLines>>
=============================================================================

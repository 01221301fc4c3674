--------------------------- MODULE FileGeneration ---------------------------
(* A run of JerryGen from its command line to the generated files:           *)
(* generate.js:20-106 validates the parameters, reads the .idl files, makes  *)
(* the package directory and calls the generators of file_generators.js,     *)
(* which write the .c and .h files.  Nothing waits for a promise: the script *)
(* runs to its end while the directory is being made, then the event loop    *)
(* opens and writes the files through the thread pool, and the process exits *)
(* when no request is left.  A run can be interrupted at any point; between  *)
(* two runs of the same package the user fills in the stubs.                 *)
EXTENDS CommandLine, FiniteSets

CONSTANTS
  Lines,        \* for each run the command lines it may be given
  Sources,      \* for each .idl file that there is, what it declares
  Threads,      \* the threads of the pool that serves the file system calls
  MaxMishaps    \* how often, in all runs, a request fails by itself (no
                \* space, permission or descriptor) or a run is interrupted

ASSUME BoundsAssumption == Threads \in Nat \ {0} /\ MaxMishaps \in Nat
ASSUME LinesAssumption ==
  /\ Lines \in Seq(SUBSET Seq(AnArgument))
  /\ \A r \in DOMAIN Lines : \A l \in Lines[r] : \A i \in DOMAIN l :
       l[i].value \notin Booleans \cup Numbers /\ (l[i].form = "word" => l[i].key = "")

MaxRuns == Len(Lines)

VARIABLES
  line,       \* the arguments of the current, or the last, run
  lists,      \* augAST: for each kind of object the objects of that kind
  pc,         \* idle, rejecting, parsing, directory, script or loop
  pass,       \* the generator that is called next
  writes,     \* the calls of qfs.write whose streams are not open yet
  queue,      \* the requests to the thread pool, oldest first
  failed,     \* the paths whose stream ended with an error
  mishaps,    \* how many requests failed and runs were interrupted
  directory,  \* does the package directory exist?
  disk,       \* what the files in it contain, as a set of authors
  run,        \* how many runs have begun
  exit        \* how the last run ended

vars == <<line, lists, pc, pass, writes, queue, failed, mishaps,
          directory, disk, run, exit>>

script == <<line, lists, pc, pass, writes, run, exit>>
world  == <<failed, mishaps, directory, disk>>

(* Names and paths are sequences of the pieces they are put together from.   *)
Passes == <<"typedefs", "interfaces", "stubs", "dictionaries", "enums",
            "callbacks", "composites">>

object_type(p) == IF p = "stubs" THEN "interfaces" ELSE p
stubs_piece(p) == IF p = "stubs" THEN <<"_stubs">> ELSE <<>>

header_or_body == <<<<".h">>, <<"_private", ".h">>, <<".c">>>>

indices(p) == CASE p = "stubs"    -> <<1, 3>>
                [] p = "typedefs" -> <<1, 2>>
                [] OTHER          -> <<1, 2, 3>>

CFileFileName(p, name, index) == name \o stubs_piece(p) \o header_or_body[index]

(* Who a piece of a file comes from: a generator's call in one of the runs,  *)
(* or the user.                                                              *)
Author(p, name) == [pass |-> p, name |-> name, run |-> run]
Human == [pass |-> "human", name |-> <<>>, run |-> 0]

utilities_filename == <<"webidl_compiler_utilities">>

Kinds == {"typedefs", "interfaces", "dictionaries", "enums", "callbacks", "composites"}

(* A name is what the parser found between two blanks, and none of the pieces *)
(* that the compiler adds; the .idl files are found by their names.           *)
ASSUME SourcesAssumption ==
  /\ DOMAIN Sources \subseteq IdlNames
  /\ \A file \in DOMAIN Sources :
       /\ Sources[file].parses \in BOOLEAN
       /\ Sources[file].objects \in Seq([kind : Kinds, name : Seq(STRING)])
       /\ \A k \in DOMAIN Sources[file].objects :
            LET name == Sources[file].objects[k].name
            IN  Len(name) = 1 /\ name # utilities_filename /\ name[1] # "_stubs"

(* The objects of these kinds are made by the compiler, from typedefs and from *)
(* the union types it meets; those of the other kinds are the parser's.        *)
Made == {"typedefs", "composites"}

NoLists == [kind \in Kinds |-> <<>>]

Init ==
  /\ line = <<>> /\ lists = NoLists
  /\ pc = "idle" /\ pass = 1 /\ writes = <<>> /\ queue = <<>>
  /\ failed = {} /\ mishaps = 0
  /\ directory \in BOOLEAN /\ disk = <<>>
  /\ run = 0 /\ exit = "none"

Start ==
  /\ pc = "idle" /\ run < MaxRuns
  /\ line' \in Lines[run + 1]
  /\ pc' = IF validate(line') = "none" THEN "parsing" ELSE "rejecting"
  /\ run' = run + 1 /\ lists' = NoLists
  /\ pass' = 1 /\ writes' = <<>> /\ failed' = {}
  /\ exit' = "none"
  /\ UNCHANGED <<queue, mishaps, directory, disk>>

(* The catch block prints what is wrong and the process ends.                *)
Reject ==
  /\ pc = "rejecting"
  /\ pc' = "idle" /\ exit' = "failure" /\ line' = <<>>
  /\ UNCHANGED <<lists, pass, writes, queue, run, world>>

(* What is declared in a sequence of files, in order.                        *)
readFiles(names, included) ==
  FlattenSeq([k \in DOMAIN names |->
                LET objects == Sources[names[k]].objects
                IN  [j \in DOMAIN objects |->
                       [kind |-> objects[j].kind, name |-> objects[j].name,
                        dont_print_this_thing_out |-> included]]])

(* The objects of included files are marked and moved over to the main list. *)
parsed_file(l) == readFiles(files(l), FALSE) \o readFiles(include_files(l), TRUE)

(* A file that does not exist or does not parse, or a name that is declared  *)
(* twice, ends the run before anything is written; record_name is not called *)
(* for typedefs and unions, whose names may be those of anything.            *)
IsLegal(l) ==
  /\ \A name \in Range(files(l) \o include_files(l)) :
       name \in DOMAIN Sources /\ Sources[name].parses
  /\ LET parsed == parsed_file(l)
         recorded == {k \in DOMAIN parsed : parsed[k].kind \notin Made}
     IN  \A j, k \in recorded : parsed[j].name = parsed[k].name => j = k

(* A list is an object of JavaScript: one entry for each name, where the     *)
(* first one with that name came.                                            *)
ByName(objects) ==
  LET first == Increasing({k \in DOMAIN objects :
                             \A j \in 1 .. k - 1 : objects[j].name # objects[k].name},
                          Len(objects))
  IN  [k \in DOMAIN first |-> objects[first[k]]]

(* What the compiler makes anew has no mark.                                 *)
compiled(object) ==
  IF object.kind \in Made THEN [object EXCEPT !.dont_print_this_thing_out = FALSE] ELSE object

augAST(l) ==
  LET parsed == parsed_file(l)
      objects == [k \in DOMAIN parsed |-> compiled(parsed[k])]
  IN  [kind \in Kinds |-> ByName(Kept(objects, {o \in Range(objects) : o.kind = kind}))]

Parse ==
  /\ pc = "parsing" /\ IsLegal(line)
  /\ pc' = "directory"
  /\ lists' = augAST(line)
  /\ UNCHANGED <<line, pass, writes, queue, run, exit, world>>

RejectFiles ==
  /\ pc = "parsing" /\ ~IsLegal(line)
  /\ pc' = "idle" /\ exit' = "failure" /\ line' = <<>>
  /\ UNCHANGED <<lists, pass, writes, queue, run, world>>

MakeDirectory ==
  /\ pc = "directory"
  /\ pc' = "script"
  /\ queue' = <<[op |-> "mkdir", path |-> <<>>, by |-> Human]>>
  /\ UNCHANGED <<line, lists, pass, writes, run, exit, world>>

(* Wrong: the test for an existing file is left out. *)
WritesAlways(p, name, index) == TRUE

(* Is this file of a generator written?  Stubs only if they are not off, and *)
(* there is no such file yet or the user asked for it.                       *)
Writes(p, name, index) ==
  \/ p # "stubs"
  \/ /\ option(line, "stubs") # "off"
     /\ CFileFileName(p, name, index) \notin DOMAIN disk
  \/ option(line, "stubs") = "overwrite"

(* Wrong: the mark of included objects is not looked at. *)
PrintedAll(object_list) == object_list

(* generate_C_files puts the objects into augAST one at a time, writes their *)
(* files, and puts the list back.                                            *)
Printed(object_list) ==
  Kept(object_list, {o \in Range(object_list) : ~o.dont_print_this_thing_out})

ObjectWrites(p, name) ==
  LET written == Kept(indices(p), {index \in 1 .. 3 : Writes(p, name, index)})
  IN  [k \in DOMAIN written |->
         [op |-> "open", path |-> CFileFileName(p, name, written[k]), by |-> Author(p, name)]]

ListWrites(p, object_list) ==
  FlattenSeq([k \in DOMAIN object_list |-> ObjectWrites(p, object_list[k].name)])

generate_C_files ==
  /\ pc = "script" /\ pass \in DOMAIN Passes
  /\ LET p == Passes[pass]
         object_list == lists[object_type(p)]
     IN  /\ writes' = writes \o ListWrites(p, Printed(object_list))
         /\ lists'  = [lists EXCEPT ![object_type(p)] = object_list]
  /\ pass' = pass + 1
  /\ UNCHANGED <<line, pc, queue, run, exit, world>>

(* Wrong: the directory is asked for after the files. *)
EnqueuedFirst(requests) == requests \o queue

Enqueued(requests) == queue \o requests

(* The script is over: the streams of all promises are opened, in order.     *)
utilities ==
  /\ pc = "script" /\ pass \notin DOMAIN Passes
  /\ queue' = Enqueued(writes \o
                          (IF option(line, "output_utility_files") = True
                           THEN ObjectWrites("utilities", utilities_filename)
                           ELSE <<>>))
  /\ writes' = <<>>
  /\ pc' = "loop"
  /\ UNCHANGED <<line, lists, pass, run, exit, world>>

(* One request of the pool.  Opening empties the file, and writing puts the  *)
(* text at its beginning: of what another stream has written into the same   *)
(* file meanwhile, only what is longer is kept.                              *)
Fail(r) ==
  /\ failed' = failed \union {r.path}
  /\ UNCHANGED <<directory, disk>>

mkdir(r, k) ==
  /\ r.op = "mkdir"
  /\ directory' = TRUE
  /\ queue' = RemoveAt(queue, k)
  /\ UNCHANGED <<failed, mishaps, disk>>

open(r, k) ==
  /\ r.op = "open" /\ directory
  /\ disk' = [p \in DOMAIN disk \union {r.path} |-> IF p = r.path THEN {} ELSE disk[p]]
  /\ queue' = Append(RemoveAt(queue, k), [r EXCEPT !.op = "write"])
  /\ UNCHANGED <<failed, mishaps, directory>>

(* Wrong: the stream goes on after its open failed. *)
writeWithoutDirectory(r, k) ==
  /\ r.op = "open" /\ ~directory
  /\ Fail(r)
  /\ queue' = Append(RemoveAt(queue, k), [r EXCEPT !.op = "write"])
  /\ UNCHANGED mishaps

openWithoutDirectory(r, k) ==
  /\ r.op = "open" /\ ~directory
  /\ Fail(r)
  /\ queue' = RemoveAt(queue, k)
  /\ UNCHANGED mishaps

write(r, k) ==
  /\ r.op = "write"
  /\ \E kept \in SUBSET disk[r.path] : disk' = [disk EXCEPT ![r.path] = kept \union {r.by}]
  /\ queue' = RemoveAt(queue, k)
  /\ UNCHANGED <<failed, mishaps, directory>>

failure(r, k) ==
  /\ mishaps < MaxMishaps /\ mishaps' = mishaps + 1
  /\ Fail(r)
  /\ queue' = RemoveAt(queue, k)

Work ==
  /\ \E k \in DOMAIN queue :
       /\ k <= Threads
       /\ LET r == queue[k]
          IN  \/ mkdir(r, k)
              \/ open(r, k)
              \/ openWithoutDirectory(r, k)
              \/ write(r, k)
              \/ failure(r, k)
  /\ UNCHANGED script

(* No catch or fail is attached to any of the promises.                      *)
Exit ==
  /\ pc = "loop" /\ queue = <<>>
  /\ pc' = "idle" /\ exit' = "success"
  /\ UNCHANGED <<line, lists, pass, writes, queue, run, world>>

Interrupt ==
  /\ pc \in {"directory", "script", "loop"}
  /\ mishaps < MaxMishaps /\ mishaps' = mishaps + 1
  /\ pc' = "idle" /\ exit' = "killed" /\ queue' = <<>>
  /\ UNCHANGED <<line, lists, pass, writes, run, failed, directory, disk>>

(* The user writes code into a stubs file of a finished run; one edit        *)
(* between two runs is enough to tell the properties apart.                  *)
Edit ==
  /\ pc = "idle" /\ exit = "success" /\ run < MaxRuns
  /\ exit' = "edited"
  /\ \E p \in DOMAIN disk :
       /\ "_stubs" \in Range(p)
       /\ disk' = [disk EXCEPT ![p] = {Human}]
  /\ UNCHANGED <<line, lists, pc, pass, writes, queue, failed, mishaps,
                 directory, run>>

Done ==
  /\ pc = "idle" /\ run = MaxRuns
  /\ UNCHANGED vars

Next ==
  \/ Start \/ Reject \/ Parse \/ RejectFiles \/ MakeDirectory \/ generate_C_files \/ utilities
  \/ Work \/ Exit \/ Interrupt \/ Edit \/ Done

Spec == Init /\ [][Next]_vars

-----------------------------------------------------------------------------
(* The files the options and the .idl file ask for, as a reader of the       *)
(* naming conventions would list them.                                       *)
Extensions ==
  [typedefs     |-> {<<".h">>, <<"_private", ".h">>},
   stubs        |-> {<<"_stubs", ".h">>, <<"_stubs", ".c">>},
   interfaces   |-> {<<".h">>, <<"_private", ".h">>, <<".c">>},
   dictionaries |-> {<<".h">>, <<"_private", ".h">>, <<".c">>},
   enums        |-> {<<".h">>, <<"_private", ".h">>, <<".c">>},
   callbacks    |-> {<<".h">>, <<"_private", ".h">>, <<".c">>},
   composites   |-> {<<".h">>, <<"_private", ".h">>, <<".c">>}]

(* An argument belongs to --include, or it names an .idl file by itself,     *)
(* behind a "=" or not.                                                      *)
IsIncludes(l, i) ==
  \/ l[i].form = "value" /\ l[i].key = "include"
  \/ l[i].form = "word" /\ i > 1 /\ l[i - 1].form = "flag" /\ l[i - 1].key = "include"

IdlArguments(l, included) ==
  {i \in DOMAIN l : /\ l[i].form \in {"value", "word"} /\ IsIdl(l[i].value)
                    /\ IsIncludes(l, i) = included}

Objects(p, included) ==
  {o \in UNION {Range(Sources[line[i].value].objects) : i \in IdlArguments(line, included)} :
     o.kind = object_type(p)}

Files(included) ==
  UNION { { [path |-> o.name \o e, by |-> Author(p, o.name), pass |-> p] :
              o \in Objects(p, included), e \in Extensions[p] } : p \in DOMAIN Extensions }

UtilityFiles ==
  { [path |-> utilities_filename \o e, by |-> Author("utilities", utilities_filename),
     pass |-> "utilities"] : e \in Range(header_or_body) }

(* Of an included file, what the compiler makes anew is wanted, too.         *)
Wanted ==
  Files(FALSE) \union {f \in Files(TRUE) : f.pass \in Made}
    \union (IF option(line, "output_utility_files") = True THEN UtilityFiles ELSE {})

Authors(path) == {f.by : f \in {g \in Wanted : g.path = path}}

(* Yes and no, as the possible values of a flag write them. *)
On(flag) == IF flag = "debug_printing" THEN "on" ELSE True
Off(flag) == IF flag = "debug_printing" THEN "off" ELSE False

GivenValue(flag, value) ==
  IF value = "true" THEN On(flag) ELSE IF value = "false" THEN Off(flag) ELSE value

(* What an argument says about its flag: an explicit value itself, a flag    *)
(* without one "yes", and one that stands before an .idl file the value      *)
(* that is not the default.                                                  *)
Meaning(l, i) ==
  LET flag == l[i].key
      Said(value) == IF IsIdl(value) THEN acceptable_inputs[flag][2] ELSE GivenValue(flag, value)
  IN  IF l[i].form = "value" THEN Said(l[i].value)
      ELSE IF l[i].form = "no" THEN Off(flag)
      ELSE IF i = Len(l) \/ l[i + 1].form # "word" THEN On(flag)
      ELSE Said(l[i + 1].value)

(* The command lines of the usage message: <options> --package=<name> <.idl  *)
(* file(s)>, each option once and with one of its values, and a name that    *)
(* minimist does not make a number of.                                       *)
Documented(l) ==
  /\ \E i \in DOMAIN l : l[i].form = "word"
  /\ \E i \in DOMAIN l : l[i].key = "package" /\ l[i].value # ""
  /\ \A i \in DOMAIN l :
       \/ l[i].form = "word" /\ IsIdl(l[i].value)
       \/ /\ l[i].form = "value"
          /\ \A j \in DOMAIN l : l[j].key = l[i].key => j = i
          /\ \/ l[i].key = "package" /\ ~IsIdl(l[i].value) /\ l[i].value \notin Numerals
             \/ l[i].key = "include" /\ IsIdl(l[i].value)
             \/ /\ l[i].key \in DOMAIN acceptable_inputs
                /\ GivenValue(l[i].key, l[i].value) \in Range(acceptable_inputs[l[i].key])

(* The variables have their types, and a stream writes only into a file that *)
(* it opened (qfs.write opens, then writes).                                 *)
TypeOK ==
  /\ DOMAIN lists = Kinds
  /\ pc \in {"idle", "rejecting", "parsing", "directory", "script", "loop"}
  /\ pass \in 1..(Len(Passes) + 1)
  /\ mishaps \in 0..MaxMishaps /\ directory \in BOOLEAN /\ run \in 0..MaxRuns
  /\ exit \in {"none", "success", "failure", "killed", "edited"}
  /\ \A k \in DOMAIN queue : queue[k].op = "write" => queue[k].path \in DOMAIN disk
  /\ \A p \in DOMAIN disk : \A by \in disk[p] : by = Human \/ by.run \in 1..run

(* What the user wrote into a stubs file stays there, byte for byte, in      *)
(* every later run that does not ask to overwrite, whatever its .idl file,   *)
(* wherever it is interrupted (docs/tutorial_part1.md:245, the test of       *)
(* file_generators.js:114).                                                  *)
HumanCodeIsKept ==
  [][ (pc \in {"script", "loop"} /\ option(line, "stubs") # "overwrite") =>
        \A p \in DOMAIN disk :
          Human \in disk[p] => p \in DOMAIN disk' /\ disk'[p] = disk[p] ]_vars

(* After a run that was not interrupted every file that was asked for exists *)
(* and, stubs that were there before apart, holds this run's text and none   *)
(* of an earlier run's, even if that one was interrupted: the text that was  *)
(* asked for, or, where a typedef or a union has the name of something else, *)
(* that of one or both.  A file one of whose streams failed is the only      *)
(* exception, and no stream fails for want of the directory unless making it *)
(* failed or was overtaken by a later request: makeDirectory is asked for    *)
(* before any file (generate.js:92, file_generators.js:72-133).              *)
EveryFileIsMade ==
  /\ exit = "success" =>
       \A f \in Wanted :
         f.path \notin failed =>
           /\ f.path \in DOMAIN disk
           /\ \/ disk[f.path] # {} /\ disk[f.path] \subseteq Authors(f.path)
              \/ f.pass = "stubs" /\ option(line, "stubs") = "preserve"
  /\ \A k \in DOMAIN queue :
       queue[k].op = "open" =>
         \/ directory \/ <<>> \in failed
         \/ \E j \in 1 .. k - 1 : queue[j].op = "mkdir"

(* The files of the interfaces, dictionaries, enums and callbacks of an      *)
(* included .idl file, stubs and all, belong to another package or an        *)
(* earlier run and are never touched (generate.js:45, file_generators.js     *)
(* :74), unless a typedef or a union on the same line has the same name.     *)
IncludedFilesAreKept ==
  [][ (pc \in {"script", "loop"}) =>
        \A f \in Files(TRUE) :
          (f.pass \notin Made /\ ~\E g \in Wanted : g.pass \in Made /\ g.path = f.path) =>
             /\ f.path \in DOMAIN disk' <=> f.path \in DOMAIN disk
             /\ f.path \in DOMAIN disk => disk'[f.path] = disk[f.path] ]_vars

(* An .idl file that stands anywhere on an accepted command line is compiled *)
(* once for each time it stands there, even where minimist took it for the   *)
(* value of the flag before it, unless it is an --include's                  *)
(* (parameters.js:98-132).                                                   *)
IdlFilesAreCompiled ==
  pc = "parsing" =>
    \A name \in IdlNames :
      Len(Kept(files(line), {name}))
        = Cardinality({i \in IdlArguments(line, FALSE) : line[i].value = name})

(* An accepted run has for every flag the default or what one of the         *)
(* arguments with that flag means, and the command lines of the usage        *)
(* message are accepted (parameters.js:70-181, 223-248, 257-350).            *)
OptionsAreAsGiven ==
  /\ pc = "parsing" =>
       \A flag \in Range(Flags) :
         LET given == {i \in DOMAIN line : line[i].form # "word" /\ line[i].key = flag}
         IN  option(line, flag) \in
               IF given = {} THEN {acceptable_inputs[flag][1]}
               ELSE {Meaning(line, i) : i \in given}
  /\ pc = "rejecting" => ~Documented(line)
=============================================================================

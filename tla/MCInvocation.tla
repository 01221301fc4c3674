---------------------------- MODULE MCInvocation ----------------------------
(***************************************************************************)
(* TLC instances of Invocation: the operations of MCCallHandler;           *)
(* interfaces with up to three constructors of up to two parameters, used  *)
(* with every list of up to two arguments; and interfaces whose            *)
(* constructors differ in the number of parameters only, compiled.         *)
(***************************************************************************)
EXTENDS Invocation, MCCallHandler

Required(type) == [type |-> type, optional |-> FALSE, variadic |-> FALSE]
Optional(type) == [type |-> type, optional |-> TRUE, variadic |-> FALSE]
Variadic(type) == [type |-> type, optional |-> FALSE, variadic |-> TRUE]

s == {"string"}
n == {"long"}

ShortLists ==
  {<<Required(s)>>, <<Required(n)>>, <<Required(s \cup n)>>,
   <<Optional(n)>>, <<Required(s), Optional(n)>>, <<Variadic(s)>>}

ConstructorLists ==
  ShortLists \cup {<< >>, <<Required(s), Required(n)>>, <<Required(n), Required(s)>>}

UsedFiles ==
  {file \in SeqOf(ConstructorLists, 2) \cup SeqOf(ShortLists, 3) : file # << >>}

Arguments == SeqOf({"text", "num", "undefined"}, 2)

(* required plain parameters, then optional ones, then maybe a variadic one. *)
ListWith(required, optional, variadic) ==
  [i \in 1 .. required |-> Required(n)] \o [i \in 1 .. optional |-> Optional(n)]
    \o [i \in 1 .. variadic |-> Variadic(n)]

CountedLists(max) ==
  {ListWith(r, o, v) : <<r, o, v>> \in {<<r, o, v>> \in (0 .. 2) \X (0 .. max) \X (0 .. 1) :
                                         v = 1 => o < 2}}

Counted ==
  {file \in SeqOf(CountedLists(2), 2) \cup SeqOf(CountedLists(1), 3) :
     file # << >> /\ file \notin UsedFiles}
=============================================================================

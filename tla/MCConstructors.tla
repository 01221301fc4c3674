--------------------------- MODULE MCConstructors ---------------------------
(***************************************************************************)
(* A TLC instance of Constructors: the interface of a unit test.            *)
(***************************************************************************)
EXTENDS Constructors

(* The interface two_constructors_one_with_optional_param of the unit test. *)
UnitTestLists ==
  {<<[required |-> 1, optional |-> 1, variadic |-> FALSE],
     [required |-> 1, optional |-> 0, variadic |-> FALSE]>>}
============================================================================

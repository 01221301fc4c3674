--------------------------- MODULE MCInheritance ---------------------------
(***************************************************************************)
(* TLC instances of Inheritance.                                           *)
(***************************************************************************)
EXTENDS Inheritance

CONSTANTS A, B, C, elsewhere, external, f, g

ThreeObjects == {A, B, C}
TwoElsewhere == {elsewhere, external}
TwoNames == {f, g}

Parents == [ThreeObjects -> ThreeObjects \cup TwoElsewhere \cup {None}]
Lists == {<< >>, <<f>>, <<f, g>>, <<g, f>>}

Input(kind, parents, own_fields, own_operations) ==
  [are_dictionaries |-> kind,
   inheritance |-> parents,
   externalTypes |-> [x \in ThreeObjects |-> {external}],
   fields |-> own_fields, operations |-> own_operations]

(* Every inheritance relation, with every choice of members. *)
DictionaryInputs ==
  {Input(TRUE, p, own, [x \in ThreeObjects |-> << >>]) :
      p \in Parents, own \in [ThreeObjects -> Lists]}

(* Every inheritance relation of interfaces that each define some of two    *)
(* names, as an attribute or as an operation.                               *)
Halves == {<<<< >>, << >>>>, <<<<f>>, <<g>>>>, <<<<f, g>>, << >>>>, <<<< >>, <<g, f>>>>}
InterfaceInputs ==
  {Input(FALSE, p, [x \in ThreeObjects |-> h[x][1]], [x \in ThreeObjects |-> h[x][2]]) :
      p \in Parents, h \in [ThreeObjects -> Halves]}

AllInputs == DictionaryInputs \cup InterfaceInputs
============================================================================

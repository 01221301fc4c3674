-------------------------- MODULE MCTypeRecursion --------------------------
(***************************************************************************)
(* TLC instances of TypeRecursion.                                         *)
(***************************************************************************)
EXTENDS TypeRecursion, FiniteSets, SequencesExt

CONSTANTS A, B, C, long, alias, union

(* Every graph of three objects whose field lists hold at most two fields.  *)
ThreeObjects == {A, B, C}
SmallTypes == ThreeObjects \cup {long}
SmallInputs ==
  {[t \in SmallTypes |-> IF t = long THEN << >> ELSE f[t]] :
      f \in [ThreeObjects -> SeqOf(SmallTypes, 2)]}

(* Two dictionaries whose fields may be a typedef of a dictionary or a      *)
(* union of two types.                                                      *)
TwoObjects == {A, B}
HiddenTypes == {A, B, long, alias, union}
HiddenInputs ==
  {[t \in HiddenTypes |->
      CASE t = long  -> << >>
        [] t = alias -> <<A>>
        [] t = union -> <<B, long>>
        [] OTHER     -> f[t]] :
      f \in [TwoObjects -> SeqOf({A, B, long, alias, union}, 1)]}
============================================================================

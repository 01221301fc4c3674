--------------------------- MODULE MCRuntimeInit ---------------------------
(***************************************************************************)
(* TLC instances of RuntimeInit: three constructs, of every kind and with  *)
(* every dependency relation.                                              *)
(***************************************************************************)
EXTENDS RuntimeInit, FiniteSets

CONSTANTS A, B, C

ThreeConstructs == {A, B, C}

KindsOf == [ThreeConstructs -> Kinds]

Relations == [ThreeConstructs -> SUBSET ThreeConstructs]

(* Enough kinds for each to meet each other one. *)
MixedKinds ==
  {k \in KindsOf : /\ k[A] \in {"module", "NoInterfaceObject"}
                   /\ k[B] \in {"interface", "composite"}
                   /\ k[C] \in {"callback", "composite", "NoInterfaceObject", "dictionary"}}

(* Constructs whose initializers have no effective guard. *)
Unguarded(k) == {x \in ThreeConstructs : k[x] \in {"NoInterfaceObject", "composite"}}

(* No cycle of dependencies consists of such constructs only. *)
GuardedCycles(k, d) ==
  \A S \in SUBSET Unguarded(k) : S # {} => \E x \in S : d[x] \cap S = {}

GuardedInputs ==
  {input \in [kind : MixedKinds, dependencies : Relations] :
     GuardedCycles(input.kind, input.dependencies)}
============================================================================

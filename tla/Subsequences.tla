----------------------------- MODULE Subsequences -----------------------------
(***************************************************************************)
(* The elements of a sequence that are in a set, in their order: what a    *)
(* loop (or filter) over an array picks from it.  It says the same as      *)
(* SelectSeq with a test for membership, but is defined so that its        *)
(* properties can be proved (module SequenceFacts).                        *)
(***************************************************************************)
EXTENDS Naturals, Sequences

Kept(seq, S) ==
  LET kept[n \in 0 .. Len(seq)] ==
        IF n = 0 THEN << >>
        ELSE IF seq[n] \in S THEN Append(kept[n - 1], seq[n]) ELSE kept[n - 1]
  IN  kept[Len(seq)]

(* The elements of a finite set of numbers up to max, in increasing order. *)
Increasing(S, max) == Kept([i \in 1 .. max |-> i], S)
=============================================================================

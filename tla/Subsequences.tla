----------------------------- MODULE Subsequences -----------------------------
(***************************************************************************)
(* Loops that pick some elements of a list, in its order: the result is    *)
(* the list at a set of positions.                                         *)
(***************************************************************************)
EXTENDS Integers, FiniteSets

(* The members of a finite set of numbers, smallest first. *)
Ascending(S) ==
  [k \in 1..Cardinality(S) |-> CHOOSE i \in S : Cardinality({j \in S : j <= i}) = k]

(* The elements of seq at the positions P, in order. *)
At(seq, P) ==
  LET positions == Ascending(P) IN [k \in 1..Cardinality(P) |-> seq[positions[k]]]

(* The positions of seq that hold something for the first time. *)
FirstPositions(seq) == {i \in DOMAIN seq : \A j \in 1..(i - 1) : seq[j] # seq[i]}

(* Where seq holds x first. *)
PositionIn(seq, x) == CHOOSE i \in DOMAIN seq : seq[i] = x /\ \A j \in 1..(i - 1) : seq[j] # x
=============================================================================

---------------------------- MODULE MC_MultiSDR ----------------------------
(***************************************************************************)
(* Instances of MultiSDR for TLC.  The parents are those of a small graph  *)
(* in the two layouts of drgraph.rs: the preceding node last (V1_0_0) or   *)
(* first (V1_1_0, V1_2_0).                                                 *)
(***************************************************************************)
EXTENDS MultiSDR, TLC

Far(n) == IF n = 0 THEN 0 ELSE n \div 2

Preceding(n) == IF n = 0 THEN 0 ELSE n - 1

PrecedingLast == [n \in Nodes |-> [k \in Base |-> IF k = K THEN Preceding(n) ELSE Far(n)]]

PrecedingFirst == [n \in Nodes |-> [k \in Base |-> IF k = 1 THEN Preceding(n) ELSE Far(n)]]

Symmetry == Permutations(Producers)
============================================================================

-------------------------------- MODULE SDR --------------------------------
(***************************************************************************)
(* What label generation promises, whatever threads and caches carry it    *)
(* out: the labels of a layer are computed one node at a time, each from   *)
(* the finished labels of its parents, and a layer starts when the layer   *)
(* before it is complete.  It is the common abstraction of single.rs and   *)
(* multi.rs under storage-proofs-porep/src/stacked/vanilla/create_label/.  *)
(***************************************************************************)
EXTENDS Naturals

CONSTANTS N,        \* nodes of a layer (graph.size())
          Layers,   \* layers of the stacked graph
          K,        \* BASE_DEGREE
          Parent    \* Parent[n][k]: the k-th base parent of node n

VARIABLES layer,    \* the layer being labelled
          labelled  \* the nodes of that layer whose label is final and right

sdrVars == <<layer, labelled>>

Nodes == 0 .. N - 1
Base  == 1 .. K

Init == layer = 1 /\ labelled = {}

\* Node 0 has no parents: its label depends on the replica and the layer only.
LabelNode(n) ==
    /\ n \notin labelled
    /\ n > 0 => \A k \in Base : Parent[n][k] \in labelled
    /\ labelled' = labelled \cup {n}
    /\ UNCHANGED layer

NextLayer ==
    /\ labelled = Nodes
    /\ layer < Layers
    /\ layer' = layer + 1
    /\ labelled' = {}

Next == (\E n \in Nodes : LabelNode(n)) \/ NextLayer

Spec == Init /\ [][Next]_sdrVars
============================================================================

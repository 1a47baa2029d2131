---------------------------- MODULE MC_SingleSDR ----------------------------
(* Instances of SingleSDR for TLC: a small graph whose expander parents may lie *)
(* before and after the node.                                                   *)
EXTENDS SingleSDR

MCParent == [m \in Nodes |-> [k \in Base |->
    IF m = 0 THEN 0 ELSE IF k = K THEN m - 1 ELSE m \div 2]]

MCExpander == [m \in Nodes |-> {(m * 3 + 1) % N, N - 1 - m}]

AnyLeftovers == SUBSET LayerNos
============================================================================

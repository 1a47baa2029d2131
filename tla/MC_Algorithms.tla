--------------------------- MODULE MC_Algorithms ---------------------------
EXTENDS Algorithms

MCShapes == {TreeShape(2, 0, 0, 8), TreeShape(8, 0, 0, 8), TreeShape(16, 0, 0, 16), TreeShape(4, 2, 0, 4), TreeShape(2, 4, 2, 4), TreeShape(8, 2, 4, 8)}

MCStreams == {<<1, 3, 2>>, <<2, 5, 0>>}

MCGraphSizes == {2, 3, 5, 8, 16}

MCSynthShapes == {TreeShape(2, 2, 0, 4), TreeShape(2, 2, 2, 2)}

MCUpdateSizes == {2 ^ 5, 2 ^ 8, 2 ^ 9, 2 ^ 18, 2 ^ 24}

MCPostConfigs == {PostConfig("window", 2, 2, api) : api \in {"V1_1", "V1_2"}} \cup {PostConfig("winning", 1, 6, api) : api \in {"V1_1", "V1_2"}}

MCOperations == [op : {"seal", "update", "fake"}, gpu : BOOLEAN]

MCRequests == {2, 6, 16}

MCPorepConfigs == {[ni |-> ni, partitions |-> p, minimum |-> 3, api |-> "V1_2", h |-> 1] : ni \in BOOLEAN, p \in 1..2}
                    \cup {[ni |-> TRUE, partitions |-> 1, minimum |-> 3, api |-> "V1_1", h |-> 1]}

MCSealInfos == {[id |-> 1, ticket |-> 1, commR |-> 1, commD |-> 1, seed |-> s] : s \in 0..2} \cup {[id |-> 2, ticket |-> 1, commR |-> 2, commD |-> 1, seed |-> 1]}

MCUpdateInfos == {[commROld |-> 1, commRNew |-> n, commDNew |-> 1, h |-> h] : n \in 1..2, h \in {1}} \cup {[commROld |-> 1, commRNew |-> 1, commDNew |-> 1, h |-> 2]}
=============================================================================

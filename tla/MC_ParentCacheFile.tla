------------------------ MODULE MC_ParentCacheFile ------------------------
(* Instances of ParentCacheFile for TLC. *)
EXTENDS ParentCacheFile, TLC

Symmetry == Permutations(Procs)

\* The processes are alike: it is enough to look at the settings where those that
\* verify come first in some order of theirs.
Rank == CHOOSE rank \in [Procs -> 1 .. Cardinality(Procs)] : \A p, q \in Procs : rank[p] = rank[q] => p = q

VerifiersFirst == \A p, q \in Procs : Rank[p] < Rank[q] /\ verify[q] => verify[p]

MC_Init == Init /\ VerifiersFirst

MC_Spec == MC_Init /\ [][Next]_vars /\ Fairness
============================================================================

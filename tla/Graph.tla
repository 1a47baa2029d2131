-------------------------------- MODULE Graph --------------------------------
(* The graphs of sealing as pure functions: the bucket sampled base parents   *)
(* of drgraph.rs, the expander parents that a Feistel permutation of all      *)
(* (node, parent) pairs gives, and the list of parents a label hashes.  A     *)
(* graph is [nodes, api, seed, keys]: seed and keys are streams of numbers.   *)
EXTENDS Integers, Sequences, SequencesExt, FiniteSetsExt, Bitwise

CONSTANTS
  BaseDegree,     \* BASE_DEGREE: base parents of a node
  ExpDegree,      \* EXP_DEGREE: expander parents of a node
  TotalParents,   \* TOTAL_PARENTS: parents a label hashes
  U32             \* 2^32: API version 1.0 casts to u32 before it divides

(* A hash or key stream: a fixed but arbitrary function of its position.      *)
Draw(stream, j) == (stream[1] * j * j + stream[2] * j + stream[3]) % 251

(* The seeds of the base graph and the Feistel keys are derived from the      *)
(* porep_id, which stands here as one stream.                                 *)
StackedGraph(nodes, api, porepId) ==
  [nodes |-> nodes, api |-> api, seed |-> porepId,
   keys |-> [i \in 1..4 |-> <<porepId[1] + i, porepId[2] * i, porepId[3] + i>>]]

BucketCount(metagraphNode) == CHOOSE b \in 0..40 : 2 ^ b >= metagraphNode /\ \A c \in 0..(b - 1) : 2 ^ c < metagraphNode

(* One base parent of a node, from two random numbers.                        *)
SampleParent(node, r1, r2) ==
  LET mPrime        == BaseDegree - 1
      metagraphNode == node * mPrime
      bucketIndex   == (r1 % BucketCount(metagraphNode)) + 1
      largest       == Min({metagraphNode, 2 ^ bucketIndex})
      smallest      == Max({2, largest \div 2})
      distance      == smallest + (r2 % (largest - smallest + 1))
      mapped        == (metagraphNode - distance) \div mPrime
  IN IF mapped = node THEN node - 1 ELSE mapped

(* The predecessor comes last in API version 1.0, first in the later ones.    *)
BaseParents(g, node) ==
  LET random(j) == Draw(g.seed, 7 * node + j)
      others    == [i \in 1..(BaseDegree - 1) |-> SampleParent(node, random(2 * i), random(2 * i + 1))]
  IN CASE node <= 1                    -> [i \in 1..BaseDegree |-> 0]
       [] node > 1 /\ g.api = "V1_0"   -> Append(others, node - 1)
       [] OTHER                        -> <<node - 1>> \o others

(* The least number of half bits whose square covers the elements.            *)
Precompute(elements) == CHOOSE h \in 1..20 : 4 ^ h >= elements /\ (h > 1 => 4 ^ (h - 1) < elements)

FeistelRounds == 3

RoundFunction(right, key, half) == Draw(key, right) % 2 ^ half

FeistelEncode(index, keys, half) ==
  LET round(s, i) == [left |-> s.right, right |-> s.left ^^ RoundFunction(s.right, keys[i], half)]
      end == FoldLeft(round, [left |-> index \div 2 ^ half, right |-> index % (2 ^ half)], [i \in 1..FeistelRounds |-> i])
  IN end.left * 2 ^ half + end.right

FeistelDecode(index, keys, half) ==
  LET round(i, s) == [left |-> s.right ^^ RoundFunction(s.left, keys[i], half), right |-> s.left]
      end == FoldRight(round, [i \in 1..FeistelRounds |-> i], [left |-> index \div 2 ^ half, right |-> index % (2 ^ half)])
  IN end.left * 2 ^ half + end.right

(* The rounds are repeated until the result is an element.                    *)
Bug_Permute(elements, index, keys) == FeistelEncode(index, keys, Precompute(elements)) % elements

Permute(elements, index, keys) ==
  LET half == Precompute(elements)
      walk[u \in 0..(4 ^ half - 1)] == IF u < elements THEN u ELSE walk[FeistelEncode(u, keys, half)]
  IN walk[FeistelEncode(index, keys, half)]

InvertPermute(elements, index, keys) ==
  LET half == Precompute(elements)
      walk[u \in 0..(4 ^ half - 1)] == IF u < elements THEN u ELSE walk[FeistelDecode(u, keys, half)]
  IN walk[FeistelDecode(index, keys, half)]

Correspondent(g, node, i) ==
  LET transformed == Permute(g.nodes * ExpDegree, node * ExpDegree + i, g.keys)
  IN IF g.api = "V1_0" THEN (transformed % U32) \div ExpDegree ELSE transformed \div ExpDegree

ExpandedParents(g, node) == [i \in 1..ExpDegree |-> Correspondent(g, node, i - 1)]

Parents(g, node) == BaseParents(g, node) \o ExpandedParents(g, node)

(* What is hashed after the head of a label: the base parents six times over  *)
(* in layer 1, all parents twice and the first of them again in the others.   *)
CopyParentsData(labels) ==
  labels \o labels \o labels \o labels \o labels \o labels \o <<labels[1]>>

CopyParentsDataExp(labels) == labels \o labels \o SubSeq(labels, 1, TotalParents - 2 * Len(labels))
=============================================================================

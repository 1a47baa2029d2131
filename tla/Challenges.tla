----------------------------- MODULE Challenges -----------------------------
(* Which nodes are challenged, and where what answers a challenge is found:   *)
(* the three kinds of PoRep challenges, the file of synthetic PoRep proofs    *)
(* with its computed offsets, the partitioned challenges of a sector update,  *)
(* the apex leafs of tree D, and the rhos that encode a range of nodes.       *)
EXTENDS PoRCircuit, Graph

CONSTANTS
  SynthCount,     \* DEFAULT_SYNTH_CHALLENGE_COUNT
  ChunkNodes      \* READER_CHUNK_SIZE in nodes

BigintToChallenge(bigint, nodes) == (bigint % (nodes - 1)) + 1

(* Interactive challenges hash the seed, non-interactive ones comm_r.         *)
DeriveInteractive(n, nodes, seed, k) == [i \in 1..n |-> BigintToChallenge(Draw(seed, n * k + i - 1), nodes)]

DeriveNi(n, nodes, comm_r, k) == [i \in 1..n |-> BigintToChallenge(Draw(comm_r, n * k + i - 1), nodes)]

(* The generator is an iterator over the key stream; seeking to challenge i   *)
(* is seeking to byte 32 * i of the stream.                                   *)
NumSynthChallenges(nodes) == Min({nodes, SynthCount})

GenSynthChallenge(nodes, comm_r, i) == BigintToChallenge(Draw(comm_r, (i * 32) \div 32), nodes)

DeriveSynthetic(nodes, comm_r) == [i \in 1..NumSynthChallenges(nodes) |-> GenSynthChallenge(nodes, comm_r, i - 1)]

Bug_DeriveIndexes(n, nodes, seed, k) ==
  [i \in 1..n |-> Draw(seed, k + i - 1) % NumSynthChallenges(nodes)]

DeriveIndexes(n, nodes, seed, k) ==
  LET first == k * n
  IN [i \in 1..n |-> Draw(seed, (first * 4 + (i - 1) * 4) \div 4) % NumSynthChallenges(nodes)]

DeriveSynth(n, nodes, comm_r, seed, k) ==
  LET indexes == DeriveIndexes(n, nodes, seed, k)
  IN [i \in 1..n |-> GenSynthChallenge(nodes, comm_r, indexes[i])]

NoSeed == <<>>

(* PublicInputs::challenges; without a seed all synthetic challenges.         *)
PublicChallenges(kind, n, nodes, comm_r, seed, k) ==
  CASE kind = "interactive"              -> DeriveInteractive(n, nodes, seed, k)
    [] kind = "synth" /\ seed = NoSeed   -> DeriveSynthetic(nodes, comm_r)
    [] kind = "synth" /\ seed # NoSeed   -> DeriveSynth(n, nodes, comm_r, seed, k)
    [] kind = "ni"                       -> DeriveNi(n, nodes, comm_r, k)

(****************************************************************************)
(* Synthetic proofs.  The file is a sequence of words of 8 bytes: an index    *)
(* takes one, a node four.                                                    *)
(****************************************************************************)
NodeWords(v) == [q \in 1..4 |-> <<v, q>>]

IndexWord(i) == << <<i, 0>> >>

NodesOf(path) == FlattenSeq([k \in DOMAIN path |-> path[k].hashes])

WriteNodes(nodes) == FlattenSeq([k \in DOMAIN nodes |-> NodeWords(nodes[k])])

WriteMerkleProof(proof) == WriteNodes(<<proof.leaf>> \o NodesOf(ProofPath(proof)))

WriteColumnProof(c) == WriteNodes(c.rows) \o WriteMerkleProof(c.proof)

SynthWrite(t, proofs) ==
  LET one(p) ==
        LET parents == p.drg \o p.exp
        IN IndexWord(InclusionIndex(p.d.base, 2))
           \o FlattenSeq([k \in DOMAIN parents |-> IndexWord(PathIndex(t, parents[k].proof))])
           \o WriteMerkleProof(p.d) \o WriteColumnProof(p.c_x)
           \o FlattenSeq([k \in DOMAIN parents |-> WriteColumnProof(parents[k])])
           \o WriteMerkleProof(p.r)
  IN WriteNodes(<<proofs[1].d.root, proofs[1].c_x.proof.root, proofs[1].r.root>>)
     \o FlattenSeq([i \in DOMAIN proofs |-> one(proofs[i])])

ArityBits(arity) == IF arity = 0 THEN 0 ELSE Log2(arity)

SynthPathArities(t, nodes) ==
  [k \in 1..((Log2(nodes) - ArityBits(t.sub) - ArityBits(t.top)) \div Log2(t.arity)) |-> t.arity]
  \o (IF t.sub = 0 THEN <<>> ELSE <<t.sub>>) \o (IF t.top = 0 THEN <<>> ELSE <<t.top>>)

ProofSize(t, nodes, layers) ==
  LET arities == SynthPathArities(t, nodes)
      proof_d == 1 + Log2(nodes)
      proof_r == FoldLeft(LAMBDA n, a : n + a - 1, 1, arities)
      indexes == 1 + BaseDegree + ExpDegree
  IN indexes * 8 + (proof_d + indexes * (layers + proof_r) + proof_r) * NODE_SIZE

ReadNode(file, word) == file[word][1]

ReadProofD(file, word, challenge, root, len) ==
  [base |-> [i \in 1..len |-> [hashes |-> <<ReadNode(file, word + 4 * i)>>, index |-> (challenge \div 2 ^ (i - 1)) % 2]],
   sub |-> <<>>, top |-> <<>>, leaf |-> ReadNode(file, word), root |-> root]

(* The index of each element of a path is cut out of the challenge.           *)
ReadProofR(t, file, word, challenge, root, nodes) ==
  LET arities  == SynthPathArities(t, nodes)
      before(k) == FoldLeft(LAMBDA n, j : n + arities[j] - 1, 0, [j \in 1..(k - 1) |-> j])
      shift(k) == FoldLeft(LAMBDA n, j : n + Log2(arities[j]), 0, [j \in 1..(k - 1) |-> j])
  IN FromParts(t, ReadNode(file, word), root,
       [k \in DOMAIN arities |->
          [hashes |-> [s \in 1..(arities[k] - 1) |-> ReadNode(file, word + 4 * (before(k) + s))],
           index  |-> (challenge \div 2 ^ shift(k)) % arities[k]]])

ReadColumnProof(t, file, word, challenge, root, nodes, layers) ==
  [index |-> challenge, rows |-> [l \in 1..layers |-> ReadNode(file, word + 4 * (l - 1))],
   proof |-> ReadProofR(t, file, word + 4 * layers, challenge, root, nodes)]

(* What the circuits need of the parents is rebuilt from the columns: a label *)
(* of layer 1 has drg parents only, and the list is repeated.                 *)
LabelingParents(layer, drg, exp) ==
  LET labels == [k \in DOMAIN drg |-> drg[k].rows[layer]]
                \o (IF layer = 1 THEN <<>> ELSE [k \in DOMAIN exp |-> exp[k].rows[layer - 1]])
  IN [i \in 1..TotalParents |-> labels[((i - 1) % Len(labels)) + 1]]

ProofFromParts(d, c_x, drg, exp, r) ==
  [node |-> c_x.index, d |-> d, c_x |-> c_x, drg |-> drg, exp |-> exp, r |-> r,
   labeling |-> [l \in DOMAIN c_x.rows |-> LabelingParents(l, drg, exp)],
   encoding |-> LabelingParents(Len(c_x.rows), drg, exp)]

SynthRead(t, file, nodes, layers, indexes) ==
  LET rootAt(r) == ReadNode(file, 4 * (r - 1) + 1)
      parents   == BaseDegree + ExpDegree
      proofR    == FoldLeft(LAMBDA n, a : n + a - 1, 1, SynthPathArities(t, nodes))
      one(i) ==
        LET start  == (3 * NODE_SIZE + i * ProofSize(t, nodes, layers)) \div 8 + 1
            node(k) == file[start + k][1]
            d      == start + 1 + parents
            cols   == d + 4 * (1 + Log2(nodes))
            colAt(k) == ReadColumnProof(t, file, cols + k * 4 * (layers + proofR), node(k), rootAt(2), nodes, layers)
        IN ProofFromParts(ReadProofD(file, d, node(0), rootAt(1), Log2(nodes)), colAt(0),
                          [k \in 1..BaseDegree |-> colAt(k)], [k \in 1..ExpDegree |-> colAt(BaseDegree + k)],
                          ReadProofR(t, file, cols + (1 + parents) * 4 * (layers + proofR), node(0), rootAt(3), nodes))
  IN [i \in DOMAIN indexes |-> one(indexes[i])]

ColumnProof(treeC, columns, i) == [index |-> i, rows |-> columns[i + 1], proof |-> GenProof(treeC, i)]

(* One vanilla proof, as the prover makes it from the trees and the labels.   *)
VanillaProof(s, challenge) ==
  LET columns(parents) == [p \in DOMAIN parents |-> ColumnProof(s.c, s.columns, parents[p])]
  IN ProofFromParts(GenProof(s.d, challenge), ColumnProof(s.c, s.columns, challenge),
                    columns(BaseParents(s.g, challenge)), columns(ExpandedParents(s.g, challenge)),
                    GenProof(s.r, challenge))

(****************************************************************************)
(* Sector updates                                                            *)
(****************************************************************************)
PartitionCount(nodes) ==
  CASE nodes <= 2 ^ 8 -> 1 [] nodes > 2 ^ 8 /\ nodes <= 2 ^ 10 -> 2
    [] nodes > 2 ^ 10 /\ nodes <= 2 ^ 19 -> 4 [] OTHER -> 16

ChallengeCount(nodes) == IF nodes <= 2 ^ 19 THEN 10 ELSE 86

Hs(nodes) == IF nodes <= 2 ^ 10 THEN <<1, 1, 1, 1, 1, 1>> ELSE <<7, 8, 9, 10, 11, 12>>

HDefault(nodes) == Hs(nodes)[4]

(* The position of h in the list, as one bit.                                 *)
HSelect(nodes, h) == 2 ^ ((CHOOSE i \in 1..6 : Hs(nodes)[i] = h /\ \A j \in 1..(i - 1) : Hs(nodes)[j] # h) - 1)

ApexLeafCount(nodes) == IF nodes <= 2 ^ 8 THEN 8 ELSE 128

UpdateParams(nodes) ==
  [nodes |-> nodes, count |-> ChallengeCount(nodes), bits |-> Log2(nodes), partitions |-> PartitionCount(nodes),
   partitionBits |-> Log2(PartitionCount(nodes)), apex |-> ApexLeafCount(nodes), apexBits |-> Log2(ApexLeafCount(nodes))]

PoseidonParams(nodes) ==
  [nodes |-> nodes, count |-> ChallengeCount(nodes) * PartitionCount(nodes), bits |-> Log2(nodes), partitions |-> 1,
   partitionBits |-> 0, apex |-> 0, apexBits |-> 0]

FrCapacity == 254

RandomBits(pp) == pp.bits - pp.partitionBits

PerDigest(pp) == FrCapacity \div RandomBits(pp)

(* The i-th challenge of partition k comes from bits of one digest: which     *)
(* digest, and which of its bits.                                             *)
DigestPlace(pp, k, i) ==
  LET digestsPerPartition == (pp.count + PerDigest(pp) - 1) \div PerDigest(pp)
  IN [digest |-> k * digestsPerPartition + i \div PerDigest(pp), start |-> (i % PerDigest(pp)) * RandomBits(pp)]

UpdateChallenge(pp, k, random) == k * 2 ^ RandomBits(pp) + (random % 2 ^ RandomBits(pp))

(* Where the apex leafs of partition k are in the store of tree D, whose rows *)
(* follow each other from the leaves up: prove reads them by this offset.     *)
ApexLeafsStart(pp, k) ==
  LET total == pp.partitions * pp.apex
  IN (2 * pp.nodes - 1) - (2 * total - 1) + k * pp.apex

ApexLeafsHeight(pp) == pp.bits - pp.partitionBits - pp.apexBits

(* Rows of the apex tree, as the nodes of tree D they should hold; a path is  *)
(* consistent with it when each sibling is in the row of its height.          *)
ApexPathInTree(pp, k, c) ==
  \A r \in 0..(pp.apexBits - 1) :
    LET at      == c \div 2 ^ (ApexLeafsHeight(pp) + r)
        sibling == IF at % 2 = 0 THEN at + 1 ELSE at - 1
        first   == (k * pp.apex) \div 2 ^ r
    IN sibling \in first..(first + pp.apex \div 2 ^ r - 1)

RhoBits(h, nodes) == Log2(nodes) - h

RhoRange(offset, num, shr) == (offset \div 2 ^ shr)..((offset + num - 1) \div 2 ^ shr)

(* Decoding num nodes from an offset on, chunk by chunk of both files; each   *)
(* node is paired with the rho it is decoded with.                            *)
DecodeFromRange(nodes, h, offset, num, input) ==
  LET shr    == RhoBits(h, nodes)
      rhos   == RhoRange(offset, num, shr)
      chunks == [c \in 1..((Len(input) + ChunkNodes - 1) \div ChunkNodes) |->
                   SubSeq(input, (c - 1) * ChunkNodes + 1, Min({c * ChunkNodes, Len(input)}))]
      size(c) == Min({num - (c - 1) * ChunkNodes, ChunkNodes})
      taken  == SelectSeq([c \in DOMAIN chunks |-> c], LAMBDA c : (c - 1) * ChunkNodes <= num)
      rho(i) == LET high == (offset + i) \div 2 ^ shr IN IF high \in rhos THEN high ELSE -1
  IN IF \E c \in Range(taken) : size(c) > Len(chunks[c]) THEN [ok |-> FALSE, out |-> <<>>]
     ELSE [ok |-> TRUE, out |-> FlattenSeq([c \in DOMAIN taken |->
             [j \in 1..size(c) |-> [node |-> chunks[c][j], rho |-> rho((c - 1) * ChunkNodes + j - 1)]]])]
=============================================================================

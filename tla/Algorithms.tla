----------------------------- MODULE Algorithms -----------------------------
(* The library as its callers see it: one call at a time of its sequential    *)
(* algorithms, each with every small input and composed as the code composes  *)
(* them, or several concurrent calls that build the trees of phase 2.         *)
EXTENDS PoRepCircuit, Post, Pieces, Aggregation, TreePipeline

CONSTANTS
  Shapes,         \* shapes of the trees that leaves are proved in
  Streams,        \* seeds, commitments and porep_ids
  GraphSizes,     \* nodes of the graphs that are built
  SynthShapes,    \* shapes of tree C and tree R of the sectors
  UpdateSizes,    \* sectors, in nodes, whose update challenges are derived
  Units,          \* blocks of a staged sector
  Requests        \* sizes a reader may be asked for

vars == <<call, treeVars>>

Init == call = Idle /\ TreeInit

(* The replica is split and a tree built over it.                             *)
BuildTrees ==
  \E t \in Shapes :
    /\ call = Idle
    /\ call' = [fn |-> "trees", t |-> t, trees |-> BaseTrees(t, [i \in 1..Leafs(t) |-> LeafNode(i)])]

JoinTrees ==
  /\ call.fn = "trees"
  /\ call' = [fn |-> "tree", tree |-> CreateTree(call.t, call.trees)]

(* A leaf is challenged and its proof made, then verified and handed to the   *)
(* circuits.                                                                  *)
ProveLeaf ==
  /\ call.fn = "tree"
  /\ \E c \in 0..(Leafs(call.tree.t) - 1) :
       call' = [fn |-> "por", tree |-> call.tree, challenge |-> c, p |-> PoRProve(call.tree, c, LeafNode(c + 1))]

CheckLeaf ==
  LET p       == call.p
      t       == call.tree.t
      path    == ProofPath(p.proof)
      auth    == AuthPathFrom(t, path)
  IN /\ call.fn = "por"
     /\ call' = [fn |-> "prove_leaf", t |-> t, challenge |-> call.challenge, root |-> call.tree.root, proof |-> p.proof,
                   accepted |-> {c \in 0..(Leafs(t) - 1) : PoRVerify(t, call.tree.root, c, p)},
                   parts |-> FromParts(t, p.proof.leaf, p.proof.root, path),
                   widths |-> PathWidths(auth),
                   circuit |-> PoRSynthesize(t, p.data, auth, p.proof.root, FALSE),
                   bare |-> {c \in 0..(Leafs(t) - 1) :
                               PoRNoChallengeInput(t, ToBits(Log2(Leafs(t)), c), p.data,
                                                   [k \in DOMAIN path |-> path[k].hashes], p.proof.root)}]

(* What MerkleProof proves is the challenged leaf and no other one, outside   *)
(* and inside the circuits, whatever the arities of base, sub and top tree:   *)
(* PoR::verify accepts no other challenge, a proof that is taken apart and    *)
(* put together from its parts is the same, the circuits PoRCircuit and       *)
(* por_no_challenge_input are satisfied with the verifier's public inputs for *)
(* it only and have the shape of the blank circuit, and what the tree cache   *)
(* discards leaves at least two rows.                                         *)
ProvesLeaf ==
  call.fn = "prove_leaf" =>
    /\ call.accepted = {call.challenge}
    /\ call.parts = call.proof
    /\ call.widths = AuthPathBlank(call.t, Leafs(call.t))
    /\ call.circuit = [sat |-> TRUE, inputs |-> PoRPublicInputs(call.t, call.challenge, call.root, FALSE)]
    /\ call.bare = {call.challenge}
    /\ \A setting \in 0..3 : DefaultRowsToDiscard(call.t.base, call.t.arity, setting)
                                <= Max({0, RowCount(call.t.base, call.t.arity) - 2})

(****************************************************************************)
(* Challenges                                                                *)
(****************************************************************************)
DeriveChallenges ==
  \E kind \in {"interactive", "synth", "ni"}, n \in 1..3, partitions \in 1..3, nodes \in {2, 4, 8},
     comm_r \in Streams, seed \in Streams :
    /\ call = Idle
    /\ call' = [fn |-> "challenges", kind |-> kind, n |-> n, nodes |-> nodes,
                parts |-> [k \in 1..partitions |-> PublicChallenges(kind, n, nodes, comm_r, seed, k - 1)],
                whole |-> PublicChallenges(kind, n * partitions, nodes, comm_r, seed, 0),
                synthetic |-> PublicChallenges("synth", n, nodes, comm_r, NoSeed, 0)]

(* The synthetic proofs of a sector, their file, and what is read of it.      *)
SynthTrees ==
  \E t \in SynthShapes, layers \in 1..2 :
    LET n == Leafs(t)
        columns == [i \in 1..n |-> [l \in 1..layers |-> LeafNode(10 * l + i)]]
        tree(shape, leaves) == CreateTree(shape, BaseTrees(shape, leaves))
    IN /\ call = Idle
       /\ call' = [fn |-> "synth_trees", g |-> StackedGraph(n, "V1_2", <<1, 3, 2>>), columns |-> columns,
                   d |-> tree(TreeShape(2, 0, 0, n), [i \in 1..n |-> LeafNode(100 + i)]),
                   c |-> tree(t, [i \in 1..n |-> Hash(columns[i])]),
                   r |-> tree(t, [i \in 1..n |-> LeafNode(200 + i)])]

SynthProve ==
  /\ call.fn = "synth_trees"
  /\ \E comm_r \in Streams :
       LET synthetic == DeriveSynthetic(Leafs(call.c.t), comm_r)
       IN call' = [fn |-> "synth_proofs", t |-> call.c.t, comm_r |-> comm_r, layers |-> Len(call.columns[1]),
                   proofs |-> [i \in DOMAIN synthetic |-> VanillaProof(call, synthetic[i])]]

SynthStore ==
  /\ call.fn = "synth_proofs"
  /\ call' = [fn |-> "synth_file", t |-> call.t, comm_r |-> call.comm_r, layers |-> call.layers,
              proofs |-> call.proofs, file |-> SynthWrite(call.t, call.proofs)]

SynthLoad ==
  /\ call.fn = "synth_file"
  /\ \E k \in 0..1, seed \in Streams :
       LET nodes == Leafs(call.t)
       IN call' = [fn |-> "synth_read", t |-> call.t,
                   challenges |-> PublicChallenges("synth", 2, nodes, call.comm_r, seed, k),
                   file |-> call.file, proofs |-> call.proofs,
                   read |-> SynthRead(call.t, call.file, nodes, call.layers, DeriveIndexes(2, nodes, seed, k))]

UpdateChallenges ==
  \E nodes \in UpdateSizes : \E pp \in {UpdateParams(nodes), PoseidonParams(nodes)}, random \in {0, 1, 2 ^ 24 - 1} :
    \E k \in 0..(pp.partitions - 1) :
      /\ call = Idle
      /\ call' = [fn |-> "update_challenges", pp |-> pp, k |-> k, challenge |-> UpdateChallenge(pp, k, random)]

DecodeRange ==
  \E nodes \in {16}, h \in 1..2, offset \in 0..6, num \in 1..9, short \in 0..2 :
    /\ call = Idle
    /\ call' = [fn |-> "decode_range", shr |-> RhoBits(h, nodes), offset |-> offset, num |-> num, short |-> short,
                decoded |-> DecodeFromRange(nodes, h, offset, num, [i \in 1..(nodes - offset - short) |-> offset + i - 1])]

(* Challenges are never node 0 nor beyond the sector; partitions share out    *)
(* what one partition would have been given, so no challenge is asked twice   *)
(* by numbering; synthetic ones are of the stored set, and the proofs read by *)
(* index from the file are the proofs of those very challenges.  Challenges   *)
(* of an update stay in their partition, read distinct bits of the digests    *)
(* and have their apex path in the partition's apex tree.  A range is decoded *)
(* with the rhos of its own nodes.                                            *)
ChallengesRight ==
  /\ call.fn = "challenges" =>
       /\ \A k \in DOMAIN call.parts : Len(call.parts[k]) = call.n /\ Range(call.parts[k]) \subseteq 1..(call.nodes - 1)
       /\ FlattenSeq(call.parts) = call.whole
       /\ call.kind = "synth" => Range(call.whole) \subseteq Range(call.synthetic)
  /\ call.fn = "synth_read" =>
       \A i \in DOMAIN call.read :
         /\ call.read[i] \in Range(call.proofs)
         /\ PathIndex(call.t, call.read[i].r) = call.challenges[i]
         /\ VerifyProof(call.read[i].c_x.proof)
  /\ call.fn = "update_challenges" =>
       LET pp == call.pp
           places == {<<k, i>> : k \in 0..(pp.partitions - 1), i \in 0..(pp.count - 1)}
           size == pp.nodes \div pp.partitions
       IN /\ call.challenge \div size = call.k
          /\ \A p \in places : DigestPlace(pp, p[1], p[2]).start + RandomBits(pp) <= FrCapacity
          /\ Cardinality({DigestPlace(pp, p[1], p[2]) : p \in places}) = Cardinality(places)
          /\ pp.apex > 0 => /\ ApexPathInTree(pp, call.k, call.challenge)
                            /\ ApexLeafsStart(pp, call.k) = 2 * pp.nodes - 2 ^ (pp.bits - ApexLeafsHeight(pp) + 1) + call.k * pp.apex
          /\ \A h \in Range(Hs(pp.nodes)) : HSelect(pp.nodes, h) <= 32 /\ h <= pp.bits
  /\ call.fn = "decode_range" =>
       LET wanted == [i \in 1..call.num |-> [node |-> call.offset + i - 1, rho |-> (call.offset + i - 1) \div 2 ^ call.shr]]
       IN call.decoded.ok => \/ call.decoded.out = wanted
                             \/ Len(call.decoded.out) % ChunkNodes = 0 /\ call.offset + call.num > 16 - call.short

(****************************************************************************)
(* Graphs                                                                    *)
(****************************************************************************)
BuildGraph ==
  \E nodes \in GraphSizes, api \in {"V1_0", "V1_1", "V1_2"}, porepId \in Streams :
    LET g == StackedGraph(nodes, api, porepId)
    IN /\ call = Idle
       /\ call' = [fn |-> "graph", g |-> g, parents |-> [v \in 1..nodes |-> Parents(g, v - 1)]]

(* Base parents come before their node, whatever the generator draws, so that *)
(* labels can be computed in order, and the predecessor stands where the      *)
(* multicore labelling of the API version expects it.  The expander parents   *)
(* are a permutation: each node is the parent of exactly ExpDegree others,    *)
(* and the permutation can be inverted.  In API version 1.0 that is so only   *)
(* while all pairs fit in a u32; in larger sectors the upper nodes are        *)
(* parents of none.                                                           *)
GraphRight ==
  call.fn = "graph" =>
    LET g        == call.g
        pairs    == g.nodes * ExpDegree
        children(v) == {e \in 0..(pairs - 1) : call.parents[e \div ExpDegree + 1][BaseDegree + (e % ExpDegree) + 1] = v}
    IN /\ \A v \in 1..(g.nodes - 1) :
            /\ \A i \in 1..BaseDegree : call.parents[v + 1][i] < v
            /\ call.parents[v + 1][IF g.api = "V1_0" THEN BaseDegree ELSE 1] = v - 1
       /\ \A v \in 2..(g.nodes - 1) : \A r1 \in 0..6, r2 \in 0..40 : SampleParent(v, r1, r2) \in 0..(v - 1)
       /\ \A v \in 0..(g.nodes - 1) :
            Cardinality(children(v)) = IF g.api # "V1_0" \/ pairs <= U32 THEN ExpDegree
                                       ELSE IF v < U32 \div ExpDegree THEN ExpDegree * (pairs \div U32) ELSE 0
       /\ \A e \in 0..(pairs - 1) : InvertPermute(pairs, Permute(pairs, e, g.keys), g.keys) = e

(****************************************************************************)
(* Proofs of replication                                                     *)
(****************************************************************************)
PoRepLayers == 2

(* The labels of node v, hashed from its parents in the reverse order.        *)
Misordered(g, replicaId, columns, v, l) ==
  CreateLabel(replicaId, l, v,
    Reverse(LabelingParents(l, [k \in 1..BaseDegree |-> [rows |-> columns[BaseParents(g, v)[k] + 1]]],
                               [k \in 1..ExpDegree |-> [rows |-> columns[ExpandedParents(g, v)[k] + 1]]])))

(* A sector is labelled, and sealed as it should be or wrong in one place.    *)
LabelSector ==
  \E t \in SynthShapes, porepId \in Streams :
    LET g     == StackedGraph(Leafs(t), "V1_2", porepId)
        first == LayerLabels(g, 3, 1, <<>>)
    IN /\ call = Idle
       /\ call' = [fn |-> "labelled", t |-> t, g |-> g, layers |-> <<first, LayerLabels(g, 3, 2, first)>>]

SealSector ==
  \E fault \in {"none", "label", "order", "replica", "data"}, v \in {1, 5} :
    LET g       == call.g
        columns == [i \in 1..g.nodes |-> [l \in 1..PoRepLayers |-> call.layers[l][i]]]
        data    == [i \in 1..g.nodes |-> <<100 + i>>]
        wrong   == CASE fault = "label" -> [columns EXCEPT ![v + 1][1] = <<@[1] + 1>>]
                     [] fault = "order" -> [columns EXCEPT ![v + 1] = [l \in 1..PoRepLayers |-> Misordered(g, 3, columns, v, l)]]
                     [] OTHER -> columns
        replica == [i \in 1..g.nodes |-> Encode(wrong[i][PoRepLayers], data[i])]
    IN /\ call.fn = "labelled"
       /\ fault = "none" => v = 1
       /\ call' = [fn |-> "sealed", fault |-> fault, v |-> v,
                   s |-> SealedSector(call.t, g, 3, IF fault = "data" THEN [data EXCEPT ![v + 1] = <<1>>] ELSE data, wrong,
                                      IF fault = "replica" THEN [replica EXCEPT ![v + 1] = <<2>>] ELSE replica)]

(* A prover answers with the proofs of the challenges or with something else: *)
(* the column of another node, the proof of another node, or label proofs     *)
(* over parents in the order that makes a wrong label pass.                   *)
ProvePoRep ==
  /\ call.fn = "sealed"
  /\ \E c \in {1, 4, 6}, forge \in {"none", "parent", "node", "labels"} :
       LET s      == call.s
           asked  == <<c, (c % (s.g.nodes - 1)) + 1>>
           honest == [i \in 1..2 |-> VanillaProof(s, asked[i])]
           proofs == CASE forge = "none"   -> honest
                       [] forge = "parent" -> [honest EXCEPT ![1].drg[2] = ColumnProof(s.c, s.columns, c)]
                       [] forge = "node"   -> [honest EXCEPT ![1] = VanillaProof(s, asked[2])]
                       [] forge = "labels" -> [honest EXCEPT ![1].labeling = [l \in DOMAIN @ |-> Reverse(@[l])],
                                                             ![1].encoding = Reverse(@)]
       IN call' = [fn |-> "proved", s |-> s, asked |-> asked, forge |-> forge, proofs |-> proofs]

CheckPoRep ==
  LET s   == call.s
      pub == [replicaId |-> s.replicaId, commD |-> s.d.root, commR |-> CommROf(s)]
  IN /\ call.fn = "proved"
     /\ call' = [fn |-> "porep", s |-> s, asked |-> call.asked, forge |-> call.forge,
                 vanilla |-> VerifyPoRepPartition(s.t, s.g, pub, call.proofs, call.asked),
                 synthesis |-> PoRepSynthesize(s.t, s.g.nodes, pub, call.proofs),
                 public  |-> PoRepPublicInputs(s.t, s.g, pub, call.asked),
                 shapes  |-> {CircuitShape(s.t, s.g.nodes, call.proofs[i]) : i \in 1..2}]

(* The labels and the encoding of a node are right with respect to what the   *)
(* trees commit to.                                                           *)
RightAt(s, c) ==
  LET committed(u, l) == s.columns[u + 1][l]
      parents(l) == IF l = 1 THEN [i \in 1..BaseDegree |-> committed(BaseParents(s.g, c)[i], 1)]
                    ELSE [i \in 1..BaseDegree |-> committed(BaseParents(s.g, c)[i], l)]
                         \o [i \in 1..ExpDegree |-> committed(ExpandedParents(s.g, c)[i], l - 1)]
      hashed(l) == LET p == parents(l) IN [i \in 1..TotalParents |-> p[((i - 1) % Len(p)) + 1]]
  IN /\ \A l \in 1..PoRepLayers : committed(c, l) = CreateLabel(s.replicaId, l, c, hashed(l))
     /\ s.replica[c + 1] = Encode(committed(c, PoRepLayers), s.data[c + 1])

(* Given the vanilla proofs of the sector, or ones with a parent or a whole   *)
(* proof of another node or with the parents of a label in another order, the *)
(* PoRep circuit is satisfied with the public inputs of the verifier only if  *)
(* the sector is right at every challenged node; a prover that answers as it  *)
(* should is accepted by the circuit and by the vanilla verification alike,   *)
(* exactly when it is; and the circuit has the shape of the blank one.        *)
(* Vanilla verification alone does not tie the parents of a label proof to    *)
(* the opened columns.                                                        *)
PoRepSound ==
  call.fn = "porep" =>
    LET accepted == call.synthesis.ok /\ call.synthesis.circuit = [sat |-> TRUE, inputs |-> call.public]
        right    == \A i \in DOMAIN call.asked : RightAt(call.s, call.asked[i])
    IN /\ accepted => right
       /\ call.forge = "none" => (accepted <=> right) /\ (call.vanilla <=> right)
       /\ call.shapes = {BlankShape(call.s.t, call.s.g.nodes, PoRepLayers)}

(****************************************************************************)
(* Pieces                                                                    *)
(****************************************************************************)
SectorBytes == Units * BlockOut

RawBits(piece, bytes) == [j \in 1..(8 * bytes) |-> 1000 * piece + j]

(* A piece is added to the staged sector; the first one may come from a       *)
(* source that ends early.                                                    *)
StagePiece ==
  \E units \in {2 ^ b : b \in 0..3}, short \in {0, 1, 2, 4}, request \in Requests :
    LET empty  == [file |-> <<>>, pieces |-> <<>>, lengths |-> <<>>, raw |-> <<>>]
        before == IF call = Idle THEN empty ELSE call.staged
        size   == units * BlockIn
        number == Len(before.pieces) + 1
        source == RawBits(number, size - short)
        start  == GetPieceStartByte(before.lengths, size)
    IN /\ call = Idle \/ call.fn = "staged"
       /\ short > 0 => number = 1
       /\ start + size <= ToUnpaddedBytes(SectorBytes)
       /\ \E added \in {AddPiece(source, size, before.lengths, request)} :
          IF added.ok
          THEN call' = [fn |-> "staged", staged |->
                 [file |-> before.file \o added.out, pieces |-> Append(before.pieces, added.piece),
                  lengths |-> Append(before.lengths, size),
                  raw |-> before.raw \o Zeros(8 * start - Len(before.raw)) \o source \o Zeros(8 * short)]]
          ELSE call' = Idle

CheckPieces ==
  /\ call.fn = "staged"
  /\ LET s == call.staged
         whole == s.file \o Zeros(8 * SectorBytes - Len(s.file))
     IN call' = [fn |-> "pieces", staged |-> s, commD |-> ComputeCommD(SectorBytes, s.pieces),
                 rows |-> RowsOf(NodesIn(whole), 2), empty |-> ComputeCommD(SectorBytes, <<>>).comm,
                 alone |-> [i \in DOMAIN s.pieces |-> GeneratePieceCommitment(Slice(s.raw, 8 * GetPieceStartByte(SubSeq(s.lengths, 1, i - 1), s.lengths[i]), 8 * SumPieceBytesWithAlignment(SubSeq(s.lengths, 1, i))), s.lengths[i]).comm]]

ReadRange ==
  /\ call.fn = "staged"
  /\ \E block \in 0..(Units - 1), bytes \in 1..(3 * BlockIn), skip \in {0, 1, BlockIn + 2} :
       LET raw == call.staged.raw
           offset == block * BlockIn
       IN /\ 8 * (offset + skip + bytes) <= Len(raw)
          /\ call' = [fn |-> "unsealed", want |-> Slice(raw, 8 * (offset + skip), 8 * (offset + skip + bytes)),
                      got |-> IF skip = 0 THEN UnsealRange(call.staged.file, offset, bytes)
                              ELSE WriteUnpadded(call.staged.file, offset + skip, bytes)]

(* However a source is chunked, what add_piece writes are field elements that *)
(* unpad to the source; a piece's commitment is the one its source has alone  *)
(* and the node of tree D above the place it was aligned to; and comm_d from  *)
(* the pieces alone is the root of the tree over what was written, up to the  *)
(* power of two the pieces reach.  So verify_pieces accepts the sector's own  *)
(* root exactly when the pieces reach its second half: a sector that is       *)
(* filled up with zeros must name them as pieces.                             *)
PiecesRight ==
  /\ call.fn = "pieces" =>
       LET s == call.staged
           row(bytes) == call.rows[Log2(bytes \div ElementBytes) + 1]
           start(i) == ToPaddedBytes(GetPieceStartByte(SubSeq(s.lengths, 1, i - 1), s.lengths[i]))
           padded(i) == ToPaddedBytes(s.lengths[i])
       IN /\ \A k \in 1..(Len(s.file) \div ElementBits) : \A b \in 0..(PadBits - 1) : s.file[k * ElementBits - b] = 0
          /\ Len(s.file) = 8 * ToPaddedBytes(SumPieceBytesWithAlignment(s.lengths))
          /\ call.commD.ok /\ call.commD.comm = row(ToPaddedBytes(call.commD.size))[1]
          /\ VerifyPieces(Last(call.rows)[1], s.pieces, SectorBytes) <=> Len(s.file) > 4 * SectorBytes
          /\ \A i \in DOMAIN s.pieces :
               /\ s.pieces[i].comm = call.alone[i]
               /\ s.pieces[i].comm = row(padded(i))[start(i) \div padded(i) + 1]
               /\ PieceIsAligned(start(i) \div ElementBytes, padded(i) \div ElementBytes, SectorBytes \div ElementBytes)
          /\ call.empty = ZeroPadding(ToUnpaddedBytes(SectorBytes)).comm
  /\ call.fn = "unsealed" => call.got.ok /\ call.got.out = call.want

Call ==
  \/ BuildTrees \/ JoinTrees \/ ProveLeaf \/ CheckLeaf
  \/ DeriveChallenges \/ SynthTrees \/ SynthProve \/ SynthStore \/ SynthLoad \/ UpdateChallenges \/ DecodeRange
  \/ BuildGraph \/ LabelSector \/ SealSector \/ ProvePoRep \/ CheckPoRep
  \/ StagePiece \/ CheckPieces \/ ReadRange
  \/ Return({"prove_leaf", "challenges", "synth_read", "update_challenges", "decode_range", "pieces", "unsealed", "graph", "porep"})
  \/ PostNext \/ AggregateNext

Next ==
  \/ (\A c \in Calls : work[c] = NoCall) /\ UNCHANGED treeVars /\ Call
  \/ call = Idle /\ UNCHANGED call /\ TreeNext

Spec == Init /\ [][Next]_vars

FairSpec == Spec /\ WF_vars(TakeJob /\ UNCHANGED call) /\ \A c \in Calls : WF_vars(Running(c) /\ Step(c) /\ UNCHANGED call)
=============================================================================

------------------------------- MODULE Merkle -------------------------------
(* Merkle trees as storage-proofs-core builds and proves them: base trees of  *)
(* one arity, joined by at most one sub tree row and one top tree row, over a *)
(* replica file that is split into one region per base tree; and the proof of *)
(* retrievability (PoR) of one leaf.  A hash is the sequence of what it       *)
(* hashes, so two hashes are equal only when the nodes below them are: what   *)
(* the collision resistance of the hashers gives.                             *)
EXTENDS Integers, Sequences, SequencesExt, FiniteSetsExt

NODE_SIZE == 32

(* A tree shape: arities of the base, sub and top rows (0 when there is none) *)
(* and the number of leaves of one base tree.                                 *)
TreeShape(arity, sub, top, base) == [arity |-> arity, sub |-> sub, top |-> top, base |-> base]

Hash(nodes) == nodes

LeafNode(i) == <<i>>

Chunks(s, n) == [k \in 1..(Len(s) \div n) |-> SubSeq(s, (k - 1) * n + 1, k * n)]

RowCount(leafs, arity) == CHOOSE r \in 1..8 : arity ^ (r - 1) = leafs

(* The rows of a base tree, leaves first.                                     *)
RowsOf(leaves, arity) ==
  FoldLeft(LAMBDA rows, r : Append(rows, [k \in 1..(Len(Last(rows)) \div arity) |-> Hash(Chunks(Last(rows), arity)[k])]),
           <<leaves>>, [r \in 1..(RowCount(Len(leaves), arity) - 1) |-> r])

GetBaseTreeCount(t) ==
  CASE t.top = 0 /\ t.sub = 0 -> 1
    [] t.top > 0              -> t.top * t.sub
    [] OTHER                  -> t.sub

Leafs(t) == t.base * GetBaseTreeCount(t)

(* One store per base tree, named by its number, and where its leaves start   *)
(* in the replica.  A single tree keeps the name it was given.                *)
SplitConfigAndReplica(t) ==
  IF GetBaseTreeCount(t) = 1 THEN <<[id |-> "only", offset |-> 0]>>
  ELSE [i \in 1..GetBaseTreeCount(t) |-> [id |-> i - 1, offset |-> (i - 1) * t.base * NODE_SIZE]]

DataAtNode(replica, offset, v) == replica[(offset + v * NODE_SIZE) \div NODE_SIZE + 1]

(* The tree: the rows of each base tree over what its external reader reads,  *)
(* the roots that each sub tree joins, and the root.                          *)
BaseTrees(t, replica) ==
  LET configs == SplitConfigAndReplica(t)
  IN [i \in DOMAIN configs |-> RowsOf([v \in 1..t.base |-> DataAtNode(replica, configs[i].offset, v - 1)], t.arity)]

FromTrees(t, trees) == Chunks([i \in DOMAIN trees |-> Last(trees[i])[1]], IF t.sub = 0 THEN 1 ELSE t.sub)

CreateTree(t, trees) ==
  LET groups == FromTrees(t, trees)
  IN [t |-> t, trees |-> trees, groups |-> groups,
      root |-> CASE t.sub = 0 -> groups[1][1]
                 [] t.top = 0 -> Hash(groups[1])
                 [] OTHER     -> Hash([k \in DOMAIN groups |-> Hash(groups[k])])]

DefaultRowsToDiscard(leafs, arity, setting) ==
  LET rows == RowCount(leafs, arity)
  IN CASE rows <= 2 -> 0
       [] rows = 3  -> 1
       [] OTHER     -> Min({rows - 2, CASE arity = 2 -> 7 [] arity = 4 -> 5 [] OTHER -> setting})

(****************************************************************************)
(* The merkletree crate's proofs: the lemma of a base proof starts with the  *)
(* leaf, that of a sub or top proof with the siblings; both end in the root. *)
(****************************************************************************)
BaseLemma(t, rows, i) ==
  LET at(r) == i \div t.arity ^ (r - 1)
      siblings(r) == RemoveAt(Chunks(rows[r], t.arity)[at(r) \div t.arity + 1], (at(r) % t.arity) + 1)
  IN [lemma |-> <<rows[1][i + 1]>> \o FlattenSeq([r \in 1..(Len(rows) - 1) |-> siblings(r)]) \o Last(rows),
      path  |-> [r \in 1..(Len(rows) - 1) |-> at(r) % t.arity]]

RowLemma(nodes, index) == [lemma |-> RemoveAt(nodes, index + 1) \o <<Hash(nodes)>>, path |-> <<index>>]

InnerGenProof(tree, i) ==
  LET t    == tree.t
      base == i \div t.base
      sub  == IF t.sub = 0 THEN 0 ELSE base \div t.sub
  IN [base |-> BaseLemma(t, tree.trees[base + 1], i % t.base),
      sub  |-> IF t.sub = 0 THEN <<>> ELSE <<RowLemma(tree.groups[sub + 1], base % t.sub)>>,
      top  |-> IF t.top = 0 THEN <<>> ELSE <<RowLemma([k \in DOMAIN tree.groups |-> Hash(tree.groups[k])], sub)>>]

(****************************************************************************)
(* MerkleProof                                                               *)
(****************************************************************************)
ExtractPath(proof, arity, start) ==
  LET hashes == Chunks(SubSeq(proof.lemma, start + 1, Len(proof.lemma) - 1), arity - 1)
  IN [k \in DOMAIN hashes |-> [hashes |-> hashes[k], index |-> proof.path[k]]]

ProofRoot(p) == LET outer == IF p.top # <<>> THEN p.top[1] ELSE IF p.sub # <<>> THEN p.sub[1] ELSE p.base
                IN Last(outer.lemma)

SingleTryFromProof(t, p) == [base |-> ExtractPath(p.base, t.arity, 1), sub |-> <<>>, top |-> <<>>,
                             leaf |-> p.base.lemma[1], root |-> ProofRoot(p)]

SubTryFromProof(t, p) == [SingleTryFromProof(t, p) EXCEPT !.sub = ExtractPath(p.sub[1], t.sub, 0)]

TopTryFromProof(t, p) == [SubTryFromProof(t, p) EXCEPT !.top = ExtractPath(p.top[1], t.top, 0)]

TryFromProof(t, p) ==
  CASE p.top # <<>> -> TopTryFromProof(t, p)
    [] p.sub # <<>> -> SubTryFromProof(t, p)
    [] OTHER        -> SingleTryFromProof(t, p)

GenProof(tree, i) == TryFromProof(tree.t, InnerGenProof(tree, i))

InclusionRoot(path, leaf) == FoldLeft(LAMBDA h, e : Hash(InsertAt(e.hashes, e.index + 1, h)), leaf, path)

VerifyProof(proof) ==
  proof.root = InclusionRoot(proof.top, InclusionRoot(proof.sub, InclusionRoot(proof.base, proof.leaf)))

ProofPath(proof) == proof.base \o proof.sub \o proof.top

InclusionIndex(path, arity) == FoldRight(LAMBDA e, acc : acc * arity + e.index, path, 0)

SubPathIndex(t, proof) ==
  InclusionIndex(proof.sub, t.sub) * t.arity ^ Len(proof.base) + InclusionIndex(proof.base, t.arity)

Bug_TopPathIndex(t, proof) ==
  LET base == t.arity ^ Len(proof.base)
  IN   InclusionIndex(proof.sub, t.sub) * base
     + InclusionIndex(proof.top, t.top) * base * t.top
     + InclusionIndex(proof.base, t.arity)

TopPathIndex(t, proof) ==
  LET base == t.arity ^ Len(proof.base)
  IN   InclusionIndex(proof.sub, t.sub) * base
     + InclusionIndex(proof.top, t.top) * base * t.sub
     + InclusionIndex(proof.base, t.arity)

PathIndex(t, proof) ==
  CASE proof.top # <<>> -> TopPathIndex(t, proof)
    [] proof.sub # <<>> -> SubPathIndex(t, proof)
    [] OTHER            -> InclusionIndex(proof.base, t.arity)

FromParts(t, leaf, root, path) ==
  LET n == Len(path)
      k == (IF t.sub = 0 THEN 0 ELSE 1) + (IF t.top = 0 THEN 0 ELSE 1)
  IN [base |-> SubSeq(path, 1, n - k), sub |-> IF t.sub = 0 THEN <<>> ELSE <<path[n - k + 1]>>,
      top |-> IF t.top = 0 THEN <<>> ELSE <<path[n]>>, leaf |-> leaf, root |-> root]

BasePathLength(t, leaves) ==
  RowCount(CASE t.top > 0 -> leaves \div (t.top * t.sub) [] t.sub > 0 -> leaves \div t.sub [] OTHER -> leaves, t.arity) - 1

CompoundPathLength(t, leaves) ==
  BasePathLength(t, leaves) + (IF t.sub > 0 THEN 1 ELSE 0) + (IF t.top > 0 THEN 1 ELSE 0)

(****************************************************************************)
(* PoR over a tree                                                           *)
(****************************************************************************)
PoRProve(tree, challenge, data) == [proof |-> GenProof(tree, challenge % Leafs(tree.t)), data |-> data]

PoRVerify(t, commitment, challenge, p) ==
  /\ commitment = p.proof.root
  /\ CompoundPathLength(t, Leafs(t)) = Len(ProofPath(p.proof))
  /\ VerifyProof(p.proof)
  /\ p.proof.leaf = p.data
  /\ challenge = PathIndex(t, p.proof)
=============================================================================

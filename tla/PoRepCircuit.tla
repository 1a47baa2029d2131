---------------------------- MODULE PoRepCircuit ----------------------------
(* What a proof of replication proves: the vanilla proof of a challenged node *)
(* and its verification, and the circuit that opens the same trees, computes  *)
(* the labels itself and exposes the public inputs the verifier generates.    *)
(* Labels and data are field elements <<x>> modulo a small prime.             *)
EXTENDS Challenges

Modulus == 32749

(* Sha256 of replica id, layer, node and parents: an arbitrary function whose *)
(* value depends on every one of them and on their order.                     *)
CreateLabel(replicaId, layer, node, parents) ==
  <<FoldLeft(LAMBDA h, p : (h * 251 + p[1]) % Modulus, (replicaId * 101 + layer * 37 + node) % Modulus, parents)>>

Encode(key, value) == <<(key[1] + value[1]) % Modulus>>

(* All labels of a replica, node by node: a node has no parents to hash when  *)
(* it is the first one.                                                       *)
LayerLabels(g, replicaId, layer, below) ==
  LET label(done, v) ==
        LET base == BaseParents(g, v)
            drg  == [i \in 1..BaseDegree |-> done[base[i] + 1]]
            exp  == LET e == ExpandedParents(g, v) IN [i \in 1..ExpDegree |-> below[e[i] + 1]]
        IN Append(done, CreateLabel(replicaId, layer, v,
             CASE v = 0 -> <<>>
               [] v > 0 /\ layer = 1 -> CopyParentsData(drg)
               [] OTHER -> CopyParentsDataExp(drg \o exp)))
  IN FoldLeft(label, <<>>, [i \in 1..g.nodes |-> i - 1])

BinaryShape(nodes) == TreeShape(2, 0, 0, nodes)

TreeOver(t, leaves) == CreateTree(t, BaseTrees(t, leaves))

(* The sealed sector: its trees over given data, columns and replica.         *)
SealedSector(t, g, replicaId, data, columns, replica) ==
  [t |-> t, g |-> g, replicaId |-> replicaId, data |-> data, columns |-> columns, replica |-> replica,
   d |-> TreeOver(BinaryShape(g.nodes), data),
   c |-> TreeOver(t, [i \in DOMAIN columns |-> Hash(columns[i])]),
   r |-> TreeOver(t, replica)]

CommROf(s) == Hash(<<s.c.root, s.r.root>>)

(****************************************************************************)
(* Vanilla verification                                                      *)
(****************************************************************************)
ProvesChallenge(t, proof, challenge) == PathIndex(t, proof) = challenge

ColumnVerify(t, c, challenge, root) ==
  /\ c.proof.root = root
  /\ VerifyProof(c.proof) /\ c.proof.leaf = Hash(c.rows)
  /\ PathIndex(t, c.proof) = challenge

ReplicaColumnsVerify(t, p, challenge, parents) ==
  LET root == p.c_x.proof.root
  IN /\ ColumnVerify(t, p.c_x, challenge, root)
     /\ \A k \in DOMAIN p.drg : ColumnVerify(t, p.drg[k], parents[k], root)
     /\ \A k \in DOMAIN p.exp : ColumnVerify(t, p.exp[k], parents[Len(p.drg) + k], root)

VerifyLabels(p, replicaId) ==
  \A l \in DOMAIN p.c_x.rows : p.c_x.rows[l] = CreateLabel(replicaId, l, p.node, p.labeling[l])

VerifyEncoding(p, replicaId) ==
  p.r.leaf = Encode(CreateLabel(replicaId, Len(p.c_x.rows), p.node, p.encoding), p.d.leaf)

ProofVerify(t, g, pub, p, challenge) ==
  /\ challenge < g.nodes
  /\ ProvesChallenge(BinaryShape(g.nodes), p.d, challenge) /\ p.d.root = pub.commD
  /\ ReplicaColumnsVerify(t, p, challenge, Parents(g, challenge))
  /\ ProvesChallenge(t, p.r, challenge)
  /\ VerifyLabels(p, pub.replicaId)
  /\ VerifyEncoding(p, pub.replicaId)

VerifyPoRepPartition(t, g, pub, proofs, challenges) ==
  /\ pub.commR = Hash(<<proofs[1].c_x.proof.root, proofs[1].r.root>>)
  /\ Len(proofs) = Len(challenges)
  /\ \A i \in DOMAIN proofs :
       /\ proofs[i].c_x.proof.root = proofs[1].c_x.proof.root /\ proofs[i].r.root = proofs[1].r.root
       /\ ProofVerify(t, g, pub, proofs[i], challenges[i])

(****************************************************************************)
(* The circuit                                                               *)
(****************************************************************************)
EnforceInclusion(t, proof, leaf, root) == PoRSynthesize(t, leaf, AuthPathFrom(t, ProofPath(proof)), root, TRUE)

(* The parents of each layer are duplicated by hand to those a label hashes.  *)
Bug_DuplicateParents(layer, drg, exp) ==
  LET parents == [k \in DOMAIN drg |-> drg[k].rows[layer]]
                 \o (IF layer > 1 THEN [k \in DOMAIN exp |-> exp[k].rows[layer]] ELSE <<>>)
  IN IF layer > 1 THEN parents \o parents \o SubSeq(parents, 1, 9)
     ELSE parents \o parents \o parents \o parents \o parents \o parents \o <<parents[1]>>

DuplicateParents(layer, drg, exp) ==
  LET parents == [k \in DOMAIN drg |-> drg[k].rows[layer]]
                 \o (IF layer > 1 THEN [k \in DOMAIN exp |-> exp[k].rows[layer - 1]] ELSE <<>>)
  IN IF layer > 1 THEN parents \o parents \o SubSeq(parents, 1, 9)
     ELSE parents \o parents \o parents \o parents \o parents \o parents \o <<parents[1]>>

(* A circuit is satisfied when its parts are, and its inputs are theirs.      *)
Synthesized(parts) ==
  [sat |-> \A k \in DOMAIN parts : parts[k].sat, inputs |-> FlattenSeq([k \in DOMAIN parts |-> parts[k].inputs])]

ProofSynthesize(t, nodes, p, commD, commC, commRLast, replicaId) ==
  LET columnIn(col) == EnforceInclusion(t, col.proof, Hash(col.rows), commC)
      labels == [l \in DOMAIN p.drg[1].rows |-> CreateLabel(replicaId, l, p.node, DuplicateParents(l, p.drg, p.exp))]
  IN Synthesized(<<EnforceInclusion(BinaryShape(nodes), p.d, p.d.leaf, commD)>>
                 \o [k \in DOMAIN p.drg |-> columnIn(p.drg[k])]
                 \o [k \in DOMAIN p.exp |-> columnIn(p.exp[k])]
                 \o <<[sat |-> TRUE, inputs |-> <<p.node>>],
                      EnforceInclusion(t, p.r, Encode(Last(labels), p.d.leaf), commRLast),
                      EnforceInclusion(t, p.c_x.proof, Hash(labels), commC)>>)

(* comm_c and comm_r_last of all proofs must be those of the first.           *)
PoRepSynthesize(t, nodes, pub, proofs) ==
  LET commC     == proofs[1].c_x.proof.root
      commRLast == proofs[1].r.root
      own       == [sat |-> pub.commR = Hash(<<commC, commRLast>>), inputs |-> <<pub.replicaId, pub.commD, pub.commR>>]
  IN [ok |-> \A i \in DOMAIN proofs : proofs[i].c_x.proof.root = commC /\ proofs[i].r.root = commRLast,
      circuit |-> Synthesized(<<own>> \o [i \in DOMAIN proofs |->
                    ProofSynthesize(t, nodes, proofs[i], pub.commD, commC, commRLast, pub.replicaId)])]

InclusionInputs(t, challenge) == PoRPublicInputs(t, challenge, <<>>, TRUE)

PoRepPublicInputs(t, g, pub, challenges) ==
  LET drg(c) == LET p == BaseParents(g, c) IN FlattenSeq([k \in DOMAIN p |-> InclusionInputs(t, p[k])])
      exp(c) == LET p == ExpandedParents(g, c) IN FlattenSeq([k \in DOMAIN p |-> InclusionInputs(t, p[k])])
      one(c) == InclusionInputs(BinaryShape(g.nodes), c) \o drg(c) \o exp(c) \o <<c>>
                \o InclusionInputs(t, c) \o InclusionInputs(t, c)
  IN <<pub.replicaId, pub.commD, pub.commR>> \o FlattenSeq([i \in DOMAIN challenges |-> one(challenges[i])])

(* The blank circuit that parameters are generated from has the paths and     *)
(* columns of every proof, and no values.                                     *)
BlankShape(t, nodes, layers) ==
  LET column == [rows |-> layers, path |-> AuthPathBlank(t, nodes)]
  IN [d |-> AuthPathBlank(BinaryShape(nodes), nodes), r |-> AuthPathBlank(t, nodes), c |-> AuthPathBlank(t, nodes),
      drg |-> [k \in 1..BaseDegree |-> column], exp |-> [k \in 1..ExpDegree |-> column]]

CircuitShape(t, nodes, p) ==
  LET widths(shape, proof) == PathWidths(AuthPathFrom(shape, ProofPath(proof)))
      columns(cols) == [k \in DOMAIN cols |-> [rows |-> Len(cols[k].rows), path |-> widths(t, cols[k].proof)]]
  IN [d |-> widths(BinaryShape(nodes), p.d), r |-> widths(t, p.r), c |-> widths(t, p.c_x.proof),
      drg |-> columns(p.drg), exp |-> columns(p.exp)]
=============================================================================

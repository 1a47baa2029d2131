-------------------------------- MODULE Post --------------------------------
(* Fallback PoSt, the scheme behind Window and Winning proofs of spacetime:   *)
(* which leaves of which sectors are challenged, how the sectors are cut into *)
(* partitions and padded, the vanilla proofs made by three routes (all at     *)
(* once, from vanilla proofs made elsewhere, one partition at a time), the    *)
(* circuits, and the inputs against which the verifier checks each proof.     *)
(* A challenged leaf is named by what is hashed to find it, a commitment by   *)
(* its sector; a Groth16 proof is what its circuit committed to.              *)
EXTENDS Integers, Sequences, SequencesExt, FiniteSetsExt, Caller

CONSTANTS
  PostConfigs,    \* configurations of proofs of spacetime
  MaxReplicas,    \* sectors that are proved at once
  PostCpus,       \* numbers of processors
  LeafIndexes     \* indexes of the challenges whose leaf may be damaged

(* A winner proves one sector (WINNING_POST_SECTOR_COUNT).                    *)
ASSUME PostAssumption ==
  /\ PostConfigs \subseteq [typ : {"window", "winning"}, sectors : Nat \ {0}, challenges : Nat \ {0}, api : {"V1_0", "V1_1", "V1_2"}]
  /\ \A cfg \in PostConfigs : cfg.typ = "winning" => cfg.sectors = 1
  /\ MaxReplicas \in Nat \ {0} /\ PostCpus \subseteq Nat \ {0} /\ LeafIndexes \subseteq Nat

PostConfig(typ, sectors, challenges, api) ==
  [typ |-> typ, sectors |-> sectors, challenges |-> challenges, api |-> api]

WinningPostSetupParams(cfg) ==
  LET count == cfg.challenges \div cfg.sectors
  IN [sectors |-> count, challenges |-> cfg.challenges \div count, api |-> cfg.api]

WindowPostSetupParams(cfg) == [sectors |-> cfg.sectors, challenges |-> cfg.challenges, api |-> cfg.api]

CeilDiv(a, b) == (a + b - 1) \div b

SectorChunks(s, n) == [k \in 1..CeilDiv(Len(s), n) |-> SubSeq(s, (k - 1) * n + 1, Min({k * n, Len(s)}))]

GetPartitionsForWindowPost(total, cfg) == Max({1, CeilDiv(total, cfg.sectors)})

PartitionsOf(cfg, total) == IF cfg.typ = "window" THEN GetPartitionsForWindowPost(total, cfg) ELSE 1

GetChallengeIndex(api, sector, count, n) == IF api = "V1_2" THEN n ELSE sector * count + n

GenerateLeafChallenge(id, index) == <<id, index>>

CommR(id) == <<id, -1>>

(* The leaves challenged of the sector at one place of the sector list.       *)
LeavesOf(pp, id, sector) ==
  [n \in 1..pp.challenges |-> GenerateLeafChallenge(id, GetChallengeIndex(pp.api, sector, pp.challenges, n - 1))]

(* The challenges handed to whoever keeps the sectors' trees; a sector listed *)
(* twice keeps the last ones.                                                 *)
GenerateFallbackSectorChallenges(cfg, ids) ==
  LET chunks == SectorChunks(ids, cfg.sectors)
      listed == FlattenSeq([k \in 1..PartitionsOf(cfg, Len(ids)) |->
                  [i \in DOMAIN chunks[k] |->
                     [id |-> chunks[k][i], leaves |-> LeavesOf(cfg, chunks[k][i], (k - 1) * cfg.sectors + i - 1)]]])
  IN [id \in {listed[i].id : i \in DOMAIN listed} |->
        listed[Max({i \in DOMAIN listed : listed[i].id = id})].leaves]

(* A replica's tree cannot prove a leaf in its bad set: the proof fails or    *)
(* does not validate.                                                         *)
CanProve(sector, leaves) == \A k \in DOMAIN leaves : leaves[k] \notin sector.bad

SectorProofOf(sector, leaves) == [comm |-> sector.comm_r, leaves |-> leaves]

GenerateSingleVanillaProof(sector, leaves) ==
  [ok |-> CanProve(sector, leaves), id |-> sector.id, comm_r |-> sector.comm_r, proof |-> SectorProofOf(sector, leaves)]

PadProofs(proofs, n) == proofs \o [k \in 1..(n - Len(proofs)) |-> Last(proofs)]

(* All partitions from the replicas.  Every sector is tried before the faulty *)
(* ones are reported, in ascending order.                                     *)
ProveAllPartitions(pp, sectors, partitions) ==
  LET chunks == SectorChunks(sectors, pp.sectors)
      leaves(k, i) == LeavesOf(pp, chunks[k][i].id, (k - 1) * pp.sectors + i - 1)
      faulty == {sectors[s].id : s \in {p \in DOMAIN sectors : ~CanProve(sectors[p], LeavesOf(pp, sectors[p].id, p - 1))}}
  IN [ok     |-> Len(sectors) <= partitions * pp.sectors /\ faulty = {},
      faults |-> SetToSortSeq(faulty, <),
      proofs |-> [k \in DOMAIN chunks |->
                    PadProofs([i \in DOMAIN chunks[k] |-> SectorProofOf(chunks[k][i], leaves(k, i))], pp.sectors)]]

VerifyPartition(pp, j, sectors, proof) ==
  /\ Len(sectors) <= pp.sectors
  /\ Len(proof) = pp.sectors
  /\ \A i \in 1..Min({Len(sectors), Len(proof)}) :
       /\ proof[i].comm = sectors[i].comm_r
       /\ Len(proof[i].leaves) = pp.challenges
       /\ proof[i].leaves = LeavesOf(pp, sectors[i].id, j * pp.sectors + i - 1)

VerifyAllPartitions(pp, sectors, proofs) ==
  LET chunks == SectorChunks(sectors, pp.sectors)
  IN /\ Len(sectors) <= pp.sectors * Len(proofs)
     /\ \A k \in 1..Min({Len(chunks), Len(proofs)}) : VerifyPartition(pp, k - 1, chunks[k], proofs[k])

(* One partition from vanilla proofs.  Window: the proofs are found by sector *)
(* id.  Winning: the inclusion proofs of the one sector become the sector     *)
(* proofs of the circuit.                                                     *)
SinglePartitionVanillaProofs(cfg, pp, k, sectors, vanilla) ==
  LET found(id) == vanilla[CHOOSE i \in DOMAIN vanilla :
                             vanilla[i].id = id /\ \A j \in 1..(i - 1) : vanilla[j].id # id].proof
      unrolled == [n \in DOMAIN vanilla[1].proof.leaves |->
                     [vanilla[1].proof EXCEPT !.leaves = <<vanilla[1].proof.leaves[n]>>]]
      proof == PadProofs(IF cfg.typ = "window" THEN [i \in DOMAIN sectors |-> found(sectors[i].id)] ELSE unrolled, pp.sectors)
  IN [ok |-> /\ Len(sectors) <= pp.sectors
             /\ cfg.typ = "winning" => Len(vanilla) = 1 /\ cfg.sectors = 1 /\ Len(proof) = cfg.challenges
             /\ VerifyPartition(pp, k, sectors, proof),
      proof |-> proof]

PartitionVanillaProofs(cfg, pp, sectors, partitions, vanilla) ==
  LET chunks == SectorChunks(sectors, pp.sectors)
      parts == IF cfg.typ = "window"
               THEN [k \in DOMAIN chunks |-> SinglePartitionVanillaProofs(cfg, pp, k - 1, chunks[k], vanilla)]
               ELSE LET groups == SectorChunks(vanilla, pp.sectors)
                    IN [k \in DOMAIN groups |-> SinglePartitionVanillaProofs(cfg, pp, k - 1, sectors, groups[k])]
      proofs == [k \in DOMAIN parts |-> parts[k].proof]
  IN [ok |-> /\ Len(sectors) <= partitions * pp.sectors
             /\ \A k \in DOMAIN parts : parts[k].ok
             /\ VerifyAllPartitions(pp, sectors, proofs),
      proofs |-> proofs]

(****************************************************************************)
(* The circuits and what the verifier expects of them                        *)
(****************************************************************************)
SectorSynthesize(sector) == <<sector.comm_r>> \o sector.proof.leaves

(* The circuit of partition k; the last sector fills the missing places.      *)
PostCircuit(pp, sectors, k, proof) ==
  LET chunk == SectorChunks(sectors, pp.sectors)[k + 1]
  IN [i \in DOMAIN proof |-> [comm_r |-> chunk[Min({i, Len(chunk)})].comm_r, proof |-> proof[i]]]

(* Groups of sectors may be synthesized apart and then joined.                *)
PostSynthesize(circuit, cpus) ==
  LET groups == SectorChunks(circuit, Max({1, Len(circuit) \div cpus}))
  IN [sat    |-> \A i \in DOMAIN circuit : circuit[i].comm_r = circuit[i].proof.comm,
      inputs |-> FlattenSeq([g \in DOMAIN groups |->
                   FlattenSeq([i \in DOMAIN groups[g] |-> SectorSynthesize(groups[g][i])])])]

CircuitProofs(pp, sectors, proofs, cpus) ==
  [k \in DOMAIN proofs |-> PostSynthesize(PostCircuit(pp, sectors, k - 1, proofs[k]), cpus)]

Bug_PostPublicInputs(pp, sectors, k) ==
  LET chunk == SectorChunks(sectors, pp.sectors)[k + 1]
      one(i) == <<chunk[i].comm_r>> \o LeavesOf(pp, chunk[i].id, i - 1)
  IN FlattenSeq([i \in 1..pp.sectors |-> one(Min({i, Len(chunk)}))])

PostPublicInputs(pp, sectors, k) ==
  LET chunk == SectorChunks(sectors, pp.sectors)[k + 1]
      one(i) == <<chunk[i].comm_r>> \o LeavesOf(pp, chunk[i].id, k * pp.sectors + i - 1)
  IN FlattenSeq([i \in 1..pp.sectors |-> one(Min({i, Len(chunk)}))])

SatisfiesRequirements(pp, minimum, partitions) == partitions * pp.sectors * pp.challenges >= minimum

VerifyProofs(pp, partitions, minimum, sectors, groth) ==
  /\ Len(groth) = partitions
  /\ SatisfiesRequirements(pp, minimum, partitions)
  /\ \A k \in DOMAIN groth : groth[k].sat /\ groth[k].inputs = PostPublicInputs(pp, sectors, k - 1)

(* CompoundProof::prove and prove_with_vanilla: vanilla proofs are checked    *)
(* once more before they go to the circuits, unless they came from outside.   *)
CompoundProve(pp, sectors, partitions, cpus) ==
  LET vanilla == ProveAllPartitions(pp, sectors, partitions)
      ok == vanilla.ok /\ VerifyAllPartitions(pp, sectors, vanilla.proofs)
  IN [ok |-> ok, faults |-> vanilla.faults,
      groth |-> IF ok THEN CircuitProofs(pp, sectors, vanilla.proofs, cpus) ELSE <<>>]

CompoundProveWithVanilla(pp, sectors, vanilla, cpus) ==
  [ok |-> vanilla.ok, groth |-> IF vanilla.ok THEN CircuitProofs(pp, sectors, vanilla.proofs, cpus) ELSE <<>>]

(****************************************************************************)
(* The API                                                                   *)
(****************************************************************************)
VanillaProofsOf(cfg, replicas) ==
  LET challenges == GenerateFallbackSectorChallenges(cfg, [i \in DOMAIN replicas |-> replicas[i].id])
  IN [i \in DOMAIN replicas |-> GenerateSingleVanillaProof(replicas[i], challenges[replicas[i].id])]

WithVanilla(cfg, pp, replicas, cpus) ==
  LET vanilla == VanillaProofsOf(cfg, replicas)
      parts == PartitionVanillaProofs(cfg, pp, replicas, PartitionsOf(cfg, Len(replicas)), vanilla)
      made == [parts EXCEPT !.ok = @ /\ \A i \in DOMAIN vanilla : vanilla[i].ok]
  IN CompoundProveWithVanilla(pp, replicas, made, cpus)

GenerateWindowPost(cfg, replicas, cpus) ==
  CompoundProve(WindowPostSetupParams(cfg), replicas, GetPartitionsForWindowPost(Len(replicas), cfg), cpus)

GenerateWindowPostWithVanilla(cfg, replicas, cpus) == WithVanilla(cfg, WindowPostSetupParams(cfg), replicas, cpus)

VerifyWindowPost(cfg, replicas, groth) ==
  VerifyProofs(WindowPostSetupParams(cfg), GetPartitionsForWindowPost(Len(replicas), cfg),
               cfg.challenges * cfg.sectors, replicas, groth)

(* Winning proves its sectors over and over, once per challenge.              *)
Repeated(cfg, replicas) == FlattenSeq([r \in 1..WinningPostSetupParams(cfg).sectors |-> replicas])

GenerateWinningPost(cfg, replicas, cpus) ==
  CompoundProve(WinningPostSetupParams(cfg), Repeated(cfg, replicas), 1, cpus)

GenerateWinningPostWithVanilla(cfg, replicas, cpus) == WithVanilla(cfg, WinningPostSetupParams(cfg), replicas, cpus)

VerifyWinningPost(cfg, replicas, groth) ==
  /\ Len(replicas) = cfg.sectors
  /\ VerifyProofs(WinningPostSetupParams(cfg), 1, cfg.challenges * cfg.sectors, Repeated(cfg, replicas), groth)

(* Window only: each partition by its own call, which knows no other sectors; *)
(* the proofs are joined afterwards.                                          *)
GenerateSingleWindowPost(cfg, replicas, vanilla, k, cpus) ==
  LET part == SinglePartitionVanillaProofs(cfg, WindowPostSetupParams(cfg), k, replicas, vanilla)
  IN CompoundProveWithVanilla(WindowPostSetupParams(cfg), replicas,
       [ok |-> part.ok /\ \A i \in DOMAIN vanilla : vanilla[i].ok, proofs |-> <<part.proof>>], cpus)

MergeWindowPostPartitionProofs(parts) ==
  LET ok == \A k \in DOMAIN parts : parts[k].ok
  IN [ok |-> ok, groth |-> IF ok THEN FlattenSeq([k \in DOMAIN parts |-> parts[k].groth]) ELSE <<>>]

GenerateSingleWindowPosts(cfg, replicas, cpus) ==
  LET chunks == SectorChunks(replicas, cfg.sectors)
      vanilla == SectorChunks(VanillaProofsOf(cfg, replicas), cfg.sectors)
  IN MergeWindowPostPartitionProofs(
       [k \in DOMAIN chunks |-> GenerateSingleWindowPost(cfg, chunks[k], vanilla[k], k - 1, cpus)])

(* Which sectors a winner must prove: indices into the sector set.            *)
GenerateWinningPostSectorChallenge(cfg, setLen, hash) == [n \in 1..cfg.sectors |-> hash[n] % setLen]

(****************************************************************************)
(* The calls, and what they return                                           *)
(****************************************************************************)
(* The sectors that are proved; one leaf of one of them may be damaged.       *)
ReplicasOf(cfg, n, damaged, index) ==
  LET ids == IF cfg.typ = "window" THEN [i \in 1..n |-> i] ELSE GenerateWinningPostSectorChallenge(cfg, MaxReplicas, <<index>>)
  IN [i \in 1..n |-> [id |-> ids[i], comm_r |-> CommR(ids[i]), bad |-> IF i = damaged THEN {<<ids[i], index>>} ELSE {}]]

(* Their proofs by each route.                                                *)
RoutesOf(cfg, replicas, cpus) ==
  IF cfg.typ = "window"
  THEN [direct  |-> GenerateWindowPost(cfg, replicas, cpus),
        vanilla |-> GenerateWindowPostWithVanilla(cfg, replicas, cpus),
        single  |-> GenerateSingleWindowPosts(cfg, replicas, cpus)]
  ELSE [direct  |-> GenerateWinningPost(cfg, replicas, cpus),
        vanilla |-> GenerateWinningPostWithVanilla(cfg, replicas, cpus)]

ProvePosts ==
  \E cfg \in PostConfigs, n \in 1..MaxReplicas, cpus \in PostCpus, damaged \in 0..MaxReplicas, index \in LeafIndexes :
    LET replicas == ReplicasOf(cfg, n, damaged, index)
    IN /\ call = Idle
       /\ cfg.typ = "winning" => n = cfg.sectors
       /\ damaged <= n
       /\ call' = [fn |-> "posts", cfg |-> cfg, replicas |-> replicas, routes |-> RoutesOf(cfg, replicas, cpus)]

(* The verifier knows the sectors by their commitments, one of which may not  *)
(* be the one that was proved.                                                *)
PublicOf(replicas, other) ==
  [i \in DOMAIN replicas |-> [replicas[i] EXCEPT !.comm_r = IF i = other THEN CommR(-1) ELSE @]]

VerifyPost(cfg, public, groth) ==
  IF cfg.typ = "window" THEN VerifyWindowPost(cfg, public, groth) ELSE VerifyWinningPost(cfg, public, groth)

VerifyPosts ==
  /\ call.fn = "posts"
  /\ \E other \in 0..Len(call.replicas) :
       call' = [fn |-> "post", cfg |-> call.cfg, replicas |-> call.replicas, routes |-> call.routes, other |-> other,
                accepted |-> {r \in DOMAIN call.routes :
                                VerifyPost(call.cfg, PublicOf(call.replicas, other), call.routes[r].groth)}]

(* The leaves of the i-th sector that a proof has to ask for.                 *)
ChallengedLeaves(cfg, id, i) ==
  {<<id, GetChallengeIndex(cfg.api, i - 1, cfg.challenges, n)>> : n \in 0..(cfg.challenges - 1)}

FaultyReplicas(cfg, replicas) ==
  {i \in DOMAIN replicas : replicas[i].bad \cap ChallengedLeaves(cfg, replicas[i].id, i) # {}}

PostRight(c) ==
  LET faulty == FaultyReplicas(c.cfg, c.replicas)
      id(i) == c.replicas[i].id
      asked(r) == UNION {Range(c.routes[r].groth[k].inputs) : k \in DOMAIN c.routes[r].groth}
  IN \A r \in DOMAIN c.routes :
       /\ c.routes[r].ok <=> faulty = {}
       /\ r = "direct" => c.routes[r].faults = SetToSortSeq({id(i) : i \in faulty}, <)
       /\ r \in c.accepted <=> faulty = {} /\ c.other = 0
       /\ c.routes[r].ok => asked(r) = UNION {ChallengedLeaves(c.cfg, id(i), i) \cup {CommR(id(i))} : i \in DOMAIN c.replicas}

(* Whatever route makes it, a proof of spacetime is made exactly when every   *)
(* challenged leaf can be proved, names the faulty sectors otherwise, is      *)
(* accepted for the sectors it was made for and for no others, and asks of    *)
(* every sector as many different leaves as the configuration says, padding   *)
(* and partitions notwithstanding.  Winning proofs of API version 1.2 are     *)
(* left out: there get_challenge_index gives every repetition of the sector   *)
(* index 0, and the two routes do not agree.                                  *)
PostVerifies == call.fn = "post" /\ ~(call.cfg.typ = "winning" /\ call.cfg.api = "V1_2") => PostRight(call)

PostNext == ProvePosts \/ VerifyPosts \/ Return({"post"})

PostSpec == call = Idle /\ [][PostNext]_call
=============================================================================

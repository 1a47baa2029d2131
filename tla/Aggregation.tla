----------------------------- MODULE Aggregation -----------------------------
(* The proofs of phase 2 of the commit, one by one, in batches and aggregated. *)
(* A Groth16 proof is what it proves, its public inputs; what the hash of a   *)
(* transcript covers stands for the hash.  An ensure! that fails is a         *)
(* verification that does not accept, or no proof.                            *)
EXTENDS Integers, Sequences, SequencesExt, FiniteSetsExt, Caller

CONSTANTS
  NiMin, NiMax,   \* FIP92 bounds on the non-interactive proofs of an aggregate
  SrsMax,         \* SRS_MAX_PROOFS_TO_AGGREGATE
  PorepConfigs,   \* configurations of proofs of replication
  SealInfos,      \* what sealed sectors: id, ticket, commitments and seed
  UpdateInfos,    \* commitments and h of updates
  MaxSectors      \* sectors of an aggregate

ASSUME AggregationAssumption ==
  /\ {NiMin, NiMax, SrsMax, MaxSectors} \subseteq Nat
  /\ PorepConfigs \subseteq [ni : BOOLEAN, partitions : Nat \ {0}, minimum : Nat, api : {"V1_0", "V1_1", "V1_2"}, h : Nat]
  /\ SealInfos \subseteq [id : Nat, ticket : Nat, commR : Nat, commD : Nat, seed : Nat]
  /\ UpdateInfos \subseteq [commROld : Nat, commRNew : Nat, commDNew : Nat, h : Nat]

Zero == 0                          \* a commitment or seed of zero bytes

NoProof == [kind |-> "none"]

(* A configuration says ni (non-interactive), partitions, the minimum number  *)
(* of challenges, api and the h of updates.                                   *)
FirstSupported(cfg) == cfg.ni => cfg.api = "V1_2"

(* Challenges of a partition: enough for all partitions to reach the minimum. *)
SelectChallenges(cfg) == 1 + ((cfg.minimum - 1) \div cfg.partitions)

EnoughChallenges(cfg, partitions) == SelectChallenges(cfg) * partitions >= cfg.minimum

(* The seed of a non-interactive proof is not looked at.                      *)
SealInputs(cfg, s, k) ==
  [replica |-> <<s.id, s.ticket, s.commD>>, commR |-> s.commR, commD |-> s.commD,
   seed |-> IF cfg.ni THEN Zero ELSE s.seed, k |-> k]

GetSealInputs(cfg, s) ==
  IF s.commD = Zero \/ s.commR = Zero THEN <<>>
  ELSE [k \in 1..cfg.partitions |-> SealInputs(cfg, s, k)]

(* The vanilla proofs of phase 1 are one for every partition.                 *)
SealCircuitProofs(cfg, s) ==
  IF s.seed = Zero \/ GetSealInputs(cfg, s) = <<>> THEN NoProof
  ELSE [kind |-> "multi", proofs |-> GetSealInputs(cfg, s)]

(* MultiProof::new_from_bytes reads as many proofs as there are partitions.   *)
ReadMany(proof, partitions) == proof.kind = "multi" /\ Len(proof.proofs) = partitions

(****************************************************************************)
(* Aggregation                                                               *)
(****************************************************************************)
(* A power of two has no odd divisor but 1.                                   *)
PowerOfTwo(p) == p > 0 /\ \A d \in 1..p : p % d = 0 => d = 1 \/ d % 2 = 0

NextPowerOfTwo(n) == Min({p \in n..(2 * n + 1) : PowerOfTwo(p)})

GetAggregateTargetLen(n) == IF n = 1 THEN 2 ELSE NextPowerOfTwo(n)

PadProofsToTarget(proofs, target) == proofs \o [i \in 1..(target - Len(proofs)) |-> Last(proofs)]

(* What is repeated are the inputs of the last proof.                         *)
InputsReach(inputs, per, target) ==
  \/ target = Len(inputs)
  \/ target > Len(inputs) /\ per > 0 /\ (target - Len(inputs)) % per = 0

PadInputsToTarget(inputs, per, target) ==
  inputs \o [i \in 1..(target - Len(inputs)) |-> inputs[Len(inputs) - per + ((i - 1) % per) + 1]]

AggregateProofs(proofs, transcript, version) ==
  [kind |-> "aggregate", proofs |-> proofs, transcript |-> transcript, version |-> version]

VerifyAggregateProofs(aggregate, inputs, transcript, version) ==
  aggregate.proofs = inputs /\ aggregate.transcript = transcript /\ aggregate.version = version

Bug_HashedSeedsAndCommRs(cfg, commRs, seeds) == <<>>

HashedSeedsAndCommRs(cfg, commRs, seeds) ==
  IF cfg.ni THEN commRs
  ELSE [i \in 1..Min({Len(seeds), Len(commRs)}) |-> <<seeds[i], commRs[i]>>]

Aggregate(outputs, transcript, version, partitions) ==
  LET proofs == FlattenSeq([i \in DOMAIN outputs |-> outputs[i].proofs])
      target == GetAggregateTargetLen(Len(proofs))
  IN IF (\A i \in DOMAIN outputs : ReadMany(outputs[i], partitions)) /\ target > 1 /\ target <= SrsMax
     THEN AggregateProofs(PadProofsToTarget(proofs, target), transcript, version)
     ELSE NoProof

AggregateSealCommitProofs(cfg, commRs, seeds, outputs, version) ==
  IF outputs # <<>> /\ (cfg.ni /\ Len(outputs) > 1 => Len(outputs) \in NiMin..NiMax)
  THEN Aggregate(outputs, HashedSeedsAndCommRs(cfg, commRs, seeds), version, cfg.partitions)
  ELSE NoProof

(* The number of inputs a proof has comes from the number of inputs given.    *)
InputsPerProof(aggregate, inputs) == GetAggregateTargetLen(Len(inputs)) \div Len(aggregate.proofs)

VerifyAggregate(aggregate, inputs, transcript, version) ==
  LET n      == Len(aggregate.proofs)
      per    == InputsPerProof(aggregate, inputs)
      target == n * per
  IN /\ aggregate.kind = "aggregate" /\ n > 1 /\ n = NextPowerOfTwo(n) /\ inputs # <<>>
     /\ InputsReach(inputs, per, target)
     /\ VerifyAggregateProofs(aggregate, PadInputsToTarget(inputs, per, target), transcript, version)

VerifyAggregateSealCommitProofs(cfg, aggregate, commRs, seeds, inputs, version) ==
  /\ Len(commRs) = Len(seeds)
  /\ VerifyAggregate(aggregate, inputs, HashedSeedsAndCommRs(cfg, commRs, seeds), version)

(****************************************************************************)
(* One sector, and a batch of them                                           *)
(****************************************************************************)
VerifyMulti(cfg, s, proof) ==
  /\ s.commD # Zero /\ s.commR # Zero
  /\ ReadMany(proof, cfg.partitions) /\ EnoughChallenges(cfg, Len(proof.proofs))
  /\ proof.proofs = GetSealInputs(cfg, s)

VerifySeal(cfg, s, proof) ==
  IF cfg.ni
  THEN /\ GetSealInputs(cfg, s) # <<>> /\ proof.kind = "aggregate"
       /\ VerifyAggregateSealCommitProofs(cfg, proof, <<s.commR>>, <<s.seed>>, GetSealInputs(cfg, s), "V2")
  ELSE VerifyMulti(cfg, s, proof)

(* A non-interactive proof is aggregated, and every proof is checked before   *)
(* it is returned.                                                            *)
SealCommitPhase2(cfg, s) ==
  LET output == SealCircuitProofs(cfg, s)
      proof  == IF ~cfg.ni THEN output
                ELSE IF FirstSupported(cfg) /\ output # NoProof
                THEN AggregateSealCommitProofs(cfg, <<s.commR>>, <<s.seed>>, <<output>>, "V2")
                ELSE NoProof
  IN IF proof # NoProof /\ VerifySeal(cfg, s, proof) THEN proof ELSE NoProof

VerifyBatchSeal(cfg, sectors, proofs) ==
  /\ sectors # <<>> /\ Len(sectors) = Len(proofs)
  /\ \A i \in DOMAIN sectors : VerifyMulti(cfg, sectors[i], proofs[i])

(****************************************************************************)
(* Updates of sectors                                                        *)
(****************************************************************************)
GetSectorUpdateInputs(cfg, u) ==
  IF Zero \in {u.commROld, u.commRNew, u.commDNew} THEN <<>>
  ELSE [k \in 1..cfg.partitions |-> [commROld |-> u.commROld, commRNew |-> u.commRNew, commDNew |-> u.commDNew, h |-> cfg.h, k |-> k]]

UpdateProof(cfg, u) == [kind |-> "multi", proofs |-> GetSectorUpdateInputs(cfg, u)]

GetHashedCommitments(updates) == updates

SameH(updates) == \A i \in DOMAIN updates : updates[i].h = updates[1].h

AggregateEmptySectorUpdateProofs(cfg, proofs, updates, version) ==
  IF cfg.api = "V1_2" /\ version = "V2" /\ updates # <<>> /\ SameH(updates)
  THEN IF proofs = <<>> THEN NoProof ELSE Aggregate(proofs, GetHashedCommitments(updates), version, cfg.partitions)
  ELSE NoProof

VerifyAggregateSectorUpdateProofs(cfg, aggregate, updates, inputs, version) ==
  /\ cfg.api = "V1_2" /\ version = "V2" /\ aggregate.kind = "aggregate"
  /\ inputs # <<>> /\ updates # <<>> /\ SameH(updates)
  /\ InputsPerProof(aggregate, inputs) = 1
  /\ VerifyAggregate(aggregate, inputs, GetHashedCommitments(updates), version)

(****************************************************************************)
(* Proofs of phase 2 and aggregates                                          *)
(****************************************************************************)
Commit ==
  \E cfg \in PorepConfigs, s \in SealInfos :
    /\ call = Idle
    /\ call' = [fn |-> "commit", cfg |-> cfg, s |-> s, proof |-> SealCommitPhase2(cfg, s)]

VerifySeals ==
  /\ call.fn = "commit"
  /\ call' = [fn |-> "committed", cfg |-> call.cfg, s |-> call.s, made |-> call.proof # NoProof,
              accepted |-> {s \in SealInfos : VerifySeal(call.cfg, s, call.proof)},
              batches |-> {pair \in SealInfos \X SealInfos :
                             VerifyBatchSeal(call.cfg, pair, <<call.proof, SealCircuitProofs(call.cfg, pair[1])>>)}]

(* The lists the caller of an aggregation may name: those it proves, or one   *)
(* too few or too many.                                                       *)
Named(list) == {list} \cup (IF list = <<>> THEN {} ELSE {Front(list), Append(list, Last(list))})

CommRs(list) == [i \in DOMAIN list |-> list[i].commR]

Seeds(list) == [i \in DOMAIN list |-> list[i].seed]

Lists(of) == SeqOf(IF of = "seal" THEN {s \in SealInfos : s.seed # Zero} ELSE UpdateInfos, MaxSectors)

AggregateSeals ==
  \E cfg \in PorepConfigs, proved \in Lists("seal"), version \in {"V1", "V2"} :
    \E named \in Named(proved) : \E seeded \in {proved, named} :
      /\ call = Idle
      /\ call' = [fn |-> "aggregate", cfg |-> cfg, of |-> "seal", proved |-> proved, named |-> named, seeded |-> seeded,
                  version |-> version,
                  proof |-> AggregateSealCommitProofs(cfg, CommRs(named), Seeds(seeded),
                              [i \in DOMAIN proved |-> SealCircuitProofs(cfg, proved[i])], version)]

AggregateUpdates ==
  \E cfg \in PorepConfigs, proved \in Lists("update"), version \in {"V1", "V2"} :
    \E named \in Named(proved) :
      /\ call = Idle
      /\ call' = [fn |-> "aggregate", cfg |-> cfg, of |-> "update", proved |-> proved, named |-> named, seeded |-> named,
                  version |-> version,
                  proof |-> AggregateEmptySectorUpdateProofs(cfg, [i \in DOMAIN proved |-> UpdateProof(cfg, proved[i])], named, version)]

(* The verifier's inputs are those of each sector of its list; a sector whose *)
(* commitments are zero has none and leaves it without an answer.             *)
InputsOf(cfg, of, s) == IF of = "seal" THEN GetSealInputs(cfg, s) ELSE GetSectorUpdateInputs(cfg, s)

AcceptsList(cfg, of, proof, list, version) ==
  LET inputs == FlattenSeq([i \in DOMAIN list |-> InputsOf(cfg, of, list[i])])
  IN /\ \A i \in DOMAIN list : InputsOf(cfg, of, list[i]) # <<>>
     /\ IF of = "seal" THEN VerifyAggregateSealCommitProofs(cfg, proof, CommRs(list), Seeds(list), inputs, version)
        ELSE VerifyAggregateSectorUpdateProofs(cfg, proof, list, inputs, version)

VerifyAggregates ==
  LET cfg == call.cfg
  IN /\ call.fn = "aggregate"
     /\ \E version \in {"V1", "V2"} :
          call' = [fn |-> "aggregated", cfg |-> cfg, of |-> call.of, proved |-> call.proved,
                   named |-> IF cfg.ni THEN call.named ELSE SubSeq(call.named, 1, Min({Len(call.named), Len(call.seeded)})),
                   honest |-> call.named = call.proved /\ call.seeded = call.proved /\ version = call.version,
                   made |-> call.proof # NoProof, sameVersion |-> version = call.version,
                   accepted |-> {list \in Lists(call.of) : call.proof # NoProof /\ AcceptsList(cfg, call.of, call.proof, list, version)}]

(* What a proof says of a sector: a non-interactive one leaves the seed open. *)
Said(cfg, s) == IF cfg.ni THEN [s EXCEPT !.seed = Zero] ELSE s

SaidOf(c, list) == IF c.of = "seal" THEN [i \in DOMAIN list |-> Said(c.cfg, list[i])] ELSE list

CommittedRight(c) ==
  /\ c.made <=> /\ Zero \notin {c.s.seed, c.s.commR, c.s.commD} /\ FirstSupported(c.cfg)
                /\ c.cfg.ni => GetAggregateTargetLen(c.cfg.partitions) <= SrsMax
  /\ c.accepted = {s \in SealInfos : c.made /\ Said(c.cfg, s) = Said(c.cfg, c.s)}
  /\ c.batches = {<<s, s>> : s \in {s \in SealInfos : c.made /\ ~c.cfg.ni /\ s = c.s}}
  /\ EnoughChallenges(c.cfg, c.cfg.partitions)

AggregatedRight(c) ==
  /\ \A list \in c.accepted :
       /\ c.sameVersion
       /\ SaidOf(c, list) = SaidOf(c, c.named)
       /\ \A i \in DOMAIN list : SaidOf(c, list)[i] = SaidOf(c, c.proved)[Min({i, Len(c.proved)})]
  /\ c.made /\ c.honest => c.proved \in c.accepted

(* A proof that seal_commit_phase2 returns is accepted by verify_seal for its *)
(* own sector only, and in a batch by verify_batch_seal, which takes no       *)
(* non-interactive proof.  An aggregate is accepted for the list of sectors   *)
(* its maker named (as far as both the comm_rs and the seeds go, which need   *)
(* not be equally many) and for no other, although proofs and inputs are      *)
(* padded to a power of two with copies of the last one, and only when each   *)
(* of them was proved; and the list that was proved and named is accepted.    *)
AggregatesRight ==
  /\ call.fn = "committed" => CommittedRight(call)
  /\ call.fn = "aggregated" => AggregatedRight(call)

AggregateNext ==
  \/ Commit \/ VerifySeals \/ AggregateSeals \/ AggregateUpdates \/ VerifyAggregates
  \/ Return({"committed", "aggregated"})

AggregateSpec == call = Idle /\ [][AggregateNext]_call
=============================================================================

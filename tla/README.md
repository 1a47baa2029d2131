# A TLA+ verification of rust-fil-proofs

rust-fil-proofs creates and checks Filecoin's storage proofs.  To seal a sector it
labels the nodes of a stacked depth-robust graph, layer after layer, encodes the
data with the labels of the last layer, commits to all of it with Merkle trees and
proves the result with a zk-SNARK.  Three kinds of things are hard to test in it: the
places where threads and processes meet (the lock-free labelling pipeline, the jobs
that build trees on a GPU, the parameter and cache files), the files that calls leave
for each other and reuse after a crash, and index arithmetic that must agree between
prover, verifier and circuit for every shape of tree, partition and piece.  This
project models all three.  Paths below are relative to the repository; *vanilla/*
stands for `storage-proofs-porep/src/stacked/vanilla/` and *api/* for
`filecoin-proofs/src/api/`.

## Contents

| module | models | EXTENDS / INSTANCEs |
|---|---|---|
| `SDR` | what labelling promises: the abstract specification of both implementations | |
| `MultiSDR` | `create_label/multi.rs`, `memory_handling.rs`, `utils.rs` | instance of `SDR` |
| `MultiSDR_proofs` | theorems about the ring, the cursor and the windows of `MultiSDR` | `MultiSDR`, `TLAPS` |
| `MultiSDR_labels_proofs` | theorems about its labels, the refinement of `SDR` | `MultiSDR_proofs` |
| `SingleSDR` | `create_label/single.rs`, `create_label/mod.rs`, partial mapping in `cache.rs` | instance of `SDR` |
| `SingleSDR_proofs` | theorems about `SingleSDR` | `SingleSDR`, `TLAPS` |
| `ParentCacheFile` | `cache.rs` (new, open, generate), `LockedFile` of `parameter_cache.rs` | |
| `ParentCacheFile_proofs` | theorems about `ParentCacheFile` | `ParentCacheFile`, `TLAPS` |
| `ParamStore` | `parameter_cache.rs`, `filecoin-proofs/src/caches.rs`, `paramfetch`, `paramcache` | |
| `ParamStore_proofs` | theorems about `ParamStore` | `ParamStore`, `TLAPS` |
| `Sector` | *api/*`seal.rs`, *api/*`mod.rs`, replication in `proof.rs`, clearing | |
| `SectorUpdate` | *api/*`update.rs`, `storage-proofs-update/src/vanilla.rs` | `Sector` |
| `SectorUpdate_proofs` | theorems about `Sector` and `SectorUpdate` | `SectorUpdate`, `TLAPS` |
| `Merkle` | `storage-proofs-core/src/merkle/`, `por.rs` | |
| `PoRCircuit` | the PoR and insertion gadgets | `Merkle` |
| `Graph` | `drgraph.rs`, *vanilla/*`graph.rs`, `feistel.rs` | |
| `Challenges` | challenges of PoRep and of updates, synthetic proofs, range decoding | `Graph`, `PoRCircuit` |
| `PoRepCircuit` | vanilla proofs, their verification, the PoRep circuit | `Challenges` |
| `Post` | Window and Winning PoSt: `storage-proofs-post/src/fallback/`, *api/*`window_post.rs`, `winning_post.rs`, `post_util.rs` | `Caller` |
| `Fr32` | `fr32/src/` | |
| `Pieces` | `pieces.rs`, `commitment_reader.rs`, piece functions of the API | `Merkle`, `Fr32` |
| `Aggregation` | commit phase 2, batches, aggregates of seals and updates | `Caller` |
| `Caller` | the caller of a sequential algorithm: one call at a time | |
| `PostAggregation_proofs` | theorems about `Post` and `Aggregation` | `Post`, `Aggregation`, `TLAPS` |
| `TreePipeline` | building tree C and tree R in `proof.rs`, `fake_seal.rs` and the update's tree | |
| `TreePipeline_proofs` | theorems about `TreePipeline` | `TreePipeline`, `TLAPS` |
| `Algorithms` | the composition of the ten models from `Merkle` to `TreePipeline`: the library under its callers | those ten |
| `MC_*` | the instances TLC checks, one `.cfg` per run | the module they are named after |

`tlc -config MC_MultiSDR_safety.cfg MC_MultiSDR` runs one configuration and
`tlapm MultiSDR_proofs.tla` checks the proofs of one module.  `PROJECT.json` holds the same
information for tools: the source lines of every definition (`map`), the runs, one
mutation of the model per property that must break it (`mutants`; the `Bug_`
definitions), the hazards, the findings and the theorems.

## Inventory

**Multicore label generation** (*vanilla/*`create_label/multi.rs`, `utils.rs`).
State: two label buffers, a ring of `lookahead` slots with a bit mask each, the
atomics `cur_producer` and `cur_awaiting`.  Operations: producers take strides of
nodes, fill slots with parents and a first SHA block, and publish the strides in
order; the hashing thread consumes nodes in order and fills in the parents that
were missing.  Threads share raw memory (`UnsafeSlice`, `RingBuf`) and rely on the
counters alone.  Hard: every interleaving of the counters; wrong use of a slot
yields a wrong label, hence an invalid proof, never an error.  Correct if slots are
exclusive, published nodes complete, labels right, and the threads never wait for
each other for ever.

**Parent cache reader** (*vanilla/*`memory_handling.rs`).  State: two memory-mapped
windows, `consumer`, and `IncrementingCursor` with `cur` and `cur_safe`.
Operations: `slice_at` (may elect this thread to remap a window),
`consumer_slice_at`, the reset in two halves.  Hard: the election, slices that
outlive a window, resets between layers.  Correct if a slice that is in use stays
mapped and is the one of its node.

**Single-core label generation and layer store** (*vanilla/*`create_label/single.rs`,
`mod.rs`).  State: the layer files with their `.tmp` names, open stores.  Hard:
crashes between any two steps, resuming, decoding with one path for all layers.
Correct if files that are taken for complete are, and finished layers are not redone.

**Parent cache file** (*vanilla/*`cache.rs`, `graph.rs`).  State: a file shared by all
processes, advisory locks, a partial mapping.  Hard: several processes creating,
verifying, deleting and reading it; crashes.  Correct if an opened cache is complete
and does not change.

**Graphs** (`drgraph.rs`, *vanilla/*`graph.rs`, `feistel.rs`): pure functions from a
node to its parents.  Correct if base parents precede the node and the expander
parents come from a permutation.

**Core groups** (*vanilla/*`cores.rs`): units of cores behind mutexes taken with
`try_lock`, to which threads are bound.

**Parameter cache** (`parameter_cache.rs`, `filecoin-proofs/src/caches.rs`,
`paramcache`, `paramfetch`).  State: files of Groth parameters, verifying keys, SRS
keys and metadata; a map or a `OnceCell` per key in memory; the set of files a process
has verified.  Operations: look up in memory, read, verify, generate, write; download
and check in rounds.  Hard: several processes generate and write the same file, one
dies while it writes, one reads while another replaces.  Correct if all who get
parameters get the same, verified ones where verification is on, and nobody waits for
ever.

**Sealing, unsealing and update** (*api/*`seal.rs`, `mod.rs`, `update.rs`; `proof.rs`;
`storage-proofs-update/`).  State: the replica, a cache directory of layers, trees,
`p_aux`, `t_aux` and synthetic proofs, and the outputs of the phases that the caller
keeps.  Hard: the replica is encoded in place; files are written one after the other
under their final names; calls may be repeated, interleaved with clearing and
unsealing, or killed anywhere.  Correct if what is accepted encodes the data of the
pieces and stays provable and decodable.

**Tree building** (`proof.rs`).  State: one thread pool and one GPU lock per process,
channels without room between reader, builder and writer.  Hard: calls that share
them; panics; order of batches and parallel writes.  Correct if a tree that is used is
the tree of its leaves and every call ends.

**Merkle trees, graphs, challenges, vanilla proofs and circuits, PoSt, pieces, fr32,
aggregation**: sequential algorithms.  Hard: the same index or layout is computed in
several places (prover, verifier, circuit, file) which must agree for every shape,
partition, padding and API version.  Correct if a proof is accepted for exactly what
it was made for.

**Hashers, bit-level gadgets, sha2raw, tooling**: cryptographic primitives and command
line programs.

The parts interact by calls, files and shared locks.  `seal_pre_commit_phase1` builds
tree D and calls `StackedDrg::generate_labels_for_*`, which opens the parent cache
(`graph.parent_cache()`) and labels single-core or multicore, leaving layer files;
phase 2 builds tree C from the layers, encodes the replica and builds tree R; commit
phase 1 opens all trees at the challenges, commit phase 2 loads parameters from the
parameter cache, proves and verifies.  PoSt, unsealing and updates read what sealing
left.  Processes share the parent cache and the parameter files through file locks,
threads of one process the memory caches, the pool and the GPU lock.

## The modules

### SDR

Two variables, the layer and the set of nodes whose label is final and right.  A
node is labelled after its base parents; the next layer starts when all are.

### MultiSDR

One action per step between two accesses to shared state.  All atomics in the code
are SeqCst, so interleaving these steps is what the hardware may do.  The hashing
thread is `mainPc` (`BeginLayer`, `NodeZero`, `StoreConsumer`, `LoadProducer`,
`Refill`, `Hash`, `IncrementConsumer`, `Join`; `SkipLayer` for a layer found on
disk).  A producer is `pc[p]`: `Grab` and `Room`, then `slice_at` (`CasCur`,
`CasSafe`, `LoadSafe`, `Selected` / `NotSelected`, `WaitConsumer`, `Remap`, `Bump`,
`Await`, `Slice`), then `fill_buffer` (`FillHead`, `FillBase` per parent, `FillExp`),
then `Turn` and `Publish`.

Data is abstracted to what decides whether a label is right.  A label is `0` (fresh
memory), a layer number (the right label of that layer), `PreHash` (the first SHA
block a producer leaves in the node's place) or `Bad`.  A slot records for which
node it was filled and which of its blocks hold right data.  `Hash` yields the right
label if all of `InputsRight` holds, else `Bad`, so every race that could corrupt a
label shows as `Bad`.  Reading a slice whose buffer has been remapped gives arbitrary
parents: `FillBase` then goes either way.  `WeakCas` says whether
`compare_exchange_weak` may fail spuriously, as it may on ARM.

Left out: binding to cores, logging, the bytes of the blocks, and errors of mmap and
of storing a layer (which end labelling; `SingleSDR` has them).

### SingleSDR

`PrepareLayers` and a loop over layers (`SkipLayer`, `BeginLayer`) and nodes
(`CreateLabel`); `write_layer` is three steps (`CreateTmp`, `WriteTmp`, `Rename`)
between which the process can die (`Crash`) or the write fail (`WriteFails`); then
labelling starts again with what is on disk.  Files are inodes, since in decoding
all layers go through one path and earlier stores stay open.  `OffsetFor` and
`Shifted` are the partial mapping of `ParentCache::read`, a label is right only if
its node was inside the mapped part, which `SingleAssumption` lets be moved on safely
because base parents precede their node (`drgraph.rs`).  `SDR` has no crashes and no skipped layers, so
the module shows step by step (`StepsOfSDR`) that a call which finds nothing to resume
implements it.  A crash is the death of the process; the loss of unsynced data in a
power failure is not modelled.

### ParentCacheFile

Each process calls `ParentCache::new` up to `MaxCalls` times.  Every system call is
a step: existence test, `create_new`, lock, `set_len`, the chunks written in any
order, unlock, open, shared lock, length check; with verification also the digest
(without a lock) and deletion.  The file system is external and modelled as inodes
with a length, content and lock.  A process may be killed (`Crash`), and any of these
calls, or the digest of what was generated, may return an error (`Fails`); either
releases its locks and leaves the file as it is.  `generate` takes back nothing, so a
file whose `generate` was broken off may have the full length; `broken` remembers
these files.

### ParamStore

Each thread of each process calls for parameters, a verifying key, an SRS key or
metadata.  A call is a sequence of steps, one per access to a file, a lock or a cache:
memory lookup or `OnceCell`, verification (`VerifyKnown`, or `Open` and `Hash`),
`Open`, `Seen` or `Read`, and on failure `Exists`, `Generate`, `Create`, `Lock`,
`Write`, and `AlreadyExists` for the loser of `create_new`.  Threads in `Rng` generate
without the memory caches, as `paramcache` and the tests do.  `paramfetch` is one more
process (`FetchCheck`, `FetchRename`, `FetchDecide`, `FetchOpen`, `FetchFill`,
`FetchAgain`).  Contents of a file are a number: truncated, what the manifest's digest
stands for, an older set, or a fresh one for every generation, since parameters are
random.  A process may die, a write may fail, and a file that `paramfetch` cannot hash
is marked for download and stays where it is.

### Sector and SectorUpdate

One sector, whose API calls are sequences of steps between which the process can be
killed; a call in progress is `pc`, `i` and `arg`, the caller's records are `p1`, `p2`
and `commit`.  Nodes are field elements to which keys are added, so a chunk of the
replica is a formal sum: encoding twice shows as a coefficient of two.  Layers are the
sequence of tickets they were computed with, trees what they were computed over.
Phase 1 is `Phase1`, `CopyData`, `CreateTreeD`, `BuildTreeD`, `VerifyPieces`,
`GenerateLabels`, or `Phase1DevZero` in place of the first two, which copies nothing
and only extends the replica file (`Extended`); phase 2 from `CreateTreeC` to
`PersistTAux`; `Sdr`, `GenerateTreeC`
and `GenerateTreeRLast` are the partial entry points; `Commit1` opens the trees and
verifies what it opened, with stored synthetic proofs in `Commit1Synth`; then clearing,
validation and unsealing.  A Merkle tree is not built over a store that exists:
`CreateTreeD` and `EncodeTreeD` go on with the tree D they find, whatever it was built
over, and `comm_d` is the root of that tree (the layer that unsealing leaves at the path
has another length, which is an error).  On the GPU (`gpu`) an old tree C
is removed first; on the CPU it is kept, and a build that fails goes unnoticed
(`BuildTreeC`).  `SectorUpdate` adds a second replica with its own cache:
`EncodeInto` and its steps (chunks in any order), `ProveUpdate`, decoding and
`RemoveEncodedData`.  Some fields record what no file does: whether synthetic proofs
are of the replica as it is, and whether the `p_aux` on disk was that of the accepted
replica (`PAuxOf`).  The properties that depend on it name these fields.

### Algorithms and what it composes

`Algorithms` is the library as its callers see it: either one sequential call at a
time, with every small input, or concurrent tree building.  A call takes one action
per stage, so that stages of different parts are composed as in the code and each
checks what the one before really made.  `Caller` declares the variable `call`, the
call in progress with what it has returned.  `Post` and `Aggregation` are
specifications of their own (`PostSpec`, `AggregateSpec`), whose next-state relations
are disjuncts of `Algorithms!Next`.

* `Merkle`: base trees, sub and top rows; splitting of store and replica; proofs with
  base, sub and top path, their index, `PoR`.  A hash is the sequence of what it
  hashes.
* `PoRCircuit`: `select`, `insert`, the PoR gadget and `por_no_challenge_input`, as
  the value of a synthesis: whether it is satisfied, and its public inputs in order.
* `Graph`: bucket sampling with arbitrary draws, the Feistel permutation with any
  keys, expander parents with the `u32` of API version 1.0 (`U32`), duplication of
  parents to 37.
* `Challenges`: interactive, synthetic and non-interactive challenges by partition;
  the fixed-size records of the synthetic proof file; update challenges from digest
  bits, apex leaves, `h_select`; `decode_from_range` over chunks.
* `PoRepCircuit`: labels and encoding modulo a small prime; column, labelling and
  encoding proofs; the circuit with packed challenges and parents.  A prover may
  answer with the proofs of other nodes or with reordered parents.
* `Post`: sector lists cut into partitions and padded by repeating the last sector;
  proofs made at once, from vanilla proofs made elsewhere, or by partition.  The
  sectors have one damaged leaf at most, and the verifier may have been given another
  commitment for one of them.
* `Fr32`, `Pieces`: bits are named, so that a misplaced one shows; elements have 16
  bits instead of 256 with the same two padding bits, which keeps the four elements
  to a block.  `add_piece` reads through `Fr32Reader` and `CommitmentReader` with
  readers that return fewer bytes than asked for.
* `Aggregation`: a Groth16 proof is its public inputs; aggregation pads proofs and
  inputs to powers of two, hashes seeds and commitments, bounds the counts.  The
  maker may name one sector more or fewer than it proves.  A sector with a zero
  commitment has no inputs (`get_seal_inputs` fails), so no list with it is accepted.
* `TreePipeline`: several calls (sealing, update, fake sealing; on GPU or CPU), the
  jobs of the pool in a FIFO queue, workers, `GPU_LOCK` with poisoning.  A send and
  its receive on a channel of capacity 0 are one step.  Reads, writes and hashing may
  fail; a panic closes channels (`BuilderGone`, `ReaderGone`, `TreesGone`).  On the CPU
  a base tree of tree C that could not be built, or was not because a store was found
  (`BaseTreeFails`), stops nothing until `create_disk_tree` looks at the lengths
  (`Opens`).

## What the runs show

| run | instance | shows |
|---|---|---|
| multi_safety | 16 nodes, 4 windows, lookahead 3, 3 producers, 3 layers with the second on disk | `TypeOK`, `OrderOK`, `SlotExclusive`, `PublishedReady`, `SlicesMapped`, `SafeIsMapped`, `CursorOK`, `LabelsRight` |
| multi_live | 14 nodes, windows of 6, lookahead 4, stride 2, 2 producers | `ImplementsSDR`, `Termination` |
| multi_wide | lookahead of several windows, one producer, 3 layers with the second on disk | `RemapOnlyConsumed` |
| single_crash | 3 layers, any leftovers, 3 failures, both modes | `TypeOK`, `DiskRight`, `ResultRight`, `CompleteKept`, `StepsOfSDR`, `Completes` |
| cache_share | 3 processes, each verifying or not, one of them killed or met by an error | `TypeOK`, `ReadyComplete`, `MappedStable`, `CallEnds` |
| param_race | 2 threads of one process and a generating process, or 2 generating processes, or a thread and paramfetch with 2 rounds; one failure | `Agreement`, `VerifiedRight`, `FetchedGood`, `CallEnds` |
| sector_life | 2 tickets, 2 layers, 2 base trees, 6 calls, one killed; the pieces are those of a file of zeros; CPU and GPU | `TypeOK`, `AcceptedDecodes`, `StillProvable`, `UpdateStands`, `KeyRecovered`, `FreshCommits` |
| algorithms | 6 shapes of trees, graphs of 2 to 16 nodes, updates of 2^5 to 2^24 nodes, 4 kinds of PoSt with up to 4 sectors, 8 blocks of pieces, 3 sectors in an aggregate; 2 concurrent tree builds on 3 workers with one failure | `ProvesLeaf`, `ChallengesRight`, `GraphRight`, `PoRepSound`, `PostVerifies`, `PiecesRight`, `AggregatesRight`, `TreesRight`, `CallsEnd` |

Every property is stated in words in front of its definition.

The bounds are chosen so that the interesting cases happen.  Three producers are the
least number for which one elects itself, one waits and one works in another window;
four windows make both buffers be replaced and the cursor move past window 1, which
is special; three layers with one on disk include the reset over a skipped
layer, and multi_live the one without; a
lookahead that does not divide the nodes makes slots wrap at all positions.  Three
processes are needed for one to delete a file while another writes and a third opens
it.  For the parameters, two threads of one process share a memory cache and a cell
while a third process writes.  Six calls of a sector are both phases and a
commit with three more: repetitions after a crash, clearing and unsealing, or an update,
its proof and the removal of its data; two tickets and two chunks let layers be stale
and a replica be half encoded.  The file of zeros is the one the pieces describe, so
that a phase 1 from `/dev/zero` can be accepted.  Of the eight combinations of the three
settings (`gpu`, `multi`, `synth`) the run takes three, in which each setting has both
values (`MC_Init`); the proofs cover all.  The processes of cache_share are alike, so
it looks only at settings in which those that verify come first (`VerifiersFirst`).
The shapes of trees have one, two and three rows of different arities, which is where
indices are split; the graphs include sizes that are not powers of two for the Feistel
cycle walk and sizes for which pairs exceed `U32`; four sectors in partitions of two
give full, partial and padded partitions; eight blocks hold every sequence of up to
eight aligned pieces; three sectors make padding to four happen.  Batches of 3 and 2
over trees of 4 leaves give a short last batch.  In the passing multicore runs with
several producers a lookahead is no longer than a window and a stride no longer than a
lookahead.  multi_safety, which checks `CursorOK`, also has `2 * Lookahead - 2 < W`, as
the default settings do when encoding; multi_live (lookahead 4, window 6) does not, and
with its two producers needs it neither for `ImplementsSDR` nor for `Termination`.
Outside of these bounds the code does not keep what the properties say, as the next
section records.

`CHECK_DEADLOCK FALSE` stands where the system may stop: the processes of
`ParentCacheFile`, `ParamStore` and `Sector` make a bounded number of calls, and in the
runs that are expected to fail the threads do end up waiting for each other.  In the
algorithms run deadlock is checked.

**Fairness.**  `MultiSDR!FairSpec` is weak fairness of each thread: they are OS
threads and spin with sleep or `spin_loop`, none holds a lock.  `SingleSDR!FairSpec`
is weak fairness of the process's own steps, including that the caller tries again
after an error, not of failures, whose number is bounded.
`ParentCacheFile!FairSpec` is weak fairness of each process inside
`ParentCache::new`; weak fairness suffices as a released lock stays free until
someone takes it, and only calls, of which there are finitely many, take it.
`ParamStore` has weak fairness of each thread inside a call, not of `paramfetch`,
failures or new calls.  `Algorithms!FairSpec` has weak fairness of the pool and of each
tree building call, whose threads are OS threads; a mutex that is freed again and again
is not kept from any of them for ever, and no failure has to happen.

## Disagreements between code and comments

Four runs are expected to fail, each with one property that a comment or the
README states.

* **multi_stride**: `window_nodes()` returns the nodes of the whole file, so the
  clamp under the NOTE at `multi.rs:220` does not prevent the deadlock it names.
* **multi_missed**: a producer that waits at `memory_handling.rs:87` tests `cur_safe`
  for equality with `cur + 1` and spins for ever if it advanced twice in between.
  This needs `2 * lookahead - 2` to reach the window size; in decoding the window is
  half of that in encoding (`multi.rs:556`) and the default lookahead is enough.
* **multi_weak**: both weak compare-exchanges of the first producer at window 1
  (`memory_handling.rs:60-61`, on `cur` and on `cur_safe`) fail spuriously; it then finds
  `cur_safe` at 0 and elects itself for the transition, while the exchange of a second
  producer moves `cur_safe` to 1.  When the first one adds its one, `cur_safe` names
  window 2, which is not mapped.
* **cache_crash**: a process killed after `set_len` leaves a file that is accepted as
  complete (`cache.rs:167` says generation "has previously been completed").  An error
  of `generate` leaves the same file (`cache.rs:323-344`, `:366-371`); `ReadyComplete`
  excepts the files whose `generate` was broken off either way, and no others.

What follows has no run of its own.  Where a property of a passing run had to leave a
case out or state it in a weaker form, this is why.

* Bits of `base_parent_missing` are never cleared, so parents that were filled in are
  fetched again: `LabelsRight` shows that the labels stay right, only the work of the
  producers is lost.
* With `Settings = {TRUE}` the cache_crash run fails as well: the digest is taken
  without the lock and the file opened again by path, so what was verified can still
  be replaced by an incomplete file (README.md:288-294 promises that inconsistent
  files are regenerated).  And the file is visible before it is locked and sized, so a
  process that should "just read it" (`cache.rs:183`) can end in `"error"` with nobody
  having crashed.
* Parameters: the loser of `create_new` reads the file again in `get_groth_params`, but
  gets an `AlreadyExists` error for a verifying key or an SRS key; a file truncated by
  a crash is never repaired by the library; `ipget` takes no lock, so `FetchedGood`
  holds for processes that verify what they read.  `paramfetch` replaces files without
  regard to who has read them: beside it, threads that do not verify may hold the set
  from before and the one from after, and the clause of `Agreement` that there is one
  set is for the time when `paramfetch` is not at work, or everyone verifies.  The SRS of
  the manifest is provided by no tool that is modelled, so with verification every call
  for it fails, and `VerifiedRight` says nothing more of it.
* Sealing: phase 2 run again after a crash encodes the replica twice, and layers left
  by another ticket are kept (`create_label/mod.rs:43`); both are noticed only by the
  proofs of commit phase 1.  Trees D (`seal.rs:162`, `storage-proofs-update/src/vanilla.rs:940`)
  that a crash left torn, or that are of other data, are kept too, and every later
  phase 1 then stops at `verify_pieces`; a layer that unsealing left at that path is an
  error of its length.  A phase 1 from `/dev/zero` leaves the bytes of a replica file
  that is full, encoded or not.  `FreshCommits` therefore starts from a phase 1 that
  passed over the data of the pieces, with layers of its ticket.  `p_aux`, `t_aux` and the synthetic proofs are written under
  their final names, and `validate_cache_for_*` accept stores that were created and
  never filled.  `comm_r_last` of `p_aux` is never compared with the tree
  (`proof.rs:242-246` compares `comm_c` and `comm_d`, `seal.rs:422` only reads the
  file): when one phase 2 is repeated on an encoded replica and killed after `p_aux`,
  and the sealing begun again for it is killed before `p_aux`, the sector can be
  accepted with the older `p_aux` and fails its PoSt.  It takes two kills, so the
  run's instance with one does not reach it; an attempt to prove `StillProvable`
  without a condition on `p_aux` did.  Single-core unsealing writes every layer over the file of tree D,
  multicore unsealing over the layer files.
* `generate_tree_c_cpu` (`proof.rs:1133`) keeps the `Result` of building a base tree
  without looking at it, and does not remove an old store as the GPU route does
  (`proof.rs:1020-1023`).  Phase 2 goes on if what is on disk has the right length, and
  commit phase 1 fails.  `TreesRight` allows such a store on the CPU after a failure,
  and `FreshCommits` asks on the CPU for a tree C that is that of the layers.
* `THREAD_POOL` has one worker per processor: as many concurrent GPU builds as workers
  can each have their reader running and wait for a builder that is queued.
  `CallsEnd` needs more workers than such calls.
* `settings.rs:109-111`: `use_gpu_column_builder` returns the setting of the tree
  builder, so `FIL_PROOFS_USE_GPU_COLUMN_BUILDER` (README.md:326) has no effect of its
  own; `UseGpu` is one choice for both.
* Graphs: API version 1.0 casts a pair's index to `u32` before dividing, so in sectors
  of more than 2^32 pairs the upper nodes are parents of none (`GraphRight` says so).
* `decode_from_range` ends by a test in bytes (`update.rs:209`) and may return fewer
  nodes than asked for when the file ends at a chunk.
* Winning PoSt with API version 1.2 gives every repetition of the sector the challenge
  index 0, and challenges made for provers elsewhere differ from those of the direct
  route; `PostVerifies` leaves that combination out.
* `unseal_range` is right for offsets that are a multiple of a block (127 bytes); its
  documentation speaks of any byte index.  `ReadRange` uses such offsets, and
  `write_unpadded` alone for others.
* `add_piece` accepts a source that is short by less than an element; `compute_comm_d`
  returns the root over the pieces without padding it to the sector, so pieces must
  reach the sector's second half (`PiecesRight`).
* `verify_batch_seal` has no branch for non-interactive proofs (`seal.rs:983` says the
  usual functions can be used for them); commit phase 2 requires a seed that is not
  zero for them too; making an aggregate does not compare the numbers of seeds and
  commitments, verifying it does.
* Vanilla verification takes the parents of a label from the proof; that they are the
  opened ones is checked by the circuit only (`PoRepSound`).

## What is proved

Every theorem holds for every value of the constants: any number of nodes, layers,
base parents, threads, processes, calls, crashes, tickets and trees.  A theorem that
asks for more than the named `ASSUME`s of its module says so in its statement; the
hypotheses are listed here with the reason for them.

**The ring** (`MultiSDR_proofs`; no hypothesis, spurious failures of
compare-exchange included): `RingCorrect`, `TypeCorrect`, `OrderCorrect` and
`SlotExclusion`, the exclusive use of ring slots that the `unsafe` blocks of
`multi.rs` depend on.  `SlotExclusive` is not inductive: nothing in it says where the
strides of two producers lie.  `RingInv` adds that the strides at work are pairwise
disjoint (`StridesDisjoint`), lie above `cur_producer` and below `cur_awaiting` and
contain the producer's node (`WorkInv`), that a producer in `fill_buffer` was below
`consumer + lookahead` when it checked and, the consumer only growing, still is, and
where the hashing thread stands with respect to what is published (`MainInv`).  Two
nodes being filled, or one filled and one published but not consumed, then differ by
less than `lookahead`, and `SlotsDiffer` gives different slots.

**The cursor** (`MultiSDR_proofs`): `SafeMapped`, `SlicesStayMapped` and
`RemapsConsumed` from `CursorCorrect`, whose invariant says that the buffers map
`cur_safe` and one neighbour of it, and that the producer in transition, of which there
is one, has seen the consumer leave the window it replaces.  Hypothesis `WindowHyp`:
compare-exchange does not fail spuriously (x86; multi_weak shows the failure without
it), and the lookahead is at most a window or there is one producer.  By default the
lookahead is 800 (`settings.rs:61`) and a window 2048 nodes when encoding, 1024 when
decoding (`multi.rs:458`, `:556`), so it holds in both.  It is needed: with 8
nodes, windows of 2, a lookahead of 5 and three producers TLC finds a slice that is
remapped while in use.  `CursorSound` asks for `NarrowHyp`, `2 * Lookahead - 2 < W`,
which holds when encoding only; multi_missed is the failure in decoding.

**The labels** (`MultiSDR_labels_proofs`, under `WindowHyp`): `PublishedAreReady`,
`LabelsAreRight` and the refinement `MultiImplementsSDR` (for a call that finds no
layer on disk, since `SDR` skips none).  `LabelInv` follows a node: being filled by one
producer, filled and unpublished, published, labelled, stored.

**Single-core labelling** (`SingleSDR_proofs`): `SingleTyped`, `DiskIsRight`,
`ResultIsRight`, `CompleteStays` and, step by step, `SingleTakesStepsOfSDR`.  The heart
of `SingleInv` is that there is at most one `.tmp` file and that no final name and no
open store refers to its inode before it is complete.

**The parent cache file** (`ParentCacheFile_proofs`): `CacheTyped`, `ReadyIsComplete`,
`MappedIsStable`.  `CacheInv` says which process holds which inode and lock, that two
generating processes have different inodes, and that a file of full length is complete,
is being filled under the lock, or had its `generate` broken off.  A counting argument
shows that a new inode is free.

**Parameters** (`ParamStore_proofs`): `StoreAgrees`, `VerifiedIsRight`,
`FetchedIsGood`, of behaviours in which `paramcache` and `paramfetch` do not run at once
(`Alone`, which the run's initial states satisfy): `ipget` takes no lock, so a
generator could replace a file that was verified.  The invariant says who may still
write an inode, that one set of parameters was ever written completely to each path
(where `paramfetch` does not replace it), and what a process that verified a file may
rely on.  `StoreAgrees` has two halves: that nobody uses a file cut short holds beside
`paramfetch` as well; that all use one set holds without it, and beside it where everyone
verifies, who then use the listed set.

**A sector's life** (`SectorUpdate_proofs`): `SectorTyped`, `AcceptedDecode`,
`StaysProvable`, `FreshCommit` (an action property), `UpdateIsSound` and
`KeyIsRecovered`.  `SectorInv` says for each step of a call what it has established
(`CallInv`), and for each record that outlives a call what it still says about the
files: the commit, synthetic proofs, an unbroken pass over the phases (`FreshInv`), the
accepted update and the recovered key.  Nothing is assumed of a tree D or C that a call
finds: that tree D is that of the pieces follows from `verify_pieces`, and that tree C
is that of the layers is known on the GPU only and is else a condition of
`FreshCommits`.  `PlusMinus` shows that encoding and decoding
cancel in a formal sum, `LabelsUnfold` (by the least layer that differs) that labels
which verify layer by layer are those of the ticket.  The hypothesis `Atoms` says that
`None` and `Torn` are not functions, which TLC's model values are not; it ranges over
everything, so it is a hypothesis and no `ASSUME` that TLC could evaluate.
The proof found that three properties did not hold after two crashes (the `p_aux` of
the previous section); model and properties now say what `p_aux` they rely on.

**Building the trees** (`TreePipeline_proofs`): `TreesAreRight` from `TreesCorrect`,
with `PipelineAssumption` only: any calls at once on a pool of any size, any numbers of
trees, leaves and failures, batches that need not divide a tree.  `TreesRight` speaks
of finished files and so is not inductive.  `TreeInv` says of each call how far its
reader is and what the builder has received (`ReaderOK`, `BuilderOK`: the batches in
order are the leaves of the current tree and no other), which tree the calling thread
holds (`MainOK`), that a file being written holds nothing wrong and lacks only pieces
that are still to be written (`PiecesOK`, in whatever order they are written), which
files are complete (`FilesOK`: except that a file of tree C on the CPU may be missing or
left over, until `create_disk_tree` has refused the missing one) and that exactly the
nodes below the reader's place are encoded (`EncodedOK`).  `PoolInv` ties the jobs of the pool to the calls that wait for
them, `HashInv` says that a column hash is computed or the job of its chunk is still
there, and `CauseInv` that a panic, a poisoned lock, a tree that was not built and a
failed call follow a failure.
Most steps change one call; `CallStep` lifts what is proved of its record to the state.

**Aggregates** (`PostAggregation_proofs`): `AggregatesAreRight`, of `AggregateSpec`,
with `AggregationAssumption` only (the types of the constants).  `AggregatesRight`
speaks of verdicts, which nothing in the state before them restrains; `CommittingInv`
adds that a call of phase 2 or of the aggregation has returned the output of the
functions for some inputs (`CommitReturned`, `AggregateReturned`).  The work is in
these functions.  Lists of proofs and of inputs are flattened and padded by repeating
the last one: `FlattenRegular` and `PadIs` say what stands at each place,
`AcceptedInputs` that the inputs of an accepted aggregate and its proofs, each continued
with its last element, are the same.  The transcript then settles how many sectors a list
has (`TranscriptLength`), since padding alone does not, and with it `AcceptedList` that
an accepted list is the one named and each of its sectors was proved; `OwnList` is the
converse for an honest maker.  The attempt corrected two things that the
instance of the run had not told apart: a list with a sector whose commitments are zero
could be accepted in the model, its inputs, being none, falling out of the list; and
`AggregatesRight` said that a seal proof is made whenever there is a seed, where it also
takes commitments that are not zero and, for a non-interactive one, no more proofs than
`SrsMax`.

**Proofs of spacetime** (`PostAggregation_proofs`): `PostsVerify`, of `PostSpec`, with
`PostAssumption` only (types, and one sector to a winning proof, as
`WINNING_POST_SECTOR_COUNT` says).  `PostingInv` adds to `PostVerifies` that the proving
calls have returned what the routes make of some list of sectors that may be proved
(`Posted`: no sector twice, commitments of their own).  `RightPart` is what the proofs of
a partition ought to be: at every place that of the sector which fills it, the last one
filling what is left over.  One half of the argument shows that each of the five routes
makes exactly these proofs or none (`DirectProof`, `WindowVanilla`, `WindowSingle`,
`WinningDirect`, `WinningVanilla`), where `ChallengesAre` and `PlaceIn` give each sector
the same challenges whether its place is counted in its partition or in the whole list.
The other half is about the verifier: the circuit's inputs are those it expects
(`RightCircuit`, `ExpectedInputs`), another commitment for one sector gives other inputs
(`TwoLists`, `Verdict`), and the inputs ask for the leaves and commitments of all sectors
and no others (`AskedAre`).

The constants of both theorems range over all configurations.  They are stated of the two
specifications and not of `Algorithms!Spec`, whose modules the prover cannot reach (see
below): the other actions of `Algorithms` make calls of other kinds (`call.fn`), of which
the two properties say nothing.  TLC checks both under `Algorithms!Spec`.

**Only model-checked.**

* `Termination`, `Completes`, `CallEnds` and `CallsEnd`: liveness under fairness is
  outside the prover's reach.
* `ProvesLeaf`, `ChallengesRight`, `GraphRight`, `PoRepSound` and `PiecesRight`.  The
  first four are about powers (`arity ^ row`, `2 ^ bits`): the place of a leaf in each
  row, the index of a path, the bits a circuit is given, the width of a Feistel round.
  To the provers `x ^ n` is an unknown value, of which not even `x ^ 0 = 1` can be shown
  (`Aggregation` therefore says what a power of two is by its divisors).  `GraphRight`
  and, through it, `ChallengesRight` and `PoRepSound` also rest on `Bitwise`, and
  `PiecesRight` on recursive operators (`Fr32`, `Pieces`), with which the prover loses
  its arithmetic.

## Not modelled

* Core groups (*vanilla/*`cores.rs`): they decide where a thread runs, never what it
  computes, and labelling goes on unbound when none is free.
* The constraints of the update circuit (`storage-proofs-update/src/circuit.rs`) and the
  bit-level gadgets (xor, uint64, sha256, packing): what the vanilla update proof and
  its verification say is in `SectorUpdate` and `Challenges`; that the circuit's
  constraints over a 255-bit field enforce the same is beyond enumeration.
* Hashers, `sha2raw` and the field: abstracted to injective or arbitrary functions.
* The Groth16 prover, SnarkPack, the store of tree nodes, the GPU library, the thread
  pool, the file system: external, modelled by how the code uses them.
* Power failure, which may lose data that was written and not synced (`write_layer`
  renames without syncing): a crash is the death of a process.
* Benchmarks and command line tools other than `paramcache` and `paramfetch`: I/O and
  measurement around the library.

## Plan

Done: labelling (`SDR`, `MultiSDR`, `SingleSDR`, `ParentCacheFile`), parameters
(`ParamStore`), the life of a sector (`Sector`, `SectorUpdate`), the algorithms and
tree building (`Algorithms` and what it composes), and the proofs about all of these but
Merkle trees, graphs, challenges, vanilla PoRep proofs and pieces.  What could follow:

1. The arithmetic of `Challenges` (the records of the synthetic proof file, the apex
   leaves, `decode_from_range`) in a module that does not reach `Graph`, and lemmas about it, with powers replaced by products.
2. Permutations without `Bitwise`: a Feistel network is one for any round function and
   any group operation in place of xor.

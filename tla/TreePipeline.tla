---------------------------- MODULE TreePipeline ----------------------------
(* Tree C and tree R of phase 2, built by the jobs of one thread pool: on the *)
(* GPU a job reads (and encodes) batches, a second one adds them to the tree  *)
(* builder under GPU_LOCK, and the calling thread writes the trees; on the    *)
(* CPU the column hashes of a tree are split over jobs.  The channels between *)
(* the three hold nothing: a send and its receive are one step.  Any job may  *)
(* panic, which closes its channels and poisons the lock it holds.            *)
EXTENDS Integers, Sequences, FiniteSets, FiniteSetsExt, SequencesExt

CONSTANTS
  Calls,          \* calls in progress in one process
  Operations,     \* what a call may be: an operation, on the GPU or not
  Workers,        \* num_cpus::get()
  TreeCount,      \* base trees of a sector
  NodesCount,     \* leaves of a base tree
  ColumnBatch,    \* max_gpu_column_batch_size
  TreeBatch,      \* max_gpu_tree_batch_size
  WriteBatch,     \* column_write_batch_size
  MaxFaults       \* failures of reads and writes, and stores found where none should be

ASSUME PipelineAssumption ==
  /\ IsFiniteSet(Calls) /\ Operations \subseteq [op : {"seal", "update", "fake"}, gpu : BOOLEAN]
  /\ {Workers, TreeCount, NodesCount, ColumnBatch, TreeBatch, WriteBatch} \subseteq Nat \ {0}
  /\ MaxFaults \in Nat

VARIABLES
  queue,      \* jobs no worker has taken yet
  busy,       \* jobs a worker executes
  gpu,        \* the call whose builder holds GPU_LOCK, or None
  poisoned,   \* a thread has panicked while it held GPU_LOCK
  work,       \* the calls, each with its main thread and jobs
  faults

treeVars == <<queue, busy, gpu, poisoned, work, faults>>

None == "none"

Bug_PoolSize == Workers - 1

PoolSize == Workers

(* What phase 2 builds, an update and a fake replica.                         *)
Phases(c) == CASE work[c].request.op = "seal"   -> <<"tree_c", "tree_r">>
               [] work[c].request.op = "update" -> <<"tree_r">>
               [] work[c].request.op = "fake"   -> <<"fake">>

(* The setting use_gpu_tree_builder, for trees of Poseidon hashes.            *)
UseGpu(c) == work[c].request.gpu

Seals(c) == work[c].request.op = "seal"

Phase(c) == Phases(c)[work[c].phase]

BatchSize(c) == IF Phase(c) = "tree_c" THEN ColumnBatch ELSE TreeBatch

Leaves == 0..(TreeCount * NodesCount - 1)

(* A base tree: its leaves and the nodes above them.                          *)
TreeOf(leaves) == [base |-> leaves, inner |-> [k \in 1..(NodesCount - 1) |-> <<leaves, k>>]]

NewCall(request) == [request |-> request, phase |-> 1, main |-> "start", reader |-> "none", builder |-> "none", tree |-> 0, node |-> 0,
            batch |-> <<>>, added |-> <<>>, built |-> 0, ready |-> <<>>, held |-> <<>>, written |-> 0, pieces |-> {},
            files |-> <<>>, encoded |-> [l \in Leaves |-> 0]]

NoCall == [main |-> "none"]

TreeInit ==
  /\ queue = <<>> /\ busy = {} /\ gpu = None /\ poisoned = FALSE /\ faults = 0
  /\ work = [c \in Calls |-> NoCall]

(* A thread of the process calls one of the operations.                       *)
Begin(c) ==
  \E request \in Operations :
    /\ work[c] = NoCall
    /\ work' = [work EXCEPT ![c] = NewCall(request)]
    /\ UNCHANGED <<queue, busy, gpu, poisoned, faults>>

(****************************************************************************)
(* The pool                                                                  *)
(****************************************************************************)
JobsOf(c) == {j \in Range(queue) \cup busy : j.call = c}

(* Jobs are taken in the order they were submitted.                           *)
TakeJob ==
  /\ queue # <<>> /\ Cardinality(busy) < PoolSize
  /\ LET j == Head(queue)
     IN /\ queue' = Tail(queue) /\ busy' = busy \cup {j}
        /\ work' = [work EXCEPT ![j.call].reader = IF j.role = "reader" THEN "prepare" ELSE @,
                                ![j.call].builder = IF j.role = "builder" THEN "lock" ELSE @]
  /\ UNCHANGED <<gpu, poisoned, faults>>

Submit(c, role, part) == queue' = Append(queue, [call |-> c, role |-> role, part |-> part])

(****************************************************************************)
(* On the GPU: the calling thread submits the two jobs one after the other    *)
(****************************************************************************)
SubmitReader(c) ==
  /\ UseGpu(c) /\ Phase(c) # "fake" /\ work[c].main = "start"
  /\ Submit(c, "reader", 0)
  /\ work' = [work EXCEPT ![c].main = "submit", ![c].reader = "queued"]
  /\ UNCHANGED <<busy, gpu, poisoned, faults>>

SubmitBuilder(c) ==
  /\ work[c].main = "submit"
  /\ Submit(c, "builder", 0)
  /\ work' = [work EXCEPT ![c].main = "recv", ![c].builder = "queued"]
  /\ UNCHANGED <<busy, gpu, poisoned, faults>>

(* One batch is read; sealing encodes it in place, an update's callback only  *)
(* converts the replica it reads.                                             *)
BatchStart(c) == work[c].tree * NodesCount + work[c].node

EncodeBatch(c, read) ==
  [l \in Leaves |-> work[c].encoded[l] + (IF Phase(c) = "tree_r" /\ Seals(c) /\ l \in Range(read) THEN 1 ELSE 0)]

Prepare(c) ==
  LET count == Min({NodesCount - work[c].node, BatchSize(c)})
      read  == [k \in 1..count |-> BatchStart(c) + k - 1]
  IN /\ work[c].reader = "prepare"
     /\ work' = [work EXCEPT ![c].batch = read, ![c].node = @ + count, ![c].reader = "send",
                             ![c].encoded = EncodeBatch(c, read)]
     /\ UNCHANGED <<queue, busy, gpu, poisoned, faults>>

EndJob(c, role) == busy' = {j \in busy : j.call # c \/ j.role # role}

LockGpu(c) ==
  /\ work[c].builder = "lock" /\ gpu = None /\ ~poisoned
  /\ gpu' = c
  /\ work' = [work EXCEPT ![c].builder = "recv"]
  /\ UNCHANGED <<queue, busy, poisoned, faults>>

(* A batch goes from the reader to the builder; the last one of a tree makes  *)
(* the builder build it, the last one of all ends the reader.                 *)
SendBatch(c) ==
  LET final == work[c].node = NodesCount
      last  == final /\ work[c].tree + 1 = TreeCount
      all   == work[c].added \o work[c].batch
  IN /\ work[c].reader = "send" /\ work[c].builder = "recv"
     /\ work' = [work EXCEPT ![c].reader = IF last THEN "done" ELSE "prepare",
                             ![c].tree = IF final THEN @ + 1 ELSE @, ![c].node = IF final THEN 0 ELSE @,
                             ![c].batch = <<>>, ![c].added = IF final THEN <<>> ELSE all,
                             ![c].ready = IF final THEN all ELSE @,
                             ![c].builder = IF final THEN "send" ELSE "recv"]
     /\ IF last THEN EndJob(c, "reader") ELSE busy' = busy
     /\ UNCHANGED <<queue, gpu, poisoned, faults>>

(* The tree goes to the calling thread; after the last one the builder ends   *)
(* and the lock is free again.                                                *)
SendTree(c) ==
  LET last == work[c].built + 1 = TreeCount
  IN /\ work[c].builder = "send" /\ work[c].main = "recv"
     /\ work' = [work EXCEPT ![c].builder = IF last THEN "done" ELSE "recv", ![c].built = @ + 1,
                             ![c].ready = <<>>, ![c].held = work[c].ready,
                             ![c].main = IF Len(work[c].ready) = NodesCount THEN "create" ELSE "panic"]
     /\ gpu' = IF last THEN None ELSE gpu
     /\ IF last THEN EndJob(c, "builder") ELSE busy' = busy
     /\ UNCHANGED <<queue, poisoned, faults>>

(* Tree C is written in pieces, in parallel and in any order: first the       *)
(* leaves, then the nodes above them.  Tree R is written at once, its leaves  *)
(* being the replica.                                                         *)
PieceSize == Min({NodesCount, WriteBatch})

PiecesOf(part, length) == {[part |-> part, index |-> i] : i \in 0..((length - 1) \div PieceSize)}

File(c) == <<Phase(c), work[c].written>>

Written(c, content) == [f \in DOMAIN work[c].files \cup {File(c)} |-> IF f = File(c) THEN content ELSE work[c].files[f]]

NextTree(c, files) ==
  work' = [work EXCEPT ![c].files = files, ![c].written = @ + 1, ![c].pieces = {}, ![c].held = <<>>,
                       ![c].main = IF work[c].written + 1 = TreeCount THEN "join" ELSE "recv"]

CreateFile(c) ==
  /\ work[c].main = "create"
  /\ IF Phase(c) = "tree_c"
     THEN work' = [work EXCEPT ![c].main = "write", ![c].pieces = PiecesOf("base", NodesCount), ![c].files = Written(c, <<>>)]
     ELSE NextTree(c, Written(c, TreeOf(work[c].held).inner))
  /\ UNCHANGED <<queue, busy, gpu, poisoned, faults>>

Bug_WriteOffset(piece) == piece.index * PieceSize

WriteOffset(piece) == (IF piece.part = "inner" THEN NodesCount ELSE 0) + piece.index * PieceSize

WritePiece(c) ==
  \E piece \in work[c].pieces :
    LET tree    == TreeOf(work[c].held)
        data    == IF piece.part = "base" THEN tree.base ELSE tree.inner
        slice   == SubSeq(data, piece.index * PieceSize + 1, Min({Len(data), (piece.index + 1) * PieceSize}))
        offset  == WriteOffset(piece)
        old     == work[c].files[File(c)]
        new     == [p \in DOMAIN old \cup ((offset + 1)..(offset + Len(slice))) |->
                      IF p - offset \in DOMAIN slice THEN slice[p - offset] ELSE old[p]]
        left    == work[c].pieces \ {piece}
    IN /\ work[c].main = "write"
       /\ IF left = {} /\ piece.part = "inner" THEN NextTree(c, Written(c, new))
          ELSE work' = [work EXCEPT ![c].files = Written(c, new),
                                    ![c].pieces = IF left = {} THEN PiecesOf("inner", NodesCount - 1) ELSE left]
       /\ UNCHANGED <<queue, busy, gpu, poisoned, faults>>

(* create_disk_tree opens the base trees of tree C and looks at their length. *)
Opens(c) ==
  Phase(c) = "tree_c" =>
    \A i \in 0..(TreeCount - 1) : DOMAIN work[c].files[<<"tree_c", i>>] = 1..(2 * NodesCount - 1)

(* The scope ends when its jobs have; a panic of the calling thread waits for *)
(* them too.                                                                  *)
NextPhase(c) ==
  IF work[c].phase = Len(Phases(c)) THEN [work[c] EXCEPT !.main = "done"]
  ELSE [NewCall(work[c].request) EXCEPT !.phase = work[c].phase + 1, !.files = work[c].files, !.encoded = work[c].encoded]

JoinScope(c) ==
  /\ work[c].main \in {"join", "panic"} /\ JobsOf(c) = {}
  /\ work' = [work EXCEPT ![c] = IF work[c].main = "join" /\ "panic" \notin {work[c].reader, work[c].builder} /\ Opens(c)
                                 THEN NextPhase(c) ELSE [@ EXCEPT !.main = "failed"]]
  /\ UNCHANGED <<queue, busy, gpu, poisoned, faults>>

(****************************************************************************)
(* Panics: the first one is a failed read or write, the others follow         *)
(****************************************************************************)
ReaderPanics(c) ==
  /\ work' = [work EXCEPT ![c].reader = "panic"]
  /\ EndJob(c, "reader")
  /\ UNCHANGED <<queue, gpu, poisoned>>

BuilderPanics(c) ==
  /\ work' = [work EXCEPT ![c].builder = "panic"]
  /\ EndJob(c, "builder")
  /\ poisoned' = (poisoned \/ gpu = c)
  /\ gpu' = IF gpu = c THEN None ELSE gpu
  /\ UNCHANGED queue

(* The calling thread itself holds the lock only for a fake replica.          *)
MainPanics(c) ==
  LET holds == work[c].main = "fake"
  IN /\ work' = [work EXCEPT ![c].main = "panic"]
     /\ poisoned' = (poisoned \/ holds)
     /\ gpu' = IF holds THEN None ELSE gpu
     /\ UNCHANGED <<queue, busy>>

ReadFails(c) == work[c].reader = "prepare" /\ faults < MaxFaults /\ faults' = faults + 1 /\ ReaderPanics(c)

(* On the CPU the write of tree C is BaseTreeFails.                           *)
WriteFails(c) ==
  /\ \/ work[c].main \in {"create", "write", "fake"}
     \/ work[c].main = "start" /\ ~UseGpu(c) /\ Phase(c) # "tree_c"
  /\ faults < MaxFaults /\ faults' = faults + 1 /\ MainPanics(c)

Ended == {"done", "panic"}

BuilderGone(c) == work[c].reader = "send" /\ work[c].builder \in Ended /\ faults' = faults /\ ReaderPanics(c)

ReaderGone(c) ==
  /\ \/ work[c].builder = "recv" /\ work[c].reader \in Ended
     \/ work[c].builder = "send" /\ work[c].main = "panic"
     \/ work[c].builder = "lock" /\ poisoned
  /\ faults' = faults /\ BuilderPanics(c)

TreesGone(c) == work[c].main = "recv" /\ work[c].builder \in Ended /\ faults' = faults /\ MainPanics(c)

(****************************************************************************)
(* On the CPU                                                                *)
(****************************************************************************)
ChunkSize == LET chunks == IF Workers > NodesCount * 2 THEN 1 ELSE Workers
             IN (NodesCount + chunks - 1) \div chunks

(* The column hashes of a tree are computed by one job for every chunk.       *)
SubmitChunks(c) ==
  /\ ~UseGpu(c) /\ Phase(c) = "tree_c" /\ work[c].main = "start"
  /\ queue' = queue \o [k \in 1..((NodesCount + ChunkSize - 1) \div ChunkSize) |-> [call |-> c, role |-> "chunk", part |-> k - 1]]
  /\ work' = [work EXCEPT ![c].main = "hash", ![c].held = [k \in 1..NodesCount |-> -1]]
  /\ UNCHANGED <<busy, gpu, poisoned, faults>>

HashChunk(c) ==
  \E j \in busy :
    /\ j.call = c /\ j.role = "chunk"
    /\ busy' = busy \ {j}
    /\ work' = [work EXCEPT ![c].held = [k \in 1..NodesCount |-> IF (k - 1) \div ChunkSize = j.part
                                            THEN work[c].written * NodesCount + ((k - 1) % ChunkSize) + j.part * ChunkSize ELSE @[k]]]
    /\ UNCHANGED <<queue, gpu, poisoned, faults>>

(* The scope of the chunks panics when one of them has.                       *)
ChunkFails(c) ==
  \E j \in busy :
    /\ j.call = c /\ j.role = "chunk" /\ faults < MaxFaults
    /\ faults' = faults + 1 /\ busy' = busy \ {j}
    /\ work' = [work EXCEPT ![c].main = "panic"]
    /\ UNCHANGED <<queue, gpu, poisoned>>

StoreBaseTree(c, store) ==
  /\ work[c].main = "hash" /\ JobsOf(c) = {}
  /\ work' = [work EXCEPT ![c].files = Written(c, store), ![c].written = @ + 1,
                          ![c].main = IF work[c].written + 1 = TreeCount THEN "join" ELSE "start"]
  /\ UNCHANGED <<queue, busy, gpu, poisoned>>

BuildBaseTree(c) ==
  /\ StoreBaseTree(c, TreeOf(work[c].held).base \o TreeOf(work[c].held).inner)
  /\ faults' = faults

(* Where a base tree was not built: no store, or one of another length, or a  *)
(* whole one that is filled in part or was there before.                      *)
NoStore == <<>>
Leftover == [p \in 1..(2 * NodesCount - 1) |-> -1]

(* from_par_iter_with_config fails, or opens a store it finds and builds      *)
(* nothing; nobody looks at the Result, and the next tree is hashed.          *)
BaseTreeFails(c) ==
  /\ \E store \in {NoStore, Leftover} : StoreBaseTree(c, store)
  /\ faults < MaxFaults /\ faults' = faults + 1

(* Tree R on the CPU: the calling thread encodes and builds tree after tree.  *)
BuildTreeR(c) ==
  LET from == work[c].written * NodesCount
      read == [k \in 1..NodesCount |-> from + k - 1]
  IN /\ ~UseGpu(c) /\ Phase(c) = "tree_r" /\ work[c].main = "start"
     /\ work' = [work EXCEPT ![c].files = Written(c, TreeOf(read).inner), ![c].written = @ + 1,
                             ![c].encoded = EncodeBatch(c, read),
                             ![c].main = IF work[c].written + 1 = TreeCount THEN "join" ELSE "start"]
     /\ UNCHANGED <<queue, busy, gpu, poisoned, faults>>

(* The tree of a fake replica is built by the calling thread under the lock.  *)
FakeTree(c) ==
  /\ UseGpu(c) /\ Phase(c) = "fake" /\ work[c].main = "start" /\ gpu = None
  /\ gpu' = IF poisoned THEN None ELSE c
  /\ work' = [work EXCEPT ![c].main = IF poisoned THEN "panic" ELSE "fake"]
  /\ UNCHANGED <<queue, busy, poisoned, faults>>

FakeDone(c) ==
  /\ \/ work[c].main = "fake"
     \/ ~UseGpu(c) /\ Phase(c) = "fake" /\ work[c].main = "start"
  /\ gpu' = IF gpu = c THEN None ELSE gpu
  /\ work' = [work EXCEPT ![c].main = "join"]
  /\ UNCHANGED <<queue, busy, poisoned, faults>>

(****************************************************************************)
Running(c) == work[c].main \notin {"none", "done", "failed"}

Step(c) ==
  \/ SubmitReader(c) \/ SubmitBuilder(c) \/ Prepare(c) \/ LockGpu(c) \/ SendBatch(c) \/ SendTree(c)
  \/ CreateFile(c) \/ WritePiece(c) \/ JoinScope(c) \/ BuilderGone(c) \/ ReaderGone(c) \/ TreesGone(c)
  \/ SubmitChunks(c) \/ HashChunk(c) \/ BuildBaseTree(c) \/ BuildTreeR(c) \/ FakeTree(c) \/ FakeDone(c)

(* When all of its calls have ended the process does.                         *)
Exit ==
  /\ \A c \in Calls : work[c].main \in {"done", "failed"}
  /\ queue' = <<>> /\ busy' = {} /\ gpu' = None /\ poisoned' = FALSE /\ faults' = 0
  /\ work' = [c \in Calls |-> NoCall]

TreeNext ==
  \/ TakeJob \/ Exit
  \/ \E c \in Calls : Begin(c) \/ (Running(c) /\ (Step(c) \/ ReadFails(c) \/ ChunkFails(c) \/ WriteFails(c) \/ BaseTreeFails(c)))

TreeSpec == TreeInit /\ [][TreeNext]_treeVars

(* The threads of the pool and the calling threads are scheduled, and the     *)
(* mutex is not kept from any of them; nothing has to fail.                   *)
FairTreeSpec == TreeSpec /\ WF_treeVars(TakeJob) /\ \A c \in Calls : WF_treeVars(Running(c) /\ Step(c))

(****************************************************************************)
(* Properties                                                                *)
(****************************************************************************)
RightFile(phase, i) ==
  LET tree == TreeOf([k \in 1..NodesCount |-> i * NodesCount + k - 1])
  IN IF phase = "tree_c" THEN tree.base \o tree.inner ELSE tree.inner

(* Whatever order jobs of several calls, batches and parallel writes come in, *)
(* and whatever fails elsewhere, a tree that phase 2 goes on with is the tree *)
(* of its own leaves, stored at their places.  The exception is tree C on the *)
(* CPU, where a build that failed or found a store goes unnoticed: after such *)
(* a failure, and only then, phase 2 may go on with a store of which nothing  *)
(* but the length is right.  Sealing has then encoded every node of the       *)
(* replica exactly once; and a call fails only after a failure                *)
(* (generate_tree_c_gpu, generate_tree_c_cpu, generate_tree_r_last_gpu).      *)
TreesRight ==
  \A c \in {c \in Calls : work[c] # NoCall} :
    LET phases == Phases(c)
        past   == {k \in DOMAIN phases : work[c].main = "done" \/ k < work[c].phase}
    IN /\ \A k \in past, i \in 0..(TreeCount - 1) : phases[k] # "fake" =>
             LET file == work[c].files[<<phases[k], i>>]
             IN \/ file = RightFile(phases[k], i)
                \/ phases[k] = "tree_c" /\ ~UseGpu(c) /\ file = Leftover /\ faults > 0
       /\ work[c].main = "done" /\ Seals(c) => \A l \in Leaves : work[c].encoded[l] = 1
       /\ work[c].main = "failed" => faults > 0

(* Every call comes to its end, with trees or with a failure: the jobs of     *)
(* several calls share the pool and the GPU without waiting for each other in *)
(* a circle, and a panic reaches everyone who waits for the thread that had   *)
(* it.  It needs more workers than calls that build on the GPU: THREAD_POOL   *)
(* has one per processor, and as many readers as there are workers, each      *)
(* waiting for a builder that is still queued, would wait for ever.           *)
CallsEnd == \A c \in Calls : Running(c) ~> ~Running(c)
=============================================================================

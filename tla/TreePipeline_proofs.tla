------------------------ MODULE TreePipeline_proofs ------------------------
(***************************************************************************)
(* Proofs about the building of tree C and tree R in proof.rs, for any     *)
(* number of concurrent calls, workers, trees, leaves, batch sizes and     *)
(* failures: TreesRight.                                                   *)
(*                                                                         *)
(* What a call has done so far depends on its own record only: how far the *)
(* reader has come (ReaderOK), what the builder has been sent (BuilderOK), *)
(* where the calling thread is (MainOK), which files are complete          *)
(* (FilesOK, PiecesOK) and which nodes are encoded (EncodedOK).  The calls *)
(* share the pool (PoolInv, HashInv: a column is hashed or its job is      *)
(* still to come) and the lock, which is poisoned only after a failure     *)
(* (CauseInv).                                                             *)
(***************************************************************************)
EXTENDS TreePipeline, SequenceTheorems, TLAPS

\* n leaves from leaf a on.
Run(a, n) == [k \in 1 .. n |-> a + k - 1]

\* The phases of a call w, and whether the jobs of the GPU pipeline build this one.
PhasesOf(w) == CASE w.request.op = "seal"   -> <<"tree_c", "tree_r">>
                 [] w.request.op = "update" -> <<"tree_r">>
                 [] w.request.op = "fake"   -> <<"fake">>
PhaseOf(w) == PhasesOf(w)[w.phase]
OnGpu(w) == w.request.gpu /\ PhaseOf(w) # "fake"

\* The record of a call.
Fields == {"request", "phase", "main", "reader", "builder", "tree", "node", "batch", "added",
           "built", "ready", "held", "written", "pieces", "files", "encoded"}

RecordOK(w) ==
  /\ w = [f \in Fields |-> w[f]]
  /\ w.request \in [op : {"seal", "update", "fake"}, gpu : BOOLEAN]
  /\ w.phase \in 1 .. Len(PhasesOf(w))
  /\ w.main \in {"start", "submit", "recv", "create", "write", "hash", "fake", "join", "panic",
                 "done", "failed"}
  /\ w.reader \in {"none", "queued", "prepare", "send", "done", "panic"}
  /\ w.builder \in {"none", "queued", "lock", "recv", "send", "done", "panic"}

\* The reader goes through the trees batch by batch.
ReaderOK(w) ==
  /\ w.tree \in 0 .. TreeCount /\ w.node \in 0 .. NodesCount
  /\ w.reader # "none" => OnGpu(w)
  /\ w.reader \in {"none", "queued"} => w.tree = 0 /\ w.node = 0
  /\ w.reader \in {"prepare", "send"} => w.tree < TreeCount
  /\ w.reader = "prepare" => w.node < NodesCount
  /\ w.reader = "done" => w.tree = TreeCount /\ w.node = 0
  /\ w.reader = "send" =>
        /\ Len(w.batch) \in 1 .. w.node
        /\ w.batch = Run(w.tree * NodesCount + w.node - Len(w.batch), Len(w.batch))

\* The nodes of the current tree that the builder has.
Sent(w) == IF w.reader = "send" THEN w.node - Len(w.batch) ELSE w.node

\* The builder has what was sent of the current tree, and hands over whole trees.
BuilderOK(w) ==
  /\ w.built \in 0 .. TreeCount
  /\ w.builder # "none" => OnGpu(w)
  /\ w.reader # "panic" => w.added = Run(w.tree * NodesCount, Sent(w))
  /\ w.builder \in {"none", "queued", "lock", "recv"} => w.tree = w.built /\ w.built < TreeCount
  /\ w.builder = "send" => w.tree = w.built + 1 /\ w.ready = Run(w.built * NodesCount, NodesCount)
  /\ w.builder = "done" => w.tree = TreeCount /\ w.built = TreeCount

\* The calling thread writes the trees one after the other.
MainOK(w) ==
  /\ w.written \in 0 .. TreeCount
  /\ w.main = "start" =>
        /\ w.reader = "none" /\ w.builder = "none"
        /\ IF OnGpu(w) THEN w.written = 0 /\ w.built = 0
           ELSE PhaseOf(w) # "fake" => w.written < TreeCount
  /\ w.main = "submit" => OnGpu(w) /\ w.builder = "none" /\ w.written = 0 /\ w.built = 0
  /\ w.main = "recv" => OnGpu(w) /\ w.written < TreeCount /\ w.built = w.written
  /\ w.main \in {"create", "write"} =>
        /\ OnGpu(w) /\ w.written < TreeCount /\ w.built = w.written + 1
        /\ w.held = Run(w.written * NodesCount, NodesCount)
  /\ w.main = "write" => PhaseOf(w) = "tree_c"
  /\ w.main = "hash" => ~w.request.gpu /\ PhaseOf(w) = "tree_c" /\ w.written < TreeCount
  /\ w.main = "fake" => PhaseOf(w) = "fake"
  /\ w.main \in {"join", "done"} /\ PhaseOf(w) # "fake" =>
        w.written = TreeCount /\ (OnGpu(w) => w.built = TreeCount)
  /\ w.main = "done" =>
        w.phase = Len(PhasesOf(w)) /\ (OnGpu(w) => w.tree = TreeCount /\ w.node = 0)

\* What the file of a tree holds when its turn is over: the tree; for tree C on the CPU
\* also a store that was not built, which must be whole once the phase is over.
Missed(w, phase) == IF phase = "tree_c" /\ ~w.request.gpu THEN {NoStore, Leftover} ELSE {}

\* The files of earlier phases, and of this one as far as it has come.
FilesOK(w) ==
  \A k \in 1 .. Len(PhasesOf(w)), i \in 0 .. TreeCount - 1 :
    PhasesOf(w)[k] # "fake" /\ (k < w.phase \/ (k = w.phase /\ i < w.written)) =>
      /\ <<PhasesOf(w)[k], i>> \in DOMAIN w.files
      /\ \/ w.files[<<PhasesOf(w)[k], i>>] = RightFile(PhasesOf(w)[k], i)
         \/ /\ w.files[<<PhasesOf(w)[k], i>>] \in Missed(w, PhasesOf(w)[k])
            /\ k < w.phase => w.files[<<PhasesOf(w)[k], i>>] # NoStore

\* A base tree of tree C was not built on the CPU.
Unbuilt(w) ==
  /\ ~w.request.gpu
  /\ \E i \in 0 .. TreeCount - 1 :
        <<"tree_c", i>> \in DOMAIN w.files /\ w.files[<<"tree_c", i>>] \in {NoStore, Leftover}

\* The piece that position p of a part lies in.
PieceAt(part, p) == [part |-> part, index |-> (p - 1) \div PieceSize]

\* Of a file of tree C that is being written every position is right or still to come.
PiecesOK(w) ==
  w.main = "write" =>
    LET f     == w.files[<<PhaseOf(w), w.written>>]
        right == RightFile("tree_c", w.written)
    IN /\ <<PhaseOf(w), w.written>> \in DOMAIN w.files
       /\ DOMAIN f \subseteq 1 .. (2 * NodesCount - 1)
       /\ \A p \in DOMAIN f : f[p] = right[p]
       /\ \/ /\ w.pieces \subseteq PiecesOf("base", NodesCount)
             /\ \A p \in 1 .. NodesCount : p \in DOMAIN f \/ PieceAt("base", p) \in w.pieces
          \/ /\ w.pieces \subseteq PiecesOf("inner", NodesCount - 1)
             /\ 1 .. NodesCount \subseteq DOMAIN f
             /\ \A p \in 1 .. NodesCount - 1 :
                   NodesCount + p \in DOMAIN f \/ PieceAt("inner", p) \in w.pieces

\* The nodes of the replica that are encoded: those below this one, once.
EncodedUpTo(w) ==
  IF w.request.op # "seal" \/ PhaseOf(w) # "tree_r" THEN 0
  ELSE IF w.request.gpu THEN w.tree * NodesCount + w.node ELSE w.written * NodesCount

EncodedOK(w) ==
  /\ w.encoded \in [Leaves -> Nat]
  /\ \A l \in Leaves : w.encoded[l] = IF l < EncodedUpTo(w) THEN 1 ELSE 0

CallOK(w) ==
  /\ RecordOK(w) /\ ReaderOK(w) /\ BuilderOK(w) /\ MainOK(w)
  /\ FilesOK(w) /\ PiecesOK(w) /\ EncodedOK(w)

CallsInv ==
  /\ work = [c \in Calls |-> work[c]]
  /\ \A c \in Calls : work[c] # NoCall => CallOK(work[c])

\* A job that is queued or executed belongs to a call that waits for it, and a job
\* of the pipeline is queued once.
Jobs == [call : Calls, role : {"reader", "builder", "chunk"}, part : Nat]

PoolInv ==
  /\ queue \in Seq(Jobs) /\ busy \subseteq Jobs
  /\ \A x, y \in DOMAIN queue :
        queue[x].role # "chunk" /\ queue[x].call = queue[y].call /\ queue[x].role = queue[y].role
          => x = y
  /\ \A j \in Range(queue) \cup busy :
        /\ work[j.call] # NoCall /\ work[j.call].main \notin {"done", "failed"}
        /\ j.role = "chunk" => work[j.call].main \in {"hash", "panic"}
  /\ \A j \in Range(queue) :
        /\ j.role = "reader" => work[j.call].reader = "queued"
        /\ j.role = "builder" => work[j.call].builder = "queued"

\* Every column of the tree is hashed, or the job of its chunk is still there.
HashOK(c) ==
  work[c].main = "hash" =>
    /\ work[c].held \in [1 .. NodesCount -> Int]
    /\ \A k \in 1 .. NodesCount :
          \/ work[c].held[k] = work[c].written * NodesCount + k - 1
          \/ \E j \in JobsOf(c) : j.role = "chunk" /\ j.part = (k - 1) \div ChunkSize

HashInv == \A c \in Calls : HashOK(c)

\* Panics, the poisoning of the lock and trees that were not built have a cause.
CauseInv ==
  /\ faults \in Nat
  /\ poisoned => faults > 0
  /\ \A c \in {c \in Calls : work[c] # NoCall} :
        (\/ "panic" \in {work[c].main, work[c].reader, work[c].builder}
         \/ work[c].main = "failed"
         \/ Unbuilt(work[c]))
           => faults > 0

\* The inductive invariant.
TreeInv == CallsInv /\ PoolInv /\ HashInv /\ CauseInv

-----------------------------------------------------------------------------
(***************************************************************************)
(* The operators of the model                                              *)
(***************************************************************************)
\* The sizes are positive.
LEMMA Sizes ==
  /\ Workers \in Nat \ {0} /\ TreeCount \in Nat \ {0} /\ NodesCount \in Nat \ {0}
  /\ ColumnBatch \in Nat \ {0} /\ TreeBatch \in Nat \ {0} /\ WriteBatch \in Nat \ {0}
  BY PipelineAssumption

\* The lesser of two numbers.
LEMMA MinPair ==
  ASSUME NEW a \in Int, NEW b \in Int
  PROVE  Min({a, b}) = IF a <= b THEN a ELSE b
<1>1. \E x \in {a, b} : \A y \in {a, b} : x <= y
  OBVIOUS
<1> QED  BY <1>1 DEF Min

\* The phases of a call, and which one is the current one.
LEMMA PhaseFacts ==
  ASSUME NEW w, RecordOK(w)
  PROVE  /\ PhaseOf(w) \in {"tree_c", "tree_r", "fake"}
         /\ w.request.op = "seal" => /\ PhasesOf(w) = <<"tree_c", "tree_r">> /\ w.phase \in {1, 2}
                                    /\ PhaseOf(w) = IF w.phase = 1 THEN "tree_c" ELSE "tree_r"
         /\ w.request.op = "update" => PhasesOf(w) = <<"tree_r">> /\ w.phase = 1 /\ PhaseOf(w) = "tree_r"
         /\ w.request.op = "fake" => PhasesOf(w) = <<"fake">> /\ w.phase = 1 /\ PhaseOf(w) = "fake"
         /\ w.request.op \in {"seal", "update", "fake"}
         /\ Len(PhasesOf(w)) = IF w.request.op = "seal" THEN 2 ELSE 1
<1>1. w.request.op \in {"seal", "update", "fake"} /\ w.phase \in 1 .. Len(PhasesOf(w))
  BY DEF RecordOK
<1>2. CASE w.request.op = "seal"
  BY <1>1, <1>2 DEF PhasesOf, PhaseOf
<1>3. CASE w.request.op = "update"
  BY <1>1, <1>3 DEF PhasesOf, PhaseOf
<1>4. CASE w.request.op = "fake"
  BY <1>1, <1>4 DEF PhasesOf, PhaseOf
<1> QED  BY <1>1, <1>2, <1>3, <1>4

\* The leaves of one tree follow those of the one before it.
LEMMA NextLeaf ==
  ASSUME NEW i \in Nat
  PROVE  /\ i * NodesCount \in Nat /\ (i + 1) * NodesCount = i * NodesCount + NodesCount
         /\ i < TreeCount => (i + 1) * NodesCount <= TreeCount * NodesCount
<1>1. i * NodesCount \in Nat /\ (i + 1) * NodesCount = i * NodesCount + NodesCount
  BY Sizes
<1>2. ASSUME i < TreeCount  PROVE (i + 1) * NodesCount <= TreeCount * NodesCount
  <2>1. PICK d \in Nat : TreeCount = (i + 1) + d
    BY <1>2, Sizes
  <2>2. TreeCount * NodesCount = (i + 1) * NodesCount + d * NodesCount
    BY <2>1, Sizes
  <2>3. d * NodesCount \in Nat /\ (i + 1) * NodesCount \in Nat
    BY Sizes
  <2> QED  BY <2>2, <2>3, Sizes
<1> QED  BY <1>1, <1>2

\* Runs of leaves.
LEMMA RunFacts ==
  ASSUME NEW a \in Nat, NEW n \in Nat
  PROVE  /\ Run(a, n) \in Seq(Nat) /\ Len(Run(a, n)) = n /\ DOMAIN Run(a, n) = 1 .. n
         /\ \A k \in 1 .. n : Run(a, n)[k] = a + k - 1
         /\ Range(Run(a, n)) = a .. (a + n - 1)
         /\ n = 0 => Run(a, n) = <<>>
<1>1. Run(a, n) \in [1 .. n -> Nat]
  BY DEF Run
<1>2. Run(a, n) \in Seq(Nat) /\ Len(Run(a, n)) = n
  BY <1>1
<1>3. /\ DOMAIN Run(a, n) = 1 .. n
      /\ \A k \in 1 .. n : Run(a, n)[k] = a + k - 1
  BY DEF Run
<1>4. Range(Run(a, n)) = a .. (a + n - 1)
  <2>1. ASSUME NEW l \in a .. (a + n - 1)  PROVE l \in Range(Run(a, n))
    <3>1. l - a + 1 \in 1 .. n /\ l = Run(a, n)[l - a + 1]
      BY <1>3
    <3> QED  BY <3>1, <1>3 DEF Range
  <2>2. ASSUME NEW l \in Range(Run(a, n))  PROVE l \in a .. (a + n - 1)
    BY <1>3 DEF Range
  <2> QED  BY <2>1, <2>2
<1>5. n = 0 => Run(a, n) = <<>>
  BY <1>2
<1> QED  BY <1>2, <1>3, <1>4, <1>5

\* Two runs, one after the other.
LEMMA RunConcat ==
  ASSUME NEW a \in Nat, NEW m \in Nat, NEW n \in Nat
  PROVE  Run(a, m) \o Run(a + m, n) = Run(a, m + n)
<1> DEFINE s == Run(a, m)
           t == Run(a + m, n)
           u == Run(a, m + n)
<1>0. a + m \in Nat /\ m + n \in Nat
  OBVIOUS
<1>s. s \in Seq(Nat) /\ Len(s) = m /\ \A k \in 1 .. m : s[k] = a + k - 1
  BY RunFacts
<1>t. t \in Seq(Nat) /\ Len(t) = n /\ \A k \in 1 .. n : t[k] = (a + m) + k - 1
  BY <1>0, RunFacts
<1>u. u \in Seq(Nat) /\ Len(u) = m + n /\ \A k \in 1 .. m + n : u[k] = a + k - 1
  BY <1>0, RunFacts
<1> HIDE DEF s, t, u
<1>2. /\ s \o t \in Seq(Nat) /\ Len(s \o t) = m + n
      /\ \A k \in 1 .. m + n : (s \o t)[k] = IF k <= m THEN s[k] ELSE t[k - m]
  BY <1>s, <1>t, ConcatProperties
<1>3. ASSUME NEW k \in 1 .. m + n  PROVE (s \o t)[k] = u[k]
  BY <1>2, <1>s, <1>t, <1>u
<1>4. s \o t = u
  BY <1>2, <1>3, <1>u, SeqEqual
<1> QED  BY <1>4 DEF s, t, u

\* A tree of a run of leaves, and the two files it may be stored in.
LEMMA TreeFacts ==
  ASSUME NEW i \in Nat
  PROVE  LET base  == Run(i * NodesCount, NodesCount)
             inner == TreeOf(base).inner
         IN /\ TreeOf(base).base = base
            /\ Len(base) = NodesCount /\ DOMAIN base = 1 .. NodesCount
            /\ Len(inner) = NodesCount - 1 /\ DOMAIN inner = 1 .. NodesCount - 1
            /\ RightFile("tree_c", i) = base \o inner
            /\ RightFile("tree_r", i) = inner
            /\ RightFile("tree_c", i) = [p \in 1 .. (2 * NodesCount - 1) |->
                                           IF p <= NodesCount THEN base[p] ELSE inner[p - NodesCount]]
<1> DEFINE base  == Run(i * NodesCount, NodesCount)
           inner == TreeOf(base).inner
           T     == Nat \cup {inner[k] : k \in 1 .. NodesCount - 1}
           file  == [p \in 1 .. (2 * NodesCount - 1) |->
                       IF p <= NodesCount THEN base[p] ELSE inner[p - NodesCount]]
<1>0. NodesCount \in Nat \ {0} /\ NodesCount - 1 \in Nat /\ i * NodesCount \in Nat
  BY Sizes, NextLeaf
<1>1. TreeOf(base).base = base /\ inner = [k \in 1 .. (NodesCount - 1) |-> <<base, k>>]
  BY DEF TreeOf
<1>2. base \in Seq(Nat) /\ Len(base) = NodesCount /\ DOMAIN base = 1 .. NodesCount
  BY <1>0, RunFacts
<1>3. /\ RightFile("tree_c", i) = TreeOf(base).base \o inner
      /\ RightFile("tree_r", i) = inner
  BY DEF RightFile, Run
<1> HIDE DEF base
<1>4. DOMAIN inner = 1 .. NodesCount - 1
  BY <1>1
<1>5. inner \in [1 .. NodesCount - 1 -> T]
  BY <1>1, <1>4
<1>6. inner \in Seq(T) /\ Len(inner) = NodesCount - 1
  <2> HIDE DEF inner, T
  <2> QED  BY <1>0, <1>5
<1> HIDE DEF inner
<1>7. base \in Seq(T) /\ T = T
  <2>1. base \in [1 .. NodesCount -> T]
    BY <1>2
  <2> HIDE DEF T
  <2> QED  BY <1>0, <2>1
<1> HIDE DEF T
<1>8. /\ base \o inner \in Seq(T) /\ Len(base \o inner) = 2 * NodesCount - 1
      /\ \A p \in 1 .. (2 * NodesCount - 1) :
            (base \o inner)[p] = IF p <= NodesCount THEN base[p] ELSE inner[p - NodesCount]
  <2>1. NodesCount + (NodesCount - 1) = 2 * NodesCount - 1
    BY <1>0
  <2>2. /\ base \o inner \in Seq(T) /\ Len(base \o inner) = Len(base) + Len(inner)
        /\ \A p \in 1 .. Len(base) + Len(inner) :
              (base \o inner)[p] = IF p <= Len(base) THEN base[p] ELSE inner[p - Len(base)]
    BY <1>6, <1>7, ConcatProperties
  <2> QED  BY <1>2, <1>6, <2>1, <2>2
<1>9. base \o inner = file
  <2>1. base \o inner \in [1 .. (2 * NodesCount - 1) -> T]
    BY <1>8, LenProperties
  <2> QED  BY <1>8, <2>1
<1>10. RightFile("tree_c", i) = base \o inner
  BY <1>1, <1>3
<1> HIDE DEF file
<1>11. RightFile("tree_c", i) = file
  BY <1>9, <1>10
<1> QED  BY <1>1, <1>2, <1>3, <1>4, <1>6, <1>10, <1>11 DEF base, inner, file

\* A tree is a whole store, and not one that was not built.
LEMMA RightIsBuilt ==
  ASSUME NEW i \in Nat
  PROVE  /\ DOMAIN RightFile("tree_c", i) = 1 .. (2 * NodesCount - 1)
         /\ RightFile("tree_c", i) \notin {NoStore, Leftover}
         /\ DOMAIN Leftover = 1 .. (2 * NodesCount - 1) /\ NoStore # Leftover
         /\ DOMAIN NoStore # 1 .. (2 * NodesCount - 1)
<1> DEFINE base  == Run(i * NodesCount, NodesCount)
           inner == TreeOf(base).inner
<1>1. RightFile("tree_c", i) = [p \in 1 .. (2 * NodesCount - 1) |->
                                  IF p <= NodesCount THEN base[p] ELSE inner[p - NodesCount]]
  BY TreeFacts
<1>2. base[1] = i * NodesCount + 1 - 1 /\ i * NodesCount \in Nat
  BY NextLeaf, RunFacts, Sizes
<1> HIDE DEF base, inner
<1>3. 1 \in 1 .. (2 * NodesCount - 1) /\ 1 <= NodesCount
  BY Sizes
<1>4. RightFile("tree_c", i)[1] # -1
  <2>1. RightFile("tree_c", i)[1] = base[1]
    BY <1>1, <1>3
  <2>2. PICK a \in Nat : a = i * NodesCount
    BY <1>2
  <2>3. base[1] = a + 1 - 1
    BY <1>2, <2>2
  <2> QED  BY <2>1, <2>3
<1>5. DOMAIN RightFile("tree_c", i) = 1 .. (2 * NodesCount - 1)
  BY <1>1
<1>6. DOMAIN Leftover = 1 .. (2 * NodesCount - 1) /\ Leftover[1] = -1
  BY <1>3 DEF Leftover
<1>7. DOMAIN NoStore = {}
  BY DEF NoStore
<1>8. 1 .. (2 * NodesCount - 1) # {}
  BY <1>3
<1> QED  BY <1>4, <1>5, <1>6, <1>7, <1>8

\* Division by a positive number.
LEMMA DivFacts ==
  ASSUME NEW a \in Nat, NEW d \in Nat \ {0}
  PROVE  /\ a \div d \in Nat /\ a % d \in 0 .. d - 1 /\ a = (a \div d) * d + (a % d)
         /\ \A q \in Nat : a \div d = q <=> q * d <= a /\ a < q * d + d
<1>1. a \div d \in Nat /\ a % d \in 0 .. d - 1 /\ a = (a \div d) * d + (a % d)
  OBVIOUS
<1>2. ASSUME NEW q \in Nat, a \div d = q  PROVE q * d <= a /\ a < q * d + d
  <2>1. q * d \in Nat
    OBVIOUS
  <2> QED  BY <1>1, <1>2, <2>1
<1>3. ASSUME NEW q \in Nat, q * d <= a, a < q * d + d  PROVE a \div d = q
  <2> DEFINE x == a \div d
  <2>0. x \in Nat /\ x * d <= a /\ a < x * d + d /\ x * d \in Nat /\ q * d \in Nat
    <3>1. x * d \in Nat /\ q * d \in Nat
      BY <1>1
    <3> QED  BY <1>1, <3>1
  <2> HIDE DEF x
  <2>1. ASSUME x < q  PROVE FALSE
    <3>1. PICK e \in Nat : q = x + 1 + e
      BY <2>0, <2>1
    <3>2. q * d = x * d + d + e * d /\ e * d \in Nat
      BY <2>0, <3>1
    <3> QED  BY <2>0, <3>2, <1>3
  <2>2. ASSUME q < x  PROVE FALSE
    <3>1. PICK e \in Nat : x = q + 1 + e
      BY <2>0, <2>2
    <3>2. x * d = q * d + d + e * d /\ e * d \in Nat
      BY <2>0, <3>1
    <3> QED  BY <2>0, <3>2, <1>3
  <2>3. x = q
    BY <2>0, <2>1, <2>2
  <2> QED  BY <2>3 DEF x
<1> QED  BY <1>1, <1>2, <1>3

\* The slice of a piece is its positions of the data.
Slice(data, index) ==
  SubSeq(data, index * PieceSize + 1, Min({Len(data), (index + 1) * PieceSize}))

\* A slice holds the elements of the data whose positions fall to its piece.
LEMMA SliceFacts ==
  ASSUME NEW n \in Nat, NEW data, DOMAIN data = 1 .. n, Len(data) = n,
         NEW index, index \in 0 .. ((n - 1) \div PieceSize)
  PROVE  /\ PieceSize \in Nat \ {0} /\ index * PieceSize \in Nat
         /\ Len(Slice(data, index)) \in Nat
         /\ DOMAIN Slice(data, index) = 1 .. Len(Slice(data, index))
         /\ \A q \in DOMAIN Slice(data, index) :
               /\ index * PieceSize + q \in 1 .. n
               /\ Slice(data, index)[q] = data[index * PieceSize + q]
         /\ \A p \in 1 .. n :
               (p - 1) \div PieceSize = index => p - index * PieceSize \in DOMAIN Slice(data, index)
<1> DEFINE from  == index * PieceSize
           to    == Min({n, (index + 1) * PieceSize})
           slice == Slice(data, index)
           T     == {data[p] : p \in 1 .. n}
<1>1. PieceSize \in Nat \ {0}
  BY Sizes, MinPair DEF PieceSize
<1>2. /\ from \in Nat /\ (index + 1) * PieceSize = from + PieceSize
      /\ to = IF n <= from + PieceSize THEN n ELSE from + PieceSize
  <2>1. from \in Nat /\ (index + 1) * PieceSize = from + PieceSize
    BY <1>1
  <2> HIDE DEF from
  <2> QED  BY <1>1, <2>1, MinPair
<1>3. \A p \in 1 .. n : (p - 1) \div PieceSize = index => from + 1 <= p /\ p <= to
  <2> SUFFICES ASSUME NEW p \in 1 .. n, (p - 1) \div PieceSize = index
               PROVE  from + 1 <= p /\ p <= to
    OBVIOUS
  <2>1. p - 1 \in Nat /\ index \in Nat
    OBVIOUS
  <2>2. from <= p - 1 /\ p - 1 < from + PieceSize
    BY <1>1, <2>1, DivFacts
  <2> HIDE DEF from, to
  <2> QED  BY <1>1, <1>2, <2>2
<1>s. slice = SubSeq(data, from + 1, to)
  BY DEF Slice
<1> HIDE DEF from, to, slice
<1>4. from \in Nat /\ from + 1 \in Int /\ to \in Int /\ to <= n
  BY <1>1, <1>2
<1>5. \A i \in from + 1 .. to : i \in 1 .. n /\ data[i] \in T
  BY <1>4
<1> HIDE DEF T
<1>6. /\ slice \in Seq(T) /\ Len(slice) = IF from + 1 <= to THEN to - (from + 1) + 1 ELSE 0
      /\ \A i \in 1 .. to - (from + 1) + 1 : slice[i] = data[(from + 1) + i - 1]
  <2>1. /\ SubSeq(data, from + 1, to) \in Seq(T)
        /\ Len(SubSeq(data, from + 1, to)) = IF from + 1 <= to THEN to - (from + 1) + 1 ELSE 0
        /\ \A i \in 1 .. to - (from + 1) + 1 : SubSeq(data, from + 1, to)[i] = data[(from + 1) + i - 1]
    BY <1>4, <1>5, SubSeqProperties
  <2> QED  BY <1>s, <2>1
<1>7. Len(slice) \in Nat /\ DOMAIN slice = 1 .. Len(slice)
  BY <1>6, LenProperties
<1>8. \A q \in DOMAIN slice : from + q \in 1 .. n /\ slice[q] = data[from + q]
  <2> TAKE q \in DOMAIN slice
  <2>1. q \in 1 .. Len(slice) /\ Len(slice) > 0
    BY <1>7
  <2>2. from + 1 <= to /\ q \in 1 .. to - (from + 1) + 1
    BY <1>4, <1>6, <2>1
  <2>3. (from + 1) + q - 1 = from + q /\ from + q \in from + 1 .. to
    BY <1>4, <2>2
  <2> QED  BY <1>5, <1>6, <2>2, <2>3
<1>9. \A p \in 1 .. n : (p - 1) \div PieceSize = index => p - from \in DOMAIN slice
  <2> SUFFICES ASSUME NEW p \in 1 .. n, (p - 1) \div PieceSize = index
               PROVE  p - from \in DOMAIN slice
    OBVIOUS
  <2>1. p \in Int /\ from + 1 <= p /\ p <= to
    BY <1>3
  <2>2. Len(slice) = to - (from + 1) + 1
    BY <1>4, <1>6, <2>1
  <2> QED  BY <1>4, <1>7, <2>1, <2>2
<1> QED  BY <1>1, <1>2, <1>7, <1>8, <1>9 DEF from, slice

\* Every column is in one of the chunks, and a chunk's job hashes its own columns.
LEMMA ChunkFacts ==
  /\ ChunkSize \in Nat \ {0}
  /\ (NodesCount + ChunkSize - 1) \div ChunkSize \in Nat
  /\ \A k \in 1 .. NodesCount :
        /\ (k - 1) \div ChunkSize \in 0 .. ((NodesCount + ChunkSize - 1) \div ChunkSize) - 1
        /\ ((k - 1) % ChunkSize) + ((k - 1) \div ChunkSize) * ChunkSize = k - 1
<1>1. ChunkSize \in Nat \ {0}
  <2> DEFINE chunks == IF Workers > NodesCount * 2 THEN 1 ELSE Workers
             a      == NodesCount + chunks - 1
  <2>1. chunks \in Nat \ {0} /\ a \in Nat /\ chunks <= a
    BY Sizes
  <2>2. ChunkSize = a \div chunks
    BY DEF ChunkSize
  <2> HIDE DEF chunks, a
  <2>3. a \div chunks \in Nat
    BY <2>1, DivFacts
  <2>4. a \div chunks = 0 => a < chunks
    <3>1. 0 \in Nat /\ (a \div chunks = 0 => a < 0 * chunks + chunks)
      BY <2>1, DivFacts
    <3> QED  BY <2>1, <3>1
  <2> QED  BY <2>1, <2>2, <2>3, <2>4
<1> DEFINE d == ChunkSize
           b == NodesCount + d - 1
           m == b \div d
<1> HIDE DEF d
<1>2. d \in Nat \ {0}
  BY <1>1 DEF d
<1>3. b \in Nat
  BY <1>2, Sizes
<1> HIDE DEF b
<1>4. m \in Nat /\ b < m * d + d
  BY <1>2, <1>3, DivFacts
<1> HIDE DEF m
<1>5. ASSUME NEW k \in 1 .. NodesCount
      PROVE  /\ (k - 1) \div d \in 0 .. m - 1
             /\ ((k - 1) % d) + ((k - 1) \div d) * d = k - 1
  <2> DEFINE x == (k - 1) \div d
             r == (k - 1) % d
  <2>0. k - 1 \in Nat /\ k <= NodesCount
    BY Sizes
  <2>1. x \in Nat /\ r \in 0 .. d - 1 /\ k - 1 = x * d + r
    BY <1>2, <2>0, DivFacts
  <2> HIDE DEF x, r
  <2>2. x * d \in Nat
    BY <1>2, <2>1
  <2>3. k - 1 + d <= b
    BY <1>2, <2>0, Sizes DEF b
  <2>4. ASSUME m <= x  PROVE FALSE
    <3>1. PICK e \in Nat : x = m + e
      BY <1>4, <2>1, <2>4
    <3>2. x * d = m * d + e * d /\ e * d \in Nat /\ m * d \in Nat
      BY <1>2, <1>4, <3>1
    <3> QED  BY <1>2, <1>3, <1>4, <2>0, <2>1, <2>2, <2>3, <3>2
  <2>5. x \in 0 .. m - 1
    BY <1>4, <2>1, <2>4
  <2>6. r + x * d = k - 1
    BY <1>2, <2>1, <2>2
  <2> QED  BY <2>5, <2>6 DEF x, r
<1> QED  BY <1>1, <1>4, <1>5 DEF d, b, m

-----------------------------------------------------------------------------
(***************************************************************************)
(* What each part of the record's invariant depends on                     *)
(***************************************************************************)
\* The phase depends on the request and the phase's number.
LEMMA PhaseFrame ==
  ASSUME NEW w, NEW v, v.request = w.request, v.phase = w.phase
  PROVE  PhasesOf(v) = PhasesOf(w) /\ PhaseOf(v) = PhaseOf(w) /\ OnGpu(v) = OnGpu(w)
  BY DEF PhasesOf, PhaseOf, OnGpu

\* A step that keeps request and phase keeps a record well formed.
LEMMA RecordFrame ==
  ASSUME NEW w, NEW v, v.request = w.request, v.phase = w.phase, RecordOK(w),
         v = [f \in Fields |-> v[f]],
         v.main \in {"start", "submit", "recv", "create", "write", "hash", "fake", "join", "panic",
                     "done", "failed"},
         v.reader \in {"none", "queued", "prepare", "send", "done", "panic"},
         v.builder \in {"none", "queued", "lock", "recv", "send", "done", "panic"}
  PROVE  RecordOK(v)
<1>1. PhasesOf(v) = PhasesOf(w)
  BY PhaseFrame
<1> QED  BY <1>1 DEF RecordOK

\* A step that leaves the reader's part of a call alone keeps what is known of it.
LEMMA ReaderFrame ==
  ASSUME NEW w, NEW v, v.request = w.request, v.phase = w.phase, ReaderOK(w),
         v.tree = w.tree, v.node = w.node, v.reader = w.reader, v.batch = w.batch
  PROVE  ReaderOK(v)
<1>1. OnGpu(v) = OnGpu(w)
  BY PhaseFrame
<1> QED  BY <1>1 DEF ReaderOK

\* A step that leaves the reader and the builder of a call alone keeps what is known of them.
LEMMA BuilderFrame ==
  ASSUME NEW w, NEW v, v.request = w.request, v.phase = w.phase, BuilderOK(w),
         v.tree = w.tree, v.node = w.node, v.reader = w.reader, v.batch = w.batch,
         v.built = w.built, v.builder = w.builder, v.added = w.added, v.ready = w.ready
  PROVE  BuilderOK(v)
<1>1. OnGpu(v) = OnGpu(w)
  BY PhaseFrame
<1> QED  BY <1>1 DEF BuilderOK, Sent

\* The files of trees that are complete stay, whatever is stored for the current one.
Stored(w, content) ==
  [f \in DOMAIN w.files \cup {<<PhaseOf(w), w.written>>} |->
     IF f = <<PhaseOf(w), w.written>> THEN content ELSE w.files[f]]

\* A step that leaves the files and their count alone keeps what they hold.
LEMMA FilesFrame ==
  ASSUME NEW w, NEW v, v.request = w.request, v.phase = w.phase, FilesOK(w),
         v.files = w.files, v.written = w.written
  PROVE  FilesOK(v)
<1>1. PhasesOf(v) = PhasesOf(w)
  BY PhaseFrame
<1>2. \A phase : Missed(v, phase) = Missed(w, phase)
  BY DEF Missed
<1> QED  BY <1>1, <1>2 DEF FilesOK

\* Storing the next file keeps those before it, and counts it when it is right or missed.
LEMMA FilesStored ==
  ASSUME NEW w, NEW v, NEW content, v.request = w.request, v.phase = w.phase, RecordOK(w), FilesOK(w),
         w.written \in Nat, v.files = Stored(w, content),
         \/ v.written = w.written
         \/ /\ v.written = w.written + 1
            /\ content \in {RightFile(PhaseOf(w), w.written)} \cup Missed(w, PhaseOf(w))
  PROVE  FilesOK(v) /\ v.files[<<PhaseOf(w), w.written>>] = content
                    /\ <<PhaseOf(w), w.written>> \in DOMAIN v.files
<1> DEFINE Fine(fs, k, i) ==
             /\ <<PhasesOf(w)[k], i>> \in DOMAIN fs
             /\ \/ fs[<<PhasesOf(w)[k], i>>] = RightFile(PhasesOf(w)[k], i)
                \/ /\ fs[<<PhasesOf(w)[k], i>>] \in Missed(w, PhasesOf(w)[k])
                   /\ k < w.phase => fs[<<PhasesOf(w)[k], i>>] # NoStore
<1>1. PhasesOf(v) = PhasesOf(w) /\ \A phase : Missed(v, phase) = Missed(w, phase)
  BY PhaseFrame DEF Missed
<1>2. v.files[<<PhaseOf(w), w.written>>] = content /\ <<PhaseOf(w), w.written>> \in DOMAIN v.files
  BY DEF Stored
<1>3. FilesOK(v)
  <2> SUFFICES ASSUME NEW k \in 1 .. Len(PhasesOf(w)), NEW i \in 0 .. TreeCount - 1,
                      PhasesOf(w)[k] # "fake",
                      k < w.phase \/ (k = w.phase /\ i < v.written)
               PROVE  Fine(v.files, k, i)
    BY <1>1 DEF FilesOK
  <2>0. k < w.phase \/ (k = w.phase /\ i < w.written) => Fine(w.files, k, i)
    BY DEF FilesOK
  <2>1. CASE k < w.phase
    <3>1. PhasesOf(w)[k] # PhaseOf(w)
      BY <2>1, PhaseFacts
    <3> QED  BY <2>0, <2>1, <3>1 DEF Stored
  <2>2. CASE k = w.phase /\ i < w.written
    <3>1. <<PhasesOf(w)[k], i>> # <<PhaseOf(w), w.written>>
      BY <2>2
    <3> QED  BY <2>0, <2>2, <3>1 DEF Stored
  <2>3. CASE k = w.phase /\ ~(i < w.written)
    <3>1. /\ i = w.written
          /\ content \in {RightFile(PhaseOf(w), w.written)} \cup Missed(w, PhaseOf(w))
      BY <2>3, Sizes
    <3>2. PhasesOf(w)[k] = PhaseOf(w) /\ ~(k < w.phase)
      BY <2>3 DEF PhaseOf, RecordOK
    <3> QED  BY <1>2, <3>1, <3>2
  <2> QED  BY <2>1, <2>2, <2>3
<1> QED  BY <1>2, <1>3

\* A step that leaves the current file and its pieces alone keeps what is known of them.
LEMMA PiecesFrame ==
  ASSUME NEW w, NEW v, v.request = w.request, v.phase = w.phase, PiecesOK(w),
         v.main # "write" \/ v.main = w.main, v.files = w.files, v.written = w.written,
         v.pieces = w.pieces
  PROVE  PiecesOK(v)
<1>1. PhaseOf(v) = PhaseOf(w)
  BY PhaseFrame
<1> QED  BY <1>1 DEF PiecesOK

\* A step that leaves the replica and the place reached in it alone keeps what is encoded.
LEMMA EncodedFrame ==
  ASSUME NEW w, NEW v, v.request = w.request, v.phase = w.phase, EncodedOK(w),
         v.encoded = w.encoded, EncodedUpTo(v) = EncodedUpTo(w)
  PROVE  EncodedOK(v)
  BY DEF EncodedOK

-----------------------------------------------------------------------------
(***************************************************************************)
(* The steps of a call, on its record                                      *)
(***************************************************************************)
\* The fields a step leaves alone.
Keeps(w, v, fs) == v = [f \in Fields |-> v[f]] /\ \A f \in fs : v[f] = w[f]

\* Steps that only move the three threads: the jobs are submitted and taken, the lock
\* is got, columns are hashed, someone panics, the tree of a fake replica is built.
Control(w, v) ==
  /\ Keeps(w, v, Fields \ {"main", "reader", "builder", "held"})
  /\ \/ /\ w.main = "start" /\ OnGpu(w)
        /\ v.main = "submit" /\ v.reader = "queued" /\ v.builder = w.builder /\ v.held = w.held
     \/ /\ w.main = "submit"
        /\ v.main = "recv" /\ v.reader = w.reader /\ v.builder = "queued" /\ v.held = w.held
     \/ /\ w.reader = "queued"
        /\ v.main = w.main /\ v.reader = "prepare" /\ v.builder = w.builder /\ v.held = w.held
     \/ /\ w.builder = "queued"
        /\ v.main = w.main /\ v.reader = w.reader /\ v.builder = "lock" /\ v.held = w.held
     \/ /\ w.builder = "lock"
        /\ v.main = w.main /\ v.reader = w.reader /\ v.builder = "recv" /\ v.held = w.held
     \/ /\ w.reader \in {"prepare", "send"}
        /\ v.main = w.main /\ v.reader = "panic" /\ v.builder = w.builder /\ v.held = w.held
     \/ /\ w.builder \in {"lock", "recv", "send"}
        /\ v.main = w.main /\ v.reader = w.reader /\ v.builder = "panic" /\ v.held = w.held
     \/ /\ v.main \in {"panic", "failed"} /\ v.reader = w.reader /\ v.builder = w.builder
        /\ v.held = w.held
     \/ /\ w.main = "start" /\ ~w.request.gpu /\ PhaseOf(w) = "tree_c"
        /\ v.main = "hash" /\ v.reader = w.reader /\ v.builder = w.builder
     \/ /\ w.main \notin {"create", "write"}
        /\ v.main = w.main /\ v.reader = w.reader /\ v.builder = w.builder
     \/ /\ w.main \in {"start", "fake"} /\ PhaseOf(w) = "fake"
        /\ v.main \in {"fake", "join"} /\ v.reader = w.reader /\ v.builder = w.builder
        /\ v.held = w.held

\* A step that changes control only keeps the call's invariant.
LEMMA ControlStep ==
  ASSUME NEW w, NEW v, CallOK(w), Control(w, v)
  PROVE  CallOK(v)
<1>1. /\ v.request = w.request /\ v.phase = w.phase /\ v.tree = w.tree /\ v.node = w.node
      /\ v.batch = w.batch /\ v.added = w.added /\ v.built = w.built /\ v.ready = w.ready
      /\ v.written = w.written /\ v.pieces = w.pieces /\ v.files = w.files /\ v.encoded = w.encoded
      /\ v = [f \in Fields |-> v[f]]
  BY DEF Control, Keeps, Fields
<1>2. RecordOK(w) /\ ReaderOK(w) /\ BuilderOK(w) /\ MainOK(w) /\ FilesOK(w) /\ PiecesOK(w) /\ EncodedOK(w)
  BY DEF CallOK
<1>3. /\ w.main \in {"start", "submit", "recv", "create", "write", "hash", "fake", "join", "panic",
                     "done", "failed"}
      /\ w.reader \in {"none", "queued", "prepare", "send", "done", "panic"}
      /\ w.builder \in {"none", "queued", "lock", "recv", "send", "done", "panic"}
  BY <1>2 DEF RecordOK
<1>4. OnGpu(v) = OnGpu(w) /\ PhaseOf(v) = PhaseOf(w) /\ PhasesOf(v) = PhasesOf(w)
  BY <1>1, PhaseFrame
<1>5. RecordOK(v)
  <2>1. /\ v.main \in {"start", "submit", "recv", "create", "write", "hash", "fake", "join", "panic",
                       "done", "failed"}
        /\ v.reader \in {"none", "queued", "prepare", "send", "done", "panic"}
        /\ v.builder \in {"none", "queued", "lock", "recv", "send", "done", "panic"}
    BY <1>3 DEF Control
  <2> QED  BY <1>1, <1>2, <2>1, RecordFrame
<1>6. ReaderOK(v)
  BY <1>1, <1>2, <1>4, Sizes DEF Control, ReaderOK, MainOK
<1>7. BuilderOK(v)
  BY <1>1, <1>2, <1>4 DEF Control, ReaderOK, BuilderOK, MainOK, Sent
<1>8. MainOK(v)
  BY <1>1, <1>2, <1>4, Sizes DEF Control, ReaderOK, BuilderOK, MainOK, OnGpu
<1>9. FilesOK(v) /\ PiecesOK(v)
  <2>1. v.main # "write" \/ v.main = w.main
    BY DEF Control
  <2> QED  BY <1>1, <1>2, <2>1, FilesFrame, PiecesFrame
<1>10. EncodedOK(v)
  <2>1. EncodedUpTo(v) = EncodedUpTo(w)
    BY <1>1, <1>4 DEF EncodedUpTo
  <2> QED  BY <1>1, <1>2, <2>1, EncodedFrame
<1> QED  BY <1>5, <1>6, <1>7, <1>8, <1>9, <1>10 DEF CallOK

\* A run of leaves that starts where the encoded ones end is encoded.
Encode(w, a, n) ==
  [l \in Leaves |->
     w.encoded[l] + (IF PhaseOf(w) = "tree_r" /\ w.request.op = "seal" /\ l \in Range(Run(a, n))
                     THEN 1 ELSE 0)]

\* Encoding from the place reached so far encodes each of those nodes once and no other.
LEMMA EncodeStep ==
  ASSUME NEW w, NEW v, NEW a \in Nat, NEW n \in Nat, EncodedOK(w), v.encoded = Encode(w, a, n),
         IF PhaseOf(w) = "tree_r" /\ w.request.op = "seal"
         THEN EncodedUpTo(w) = a /\ EncodedUpTo(v) = a + n
         ELSE EncodedUpTo(v) = EncodedUpTo(w)
  PROVE  EncodedOK(v)
<1>1. Range(Run(a, n)) = a .. (a + n - 1)
  BY RunFacts
<1>2. Leaves \subseteq Nat
  BY DEF Leaves
<1>3. w.encoded \in [Leaves -> Nat] /\ \A l \in Leaves : w.encoded[l] = IF l < EncodedUpTo(w) THEN 1 ELSE 0
  BY DEF EncodedOK
<1>4. v.encoded \in [Leaves -> Nat]
  BY <1>3 DEF Encode
<1>5. ASSUME NEW l \in Leaves  PROVE v.encoded[l] = IF l < EncodedUpTo(v) THEN 1 ELSE 0
  <2>1. l \in Nat
    BY <1>2
  <2>2. v.encoded[l] = w.encoded[l] + (IF PhaseOf(w) = "tree_r" /\ w.request.op = "seal" /\ l \in Range(Run(a, n))
                     THEN 1 ELSE 0)
    BY DEF Encode
  <2>3. CASE PhaseOf(w) = "tree_r" /\ w.request.op = "seal"
    BY <1>1, <1>3, <2>1, <2>2, <2>3
  <2>4. CASE ~(PhaseOf(w) = "tree_r" /\ w.request.op = "seal")
    BY <1>3, <2>1, <2>2, <2>4
  <2> QED  BY <2>3, <2>4
<1> QED  BY <1>4, <1>5 DEF EncodedOK

\* The reader reads, and may encode, the next batch.
LEMMA PrepareStep ==
  ASSUME NEW w, NEW v, CallOK(w), w.reader = "prepare",
         NEW count \in 1 .. (NodesCount - w.node),
         Keeps(w, v, Fields \ {"batch", "node", "reader", "encoded"}),
         v.batch = Run(w.tree * NodesCount + w.node, count), v.node = w.node + count,
         v.reader = "send", v.encoded = Encode(w, w.tree * NodesCount + w.node, count)
  PROVE  CallOK(v)
<1>1. /\ v.request = w.request /\ v.phase = w.phase /\ v.tree = w.tree /\ v.main = w.main
      /\ v.builder = w.builder /\ v.held = w.held
      /\ v.added = w.added /\ v.built = w.built /\ v.ready = w.ready
      /\ v.written = w.written /\ v.pieces = w.pieces /\ v.files = w.files
      /\ v = [f \in Fields |-> v[f]]
  BY DEF Keeps, Fields
<1>2. RecordOK(w) /\ ReaderOK(w) /\ BuilderOK(w) /\ MainOK(w) /\ FilesOK(w) /\ PiecesOK(w) /\ EncodedOK(w)
  BY DEF CallOK
<1>3. OnGpu(v) = OnGpu(w) /\ PhaseOf(v) = PhaseOf(w) /\ PhasesOf(v) = PhasesOf(w)
  BY <1>1, PhaseFrame
<1>4. w.tree \in Nat /\ w.tree < TreeCount /\ w.node \in Nat /\ w.node < NodesCount /\ OnGpu(w)
  BY <1>2, Sizes DEF ReaderOK
<1>5. w.tree * NodesCount \in Nat /\ w.tree * NodesCount + w.node \in Nat /\ count \in Nat
  BY <1>4, NextLeaf, Sizes
<1>6. Len(v.batch) = count
  BY <1>5, RunFacts
<1>7. RecordOK(v)
  BY <1>1, <1>2, RecordFrame DEF RecordOK
<1>8. ReaderOK(v)
  <2>1. v.node \in 0 .. NodesCount /\ Len(v.batch) \in 1 .. v.node
    BY <1>4, <1>6, Sizes
  <2>2. w.tree * NodesCount + w.node = v.tree * NodesCount + v.node - Len(v.batch)
    BY <1>1, <1>4, <1>5, <1>6
  <2> QED  BY <1>1, <1>2, <1>3, <1>4, <1>6, <2>1, <2>2 DEF ReaderOK
<1>9. BuilderOK(v)
  <2>1. Sent(v) = w.node /\ Sent(w) = w.node
    BY <1>4, <1>6 DEF Sent
  <2> QED  BY <1>1, <1>2, <1>3, <1>4, <2>1 DEF BuilderOK
<1>10. MainOK(v)
  <2>1. w.main # "start" /\ w.main # "done"
    BY <1>2, <1>4, Sizes DEF MainOK
  <2> QED  BY <1>1, <1>2, <1>3, <2>1 DEF MainOK
<1>11. FilesOK(v) /\ PiecesOK(v)
  BY <1>1, <1>2, FilesFrame, PiecesFrame
<1>12. EncodedOK(v)
  <2>1. CASE PhaseOf(w) = "tree_r" /\ w.request.op = "seal"
    <3>1. w.request.gpu
      BY <1>4 DEF OnGpu
    <3>2. EncodedUpTo(w) = w.tree * NodesCount + w.node
      BY <2>1, <3>1 DEF EncodedUpTo
    <3>3. EncodedUpTo(v) = w.tree * NodesCount + (w.node + count)
      BY <1>1, <1>3, <2>1, <3>1 DEF EncodedUpTo
    <3>4. EncodedUpTo(v) = (w.tree * NodesCount + w.node) + count
      BY <1>4, <1>5, <3>3
    <3> QED  BY <1>2, <1>5, <2>1, <3>2, <3>4, EncodeStep
  <2>2. CASE ~(PhaseOf(w) = "tree_r" /\ w.request.op = "seal")
    <3>1. EncodedUpTo(v) = EncodedUpTo(w)
      BY <1>1, <1>3, <2>2 DEF EncodedUpTo
    <3> QED  BY <1>2, <1>5, <2>2, <3>1, EncodeStep
  <2> QED  BY <2>1, <2>2
<1> QED  BY <1>7, <1>8, <1>9, <1>10, <1>11, <1>12 DEF CallOK

\* A batch goes to the builder, which makes a tree of them when it has all of its leaves.
LEMMA SendBatchStep ==
  ASSUME NEW w, NEW v, CallOK(w), w.reader = "send", w.builder = "recv",
         NEW final \in BOOLEAN, final <=> w.node = NodesCount,
         Keeps(w, v, Fields \ {"reader", "tree", "node", "batch", "added", "ready", "builder"}),
         v.reader = (IF final /\ w.tree + 1 = TreeCount THEN "done" ELSE "prepare"),
         v.tree = (IF final THEN w.tree + 1 ELSE w.tree), v.node = (IF final THEN 0 ELSE w.node),
         v.batch = <<>>, v.added = (IF final THEN <<>> ELSE w.added \o w.batch),
         v.ready = (IF final THEN w.added \o w.batch ELSE w.ready),
         v.builder = (IF final THEN "send" ELSE "recv")
  PROVE  CallOK(v)
<1>1. /\ v.request = w.request /\ v.phase = w.phase /\ v.main = w.main
      /\ v.held = w.held /\ v.built = w.built
      /\ v.written = w.written /\ v.pieces = w.pieces /\ v.files = w.files /\ v.encoded = w.encoded
      /\ v = [f \in Fields |-> v[f]]
  BY DEF Keeps, Fields
<1>2. RecordOK(w) /\ ReaderOK(w) /\ BuilderOK(w) /\ MainOK(w) /\ FilesOK(w) /\ PiecesOK(w) /\ EncodedOK(w)
  BY DEF CallOK
<1>3. OnGpu(v) = OnGpu(w) /\ PhaseOf(v) = PhaseOf(w) /\ PhasesOf(v) = PhasesOf(w)
  BY <1>1, PhaseFrame
<1>4. /\ w.tree \in Nat /\ w.tree < TreeCount /\ w.node \in 0 .. NodesCount /\ OnGpu(w)
      /\ Len(w.batch) \in 1 .. w.node /\ w.tree = w.built
  BY <1>2, Sizes DEF ReaderOK, BuilderOK
<1>r. /\ w.batch = Run(w.tree * NodesCount + w.node - Len(w.batch), Len(w.batch))
      /\ w.added = Run(w.tree * NodesCount, w.node - Len(w.batch))
  BY <1>2 DEF ReaderOK, BuilderOK, Sent
<1>5. /\ w.tree * NodesCount \in Nat
      /\ (w.tree + 1) * NodesCount = w.tree * NodesCount + NodesCount
      /\ (w.tree + 1) * NodesCount \in Nat
  <2>1. w.tree \in Nat /\ w.tree + 1 \in Nat
    BY <1>4
  <2> QED  BY <2>1, NextLeaf
<1>6. w.added \o w.batch = Run(w.tree * NodesCount, w.node)
  <2> DEFINE a == w.tree * NodesCount
             n == Len(w.batch)
             m == w.node - n
  <2>1. a \in Nat /\ m \in Nat /\ n \in Nat /\ a + w.node - n = a + m /\ m + n = w.node
    <3>1. a \in Nat
      BY <1>5
    <3>2. n \in Nat /\ w.node \in Nat /\ n <= w.node
      BY <1>4, Sizes
    <3> HIDE DEF a, n
    <3> QED  BY <3>1, <3>2
  <2>2. w.batch = Run(a + m, n) /\ w.added = Run(a, m)
    BY <1>r, <2>1
  <2> HIDE DEF a, n, m
  <2>3. Run(a, m) \o Run(a + m, n) = Run(a, w.node)
    BY <2>1, RunConcat
  <2> QED  BY <2>2, <2>3 DEF a
<1>7. RecordOK(v)
  <2>1. /\ v.reader \in {"none", "queued", "prepare", "send", "done", "panic"}
        /\ v.builder \in {"none", "queued", "lock", "recv", "send", "done", "panic"}
    OBVIOUS
  <2> QED  BY <1>1, <1>2, <2>1, RecordFrame DEF RecordOK
<1>8. ReaderOK(v)
  <2>1. CASE final
    BY <1>3, <1>4, <2>1, Sizes DEF ReaderOK
  <2>2. CASE ~final
    <3>1. v.tree = w.tree /\ v.node = w.node /\ w.node < NodesCount /\ v.reader = "prepare"
      BY <1>4, <2>2, Sizes
    <3> QED  BY <1>3, <1>4, <3>1, Sizes DEF ReaderOK
  <2> QED  BY <2>1, <2>2
<1>9. BuilderOK(v)
  <2>1. Sent(v) = v.node
    BY DEF Sent
  <2>2. v.added = Run(v.tree * NodesCount, v.node)
    <3>1. CASE final
      BY <1>5, <3>1, RunFacts
    <3>2. CASE ~final
      BY <1>6, <3>2
    <3> QED  BY <3>1, <3>2
  <2>3. final => v.ready = Run(v.built * NodesCount, NodesCount) /\ v.tree = v.built + 1
    BY <1>1, <1>4, <1>6
  <2>4. ~final => v.tree = v.built /\ v.built < TreeCount
    BY <1>1, <1>4
  <2>5. v.built \in 0 .. TreeCount
    BY <1>1, <1>2 DEF BuilderOK
  <2> QED  BY <1>3, <1>4, <2>1, <2>2, <2>3, <2>4, <2>5 DEF BuilderOK
<1>10. MainOK(v)
  <2>1. w.main # "start" /\ w.main # "done" /\ w.main # "submit"
    BY <1>2, <1>4, Sizes DEF MainOK
  <2> QED  BY <1>1, <1>2, <1>3, <2>1 DEF MainOK
<1>11. FilesOK(v) /\ PiecesOK(v)
  BY <1>1, <1>2, FilesFrame, PiecesFrame
<1>12. EncodedOK(v)
  <2>1. v.tree * NodesCount + v.node = w.tree * NodesCount + w.node
    <3>1. CASE final
      <4>1. v.tree = w.tree + 1 /\ v.node = 0 /\ w.node = NodesCount
        BY <3>1
      <4> QED  BY <1>5, <4>1
    <3>2. CASE ~final
      BY <3>2
    <3> QED  BY <3>1, <3>2
  <2>2. EncodedUpTo(v) = EncodedUpTo(w)
    BY <1>1, <1>3, <2>1 DEF EncodedUpTo
  <2> QED  BY <1>1, <1>2, <2>2, EncodedFrame
<1> QED  BY <1>7, <1>8, <1>9, <1>10, <1>11, <1>12 DEF CallOK

\* A tree goes to the calling thread; it is a whole one.
LEMMA SendTreeStep ==
  ASSUME NEW w, NEW v, CallOK(w), w.builder = "send", w.main = "recv",
         Keeps(w, v, Fields \ {"builder", "built", "ready", "held", "main"}),
         v.builder = (IF w.built + 1 = TreeCount THEN "done" ELSE "recv"), v.built = w.built + 1,
         v.held = w.ready, v.main = (IF Len(w.ready) = NodesCount THEN "create" ELSE "panic")
  PROVE  CallOK(v) /\ v.main = "create"
<1>1. /\ v.request = w.request /\ v.phase = w.phase /\ v.reader = w.reader
      /\ v.tree = w.tree /\ v.node = w.node /\ v.batch = w.batch /\ v.added = w.added
      /\ v.written = w.written /\ v.pieces = w.pieces /\ v.files = w.files /\ v.encoded = w.encoded
      /\ v = [f \in Fields |-> v[f]]
  BY DEF Keeps, Fields
<1>2. RecordOK(w) /\ ReaderOK(w) /\ BuilderOK(w) /\ MainOK(w) /\ FilesOK(w) /\ PiecesOK(w) /\ EncodedOK(w)
  BY DEF CallOK
<1>3. OnGpu(v) = OnGpu(w) /\ PhaseOf(v) = PhaseOf(w) /\ PhasesOf(v) = PhasesOf(w)
  BY <1>1, PhaseFrame
<1>4. /\ w.built \in Nat /\ w.tree = w.built + 1 /\ w.tree \in 0 .. TreeCount /\ OnGpu(w)
      /\ w.ready = Run(w.built * NodesCount, NodesCount)
      /\ w.built = w.written /\ w.written < TreeCount
  BY <1>2, Sizes DEF ReaderOK, BuilderOK, MainOK
<1>5. v.main = "create"
  <2>1. w.built * NodesCount \in Nat /\ NodesCount \in Nat
    BY <1>4, NextLeaf, Sizes
  <2> QED  BY <1>4, <2>1, RunFacts
<1>7. RecordOK(v)
  <2>1. v.builder \in {"none", "queued", "lock", "recv", "send", "done", "panic"}
    OBVIOUS
  <2> QED  BY <1>1, <1>2, <1>5, <2>1, RecordFrame DEF RecordOK
<1>8. ReaderOK(v)
  BY <1>1, <1>2, ReaderFrame
<1>9. BuilderOK(v)
  BY <1>1, <1>2, <1>3, <1>4, Sizes DEF BuilderOK, Sent
<1>10. MainOK(v)
  BY <1>1, <1>2, <1>3, <1>4, <1>5 DEF MainOK
<1>11. FilesOK(v) /\ PiecesOK(v)
  BY <1>1, <1>2, <1>5, FilesFrame, PiecesFrame
<1>12. EncodedOK(v)
  <2>2. EncodedUpTo(v) = EncodedUpTo(w)
    BY <1>1, <1>3 DEF EncodedUpTo
  <2> QED  BY <1>1, <1>2, <2>2, EncodedFrame
<1> QED  BY <1>5, <1>7, <1>8, <1>9, <1>10, <1>11, <1>12 DEF CallOK

\* Every position of a part is in one of its pieces.
LEMMA PieceIn ==
  ASSUME NEW part, NEW n \in Nat, NEW p \in 1 .. n
  PROVE  PieceAt(part, p) \in PiecesOf(part, n)
<1>1. PieceSize \in Nat \ {0}
  BY Sizes, MinPair DEF PieceSize
<1> DEFINE d == PieceSize
           x == (p - 1) \div d
           y == (n - 1) \div d
<1> HIDE DEF d
<1>2. d \in Nat \ {0} /\ p - 1 \in Nat /\ n - 1 \in Nat
  BY <1>1 DEF d
<1>3. x \in Nat /\ y \in Nat /\ x * d <= p - 1 /\ n - 1 < y * d + d
  BY <1>2, DivFacts
<1> HIDE DEF x, y
<1>4. ASSUME y < x  PROVE FALSE
  <2>1. PICK e \in Nat : x = y + 1 + e
    BY <1>3, <1>4
  <2>2. x * d = y * d + d + e * d /\ e * d \in Nat /\ y * d \in Nat
    BY <1>2, <1>3, <2>1
  <2> QED  BY <1>2, <1>3, <2>2
<1>5. x \in 0 .. y
  BY <1>3, <1>4
<1> QED  BY <1>5 DEF PieceAt, PiecesOf, x, y, d

\* A file of tree C after one more piece was written.
NewFile(w, piece) ==
  LET tree    == TreeOf(w.held)
      data    == IF piece.part = "base" THEN tree.base ELSE tree.inner
      slice   == SubSeq(data, piece.index * PieceSize + 1, Min({Len(data), (piece.index + 1) * PieceSize}))
      offset  == WriteOffset(piece)
      old     == w.files[<<PhaseOf(w), w.written>>]
  IN [p \in DOMAIN old \cup ((offset + 1) .. (offset + Len(slice))) |->
        IF p - offset \in DOMAIN slice THEN slice[p - offset] ELSE old[p]]

\* The new file is right as far as it goes and has the positions of the piece.
PartlyRight(w) ==
  /\ w.written \in Nat /\ w.held = Run(w.written * NodesCount, NodesCount)
  /\ DOMAIN w.files[<<PhaseOf(w), w.written>>] \subseteq 1 .. (2 * NodesCount - 1)
  /\ \A p \in DOMAIN w.files[<<PhaseOf(w), w.written>>] :
        w.files[<<PhaseOf(w), w.written>>][p] = RightFile("tree_c", w.written)[p]

Part(part, n, from) ==
  \/ part = "base" /\ n = NodesCount /\ from = 0
  \/ part = "inner" /\ n = NodesCount - 1 /\ from = NodesCount

\* Writing one piece keeps what is in the file, adds the piece and writes nothing wrong.
LEMMA NewFileFacts ==
  ASSUME NEW w, PartlyRight(w), NEW part, NEW n \in Nat, NEW from \in Nat, Part(part, n, from),
         NEW piece \in PiecesOf(part, n)
  PROVE  /\ DOMAIN w.files[<<PhaseOf(w), w.written>>] \subseteq DOMAIN NewFile(w, piece)
         /\ DOMAIN NewFile(w, piece) \subseteq 1 .. (2 * NodesCount - 1)
         /\ \A p \in DOMAIN NewFile(w, piece) : NewFile(w, piece)[p] = RightFile("tree_c", w.written)[p]
         /\ \A p \in 1 .. n : PieceAt(part, p) = piece => from + p \in DOMAIN NewFile(w, piece)
<1> DEFINE tree   == TreeOf(w.held)
           data   == IF piece.part = "base" THEN tree.base ELSE tree.inner
           d      == PieceSize
           i      == piece.index
           slice  == Slice(data, i)
           offset == WriteOffset(piece)
           old    == w.files[<<PhaseOf(w), w.written>>]
           new    == NewFile(w, piece)
           right  == RightFile("tree_c", w.written)
<1>1. piece.part = part /\ i \in 0 .. ((n - 1) \div d)
  BY DEF PiecesOf
<1>2. NodesCount \in Nat \ {0}
  BY Sizes
<1>3. /\ DOMAIN data = 1 .. n /\ Len(data) = n
      /\ \A p \in 1 .. n : from + p \in 1 .. (2 * NodesCount - 1) /\ right[from + p] = data[p]
  <2> DEFINE base  == Run(w.written * NodesCount, NodesCount)
             inner == TreeOf(base).inner
  <2>1. /\ TreeOf(base).base = base
        /\ Len(base) = NodesCount /\ DOMAIN base = 1 .. NodesCount
        /\ Len(inner) = NodesCount - 1 /\ DOMAIN inner = 1 .. NodesCount - 1
        /\ right = [p \in 1 .. (2 * NodesCount - 1) |->
                                           IF p <= NodesCount THEN base[p] ELSE inner[p - NodesCount]]
    BY TreeFacts DEF PartlyRight
  <2>2. tree.base = base /\ tree.inner = inner
    BY <2>1 DEF PartlyRight
  <2>3. data = IF part = "base" THEN base ELSE inner
    BY <1>1, <2>2
  <2> HIDE DEF base, inner, data, right
  <2>4. CASE part = "base"
    <3>1. data = base /\ n = NodesCount /\ from = 0
      BY <2>3, <2>4 DEF Part
    <3>2. \A p \in 1 .. n : from + p = p /\ p \in 1 .. (2 * NodesCount - 1) /\ p <= NodesCount
      BY <1>2, <3>1
    <3> QED  BY <2>1, <3>1, <3>2
  <2>5. CASE part = "inner"
    <3>1. data = inner /\ n = NodesCount - 1 /\ from = NodesCount
      BY <2>3, <2>5 DEF Part
    <3>2. \A p \in 1 .. n : /\ from + p \in 1 .. (2 * NodesCount - 1) /\ ~(from + p <= NodesCount)
                            /\ (from + p) - NodesCount = p
      BY <1>2, <3>1
    <3> QED  BY <2>1, <3>1, <3>2
  <2> QED  BY <2>4, <2>5 DEF Part
<1> HIDE DEF data, right
<1>4. /\ d \in Nat \ {0} /\ i * d \in Nat
      /\ Len(slice) \in Nat /\ DOMAIN slice = 1 .. Len(slice)
      /\ \A q \in DOMAIN slice : i * d + q \in 1 .. n /\ slice[q] = data[i * d + q]
      /\ \A p \in 1 .. n : (p - 1) \div d = i => p - i * d \in DOMAIN slice
  <2>1. DOMAIN data = 1 .. n /\ Len(data) = n /\ i \in 0 .. ((n - 1) \div PieceSize)
    BY <1>1, <1>3
  <2> HIDE DEF i
  <2> QED  BY <2>1, SliceFacts
<1>5. offset = from + i * d
  BY <1>1, <1>2, <1>4 DEF WriteOffset, Part
<1>6. new = [p \in DOMAIN old \cup ((offset + 1) .. (offset + Len(slice))) |->
               IF p - offset \in DOMAIN slice THEN slice[p - offset] ELSE old[p]]
  BY DEF NewFile, data, Slice
<1>o. (\A p \in DOMAIN old : old[p] = right[p]) /\ DOMAIN old \subseteq 1 .. (2 * NodesCount - 1)
  BY DEF right, PartlyRight
<1>p. \A p \in 1 .. n : PieceAt(part, p) = piece => (p - 1) \div d = i
  BY DEF PieceAt
<1> DEFINE e == i * d
<1> HIDE DEF slice, offset, old, new, d, i, e
<1>7. DOMAIN new = DOMAIN old \cup ((offset + 1) .. (offset + Len(slice)))
  BY <1>6
<1>e. e \in Nat /\ offset = from + e /\ offset \in Nat
  BY <1>4, <1>5 DEF e
<1>s. /\ Len(slice) \in Nat /\ DOMAIN slice = 1 .. Len(slice)
      /\ \A q \in DOMAIN slice : e + q \in 1 .. n /\ slice[q] = data[e + q]
      /\ \A p \in 1 .. n : (p - 1) \div d = i => p - e \in DOMAIN slice
  BY <1>4 DEF e
<1>8. ASSUME NEW p \in (offset + 1) .. (offset + Len(slice))
      PROVE  /\ p - offset \in DOMAIN slice /\ p \in 1 .. (2 * NodesCount - 1)
             /\ slice[p - offset] = right[p]
  <2> DEFINE q == p - offset
  <2>1. q \in DOMAIN slice /\ p = from + (e + q) /\ q \in Int
    <3>1. p \in Int /\ offset + 1 <= p /\ p <= offset + Len(slice) /\ Len(slice) \in Nat
      BY <1>e, <1>s
    <3>2. q \in 1 .. Len(slice) /\ p = from + (e + q)
      BY <1>e, <3>1
    <3> QED  BY <1>s, <3>2
  <2> HIDE DEF q
  <2>2. e + q \in 1 .. n /\ slice[q] = data[e + q]
    BY <1>s, <2>1
  <2>3. p \in 1 .. (2 * NodesCount - 1) /\ right[p] = data[e + q]
    BY <1>3, <2>1, <2>2
  <2> QED  BY <2>1, <2>2, <2>3 DEF q
<1>9. ASSUME NEW p \in DOMAIN new  PROVE new[p] = right[p] /\ p \in 1 .. (2 * NodesCount - 1)
  <2>1. CASE p \in (offset + 1) .. (offset + Len(slice))
    BY <1>6, <1>8, <2>1
  <2>2. CASE p \notin (offset + 1) .. (offset + Len(slice))
    <3>1. p \in DOMAIN old /\ p \in Int
      BY <1>2, <1>7, <1>o, <2>2
    <3>2. p - offset \notin DOMAIN slice
      BY <1>e, <1>s, <2>2, <3>1
    <3> QED  BY <1>6, <1>7, <1>o, <3>1, <3>2
  <2> QED  BY <2>1, <2>2
<1>10. ASSUME NEW p \in 1 .. n, PieceAt(part, p) = piece  PROVE from + p \in DOMAIN new
  <2>1. p - e \in 1 .. Len(slice)
    BY <1>10, <1>p, <1>s
  <2>2. from + p \in (offset + 1) .. (offset + Len(slice))
    BY <1>e, <1>s, <2>1
  <2> QED  BY <1>7, <2>2
<1> QED  BY <1>7, <1>9, <1>10 DEF new, old, right

\* A tree is stored and the calling thread goes on to the next one or to the end.
LEMMA StoreStep ==
  ASSUME NEW w, NEW v, NEW content, CallOK(w),
         content = RightFile(PhaseOf(w), w.written)
           \/ (w.main = "hash" /\ content \in {NoStore, Leftover}),
         w.main \in {"create", "write", "hash"}
           \/ (w.main = "start" /\ ~w.request.gpu /\ PhaseOf(w) = "tree_r"),
         Keeps(w, v, Fields \ {"files", "written", "pieces", "held", "main", "encoded"}),
         v.files = Stored(w, content), v.written = w.written + 1,
         v.main = (IF w.written + 1 = TreeCount THEN "join"
                   ELSE IF w.main \in {"create", "write"} THEN "recv" ELSE "start"),
         v.encoded = (IF w.main = "start" THEN Encode(w, w.written * NodesCount, NodesCount) ELSE w.encoded)
  PROVE  CallOK(v)
<1>1. /\ v.request = w.request /\ v.phase = w.phase /\ v.reader = w.reader /\ v.builder = w.builder
      /\ v.tree = w.tree /\ v.node = w.node /\ v.batch = w.batch /\ v.added = w.added
      /\ v.built = w.built /\ v.ready = w.ready
      /\ v = [f \in Fields |-> v[f]]
  BY DEF Keeps, Fields
<1>2. RecordOK(w) /\ ReaderOK(w) /\ BuilderOK(w) /\ MainOK(w) /\ FilesOK(w) /\ PiecesOK(w) /\ EncodedOK(w)
  BY DEF CallOK
<1>3. OnGpu(v) = OnGpu(w) /\ PhaseOf(v) = PhaseOf(w) /\ PhasesOf(v) = PhasesOf(w)
  BY <1>1, PhaseFrame
<1>4. /\ w.written \in Nat /\ w.written < TreeCount
      /\ w.main \in {"create", "write"} => OnGpu(w) /\ w.built = w.written + 1
      /\ w.main \in {"start", "hash"} => /\ ~w.request.gpu /\ w.reader = "none" /\ w.builder = "none"
                                        /\ PhaseOf(w) # "fake"
  BY <1>2, Sizes DEF MainOK, ReaderOK, BuilderOK, OnGpu
<1>5. v.main \in {"join", "recv", "start"}
  OBVIOUS
<1>7. RecordOK(v)
  BY <1>1, <1>2, <1>5, RecordFrame DEF RecordOK
<1>8. ReaderOK(v)
  BY <1>1, <1>2, ReaderFrame
<1>9. BuilderOK(v)
  BY <1>1, <1>2, BuilderFrame
<1>10. MainOK(v)
  <2>1. v.written \in 0 .. TreeCount
    BY <1>4, Sizes
  <2>2. CASE w.main \in {"create", "write"}
    BY <1>1, <1>3, <1>4, <2>1, <2>2, Sizes DEF MainOK
  <2>3. CASE w.main \in {"start", "hash"}
    BY <1>1, <1>3, <1>4, <2>1, <2>3, Sizes DEF MainOK, OnGpu
  <2> QED  BY <2>2, <2>3
<1>11. FilesOK(v)
  <2>1. w.main = "hash" => Missed(w, PhaseOf(w)) = {NoStore, Leftover}
    BY <1>2 DEF MainOK, Missed
  <2>2. content \in {RightFile(PhaseOf(w), w.written)} \cup Missed(w, PhaseOf(w))
    BY <2>1
  <2> QED  BY <1>1, <1>2, <1>4, <2>2, FilesStored
<1>12. PiecesOK(v)
  BY <1>5 DEF PiecesOK
<1>13. EncodedOK(v)
  <2>1. CASE w.main \in {"create", "write", "hash"}
    <3>1. EncodedUpTo(v) = EncodedUpTo(w)
      BY <1>1, <1>2, <1>3, <1>4, <2>1 DEF EncodedUpTo, MainOK, OnGpu
    <3> QED  BY <1>1, <1>2, <2>1, <3>1, EncodedFrame
  <2>2. CASE w.main = "start"
    <3> DEFINE a == w.written * NodesCount
    <3>1. a \in Nat /\ (w.written + 1) * NodesCount = a + NodesCount
      BY <1>4, NextLeaf
    <3>2. PhaseOf(w) = "tree_r" /\ ~w.request.gpu
      BY <2>2
    <3>3. IF PhaseOf(w) = "tree_r" /\ w.request.op = "seal"
          THEN EncodedUpTo(w) = a /\ EncodedUpTo(v) = a + NodesCount
          ELSE EncodedUpTo(v) = EncodedUpTo(w)
      BY <1>1, <1>3, <3>1, <3>2 DEF EncodedUpTo
    <3>4. v.encoded = Encode(w, a, NodesCount)
      BY <2>2
    <3> HIDE DEF a
    <3> QED  BY <1>2, <3>1, <3>3, <3>4, EncodeStep, Sizes
  <2> QED  BY <2>1, <2>2
<1> QED  BY <1>7, <1>8, <1>9, <1>10, <1>11, <1>12, <1>13 DEF CallOK

\* The calling thread goes on writing a file of tree C.
LEMMA WriteFrame ==
  ASSUME NEW w, NEW v, CallOK(w), w.main \in {"create", "write"}, PhaseOf(w) = "tree_c",
         Keeps(w, v, Fields \ {"files", "pieces", "main"}), v.main = "write",
         NEW content, v.files = Stored(w, content), PiecesOK(v)
  PROVE  CallOK(v)
<1>1. /\ v.request = w.request /\ v.phase = w.phase /\ v.reader = w.reader /\ v.builder = w.builder
      /\ v.tree = w.tree /\ v.node = w.node /\ v.batch = w.batch /\ v.added = w.added
      /\ v.built = w.built /\ v.ready = w.ready /\ v.held = w.held /\ v.written = w.written
      /\ v.encoded = w.encoded
      /\ v = [f \in Fields |-> v[f]]
  BY DEF Keeps, Fields
<1>2. RecordOK(w) /\ ReaderOK(w) /\ BuilderOK(w) /\ MainOK(w) /\ FilesOK(w) /\ EncodedOK(w)
  BY DEF CallOK
<1>3. OnGpu(v) = OnGpu(w) /\ PhaseOf(v) = PhaseOf(w) /\ PhasesOf(v) = PhasesOf(w)
  BY <1>1, PhaseFrame
<1>4. w.written \in Nat
  BY <1>2, Sizes DEF MainOK
<1>5. RecordOK(v)
  BY <1>1, <1>2, RecordFrame DEF RecordOK
<1>6. ReaderOK(v) /\ BuilderOK(v)
  BY <1>1, <1>2, ReaderFrame, BuilderFrame
<1>7. MainOK(v)
  BY <1>1, <1>2, <1>3 DEF MainOK
<1>8. FilesOK(v)
  BY <1>1, <1>2, <1>4, FilesStored
<1>9. EncodedOK(v)
  <2>1. EncodedUpTo(v) = EncodedUpTo(w)
    BY <1>1, <1>3 DEF EncodedUpTo
  <2> QED  BY <1>1, <1>2, <2>1, EncodedFrame
<1> QED  BY <1>5, <1>6, <1>7, <1>8, <1>9 DEF CallOK

\* CreateFile on the record: the file is empty and every piece of the leaves is to be written.
LEMMA CreateStep ==
  ASSUME NEW w, NEW v, CallOK(w), w.main = "create", PhaseOf(w) = "tree_c",
         Keeps(w, v, Fields \ {"files", "pieces", "main"}), v.main = "write",
         v.files = Stored(w, <<>>), v.pieces = PiecesOf("base", NodesCount)
  PROVE  CallOK(v)
<1>1. v.request = w.request /\ v.phase = w.phase /\ v.written = w.written
  BY DEF Keeps, Fields
<1>2. PhaseOf(v) = PhaseOf(w)
  BY <1>1, PhaseFrame
<1>3. RecordOK(w) /\ FilesOK(w) /\ w.written \in Nat
  BY Sizes DEF CallOK, MainOK
<1>4. v.files[<<PhaseOf(w), w.written>>] = <<>> /\ <<PhaseOf(w), w.written>> \in DOMAIN v.files
  BY DEF Stored
<1>5. PiecesOK(v)
  <2>1. \A p \in 1 .. NodesCount : PieceAt("base", p) \in v.pieces
    BY PieceIn, Sizes
  <2> QED  BY <1>1, <1>2, <1>4, <2>1 DEF PiecesOK
<1> QED  BY <1>5, WriteFrame

\* What is known of the file, and of a piece that is written next.
LEMMA PieceFacts ==
  ASSUME NEW w, CallOK(w), w.main = "write", NEW piece \in w.pieces
  PROVE  LET old == w.files[<<PhaseOf(w), w.written>>]
             new == NewFile(w, piece)
         IN /\ PhaseOf(w) = "tree_c" /\ w.written \in Nat
            /\ DOMAIN old \subseteq DOMAIN new /\ DOMAIN new \subseteq 1 .. (2 * NodesCount - 1)
            /\ \A p \in DOMAIN new : new[p] = RightFile("tree_c", w.written)[p]
            /\ \/ /\ w.pieces \subseteq PiecesOf("base", NodesCount) /\ piece.part = "base"
                  /\ \A p \in 1 .. NodesCount :
                        p \in DOMAIN new \/ PieceAt("base", p) \in w.pieces \ {piece}
               \/ /\ w.pieces \subseteq PiecesOf("inner", NodesCount - 1) /\ piece.part = "inner"
                  /\ 1 .. NodesCount \subseteq DOMAIN new
                  /\ \A p \in 1 .. NodesCount - 1 :
                        NodesCount + p \in DOMAIN new \/ PieceAt("inner", p) \in w.pieces \ {piece}
<1> DEFINE old == w.files[<<PhaseOf(w), w.written>>]
           new == NewFile(w, piece)
<1>1. PhaseOf(w) = "tree_c" /\ w.written \in Nat /\ w.held = Run(w.written * NodesCount, NodesCount)
  BY Sizes DEF CallOK, MainOK
<1>2. /\ DOMAIN old \subseteq 1 .. (2 * NodesCount - 1)
      /\ \A p \in DOMAIN old : old[p] = RightFile("tree_c", w.written)[p]
      /\ \/ /\ w.pieces \subseteq PiecesOf("base", NodesCount)
            /\ \A p \in 1 .. NodesCount : p \in DOMAIN old \/ PieceAt("base", p) \in w.pieces
         \/ /\ w.pieces \subseteq PiecesOf("inner", NodesCount - 1)
            /\ 1 .. NodesCount \subseteq DOMAIN old
            /\ \A p \in 1 .. NodesCount - 1 :
                  NodesCount + p \in DOMAIN old \/ PieceAt("inner", p) \in w.pieces
  BY DEF CallOK, PiecesOK
<1>3. PartlyRight(w)
  BY <1>1, <1>2 DEF PartlyRight
<1>4. NodesCount \in Nat /\ NodesCount - 1 \in Nat /\ 0 \in Nat
  BY Sizes
<1>5. CASE /\ w.pieces \subseteq PiecesOf("base", NodesCount)
           /\ \A p \in 1 .. NodesCount : p \in DOMAIN old \/ PieceAt("base", p) \in w.pieces
  <2>0. PICK z \in Nat : z = 0
    OBVIOUS
  <2>1. Part("base", NodesCount, z) /\ piece \in PiecesOf("base", NodesCount) /\ piece.part = "base"
    BY <1>5, <2>0 DEF Part, PiecesOf
  <2>2. /\ DOMAIN old \subseteq DOMAIN new /\ DOMAIN new \subseteq 1 .. (2 * NodesCount - 1)
        /\ \A p \in DOMAIN new : new[p] = RightFile("tree_c", w.written)[p]
        /\ \A p \in 1 .. NodesCount : PieceAt("base", p) = piece => z + p \in DOMAIN new
    BY <1>3, <1>4, <2>1, NewFileFacts
  <2> HIDE DEF old, new
  <2>3. ASSUME NEW p \in 1 .. NodesCount
        PROVE  p \in DOMAIN new \/ PieceAt("base", p) \in w.pieces \ {piece}
    <3>1. z + p = p
      BY <1>4, <2>0
    <3> QED  BY <1>5, <2>2, <3>1
  <2> QED  BY <1>1, <1>5, <2>1, <2>2, <2>3 DEF old, new
<1>6. CASE /\ w.pieces \subseteq PiecesOf("inner", NodesCount - 1)
           /\ 1 .. NodesCount \subseteq DOMAIN old
           /\ \A p \in 1 .. NodesCount - 1 :
                 NodesCount + p \in DOMAIN old \/ PieceAt("inner", p) \in w.pieces
  <2>1. /\ Part("inner", NodesCount - 1, NodesCount) /\ piece \in PiecesOf("inner", NodesCount - 1)
        /\ piece.part = "inner"
    BY <1>6 DEF Part, PiecesOf
  <2>2. /\ DOMAIN old \subseteq DOMAIN new /\ DOMAIN new \subseteq 1 .. (2 * NodesCount - 1)
        /\ \A p \in DOMAIN new : new[p] = RightFile("tree_c", w.written)[p]
        /\ \A p \in 1 .. NodesCount - 1 : PieceAt("inner", p) = piece => NodesCount + p \in DOMAIN new
    BY <1>3, <1>4, <2>1, NewFileFacts
  <2> HIDE DEF old, new
  <2>3. ASSUME NEW p \in 1 .. NodesCount - 1
        PROVE  NodesCount + p \in DOMAIN new \/ PieceAt("inner", p) \in w.pieces \ {piece}
    BY <1>6, <2>2
  <2> QED  BY <1>1, <1>6, <2>1, <2>2, <2>3 DEF old, new
<1> QED  BY <1>2, <1>5, <1>6

\* Another piece of it is written, not the last one.
LEMMA WriteStep ==
  ASSUME NEW w, NEW v, CallOK(w), w.main = "write", NEW piece \in w.pieces,
         Keeps(w, v, Fields \ {"files", "pieces"}), v.files = Stored(w, NewFile(w, piece)),
         ~(w.pieces \ {piece} = {} /\ piece.part = "inner"),
         v.pieces = (IF w.pieces \ {piece} = {} THEN PiecesOf("inner", NodesCount - 1) ELSE w.pieces \ {piece})
  PROVE  CallOK(v)
<1> DEFINE new == NewFile(w, piece)
<1>1. v.request = w.request /\ v.phase = w.phase /\ v.written = w.written /\ v.main = "write"
  BY DEF Keeps, Fields
<1>2. PhaseOf(v) = PhaseOf(w)
  BY <1>1, PhaseFrame
<1>3. /\ PhaseOf(w) = "tree_c" /\ w.written \in Nat
      /\ DOMAIN new \subseteq 1 .. (2 * NodesCount - 1)
      /\ \A p \in DOMAIN new : new[p] = RightFile("tree_c", w.written)[p]
      /\ \/ /\ w.pieces \subseteq PiecesOf("base", NodesCount) /\ piece.part = "base"
            /\ \A p \in 1 .. NodesCount :
                  p \in DOMAIN new \/ PieceAt("base", p) \in w.pieces \ {piece}
         \/ /\ w.pieces \subseteq PiecesOf("inner", NodesCount - 1) /\ piece.part = "inner"
            /\ 1 .. NodesCount \subseteq DOMAIN new
            /\ \A p \in 1 .. NodesCount - 1 :
                  NodesCount + p \in DOMAIN new \/ PieceAt("inner", p) \in w.pieces \ {piece}
  BY PieceFacts
<1> HIDE DEF new
<1>4. RecordOK(w) /\ FilesOK(w)
  BY DEF CallOK
<1>5. v.files[<<PhaseOf(w), w.written>>] = new /\ <<PhaseOf(w), w.written>> \in DOMAIN v.files
  <2>1. v.files = Stored(w, new)
    BY DEF new
  <2> QED  BY <2>1 DEF Stored
<1>6. \/ /\ v.pieces \subseteq PiecesOf("base", NodesCount)
         /\ \A p \in 1 .. NodesCount : p \in DOMAIN new \/ PieceAt("base", p) \in v.pieces
      \/ /\ v.pieces \subseteq PiecesOf("inner", NodesCount - 1)
         /\ 1 .. NodesCount \subseteq DOMAIN new
         /\ \A p \in 1 .. NodesCount - 1 :
               NodesCount + p \in DOMAIN new \/ PieceAt("inner", p) \in v.pieces
  <2>1. CASE w.pieces \ {piece} = {}
    <3>1. /\ v.pieces = PiecesOf("inner", NodesCount - 1)
          /\ \A p \in 1 .. NodesCount : p \in DOMAIN new
      BY <1>3, <2>1
    <3>2. \A p \in 1 .. NodesCount - 1 : PieceAt("inner", p) \in v.pieces
      <4>1. NodesCount - 1 \in Nat
        BY Sizes
      <4> QED  BY <3>1, <4>1, PieceIn
    <3> QED  BY <3>1, <3>2
  <2>2. CASE w.pieces \ {piece} # {}
    BY <1>3, <2>2
  <2> QED  BY <2>1, <2>2
<1>7. PiecesOK(v)
  BY <1>1, <1>2, <1>3, <1>5, <1>6 DEF PiecesOK
<1>8. Keeps(w, v, Fields \ {"files", "pieces", "main"})
  BY DEF Keeps
<1> QED  BY <1>1, <1>3, <1>7, <1>8, WriteFrame

\* The last piece: the file is complete.
LEMMA LastPiece ==
  ASSUME NEW w, CallOK(w), w.main = "write", NEW piece \in w.pieces,
         w.pieces \ {piece} = {}, piece.part = "inner"
  PROVE  NewFile(w, piece) = RightFile(PhaseOf(w), w.written)
<1> DEFINE new   == NewFile(w, piece)
           right == RightFile("tree_c", w.written)
           all   == 1 .. (2 * NodesCount - 1)
<1>1. /\ PhaseOf(w) = "tree_c" /\ w.written \in Nat
      /\ DOMAIN new \subseteq all
      /\ \A p \in DOMAIN new : new[p] = right[p]
      /\ 1 .. NodesCount \subseteq DOMAIN new
      /\ \A p \in 1 .. NodesCount - 1 : NodesCount + p \in DOMAIN new
  BY PieceFacts
<1>2. new = [p \in DOMAIN new |-> new[p]]
  BY DEF NewFile
<1>3. right = [p \in all |-> right[p]]
  BY <1>1, TreeFacts
<1> HIDE DEF new, right
<1>4. DOMAIN new = all
  <2>1. ASSUME NEW p \in all  PROVE p \in DOMAIN new
    <3>1. CASE p <= NodesCount
      BY <1>1, <3>1, Sizes
    <3>2. CASE ~(p <= NodesCount)
      <4>1. p - NodesCount \in 1 .. NodesCount - 1 /\ NodesCount + (p - NodesCount) = p
        BY <3>2, Sizes
      <4> QED  BY <1>1, <4>1
    <3> QED  BY <3>1, <3>2
  <2> QED  BY <1>1, <2>1
<1>5. new = right
  BY <1>1, <1>2, <1>3, <1>4
<1> QED  BY <1>1, <1>5 DEF new, right

\* A call, or its next phase, begins.
LEMMA FreshOK ==
  ASSUME NEW v, v = [f \in Fields |-> v[f]],
         v.request \in [op : {"seal", "update", "fake"}, gpu : BOOLEAN], v.phase \in 1 .. Len(PhasesOf(v)),
         v.main = "start", v.reader = "none", v.builder = "none", v.tree = 0, v.node = 0,
         v.added = <<>>, v.built = 0, v.written = 0, v.encoded = [l \in Leaves |-> 0],
         FilesOK(v)
  PROVE  CallOK(v)
<1>1. RecordOK(v)
  BY DEF RecordOK
<1>2. ReaderOK(v)
  BY Sizes DEF ReaderOK
<1>3. BuilderOK(v)
  <2>1. v.tree * NodesCount = 0 /\ Sent(v) = 0
    BY Sizes DEF Sent
  <2>2. v.added = Run(v.tree * NodesCount, Sent(v))
    <3>1. \A a, n \in Nat : n = 0 => Run(a, n) = <<>>
      BY RunFacts
    <3> QED  BY <2>1, <3>1
  <2> QED  BY <2>2, Sizes DEF BuilderOK
<1>4. MainOK(v)
  BY Sizes DEF MainOK
<1>5. PiecesOK(v)
  BY DEF PiecesOK
<1>6. EncodedOK(v)
  <2>1. EncodedUpTo(v) = 0
    BY Sizes DEF EncodedUpTo
  <2>2. Leaves \subseteq Nat
    BY DEF Leaves
  <2> QED  BY <2>1, <2>2 DEF EncodedOK
<1> QED  BY <1>1, <1>2, <1>3, <1>4, <1>5, <1>6 DEF CallOK

\* A new call satisfies its invariant.
LEMMA BeginStep ==
  ASSUME NEW request \in Operations
  PROVE  CallOK(NewCall(request)) /\ NewCall(request) # NoCall
<1> DEFINE v == NewCall(request)
<1>1. /\ v = [f \in Fields |-> v[f]]
      /\ v.request = request /\ v.phase = 1 /\ v.main = "start" /\ v.reader = "none" /\ v.builder = "none"
      /\ v.tree = 0 /\ v.node = 0 /\ v.added = <<>> /\ v.built = 0 /\ v.written = 0
      /\ v.encoded = [l \in Leaves |-> 0]
  BY DEF NewCall, Fields
<1>2. v.request \in [op : {"seal", "update", "fake"}, gpu : BOOLEAN]
  BY <1>1, PipelineAssumption
<1> HIDE DEF v
<1>3. v.phase \in 1 .. Len(PhasesOf(v))
  <2>1. CASE v.request.op = "seal"
    BY <1>1, <2>1 DEF PhasesOf
  <2>2. CASE v.request.op = "update"
    BY <1>1, <2>2 DEF PhasesOf
  <2>3. CASE v.request.op = "fake"
    BY <1>1, <2>3 DEF PhasesOf
  <2> QED  BY <1>2, <2>1, <2>2, <2>3
<1>4. FilesOK(v)
  BY <1>1, <1>3 DEF FilesOK
<1>5. CallOK(v)
  BY <1>1, <1>2, <1>3, <1>4, FreshOK
<1>6. v # NoCall
  BY <1>1 DEF NoCall
<1> QED  BY <1>5, <1>6 DEF v

\* The last phase is over.
LEMMA DoneStep ==
  ASSUME NEW w, NEW v, CallOK(w), w.main = "join", w.reader # "panic", w.builder # "panic",
         w.phase = Len(PhasesOf(w)), Keeps(w, v, Fields \ {"main"}), v.main = "done"
  PROVE  CallOK(v)
<1>1. /\ v.request = w.request /\ v.phase = w.phase /\ v.reader = w.reader /\ v.builder = w.builder
      /\ v.tree = w.tree /\ v.node = w.node /\ v.batch = w.batch /\ v.added = w.added
      /\ v.built = w.built /\ v.ready = w.ready /\ v.held = w.held /\ v.written = w.written
      /\ v.encoded = w.encoded /\ v.files = w.files /\ v.pieces = w.pieces
      /\ v = [f \in Fields |-> v[f]]
  BY DEF Keeps, Fields
<1>2. RecordOK(w) /\ ReaderOK(w) /\ BuilderOK(w) /\ MainOK(w) /\ FilesOK(w) /\ PiecesOK(w) /\ EncodedOK(w)
  BY DEF CallOK
<1>3. OnGpu(v) = OnGpu(w) /\ PhaseOf(v) = PhaseOf(w) /\ PhasesOf(v) = PhasesOf(w)
  BY <1>1, PhaseFrame
<1>4. OnGpu(w) => w.tree = TreeCount /\ w.node = 0
  <2> SUFFICES ASSUME OnGpu(w)  PROVE w.tree = TreeCount /\ w.node = 0
    OBVIOUS
  <2>1. w.built = TreeCount
    BY <1>2 DEF MainOK, OnGpu
  <2>2. w.tree \in 0 .. TreeCount /\ TreeCount \in Nat \ {0}
    BY <1>2, Sizes DEF ReaderOK
  <2>3. w.builder = "done"
    <3>1. w.builder \in {"none", "queued", "lock", "recv", "send", "done"}
      BY <1>2 DEF RecordOK
    <3> QED  BY <1>2, <2>1, <2>2, <3>1 DEF BuilderOK
  <2>4. w.tree = TreeCount
    BY <1>2, <2>3 DEF BuilderOK
  <2>5. w.reader \in {"none", "queued", "prepare", "send", "done"}
    BY <1>2 DEF RecordOK
  <2> QED  BY <1>2, <2>2, <2>4, <2>5 DEF ReaderOK
<1>5. RecordOK(v)
  BY <1>1, <1>2, RecordFrame DEF RecordOK
<1>6. ReaderOK(v) /\ BuilderOK(v)
  BY <1>1, <1>2, ReaderFrame, BuilderFrame
<1>7. MainOK(v)
  BY <1>1, <1>2, <1>3, <1>4 DEF MainOK
<1>8. FilesOK(v) /\ PiecesOK(v)
  BY <1>1, <1>2, FilesFrame, PiecesFrame
<1>9. EncodedOK(v)
  <2>1. EncodedUpTo(v) = EncodedUpTo(w)
    BY <1>1, <1>3 DEF EncodedUpTo
  <2> QED  BY <1>1, <1>2, <2>1, EncodedFrame
<1> QED  BY <1>5, <1>6, <1>7, <1>8, <1>9 DEF CallOK

\* A phase is over and the next one begins: tree C is complete, no node is encoded yet.
NextCall(w) ==
  [NewCall(w.request) EXCEPT !.phase = w.phase + 1, !.files = w.files, !.encoded = w.encoded]

\* The base trees of tree C can be opened.
AllOpen(w) ==
  PhaseOf(w) = "tree_c" =>
    \A i \in 0 .. TreeCount - 1 : DOMAIN w.files[<<"tree_c", i>>] = 1 .. (2 * NodesCount - 1)

\* The record with which the next phase starts satisfies the call's invariant.
LEMMA PhaseStep ==
  ASSUME NEW w, CallOK(w), w.main = "join", w.phase # Len(PhasesOf(w)), AllOpen(w)
  PROVE  CallOK(NextCall(w)) /\ NextCall(w).main = "start"
<1> DEFINE v == NextCall(w)
<1>1. /\ v = [f \in Fields |-> v[f]]
      /\ v.request = w.request /\ v.phase = w.phase + 1 /\ v.main = "start"
      /\ v.reader = "none" /\ v.builder = "none"
      /\ v.tree = 0 /\ v.node = 0 /\ v.added = <<>> /\ v.built = 0 /\ v.written = 0
      /\ v.files = w.files /\ v.encoded = w.encoded
  BY DEF NextCall, NewCall, Fields
<1> HIDE DEF v
<1>2. RecordOK(w) /\ MainOK(w) /\ FilesOK(w) /\ EncodedOK(w)
  BY DEF CallOK
<1>3. /\ w.request.op = "seal" /\ w.phase = 1 /\ PhaseOf(w) = "tree_c"
      /\ PhasesOf(w) = <<"tree_c", "tree_r">>
  <2>1. /\ Len(PhasesOf(w)) = IF w.request.op = "seal" THEN 2 ELSE 1
        /\ w.request.op \in {"seal", "update", "fake"}
        /\ w.request.op \in {"update", "fake"} => w.phase = 1
    BY <1>2, PhaseFacts
  <2>2. w.request.op = "seal"
    BY <2>1
  <2>3. /\ PhasesOf(w) = <<"tree_c", "tree_r">> /\ w.phase \in {1, 2}
        /\ PhaseOf(w) = IF w.phase = 1 THEN "tree_c" ELSE "tree_r"
    BY <1>2, <2>2, PhaseFacts
  <2> QED  BY <2>1, <2>2, <2>3
<1>4. PhasesOf(v) = PhasesOf(w)
  BY <1>1 DEF PhasesOf
<1>5. v.phase \in 1 .. Len(PhasesOf(v))
  <2>1. Len(PhasesOf(w)) = 2
    BY <1>2, <1>3, PhaseFacts
  <2>2. v.phase = 2
    BY <1>1, <1>3
  <2> QED  BY <1>4, <2>1, <2>2
<1>6. v.request \in [op : {"seal", "update", "fake"}, gpu : BOOLEAN]
  BY <1>1, <1>2 DEF RecordOK
<1>7. v.encoded = [l \in Leaves |-> 0]
  <2>1. EncodedUpTo(w) = 0
    BY <1>3 DEF EncodedUpTo
  <2>2. Leaves \subseteq Nat
    BY DEF Leaves
  <2>3. w.encoded \in [Leaves -> Nat] /\ \A l \in Leaves : w.encoded[l] = 0
    BY <1>2, <2>1, <2>2 DEF EncodedOK
  <2> QED  BY <1>1, <2>3
<1>8. FilesOK(v)
  <2>1. w.written = TreeCount
    BY <1>2, <1>3 DEF MainOK
  <2> SUFFICES ASSUME NEW k \in 1 .. Len(PhasesOf(w)), NEW i \in 0 .. TreeCount - 1,
                      PhasesOf(w)[k] # "fake", k < v.phase \/ (k = v.phase /\ i < v.written)
               PROVE  /\ <<PhasesOf(w)[k], i>> \in DOMAIN w.files
                      /\ \/ w.files[<<PhasesOf(w)[k], i>>] = RightFile(PhasesOf(w)[k], i)
                         \/ /\ w.files[<<PhasesOf(w)[k], i>>] \in Missed(w, PhasesOf(w)[k])
                            /\ k < v.phase => w.files[<<PhasesOf(w)[k], i>>] # NoStore
    <3>1. \A phase : Missed(v, phase) = Missed(w, phase)
      BY <1>1 DEF Missed
    <3> QED  BY <1>1, <1>4, <3>1 DEF FilesOK
  <2>2. k = w.phase /\ i < w.written /\ PhasesOf(w)[k] = "tree_c"
    BY <1>1, <1>3, <2>1, Sizes
  <2>3. w.files[<<"tree_c", i>>] # NoStore
    <3>1. DOMAIN w.files[<<"tree_c", i>>] = 1 .. (2 * NodesCount - 1) /\ i \in Nat
      BY <1>3, Sizes DEF AllOpen
    <3> QED  BY <3>1, RightIsBuilt
  <2> QED  BY <1>2, <2>2, <2>3 DEF FilesOK
<1>9. CallOK(v)
  BY <1>1, <1>5, <1>6, <1>7, <1>8, FreshOK
<1> QED  BY <1>1, <1>9 DEF v

-----------------------------------------------------------------------------
(***************************************************************************)
(* The steps of the system                                                 *)
(***************************************************************************)
\* A call is one that has begun exactly when its record has all fields.
LEMMA CallIsNew ==
  ASSUME NEW w, CallOK(w)
  PROVE  w # NoCall /\ w.main # "none"
  BY DEF CallOK, RecordOK, NoCall

\* A call that runs has a record that is as it should be.
LEMMA RunningCall ==
  ASSUME TreeInv, NEW c \in Calls, Running(c)
  PROVE  CallOK(work[c]) /\ work[c].main \notin {"done", "failed"}
  BY DEF TreeInv, CallsInv, Running, NoCall

\* A step of call c alone: the others' records and jobs stay.
OthersStay(c) ==
  /\ work' = [d \in Calls |-> work'[d]]
  /\ \A d \in Calls \ {c} : work'[d] = work[d] /\ JobsOf(d)' = JobsOf(d)

\* When call c fails there is a cause.
Cause(c) ==
  /\ faults' \in Nat /\ faults' >= faults
  /\ poisoned' => poisoned \/ faults' > 0
  /\ (\/ "panic" \in {work'[c].main, work'[c].reader, work'[c].builder}
      \/ work'[c].main = "failed"
      \/ Unbuilt(work'[c]))
        => faults' > 0

\* A step of one call keeps the invariant when it keeps the call's own part and the pool's.
LEMMA CallStep ==
  ASSUME TreeInv, NEW c \in Calls, OthersStay(c), CallOK(work'[c]), PoolInv', HashOK(c)', Cause(c)
  PROVE  TreeInv'
<1>1. CallsInv'
  <2>1. work' = [d \in Calls |-> work'[d]]
    BY DEF OthersStay
  <2>2. ASSUME NEW d \in Calls, work'[d] # NoCall  PROVE CallOK(work'[d])
    <3>1. CASE d = c
      BY <3>1
    <3>2. CASE d # c
      BY <2>2, <3>2 DEF OthersStay, TreeInv, CallsInv
    <3> QED  BY <3>1, <3>2
  <2> QED  BY <2>1, <2>2 DEF CallsInv
<1>2. HashInv'
  <2> SUFFICES ASSUME NEW d \in Calls, d # c  PROVE HashOK(d)'
    BY DEF HashInv
  <2>1. work'[d] = work[d] /\ JobsOf(d)' = JobsOf(d) /\ HashOK(d)
    BY DEF OthersStay, TreeInv, HashInv
  <2> QED  BY <2>1 DEF HashOK
<1>3. CauseInv'
  <2>1. faults \in Nat /\ (poisoned => faults > 0)
    BY DEF TreeInv, CauseInv
  <2>2. ASSUME NEW d \in Calls, work'[d] # NoCall,
               \/ "panic" \in {work'[d].main, work'[d].reader, work'[d].builder} \/ work'[d].main = "failed"
               \/ Unbuilt(work'[d])
        PROVE  faults' > 0
    <3>1. CASE d = c
      BY <2>2, <3>1 DEF Cause
    <3>2. CASE d # c
      <4>1. faults > 0
        BY <2>2, <3>2 DEF OthersStay, TreeInv, CauseInv
      <4> QED  BY <2>1, <4>1 DEF Cause
    <3> QED  BY <3>1, <3>2
  <2>3. faults' \in Nat /\ (poisoned' => faults' > 0)
    BY <2>1 DEF Cause
  <2> QED  BY <2>2, <2>3 DEF CauseInv
<1> QED  BY <1>1, <1>2, <1>3 DEF TreeInv

\* A step of call c that submits no job and takes none.
Quiet(c) ==
  /\ queue' = queue /\ busy' \subseteq busy /\ \A j \in busy : j.call # c => j \in busy'
  /\ JobsOf(c)' # {} =>
       /\ work'[c].main \notin {"done", "failed"}
       /\ work[c].main \in {"hash", "panic"} => work'[c].main \in {"hash", "panic"}
       /\ work[c].reader = "queued" => work'[c].reader = "queued"
       /\ work[c].builder = "queued" => work'[c].builder = "queued"

\* A step that submits no job and frees only workers of its own call keeps the pool's invariant.
LEMMA PoolStep ==
  ASSUME TreeInv, NEW c \in Calls, Quiet(c), work' = [d \in Calls |-> work'[d]],
         \A d \in Calls \ {c} : work'[d] = work[d], work'[c] # NoCall
  PROVE  PoolInv' /\ OthersStay(c)
<1>0. PoolInv
  BY DEF TreeInv
<1>1. queue' \in Seq(Jobs) /\ busy' \subseteq Jobs /\ Range(queue)' = Range(queue)
  BY <1>0 DEF PoolInv, Quiet
<1>2. \A x, y \in DOMAIN queue' :
        queue'[x].role # "chunk" /\ queue'[x].call = queue'[y].call /\ queue'[x].role = queue'[y].role
          => x = y
  BY <1>0 DEF PoolInv, Quiet
<1>3. ASSUME NEW j \in Range(queue)' \cup busy'
      PROVE  /\ work'[j.call] # NoCall /\ work'[j.call].main \notin {"done", "failed"}
             /\ j.role = "chunk" => work'[j.call].main \in {"hash", "panic"}
             /\ j \in Range(queue)' =>
                  /\ j.role = "reader" => work'[j.call].reader = "queued"
                  /\ j.role = "builder" => work'[j.call].builder = "queued"
  <2>1. j \in Range(queue) \cup busy /\ (j \in Range(queue)' => j \in Range(queue))
    BY <1>1 DEF Quiet
  <2>2. /\ work[j.call] # NoCall /\ work[j.call].main \notin {"done", "failed"}
        /\ j.role = "chunk" => work[j.call].main \in {"hash", "panic"}
        /\ j \in Range(queue) =>
             /\ j.role = "reader" => work[j.call].reader = "queued"
             /\ j.role = "builder" => work[j.call].builder = "queued"
    BY <1>0, <2>1 DEF PoolInv
  <2>3. j.call \in Calls
    <3>1. Range(queue) \subseteq Jobs
      BY <1>0 DEF PoolInv, Range
    <3> QED  BY <1>0, <2>1, <3>1 DEF PoolInv, Jobs
  <2>4. CASE j.call = c
    <3>1. JobsOf(c)' # {}
      BY <2>4 DEF JobsOf
    <3> QED  BY <2>1, <2>2, <2>4, <3>1 DEF Quiet
  <2>5. CASE j.call # c
    BY <2>1, <2>2, <2>3, <2>5
  <2> QED  BY <2>4, <2>5
<1>4. PoolInv'
  BY <1>1, <1>2, <1>3 DEF PoolInv
<1>5. ASSUME NEW d \in Calls \ {c}  PROVE JobsOf(d)' = JobsOf(d)
  BY <1>1 DEF JobsOf, Quiet
<1> QED  BY <1>4, <1>5 DEF OthersStay

Shape(c) == work' = [d \in Calls |-> work'[d]] /\ \A d \in Calls \ {c} : work'[d] = work[d]

\* CallStep for the steps that submit no job.
LEMMA QuietStep ==
  ASSUME TreeInv, NEW c \in Calls, Quiet(c), Shape(c), CallOK(work'[c]), HashOK(c)', Cause(c)
  PROVE  TreeInv'
<1>1. work'[c] # NoCall
  BY CallIsNew
<1>2. PoolInv' /\ OthersStay(c)
  BY <1>1, PoolStep DEF Shape
<1> QED  BY <1>2, CallStep

\* The model's names for what a record holds.
LEMMA Names ==
  ASSUME NEW c
  PROVE  /\ Phases(c) = PhasesOf(work[c]) /\ Phase(c) = PhaseOf(work[c])
         /\ UseGpu(c) = work[c].request.gpu /\ Seals(c) = (work[c].request.op = "seal")
         /\ \A content : Written(c, content) = Stored(work[c], content)
<1>1. Phases(c) = PhasesOf(work[c])
  BY DEF Phases, PhasesOf
<1>2. Phase(c) = PhaseOf(work[c])
  BY <1>1 DEF Phase, PhaseOf
<1>3. \A content : Written(c, content) = Stored(work[c], content)
  BY <1>2 DEF Written, Stored, File
<1> QED  BY <1>1, <1>2, <1>3 DEF UseGpu, Seals

\* A step in which nothing fails has no new cause to name.
LEMMA NothingFails ==
  ASSUME TreeInv, NEW c \in Calls, CallOK(work[c]), faults' = faults, poisoned' = poisoned,
         work'[c].main \in {"panic", "failed"} => work'[c].main = work[c].main,
         work'[c].reader = "panic" => work'[c].reader = work[c].reader,
         work'[c].builder = "panic" => work'[c].builder = work[c].builder,
         Unbuilt(work'[c]) => Unbuilt(work[c])
  PROVE  Cause(c)
<1>1. work[c] # NoCall
  BY CallIsNew
<1> QED  BY <1>1 DEF TreeInv, CauseInv, Cause

\* Begin keeps the invariant.
LEMMA BeginInv ==
  ASSUME TreeInv, NEW c \in Calls, Begin(c)
  PROVE  TreeInv'
<1>1. PICK request \in Operations : work[c] = NoCall /\ work' = [work EXCEPT ![c] = NewCall(request)]
  BY DEF Begin
<1>2. UNCHANGED <<queue, busy, gpu, poisoned, faults>>
  BY DEF Begin
<1>3. Shape(c) /\ work'[c] = NewCall(request)
  BY <1>1 DEF TreeInv, CallsInv, Shape
<1>4. CallOK(work'[c])
  BY <1>3, BeginStep
<1>5. /\ work'[c].main = "start" /\ work'[c].reader = "none" /\ work'[c].builder = "none"
      /\ ~Unbuilt(work'[c])
  <2>1. work'[c].files = <<>> /\ DOMAIN work'[c].files = {}
    BY <1>3 DEF NewCall
  <2>2. ~Unbuilt(work'[c])
    BY <2>1 DEF Unbuilt
  <2> QED  BY <1>3, <2>2 DEF NewCall
<1>6. JobsOf(c) = {} /\ JobsOf(c)' = JobsOf(c)
  BY <1>1, <1>2 DEF JobsOf, TreeInv, PoolInv
<1>7. Quiet(c)
  BY <1>2, <1>6 DEF Quiet
<1>8. Cause(c) /\ HashOK(c)'
  BY <1>2, <1>5 DEF Cause, HashOK, TreeInv, CauseInv
<1> QED  BY <1>3, <1>4, <1>7, <1>8, QuietStep

\* Prepare keeps the invariant: the batch is the next run of leaves.
LEMMA PrepareInv ==
  ASSUME TreeInv, NEW c \in Calls, Running(c), Prepare(c)
  PROVE  TreeInv'
<1>1. PICK w : w = work[c]
  OBVIOUS
<1>2. PICK v : v = work'[c]
  OBVIOUS
<1>3. CallOK(w) /\ w.reader = "prepare"
  BY <1>1, RunningCall DEF Prepare
<1> DEFINE count == Min({NodesCount - work[c].node, BatchSize(c)})
<1>4. count \in 1 .. (NodesCount - w.node)
  <2>1. w.node \in Nat /\ w.node < NodesCount
    BY <1>3, Sizes DEF CallOK, ReaderOK
  <2>2. BatchSize(c) \in Nat \ {0}
    BY Sizes DEF BatchSize
  <2> QED  BY <1>1, <2>1, <2>2, MinPair, Sizes
<1>5. /\ work' = [work EXCEPT ![c].batch = [k \in 1..count |-> BatchStart(c) + k - 1], ![c].node = @ + count,
                             ![c].reader = "send",
                             ![c].encoded = EncodeBatch(c, [k \in 1..count |-> BatchStart(c) + k - 1])]
      /\ UNCHANGED <<queue, busy, gpu, poisoned, faults>>
  BY DEF Prepare
<1> HIDE DEF count
<1>6. /\ Shape(c) /\ Keeps(w, v, Fields \ {"batch", "node", "reader", "encoded"})
      /\ v.batch = [k \in 1..count |-> BatchStart(c) + k - 1] /\ v.node = w.node + count /\ v.reader = "send"
      /\ v.encoded = EncodeBatch(c, v.batch)
  BY <1>1, <1>2, <1>3, <1>5 DEF TreeInv, CallsInv, Shape, Keeps, CallOK, RecordOK, Fields
<1>7. v.batch = Run(w.tree * NodesCount + w.node, count)
  BY <1>1, <1>6 DEF Run, BatchStart
<1>8. v.encoded = Encode(w, w.tree * NodesCount + w.node, count)
  BY <1>1, <1>6, <1>7, Names DEF Encode, EncodeBatch
<1>9. CallOK(v)
  BY <1>3, <1>4, <1>6, <1>7, <1>8, PrepareStep
<1>10. v.main = w.main /\ v.builder = w.builder
  BY <1>6 DEF Keeps, Fields
<1>11. w.main # "hash"
  BY <1>3 DEF CallOK, ReaderOK, MainOK, OnGpu
<1>12. Quiet(c)
  BY <1>1, <1>2, <1>3, <1>5, <1>10, RunningCall DEF Quiet
<1>13. Cause(c)
  <2>0. Unbuilt(v) => Unbuilt(w)
    BY <1>6 DEF Keeps, Fields, Unbuilt
  <2> QED  BY <2>0, <1>1, <1>2, <1>3, <1>5, <1>6, <1>10, NothingFails
<1>14. HashOK(c)'
  BY <1>2, <1>10, <1>11 DEF HashOK
<1> QED  BY <1>2, <1>6, <1>9, <1>12, <1>13, <1>14, QuietStep

\* LockGpu keeps the invariant.
LEMMA LockGpuInv ==
  ASSUME TreeInv, NEW c \in Calls, Running(c), LockGpu(c)
  PROVE  TreeInv'
<1>1. PICK w : w = work[c]
  OBVIOUS
<1>2. PICK v : v = work'[c]
  OBVIOUS
<1>3. CallOK(w) /\ w.builder = "lock"
  BY <1>1, RunningCall DEF LockGpu
<1>4. /\ work' = [work EXCEPT ![c].builder = "recv"]
      /\ UNCHANGED <<queue, busy, poisoned, faults>>
  BY DEF LockGpu
<1>5. Shape(c) /\ Keeps(w, v, Fields \ {"builder"}) /\ v.builder = "recv"
  BY <1>1, <1>2, <1>3, <1>4 DEF TreeInv, CallsInv, Shape, Keeps, CallOK, RecordOK, Fields
<1>6. v.main = w.main /\ v.reader = w.reader /\ v.held = w.held
  BY <1>5 DEF Keeps, Fields
<1>7. Control(w, v)
  BY <1>3, <1>5, <1>6 DEF Control, Keeps
<1>8. CallOK(v)
  BY <1>3, <1>7, ControlStep
<1>9. w.main # "hash"
  BY <1>3 DEF CallOK, BuilderOK, MainOK, OnGpu
<1>10. Quiet(c)
  BY <1>1, <1>2, <1>3, <1>4, <1>6, RunningCall DEF Quiet
<1>11. Cause(c)
  <2>0. Unbuilt(v) => Unbuilt(w)
    BY <1>5 DEF Keeps, Fields, Unbuilt
  <2> QED  BY <2>0, <1>1, <1>2, <1>3, <1>4, <1>5, <1>6, NothingFails
<1>12. HashOK(c)'
  BY <1>2, <1>6, <1>9 DEF HashOK
<1> QED  BY <1>2, <1>5, <1>8, <1>10, <1>11, <1>12, QuietStep

\* SendBatch keeps the invariant: the builder has the leaves up to the reader's place.
LEMMA SendBatchInv ==
  ASSUME TreeInv, NEW c \in Calls, Running(c), SendBatch(c)
  PROVE  TreeInv'
<1>1. PICK w : w = work[c]
  OBVIOUS
<1>2. PICK v : v = work'[c]
  OBVIOUS
<1>3. CallOK(w) /\ w.reader = "send" /\ w.builder = "recv"
  BY <1>1, RunningCall DEF SendBatch
<1>f. PICK final \in BOOLEAN : final <=> w.node = NodesCount
  OBVIOUS
<1> DEFINE all     == w.added \o w.batch
           reader  == IF final /\ w.tree + 1 = TreeCount THEN "done" ELSE "prepare"
           tree    == IF final THEN w.tree + 1 ELSE w.tree
           node    == IF final THEN 0 ELSE w.node
           added   == IF final THEN <<>> ELSE all
           ready   == IF final THEN all ELSE w.ready
           builder == IF final THEN "send" ELSE "recv"
<1>4. /\ work' = [work EXCEPT ![c].reader = reader, ![c].tree = tree, ![c].node = node, ![c].batch = <<>>,
                             ![c].added = added, ![c].ready = ready, ![c].builder = builder]
      /\ UNCHANGED <<queue, poisoned, faults>>
  BY <1>1, <1>f DEF SendBatch
<1>b. busy' \subseteq busy /\ \A j \in busy : j.call # c => j \in busy'
  BY DEF SendBatch, EndJob
<1>5. /\ Shape(c)
      /\ Keeps(w, v, Fields \ {"reader", "tree", "node", "batch", "added", "ready", "builder"})
      /\ v.reader = reader /\ v.tree = tree /\ v.node = node /\ v.batch = <<>>
      /\ v.added = added /\ v.ready = ready /\ v.builder = builder
  <2> HIDE DEF reader, tree, node, added, ready, builder
  <2> QED  BY <1>1, <1>2, <1>3, <1>4 DEF TreeInv, CallsInv, Shape, Keeps, CallOK, RecordOK, Fields
<1>6. v.main = w.main
  BY <1>5 DEF Keeps, Fields
<1>8. CallOK(v)
  BY <1>3, <1>5, <1>f, SendBatchStep
<1>9. w.main # "hash"
  BY <1>3 DEF CallOK, ReaderOK, MainOK, OnGpu
<1>10. Quiet(c)
  BY <1>1, <1>2, <1>3, <1>4, <1>6, <1>b, RunningCall DEF Quiet
<1>11. Cause(c)
  <2>1. v.reader # "panic" /\ v.builder # "panic" /\ faults' = faults /\ poisoned' = poisoned
    BY <1>4, <1>5
  <2>0. Unbuilt(v) => Unbuilt(w)
    BY <1>5 DEF Keeps, Fields, Unbuilt
  <2> QED  BY <2>0, <1>1, <1>2, <1>3, <1>6, <2>1, NothingFails
<1>12. HashOK(c)'
  BY <1>2, <1>6, <1>9 DEF HashOK
<1> QED  BY <1>2, <1>5, <1>8, <1>10, <1>11, <1>12, QuietStep

\* SendTree keeps the invariant: the calling thread holds the tree of the next file.
LEMMA SendTreeInv ==
  ASSUME TreeInv, NEW c \in Calls, Running(c), SendTree(c)
  PROVE  TreeInv'
<1>1. PICK w : w = work[c]
  OBVIOUS
<1>2. PICK v : v = work'[c]
  OBVIOUS
<1>3. CallOK(w) /\ w.builder = "send" /\ w.main = "recv"
  BY <1>1, RunningCall DEF SendTree
<1>4. /\ work' = [work EXCEPT ![c].builder = IF w.built + 1 = TreeCount THEN "done" ELSE "recv",
                             ![c].built = @ + 1, ![c].ready = <<>>, ![c].held = w.ready,
                             ![c].main = IF Len(w.ready) = NodesCount THEN "create" ELSE "panic"]
      /\ UNCHANGED <<queue, poisoned, faults>>
  BY <1>1 DEF SendTree
<1>b. busy' \subseteq busy /\ \A j \in busy : j.call # c => j \in busy'
  BY DEF SendTree, EndJob
<1>5. /\ Shape(c) /\ Keeps(w, v, Fields \ {"builder", "built", "ready", "held", "main"})
      /\ v.builder = (IF w.built + 1 = TreeCount THEN "done" ELSE "recv") /\ v.built = w.built + 1
      /\ v.held = w.ready /\ v.main = (IF Len(w.ready) = NodesCount THEN "create" ELSE "panic")
  BY <1>1, <1>2, <1>3, <1>4 DEF TreeInv, CallsInv, Shape, Keeps, CallOK, RecordOK, Fields
<1>6. v.reader = w.reader
  BY <1>5 DEF Keeps, Fields
<1>8. CallOK(v) /\ v.main = "create"
  BY <1>3, <1>5, SendTreeStep
<1>10. Quiet(c)
  BY <1>1, <1>2, <1>3, <1>4, <1>6, <1>8, <1>b DEF Quiet
<1>11. Cause(c)
  <2>1. v.builder # "panic" /\ faults' = faults /\ poisoned' = poisoned
    BY <1>4, <1>5
  <2>0. Unbuilt(v) => Unbuilt(w)
    BY <1>5 DEF Keeps, Fields, Unbuilt
  <2> QED  BY <2>0, <1>1, <1>2, <1>3, <1>6, <1>8, <2>1, NothingFails
<1>12. HashOK(c)'
  BY <1>2, <1>8 DEF HashOK
<1> QED  BY <1>2, <1>5, <1>8, <1>10, <1>11, <1>12, QuietStep

\* A panic of the reader, of the builder or of the calling thread, with a cause.
LEMMA ReaderPanicsInv ==
  ASSUME TreeInv, NEW c \in Calls, Running(c), work[c].reader \in {"prepare", "send"}, ReaderPanics(c),
         faults' \in Nat, faults' >= faults, faults' > 0
  PROVE  TreeInv'
<1>1. PICK w : w = work[c]
  OBVIOUS
<1>2. PICK v : v = work'[c]
  OBVIOUS
<1>3. CallOK(w) /\ w.reader \in {"prepare", "send"} /\ w.main \notin {"done", "failed"}
  BY <1>1, RunningCall
<1>4. /\ work' = [work EXCEPT ![c].reader = "panic"]
      /\ UNCHANGED <<queue, poisoned>> /\ busy' \subseteq busy /\ \A j \in busy : j.call # c => j \in busy'
  BY DEF ReaderPanics, EndJob
<1>5. Shape(c) /\ Keeps(w, v, Fields \ {"reader"}) /\ v.reader = "panic"
  BY <1>1, <1>2, <1>3, <1>4 DEF TreeInv, CallsInv, Shape, Keeps, CallOK, RecordOK, Fields
<1>6. v.main = w.main /\ v.builder = w.builder /\ v.held = w.held
  BY <1>5 DEF Keeps, Fields
<1>7. Control(w, v)
  BY <1>3, <1>5, <1>6 DEF Control, Keeps
<1>8. CallOK(v)
  BY <1>3, <1>7, ControlStep
<1>9. w.main # "hash"
  BY <1>3 DEF CallOK, ReaderOK, MainOK, OnGpu
<1>10. Quiet(c)
  BY <1>1, <1>2, <1>3, <1>4, <1>6 DEF Quiet
<1>11. Cause(c)
  BY <1>4 DEF Cause
<1>12. HashOK(c)'
  BY <1>2, <1>6, <1>9 DEF HashOK
<1> QED  BY <1>2, <1>5, <1>8, <1>10, <1>11, <1>12, QuietStep

\* A panic of the builder keeps the invariant, a failure being its cause.
LEMMA BuilderPanicsInv ==
  ASSUME TreeInv, NEW c \in Calls, Running(c), work[c].builder \in {"lock", "recv", "send"}, BuilderPanics(c),
         faults' \in Nat, faults' >= faults, faults' > 0
  PROVE  TreeInv'
<1>1. PICK w : w = work[c]
  OBVIOUS
<1>2. PICK v : v = work'[c]
  OBVIOUS
<1>3. CallOK(w) /\ w.builder \in {"lock", "recv", "send"} /\ w.main \notin {"done", "failed"}
  BY <1>1, RunningCall
<1>4. /\ work' = [work EXCEPT ![c].builder = "panic"]
      /\ queue' = queue /\ busy' \subseteq busy /\ \A j \in busy : j.call # c => j \in busy'
  BY DEF BuilderPanics, EndJob
<1>5. Shape(c) /\ Keeps(w, v, Fields \ {"builder"}) /\ v.builder = "panic"
  BY <1>1, <1>2, <1>3, <1>4 DEF TreeInv, CallsInv, Shape, Keeps, CallOK, RecordOK, Fields
<1>6. v.main = w.main /\ v.reader = w.reader /\ v.held = w.held
  BY <1>5 DEF Keeps, Fields
<1>7. Control(w, v)
  BY <1>3, <1>5, <1>6 DEF Control, Keeps
<1>8. CallOK(v)
  BY <1>3, <1>7, ControlStep
<1>9. w.main # "hash"
  BY <1>3 DEF CallOK, BuilderOK, MainOK, OnGpu
<1>10. Quiet(c)
  BY <1>1, <1>2, <1>3, <1>4, <1>6 DEF Quiet
<1>11. Cause(c)
  BY DEF Cause
<1>12. HashOK(c)'
  BY <1>2, <1>6, <1>9 DEF HashOK
<1> QED  BY <1>2, <1>5, <1>8, <1>10, <1>11, <1>12, QuietStep

\* A panic of the calling thread keeps the invariant, a failure being its cause.
LEMMA MainPanicsInv ==
  ASSUME TreeInv, NEW c \in Calls, Running(c), work' = [work EXCEPT ![c].main = "panic"],
         queue' = queue, busy' \subseteq busy, \A j \in busy : j.call # c => j \in busy',
         faults' \in Nat, faults' >= faults, faults' > 0
  PROVE  TreeInv'
<1>1. PICK w : w = work[c]
  OBVIOUS
<1>2. PICK v : v = work'[c]
  OBVIOUS
<1>3. CallOK(w) /\ w.main \notin {"done", "failed"}
  BY <1>1, RunningCall
<1>5. Shape(c) /\ Keeps(w, v, Fields \ {"main"}) /\ v.main = "panic"
  BY <1>1, <1>2, <1>3 DEF TreeInv, CallsInv, Shape, Keeps, CallOK, RecordOK, Fields
<1>6. v.reader = w.reader /\ v.builder = w.builder /\ v.held = w.held
  BY <1>5 DEF Keeps, Fields
<1>7. Control(w, v)
  BY <1>3, <1>5, <1>6 DEF Control, Keeps
<1>8. CallOK(v)
  BY <1>3, <1>7, ControlStep
<1>10. Quiet(c)
  BY <1>1, <1>2, <1>3, <1>5, <1>6 DEF Quiet
<1>11. Cause(c)
  BY DEF Cause
<1>12. HashOK(c)'
  BY <1>2, <1>5 DEF HashOK
<1> QED  BY <1>2, <1>5, <1>8, <1>10, <1>11, <1>12, QuietStep

\* A thread that waits for one that has ended before its time panics too: that one has
\* panicked, since an end in good order leaves nobody waiting.
LEMMA GoneInv ==
  ASSUME TreeInv, NEW c \in Calls, Running(c), BuilderGone(c) \/ ReaderGone(c) \/ TreesGone(c)
  PROVE  TreeInv'
<1>1. /\ faults \in Nat /\ (poisoned => faults > 0)
      /\ "panic" \in {work[c].main, work[c].reader, work[c].builder} => faults > 0
  BY RunningCall, CallIsNew DEF TreeInv, CauseInv
<1>2. PICK w : w = work[c]
  OBVIOUS
<1>3. /\ w.reader = "send" => w.tree < TreeCount
      /\ w.builder = "recv" => w.tree < TreeCount
      /\ w.main = "recv" => w.built < TreeCount
      /\ w.reader = "done" => w.tree = TreeCount
      /\ w.builder = "done" => w.tree = TreeCount /\ w.built = TreeCount
      /\ w.tree \in Nat /\ TreeCount \in Nat /\ w.built \in Nat
  <2>1. CallOK(w)
    BY <1>2, RunningCall
  <2> QED  BY <2>1, Sizes DEF CallOK, ReaderOK, BuilderOK, MainOK
<1>4. faults' = faults
  BY DEF BuilderGone, ReaderGone, TreesGone
<1>5. CASE BuilderGone(c)
  <2>1. w.reader = "send" /\ w.builder \in {"done", "panic"} /\ ReaderPanics(c)
    BY <1>2, <1>5 DEF BuilderGone, Ended
  <2>2. faults > 0
    BY <1>1, <1>2, <1>3, <2>1
  <2> QED  BY <1>1, <1>2, <1>4, <2>1, <2>2, ReaderPanicsInv
<1>6. CASE ReaderGone(c)
  <2>1. /\ \/ w.builder = "recv" /\ w.reader \in {"done", "panic"}
           \/ w.builder = "send" /\ w.main = "panic"
           \/ w.builder = "lock" /\ poisoned
        /\ BuilderPanics(c)
    BY <1>2, <1>6 DEF ReaderGone, Ended
  <2>2. faults > 0
    BY <1>1, <1>2, <1>3, <2>1
  <2> QED  BY <1>1, <1>2, <1>4, <2>1, <2>2, BuilderPanicsInv
<1>7. CASE TreesGone(c)
  <2>1. w.main = "recv" /\ w.builder \in {"done", "panic"} /\ MainPanics(c)
    BY <1>2, <1>7 DEF TreesGone, Ended
  <2>2. faults > 0
    BY <1>1, <1>2, <1>3, <2>1
  <2>3. work' = [work EXCEPT ![c].main = "panic"] /\ queue' = queue /\ busy' = busy
    BY <2>1 DEF MainPanics
  <2>4. /\ busy' \subseteq busy /\ \A j \in busy : j.call # c => j \in busy'
        /\ faults' \in Nat /\ faults' >= faults /\ faults' > 0
    BY <1>1, <1>4, <2>2, <2>3
  <2> QED  BY <2>3, <2>4, MainPanicsInv
<1> QED  BY <1>5, <1>6, <1>7

\* The steps of a fake replica keep the invariant.
LEMMA FakeInv ==
  ASSUME TreeInv, NEW c \in Calls, Running(c), FakeTree(c) \/ FakeDone(c)
  PROVE  TreeInv'
<1>1. PICK w : w = work[c]
  OBVIOUS
<1>2. PICK v : v = work'[c]
  OBVIOUS
<1>3. CallOK(w) /\ w.main \notin {"done", "failed"}
  BY <1>1, RunningCall
<1>4. CASE FakeTree(c) /\ poisoned
  <2>1. work' = [work EXCEPT ![c].main = "panic"] /\ queue' = queue /\ busy' = busy /\ faults' = faults
    BY <1>4 DEF FakeTree
  <2>2. faults \in Nat /\ faults > 0
    BY <1>4 DEF TreeInv, CauseInv
  <2>3. /\ busy' \subseteq busy /\ \A j \in busy : j.call # c => j \in busy'
        /\ faults' \in Nat /\ faults' >= faults /\ faults' > 0
    BY <2>1, <2>2
  <2> QED  BY <2>1, <2>3, MainPanicsInv
<1>5. CASE (FakeTree(c) /\ ~poisoned) \/ FakeDone(c)
  <2>1. PICK m \in {"fake", "join"} :
          /\ work' = [work EXCEPT ![c].main = m]
          /\ UNCHANGED <<queue, busy, poisoned, faults>>
    BY <1>5 DEF FakeTree, FakeDone
  <2>2. w.main \in {"start", "fake"} /\ PhaseOf(w) = "fake"
    <3>1. w.main = "fake" => PhaseOf(w) = "fake"
      BY <1>3 DEF CallOK, MainOK
    <3> QED  BY <1>1, <1>5, <3>1, Names DEF FakeTree, FakeDone
  <2>3. Shape(c) /\ Keeps(w, v, Fields \ {"main"}) /\ v.main = m
    BY <1>1, <1>2, <1>3, <2>1 DEF TreeInv, CallsInv, Shape, Keeps, CallOK, RecordOK, Fields
  <2>4. v.reader = w.reader /\ v.builder = w.builder /\ v.held = w.held
    BY <2>3 DEF Keeps, Fields
  <2>5. Control(w, v)
    BY <2>2, <2>3, <2>4 DEF Control, Keeps
  <2>6. CallOK(v)
    BY <1>3, <2>5, ControlStep
  <2>7. Quiet(c)
    BY <1>1, <1>2, <2>1, <2>2, <2>3, <2>4 DEF Quiet
  <2>8. Cause(c)
    <3>0. Unbuilt(v) => Unbuilt(w)
      BY <2>3 DEF Keeps, Fields, Unbuilt
    <3> QED  BY <3>0, <1>1, <1>2, <1>3, <2>1, <2>3, <2>4, NothingFails
  <2>9. HashOK(c)'
    BY <1>2, <2>3 DEF HashOK
  <2> QED  BY <1>2, <2>3, <2>6, <2>7, <2>8, <2>9, QuietStep
<1> QED  BY <1>4, <1>5

\* The calling thread goes on by itself.
LEMMA GoesOn ==
  ASSUME TreeInv, NEW c \in Calls, CallOK(work[c]), Shape(c), CallOK(work'[c]),
         work'[c].reader = work[c].reader, work'[c].builder = work[c].builder,
         work'[c].main \notin {"panic", "failed", "done", "hash"},
         work[c].main \notin {"hash", "panic"} \/ JobsOf(c) = {},
         Unbuilt(work'[c]) => Unbuilt(work[c]),
         UNCHANGED <<queue, busy, poisoned, faults>>
  PROVE  TreeInv'
<1>1. Quiet(c)
  BY DEF Quiet, JobsOf
<1>2. Cause(c)
  BY NothingFails
<1>3. HashOK(c)'
  BY DEF HashOK
<1> QED  BY <1>1, <1>2, <1>3, QuietStep

\* The calling thread writes trees itself on the GPU only, where no build is missed.
LEMMA WritesOnGpu ==
  ASSUME NEW w, NEW v, CallOK(w), w.main \in {"create", "write"}, v.request = w.request
  PROVE  ~Unbuilt(v)
  BY DEF CallOK, MainOK, OnGpu, Unbuilt

\* Storing the tree itself misses no build.
LEMMA BuiltRight ==
  ASSUME NEW w, NEW v, RecordOK(w), w.written \in Nat, PhaseOf(w) # "fake",
         v.request = w.request, v.files = Stored(w, RightFile(PhaseOf(w), w.written))
  PROVE  Unbuilt(v) => Unbuilt(w)
<1> SUFFICES ASSUME Unbuilt(v)  PROVE Unbuilt(w)
  OBVIOUS
<1>1. PICK i \in 0 .. TreeCount - 1 :
         <<"tree_c", i>> \in DOMAIN v.files /\ v.files[<<"tree_c", i>>] \in {NoStore, Leftover}
  BY DEF Unbuilt
<1>2. CASE <<"tree_c", i>> = <<PhaseOf(w), w.written>>
  <2>1. PhaseOf(w) = "tree_c"
    BY <1>2
  <2>2. v.files[<<"tree_c", i>>] = RightFile("tree_c", w.written)
    BY <1>2, <2>1 DEF Stored
  <2> QED  BY <1>1, <2>2, RightIsBuilt
<1>3. CASE <<"tree_c", i>> # <<PhaseOf(w), w.written>>
  <2>1. <<"tree_c", i>> \in DOMAIN w.files /\ w.files[<<"tree_c", i>>] = v.files[<<"tree_c", i>>]
    BY <1>1, <1>3 DEF Stored
  <2> QED  BY <1>1, <2>1 DEF Unbuilt
<1> QED  BY <1>2, <1>3

\* It has stored a tree it received from the builder.
LEMMA NextTreeInv ==
  ASSUME TreeInv, NEW c \in Calls, Running(c), work[c].main \in {"create", "write"},
         NextTree(c, Stored(work[c], RightFile(PhaseOf(work[c]), work[c].written))),
         UNCHANGED <<queue, busy, gpu, poisoned, faults>>
  PROVE  TreeInv'
<1>1. PICK w : w = work[c]
  OBVIOUS
<1>2. PICK v : v = work'[c]
  OBVIOUS
<1>3. CallOK(w) /\ w.main \in {"create", "write"}
  BY <1>1, RunningCall
<1>4. PICK files : files = Stored(w, RightFile(PhaseOf(w), w.written))
  OBVIOUS
<1>5. PICK m : m = IF w.written + 1 = TreeCount THEN "join" ELSE "recv"
  OBVIOUS
<1>6. work' = [work EXCEPT ![c].files = files, ![c].written = @ + 1, ![c].pieces = {}, ![c].held = <<>>,
                           ![c].main = m]
  BY <1>1, <1>4, <1>5 DEF NextTree
<1>7. /\ Shape(c) /\ Keeps(w, v, Fields \ {"files", "written", "pieces", "held", "main"})
      /\ v.files = files /\ v.written = w.written + 1 /\ v.main = m
  BY <1>1, <1>2, <1>3, <1>6 DEF TreeInv, CallsInv, Shape, Keeps, CallOK, RecordOK, Fields
<1>8. v.encoded = w.encoded /\ v.reader = w.reader /\ v.builder = w.builder /\ v.request = w.request
  BY <1>7 DEF Keeps, Fields
<1>9. Keeps(w, v, Fields \ {"files", "written", "pieces", "held", "main", "encoded"})
  BY <1>7 DEF Keeps
<1>10. CallOK(v)
  BY <1>3, <1>4, <1>5, <1>7, <1>8, <1>9, StoreStep
<1>11. ~Unbuilt(v)
  BY <1>3, <1>8, WritesOnGpu
<1> QED  BY <1>1, <1>2, <1>3, <1>5, <1>7, <1>8, <1>10, <1>11, GoesOn

\* CreateFile keeps the invariant.
LEMMA CreateFileInv ==
  ASSUME TreeInv, NEW c \in Calls, Running(c), CreateFile(c)
  PROVE  TreeInv'
<1>1. PICK w : w = work[c]
  OBVIOUS
<1>2. PICK v : v = work'[c]
  OBVIOUS
<1>3. CallOK(w) /\ w.main = "create" /\ UNCHANGED <<queue, busy, gpu, poisoned, faults>>
  BY <1>1, RunningCall DEF CreateFile
<1>4. CASE PhaseOf(w) = "tree_c"
  <2>0. PICK files : files = Stored(w, <<>>)
    OBVIOUS
  <2>1. work' = [work EXCEPT ![c].main = "write", ![c].pieces = PiecesOf("base", NodesCount),
                             ![c].files = files]
    BY <1>1, <1>4, <2>0, Names DEF CreateFile
  <2>2. /\ Shape(c) /\ Keeps(w, v, Fields \ {"files", "pieces", "main"}) /\ v.main = "write"
        /\ v.files = files /\ v.pieces = PiecesOf("base", NodesCount)
    BY <1>1, <1>2, <1>3, <2>1 DEF TreeInv, CallsInv, Shape, Keeps, CallOK, RecordOK, Fields
  <2>3. CallOK(v)
    BY <1>3, <1>4, <2>0, <2>2, CreateStep
  <2>4. v.reader = w.reader /\ v.builder = w.builder /\ v.request = w.request
    BY <2>2 DEF Keeps, Fields
  <2>5. ~Unbuilt(v)
    BY <1>3, <2>4, WritesOnGpu
  <2> QED  BY <1>1, <1>2, <1>3, <2>2, <2>3, <2>4, <2>5, GoesOn
<1>5. CASE PhaseOf(w) # "tree_c"
  <2>1. NextTree(c, Stored(w, TreeOf(w.held).inner))
    BY <1>1, <1>5, Names DEF CreateFile
  <2>2. /\ PhaseOf(w) = "tree_r" /\ w.written \in Nat
        /\ w.held = Run(w.written * NodesCount, NodesCount)
    <3>1. PhaseOf(w) \in {"tree_c", "tree_r", "fake"}
      BY <1>3, PhaseFacts DEF CallOK
    <3> QED  BY <1>3, <1>5, <3>1, Sizes DEF CallOK, MainOK, OnGpu
  <2>3. TreeOf(w.held).inner = RightFile(PhaseOf(w), w.written)
    BY <2>2, TreeFacts
  <2> QED  BY <1>1, <1>3, <2>1, <2>3, NextTreeInv
<1> QED  BY <1>4, <1>5

\* WritePiece keeps the invariant: pieces go to their own places, in any order.
LEMMA WritePieceInv ==
  ASSUME TreeInv, NEW c \in Calls, Running(c), WritePiece(c)
  PROVE  TreeInv'
<1>1. PICK w : w = work[c]
  OBVIOUS
<1>2. PICK v : v = work'[c]
  OBVIOUS
<1>3. CallOK(w)
  BY <1>1, RunningCall
<1>4. PICK piece \in w.pieces :
        /\ w.main = "write"
        /\ IF w.pieces \ {piece} = {} /\ piece.part = "inner"
           THEN NextTree(c, Stored(w, NewFile(w, piece)))
           ELSE work' = [work EXCEPT ![c].files = Stored(w, NewFile(w, piece)),
                                     ![c].pieces = IF w.pieces \ {piece} = {}
                                                   THEN PiecesOf("inner", NodesCount - 1)
                                                   ELSE w.pieces \ {piece}]
        /\ UNCHANGED <<queue, busy, gpu, poisoned, faults>>
  <2> DEFINE data(p)   == IF p.part = "base" THEN TreeOf(work[c].held).base ELSE TreeOf(work[c].held).inner
             slice(p)  == SubSeq(data(p), p.index * PieceSize + 1,
                                 Min({Len(data(p)), (p.index + 1) * PieceSize}))
             old       == work[c].files[File(c)]
             new(p)    == [q \in DOMAIN old \cup ((WriteOffset(p) + 1) .. (WriteOffset(p) + Len(slice(p)))) |->
                             IF q - WriteOffset(p) \in DOMAIN slice(p) THEN slice(p)[q - WriteOffset(p)] ELSE old[q]]
  <2>1. PICK piece \in work[c].pieces :
          /\ work[c].main = "write"
          /\ IF work[c].pieces \ {piece} = {} /\ piece.part = "inner"
             THEN NextTree(c, Written(c, new(piece)))
             ELSE work' = [work EXCEPT ![c].files = Written(c, new(piece)),
                                       ![c].pieces = IF work[c].pieces \ {piece} = {}
                                                     THEN PiecesOf("inner", NodesCount - 1)
                                                     ELSE work[c].pieces \ {piece}]
          /\ UNCHANGED <<queue, busy, gpu, poisoned, faults>>
    BY DEF WritePiece
  <2>2. Phase(c) = PhaseOf(w) /\ \A content : Written(c, content) = Stored(w, content)
    BY <1>1, Names
  <2>3. new(piece) = NewFile(w, piece)
    BY <1>1, <2>2 DEF NewFile, File
  <2> HIDE DEF new
  <2>4. Written(c, new(piece)) = Stored(w, NewFile(w, piece))
    BY <2>2, <2>3
  <2> QED  BY <1>1, <2>1, <2>4
<1>5. CASE w.pieces \ {piece} = {} /\ piece.part = "inner"
  <2>1. NewFile(w, piece) = RightFile(PhaseOf(w), w.written)
    BY <1>3, <1>4, <1>5, LastPiece
  <2> QED  BY <1>1, <1>4, <1>5, <2>1, NextTreeInv
<1>6. CASE ~(w.pieces \ {piece} = {} /\ piece.part = "inner")
  <2>1. PICK files : files = Stored(w, NewFile(w, piece))
    OBVIOUS
  <2>2. PICK pieces : pieces = IF w.pieces \ {piece} = {} THEN PiecesOf("inner", NodesCount - 1)
                               ELSE w.pieces \ {piece}
    OBVIOUS
  <2>3. work' = [work EXCEPT ![c].files = files, ![c].pieces = pieces]
    BY <1>4, <1>6, <2>1, <2>2
  <2>4. /\ Shape(c) /\ Keeps(w, v, Fields \ {"files", "pieces"}) /\ v.files = files /\ v.pieces = pieces
    BY <1>1, <1>2, <1>3, <2>3 DEF TreeInv, CallsInv, Shape, Keeps, CallOK, RecordOK, Fields
  <2>5. CallOK(v)
    BY <1>3, <1>4, <1>6, <2>1, <2>2, <2>4, WriteStep
  <2>6. v.main = w.main /\ v.reader = w.reader /\ v.builder = w.builder /\ v.request = w.request
    BY <2>4 DEF Keeps, Fields
  <2>7. ~Unbuilt(v)
    BY <1>3, <1>4, <2>6, WritesOnGpu
  <2> QED  BY <1>1, <1>2, <1>3, <1>4, <2>4, <2>5, <2>6, <2>7, GoesOn
<1> QED  BY <1>5, <1>6

\* A base tree of hashed columns has had its turn.
LEMMA StoreBaseTreeInv ==
  ASSUME TreeInv, NEW c \in Calls, Running(c), NEW store, StoreBaseTree(c, store),
         store = RightFile(PhaseOf(work[c]), work[c].written) \/ store \in {NoStore, Leftover},
         UNCHANGED faults \/ (faults' = faults + 1 /\ store \in {NoStore, Leftover}),
         faults' = faults => store = RightFile(PhaseOf(work[c]), work[c].written)
  PROVE  TreeInv'
<1>1. PICK w : w = work[c]
  OBVIOUS
<1>2. PICK v : v = work'[c]
  OBVIOUS
<1>3. CallOK(w) /\ w.main = "hash" /\ JobsOf(c) = {} /\ UNCHANGED <<queue, busy, gpu, poisoned>>
  BY <1>1, RunningCall DEF StoreBaseTree
<1>4. PhaseOf(w) = "tree_c" /\ w.written \in Nat
  BY <1>3, Sizes DEF CallOK, MainOK
<1>7. PICK files : files = Stored(w, store)
  OBVIOUS
<1>8. PICK m : m = IF w.written + 1 = TreeCount THEN "join" ELSE "start"
  OBVIOUS
<1>9. work' = [work EXCEPT ![c].files = files, ![c].written = @ + 1, ![c].main = m]
  <2>1. Written(c, store) = files
    BY <1>1, <1>7, Names
  <2>2. work' = [work EXCEPT
                   ![c].files = Written(c, store), ![c].written = @ + 1,
                   ![c].main = IF work[c].written + 1 = TreeCount THEN "join" ELSE "start"]
    BY DEF StoreBaseTree
  <2> QED  BY <1>1, <1>8, <2>1, <2>2
<1>10. /\ Shape(c) /\ Keeps(w, v, Fields \ {"files", "written", "main"})
       /\ v.files = files /\ v.written = w.written + 1 /\ v.main = m
  BY <1>1, <1>2, <1>3, <1>9 DEF TreeInv, CallsInv, Shape, Keeps, CallOK, RecordOK, Fields
<1>11. v.encoded = w.encoded /\ v.reader = w.reader /\ v.builder = w.builder /\ v.request = w.request
  BY <1>10 DEF Keeps, Fields
<1>12. Keeps(w, v, Fields \ {"files", "written", "pieces", "held", "main", "encoded"})
  BY <1>10 DEF Keeps
<1>13. CallOK(v)
  <2>1. store = RightFile(PhaseOf(w), w.written) \/ (w.main = "hash" /\ store \in {NoStore, Leftover})
    BY <1>1, <1>3
  <2> QED  BY <1>3, <1>7, <1>8, <1>10, <1>11, <1>12, <2>1, StoreStep
<1>14. CASE faults' = faults
  <2>1. Unbuilt(v) => Unbuilt(w)
    BY <1>1, <1>3, <1>4, <1>7, <1>10, <1>11, <1>14, BuiltRight DEF CallOK
  <2> QED  BY <1>1, <1>2, <1>3, <1>8, <1>10, <1>11, <1>13, <1>14, <2>1, GoesOn
<1>15. CASE faults' = faults + 1
  <2>1. Quiet(c)
    BY <1>3 DEF Quiet, JobsOf
  <2>2. Cause(c)
    BY <1>3, <1>15 DEF Cause, TreeInv, CauseInv
  <2>3. HashOK(c)'
    BY <1>2, <1>8, <1>10 DEF HashOK
  <2> QED  BY <1>2, <1>10, <1>13, <2>1, <2>2, <2>3, QuietStep
<1> QED  BY <1>14, <1>15

\* The base tree of hashed columns is stored.
LEMMA BuildBaseTreeInv ==
  ASSUME TreeInv, NEW c \in Calls, Running(c), BuildBaseTree(c)
  PROVE  TreeInv'
<1>1. PICK w : w = work[c]
  OBVIOUS
<1>2. PICK store : store = TreeOf(w.held).base \o TreeOf(w.held).inner
  OBVIOUS
<1>3. StoreBaseTree(c, store) /\ UNCHANGED faults
  BY <1>1, <1>2 DEF BuildBaseTree
<1>4. CallOK(w) /\ w.main = "hash" /\ JobsOf(c) = {}
  BY <1>1, <1>3, RunningCall DEF StoreBaseTree
<1>5. PhaseOf(w) = "tree_c" /\ w.written \in Nat
  BY <1>4, Sizes DEF CallOK, MainOK
<1>6. w.held = Run(w.written * NodesCount, NodesCount)
  <2>1. HashOK(c)
    BY DEF TreeInv, HashInv
  <2>2. w.held \in [1 .. NodesCount -> Int]
    BY <1>1, <1>4, <2>1 DEF HashOK
  <2>3. \A k \in 1 .. NodesCount : w.held[k] = w.written * NodesCount + k - 1
    BY <1>1, <1>4, <2>1 DEF HashOK
  <2> QED  BY <2>2, <2>3 DEF Run
<1>7. store = RightFile(PhaseOf(w), w.written)
  BY <1>2, <1>5, <1>6, TreeFacts
<1> QED  BY <1>1, <1>3, <1>7, StoreBaseTreeInv

\* A build that fails or finds a store leaves one that is missing or not the tree.
LEMMA BaseTreeFailsInv ==
  ASSUME TreeInv, NEW c \in Calls, Running(c), BaseTreeFails(c)
  PROVE  TreeInv'
<1>1. PICK store \in {NoStore, Leftover} : StoreBaseTree(c, store)
  BY DEF BaseTreeFails
<1>2. faults' = faults + 1 /\ faults' # faults
  BY DEF BaseTreeFails, TreeInv, CauseInv
<1> QED  BY <1>1, <1>2, StoreBaseTreeInv

\* Tree R on the CPU: the calling thread encodes a tree's nodes and stores the tree.
LEMMA BuildTreeRInv ==
  ASSUME TreeInv, NEW c \in Calls, Running(c), BuildTreeR(c)
  PROVE  TreeInv'
<1>1. PICK w : w = work[c]
  OBVIOUS
<1>2. PICK v : v = work'[c]
  OBVIOUS
<1>3. /\ CallOK(w) /\ w.main = "start" /\ ~w.request.gpu /\ PhaseOf(w) = "tree_r"
      /\ UNCHANGED <<queue, busy, gpu, poisoned, faults>>
  BY <1>1, RunningCall, Names DEF BuildTreeR
<1>4. w.written \in Nat
  BY <1>3, Sizes DEF CallOK, MainOK
<1>5. PICK read : read = Run(w.written * NodesCount, NodesCount)
  OBVIOUS
<1>6. TreeOf(read).inner = RightFile(PhaseOf(w), w.written)
  BY <1>3, <1>4, <1>5, TreeFacts
<1>7. PICK files : files = Stored(w, RightFile(PhaseOf(w), w.written))
  OBVIOUS
<1>8. PICK m : m = IF w.written + 1 = TreeCount THEN "join" ELSE "start"
  OBVIOUS
<1>e. PICK encoded : encoded = Encode(w, w.written * NodesCount, NodesCount)
  OBVIOUS
<1>9. work' = [work EXCEPT ![c].files = files, ![c].written = @ + 1, ![c].encoded = encoded, ![c].main = m]
  <2>1. Written(c, TreeOf(read).inner) = files
    BY <1>1, <1>6, <1>7, Names
  <2>2. EncodeBatch(c, read) = encoded
    BY <1>1, <1>5, <1>e, Names DEF Encode, EncodeBatch
  <2>3. read = [k \in 1..NodesCount |-> work[c].written * NodesCount + k - 1]
    BY <1>1, <1>5 DEF Run
  <2>4. work' = [work EXCEPT ![c].files = Written(c, TreeOf(read).inner), ![c].written = @ + 1,
                             ![c].encoded = EncodeBatch(c, read),
                             ![c].main = IF work[c].written + 1 = TreeCount THEN "join" ELSE "start"]
    BY <2>3 DEF BuildTreeR
  <2> QED  BY <1>1, <1>8, <2>1, <2>2, <2>4
<1>10. /\ Shape(c) /\ Keeps(w, v, Fields \ {"files", "written", "main", "encoded"})
       /\ v.files = files /\ v.written = w.written + 1 /\ v.main = m /\ v.encoded = encoded
  BY <1>1, <1>2, <1>3, <1>9 DEF TreeInv, CallsInv, Shape, Keeps, CallOK, RecordOK, Fields
<1>11. v.reader = w.reader /\ v.builder = w.builder /\ v.request = w.request
  BY <1>10 DEF Keeps, Fields
<1>12. Keeps(w, v, Fields \ {"files", "written", "pieces", "held", "main", "encoded"})
  BY <1>10 DEF Keeps
<1>13. CallOK(v)
  BY <1>3, <1>7, <1>8, <1>e, <1>10, <1>12, StoreStep
<1>14. Unbuilt(v) => Unbuilt(w)
  BY <1>3, <1>4, <1>7, <1>10, <1>11, BuiltRight DEF CallOK
<1> QED  BY <1>1, <1>2, <1>3, <1>8, <1>10, <1>11, <1>13, <1>14, GoesOn

\* A read, a write or a job that fails is the cause itself.
LEMMA FaultInv ==
  ASSUME TreeInv, NEW c \in Calls, Running(c), ReadFails(c) \/ ChunkFails(c) \/ WriteFails(c) \/ BaseTreeFails(c)
  PROVE  TreeInv'
<1>1. faults \in Nat
  BY DEF TreeInv, CauseInv
<1>2. CASE ReadFails(c)
  <2>1. faults' = faults + 1 /\ work[c].reader = "prepare" /\ ReaderPanics(c)
    BY <1>2 DEF ReadFails
  <2>2. faults' \in Nat /\ faults' >= faults /\ faults' > 0
    BY <1>1, <2>1
  <2> QED  BY <2>1, <2>2, ReaderPanicsInv
<1>3. CASE ChunkFails(c)
  <2>1. /\ faults' = faults + 1 /\ work' = [work EXCEPT ![c].main = "panic"] /\ queue' = queue
        /\ busy' \subseteq busy /\ \A j \in busy : j.call # c => j \in busy'
    BY <1>3 DEF ChunkFails
  <2>2. faults' \in Nat /\ faults' >= faults /\ faults' > 0
    BY <1>1, <2>1
  <2> QED  BY <2>1, <2>2, MainPanicsInv
<1>4. CASE WriteFails(c)
  <2>1. /\ faults' = faults + 1 /\ work' = [work EXCEPT ![c].main = "panic"] /\ queue' = queue
        /\ busy' = busy
    BY <1>4 DEF WriteFails, MainPanics
  <2>2. faults' \in Nat /\ faults' >= faults /\ faults' > 0
    BY <1>1, <2>1
  <2> QED  BY <2>1, <2>2, MainPanicsInv
<1> QED  BY <1>2, <1>3, <1>4, BaseTreeFailsInv

\* A phase whose trees cannot all be opened has missed the build of one.
LEMMA NotOpen ==
  ASSUME NEW w, CallOK(w), w.main = "join", ~AllOpen(w)
  PROVE  Unbuilt(w)
<1>1. RecordOK(w) /\ MainOK(w) /\ FilesOK(w)
  BY DEF CallOK
<1>2. PICK i \in 0 .. TreeCount - 1 : DOMAIN w.files[<<"tree_c", i>>] # 1 .. (2 * NodesCount - 1)
  BY DEF AllOpen
<1>3. PhaseOf(w) = "tree_c" /\ w.phase \in 1 .. Len(PhasesOf(w)) /\ PhasesOf(w)[w.phase] = "tree_c"
  BY <1>1 DEF AllOpen, RecordOK, PhaseOf
<1>4. w.written = TreeCount /\ i \in Nat /\ i < TreeCount
  BY <1>1, <1>3, Sizes DEF MainOK
<1>5. /\ <<"tree_c", i>> \in DOMAIN w.files
      /\ \/ w.files[<<"tree_c", i>>] = RightFile("tree_c", i)
         \/ w.files[<<"tree_c", i>>] \in Missed(w, "tree_c")
  BY <1>1, <1>3, <1>4 DEF FilesOK
<1>6. w.files[<<"tree_c", i>>] \in Missed(w, "tree_c")
  BY <1>2, <1>4, <1>5, RightIsBuilt
<1> QED  BY <1>5, <1>6 DEF Missed, Unbuilt

\* JoinScope keeps the invariant: a phase that goes on has every tree.
LEMMA JoinScopeInv ==
  ASSUME TreeInv, NEW c \in Calls, Running(c), JoinScope(c)
  PROVE  TreeInv'
<1>1. PICK w : w = work[c]
  OBVIOUS
<1>2. PICK v : v = work'[c]
  OBVIOUS
<1>3. /\ CallOK(w) /\ w.main \in {"join", "panic"} /\ JobsOf(c) = {}
      /\ UNCHANGED <<queue, busy, gpu, poisoned, faults>>
  BY <1>1, RunningCall DEF JoinScope
<1>4. Shape(c)
  BY DEF JoinScope, TreeInv, CallsInv, Shape
<1>5. v = IF w.main = "join" /\ "panic" \notin {w.reader, w.builder} /\ AllOpen(w)
          THEN NextPhase(c) ELSE [w EXCEPT !.main = "failed"]
  <2>1. Opens(c) = AllOpen(w)
    BY <1>1, Names DEF Opens, AllOpen
  <2> QED  BY <1>1, <1>2, <2>1 DEF JoinScope, TreeInv, CallsInv
<1>6. Quiet(c)
  BY <1>3 DEF Quiet, JobsOf
<1>7. CASE w.main = "join" /\ "panic" \notin {w.reader, w.builder} /\ AllOpen(w) /\ w.phase = Len(PhasesOf(w))
  <2>1. v = [w EXCEPT !.main = "done"]
    BY <1>1, <1>5, <1>7, Names DEF NextPhase
  <2>2. Keeps(w, v, Fields \ {"main"}) /\ v.main = "done"
    BY <1>3, <2>1 DEF Keeps, CallOK, RecordOK, Fields
  <2>3. CallOK(v)
    BY <1>3, <1>7, <2>2, DoneStep
  <2>4. v.reader = w.reader /\ v.builder = w.builder
    BY <2>2 DEF Keeps, Fields
  <2>5. Cause(c)
    <3>0. Unbuilt(v) => Unbuilt(w)
      BY <2>2 DEF Keeps, Fields, Unbuilt
    <3> QED  BY <3>0, <1>1, <1>2, <1>3, <2>2, <2>4, NothingFails
  <2>6. HashOK(c)'
    BY <1>2, <2>2 DEF HashOK
  <2> QED  BY <1>2, <1>4, <1>6, <2>3, <2>5, <2>6, QuietStep
<1>8. CASE w.main = "join" /\ "panic" \notin {w.reader, w.builder} /\ AllOpen(w) /\ w.phase # Len(PhasesOf(w))
  <2>1. v = NextCall(w)
    BY <1>1, <1>5, <1>8, Names DEF NextPhase, NextCall
  <2>2. CallOK(v) /\ v.main = "start"
    BY <1>3, <1>8, <2>1, PhaseStep
  <2>3. v.reader = "none" /\ v.builder = "none"
    BY <2>1 DEF NextCall, NewCall
  <2>5. Cause(c)
    <3>0. Unbuilt(v) => Unbuilt(w)
      BY <2>1 DEF NextCall, NewCall, Unbuilt
    <3> QED  BY <3>0, <1>1, <1>2, <1>3, <2>2, <2>3, NothingFails
  <2>6. HashOK(c)'
    BY <1>2, <2>2 DEF HashOK
  <2> QED  BY <1>2, <1>4, <1>6, <2>2, <2>5, <2>6, QuietStep
<1>9. CASE ~(w.main = "join" /\ "panic" \notin {w.reader, w.builder} /\ AllOpen(w))
  <2>1. v = [w EXCEPT !.main = "failed"]
    BY <1>5, <1>9
  <2>2. Keeps(w, v, Fields \ {"main"}) /\ v.main = "failed"
    BY <1>3, <2>1 DEF Keeps, CallOK, RecordOK, Fields
  <2>3. v.reader = w.reader /\ v.builder = w.builder /\ v.held = w.held
    BY <2>2 DEF Keeps, Fields
  <2>4. Control(w, v)
    BY <2>2, <2>3 DEF Control, Keeps
  <2>5. CallOK(v)
    BY <1>3, <2>4, ControlStep
  <2>6. faults > 0 /\ faults \in Nat
    <3>1. w # NoCall
      BY <1>3, CallIsNew
    <3>2. CASE "panic" \in {w.main, w.reader, w.builder}
      BY <1>1, <3>1, <3>2 DEF TreeInv, CauseInv
    <3>3. CASE w.main = "join" /\ ~AllOpen(w)
      BY <1>1, <1>3, <3>1, <3>3, NotOpen DEF TreeInv, CauseInv
    <3> QED  BY <1>3, <1>9, <3>2, <3>3
  <2>7. Cause(c)
    BY <1>3, <2>6 DEF Cause, TreeInv, CauseInv
  <2>8. HashOK(c)'
    BY <1>2, <2>2 DEF HashOK
  <2> QED  BY <1>2, <1>4, <1>6, <2>5, <2>7, <2>8, QuietStep
<1> QED  BY <1>7, <1>8, <1>9

\* A chunk's job fills in the hashes of its own columns and leaves the others.
LEMMA HashChunkInv ==
  ASSUME TreeInv, NEW c \in Calls, Running(c), HashChunk(c)
  PROVE  TreeInv'
<1>1. PICK w : w = work[c]
  OBVIOUS
<1>2. PICK v : v = work'[c]
  OBVIOUS
<1>3. CallOK(w) /\ UNCHANGED <<queue, gpu, poisoned, faults>>
  BY <1>1, RunningCall DEF HashChunk
<1>4. PICK j \in busy :
        /\ j.call = c /\ j.role = "chunk" /\ busy' = busy \ {j}
        /\ work' = [work EXCEPT ![c].held = [k \in 1..NodesCount |-> IF (k - 1) \div ChunkSize = j.part
                     THEN work[c].written * NodesCount + ((k - 1) % ChunkSize) + j.part * ChunkSize ELSE @[k]]]
  BY DEF HashChunk
<1>5. PICK held : held = [k \in 1..NodesCount |-> IF (k - 1) \div ChunkSize = j.part
            THEN w.written * NodesCount + ((k - 1) % ChunkSize) + j.part * ChunkSize ELSE w.held[k]]
  OBVIOUS
<1>6. work' = [work EXCEPT ![c].held = held]
  BY <1>1, <1>4, <1>5
<1>7. Shape(c) /\ Keeps(w, v, Fields \ {"held"}) /\ v.held = held
  BY <1>1, <1>2, <1>3, <1>6 DEF TreeInv, CallsInv, Shape, Keeps, CallOK, RecordOK, Fields
<1>8. v.main = w.main /\ v.reader = w.reader /\ v.builder = w.builder /\ v.written = w.written
  BY <1>7 DEF Keeps, Fields
<1>9. w.main \in {"hash", "panic"} /\ j.part \in Nat
  BY <1>1, <1>4 DEF TreeInv, PoolInv, Jobs
<1>10. Control(w, v)
  BY <1>7, <1>8, <1>9 DEF Control, Keeps
<1>11. CallOK(v)
  BY <1>3, <1>10, ControlStep
<1>12. Quiet(c)
  BY <1>1, <1>2, <1>3, <1>4, <1>8, <1>9 DEF Quiet
<1>13. Cause(c)
  <2>0. Unbuilt(v) => Unbuilt(w)
    BY <1>7 DEF Keeps, Fields, Unbuilt
  <2> QED  BY <2>0, <1>1, <1>2, <1>3, <1>8, NothingFails
<1>14. HashOK(c)'
  <2> SUFFICES ASSUME w.main = "hash"
               PROVE  /\ held \in [1 .. NodesCount -> Int]
                      /\ \A k \in 1 .. NodesCount :
                            \/ held[k] = w.written * NodesCount + k - 1
                            \/ \E i \in JobsOf(c)' : i.role = "chunk" /\ i.part = (k - 1) \div ChunkSize
    BY <1>2, <1>7, <1>8 DEF HashOK
  <2>1. /\ w.held \in [1 .. NodesCount -> Int]
        /\ \A k \in 1 .. NodesCount :
              \/ w.held[k] = w.written * NodesCount + k - 1
              \/ \E i \in JobsOf(c) : i.role = "chunk" /\ i.part = (k - 1) \div ChunkSize
    BY <1>1 DEF TreeInv, HashInv, HashOK
  <2>2. w.written * NodesCount \in Nat
    BY <1>3, Sizes, NextLeaf DEF CallOK, MainOK
  <2>3. ASSUME NEW k \in 1 .. NodesCount, (k - 1) \div ChunkSize = j.part
        PROVE  held[k] = w.written * NodesCount + k - 1
    <3> DEFINE a == w.written * NodesCount
               r == (k - 1) % ChunkSize
               b == j.part * ChunkSize
    <3>1. held[k] = a + r + b
      BY <1>5, <2>3
    <3>2. r + b = k - 1 /\ k \in Int
      BY <2>3, ChunkFacts, Sizes
    <3>3. r \in Int /\ b \in Int
      BY <1>9, ChunkFacts, Sizes
    <3> HIDE DEF a, r, b
    <3>4. a \in Nat
      BY <2>2 DEF a
    <3> QED  BY <3>1, <3>2, <3>3, <3>4 DEF a
  <2>4. ASSUME NEW k \in 1 .. NodesCount, (k - 1) \div ChunkSize # j.part
        PROVE  held[k] = w.held[k]
    BY <1>5, <2>4
  <2>5. held \in [1 .. NodesCount -> Int]
    <3>1. \A k \in 1 .. NodesCount : held[k] \in Int
      BY <2>1, <2>2, <2>3, <2>4, Sizes
    <3>2. held = [k \in 1 .. NodesCount |-> held[k]]
      BY <1>5
    <3> QED  BY <3>1, <3>2
  <2>6. ASSUME NEW k \in 1 .. NodesCount
        PROVE  \/ held[k] = w.written * NodesCount + k - 1
               \/ \E i \in JobsOf(c)' : i.role = "chunk" /\ i.part = (k - 1) \div ChunkSize
    <3>1. CASE (k - 1) \div ChunkSize = j.part
      BY <2>3, <3>1
    <3>2. CASE (k - 1) \div ChunkSize # j.part
      <4>1. \A i \in JobsOf(c) : i # j => i \in JobsOf(c)'
        BY <1>3, <1>4 DEF JobsOf
      <4> QED  BY <2>1, <2>4, <3>2, <4>1
    <3> QED  BY <3>1, <3>2
  <2> QED  BY <2>5, <2>6
<1> QED  BY <1>2, <1>7, <1>11, <1>12, <1>13, <1>14, QuietStep

\* Call c submits jobs behind those of the queue.
LEMMA SubmitPool ==
  ASSUME TreeInv, NEW c \in Calls, NEW n \in Nat, busy' = busy, Shape(c), CallOK(work'[c]),
         queue' \in Seq(Jobs), Len(queue') = Len(queue) + n,
         \A x \in 1 .. Len(queue) : queue'[x] = queue[x],
         \A x \in Len(queue) + 1 .. Len(queue) + n : queue'[x].call = c,
         work[c].main \notin {"hash", "panic"}, work'[c].main \notin {"done", "failed"},
         \A x \in Len(queue) + 1 .. Len(queue) + n :
            \/ queue'[x].role = "chunk" /\ work'[c].main = "hash"
            \/ n = 1 /\ queue'[x].role = "reader" /\ work[c].reader # "queued" /\ work'[c].reader = "queued"
            \/ n = 1 /\ queue'[x].role = "builder" /\ work[c].builder # "queued" /\ work'[c].builder = "queued",
         work[c].reader = "queued" => work'[c].reader = "queued",
         work[c].builder = "queued" => work'[c].builder = "queued"
  PROVE  PoolInv' /\ OthersStay(c)
<1>0. PoolInv /\ queue \in Seq(Jobs) /\ busy \subseteq Jobs
  BY DEF TreeInv, PoolInv
<1>1. /\ Len(queue) \in Nat /\ DOMAIN queue = 1 .. Len(queue) /\ DOMAIN queue' = 1 .. (Len(queue) + n)
      /\ \A x \in 1 .. Len(queue) : queue[x] \in Jobs
  BY <1>0, LenProperties, ElementOfSeq
<1>2. \A x \in DOMAIN queue' : x \in 1 .. Len(queue) \/ x \in Len(queue) + 1 .. Len(queue) + n
  BY <1>1
<1>3. \A x \in 1 .. Len(queue) :
        /\ queue'[x] = queue[x] /\ queue[x].call \in Calls
        /\ queue[x].call = c => /\ queue[x].role # "chunk"
                                /\ queue[x].role = "reader" => work[c].reader = "queued"
                                /\ queue[x].role = "builder" => work[c].builder = "queued"
  <2> TAKE x \in 1 .. Len(queue)
  <2>1. queue[x] \in Range(queue) /\ queue[x] \in Jobs
    BY <1>1 DEF Range
  <2> QED  BY <1>0, <2>1 DEF PoolInv, Jobs
<1>4. ASSUME NEW x \in DOMAIN queue', NEW y \in DOMAIN queue', queue'[x].role # "chunk",
             queue'[x].call = queue'[y].call, queue'[x].role = queue'[y].role
      PROVE  x = y
  <2>1. CASE x \in 1 .. Len(queue) /\ y \in 1 .. Len(queue)
    BY <1>0, <1>1, <1>3, <1>4, <2>1 DEF PoolInv
  <2>2. CASE x \in 1 .. Len(queue) /\ y \in Len(queue) + 1 .. Len(queue) + n
    BY <1>3, <1>4, <2>2
  <2>3. CASE x \in Len(queue) + 1 .. Len(queue) + n /\ y \in 1 .. Len(queue)
    BY <1>3, <1>4, <2>3
  <2>4. CASE x \in Len(queue) + 1 .. Len(queue) + n /\ y \in Len(queue) + 1 .. Len(queue) + n
    <3>1. n = 1
      BY <1>4, <2>4
    <3> QED  BY <1>1, <2>4, <3>1
  <2> QED  BY <1>2, <2>1, <2>2, <2>3, <2>4
<1>5. /\ \A d \in Calls \ {c} : work'[d] = work[d]
      /\ work' = [d \in Calls |-> work'[d]] /\ work'[c] # NoCall
  BY CallIsNew DEF Shape
<1>6. ASSUME NEW j \in Range(queue)' \cup busy'
      PROVE  /\ work'[j.call] # NoCall /\ work'[j.call].main \notin {"done", "failed"}
             /\ j.role = "chunk" => work'[j.call].main \in {"hash", "panic"}
             /\ j \in Range(queue)' =>
                  /\ j.role = "reader" => work'[j.call].reader = "queued"
                  /\ j.role = "builder" => work'[j.call].builder = "queued"
  <2>1. CASE j \in Range(queue)'
    <3>1. PICK x \in DOMAIN queue' : j = queue'[x]
      BY <2>1 DEF Range
    <3>2. CASE x \in 1 .. Len(queue)
      <4>1. j = queue[x] /\ j \in Range(queue) /\ j.call \in Calls
        BY <1>1, <1>3, <3>1, <3>2 DEF Range
      <4>2. /\ work[j.call] # NoCall /\ work[j.call].main \notin {"done", "failed"}
            /\ j.role = "chunk" => work[j.call].main \in {"hash", "panic"}
            /\ j.role = "reader" => work[j.call].reader = "queued"
            /\ j.role = "builder" => work[j.call].builder = "queued"
        BY <1>0, <4>1 DEF PoolInv
      <4>3. CASE j.call = c
        BY <1>3, <1>5, <3>2, <4>1, <4>2, <4>3
      <4>4. CASE j.call # c
        BY <1>5, <4>1, <4>2, <4>4
      <4> QED  BY <4>3, <4>4
    <3>3. CASE x \in Len(queue) + 1 .. Len(queue) + n
      <4>1. j.call = c
        BY <3>1, <3>3
      <4> QED  BY <1>5, <3>1, <3>3, <4>1
    <3> QED  BY <1>2, <3>2, <3>3
  <2>2. CASE j \notin Range(queue)'
    <3>1. j \in busy /\ j.call \in Calls
      BY <1>0, <2>2 DEF Jobs
    <3>2. /\ work[j.call] # NoCall /\ work[j.call].main \notin {"done", "failed"}
          /\ j.role = "chunk" => work[j.call].main \in {"hash", "panic"}
      BY <1>0, <3>1 DEF PoolInv
    <3>3. CASE j.call = c
      BY <1>5, <2>2, <3>2, <3>3
    <3>4. CASE j.call # c
      BY <1>5, <2>2, <3>1, <3>2, <3>4
    <3> QED  BY <3>3, <3>4
  <2> QED  BY <2>1, <2>2
<1>7. PoolInv'
  BY <1>0, <1>4, <1>6 DEF PoolInv
<1>8. ASSUME NEW d \in Calls \ {c}  PROVE JobsOf(d)' = JobsOf(d)
  <2>1. ASSUME NEW j \in Range(queue)', j.call = d  PROVE j \in Range(queue)
    <3>1. PICK x \in DOMAIN queue' : j = queue'[x]
      BY <2>1 DEF Range
    <3>2. x \in 1 .. Len(queue)
      BY <1>2, <2>1, <3>1
    <3> QED  BY <1>1, <1>3, <3>1, <3>2 DEF Range
  <2>2. ASSUME NEW j \in Range(queue)  PROVE j \in Range(queue)'
    <3>1. PICK x \in DOMAIN queue : j = queue[x]
      BY DEF Range
    <3>2. x \in DOMAIN queue' /\ queue'[x] = j
      BY <1>1, <1>3, <3>1
    <3> QED  BY <3>2 DEF Range
  <2> QED  BY <2>1, <2>2 DEF JobsOf
<1> QED  BY <1>5, <1>7, <1>8 DEF OthersStay

\* One job is submitted.
LEMMA SubmitOne ==
  ASSUME TreeInv, NEW c \in Calls, NEW role \in {"reader", "builder"}, Submit(c, role, 0)
  PROVE  /\ queue' \in Seq(Jobs) /\ Len(queue') = Len(queue) + 1
         /\ \A x \in 1 .. Len(queue) : queue'[x] = queue[x]
         /\ \A x \in Len(queue) + 1 .. Len(queue) + 1 : queue'[x].call = c /\ queue'[x].role = role
<1> DEFINE j == [call |-> c, role |-> role, part |-> 0]
<1>1. queue \in Seq(Jobs) /\ j \in Jobs /\ j.call = c /\ j.role = role
  BY DEF TreeInv, PoolInv, Jobs
<1>2. queue' = Append(queue, j)
  BY DEF Submit
<1> HIDE DEF j
<1>3. /\ queue' \in Seq(Jobs) /\ Len(queue') = Len(queue) + 1
      /\ \A x \in 1 .. Len(queue) : queue'[x] = queue[x]
      /\ queue'[Len(queue) + 1] = j
  BY <1>1, <1>2, AppendProperties
<1>4. Len(queue) \in Nat
  BY <1>1, LenProperties
<1> QED  BY <1>1, <1>3, <1>4

\* SubmitReader keeps the invariant.
LEMMA SubmitReaderInv ==
  ASSUME TreeInv, NEW c \in Calls, Running(c), SubmitReader(c)
  PROVE  TreeInv'
<1>1. PICK w : w = work[c]
  OBVIOUS
<1>2. PICK v : v = work'[c]
  OBVIOUS
<1>3. /\ CallOK(w) /\ w.main = "start" /\ w.request.gpu /\ PhaseOf(w) # "fake"
      /\ UNCHANGED <<busy, gpu, poisoned, faults>>
  BY <1>1, RunningCall, Names DEF SubmitReader
<1>4. Shape(c) /\ Keeps(w, v, Fields \ {"main", "reader"}) /\ v.main = "submit" /\ v.reader = "queued"
  BY <1>1, <1>2, <1>3 DEF SubmitReader, TreeInv, CallsInv, Shape, Keeps, CallOK, RecordOK, Fields
<1>5. v.builder = w.builder /\ v.held = w.held
  BY <1>4 DEF Keeps, Fields
<1>6. Control(w, v)
  BY <1>3, <1>4, <1>5 DEF Control, Keeps, OnGpu
<1>7. CallOK(v)
  BY <1>3, <1>6, ControlStep
<1>8. w.reader = "none"
  BY <1>3 DEF CallOK, MainOK
<1>9. Submit(c, "reader", 0)
  BY DEF SubmitReader
<1>10. PoolInv' /\ OthersStay(c)
  <2>1. /\ queue' \in Seq(Jobs) /\ Len(queue') = Len(queue) + 1
        /\ \A x \in 1 .. Len(queue) : queue'[x] = queue[x]
        /\ \A x \in Len(queue) + 1 .. Len(queue) + 1 : queue'[x].call = c /\ queue'[x].role = "reader"
    BY <1>9, SubmitOne
  <2> QED  BY <1>1, <1>2, <1>3, <1>4, <1>5, <1>7, <1>8, <2>1, SubmitPool
<1>11. Cause(c)
  <2>0. Unbuilt(v) => Unbuilt(w)
    BY <1>4 DEF Keeps, Fields, Unbuilt
  <2> QED  BY <2>0, <1>1, <1>2, <1>3, <1>4, <1>5, NothingFails
<1>12. HashOK(c)'
  BY <1>2, <1>4 DEF HashOK
<1> QED  BY <1>2, <1>7, <1>10, <1>11, <1>12, CallStep

\* SubmitBuilder keeps the invariant.
LEMMA SubmitBuilderInv ==
  ASSUME TreeInv, NEW c \in Calls, Running(c), SubmitBuilder(c)
  PROVE  TreeInv'
<1>1. PICK w : w = work[c]
  OBVIOUS
<1>2. PICK v : v = work'[c]
  OBVIOUS
<1>3. CallOK(w) /\ w.main = "submit" /\ UNCHANGED <<busy, gpu, poisoned, faults>>
  BY <1>1, RunningCall DEF SubmitBuilder
<1>4. Shape(c) /\ Keeps(w, v, Fields \ {"main", "builder"}) /\ v.main = "recv" /\ v.builder = "queued"
  BY <1>1, <1>2, <1>3 DEF SubmitBuilder, TreeInv, CallsInv, Shape, Keeps, CallOK, RecordOK, Fields
<1>5. v.reader = w.reader /\ v.held = w.held
  BY <1>4 DEF Keeps, Fields
<1>6. Control(w, v)
  BY <1>3, <1>4, <1>5 DEF Control, Keeps
<1>7. CallOK(v)
  BY <1>3, <1>6, ControlStep
<1>8. w.builder = "none"
  BY <1>3 DEF CallOK, MainOK
<1>9. Submit(c, "builder", 0)
  BY DEF SubmitBuilder
<1>10. PoolInv' /\ OthersStay(c)
  <2>1. /\ queue' \in Seq(Jobs) /\ Len(queue') = Len(queue) + 1
        /\ \A x \in 1 .. Len(queue) : queue'[x] = queue[x]
        /\ \A x \in Len(queue) + 1 .. Len(queue) + 1 : queue'[x].call = c /\ queue'[x].role = "builder"
    BY <1>9, SubmitOne
  <2> QED  BY <1>1, <1>2, <1>3, <1>4, <1>5, <1>7, <1>8, <2>1, SubmitPool
<1>11. Cause(c)
  <2>0. Unbuilt(v) => Unbuilt(w)
    BY <1>4 DEF Keeps, Fields, Unbuilt
  <2> QED  BY <2>0, <1>1, <1>2, <1>3, <1>4, <1>5, NothingFails
<1>12. HashOK(c)'
  BY <1>2, <1>4 DEF HashOK
<1> QED  BY <1>2, <1>7, <1>10, <1>11, <1>12, CallStep

\* SubmitChunks keeps the invariant: every chunk has one job.
LEMMA SubmitChunksInv ==
  ASSUME TreeInv, NEW c \in Calls, Running(c), SubmitChunks(c)
  PROVE  TreeInv'
<1>1. PICK w : w = work[c]
  OBVIOUS
<1>2. PICK v : v = work'[c]
  OBVIOUS
<1>3. /\ CallOK(w) /\ w.main = "start" /\ ~w.request.gpu /\ PhaseOf(w) = "tree_c"
      /\ UNCHANGED <<busy, gpu, poisoned, faults>>
  BY <1>1, RunningCall, Names DEF SubmitChunks
<1>h. PICK held : held = [k \in 1 .. NodesCount |-> -1]
  OBVIOUS
<1>w. work' = [work EXCEPT ![c].main = "hash", ![c].held = held]
  BY <1>h DEF SubmitChunks
<1>4. Shape(c) /\ Keeps(w, v, Fields \ {"main", "held"}) /\ v.main = "hash" /\ v.held = held
  BY <1>1, <1>2, <1>3, <1>w DEF TreeInv, CallsInv, Shape, Keeps, CallOK, RecordOK, Fields
<1>5. v.reader = w.reader /\ v.builder = w.builder
  BY <1>4 DEF Keeps, Fields
<1>6. Control(w, v)
  BY <1>3, <1>4, <1>5 DEF Control, Keeps
<1>7. CallOK(v)
  BY <1>3, <1>6, ControlStep
<1> DEFINE n    == (NodesCount + ChunkSize - 1) \div ChunkSize
           jobs == [k \in 1 .. n |-> [call |-> c, role |-> "chunk", part |-> k - 1]]
<1>8. queue' = queue \o jobs /\ queue \in Seq(Jobs)
  BY DEF SubmitChunks, TreeInv, PoolInv
<1>9. /\ n \in Nat
      /\ \A k \in 1 .. NodesCount : (k - 1) \div ChunkSize \in 0 .. n - 1
  BY ChunkFacts
<1> HIDE DEF n
<1>10. jobs \in [1 .. n -> Jobs] /\ \A k \in 1 .. n : jobs[k] = [call |-> c, role |-> "chunk", part |-> k - 1]
  BY <1>9 DEF Jobs
<1>11. jobs \in Seq(Jobs) /\ Len(jobs) = n
  <2> HIDE DEF jobs
  <2> QED  BY <1>9, <1>10
<1> HIDE DEF jobs
<1>12. /\ queue' \in Seq(Jobs) /\ Len(queue') = Len(queue) + n /\ Len(queue) \in Nat
       /\ \A x \in 1 .. Len(queue) : queue'[x] = queue[x]
       /\ \A x \in Len(queue) + 1 .. Len(queue) + n :
             queue'[x].call = c /\ queue'[x].role = "chunk" /\ queue'[x].part = x - Len(queue) - 1
  <2>1. Len(queue) \in Nat
    BY <1>8, LenProperties
  <2>2. /\ queue' \in Seq(Jobs) /\ Len(queue') = Len(queue) + n
        /\ \A x \in 1 .. Len(queue) + n :
              queue'[x] = IF x <= Len(queue) THEN queue[x] ELSE jobs[x - Len(queue)]
    BY <1>8, <1>11, ConcatProperties
  <2>3. ASSUME NEW x \in 1 .. Len(queue)  PROVE queue'[x] = queue[x]
    <3>1. x \in 1 .. Len(queue) + n /\ x <= Len(queue)
      BY <1>9, <2>1
    <3> QED  BY <2>2, <3>1
  <2>4. ASSUME NEW x \in Len(queue) + 1 .. Len(queue) + n
        PROVE  queue'[x].call = c /\ queue'[x].role = "chunk" /\ queue'[x].part = x - Len(queue) - 1
    <3>1. x \in 1 .. Len(queue) + n /\ ~(x <= Len(queue)) /\ x - Len(queue) \in 1 .. n
      BY <1>9, <2>1
    <3>2. queue'[x] = jobs[x - Len(queue)]
      BY <2>2, <3>1
    <3> QED  BY <1>10, <3>1, <3>2
  <2> QED  BY <2>1, <2>2, <2>3, <2>4
<1>13. PoolInv' /\ OthersStay(c)
  BY <1>1, <1>2, <1>3, <1>4, <1>5, <1>7, <1>9, <1>12, SubmitPool
<1>14. Cause(c)
  <2>0. Unbuilt(v) => Unbuilt(w)
    BY <1>4 DEF Keeps, Fields, Unbuilt
  <2> QED  BY <2>0, <1>1, <1>2, <1>3, <1>4, <1>5, NothingFails
<1>15. HashOK(c)'
  <2>1. held \in [1 .. NodesCount -> Int]
    BY <1>h
  <2>2. ASSUME NEW k \in 1 .. NodesCount
        PROVE  \E j \in JobsOf(c)' : j.role = "chunk" /\ j.part = (k - 1) \div ChunkSize
    <3> DEFINE p == (k - 1) \div ChunkSize
               x == Len(queue) + p + 1
    <3>1. p \in 0 .. n - 1
      BY <1>9
    <3> HIDE DEF p
    <3>2. x \in Len(queue) + 1 .. Len(queue) + n /\ x - Len(queue) - 1 = p /\ x \in 1 .. Len(queue')
      BY <1>9, <1>12, <3>1
    <3> HIDE DEF x
    <3>3. queue'[x].call = c /\ queue'[x].role = "chunk" /\ queue'[x].part = p
      BY <1>12, <3>2
    <3>4. x \in DOMAIN queue'
      BY <1>12, <3>2, LenProperties
    <3>5. queue'[x] \in JobsOf(c)'
      BY <3>3, <3>4 DEF JobsOf, Range
    <3> QED  BY <3>3, <3>5 DEF p
  <2> QED  BY <1>2, <1>4, <2>1, <2>2 DEF HashOK
<1> QED  BY <1>2, <1>7, <1>13, <1>14, <1>15, CallStep

\* A worker takes the first job of the queue.
LEMMA TakeJobInv ==
  ASSUME TreeInv, TakeJob
  PROVE  TreeInv'
<1>0. PoolInv /\ queue \in Seq(Jobs) /\ busy \subseteq Jobs /\ queue # <<>>
  BY DEF TreeInv, PoolInv, TakeJob
<1>1. PICK j : j = Head(queue)
  OBVIOUS
<1>2. /\ j \in Jobs /\ queue' \in Seq(Jobs) /\ Len(queue') = Len(queue) - 1
      /\ \A x \in 1 .. Len(queue') : queue'[x] = queue[x + 1]
      /\ queue' = Tail(queue) /\ busy' = busy \cup {j} /\ UNCHANGED <<gpu, poisoned, faults>>
  BY <1>0, <1>1, HeadTailProperties DEF TakeJob
<1>3. /\ Len(queue) \in Nat \ {0} /\ DOMAIN queue = 1 .. Len(queue) /\ DOMAIN queue' = 1 .. Len(queue')
      /\ j = queue[1]
  <2>1. Len(queue) \in Nat \ {0}
    BY <1>0, EmptySeq
  <2> QED  BY <1>0, <1>1, <1>2, <2>1, LenProperties
<1>4. PICK c \in Calls : c = j.call
  BY <1>2 DEF Jobs
<1>5. PICK w : w = work[c]
  OBVIOUS
<1>6. PICK v : v = work'[c]
  OBVIOUS
<1>7. /\ w # NoCall /\ w.main \notin {"done", "failed"}
      /\ j.role = "chunk" => w.main \in {"hash", "panic"}
      /\ j.role = "reader" => w.reader = "queued"
      /\ j.role = "builder" => w.builder = "queued"
  <2>1. j \in Range(queue)
    BY <1>3 DEF Range
  <2> QED  BY <1>0, <1>4, <1>5, <2>1 DEF PoolInv
<1>8. CallOK(w)
  BY <1>5, <1>7 DEF TreeInv, CallsInv
<1>9. PICK reader : reader = IF j.role = "reader" THEN "prepare" ELSE w.reader
  OBVIOUS
<1>10. PICK builder : builder = IF j.role = "builder" THEN "lock" ELSE w.builder
  OBVIOUS
<1>11. work' = [work EXCEPT ![c].reader = reader, ![c].builder = builder]
  <2>1. work' = [work EXCEPT ![j.call].reader = IF j.role = "reader" THEN "prepare" ELSE @,
                             ![j.call].builder = IF j.role = "builder" THEN "lock" ELSE @]
    BY <1>1 DEF TakeJob
  <2>2. work' = [work EXCEPT ![c].reader = IF j.role = "reader" THEN "prepare" ELSE work[c].reader,
                             ![c].builder = IF j.role = "builder" THEN "lock" ELSE work[c].builder]
    BY <1>4, <1>5, <1>8, <2>1 DEF TreeInv, CallsInv, CallOK, RecordOK, Fields
  <2> QED  BY <1>5, <1>9, <1>10, <2>2
<1>12. Shape(c) /\ Keeps(w, v, Fields \ {"reader", "builder"}) /\ v.reader = reader /\ v.builder = builder
  BY <1>5, <1>6, <1>8, <1>11 DEF TreeInv, CallsInv, Shape, Keeps, CallOK, RecordOK, Fields
<1>13. v.main = w.main /\ v.held = w.held /\ v.written = w.written
  BY <1>12 DEF Keeps, Fields
<1>14. Control(w, v)
  <2>1. j.role \in {"reader", "builder", "chunk"}
    BY <1>2 DEF Jobs
  <2>2. Keeps(w, v, Fields \ {"main", "reader", "builder", "held"})
    BY <1>12 DEF Keeps
  <2>3. CASE j.role = "reader"
    BY <1>7, <1>9, <1>10, <1>12, <1>13, <2>2, <2>3 DEF Control
  <2>4. CASE j.role = "builder"
    BY <1>7, <1>9, <1>10, <1>12, <1>13, <2>2, <2>4 DEF Control
  <2>5. CASE j.role = "chunk"
    BY <1>7, <1>9, <1>10, <1>12, <1>13, <2>2, <2>5 DEF Control
  <2> QED  BY <2>1, <2>3, <2>4, <2>5
<1>15. CallOK(v)
  BY <1>8, <1>14, ControlStep
<1>16. Range(queue) = Range(queue)' \cup {j}
  <2>1. ASSUME NEW i \in Range(queue)  PROVE i \in Range(queue)' \cup {j}
    <3>1. PICK x \in DOMAIN queue : i = queue[x]
      BY DEF Range
    <3>2. CASE x = 1
      BY <1>3, <3>1, <3>2
    <3>3. CASE x # 1
      <4>1. x - 1 \in 1 .. Len(queue') /\ (x - 1) + 1 = x
        BY <1>2, <1>3, <3>1, <3>3
      <4>2. queue'[x - 1] = i
        BY <1>2, <3>1, <4>1
      <4> QED  BY <1>3, <4>1, <4>2 DEF Range
    <3> QED  BY <3>2, <3>3
  <2>2. ASSUME NEW i \in Range(queue)'  PROVE i \in Range(queue)
    <3>1. PICK x \in DOMAIN queue' : i = queue'[x]
      BY DEF Range
    <3>2. x + 1 \in DOMAIN queue /\ i = queue[x + 1]
      BY <1>2, <1>3, <3>1
    <3> QED  BY <3>2 DEF Range
  <2>3. j \in Range(queue)
    BY <1>3 DEF Range
  <2> QED  BY <2>1, <2>2, <2>3
<1>17. \A d \in Calls : JobsOf(d)' = JobsOf(d)
  <2>1. Range(queue)' \cup busy' = Range(queue) \cup busy
    BY <1>2, <1>16
  <2> QED  BY <2>1 DEF JobsOf
<1>18. OthersStay(c)
  BY <1>12, <1>17 DEF OthersStay, Shape
<1>19. PoolInv'
  <2>1. ASSUME NEW x \in DOMAIN queue', NEW y \in DOMAIN queue', queue'[x].role # "chunk",
               queue'[x].call = queue'[y].call, queue'[x].role = queue'[y].role
        PROVE  x = y
    <3>1. /\ x + 1 \in DOMAIN queue /\ y + 1 \in DOMAIN queue
          /\ queue'[x] = queue[x + 1] /\ queue'[y] = queue[y + 1]
      BY <1>2, <1>3
    <3>2. x + 1 = y + 1
      BY <1>0, <2>1, <3>1 DEF PoolInv
    <3> QED  BY <1>2, <1>3, <3>2
  <2>2. ASSUME NEW i \in Range(queue)' \cup busy'
        PROVE  /\ work'[i.call] # NoCall /\ work'[i.call].main \notin {"done", "failed"}
               /\ i.role = "chunk" => work'[i.call].main \in {"hash", "panic"}
    <3>1. i \in Range(queue) \cup busy
      BY <1>2, <1>16
    <3>2. /\ work[i.call] # NoCall /\ work[i.call].main \notin {"done", "failed"}
          /\ i.role = "chunk" => work[i.call].main \in {"hash", "panic"}
      BY <1>0, <3>1 DEF PoolInv
    <3>3. i.call \in Calls
      <4>1. Range(queue) \subseteq Jobs
        BY <1>0, <1>3, LenProperties DEF Range
      <4> QED  BY <1>0, <3>1, <4>1 DEF Jobs
    <3>4. CASE i.call = c
      BY <1>5, <1>6, <1>13, <1>15, <3>2, <3>4, CallIsNew
    <3>5. CASE i.call # c
      BY <1>12, <3>2, <3>3, <3>5 DEF Shape
    <3> QED  BY <3>4, <3>5
  <2>3. ASSUME NEW i \in Range(queue)'
        PROVE  /\ i.role = "reader" => work'[i.call].reader = "queued"
               /\ i.role = "builder" => work'[i.call].builder = "queued"
    <3>1. PICK x \in DOMAIN queue' : i = queue'[x]
      BY <2>3 DEF Range
    <3>2. x + 1 \in DOMAIN queue /\ i = queue[x + 1] /\ x + 1 # 1 /\ 1 \in DOMAIN queue
      BY <1>2, <1>3, <3>1
    <3>3. i.call \in Calls /\ i \in Range(queue)
      <4>1. i \in Range(queue) /\ i \in Jobs
        BY <1>0, <1>3, <3>2, ElementOfSeq DEF Range
      <4> QED  BY <4>1 DEF Jobs
    <3>4. /\ i.role = "reader" => work[i.call].reader = "queued"
          /\ i.role = "builder" => work[i.call].builder = "queued"
      BY <1>0, <3>3 DEF PoolInv
    <3>5. ~(i.role # "chunk" /\ i.call = j.call /\ i.role = j.role)
      BY <1>0, <1>3, <3>2 DEF PoolInv
    <3>6. CASE i.call = c
      BY <1>4, <1>5, <1>6, <1>9, <1>10, <1>12, <3>4, <3>5, <3>6
    <3>7. CASE i.call # c
      BY <1>12, <3>3, <3>4, <3>7 DEF Shape
    <3> QED  BY <3>6, <3>7
  <2>4. queue' \in Seq(Jobs) /\ busy' \subseteq Jobs
    BY <1>0, <1>2
  <2> QED  BY <2>1, <2>2, <2>3, <2>4 DEF PoolInv
<1>20. Cause(c)
  <2>1. v.reader = "panic" => v.reader = w.reader
    BY <1>9, <1>12
  <2>2. v.builder = "panic" => v.builder = w.builder
    BY <1>10, <1>12
  <2>0. Unbuilt(v) => Unbuilt(w)
    BY <1>12 DEF Keeps, Fields, Unbuilt
  <2> QED  BY <2>0, <1>2, <1>5, <1>6, <1>8, <1>13, <2>1, <2>2, NothingFails
<1>21. HashOK(c)'
  <2>1. HashOK(c)
    BY DEF TreeInv, HashInv
  <2> QED  BY <1>5, <1>6, <1>13, <1>17, <2>1 DEF HashOK
<1> QED  BY <1>6, <1>15, <1>18, <1>19, <1>20, <1>21, CallStep

\* No call has begun.
NoneYet ==
  queue = <<>> /\ busy = {} /\ poisoned = FALSE /\ faults = 0 /\ work = [c \in Calls |-> NoCall]

\* Before any call, and after the process has exited, the invariant holds.
LEMMA NothingYet == NoneYet => TreeInv
<1> SUFFICES ASSUME NoneYet  PROVE TreeInv
  OBVIOUS
<1> USE DEF NoneYet
<1>1. \A c \in Calls : work[c] = NoCall /\ work[c].main = "none"
  BY DEF NoCall
<1>2. CallsInv /\ CauseInv
  BY <1>1 DEF CallsInv, CauseInv
<1>3. HashInv
  BY <1>1 DEF HashInv, HashOK
<1>4. PoolInv
  <2>1. queue \in Seq(Jobs) /\ DOMAIN queue = {} /\ Range(queue) = {}
    BY DEF Range
  <2> QED  BY <2>1 DEF PoolInv
<1> QED  BY <1>2, <1>3, <1>4 DEF TreeInv

\* Every step of a running call keeps the invariant.
LEMMA StepInv ==
  ASSUME TreeInv, NEW c \in Calls, Running(c), Step(c)
  PROVE  TreeInv'
  BY SubmitReaderInv, SubmitBuilderInv, PrepareInv, LockGpuInv, SendBatchInv, SendTreeInv, CreateFileInv,
     WritePieceInv, JoinScopeInv, GoneInv, SubmitChunksInv, HashChunkInv, BuildBaseTreeInv, BuildTreeRInv,
     FakeInv DEF Step

\* The inductive invariant holds in every state (generate_tree_c_gpu, generate_tree_c_cpu,
\* generate_tree_r_last_gpu and their callers), however many calls share the pool and the lock.
THEOREM TreesCorrect == TreeSpec => []TreeInv
<1>1. TreeInit => TreeInv
  BY NothingYet DEF TreeInit, NoneYet
<1>2. TreeInv /\ [TreeNext]_treeVars => TreeInv'
  <2> SUFFICES ASSUME TreeInv, [TreeNext]_treeVars  PROVE TreeInv'
    OBVIOUS
  <2>1. CASE TakeJob
    BY <2>1, TakeJobInv
  <2>2. CASE Exit
    <3>1. NoneYet'
      BY <2>2 DEF Exit, NoneYet
    <3>2. NoneYet' => TreeInv'
      BY NothingYet, PTL
    <3> QED  BY <3>1, <3>2
  <2>3. ASSUME NEW c \in Calls, Begin(c)  PROVE TreeInv'
    BY <2>3, BeginInv
  <2>4. ASSUME NEW c \in Calls, Running(c), Step(c)  PROVE TreeInv'
    BY <2>4, StepInv
  <2>5. ASSUME NEW c \in Calls, Running(c), ReadFails(c) \/ ChunkFails(c) \/ WriteFails(c) \/ BaseTreeFails(c)
        PROVE  TreeInv'
    BY <2>5, FaultInv
  <2>6. CASE UNCHANGED treeVars
    BY <2>6 DEF treeVars, TreeInv, CallsInv, PoolInv, HashInv, HashOK, JobsOf, CauseInv
  <2> QED  BY <2>1, <2>2, <2>3, <2>4, <2>5, <2>6 DEF TreeNext
<1> QED  BY <1>1, <1>2, PTL DEF TreeSpec

\* The invariant says that the trees are right.
LEMMA InvImpliesTreesRight == TreeInv => TreesRight
<1> SUFFICES ASSUME TreeInv, NEW c \in {c \in Calls : work[c] # NoCall}
             PROVE  LET phases == Phases(c)
                        past   == {k \in DOMAIN phases : work[c].main = "done" \/ k < work[c].phase}
                    IN /\ \A k \in past, i \in 0 .. (TreeCount - 1) :
                             phases[k] # "fake" =>
                               LET file == work[c].files[<<phases[k], i>>]
                               IN \/ file = RightFile(phases[k], i)
                                  \/ phases[k] = "tree_c" /\ ~UseGpu(c) /\ file = Leftover /\ faults > 0
                       /\ work[c].main = "done" /\ Seals(c) => \A l \in Leaves : work[c].encoded[l] = 1
                       /\ work[c].main = "failed" => faults > 0
  BY DEF TreesRight
<1>1. PICK w : w = work[c]
  OBVIOUS
<1>2. CallOK(w) /\ c \in Calls
  BY <1>1 DEF TreeInv, CallsInv
<1>3. RecordOK(w) /\ MainOK(w) /\ FilesOK(w) /\ EncodedOK(w)
  BY <1>2 DEF CallOK
<1>4. Phases(c) = PhasesOf(w) /\ Seals(c) = (w.request.op = "seal") /\ Phase(c) = PhaseOf(w)
  BY <1>1, Names
<1>5. DOMAIN PhasesOf(w) = 1 .. Len(PhasesOf(w))
  <2>1. /\ w.request.op \in {"seal", "update", "fake"}
        /\ Len(PhasesOf(w)) = IF w.request.op = "seal" THEN 2 ELSE 1
        /\ w.request.op = "seal"   => PhasesOf(w) = <<"tree_c", "tree_r">>
        /\ w.request.op = "update" => PhasesOf(w) = <<"tree_r">>
        /\ w.request.op = "fake"   => PhasesOf(w) = <<"fake">>
    BY <1>3, PhaseFacts
  <2>2. /\ DOMAIN <<"tree_c", "tree_r">> = 1 .. 2
        /\ DOMAIN <<"tree_r">> = 1 .. 1
        /\ DOMAIN <<"fake">> = 1 .. 1
    OBVIOUS
  <2> QED  BY <2>1, <2>2
<1>6. ASSUME NEW k \in 1 .. Len(PhasesOf(w)), w.main = "done" \/ k < w.phase,
             NEW i \in 0 .. (TreeCount - 1), PhasesOf(w)[k] # "fake"
      PROVE  LET file == w.files[<<PhasesOf(w)[k], i>>]
             IN \/ file = RightFile(PhasesOf(w)[k], i)
                \/ PhasesOf(w)[k] = "tree_c" /\ ~w.request.gpu /\ file = Leftover /\ faults > 0
  <2> DEFINE file == w.files[<<PhasesOf(w)[k], i>>]
  <2>1. /\ w.phase \in 1 .. Len(PhasesOf(w)) /\ Len(PhasesOf(w)) \in Nat /\ w.written \in Nat
        /\ PhasesOf(w)[Len(PhasesOf(w))] # "tree_c"
    <3>1. w.phase \in 1 .. Len(PhasesOf(w)) /\ w.written \in Nat
      BY <1>3, Sizes DEF RecordOK, MainOK
    <3>2. /\ w.request.op \in {"seal", "update", "fake"}
          /\ Len(PhasesOf(w)) = IF w.request.op = "seal" THEN 2 ELSE 1
          /\ w.request.op = "seal"   => PhasesOf(w) = <<"tree_c", "tree_r">>
          /\ w.request.op = "update" => PhasesOf(w) = <<"tree_r">>
          /\ w.request.op = "fake"   => PhasesOf(w) = <<"fake">>
      BY <1>3, PhaseFacts
    <3>3. PhasesOf(w)[Len(PhasesOf(w))] # "tree_c"
      <4>1. /\ <<"tree_c", "tree_r">>[2] # "tree_c"
            /\ <<"tree_r">>[1] # "tree_c" /\ <<"fake">>[1] # "tree_c"
        OBVIOUS
      <4> QED  BY <3>2, <4>1
    <3> QED  BY <3>1, <3>2, <3>3
  <2>2. /\ <<PhasesOf(w)[k], i>> \in DOMAIN w.files
        /\ \/ file = RightFile(PhasesOf(w)[k], i)
           \/ file \in Missed(w, PhasesOf(w)[k]) /\ file # NoStore
    <3>1. CASE k < w.phase
      BY <1>3, <1>6, <3>1 DEF FilesOK
    <3>2. CASE ~(k < w.phase)
      <4>1. w.main = "done" /\ w.phase = Len(PhasesOf(w))
        BY <1>3, <1>6, <3>2 DEF MainOK
      <4>2. k = w.phase
        BY <2>1, <3>2, <4>1
      <4>3. w.written = TreeCount
        BY <1>3, <1>6, <4>1, <4>2 DEF MainOK, PhaseOf
      <4>4. i < w.written
        BY <4>3, Sizes
      <4>5. Missed(w, PhasesOf(w)[k]) = {}
        BY <2>1, <4>1, <4>2 DEF Missed
      <4> QED  BY <1>3, <1>6, <4>2, <4>4, <4>5 DEF FilesOK
    <3> QED  BY <3>1, <3>2
  <2>3. CASE file \in Missed(w, PhasesOf(w)[k]) /\ file # NoStore
    <3>1. PhasesOf(w)[k] = "tree_c" /\ ~w.request.gpu /\ file = Leftover
      BY <2>3 DEF Missed
    <3>2. Unbuilt(w)
      BY <2>2, <3>1 DEF Unbuilt
    <3>3. faults > 0
      BY <1>1, <3>2 DEF TreeInv, CauseInv
    <3> QED  BY <3>1, <3>3
  <2> QED  BY <2>2, <2>3
<1>7. ASSUME w.main = "done", w.request.op = "seal", NEW l \in Leaves  PROVE w.encoded[l] = 1
  <2>1. /\ PhaseOf(w) = "tree_r"
        /\ w.written = TreeCount
        /\ w.request.gpu => w.tree = TreeCount /\ w.node = 0
    <3>1. w.phase = Len(PhasesOf(w)) /\ Len(PhasesOf(w)) = 2
      BY <1>3, <1>7, PhaseFacts DEF MainOK
    <3>2. PhaseOf(w) = "tree_r"
      BY <1>3, <1>7, <3>1, PhaseFacts
    <3> QED  BY <1>3, <1>7, <3>2 DEF MainOK, OnGpu
  <2>2. TreeCount * NodesCount \in Nat
    BY Sizes
  <2>3. EncodedUpTo(w) = TreeCount * NodesCount
    <3>1. CASE w.request.gpu
      <4>1. EncodedUpTo(w) = w.tree * NodesCount + w.node
        BY <1>7, <2>1, <3>1 DEF EncodedUpTo
      <4> QED  BY <2>1, <2>2, <3>1, <4>1
    <3>2. CASE ~w.request.gpu
      BY <1>7, <2>1, <3>2 DEF EncodedUpTo
    <3> QED  BY <3>1, <3>2
  <2>4. l < EncodedUpTo(w)
    BY <2>2, <2>3 DEF Leaves
  <2> QED  BY <1>3, <2>4 DEF EncodedOK
<1>8. w.main = "failed" => faults > 0
  BY <1>1, <1>2 DEF TreeInv, CauseInv
<1>9. ASSUME NEW k \in DOMAIN Phases(c), work[c].main = "done" \/ k < work[c].phase,
             NEW i \in 0 .. (TreeCount - 1), Phases(c)[k] # "fake"
      PROVE  LET file == work[c].files[<<Phases(c)[k], i>>]
             IN \/ file = RightFile(Phases(c)[k], i)
                \/ Phases(c)[k] = "tree_c" /\ ~UseGpu(c) /\ file = Leftover /\ faults > 0
  <2>1. k \in 1 .. Len(PhasesOf(w)) /\ Phases(c) = PhasesOf(w)
    BY <1>4, <1>5
  <2>2. w.main = "done" \/ k < w.phase
    BY <1>1, <1>9
  <2>3. \/ w.files[<<PhasesOf(w)[k], i>>] = RightFile(PhasesOf(w)[k], i)
        \/ /\ PhasesOf(w)[k] = "tree_c" /\ ~w.request.gpu
           /\ w.files[<<PhasesOf(w)[k], i>>] = Leftover /\ faults > 0
    BY <1>6, <1>9, <2>1, <2>2
  <2> QED  BY <1>1, <2>1, <2>3 DEF UseGpu
<1>10. work[c].main = "done" /\ Seals(c) => \A l \in Leaves : work[c].encoded[l] = 1
  BY <1>1, <1>4, <1>7
<1>11. work[c].main = "failed" => faults > 0
  BY <1>1, <1>8
<1> QED  BY <1>9, <1>10, <1>11

\* For any number of calls, workers, trees, leaves, batch sizes and failures a tree that
\* phase 2 goes on with is the tree of its own leaves (or, for tree C on the CPU and only
\* after a failure, a store of the right length), sealing has encoded every node of the
\* replica exactly once, and a call fails only after a failure (generate_tree_c_gpu,
\* generate_tree_c_cpu, generate_tree_r_last_gpu).
THEOREM TreesAreRight == TreeSpec => []TreesRight
  BY TreesCorrect, InvImpliesTreesRight, PTL
=============================================================================

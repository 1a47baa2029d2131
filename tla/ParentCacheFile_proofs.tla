----------------------- MODULE ParentCacheFile_proofs -----------------------
(***************************************************************************)
(* Proofs about the shared parent cache file, for any number of processes, *)
(* chunks and calls and any bound on kills and errors: the type invariant  *)
(* with its lock discipline, ReadyComplete and MappedStable.               *)
(*                                                                         *)
(* CacheInv ties the three views of a lock together: where a process is,   *)
(* the inode it has open and the lock the file system holds for it.  From  *)
(* it follows that a mapped inode is out of reach of every generate call,  *)
(* and that a file of full length is complete, or is still being filled    *)
(* under the exclusive lock, or is what a broken off generate call left.   *)
(***************************************************************************)
EXTENDS ParentCacheFile, FiniteSetTheorems, TLAPS

\* A process has the file open from open_exclusive to the unlock, and from
\* File::open in CacheData::open to the drop of the cache.
Closed  == {"idle", "new", "open", "remove", "create", "openData", "error"}
Writing == {"lock", "fill"}
Mapping == {"checkLen", "ready"}
Holding == Writing \cup Mapping \cup {"lockShared"}

\* A process holds a file open exactly while its program counter says so.
FdInv ==
    /\ pc \in [Procs -> Closed \cup Holding]
    /\ \A p \in Procs : pc[p] \in Holding <=> fd[p] # None

\* The locks are held where generate and CacheData::open believe they are.
LockInv ==
    /\ \A p \in Procs : pc[p] = "fill" => writer[fd[p]] = p
    /\ \A p \in Procs : pc[p] \in Mapping => p \in readers[fd[p]]
    /\ \A p \in Procs, f \in Inodes : p \in readers[f] => pc[p] \in Mapping /\ fd[p] = f

\* create_new gives every generate call an inode of its own.
OwnInv ==
    \A p, q \in Procs : p # q /\ pc[p] \in Writing /\ pc[q] \in Writing => fd[p] # fd[q]

\* A mapped file has its full length; a file of full length is complete, some
\* process is filling it, or its generate call was broken off.
LengthInv ==
    /\ \A p \in Procs : pc[p] = "ready" => fd[p] \in sized
    /\ \A f \in sized : \/ Complete(f) \/ f \in broken
                         \/ \E p \in Procs : pc[p] = "fill" /\ fd[p] = f

\* The inductive invariant.
CacheInv == TypeOK /\ FdInv /\ LockInv /\ OwnInv /\ LengthInv

----------------------------------------------------------------------------
(* The inode of a new file                                                  *)

\* When the path names no file there is an inode nobody has open: the processes
\* hold at most one each.
LEMMA InodeFree ==
  ASSUME TypeOK, path = None
  PROVE  FreeInode \in Inodes /\ \A p \in Procs : fd[p] # FreeInode
<1> USE CacheAssumption
<1>1. \E f \in Inodes : \A p \in Procs : fd[p] # f
  <2> SUFFICES ASSUME \A f \in Inodes : \E p \in Procs : fd[p] = f PROVE FALSE
    OBVIOUS
  <2> DEFINE g == [f \in Inodes |-> CHOOSE p \in Procs : fd[p] = f]
  <2>1. \A f \in Inodes : g[f] \in Procs /\ fd[g[f]] = f
    OBVIOUS
  <2>2. g \in [Inodes -> Procs]
    BY <2>1
  <2>3. Cardinality(Procs) \in Nat
    BY FS_CardinalityType
  <2>4. IsFiniteSet(Inodes) /\ Cardinality(Inodes) = Cardinality(Procs) + 1
    <3> DEFINE n == Cardinality(Procs)
    <3>1. n \in Nat /\ 1 \in Int /\ n + 1 \in Int /\ ~(1 > n + 1) /\ (n + 1) - 1 + 1 = n + 1
      BY <2>3
    <3> HIDE DEF n
    <3>2. IsFiniteSet(1 .. n + 1) /\ Cardinality(1 .. n + 1) = n + 1
      BY <3>1, FS_Interval
    <3> QED
      BY <3>2 DEF n, Inodes
  <2>5. \E x, y \in Inodes : x # y /\ g[x] = g[y]
    <3> HIDE DEF g
    <3> QED
      BY <2>2, <2>3, <2>4, FS_PigeonHole
  <2>6. PICK x \in Inodes, y \in Inodes : x # y /\ g[x] = g[y]
    BY <2>5
  <2>7. fd[g[x]] = x /\ fd[g[y]] = y
    BY <2>1
  <2> QED
    <3> HIDE DEF g
    <3> QED
      BY <2>6, <2>7
<1>2. None \notin Inodes
  BY DEF Inodes
<1>3. \E f \in Inodes : f # path /\ \A p \in Procs : fd[p] # f
  BY <1>1, <1>2
<1> QED
  BY <1>3 DEF FreeInode

\* A process that has no file open holds no lock; one that is not filling a file
\* holds no exclusive lock.
LEMMA NoLock ==
  ASSUME CacheInv, NEW p \in Procs
  PROVE  /\ pc[p] # "fill" => \A f \in Inodes : writer[f] # p
         /\ pc[p] \notin Mapping => \A f \in Inodes : p \notin readers[f]
BY CacheAssumption DEF CacheInv, TypeOK, LockInv

\* The inode a process fills is mapped by nobody and filled by nobody else.
LEMMA FillAlone ==
  ASSUME CacheInv, NEW p \in Procs, pc[p] = "fill"
  PROVE  /\ fd[p] \in Inodes /\ writer[fd[p]] = p /\ readers[fd[p]] = {}
         /\ \A q \in Procs : pc[q] \in Mapping => fd[q] # fd[p]
         /\ \A q \in Procs : q # p /\ pc[q] = "fill" => fd[q] # fd[p]
<1>1. fd[p] \in Inodes /\ writer[fd[p]] = p
  BY DEF CacheInv, TypeOK, FdInv, LockInv, Holding, Writing
<1>2. readers[fd[p]] = {}
  BY <1>1, CacheAssumption DEF CacheInv, TypeOK
<1> QED
  BY <1>1, <1>2 DEF CacheInv, LockInv, OwnInv, Writing

----------------------------------------------------------------------------
(* The steps                                                                *)

\* The invariant holds before any process has called, with no file at the path.
LEMMA CacheInit == Init => CacheInv
BY CacheAssumption
   DEF Init, CacheInv, TypeOK, FdInv, LockInv, OwnInv, LengthInv, Closed, Holding, Writing, Mapping

\* Steps of a process that has no file open, before and after: they look at the
\* path, delete the file or report an error.
LEMMA CacheClosed ==
  ASSUME CacheInv, NEW p \in Procs, NEW s \in Closed,
         pc[p] \in Closed, pc' = [pc EXCEPT ![p] = s],
         path' \in {path, None}, regen' \in [Procs -> BOOLEAN],
         UNCHANGED <<sized, filled, writer, readers, fd, verify, broken>>
  PROVE  CacheInv'
<1> USE CacheAssumption DEF Closed, Holding, Writing, Mapping
<1>1. TypeOK'
  <2>1. \A f \in Inodes : writer[f] # None => writer[f] # p
    BY DEF CacheInv, TypeOK
  <2>2. \A f \in Inodes : writer'[f] # None =>
           pc'[writer'[f]] = "fill" /\ fd'[writer'[f]] = f /\ readers'[f] = {}
    BY <2>1 DEF CacheInv, TypeOK, FdInv
  <2> QED
    BY <2>2 DEF CacheInv, TypeOK
<1>2. FdInv'
  BY DEF CacheInv, FdInv
<1>3. LockInv'
  BY NoLock DEF CacheInv, FdInv, LockInv
<1>4. OwnInv'
  BY DEF CacheInv, FdInv, OwnInv
<1>5. LengthInv'
  BY DEF CacheInv, FdInv, LengthInv, Complete
<1> QED
  BY <1>1, <1>2, <1>3, <1>4, <1>5 DEF CacheInv

\* The process no longer has the file open nor any lock on it, as after a drop, an
\* error, a kill or the second open of a regenerated file.
LEMMA CacheRelease ==
  ASSUME CacheInv, NEW p \in Procs, NEW s \in Closed,
         pc' = [pc EXCEPT ![p] = s], Release(p), regen' \in [Procs -> BOOLEAN],
         writer' = [f \in Inodes |-> IF writer[f] = p THEN None ELSE writer[f]],
         broken' \in SUBSET Inodes, broken \subseteq broken',
         pc[p] = "fill" => fd[p] \in broken',
         UNCHANGED <<path, sized, filled, verify>>
  PROVE  CacheInv'
<1> USE CacheAssumption DEF Closed, Holding, Writing, Mapping, Release
<1>1. TypeOK'
  <2>1. \A f \in Inodes : writer'[f] # None => writer'[f] = writer[f] /\ writer[f] # p
    OBVIOUS
  <2>2. \A f \in Inodes : writer'[f] # None =>
           pc'[writer'[f]] = "fill" /\ fd'[writer'[f]] = f /\ readers'[f] = {}
    BY <2>1 DEF CacheInv, TypeOK, FdInv
  <2>3. /\ readers' \in [Inodes -> SUBSET Procs] /\ fd' \in [Procs -> Inodes \cup {None}]
        /\ writer' \in [Inodes -> Procs \cup {None}]
    BY DEF CacheInv, TypeOK
  <2> QED
    BY <2>2, <2>3 DEF CacheInv, TypeOK
<1>2. FdInv'
  BY DEF CacheInv, TypeOK, FdInv
<1>3. LockInv'
  BY DEF CacheInv, TypeOK, FdInv, LockInv
<1>4. OwnInv'
  BY DEF CacheInv, TypeOK, FdInv, OwnInv
<1>5. LengthInv'
  BY DEF CacheInv, TypeOK, FdInv, LengthInv, Complete
<1> QED
  BY <1>1, <1>2, <1>3, <1>4, <1>5 DEF CacheInv

\* LockedFile::open_exclusive on an inode nobody has open.
LEMMA CacheCreate == ASSUME CacheInv, NEW p \in Procs, Create(p) PROVE CacheInv'
<1> USE CacheAssumption DEF Closed, Holding, Writing, Mapping
<1> DEFINE f == FreeInode
<1>1. /\ f \in Inodes /\ \A q \in Procs : fd[q] # f
      /\ pc[p] = "create" /\ pc' = [pc EXCEPT ![p] = "lock"]
      /\ path' = f /\ fd' = [fd EXCEPT ![p] = f] /\ sized' = sized \ {f}
      /\ filled' = [filled EXCEPT ![f] = {}] /\ broken' = broken \ {f}
      /\ UNCHANGED <<writer, readers, regen, verify>>
  BY InodeFree DEF Create, Goto, CacheInv
<1> HIDE DEF f
<1>2. f # None
  BY <1>1 DEF Inodes
<1>3. TypeOK'
  BY <1>1 DEF CacheInv, TypeOK
<1>4. FdInv'
  BY <1>1, <1>2 DEF CacheInv, TypeOK, FdInv
<1>5. LockInv'
  BY <1>1, NoLock DEF CacheInv, TypeOK, FdInv, LockInv
<1>6. OwnInv'
  BY <1>1 DEF CacheInv, TypeOK, FdInv, OwnInv
<1>7. LengthInv'
  BY <1>1 DEF CacheInv, TypeOK, FdInv, LengthInv, Complete
<1> QED
  BY <1>3, <1>4, <1>5, <1>6, <1>7 DEF CacheInv

\* lock_exclusive is granted when no other lock is held.
LEMMA CacheLock == ASSUME CacheInv, NEW p \in Procs, Lock(p) PROVE CacheInv'
<1> USE CacheAssumption DEF Closed, Holding, Writing, Mapping
<1>1. fd[p] \in Inodes /\ pc[p] = "lock"
  BY DEF CacheInv, TypeOK, FdInv, Lock, Goto
<1>2. TypeOK'
  BY <1>1 DEF CacheInv, TypeOK, FdInv, Lock, Goto
<1>3. FdInv'
  BY DEF CacheInv, FdInv, Lock, Goto
<1>4. LockInv'
  BY <1>1 DEF CacheInv, TypeOK, FdInv, LockInv, OwnInv, Lock, Goto
<1>5. OwnInv'
  BY DEF CacheInv, FdInv, OwnInv, Lock, Goto
<1>6. LengthInv'
  BY DEF CacheInv, FdInv, LengthInv, Lock, Goto, Complete
<1> QED
  BY <1>2, <1>3, <1>4, <1>5, <1>6 DEF CacheInv

\* set_len and the writes to the mapping, under the exclusive lock.
LEMMA CacheFill == ASSUME CacheInv, NEW p \in Procs, SetLen(p) \/ Fill(p) PROVE CacheInv'
<1> USE CacheAssumption DEF Closed, Holding, Writing, Mapping
<1>1. /\ pc[p] = "fill" /\ fd[p] \in Inodes
      /\ UNCHANGED <<path, writer, readers, pc, fd, regen, verify, broken>>
      /\ sized' \in {sized, sized \cup {fd[p]}}
      /\ filled' \in [Inodes -> SUBSET Chunks]
      /\ \A f \in Inodes : f # fd[p] => filled'[f] = filled[f]
  BY DEF CacheInv, TypeOK, FdInv, SetLen, Fill
<1>2. TypeOK'
  BY <1>1 DEF CacheInv, TypeOK
<1>3. FdInv' /\ LockInv' /\ OwnInv'
  BY <1>1 DEF CacheInv, FdInv, LockInv, OwnInv
<1>4. LengthInv'
  BY <1>1 DEF CacheInv, TypeOK, LengthInv, Complete
<1> QED
  BY <1>2, <1>3, <1>4 DEF CacheInv

\* The LockedFile of generate is dropped when every parent is written.
LEMMA CacheUnlock == ASSUME CacheInv, NEW p \in Procs, Unlock(p) PROVE CacheInv'
<1> USE CacheAssumption DEF Closed, Holding, Writing, Mapping
<1>1. /\ pc[p] = "fill" /\ fd[p] \in Inodes /\ writer[fd[p]] = p
      /\ \A q \in Procs : q # p /\ pc[q] = "fill" => fd[q] # fd[p]
  BY FillAlone DEF Unlock, Goto
<1>2. TypeOK'
  BY <1>1 DEF CacheInv, TypeOK, FdInv, Unlock, Goto
<1>3. FdInv'
  BY <1>1 DEF CacheInv, TypeOK, FdInv, Unlock, Goto
<1>4. LockInv'
  BY <1>1 DEF CacheInv, TypeOK, FdInv, LockInv, Unlock, Goto
<1>5. OwnInv'
  BY DEF CacheInv, TypeOK, FdInv, OwnInv, Unlock, Goto
<1>6. LengthInv'
  BY <1>1 DEF CacheInv, TypeOK, FdInv, LengthInv, Unlock, Goto, Complete
<1> QED
  BY <1>2, <1>3, <1>4, <1>5, <1>6 DEF CacheInv

\* File::open in CacheData::open, which may find no file.
LEMMA CacheOpenData == ASSUME CacheInv, NEW p \in Procs, OpenData(p) PROVE CacheInv'
<1> USE CacheAssumption DEF Closed, Holding, Writing, Mapping, fileVars
<1>1. /\ pc[p] = "openData" /\ fd' = [fd EXCEPT ![p] = path]
      /\ pc' = [pc EXCEPT ![p] = IF path = None THEN "error" ELSE "lockShared"]
      /\ UNCHANGED <<path, sized, filled, writer, readers, regen, verify, broken>>
  BY DEF OpenData, Goto
<1>2. TypeOK'
  BY <1>1 DEF CacheInv, TypeOK, FdInv
<1>3. FdInv'
  BY <1>1 DEF CacheInv, TypeOK, FdInv
<1>4. LockInv'
  BY <1>1, NoLock DEF CacheInv, TypeOK, FdInv, LockInv
<1>5. OwnInv'
  BY <1>1 DEF CacheInv, TypeOK, FdInv, OwnInv
<1>6. LengthInv'
  BY <1>1 DEF CacheInv, TypeOK, FdInv, LengthInv, Complete
<1> QED
  BY <1>2, <1>3, <1>4, <1>5, <1>6 DEF CacheInv

\* lock_shared is granted when nobody holds the exclusive lock.
LEMMA CacheShare == ASSUME CacheInv, NEW p \in Procs, LockShared(p) PROVE CacheInv'
<1> USE CacheAssumption DEF Closed, Holding, Writing, Mapping
<1>1. /\ pc[p] = "lockShared" /\ fd[p] \in Inodes /\ writer[fd[p]] = None
      /\ pc' = [pc EXCEPT ![p] = "checkLen"]
      /\ readers' = [readers EXCEPT ![fd[p]] = @ \cup {p}]
      /\ UNCHANGED <<path, sized, filled, writer, fd, regen, verify, broken>>
  BY DEF CacheInv, TypeOK, FdInv, LockShared, Goto, CanShare
<1>2. TypeOK'
  BY <1>1 DEF CacheInv, TypeOK, FdInv
<1>3. FdInv'
  BY <1>1 DEF CacheInv, FdInv
<1>4. LockInv'
  BY <1>1 DEF CacheInv, TypeOK, FdInv, LockInv
<1>5. OwnInv'
  BY <1>1 DEF CacheInv, FdInv, OwnInv
<1>6. LengthInv'
  BY <1>1 DEF CacheInv, FdInv, LengthInv, Complete
<1> QED
  BY <1>2, <1>3, <1>4, <1>5, <1>6 DEF CacheInv

\* The length check: the file is too short, is opened again, or is mapped.
LEMMA CacheCheckLen == ASSUME CacheInv, NEW p \in Procs, CheckLen(p) PROVE CacheInv'
<1> USE CacheAssumption DEF Closed, Holding, Writing, Mapping
<1>1. /\ pc[p] = "checkLen" /\ fd[p] \in Inodes
      /\ regen' = [regen EXCEPT ![p] = FALSE] /\ regen' \in [Procs -> BOOLEAN]
      /\ UNCHANGED <<path, sized, filled, writer, verify, broken>> /\ broken \in SUBSET Inodes
  BY DEF CacheInv, TypeOK, FdInv, CheckLen, Goto
<1>2. CASE LongEnough(p) /\ ~regen[p]
  <2>1. pc' = [pc EXCEPT ![p] = "ready"] /\ UNCHANGED <<readers, fd>> /\ fd[p] \in sized
    BY <1>2 DEF CheckLen, Goto, LongEnough
  <2>2. TypeOK'
    <3>1. \A f \in Inodes : writer[f] # None => writer[f] # p
      BY <1>1 DEF CacheInv, TypeOK
    <3> QED
      BY <1>1, <2>1, <3>1 DEF CacheInv, TypeOK, FdInv
  <2>3. FdInv' /\ OwnInv'
    BY <1>1, <2>1 DEF CacheInv, FdInv, OwnInv
  <2>4. LockInv'
    BY <1>1, <2>1 DEF CacheInv, FdInv, LockInv
  <2>5. LengthInv'
    BY <1>1, <2>1 DEF CacheInv, FdInv, LengthInv, Complete
  <2> QED
    BY <2>2, <2>3, <2>4, <2>5 DEF CacheInv
<1>3. CASE ~(LongEnough(p) /\ ~regen[p])
  <2>1. PICK s \in {"error", "openData"} : pc' = [pc EXCEPT ![p] = s]
    BY <1>3 DEF CheckLen, Goto
  <2>2. Release(p)
    BY <1>3 DEF CheckLen
  <2>3. \A f \in Inodes : writer[f] # p
    BY <1>1, NoLock
  <2>4. writer' = [f \in Inodes |-> IF writer[f] = p THEN None ELSE writer[f]]
    BY <1>1, <2>3 DEF CacheInv, TypeOK
  <2> QED
    BY <1>1, <2>1, <2>2, <2>4, CacheRelease
<1> QED
  BY <1>2, <1>3

\* The caller drops the cache, or reports the error.
LEMMA CacheDrop == ASSUME CacheInv, NEW p \in Procs, Drop(p) PROVE CacheInv'
<1> USE CacheAssumption DEF Closed, Holding, Writing, Mapping
<1>1. /\ pc[p] # "fill" /\ pc' = [pc EXCEPT ![p] = "idle"]
      /\ regen' \in [Procs -> BOOLEAN] /\ Release(p)
      /\ UNCHANGED <<path, sized, filled, writer, verify, broken>> /\ broken \in SUBSET Inodes
  BY DEF CacheInv, TypeOK, FdInv, Drop
<1>2. writer' = [f \in Inodes |-> IF writer[f] = p THEN None ELSE writer[f]]
  BY <1>1, NoLock DEF CacheInv, TypeOK
<1> QED
  BY <1>1, <1>2, CacheRelease

\* A killed process, or an error in a call: the file is closed, its locks are
\* dropped, and a generate call on the way leaves its inode among the broken ones.
LEMMA CacheBreakOff ==
  ASSUME CacheInv, NEW p \in Procs, NEW s \in Closed, BreakOff(p, s)
  PROVE  CacheInv'
<1>1. /\ pc' = [pc EXCEPT ![p] = s]
      /\ regen' \in [Procs -> BOOLEAN] /\ Release(p)
      /\ writer' = [f \in Inodes |-> IF writer[f] = p THEN None ELSE writer[f]]
      /\ UNCHANGED <<path, sized, filled, verify>>
  BY DEF CacheInv, TypeOK, BreakOff
<1>2. /\ broken' \in SUBSET Inodes /\ broken \subseteq broken'
      /\ pc[p] = "fill" => fd[p] \in broken'
  BY FillAlone DEF CacheInv, TypeOK, BreakOff
<1> QED
  BY <1>1, <1>2, CacheRelease

\* Every step of every process keeps the invariant.
LEMMA CacheNext == CacheInv /\ [Next]_vars => CacheInv'
<1> SUFFICES ASSUME CacheInv, [Next]_vars PROVE CacheInv'
  OBVIOUS
<1>1. CASE UNCHANGED vars
  BY <1>1 DEF vars, fileVars, CacheInv, TypeOK, FdInv, LockInv, OwnInv, LengthInv, Complete
<1>2. ASSUME NEW p \in Procs, Call(p) \/ New(p) \/ OpenUnverified(p) \/ Digest(p) \/ Remove(p)
                                 \/ AlreadyExists(p)
      PROVE  CacheInv'
  <2>1. PICK s \in Closed : pc[p] \in Closed /\ pc' = [pc EXCEPT ![p] = s]
    BY <1>2 DEF Call, New, OpenUnverified, Digest, Remove, AlreadyExists, Goto, Closed
  <2>2. /\ path' \in {path, None} /\ regen' \in [Procs -> BOOLEAN]
        /\ UNCHANGED <<sized, filled, writer, readers, fd, verify, broken>>
    BY <1>2 DEF Call, New, OpenUnverified, Digest, Remove, AlreadyExists, fileVars, CacheInv, TypeOK
  <2> QED
    BY <2>1, <2>2, CacheClosed
<1>3. ASSUME NEW p \in Procs, Call(p) \/ Step(p) \/ Drop(p) \/ Fails(p) \/ Crash(p)
      PROVE  CacheInv'
  <2>1. "idle" \in Closed /\ "error" \in Closed
    BY DEF Closed
  <2>2. CASE Fails(p) \/ Crash(p)
    BY <2>1, <2>2, CacheBreakOff DEF Fails, Crash
  <2>3. CASE Step(p)
    BY <1>2, <2>3, CacheCreate, CacheLock, CacheFill, CacheUnlock, CacheOpenData, CacheShare,
       CacheCheckLen DEF Step
  <2> QED
    BY <1>2, <1>3, <2>2, <2>3, CacheDrop
<1> QED
  BY <1>1, <1>3 DEF Next

----------------------------------------------------------------------------
(* The theorems                                                             *)

\* The invariant holds in every state, whatever processes call, race and die.
THEOREM CacheCorrect == Spec => []CacheInv
BY CacheInit, CacheNext, PTL DEF Spec

\* The type invariant, with the exclusion of the file locks it states.
THEOREM CacheTyped == Spec => []TypeOK
<1>1. CacheInv => TypeOK
  BY DEF CacheInv
<1> QED
  BY <1>1, CacheCorrect, PTL

\* A cache that ParentCache::new returned holds every parent, unless the generate
\* call that made this very file was broken off by an error or a kill: a reader
\* gets its shared lock only when nobody fills the inode any more, and a file of
\* full length that nobody fills is complete or was given up half way.
THEOREM ReadyIsComplete == Spec => []ReadyComplete
<1>1. CacheInv => ReadyComplete
  <2> SUFFICES ASSUME CacheInv, NEW p \in Procs, pc[p] = "ready"
               PROVE  Complete(fd[p]) \/ fd[p] \in broken
    BY DEF ReadyComplete
  <2>1. fd[p] \in sized
    BY DEF CacheInv, LengthInv
  <2>2. \A q \in Procs : pc[q] = "fill" => fd[q] # fd[p]
    BY FillAlone DEF Mapping
  <2> QED
    BY <2>1, <2>2 DEF CacheInv, LengthInv
<1> QED
  BY <1>1, CacheCorrect, PTL

\* A file that a process has mapped is neither written nor cut short, after any
\* crash or error too: a generate call writes only the inode it created and locked.
THEOREM MappedIsStable == Spec => MappedStable
<1> DEFINE Stable == \A p \in Procs : pc[p] = "ready" /\ fd'[p] = fd[p] =>
                        filled'[fd[p]] = filled[fd[p]] /\ fd[p] \in sized'
<1>1. CacheInv /\ [Next]_vars => [Stable]_vars
  <2> SUFFICES ASSUME CacheInv, NEW q \in Procs,
                      Call(q) \/ Step(q) \/ Drop(q) \/ Fails(q) \/ Crash(q),
                      NEW p \in Procs, pc[p] = "ready"
               PROVE  filled'[fd[p]] = filled[fd[p]] /\ fd[p] \in sized'
    BY DEF Next
  <2>1. fd[p] \in sized /\ fd[p] \in Inodes
    BY DEF CacheInv, TypeOK, LengthInv
  <2>2. CASE Create(q)
    <3>1. FreeInode # fd[p]
      BY <2>2, InodeFree DEF Create, CacheInv
    <3> QED
      BY <2>1, <2>2, <3>1 DEF Create, CacheInv, TypeOK
  <2>3. CASE Fill(q)
    <3>1. fd[q] # fd[p]
      BY <2>3, FillAlone DEF Fill, Mapping
    <3> QED
      BY <2>1, <2>3, <3>1 DEF Fill, CacheInv, TypeOK
  <2>4. CASE SetLen(q)
    BY <2>1, <2>4 DEF SetLen
  <2> QED
    BY <2>1, <2>2, <2>3, <2>4 DEF Call, Step, Drop, Fails, Crash, BreakOff, New, OpenUnverified, Digest, Remove,
       AlreadyExists, Lock, Unlock, OpenData, LockShared, CheckLen, fileVars
<1> QED
  BY <1>1, CacheCorrect, PTL DEF MappedStable, Spec
============================================================================

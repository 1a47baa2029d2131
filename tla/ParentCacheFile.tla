-------------------------- MODULE ParentCacheFile --------------------------
(***************************************************************************)
(* The parent cache file shared by all processes that label with the same  *)
(* graph: ParentCache::new, open and generate and CacheData::open of       *)
(* stacked/vanilla/cache.rs, on the file locks of parameter_cache.rs.      *)
(*                                                                         *)
(* The file system is external: an inode has a length (0 or the full one), *)
(* the chunks of parents that have been written and its advisory lock; the *)
(* cache path names one inode or none.  The threads of one process enter   *)
(* ParentCache::new one at a time (PARENT_CACHE_ACCESS_LOCK), so a process *)
(* makes one call after the other.  A process may be killed at any step,   *)
(* and any call of the operating system may return an error.               *)
(***************************************************************************)
EXTENDS Naturals, FiniteSets

CONSTANTS
    Procs,       \* the processes
    Chunks,      \* parts of the file generate fills in any order
    Settings,    \* the values of the verify_cache setting to explore
    Production,  \* the path is an entry of parent_cache.json
    MaxCalls,    \* bound on the calls of a process
    MaxFaults,   \* bound on kills and on errors of system calls
    None         \* no inode, no lock holder

ASSUME CacheAssumption ==
    /\ IsFiniteSet(Procs) /\ IsFiniteSet(Chunks) /\ Chunks # {}
    /\ Settings \subseteq BOOLEAN /\ Production \in BOOLEAN
    /\ MaxCalls \in Nat /\ MaxFaults \in Nat
    /\ None \notin Procs \cup Nat

\* An inode for each process to hold and one more for the path.
Inodes == 1 .. Cardinality(Procs) + 1

VARIABLES
    path,      \* the inode the cache path names
    sized,     \* the inodes set_len was applied to
    filled,    \* the chunks written to each inode
    writer,    \* the holder of each inode's exclusive lock
    readers,   \* the holders of each inode's shared lock
    pc, fd,    \* where each process is, and the inode it has open
    regen,     \* it is in the generate call that open makes
    verify,    \* its verify_cache setting
    broken,    \* the inodes whose generate call was broken off
    calls, faults

fileVars == <<path, sized, filled, writer, readers>>
vars == <<fileVars, pc, fd, regen, verify, broken, calls, faults>>

Init ==
    /\ path = None /\ sized = {}
    /\ filled = [f \in Inodes |-> {}]
    /\ writer = [f \in Inodes |-> None]
    /\ readers = [f \in Inodes |-> {}]
    /\ pc = [p \in Procs |-> "idle"]
    /\ fd = [p \in Procs |-> None]
    /\ regen = [p \in Procs |-> FALSE]
    /\ verify \in [Procs -> Settings]
    /\ calls = [p \in Procs |-> 0]
    /\ broken = {} /\ faults = 0

Goto(p, from, to) == pc[p] = from /\ pc' = [pc EXCEPT ![p] = to]
Complete(f) == f \in sized /\ filled[f] = Chunks

----------------------------------------------------------------------------
(* ParentCache::new                                                         *)

Call(p) ==
    /\ Goto(p, "idle", "new")
    /\ calls[p] < MaxCalls
    /\ calls' = [calls EXCEPT ![p] = @ + 1]
    /\ UNCHANGED <<fileVars, fd, regen, verify, broken, faults>>

\* path.exists()
New(p) ==
    /\ Goto(p, "new", IF path # None THEN "open" ELSE "create")
    /\ UNCHANGED <<fileVars, fd, regen, verify, broken, calls, faults>>

----------------------------------------------------------------------------
(* ParentCache::open                                                        *)

\* Without verify_cache the data is not looked at.
OpenUnverified(p) ==
    /\ ~verify[p]
    /\ Goto(p, "open", "openData")
    /\ UNCHANGED <<fileVars, fd, regen, verify, broken, calls, faults>>

\* Hash the file, without a lock.  It may be gone by now, and mapping an empty
\* file may be an error.
Digest(p) ==
    /\ verify[p]
    /\ \/ /\ path # None
          /\ Goto(p, "open", IF Production /\ ~Complete(path) THEN "remove" ELSE "openData")
       \/ /\ path = None \/ path \notin sized
          /\ Goto(p, "open", "error")
    /\ UNCHANGED <<fileVars, fd, regen, verify, broken, calls, faults>>

\* The digest does not match the manifest: delete the file and generate it.
Remove(p) ==
    /\ Goto(p, "remove", IF path = None THEN "error" ELSE "create")
    /\ path' = None
    /\ regen' = [regen EXCEPT ![p] = TRUE]
    /\ UNCHANGED <<sized, filled, writer, readers, fd, verify, broken, calls, faults>>

----------------------------------------------------------------------------
(* ParentCache::generate                                                    *)

FreeInode == CHOOSE f \in Inodes : f # path /\ \A p \in Procs : fd[p] # f

\* LockedFile::open_exclusive: create_new, so only one process succeeds.
Create(p) ==
    /\ path = None
    /\ Goto(p, "create", "lock")
    /\ path' = FreeInode
    /\ fd' = [fd EXCEPT ![p] = FreeInode]
    /\ sized' = sized \ {FreeInode}
    /\ filled' = [filled EXCEPT ![FreeInode] = {}]
    /\ broken' = broken \ {FreeInode}
    /\ UNCHANGED <<writer, readers, regen, verify, calls, faults>>

\* AlreadyExists: new opens the other process's file, open gives up.
AlreadyExists(p) ==
    /\ path # None
    /\ Goto(p, "create", IF regen[p] THEN "error" ELSE "open")
    /\ UNCHANGED <<fileVars, fd, regen, verify, broken, calls, faults>>

\* lock_exclusive, which comes after the file became visible.
Lock(p) ==
    /\ Goto(p, "lock", "fill")
    /\ writer[fd[p]] = None /\ readers[fd[p]] = {}
    /\ writer' = [writer EXCEPT ![fd[p]] = p]
    /\ UNCHANGED <<path, sized, filled, readers, fd, regen, verify, broken, calls, faults>>

\* set_len, then the parents of every node, by rayon in no particular order.
SetLen(p) ==
    /\ pc[p] = "fill" /\ fd[p] \notin sized
    /\ sized' = sized \cup {fd[p]}
    /\ UNCHANGED <<path, filled, writer, readers, pc, fd, regen, verify, broken, calls, faults>>

Fill(p) ==
    /\ pc[p] = "fill" /\ fd[p] \in sized
    /\ \E c \in Chunks \ filled[fd[p]] : filled' = [filled EXCEPT ![fd[p]] = @ \cup {c}]
    /\ UNCHANGED <<path, sized, writer, readers, pc, fd, regen, verify, broken, calls, faults>>

\* Flush and digest; dropping the LockedFile unlocks it.
Bug_Unlock(p) ==
    /\ Goto(p, "fill", "openData")
    /\ Complete(fd[p])
    /\ fd' = [fd EXCEPT ![p] = None]
    /\ UNCHANGED <<path, sized, filled, writer, readers, regen, verify, broken, calls, faults>>

Unlock(p) ==
    /\ Goto(p, "fill", "openData")
    /\ Complete(fd[p])
    /\ writer' = [writer EXCEPT ![fd[p]] = None]
    /\ fd' = [fd EXCEPT ![p] = None]
    /\ UNCHANGED <<path, sized, filled, readers, regen, verify, broken, calls, faults>>

----------------------------------------------------------------------------
(* CacheData::open                                                          *)

OpenData(p) ==
    /\ Goto(p, "openData", IF path = None THEN "error" ELSE "lockShared")
    /\ fd' = [fd EXCEPT ![p] = path]
    /\ UNCHANGED <<fileVars, regen, verify, broken, calls, faults>>

Bug_CanShare(p) == TRUE

CanShare(p) == writer[fd[p]] = None

LockShared(p) ==
    /\ Goto(p, "lockShared", "checkLen")
    /\ CanShare(p)
    /\ readers' = [readers EXCEPT ![fd[p]] = @ \cup {p}]
    /\ UNCHANGED <<path, sized, filled, writer, fd, regen, verify, broken, calls, faults>>

\* "corrupted cache" if the file is too short; else it is mapped.  The cache that
\* generate opened inside open is dropped and opened again.
Release(p) ==
    /\ readers' = [f \in Inodes |-> readers[f] \ {p}]
    /\ fd' = [fd EXCEPT ![p] = None]

Bug_LongEnough(p) == TRUE

LongEnough(p) == fd[p] \in sized

CheckLen(p) ==
    /\ Goto(p, "checkLen",
            IF ~LongEnough(p) THEN "error" ELSE IF regen[p] THEN "openData" ELSE "ready")
    /\ IF LongEnough(p) /\ ~regen[p] THEN UNCHANGED <<readers, fd>> ELSE Release(p)
    /\ regen' = [regen EXCEPT ![p] = FALSE]
    /\ UNCHANGED <<path, sized, filled, writer, verify, broken, calls, faults>>

----------------------------------------------------------------------------
(* The caller                                                               *)

\* Labelling is over, or the error was reported: the cache is dropped.
Drop(p) ==
    /\ pc[p] \in {"ready", "error"}
    /\ pc' = [pc EXCEPT ![p] = "idle"]
    /\ Release(p)
    /\ regen' = [regen EXCEPT ![p] = FALSE]
    /\ UNCHANGED <<path, sized, filled, writer, verify, broken, calls, faults>>

\* The process lets go of the file and of its locks; what a generate call has
\* written so far stays.
BreakOff(p, to) ==
    /\ faults < MaxFaults
    /\ faults' = faults + 1
    /\ pc' = [pc EXCEPT ![p] = to]
    /\ writer' = [f \in Inodes |-> IF writer[f] = p THEN None ELSE writer[f]]
    /\ Release(p)
    /\ broken' = IF pc[p] = "fill" THEN broken \cup {fd[p]} ELSE broken
    /\ regen' = [regen EXCEPT ![p] = FALSE]
    /\ UNCHANGED <<path, sized, filled, verify, calls>>

\* A process is killed.
Crash(p) == pc[p] # "idle" /\ BreakOff(p, "idle")

\* An error on the way: opening, locking, set_len, mapping, the parents of a node,
\* the flush, or the digest of what was generated.
Fails(p) ==
    /\ pc[p] \in {"open", "remove", "create", "lock", "fill", "openData", "lockShared", "checkLen"}
    /\ BreakOff(p, "error")

Step(p) == New(p) \/ OpenUnverified(p) \/ Digest(p) \/ Remove(p)
              \/ Create(p) \/ AlreadyExists(p) \/ Lock(p) \/ SetLen(p) \/ Fill(p) \/ Unlock(p)
              \/ OpenData(p) \/ LockShared(p) \/ CheckLen(p)

Next == \E p \in Procs : Call(p) \/ Step(p) \/ Drop(p) \/ Fails(p) \/ Crash(p)

Spec == Init /\ [][Next]_vars

\* A process inside ParentCache::new keeps running.
Fairness == \A p \in Procs : WF_vars(Step(p))

FairSpec == Spec /\ Fairness

----------------------------------------------------------------------------
(* Properties                                                               *)

\* Type invariant of the shared file and the processes; a lock is held by a
\* process that is at work on the inode, and never shared and exclusive at once.
TypeOK ==
    /\ path \in Inodes \cup {None} /\ sized \subseteq Inodes
    /\ filled \in [Inodes -> SUBSET Chunks]
    /\ writer \in [Inodes -> Procs \cup {None}]
    /\ readers \in [Inodes -> SUBSET Procs]
    /\ fd \in [Procs -> Inodes \cup {None}]
    /\ regen \in [Procs -> BOOLEAN] /\ verify \in [Procs -> Settings]
    /\ broken \subseteq Inodes
    /\ \A f \in Inodes : writer[f] # None =>
          pc[writer[f]] = "fill" /\ fd[writer[f]] = f /\ readers[f] = {}

\* A cache that was opened holds the parents of every node, whoever created,
\* deleted or regenerated the file in the meantime and whatever failed or was
\* killed, unless the very generate call that made its file was broken off, by an
\* error of generate or the death of its process (ParentCache::new looks only at
\* the length of a file it finds).
ReadyComplete == \A p \in Procs : pc[p] = "ready" => Complete(fd[p]) \/ fd[p] \in broken

\* cache.rs:167-168, "If the cache file exists and we've got the lock, generation
\* has previously been completed": the same after any crash.
CompletedBefore == \A p \in Procs : pc[p] = "ready" => Complete(fd[p])

\* The file is written under the exclusive lock of one process, which nobody
\* reads past, and never after another process has mapped it.
MappedStable ==
    [][\A p \in Procs : pc[p] = "ready" /\ fd'[p] = fd[p] =>
          filled'[fd[p]] = filled[fd[p]] /\ fd[p] \in sized']_vars

\* Every call returns: the locks are not held across each other.
CallEnds == \A p \in Procs : pc[p] = "new" ~> pc[p] \in {"ready", "error", "idle"}
============================================================================

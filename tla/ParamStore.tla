----------------------------- MODULE ParamStore -----------------------------
(***************************************************************************)
(* Groth parameters, verifying keys, SRS keys and their metadata: the      *)
(* files of storage-proofs-core/src/parameter_cache.rs, the in-memory      *)
(* caches of filecoin-proofs/src/caches.rs in front of them, and the tools *)
(* that fill the directory (paramcache generates, paramfetch downloads).   *)
(*                                                                         *)
(* The contents of a file are a number: 0 is an empty or truncated file,   *)
(* Good is what the manifest's digest stands for, Bad an older parameter   *)
(* set, and every generation draws a fresh number (the parameters are      *)
(* random).  The verifying key of parameters n is n.  The file system is   *)
(* external: a path names an inode or none, an inode has contents and an   *)
(* advisory exclusive lock.                                                *)
(***************************************************************************)
EXTENDS Naturals, FiniteSets

CONSTANTS
    Threads,      \* the threads of all processes
    Process,      \* the process of each thread
    Rng,          \* the threads that pass an rng: paramcache, tests, benches
    MaxCalls,     \* bound on the calls of a thread
    MaxFaults,    \* bound on crashes and failed writes
    MaxRounds,    \* bound on the download rounds of paramfetch
    None

ASSUME ParamAssumption ==
    /\ IsFiniteSet(Threads) /\ Rng \subseteq Threads /\ DOMAIN Process = Threads
    /\ MaxCalls \in Nat /\ MaxFaults \in Nat /\ MaxRounds \in Nat
    /\ None \notin Threads \cup Nat

Procs == {Process[t] : t \in Threads}
Files == {"params", "vk", "srs", "meta"}
Good == 1
Bad == 2

\* One inode for each path, for each thread to hold, for ipget, and a spare.
Inodes == 1 .. Cardinality(Files) + Cardinality(Threads) + 2

VARIABLES
    path,       \* the inode each file name stands for
    content,    \* the contents of each inode
    lock,       \* the thread with the exclusive lock on each inode
    pc, want,   \* where each thread is, and the entry it was called for
    file,       \* the file it is working on (a verifying key needs the params)
    second,     \* it is in the second read_cached_params of get_groth_params
    fd, val,    \* the inode it has open; what it has read or generated
    mem,        \* GROTH_PARAM_ and VERIFYING_KEY_MEMORY_CACHE of each process
    cell,       \* the OnceCell of SRS_KEY_MEMORY_CACHE of each process
    init,       \* the thread that is initialising that cell
    verified,   \* VERIFIED_PARAMETERS of each process
    checking,   \* the verify_production_params setting
    manifest,   \* the files that parameters.json and srs-inner-product.json list
    made,       \* the parameter sets generated so far
    fpc,        \* where paramfetch is
    unchecked, todo, chosen, cur, fnode, rounds,   \* and its local state
    calls, faults

diskVars == <<path, content, lock>>
procVars == <<mem, cell, init, verified>>
confVars == <<checking, manifest>>
fetchVars == <<fpc, unchecked, todo, chosen, cur, fnode, rounds>>
threadVars == <<pc, want, file, second, fd, val, calls>>
vars == <<diskVars, procVars, confVars, fetchVars, threadVars, made, faults>>

\* Development sector sizes are not in parameters.json; the SRS always is.
Manifests == {{"srs"}, {"params", "vk", "srs"}}

Init ==
    /\ \E c \in {None, 0, Good, Bad} :
          /\ path = [f \in Files |-> IF f = "params" /\ c # None THEN 1 ELSE None]
          /\ content = [i \in Inodes |-> IF i = 1 /\ c # None THEN c ELSE 0]
    /\ lock = [i \in Inodes |-> None]
    /\ pc = [t \in Threads |-> "idle"]
    /\ want = [t \in Threads |-> "params"]
    /\ file = [t \in Threads |-> "params"]
    /\ second = [t \in Threads |-> FALSE]
    /\ fd = [t \in Threads |-> None]
    /\ val = [t \in Threads |-> 0]
    /\ mem = [p \in Procs |-> [f \in {"params", "vk"} |-> 0]]
    /\ cell = [p \in Procs |-> 0]
    /\ init = [p \in Procs |-> None]
    /\ verified = [p \in Procs |-> {}]
    /\ checking \in BOOLEAN /\ manifest \in Manifests
    /\ made = Bad
    /\ fpc \in {"off", "check"}
    /\ unchecked = {"params", "vk"} /\ todo = {} /\ chosen = {}
    /\ cur = "params" /\ fnode = None /\ rounds = 0
    /\ calls \in [Threads -> 0 .. MaxCalls]
    /\ faults = 0

----------------------------------------------------------------------------
(* Continuations shared by the actions of a thread.                         *)

FreeInode == CHOOSE i \in Inodes :
                 /\ \A f \in Files : path[f] # i
                 /\ \A t \in Threads : fd[t] # i
                 /\ fnode # i

\* read_cached_params, read_cached_verifying_key, read_cached_srs_key and
\* read_cached_metadata: hash the file first if the setting asks for it.
StartRead(f) == IF checking /\ f # "meta" THEN "verify" ELSE "open"

\* The memory caches belong to the API, whose calls never pass an rng.
Cached(t) == t \notin Rng

Bug_Return(t, ok, v) ==
    LET p == Process[t]
        w == want[t] IN
    /\ pc' = [pc EXCEPT ![t] = IF ok THEN "ok" ELSE "err"]
    /\ val' = [val EXCEPT ![t] = IF ok THEN v ELSE 0]
    /\ mem' = IF ok /\ Cached(t) /\ w \in {"params", "vk"}
              THEN [mem EXCEPT ![p][w] = v] ELSE mem
    /\ cell' = IF ok /\ init[p] = t THEN [cell EXCEPT ![p] = v] ELSE cell
    /\ init' = IF ok /\ init[p] = t THEN [init EXCEPT ![p] = None] ELSE init
    /\ UNCHANGED <<file, second>>

\* A call returns: its value goes to the memory cache, or its error to the
\* caller, and the cell is free for the next thread that wants it.
Return(t, ok, v) ==
    LET p == Process[t]
        w == want[t] IN
    /\ pc' = [pc EXCEPT ![t] = IF ok THEN "ok" ELSE "err"]
    /\ val' = [val EXCEPT ![t] = IF ok THEN v ELSE 0]
    /\ mem' = IF ok /\ Cached(t) /\ w \in {"params", "vk"}
              THEN [mem EXCEPT ![p][w] = v] ELSE mem
    /\ cell' = IF ok /\ init[p] = t THEN [cell EXCEPT ![p] = v] ELSE cell
    /\ init' = IF init[p] = t THEN [init EXCEPT ![p] = None] ELSE init
    /\ UNCHANGED <<file, second>>

\* Go on with file f at step s.
Continue(t, f, s, again) ==
    /\ pc' = [pc EXCEPT ![t] = s]
    /\ file' = [file EXCEPT ![t] = f]
    /\ second' = [second EXCEPT ![t] = again]
    /\ UNCHANGED <<val, mem, cell, init>>

\* A read failed: parameters that do not match the manifest end the call, other
\* failures of the first read lead to the generation of the file; the second
\* read must succeed.  A verifying key is made from the parameters.
ReadFailed(t, invalid) ==
    \/ /\ file[t] = "params"
       /\ IF invalid \/ second[t]
          THEN Return(t, FALSE, 0)
          ELSE Continue(t, "params", "exists", FALSE)
    \/ file[t] = "vk" /\ Continue(t, "params", StartRead("params"), FALSE)
    \/ file[t] = "srs" /\ Continue(t, "srs", "generate", FALSE)
    \/ file[t] = "meta" /\ Continue(t, "meta", "create", FALSE)

\* A read succeeded; the parameters may be what a verifying key is made from.
ReadDone(t, v) ==
    IF file[t] = "params" /\ want[t] = "vk"
    THEN /\ pc' = [pc EXCEPT ![t] = "create"]
         /\ file' = [file EXCEPT ![t] = "vk"]
         /\ val' = [val EXCEPT ![t] = v]
         /\ UNCHANGED <<second, mem, cell, init>>
    ELSE Return(t, TRUE, v)

----------------------------------------------------------------------------
(* The entry points: lookup_groth_params, lookup_verifying_key and          *)
(* lookup_srs_key of the API, and the direct calls with an rng.             *)

\* cache_lookup reads its map under the mutex and generates outside it.
Call(t, w) ==
    LET hit == IF Cached(t) /\ w \in {"params", "vk"} THEN mem[Process[t]][w] ELSE 0 IN
    /\ pc[t] \in {"idle", "ok", "err"} /\ calls[t] < MaxCalls
    /\ want' = [want EXCEPT ![t] = w]
    /\ file' = [file EXCEPT ![t] = w]
    /\ second' = [second EXCEPT ![t] = FALSE]
    /\ val' = [val EXCEPT ![t] = hit]
    /\ calls' = [calls EXCEPT ![t] = @ + 1]
    /\ pc' = [pc EXCEPT ![t] =
                CASE hit # 0 -> "ok"
                  [] w = "srs" /\ Cached(t) -> "wait"
                  [] OTHER -> StartRead(w)]
    /\ UNCHANGED <<diskVars, procVars, confVars, fetchVars, fd, made, faults>>

\* The entries of one proof type and sector size; other types have other files
\* and other keys in the maps.  Metadata is only read by paramcache.
GetParams(t) == Call(t, "params")
GetVerifyingKey(t) == Call(t, "vk")
GetSrsKey(t) == Call(t, "srs")
GetMetadata(t) == ~Cached(t) /\ Call(t, "meta")

\* OnceCell::get_or_try_init: wait for the thread that initialises the cell,
\* take its value, or initialise it.
OnceCell(t) ==
    LET p == Process[t] IN
    /\ pc[t] = "wait" /\ init[p] = None
    /\ IF cell[p] # 0
       THEN /\ pc' = [pc EXCEPT ![t] = "ok"]
            /\ val' = [val EXCEPT ![t] = cell[p]]
            /\ UNCHANGED init
       ELSE /\ pc' = [pc EXCEPT ![t] = StartRead("srs")]
            /\ init' = [init EXCEPT ![p] = t]
            /\ UNCHANGED val
    /\ UNCHANGED <<diskVars, mem, cell, verified, confVars, fetchVars, want, file,
                   second, fd, calls, made, faults>>

----------------------------------------------------------------------------
(* Reading a file                                                           *)

Listed(t) == file[t] \in manifest

\* verify_production_entry without the hash: the file was verified before by
\* this process, or the manifest does not list it.
VerifyKnown(t) ==
    /\ pc[t] = "verify"
    /\ ~Listed(t) \/ file[t] \in verified[Process[t]]
    /\ IF Listed(t) THEN Continue(t, file[t], "open", second[t]) ELSE ReadFailed(t, TRUE)
    /\ UNCHANGED <<diskVars, verified, confVars, fetchVars, want, fd, calls, made, faults>>

\* LockedFile::open_exclusive_read, to hash the file or to read it.
Open(t) ==
    /\ \/ pc[t] = "verify" /\ Listed(t) /\ file[t] \notin verified[Process[t]]
       \/ pc[t] = "open"
    /\ IF path[file[t]] = None
       THEN ReadFailed(t, FALSE) /\ UNCHANGED fd
       ELSE /\ Continue(t, file[t], IF pc[t] = "open" THEN "read" ELSE "hash", second[t])
            /\ fd' = [fd EXCEPT ![t] = path[file[t]]]
    /\ UNCHANGED <<diskVars, verified, confVars, fetchVars, want, calls, made, faults>>

Bug_Hash(t) ==
    /\ pc[t] = "hash" /\ lock[fd[t]] = None
    /\ verified' = [verified EXCEPT ![Process[t]] = @ \cup {file[t]}]
    /\ fd' = [fd EXCEPT ![t] = None]
    /\ IF content[fd[t]] = Good
       THEN Continue(t, file[t], "open", second[t])
       ELSE ReadFailed(t, TRUE)
    /\ UNCHANGED <<diskVars, confVars, fetchVars, want, calls, made, faults>>

\* Under the lock, compare the digest; only a match is remembered.
Hash(t) ==
    /\ pc[t] = "hash" /\ lock[fd[t]] = None
    /\ fd' = [fd EXCEPT ![t] = None]
    /\ IF content[fd[t]] = Good
       THEN /\ verified' = [verified EXCEPT ![Process[t]] = @ \cup {file[t]}]
            /\ Continue(t, file[t], "open", second[t])
       ELSE ReadFailed(t, TRUE) /\ UNCHANGED verified
    /\ UNCHANGED <<diskVars, confVars, fetchVars, want, calls, made, faults>>

\* Parameters are mapped through the path while the lock is on the open file.
Seen(t) ==
    IF file[t] = "params"
    THEN IF path["params"] = None THEN 0 ELSE content[path["params"]]
    ELSE content[fd[t]]

Read(t) ==
    /\ pc[t] = "read" /\ lock[fd[t]] = None
    /\ fd' = [fd EXCEPT ![t] = None]
    /\ IF Seen(t) = 0 THEN ReadFailed(t, FALSE) ELSE ReadDone(t, Seen(t))
    /\ UNCHANGED <<diskVars, verified, confVars, fetchVars, want, calls, made, faults>>

----------------------------------------------------------------------------
(* Generating and writing a file                                            *)

\* if !cache_path.exists()
Exists(t) ==
    /\ pc[t] = "exists"
    /\ IF path["params"] = None
       THEN Continue(t, "params", "generate", FALSE)
       ELSE Continue(t, "params", StartRead("params"), TRUE)
    /\ UNCHANGED <<diskVars, verified, confVars, fetchVars, want, fd, calls, made, faults>>

\* generate(): only with an rng.
Generate(t) ==
    /\ pc[t] = "generate"
    /\ \/ /\ t \in Rng
          /\ made' = made + 1
          /\ val' = [val EXCEPT ![t] = made + 1]
          /\ pc' = [pc EXCEPT ![t] = "create"]
          /\ UNCHANGED <<file, second, mem, cell, init>>
       \/ /\ t \notin Rng
          /\ Return(t, FALSE, 0)
          /\ UNCHANGED made
    /\ UNCHANGED <<diskVars, verified, confVars, fetchVars, want, fd, calls, faults>>

Bug_AlreadyExists(t) ==
    IF file[t] = "params"
    THEN Return(t, TRUE, val[t])
    ELSE Return(t, FALSE, 0)

\* The loser of a race: the generated parameters are dropped and the winner's
\* are read; a key or metadata that was just written is an error.
AlreadyExists(t) ==
    IF file[t] = "params"
    THEN Continue(t, "params", StartRead("params"), TRUE)
    ELSE Return(t, FALSE, 0)

\* LockedFile::open_exclusive with create_new: open first, lock afterwards.
Create(t) ==
    /\ pc[t] = "create"
    /\ IF path[file[t]] # None
       THEN AlreadyExists(t) /\ UNCHANGED <<path, content, fd>>
       ELSE /\ path' = [path EXCEPT ![file[t]] = FreeInode]
            /\ content' = [content EXCEPT ![FreeInode] = 0]
            /\ fd' = [fd EXCEPT ![t] = FreeInode]
            /\ Continue(t, file[t], "lock", second[t])
    /\ UNCHANGED <<lock, verified, confVars, fetchVars, want, calls, made, faults>>

Lock(t) ==
    /\ pc[t] = "lock" /\ lock[fd[t]] = None
    /\ lock' = [lock EXCEPT ![fd[t]] = t]
    /\ Continue(t, file[t], "write", second[t])
    /\ UNCHANGED <<path, content, verified, confVars, fetchVars, want, fd, calls, made, faults>>

\* write_cached_params is followed by the second read, the others return.
Write(t) ==
    /\ pc[t] = "write"
    /\ content' = [content EXCEPT ![fd[t]] = IF file[t] = "meta" THEN Good ELSE val[t]]
    /\ lock' = [lock EXCEPT ![fd[t]] = None]
    /\ fd' = [fd EXCEPT ![t] = None]
    /\ IF file[t] = "params"
       THEN Continue(t, "params", StartRead("params"), TRUE)
       ELSE Return(t, TRUE, IF file[t] = "meta" THEN Good ELSE val[t])
    /\ UNCHANGED <<path, verified, confVars, fetchVars, want, calls, made, faults>>

\* The write fails: the truncated file stays (for parameters the code panics).
WriteFails(t) ==
    /\ pc[t] = "write" /\ faults < MaxFaults
    /\ lock' = [lock EXCEPT ![fd[t]] = None]
    /\ fd' = [fd EXCEPT ![t] = None]
    /\ Return(t, FALSE, 0)
    /\ faults' = faults + 1
    /\ UNCHANGED <<path, content, verified, confVars, fetchVars, want, calls, made>>

Thread(t) ==
    \/ OnceCell(t) \/ VerifyKnown(t) \/ Open(t) \/ Hash(t) \/ Read(t)
    \/ Exists(t) \/ Generate(t) \/ Create(t) \/ Lock(t) \/ Write(t)

\* A process dies: its locks and memory are gone, its files stay.
Crash(p) ==
    LET mine == {t \in Threads : Process[t] = p} IN
    /\ faults < MaxFaults
    /\ \E t \in mine : pc[t] \notin {"idle", "ok", "err"}
    /\ faults' = faults + 1
    /\ pc' = [t \in Threads |-> IF t \in mine THEN "err" ELSE pc[t]]
    /\ val' = [t \in Threads |-> IF t \in mine THEN 0 ELSE val[t]]
    /\ fd' = [t \in Threads |-> IF t \in mine THEN None ELSE fd[t]]
    /\ lock' = [i \in Inodes |-> IF lock[i] \in mine THEN None ELSE lock[i]]
    /\ mem' = [mem EXCEPT ![p] = [f \in {"params", "vk"} |-> 0]]
    /\ cell' = [cell EXCEPT ![p] = 0]
    /\ init' = [init EXCEPT ![p] = None]
    /\ verified' = [verified EXCEPT ![p] = {}]
    /\ UNCHANGED <<path, content, confVars, fetchVars, want, file, second, calls, made>>

----------------------------------------------------------------------------
(* paramfetch                                                               *)

FetchUnchanged == UNCHANGED <<lock, procVars, confVars, threadVars, made, faults>>

\* get_filenames_requiring_download, one file: hash it without a lock.  One that is
\* missing is marked, and so is one that cannot be hashed, which stays in place.
FetchCheck(f) ==
    /\ fpc = "check" /\ f \in unchecked
    /\ \/ /\ todo' = todo \cup {f} /\ unchecked' = unchecked \ {f}
          /\ UNCHANGED <<fpc, cur>>
       \/ /\ path[f] # None /\ content[path[f]] = Good
          /\ unchecked' = unchecked \ {f}
          /\ UNCHANGED <<fpc, cur, todo>>
       \/ /\ path[f] # None /\ content[path[f]] # Good
          /\ fpc' = "rename" /\ cur' = f
          /\ UNCHANGED <<todo, unchecked>>
    /\ UNCHANGED <<path, content, chosen, fnode, rounds>> /\ FetchUnchanged

\* The file with the wrong digest is moved away.
FetchRename ==
    /\ fpc = "rename"
    /\ path' = [path EXCEPT ![cur] = None]
    /\ todo' = todo \cup {cur} /\ unchecked' = unchecked \ {cur}
    /\ fpc' = "check"
    /\ UNCHANGED <<content, chosen, cur, fnode, rounds>> /\ FetchUnchanged

\* All files looked at: done, or download what is missing.  In the first round
\* the user may select some of the files, later he may give up.
FetchDecide ==
    /\ fpc = "check" /\ unchecked = {}
    /\ \/ /\ todo = {} /\ fpc' = "done"
          /\ UNCHANGED <<todo, unchecked, chosen, rounds>>
       \/ /\ todo # {} /\ rounds = 0 /\ rounds < MaxRounds
          /\ \E sel \in SUBSET todo \ {{}} :
                chosen' = sel /\ todo' = sel /\ unchecked' = sel
          /\ fpc' = "download" /\ rounds' = 1
       \/ /\ todo # {} /\ rounds \in 1 .. MaxRounds - 1
          /\ fpc' = "download" /\ rounds' = rounds + 1
          /\ unchecked' = todo
          /\ UNCHANGED <<todo, chosen>>
       \/ /\ todo # {} /\ fpc' = "failed"
          /\ UNCHANGED <<todo, unchecked, chosen, rounds>>
    /\ UNCHANGED <<path, content, cur, fnode>> /\ FetchUnchanged

\* ipget -o path: create or truncate the file, then fill it without a lock.
FetchOpen(f) ==
    /\ fpc = "download" /\ f \in unchecked
    /\ fpc' = "ipget" /\ cur' = f
    /\ IF path[f] = None
       THEN /\ path' = [path EXCEPT ![f] = FreeInode]
            /\ content' = [content EXCEPT ![FreeInode] = 0]
            /\ fnode' = FreeInode
       ELSE /\ content' = [content EXCEPT ![path[f]] = 0]
            /\ fnode' = path[f]
            /\ UNCHANGED path
    /\ UNCHANGED <<unchecked, todo, chosen, rounds>> /\ FetchUnchanged

\* The download ends, complete or not; a failure is only logged.
FetchFill ==
    /\ fpc = "ipget"
    /\ \E c \in {0, Good} : content' = [content EXCEPT ![fnode] = c]
    /\ unchecked' = unchecked \ {cur}
    /\ fpc' = "download" /\ fnode' = None
    /\ UNCHANGED <<path, todo, chosen, cur, rounds>> /\ FetchUnchanged

Bug_FetchAgain ==
    /\ fpc = "download" /\ unchecked = {}
    /\ fpc' = "done" /\ todo' = {}
    /\ UNCHANGED <<path, content, unchecked, chosen, cur, fnode, rounds>> /\ FetchUnchanged

\* After the last download the files are checked again.
FetchAgain ==
    /\ fpc = "download" /\ unchecked = {}
    /\ fpc' = "check" /\ unchecked' = todo /\ todo' = {}
    /\ UNCHANGED <<path, content, chosen, cur, fnode, rounds>> /\ FetchUnchanged

Fetch ==
    \/ \E f \in {"params", "vk"} : FetchCheck(f) \/ FetchOpen(f)
    \/ FetchRename \/ FetchDecide \/ FetchFill \/ FetchAgain

----------------------------------------------------------------------------

Next ==
    \/ \E t \in Threads : GetParams(t) \/ GetVerifyingKey(t) \/ GetSrsKey(t) \/ GetMetadata(t)
    \/ \E t \in Threads : Thread(t) \/ WriteFails(t)
    \/ \E p \in Procs : Crash(p)
    \/ Fetch

Spec == Init /\ [][Next]_vars /\ \A t \in Threads : WF_vars(Thread(t))
----------------------------------------------------------------------------
(* Properties                                                               *)

Answered(t, ws) == pc[t] = "ok" /\ want[t] \in ws

\* Every value in use for the entries ws: results of calls and cached values.
InUse(ws) ==
    {val[t] : t \in {u \in Threads : Answered(u, ws)}}
    \cup ({mem[p][w] : p \in Procs, w \in ws \cap {"params", "vk"}} \ {0})
    \cup ({cell[p] : p \in {q \in Procs : "srs" \in ws}} \ {0})

\* get_groth_params, get_verifying_key and get_inner_product (parameter_cache.rs
\* 276-393) behind cache_lookup and SRSCache.  Parameters are random, several
\* threads and processes may generate them at once, and one of them may die while
\* it writes: no call that succeeds uses a file that is cut short, and, where
\* paramfetch does not run or everyone verifies what it reads, all that succeed use
\* one parameter set with its verifying key, and one SRS.  (paramfetch replaces the
\* files: beside it, threads that do not verify may hold the set from before and the
\* one from after.)
Agreement ==
    /\ \A t \in Threads : pc[t] = "ok" => val[t] # 0
    /\ fpc = "off" \/ checking =>
          /\ Cardinality(InUse({"params", "vk"})) <= 1
          /\ Cardinality(InUse({"srs"})) <= 1

\* verify_production_entry (parameter_cache.rs 411-456) hashes a file once and
\* read_cached_* opens it again later: with verify_production_params no call of
\* the API returns anything but what the manifest lists, although paramfetch
\* moves and replaces files and paramcache writes generated ones.  (No tool modelled
\* here provides the listed SRS, so with verification every call for it fails.)
VerifiedRight ==
    checking => \A t \in Threads \ Rng :
        Answered(t, {"params", "vk", "srs"}) => val[t] = Good

\* paramfetch (main) reports success only when every file it was asked to fetch
\* is complete and stays so, although downloads fail and a process that verifies
\* what it reads may write the verifying key at the same time.  (ipget takes no
\* lock: a process that does not verify, or one that generates parameters, could
\* write older or other contents over the download.)
FetchedGood ==
    fpc = "done" /\ checking =>
        \A f \in chosen : path[f] # None /\ content[path[f]] = Good

\* Waiting for a file lock or for the thread that initialises a cell never
\* blocks a call for ever: every call of get_* returns.
CallEnds ==
    \A t \in Threads : pc[t] \notin {"idle", "ok", "err"} ~> pc[t] \in {"ok", "err"}
=============================================================================

-------------------------- MODULE ParamStore_proofs --------------------------
(***************************************************************************)
(* Proofs about the parameter cache, for any number of threads, processes, *)
(* calls, faults and download rounds: Agreement, VerifiedRight and         *)
(* FetchedGood of ParamStore.                                              *)
(*                                                                         *)
(* Alone is what the theorems ask of the environment: paramcache does not  *)
(* generate parameters in the directory while paramfetch downloads into    *)
(* it.  (ipget writes without a lock, so a generator could replace a file  *)
(* that another process has already verified.)                             *)
(*                                                                         *)
(* The invariant follows the contents of the files.  Without paramfetch a  *)
(* path keeps the inode it was given and the contents of that inode change *)
(* once, from empty to what its creator writes; everything in use is what  *)
(* the path holds (OffInv).  With verify_production_params a process reads *)
(* only what it has verified, verified parameters stay as they are or are  *)
(* empty while they are downloaded again, and a verifying key is only made *)
(* from verified parameters (CheckInv).                                    *)
(***************************************************************************)
EXTENDS ParamStore, FiniteSetTheorems, TLAPS

\* paramcache and paramfetch do not run at the same time.
Alone == fpc = "off" \/ \A t \in Rng : calls[t] = MaxCalls

\* Where a thread is: between calls, in the middle of one (not waiting for the cell),
\* with a file open, on the way to write a file, and with that file created.
Resting == {"idle", "ok", "err"}
Middle  == {"verify", "open", "hash", "read", "exists", "generate", "create", "lock", "write"}
Holding == {"hash", "read", "lock", "write"}
Making  == {"create", "lock", "write"}
Owning  == {"lock", "write"}
Keys    == {"params", "vk"}

\* What the path of a file holds, 0 if there is no file.
Current(f) == IF path[f] = None THEN 0 ELSE content[path[f]]

\* The types the proof needs.
TypeInv ==
    /\ path \in [Files -> Inodes \cup {None}] /\ content \in [Inodes -> Nat]
    /\ pc \in [Threads -> Resting \cup Middle \cup {"wait"}]
    /\ want \in [Threads -> Files] /\ file \in [Threads -> Files]
    /\ fd \in [Threads -> Inodes \cup {None}] /\ val \in [Threads -> Nat]
    /\ mem \in [Procs -> [Keys -> Nat]] /\ cell \in [Procs -> Nat]
    /\ init \in [Procs -> Threads \cup {None}] /\ verified \in [Procs -> SUBSET Files]
    /\ made \in Nat /\ made >= Bad
    /\ fpc \in {"off", "check", "rename", "download", "ipget", "done", "failed"}
    /\ unchecked \subseteq Keys /\ todo \subseteq Keys /\ chosen \subseteq Keys
    /\ cur \in Keys /\ fnode \in Inodes \cup {None}

\* An inode belongs to one file: to its path, to the threads that have it open for
\* that file, and to the one thread that created it.
HoldInv ==
    /\ \A f, g \in Files : path[f] = path[g] /\ path[f] # None => f = g
    /\ \A t \in Threads, g \in Files : fd[t] = path[g] /\ path[g] # None => file[t] = g
    /\ \A t, u \in Threads : fd[t] = fd[u] /\ fd[t] # None => file[t] = file[u]
    /\ \A t, u \in Threads : pc[t] \in Owning /\ pc[u] \in Owning /\ t # u => fd[t] # fd[u]
    /\ IF fpc = "ipget" THEN fnode = path[cur] /\ fnode # None ELSE fnode = None

\* The verifying key on disk is that of the parameters on disk, or the right one.
ValueInv ==
    /\ fpc = "off" => Current("vk") \in {0, Current("params")}
    /\ checking => Current("vk") \in {0, Good} /\ Current("srs") # Good

\* Where a thread is, and for which file.
ThreadInv(t) ==
    /\ file[t] = want[t] \/ (want[t] = "vk" /\ file[t] = "params")
    /\ pc[t] \in Holding <=> fd[t] # None
    /\ pc[t] = "wait" => file[t] = "srs" /\ want[t] = "srs" /\ t \notin Rng
    /\ pc[t] = "exists" => file[t] = "params"
    /\ pc[t] = "generate" => file[t] \in {"params", "srs"}
    /\ pc[t] \in Making /\ file[t] \in {"params", "srs"} => t \in Rng /\ val[t] > Bad
    /\ pc[t] \in Making /\ file[t] = "vk" => val[t] # 0
    /\ pc[t] = "ok" => val[t] # 0
    /\ fpc = "off" \/ (t \in Rng => pc[t] \in {"idle", "err"} /\ calls[t] = MaxCalls)

\* Without paramfetch: open files are those at the paths, a file that is being made
\* is still empty, and every value is the current one.
OffInv(t) ==
    fpc = "off" =>
        /\ fd[t] # None => fd[t] = path[file[t]]
        /\ pc[t] \in Owning => content[fd[t]] = 0
        /\ pc[t] \in Making /\ file[t] = "vk" => val[t] = Current("params")
        /\ pc[t] = "ok" /\ want[t] \in Keys => val[t] = Current("params")
        /\ pc[t] = "ok" /\ want[t] = "srs" => val[t] = Current("srs")

\* With verification: files are read after they were verified, what a thread has open
\* is right or will be refused, and what it makes or returns is right.
CheckInv(t) ==
    checking =>
        /\ pc[t] \in {"open", "read"} /\ file[t] # "meta" => file[t] \in verified[Process[t]]
        /\ pc[t] \in {"verify", "hash"} => file[t] # "meta"
        /\ fd[t] # None /\ file[t] = "params" /\ content[fd[t]] = Good => fd[t] = path["params"]
        /\ fd[t] # None /\ file[t] = "vk" => content[fd[t]] \in {0, Good}
        /\ fd[t] # None /\ file[t] = "srs" => content[fd[t]] # Good
        /\ pc[t] \in Making /\ file[t] = "vk" => val[t] = Good
        /\ pc[t] = "ok" /\ t \notin Rng /\ want[t] # "meta" => val[t] = Good

\* What a process remembers: cached values, verified files, and the thread that
\* initialises the cell of the SRS.
ProcInv(p) ==
    /\ init[p] # None =>
          /\ Process[init[p]] = p /\ want[init[p]] = "srs" /\ init[p] \notin Rng
          /\ pc[init[p]] \in Middle
    /\ fpc = "off" =>
          /\ \A w \in Keys : mem[p][w] \in {0, Current("params")}
          /\ cell[p] \in {0, Current("srs")}
    /\ checking =>
          /\ \A w \in Keys : mem[p][w] \in {0, Good}
          /\ cell[p] = 0 /\ "srs" \notin verified[p]
          /\ "params" \in verified[p] => Current("params") \in {0, Good}
          /\ "params" \in verified[p] /\ fpc = "off" => Current("params") = Good

\* paramfetch: it moves away no parameters that are right, and what it was asked for and
\* need not look at again is right.  (It downloads right ones again that could not be
\* hashed: then they are cut short for a while.)
FetchInv ==
    /\ fpc = "rename" => cur \in unchecked /\ (cur = "params" => Current("params") # Good)
    /\ fpc \in {"download", "ipget"} => unchecked \subseteq todo
    /\ fpc = "ipget" => cur \in unchecked
    /\ fpc = "done" => unchecked = {} /\ todo = {}
    /\ checking => \A f \in chosen \ (unchecked \cup todo) : Current(f) = Good

\* The inductive invariant.
StoreInv ==
    /\ TypeInv /\ HoldInv /\ ValueInv /\ FetchInv
    /\ \A t \in Threads : ThreadInv(t) /\ OffInv(t) /\ CheckInv(t)
    /\ \A p \in Procs : ProcInv(p)

----------------------------------------------------------------------------
(* An inode for a new file                                                  *)

\* The paths, the threads and ipget do not use all the inodes.
LEMMA InodeFree ==
  ASSUME TypeInv
  PROVE  /\ FreeInode \in Inodes /\ FreeInode # None
         /\ \A f \in Files : path[f] # FreeInode
         /\ \A t \in Threads : fd[t] # FreeInode
<1> USE ParamAssumption
<1> DEFINE P == {path[f] : f \in Files}
           T == {fd[t] : t \in Threads}
           used == (P \cup T) \cup {fnode}
<1>1. IsFiniteSet(Files)
  <2>1. IsFiniteSet({"params"} \cup {"vk"}) /\ IsFiniteSet({"srs"} \cup {"meta"})
    BY FS_Singleton, FS_Union
  <2>2. IsFiniteSet(({"params"} \cup {"vk"}) \cup ({"srs"} \cup {"meta"}))
    BY <2>1, FS_Union
  <2>3. Files = ({"params"} \cup {"vk"}) \cup ({"srs"} \cup {"meta"})
    BY DEF Files
  <2> QED
    BY <2>2, <2>3
<1>2. IsFiniteSet(P) /\ Cardinality(P) <= Cardinality(Files)
  <2>1. path \in Surjection(Files, P)
    BY DEF TypeInv, Surjection
  <2> QED
    BY <1>1, <2>1, FS_Surjection
<1>3. IsFiniteSet(T) /\ Cardinality(T) <= Cardinality(Threads)
  <2>1. fd \in Surjection(Threads, T)
    BY DEF TypeInv, Surjection
  <2> QED
    BY <2>1, FS_Surjection
<1>4. IsFiniteSet({fnode}) /\ Cardinality({fnode}) = 1
  BY FS_Singleton
<1>5. /\ Cardinality(Files) \in Nat /\ Cardinality(Threads) \in Nat
      /\ Cardinality(P) \in Nat /\ Cardinality(T) \in Nat
  BY <1>1, <1>2, <1>3, FS_CardinalityType
<1> HIDE DEF P, T
<1>6. /\ IsFiniteSet(P \cup T) /\ Cardinality(P \cup T) \in Nat
      /\ Cardinality(P \cup T) <= Cardinality(P) + Cardinality(T)
  <2>1. /\ IsFiniteSet(P \cup T)
        /\ Cardinality(P \cup T) = Cardinality(P) + Cardinality(T) - Cardinality(P \cap T)
    BY <1>2, <1>3, FS_Union
  <2>2. Cardinality(P \cap T) \in Nat /\ Cardinality(P \cup T) \in Nat
    BY <1>2, <2>1, FS_Intersection, FS_CardinalityType
  <2> QED
    BY <1>5, <2>1, <2>2
<1>7. /\ IsFiniteSet(used) /\ Cardinality(used) \in Nat
      /\ Cardinality(used) <= Cardinality(P \cup T) + 1
  <2>1. /\ IsFiniteSet(used)
        /\ Cardinality(used) = Cardinality(P \cup T) + Cardinality({fnode})
                               - Cardinality((P \cup T) \cap {fnode})
    BY <1>4, <1>6, FS_Union
  <2>2. Cardinality((P \cup T) \cap {fnode}) \in Nat /\ Cardinality(used) \in Nat
    BY <1>6, <2>1, FS_Intersection, FS_CardinalityType
  <2> QED
    BY <1>4, <1>6, <2>1, <2>2
<1>8. IsFiniteSet(Inodes) /\ Cardinality(Inodes) = Cardinality(Files) + Cardinality(Threads) + 2
  <2>1. Cardinality(Files) + Cardinality(Threads) + 2 \in Nat
    BY <1>5
  <2> HIDE DEF used
  <2> QED
    BY <2>1, FS_Interval, <1>5 DEF Inodes
<1>9. ~(Inodes \subseteq used)
  <2> SUFFICES ASSUME Inodes \subseteq used PROVE FALSE
    OBVIOUS
  <2>1. Cardinality(Inodes) <= Cardinality(used)
    <3> HIDE DEF used
    <3> QED
      BY <1>7, FS_Subset
  <2> QED
    BY <1>2, <1>3, <1>5, <1>6, <1>7, <1>8, <2>1
<1>10. \E i \in Inodes : (\A f \in Files : path[f] # i) /\ (\A t \in Threads : fd[t] # i) /\ fnode # i
  BY <1>9 DEF P, T
<1>11. /\ FreeInode \in Inodes
       /\ \A f \in Files : path[f] # FreeInode
       /\ \A t \in Threads : fd[t] # FreeInode
  BY <1>10 DEF FreeInode
<1> QED
  BY <1>11 DEF Inodes

----------------------------------------------------------------------------
(* Steps of a thread that leave the contents of the files alone             *)

\* Thread t moves while the paths, the contents and paramfetch stay as they are; it
\* may close its file or open the one at a path, and add to the verified files.
LEMMA Quiet ==
  ASSUME StoreInv, NEW t \in Threads, TypeInv',
         UNCHANGED <<path, content, checking, fetchVars>>,
         \A u \in Threads \ {t} :
             /\ pc'[u] = pc[u] /\ want'[u] = want[u] /\ file'[u] = file[u]
             /\ fd'[u] = fd[u] /\ val'[u] = val[u] /\ calls'[u] = calls[u],
         \/ fd'[t] = None
         \/ fd'[t] = fd[t] /\ file'[t] = file[t]
         \/ fd'[t] = path[file'[t]],
         pc'[t] \in Owning => pc[t] \in Owning /\ fd'[t] = fd[t],
         ThreadInv(t)', OffInv(t)', CheckInv(t)',
         \A p \in Procs : verified[p] \subseteq verified'[p],
         \A p \in Procs : ProcInv(p)'
  PROVE  StoreInv'
<1> USE DEF StoreInv, fetchVars
<1>1. \A f \in Files : Current(f)' = Current(f)
  BY DEF Current
<1>2. Keys \subseteq Files /\ "srs" \in Files
  BY DEF Keys, Files
<1>3. HoldInv'
  <2>1. \A g \in Files : fd'[t] = path[g] /\ path[g] # None => file'[t] = g
    BY DEF HoldInv, TypeInv
  <2>2. \A u \in Threads \ {t} : fd'[t] = fd[u] /\ fd[u] # None => file'[t] = file[u]
    BY DEF HoldInv, TypeInv
  <2>3. \A u \in Threads \ {t} : pc'[t] \in Owning /\ pc[u] \in Owning => fd'[t] # fd[u]
    BY DEF HoldInv
  <2> QED
    BY <2>1, <2>2, <2>3 DEF HoldInv
<1>4. ValueInv'
  BY <1>1, <1>2 DEF ValueInv, Keys
<1>5. FetchInv'
  <2>1. chosen \subseteq Files /\ "params" \in Files
    BY <1>2 DEF TypeInv, Files
  <2>2. UNCHANGED <<fpc, unchecked, todo, chosen, cur, checking>>
    OBVIOUS
  <2> QED
    BY <1>1, <2>1, <2>2 DEF FetchInv
<1>6. ASSUME NEW u \in Threads PROVE ThreadInv(u)' /\ OffInv(u)' /\ CheckInv(u)'
  <2>1. CASE u # t
    <3>1. ThreadInv(u)'
      BY <2>1 DEF ThreadInv
    <3>2. OffInv(u)'
      BY <1>1, <1>2, <2>1 DEF OffInv, Keys
    <3>3. CheckInv(u)'
      <4>1. Process[u] \in Procs
        BY DEF Procs
      <4> QED
        BY <2>1, <4>1 DEF CheckInv
    <3> QED
      BY <3>1, <3>2, <3>3
  <2> QED
    BY <2>1
<1> QED
  BY <1>3, <1>4, <1>5, <1>6

\* What a thread step leaves alone besides the state it names.
Frame == UNCHANGED <<path, content, checking, fetchVars, want, calls, made>>

\* The file is closed, or the one at the path is opened.
Opens(t, f, s) ==
    /\ fd' \in [Threads -> Inodes \cup {None}]
    /\ \A u \in Threads \ {t} : fd'[u] = fd[u]
    /\ fd'[t] = IF s \in Holding THEN path[f] ELSE None
    /\ s \in Holding => path[f] # None

\* A call returns, with an error or with a value that is right.
LEMMA QuietReturn ==
  ASSUME StoreInv, NEW t \in Threads, NEW ok \in BOOLEAN, NEW v \in Nat, Return(t, ok, v),
         Frame, Opens(t, "params", "err"), UNCHANGED verified,
         pc[t] \in Middle,
         ok => /\ v # 0
               /\ fpc = "off" /\ want[t] \in Keys => v = Current("params")
               /\ fpc = "off" /\ want[t] = "srs" => v = Current("srs")
               /\ checking /\ t \notin Rng /\ want[t] # "meta" => v = Good /\ want[t] # "srs"
  PROVE  StoreInv'
<1> USE DEF StoreInv, Frame, Opens, Middle, Resting, Holding, Making, Owning
<1>1. Process[t] \in Procs /\ (t \in Rng => fpc = "off")
  BY DEF Procs, ThreadInv
<1>2. TypeInv'
  BY <1>1 DEF Return, TypeInv, fetchVars, Keys
<1>3. ThreadInv(t)'
  BY DEF Return, TypeInv, ThreadInv, fetchVars
<1>4. OffInv(t)' /\ CheckInv(t)'
  BY DEF Return, TypeInv, OffInv, CheckInv, fetchVars, Current
<1>5. ASSUME NEW p \in Procs PROVE ProcInv(p)'
  <2>1. Current("params")' = Current("params") /\ Current("srs")' = Current("srs")
    BY DEF Current
  <2>2. init'[p] # None =>
          /\ Process[init'[p]] = p /\ want'[init'[p]] = "srs" /\ init'[p] \notin Rng
          /\ pc'[init'[p]] \in Middle
    BY <1>1 DEF Return, TypeInv, ProcInv
  <2>3. fpc = "off" => \A w \in Keys : mem'[p][w] \in {0, Current("params")}
    BY <1>1 DEF Return, TypeInv, ProcInv, Keys
  <2>4. fpc = "off" => cell'[p] \in {0, Current("srs")}
    BY <1>1, ParamAssumption DEF Return, TypeInv, ProcInv
  <2>5. checking => (\A w \in Keys : mem'[p][w] \in {0, Good}) /\ cell'[p] = 0
    BY <1>1, ParamAssumption DEF Return, TypeInv, ProcInv, Cached, Keys
  <2> QED
    BY <2>1, <2>2, <2>3, <2>4, <2>5 DEF ProcInv, fetchVars
<1> QED
  BY <1>2, <1>3, <1>4, <1>5, Quiet DEF Return, TypeInv

\* A call goes on with the same or another file.
LEMMA QuietContinue ==
  ASSUME StoreInv, NEW t \in Threads, NEW f \in Files, NEW s \in Middle, NEW again,
         Continue(t, f, s, again), Frame, Opens(t, f, s), UNCHANGED verified,
         pc[t] \in Middle,
         f = want[t] \/ (want[t] = "vk" /\ f = "params"),
         s \notin Owning, s = "create" => f = "meta",
         s = "exists" => f = "params", s = "generate" => f \in {"params", "srs"},
         checking => /\ s \in {"open", "read"} /\ f # "meta" => f \in verified[Process[t]]
                     /\ s \in {"verify", "hash"} => f # "meta"
  PROVE  StoreInv'
<1> USE DEF StoreInv, Frame, Opens, Middle, Resting, Holding, Making, Owning
<1>1. Process[t] \in Procs /\ (t \in Rng => fpc = "off")
  BY DEF Procs, ThreadInv
<1>2. TypeInv'
  BY <1>1 DEF Continue, TypeInv, fetchVars
<1>3. ThreadInv(t)'
  BY <1>1 DEF Continue, TypeInv, ThreadInv, fetchVars
<1>4. OffInv(t)'
  BY DEF Continue, TypeInv, OffInv, fetchVars
<1>5. CheckInv(t)'
  BY DEF Continue, TypeInv, CheckInv, ValueInv, Current, Files
<1>6. ASSUME NEW p \in Procs PROVE ProcInv(p)'
  BY DEF Continue, TypeInv, ProcInv, fetchVars, Current
<1> QED
  BY <1>2, <1>3, <1>4, <1>5, <1>6, Quiet DEF Continue, TypeInv

\* A failed read leads to an error, or on to the step that makes the file.
LEMMA QuietFailed ==
  ASSUME StoreInv, NEW t \in Threads, NEW invalid \in BOOLEAN, ReadFailed(t, invalid),
         Frame, Opens(t, "params", "err"), UNCHANGED verified,
         pc[t] \in {"verify", "open", "hash", "read"}
  PROVE  StoreInv'
<1> USE DEF StoreInv, Middle, Holding, Owning, Files, StartRead
<1>1. ThreadInv(t) /\ pc[t] \in Middle
  OBVIOUS
<1>2. CASE Return(t, FALSE, 0)
  BY <1>1, <1>2, QuietReturn
<1>3. CASE Continue(t, "params", "exists", FALSE) /\ file[t] = "params"
  BY <1>1, <1>3, QuietContinue DEF ThreadInv, Opens
<1>4. CASE file[t] = "vk" /\ Continue(t, "params", StartRead("params"), FALSE)
  BY <1>1, <1>4, QuietContinue DEF ThreadInv, Opens
<1>5. CASE file[t] = "srs" /\ Continue(t, "srs", "generate", FALSE)
  BY <1>1, <1>5, QuietContinue DEF ThreadInv, Opens
<1>6. CASE file[t] = "meta" /\ Continue(t, "meta", "create", FALSE)
  BY <1>1, <1>6, QuietContinue DEF ThreadInv, Opens
<1> QED
  BY <1>2, <1>3, <1>4, <1>5, <1>6 DEF ReadFailed

----------------------------------------------------------------------------
(* The steps of a thread                                                    *)

\* The initial states satisfy the invariant.
LEMMA StoreInit == Init /\ Alone => StoreInv
<1> SUFFICES ASSUME Init, Alone PROVE StoreInv
  OBVIOUS
<1> USE ParamAssumption DEF Init, Resting, Middle, Holding, Making, Owning, Keys, Files
<1>1. PICK c \in {None, 0, Good, Bad} :
         /\ path = [f \in Files |-> IF f = "params" /\ c # None THEN 1 ELSE None]
         /\ content = [i \in Inodes |-> IF i = 1 /\ c # None THEN c ELSE 0]
  OBVIOUS
<1>2. 1 \in Inodes /\ None \notin Inodes
  <2>1. IsFiniteSet({"params"} \cup {"vk"}) /\ IsFiniteSet({"srs"} \cup {"meta"})
    BY FS_Singleton, FS_Union
  <2>2. IsFiniteSet(({"params"} \cup {"vk"}) \cup ({"srs"} \cup {"meta"}))
    BY <2>1, FS_Union
  <2>3. Files = ({"params"} \cup {"vk"}) \cup ({"srs"} \cup {"meta"})
    OBVIOUS
  <2>4. Cardinality(Files) \in Nat /\ Cardinality(Threads) \in Nat
    BY <2>2, <2>3, FS_CardinalityType
  <2> HIDE DEF Files
  <2> QED
    BY <2>4 DEF Inodes
<1>3. TypeInv
  BY <1>1, <1>2 DEF TypeInv, Good, Bad
<1>4. \A f \in Files : f # "params" => Current(f) = 0
  BY <1>1 DEF Current
<1>5. HoldInv
  BY <1>1, <1>2 DEF HoldInv
<1>6. ValueInv /\ FetchInv
  BY <1>4 DEF ValueInv, FetchInv, Good
<1>7. ASSUME NEW t \in Threads PROVE ThreadInv(t) /\ OffInv(t) /\ CheckInv(t)
  BY DEF ThreadInv, OffInv, CheckInv, Alone
<1>8. ASSUME NEW p \in Procs PROVE ProcInv(p)
  BY DEF ProcInv
<1> QED
  BY <1>3, <1>5, <1>6, <1>7, <1>8 DEF StoreInv

\* A call starts with a hit in the memory cache, at the cell, or with the file.
LEMMA StoreCall ==
  ASSUME StoreInv, NEW t \in Threads, NEW w \in Files, Call(t, w)
  PROVE  StoreInv'
<1> USE DEF StoreInv, Resting, Middle, Holding, Making, Owning, Keys
<1> DEFINE hit == IF Cached(t) /\ w \in {"params", "vk"} THEN mem[Process[t]][w] ELSE 0
           s == CASE hit # 0 -> "ok" [] w = "srs" /\ Cached(t) -> "wait" [] OTHER -> StartRead(w)
<1>1. Process[t] \in Procs /\ calls[t] < MaxCalls /\ pc[t] \in Resting
  BY DEF Procs, Call
<1>2. /\ want' = [want EXCEPT ![t] = w] /\ file' = [file EXCEPT ![t] = w]
      /\ val' = [val EXCEPT ![t] = hit] /\ pc' = [pc EXCEPT ![t] = s]
      /\ UNCHANGED <<path, content, mem, cell, init, verified, checking, fetchVars, fd, made>>
      /\ \A u \in Threads \ {t} : calls'[u] = calls[u]
  BY DEF Call, diskVars, procVars, confVars
<1>3. fd[t] = None /\ (t \in Rng => fpc = "off")
  BY <1>1, ParamAssumption DEF ThreadInv, TypeInv
<1>4. hit \in Nat /\ (hit # 0 => t \notin Rng /\ w \in Keys)
  BY <1>1 DEF TypeInv, Cached
<1>5. s \in {"ok", "wait", "verify", "open"} /\ (s = "ok" <=> hit # 0)
      /\ (s = "wait" => w = "srs" /\ t \notin Rng) /\ (s = "open" => ~checking \/ w = "meta")
      /\ (s = "verify" => w # "meta")
  BY DEF StartRead, Cached
<1>6. /\ fpc = "off" /\ hit # 0 => hit = Current("params")
      /\ checking /\ hit # 0 => hit = Good
  BY <1>1 DEF ProcInv
<1> HIDE DEF hit, s
<1>7. TypeInv'
  BY <1>2, <1>4, <1>5 DEF TypeInv, fetchVars
<1>8. ThreadInv(t)'
  BY <1>2, <1>3, <1>5 DEF ThreadInv, TypeInv, fetchVars
<1>9. OffInv(t)'
  BY <1>2, <1>3, <1>4, <1>5, <1>6 DEF OffInv, TypeInv, fetchVars, Current
<1>10. CheckInv(t)'
  BY <1>2, <1>3, <1>4, <1>5, <1>6 DEF CheckInv, TypeInv
<1>11. ASSUME NEW p \in Procs PROVE ProcInv(p)'
  BY <1>1, <1>2 DEF ProcInv, TypeInv, fetchVars, Current
<1> QED
  BY <1>2, <1>3, <1>5, <1>7, <1>8, <1>9, <1>10, <1>11, Quiet DEF TypeInv

\* The cell of the SRS is read, or this thread initialises it.
LEMMA StoreCell ==
  ASSUME StoreInv, NEW t \in Threads, OnceCell(t)
  PROVE  StoreInv'
<1> USE DEF StoreInv, Resting, Middle, Holding, Making, Owning, Keys
<1>1. /\ Process[t] \in Procs /\ pc[t] = "wait" /\ file[t] = "srs" /\ want[t] = "srs"
      /\ t \notin Rng /\ fd[t] = None /\ init[Process[t]] = None
  BY DEF Procs, OnceCell, ThreadInv, TypeInv
<1>2. /\ UNCHANGED <<path, content, mem, cell, verified, checking, fetchVars, want, file, fd, made>>
      /\ calls' = calls
  BY DEF OnceCell, diskVars, confVars
<1>3. \/ /\ cell[Process[t]] # 0 /\ val' = [val EXCEPT ![t] = cell[Process[t]]]
         /\ pc' = [pc EXCEPT ![t] = "ok"] /\ init' = init
      \/ /\ pc' = [pc EXCEPT ![t] = IF checking THEN "verify" ELSE "open"]
         /\ init' = [init EXCEPT ![Process[t]] = t] /\ val' = val
  BY DEF OnceCell, StartRead
<1>4. TypeInv'
  BY <1>1, <1>2, <1>3 DEF TypeInv, fetchVars
<1>5. ThreadInv(t)'
  BY <1>1, <1>2, <1>3 DEF ThreadInv, TypeInv, fetchVars
<1>6. OffInv(t)'
  BY <1>1, <1>2, <1>3 DEF OffInv, ProcInv, TypeInv, fetchVars, Current
<1>7. CheckInv(t)'
  BY <1>1, <1>2, <1>3 DEF CheckInv, ProcInv, TypeInv
<1>8. ASSUME NEW p \in Procs PROVE ProcInv(p)'
  BY <1>1, <1>2, <1>3, ParamAssumption DEF ProcInv, TypeInv, fetchVars, Current
<1> QED
  BY <1>1, <1>2, <1>3, <1>4, <1>5, <1>6, <1>7, <1>8, Quiet DEF TypeInv

\* Verifying a file that needs no hash, and opening a file to hash or to read it.
LEMMA StoreOpen ==
  ASSUME StoreInv, NEW t \in Threads, VerifyKnown(t) \/ Open(t)
  PROVE  StoreInv'
<1> USE DEF StoreInv, Middle, Holding, Owning
<1>1. /\ pc[t] \in {"verify", "open"} /\ fd[t] = None /\ file[t] \in Files /\ ThreadInv(t)
      /\ fd \in [Threads -> Inodes \cup {None}] /\ CheckInv(t) /\ path \in [Files -> Inodes \cup {None}]
  BY DEF VerifyKnown, Open, ThreadInv, TypeInv
<1>2. Frame /\ UNCHANGED verified
  BY DEF VerifyKnown, Open, Frame, diskVars, confVars
<1>3. Opens(t, "params", "err") <=> UNCHANGED fd
  BY <1>1 DEF Opens
<1>4. CASE VerifyKnown(t)
  <2>1. UNCHANGED fd
    BY <1>4 DEF VerifyKnown
  <2>2. CASE ReadFailed(t, TRUE)
    BY <1>1, <1>2, <1>3, <2>1, <2>2, QuietFailed
  <2>3. CASE Continue(t, file[t], "open", second[t]) /\ file[t] \in verified[Process[t]]
    BY <1>1, <1>2, <2>1, <2>3, QuietContinue DEF Opens, ThreadInv
  <2> QED
    BY <1>4, <2>2, <2>3 DEF VerifyKnown
<1>5. CASE Open(t)
  <2>1. CASE path[file[t]] = None
    BY <1>1, <1>2, <1>3, <1>5, <2>1, QuietFailed DEF Open
  <2>2. CASE path[file[t]] # None
    <3> DEFINE s == IF pc[t] = "open" THEN "read" ELSE "hash"
    <3>1. Continue(t, file[t], s, second[t]) /\ fd' = [fd EXCEPT ![t] = path[file[t]]]
      BY <1>5, <2>2 DEF Open
    <3>2. Opens(t, file[t], s)
      BY <1>1, <2>2, <3>1 DEF Opens
    <3>3. checking => /\ s = "read" /\ file[t] # "meta" => file[t] \in verified[Process[t]]
                      /\ s = "hash" => file[t] # "meta"
      BY <1>1, <1>5 DEF CheckInv, Open, Listed
    <3> QED
      BY <1>1, <1>2, <3>1, <3>2, <3>3, QuietContinue DEF ThreadInv
  <2> QED
    BY <2>1, <2>2
<1> QED
  BY <1>4, <1>5

\* The hash is compared; parameters are remembered as verified only if they are right,
\* and then they are the ones at the path.
LEMMA StoreHash ==
  ASSUME StoreInv, NEW t \in Threads, Hash(t)
  PROVE  StoreInv'
<1> USE DEF StoreInv, Resting, Middle, Holding, Making, Owning
<1>1. /\ pc[t] = "hash" /\ fd[t] \in Inodes /\ file[t] \in Files /\ ThreadInv(t) /\ CheckInv(t)
      /\ fd \in [Threads -> Inodes \cup {None}] /\ fd' = [fd EXCEPT ![t] = None]
  BY DEF Hash, ThreadInv, TypeInv
<1>2. Frame
  BY DEF Hash, Frame, diskVars, confVars
<1>3. Opens(t, "params", "err")
  BY <1>1 DEF Opens
<1>4. CASE content[fd[t]] # Good
  BY <1>1, <1>2, <1>3, <1>4, QuietFailed DEF Hash
<1>5. CASE content[fd[t]] = Good
  <2>1. /\ verified' = [verified EXCEPT ![Process[t]] = @ \cup {file[t]}]
        /\ Continue(t, file[t], "open", second[t]) /\ Process[t] \in Procs
    BY <1>5 DEF Hash, Procs
  <2>2. checking => file[t] # "srs" /\ (file[t] = "params" => Current("params") = Good)
    BY <1>1, <1>5, ParamAssumption DEF CheckInv, Current, Inodes
  <2>3. TypeInv'
    BY <1>1, <1>2, <2>1 DEF TypeInv, Continue, Frame, fetchVars
  <2>4. ThreadInv(t)' /\ OffInv(t)' /\ CheckInv(t)'
    BY <1>1, <1>2, <2>1 DEF ThreadInv, OffInv, CheckInv, TypeInv, Continue, Frame, fetchVars
  <2>5. ASSUME NEW p \in Procs PROVE ProcInv(p)'
    <3>1. Current("params")' = Current("params") /\ Current("srs")' = Current("srs")
      BY <1>2 DEF Current, Frame
    <3>2. checking =>
            /\ "srs" \notin verified'[p]
            /\ "params" \in verified'[p] => Current("params") \in {0, Good}
            /\ "params" \in verified'[p] /\ fpc = "off" => Current("params") = Good
      BY <2>1, <2>2 DEF ProcInv, TypeInv
    <3> QED
      BY <1>1, <1>2, <2>1, <3>1, <3>2 DEF ProcInv, TypeInv, Continue, Frame, fetchVars
  <2>6. \A p \in Procs : verified[p] \subseteq verified'[p]
    BY <2>1 DEF TypeInv
  <2> QED
    BY <1>1, <1>2, <2>1, <2>3, <2>4, <2>5, <2>6, Quiet DEF Frame, Continue, TypeInv
<1> QED
  BY <1>4, <1>5

\* What was read is current, and right if it was verified.
LEMMA StoreRead ==
  ASSUME StoreInv, NEW t \in Threads, Read(t)
  PROVE  StoreInv'
<1> USE DEF StoreInv, Resting, Middle, Holding, Making, Owning
<1> DEFINE v == Seen(t)
<1>1. /\ pc[t] = "read" /\ fd[t] \in Inodes /\ file[t] \in Files
      /\ ThreadInv(t) /\ CheckInv(t) /\ OffInv(t) /\ Process[t] \in Procs /\ ProcInv(Process[t])
      /\ fd \in [Threads -> Inodes \cup {None}] /\ fd' = [fd EXCEPT ![t] = None]
      /\ path \in [Files -> Inodes \cup {None}] /\ content \in [Inodes -> Nat] /\ "params" \in Files
  BY DEF Read, ThreadInv, TypeInv, Procs, Files
<1>2. Frame /\ UNCHANGED verified
  BY DEF Read, Frame, diskVars, confVars
<1>3. Opens(t, "params", "err")
  BY <1>1 DEF Opens
<1>4. CASE v = 0
  BY <1>1, <1>2, <1>3, <1>4, QuietFailed DEF Read
<1>5. CASE v # 0
  <2>1. v \in Nat /\ (file[t] = "params" => v = Current("params"))
        /\ (file[t] # "params" => v = content[fd[t]])
    BY <1>1 DEF Seen, Current
  <2>2. fpc = "off" => v = Current(file[t])
    BY <1>1, <2>1, ParamAssumption DEF OffInv, Current, Inodes
  <2>3. fpc = "off" /\ file[t] \in Keys => v = Current("params")
    BY <1>5, <2>2 DEF ValueInv, Keys
  <2>4. checking /\ file[t] # "meta" => v = Good /\ file[t] # "srs"
    BY <1>1, <1>5, <2>1, ParamAssumption DEF CheckInv, ProcInv, Files, Inodes
  <2>5. CASE file[t] = "params" /\ want[t] = "vk"
    <3>1. /\ pc' = [pc EXCEPT ![t] = "create"] /\ file' = [file EXCEPT ![t] = "vk"]
          /\ val' = [val EXCEPT ![t] = v] /\ UNCHANGED <<mem, cell, init>>
      BY <1>5, <2>5 DEF Read, ReadDone
    <3> HIDE DEF v
    <3>2. TypeInv'
      BY <1>1, <1>2, <2>1, <3>1 DEF TypeInv, Frame, fetchVars, Files
    <3>3. ThreadInv(t)'
      BY <1>1, <1>2, <1>5, <2>5, <3>1 DEF ThreadInv, TypeInv, Frame, fetchVars
    <3>4. OffInv(t)'
      BY <1>1, <1>2, <2>1, <2>5, <3>1 DEF OffInv, TypeInv, Frame, fetchVars, Current
    <3>5. CheckInv(t)'
      BY <1>1, <1>2, <2>4, <2>5, <3>1 DEF CheckInv, TypeInv, Frame
    <3>6. ASSUME NEW p \in Procs PROVE ProcInv(p)'
      BY <1>1, <1>2, <3>1 DEF ProcInv, TypeInv, Frame, fetchVars, Current
    <3> QED
      BY <1>1, <1>2, <3>1, <3>2, <3>3, <3>4, <3>5, <3>6, Quiet DEF Frame, TypeInv
  <2>6. CASE ~(file[t] = "params" /\ want[t] = "vk")
    <3>1. Return(t, TRUE, v)
      BY <1>5, <2>6 DEF Read, ReadDone
    <3>2. file[t] = want[t]
      BY <1>1, <2>6 DEF ThreadInv
    <3> HIDE DEF v
    <3> QED
      BY <1>1, <1>2, <1>3, <1>5, <2>1, <2>2, <2>3, <2>4, <3>1, <3>2, QuietReturn
  <2> QED
    BY <2>5, <2>6
<1> QED
  BY <1>4, <1>5

\* Parameters are read again if they are there by now, and are generated otherwise.
LEMMA StoreExists ==
  ASSUME StoreInv, NEW t \in Threads, Exists(t)
  PROVE  StoreInv'
<1> USE DEF StoreInv, Middle, Holding, Owning, StartRead
<1>1. /\ pc[t] = "exists" /\ fd[t] = None /\ file[t] = "params" /\ ThreadInv(t)
      /\ "params" \in Files /\ fd \in [Threads -> Inodes \cup {None}]
  BY DEF Exists, ThreadInv, TypeInv, Files
<1>2. Frame /\ UNCHANGED <<verified, fd>>
  BY DEF Exists, Frame, diskVars, confVars
<1>3. PICK s \in {"generate", "verify", "open"}, again \in BOOLEAN :
         Continue(t, "params", s, again) /\ (checking => s # "open")
  BY DEF Exists
<1> QED
  BY <1>1, <1>2, <1>3, QuietContinue DEF Opens, ThreadInv

\* A fresh parameter set or SRS, or an error without an rng.
LEMMA StoreGenerate ==
  ASSUME StoreInv, NEW t \in Threads, Generate(t)
  PROVE  StoreInv'
<1> USE DEF StoreInv, Resting, Middle, Holding, Making, Owning
<1>1. /\ pc[t] = "generate" /\ fd[t] = None /\ file[t] \in {"params", "srs"} /\ ThreadInv(t)
      /\ fd \in [Threads -> Inodes \cup {None}] /\ UNCHANGED <<verified, fd>>
      /\ made \in Nat /\ made >= Bad
  BY DEF Generate, ThreadInv, TypeInv
<1>2. Opens(t, "params", "err")
  BY <1>1 DEF Opens
<1>3. CASE t \notin Rng
  <2>1. Frame /\ Return(t, FALSE, 0)
    BY <1>3 DEF Generate, Frame, diskVars, confVars
  <2> QED
    BY <1>1, <1>2, <2>1, QuietReturn
<1>4. CASE t \in Rng
  <2>1. /\ val' = [val EXCEPT ![t] = made + 1] /\ pc' = [pc EXCEPT ![t] = "create"]
        /\ made' = made + 1
        /\ UNCHANGED <<path, content, checking, fetchVars, want, calls, file, mem, cell, init>>
    BY <1>4 DEF Generate, diskVars, confVars
  <2>0. made + 1 > Bad /\ made + 1 \in Nat
    BY <1>1 DEF Bad
  <2>2. TypeInv'
    BY <1>1, <2>0, <2>1 DEF TypeInv, fetchVars, Bad
  <2>3. ThreadInv(t)' /\ OffInv(t)' /\ CheckInv(t)'
    BY <1>1, <1>4, <2>0, <2>1 DEF ThreadInv, OffInv, CheckInv, TypeInv, fetchVars
  <2>4. ASSUME NEW p \in Procs PROVE ProcInv(p)'
    BY <1>1, <2>1 DEF ProcInv, TypeInv, fetchVars, Current
  <2> QED
    BY <1>1, <2>1, <2>2, <2>3, <2>4, Quiet DEF TypeInv
<1> QED
  BY <1>3, <1>4

\* The exclusive lock is taken; a failed write gives it back and reports the error.
LEMMA StoreLock ==
  ASSUME StoreInv, NEW t \in Threads, Lock(t) \/ WriteFails(t)
  PROVE  StoreInv'
<1> USE DEF StoreInv, Resting, Middle, Holding, Making, Owning
<1>1. Frame /\ UNCHANGED verified /\ ThreadInv(t) /\ fd \in [Threads -> Inodes \cup {None}]
  BY DEF Lock, WriteFails, Frame, confVars, TypeInv
<1>2. CASE Lock(t)
  <2>1. /\ pc[t] = "lock" /\ pc' = [pc EXCEPT ![t] = "write"] /\ file' = file /\ fd' = fd
        /\ UNCHANGED <<val, mem, cell, init>>
    BY <1>2 DEF Lock, Continue, TypeInv
  <2>2. TypeInv'
    BY <1>1, <2>1 DEF TypeInv, Frame, fetchVars
  <2>3. ThreadInv(t)' /\ OffInv(t)' /\ CheckInv(t)'
    BY <1>1, <2>1 DEF ThreadInv, OffInv, CheckInv, TypeInv, Frame, fetchVars, Current
  <2>4. ASSUME NEW p \in Procs PROVE ProcInv(p)'
    BY <1>1, <2>1 DEF ProcInv, TypeInv, Frame, fetchVars, Current
  <2> QED
    BY <1>1, <2>1, <2>2, <2>3, <2>4, Quiet DEF TypeInv, Frame
<1>3. CASE WriteFails(t)
  <2>1. pc[t] = "write" /\ Opens(t, "params", "err") /\ Return(t, FALSE, 0)
    BY <1>1, <1>3 DEF WriteFails, Opens
  <2> QED
    BY <1>1, <2>1, QuietReturn
<1> QED
  BY <1>2, <1>3

----------------------------------------------------------------------------
(* Steps that make or write a file                                          *)

\* create_new succeeds for one thread, on an inode of its own; the loser of the race
\* reads what the winner wrote, or reports an error.
LEMMA StoreCreate ==
  ASSUME StoreInv, NEW t \in Threads, Create(t)
  PROVE  StoreInv'
<1> USE DEF StoreInv, Resting, Middle, Holding, Making, Owning
<1>1. /\ pc[t] = "create" /\ fd[t] = None /\ file[t] \in Files /\ ThreadInv(t)
      /\ OffInv(t) /\ CheckInv(t) /\ "params" \in Files
      /\ fd \in [Threads -> Inodes \cup {None}] /\ path \in [Files -> Inodes \cup {None}]
      /\ content \in [Inodes -> Nat]
      /\ UNCHANGED <<verified, checking, fetchVars, want, calls, made>>
  BY DEF Create, ThreadInv, TypeInv, Files, confVars
<1>2. CASE path[file[t]] # None
  <2>1. Frame /\ UNCHANGED fd /\ AlreadyExists(t)
    BY <1>1, <1>2 DEF Create, Frame
  <2>2. Opens(t, "params", "err")
    BY <1>1, <2>1 DEF Opens
  <2>3. CASE file[t] = "params"
    <3>1. Continue(t, "params", StartRead("params"), TRUE) /\ StartRead("params") \in {"verify", "open"}
          /\ (checking => StartRead("params") # "open")
      BY <2>1, <2>3 DEF AlreadyExists, StartRead
    <3>2. Opens(t, "params", StartRead("params"))
      BY <2>2, <3>1 DEF Opens
    <3> QED
      BY <1>1, <2>1, <2>3, <3>1, <3>2, QuietContinue DEF ThreadInv
  <2>4. CASE file[t] # "params"
    BY <1>1, <2>1, <2>2, <2>4, QuietReturn DEF AlreadyExists
  <2> QED
    BY <2>3, <2>4
<1>3. CASE path[file[t]] = None
  <2> DEFINE i == FreeInode
  <2>1. /\ i \in Inodes /\ i # None
        /\ \A f \in Files : path[f] # i
        /\ \A u \in Threads : fd[u] # i
    BY InodeFree
  <2>2. /\ path' = [path EXCEPT ![file[t]] = i] /\ content' = [content EXCEPT ![i] = 0]
        /\ fd' = [fd EXCEPT ![t] = i] /\ pc' = [pc EXCEPT ![t] = "lock"]
        /\ file' = file /\ UNCHANGED <<val, mem, cell, init>>
    BY <1>3 DEF Create, Continue, TypeInv
  <2> HIDE DEF i
  <2>3. \A f \in Files : Current(f)' = Current(f) /\ (path[f] # None => path'[f] = path[f])
    BY <1>1, <1>3, <2>1, <2>2 DEF Current
  <2>4. \A u \in Threads \ {t} :
           /\ fd'[u] = fd[u] /\ pc'[u] = pc[u] /\ (fd[u] # None => content'[fd[u]] = content[fd[u]])
    BY <1>1, <2>1, <2>2 DEF TypeInv
  <2>5. TypeInv'
    BY <1>1, <2>1, <2>2 DEF TypeInv, fetchVars
  <2>6. HoldInv'
    <3>1. \A f, g \in Files : path'[f] = path'[g] /\ path'[f] # None => f = g
      BY <1>1, <2>1, <2>2 DEF HoldInv
    <3>2. \A u \in Threads, g \in Files : fd'[u] = path'[g] /\ path'[g] # None => file'[u] = g
      BY <1>1, <2>1, <2>2 DEF HoldInv
    <3>3. \A u, r \in Threads : fd'[u] = fd'[r] /\ fd'[u] # None => file'[u] = file'[r]
      BY <1>1, <2>1, <2>2 DEF HoldInv
    <3>4. \A u, r \in Threads : pc'[u] \in Owning /\ pc'[r] \in Owning /\ u # r => fd'[u] # fd'[r]
      BY <1>1, <2>1, <2>2 DEF HoldInv, TypeInv
    <3>5. IF fpc' = "ipget" THEN fnode' = path'[cur'] /\ fnode' # None ELSE fnode' = None
      <4>1. cur \in Files
        BY DEF TypeInv, Keys, Files
      <4> QED
        BY <1>1, <2>3, <4>1 DEF HoldInv, fetchVars
    <3> QED
      BY <3>1, <3>2, <3>3, <3>4, <3>5 DEF HoldInv
  <2>7. ValueInv' /\ FetchInv'
    BY <1>1, <2>3 DEF ValueInv, FetchInv, TypeInv, Keys, Files, fetchVars
  <2>8. ThreadInv(t)'
    BY <1>1, <2>1, <2>2 DEF ThreadInv, TypeInv, fetchVars
  <2>9. OffInv(t)'
    BY <1>1, <2>1, <2>2, <2>3 DEF OffInv, TypeInv, fetchVars
  <2>10. CheckInv(t)'
    BY <1>1, <2>1, <2>2 DEF CheckInv, TypeInv, Good
  <2>11. ASSUME NEW u \in Threads, u # t PROVE ThreadInv(u)' /\ OffInv(u)' /\ CheckInv(u)'
    <3>1. ThreadInv(u)'
      BY <1>1, <2>2, <2>4, <2>11 DEF ThreadInv, fetchVars
    <3>2. OffInv(u)'
      BY <1>1, <2>2, <2>3, <2>4, <2>11, ParamAssumption DEF OffInv, ThreadInv, TypeInv, fetchVars, Files
    <3>3. CheckInv(u)'
      BY <1>1, <2>2, <2>3, <2>4, <2>11 DEF CheckInv
    <3> QED
      BY <3>1, <3>2, <3>3
  <2>12. ASSUME NEW p \in Procs PROVE ProcInv(p)'
    <3>1. Current("params")' = Current("params") /\ Current("srs")' = Current("srs")
      BY <2>3 DEF Files
    <3> QED
      BY <1>1, <2>2, <3>1 DEF ProcInv, TypeInv, fetchVars
  <2> QED
    BY <2>5, <2>6, <2>7, <2>8, <2>9, <2>10, <2>11, <2>12
<1> QED
  BY <1>2, <1>3

\* The file is written: nobody else owns the inode, an empty file becomes what its
\* creator made, and a value that is in use already is not replaced by another.
LEMMA StoreWrite ==
  ASSUME StoreInv, NEW t \in Threads, Write(t)
  PROVE  StoreInv'
<1> USE DEF StoreInv, Resting, Middle, Holding, Making, Owning
<1> DEFINE i == fd[t]
           x == IF file[t] = "meta" THEN Good ELSE val[t]
<1>1. /\ pc[t] = "write" /\ i \in Inodes /\ i # None /\ file[t] \in Files
      /\ ThreadInv(t) /\ OffInv(t) /\ CheckInv(t) /\ Process[t] \in Procs
      /\ fd \in [Threads -> Inodes \cup {None}] /\ path \in [Files -> Inodes \cup {None}]
      /\ content \in [Inodes -> Nat] /\ "params" \in Files /\ "vk" \in Files /\ "srs" \in Files
      /\ content' = [content EXCEPT ![i] = x] /\ fd' = [fd EXCEPT ![t] = None]
      /\ UNCHANGED <<path, verified, checking, fetchVars, want, calls, made>>
  BY DEF Write, ThreadInv, TypeInv, Files, confVars, Procs
<1>2. /\ x \in Nat /\ x # 0
      /\ file[t] \in {"params", "srs"} => x > Bad /\ x # Good /\ t \in Rng
      /\ t \in Rng => fpc = "off"
      /\ file[t] = "vk" => x = val[t] /\ (checking => x = Good)
      /\ file[t] = "vk" /\ fpc = "off" => x = Current("params")
  BY <1>1 DEF ThreadInv, OffInv, CheckInv, TypeInv, Good, Bad, Files
<1>3. \A f \in Files : f # file[t] => Current(f)' = Current(f)
  BY <1>1 DEF HoldInv, Current
<1>4. Current(file[t]) # 0 => fpc # "off"
  BY <1>1 DEF OffInv, Current
<1>5. \A f \in Files : f = file[t] => Current(f)' = IF path[f] = i THEN x ELSE Current(f)
  BY <1>1 DEF Current
<1>6. fpc = "off" => \A f \in Files : /\ Current(f) # 0 => Current(f)' = Current(f)
                                      /\ f = file[t] => Current(f)' = x
  BY <1>1, <1>3, <1>4, <1>5 DEF OffInv
<1>7. \A u \in Threads \ {t} : fd[u] # None =>
         /\ fd[u] # i => content'[fd[u]] = content[fd[u]]
         /\ fd[u] = i => content'[fd[u]] = x /\ file[u] = file[t] /\ pc[u] \notin Owning
  BY <1>1 DEF HoldInv
<1>8. \/ /\ file[t] = "params" /\ file' = file /\ UNCHANGED <<val, mem, cell, init>>
         /\ pc' = [pc EXCEPT ![t] = IF checking THEN "verify" ELSE "open"]
      \/ /\ file[t] # "params" /\ file' = file /\ want[t] = file[t]
         /\ pc' = [pc EXCEPT ![t] = "ok"] /\ val' = [val EXCEPT ![t] = x]
         /\ mem' \in {mem, [mem EXCEPT ![Process[t]]["vk"] = x]}
         /\ mem' # mem => file[t] = "vk"
         /\ UNCHANGED <<cell, init>>
  <2>1. CASE file[t] = "params"
    <3>1. Continue(t, "params", StartRead("params"), TRUE)
      BY <2>1 DEF Write
    <3>2. file \in [Threads -> Files]
      BY DEF TypeInv
    <3> QED
      BY <2>1, <3>1, <3>2 DEF Continue, StartRead
  <2>2. CASE file[t] # "params"
    <3>1. Return(t, TRUE, x) /\ want[t] = file[t]
      BY <1>1, <2>2 DEF Write, ThreadInv
    <3>2. init[Process[t]] # t
      BY <1>1, <1>2, <3>1, ParamAssumption DEF ProcInv
    <3> HIDE DEF x
    <3> QED
      BY <1>1, <1>2, <2>2, <3>1, <3>2 DEF Return
  <2> QED
    BY <2>1, <2>2
<1> HIDE DEF i, x
<1>9. TypeInv'
  <2>1. mem' \in [Procs -> [Keys -> Nat]]
    BY <1>1, <1>2, <1>8 DEF TypeInv, Keys
  <2>2. pc' \in [Threads -> Resting \cup Middle \cup {"wait"}] /\ val' \in [Threads -> Nat]
    BY <1>1, <1>2, <1>8 DEF TypeInv
  <2> QED
    BY <1>1, <1>2, <1>8, <2>1, <2>2 DEF TypeInv, fetchVars
<1>10. HoldInv'
  BY <1>1, <1>8 DEF HoldInv, TypeInv, fetchVars
<1>11. ValueInv'
  <2>1. fpc = "off" => Current("vk")' \in {0, Current("params")'}
    BY <1>1, <1>2, <1>3, <1>6 DEF ValueInv
  <2>2. checking => Current("vk")' \in {0, Good} /\ Current("srs")' # Good
    BY <1>1, <1>2, <1>3, <1>5 DEF ValueInv
  <2> QED
    BY <1>1, <2>1, <2>2 DEF ValueInv, fetchVars
<1>12. FetchInv'
  <2>1. fpc # "off" => Current("params")' = Current("params")
    BY <1>1, <1>2, <1>3
  <2>2. checking => \A f \in Keys : Current(f) = Good => Current(f)' = Good
    BY <1>1, <1>2, <1>3, <1>5, <1>6 DEF Keys, Good
  <2> QED
    BY <1>1, <2>1, <2>2 DEF FetchInv, TypeInv, fetchVars
<1>13. ThreadInv(t)' /\ CheckInv(t)'
  BY <1>1, <1>2, <1>8 DEF ThreadInv, CheckInv, TypeInv, fetchVars, Files
<1>14. OffInv(t)'
  <2>1. fpc = "off" /\ file[t] = "vk" => Current("params")' = x
    BY <1>1, <1>2, <1>3
  <2> QED
    BY <1>1, <1>2, <1>6, <1>8, <2>1 DEF OffInv, TypeInv, fetchVars, Keys
<1>15. ASSUME NEW u \in Threads, u # t PROVE ThreadInv(u)' /\ OffInv(u)' /\ CheckInv(u)'
  <2>1. /\ fd'[u] = fd[u] /\ pc'[u] = pc[u] /\ file'[u] = file[u] /\ want'[u] = want[u]
        /\ val'[u] = val[u] /\ calls'[u] = calls[u] /\ u \in Threads \ {t}
    BY <1>1, <1>8, <1>15 DEF TypeInv
  <2>2. ThreadInv(u)'
    BY <1>1, <2>1 DEF ThreadInv, fetchVars
  <2>3. OffInv(u)'
    BY <1>1, <1>6, <1>7, <2>1 DEF OffInv, ThreadInv, fetchVars
  <2>4. CheckInv(u)'
    BY <1>1, <1>2, <1>7, <2>1 DEF CheckInv
  <2> QED
    BY <2>2, <2>3, <2>4
<1>16. ASSUME NEW q \in Procs PROVE ProcInv(q)'
  <2>1. fpc = "off" => \A w \in Keys : mem'[q][w] \in {0, Current("params")'}
    <3>1. fpc = "off" /\ file[t] = "vk" => Current("params")' = x
      BY <1>1, <1>2, <1>3
    <3> QED
      BY <1>1, <1>6, <1>8, <3>1 DEF ProcInv, TypeInv, Keys
  <2>2. fpc = "off" => cell'[q] \in {0, Current("srs")'}
    BY <1>1, <1>6, <1>8 DEF ProcInv
  <2>3. checking => \A w \in Keys : mem'[q][w] \in {0, Good}
    BY <1>1, <1>2, <1>8 DEF ProcInv, TypeInv, Keys
  <2>4. checking /\ "params" \in verified[q] =>
            Current("params")' \in {0, Good} /\ (fpc = "off" => Current("params")' = Good)
    <3>1. CASE fpc = "off"
      BY <1>1, <1>6, <3>1 DEF ProcInv, Good
    <3>2. CASE fpc # "off"
      BY <1>1, <1>2, <1>3, <3>2 DEF ProcInv
    <3> QED
      BY <3>1, <3>2
  <2>5. ASSUME init[q] # None PROVE pc'[init[q]] \in Middle
    <3>1. want[init[q]] = "srs" /\ init[q] \notin Rng /\ pc[init[q]] \in Middle
      BY <2>5 DEF ProcInv
    <3>2. init[q] # t
      BY <1>2, <1>8, <3>1
    <3>3. init[q] \in Threads /\ \E S : pc \in [Threads -> S]
      BY <2>5 DEF TypeInv
    <3>4. PICK target : pc' = [pc EXCEPT ![t] = target]
      BY <1>8
    <3>5. pc'[init[q]] = pc[init[q]]
      BY <3>2, <3>3, <3>4
    <3> QED
      BY <3>1, <3>5
  <2> QED
    BY <1>1, <1>8, <2>1, <2>2, <2>3, <2>4, <2>5 DEF ProcInv, fetchVars
<1> QED
  BY <1>9, <1>10, <1>11, <1>12, <1>13, <1>14, <1>15, <1>16

\* A process dies: it forgets what it had cached and verified.
LEMMA StoreCrash ==
  ASSUME StoreInv, NEW q \in Procs, Crash(q)
  PROVE  StoreInv'
<1> USE ParamAssumption DEF StoreInv, Resting, Middle, Holding, Making, Owning
<1> DEFINE mine == {t \in Threads : Process[t] = q}
<1>1. /\ pc' = [t \in Threads |-> IF t \in mine THEN "err" ELSE pc[t]]
      /\ val' = [t \in Threads |-> IF t \in mine THEN 0 ELSE val[t]]
      /\ fd' = [t \in Threads |-> IF t \in mine THEN None ELSE fd[t]]
      /\ mem' = [mem EXCEPT ![q] = [f \in Keys |-> 0]] /\ cell' = [cell EXCEPT ![q] = 0]
      /\ init' = [init EXCEPT ![q] = None] /\ verified' = [verified EXCEPT ![q] = {}]
      /\ UNCHANGED <<path, content, checking, fetchVars, want, file, calls, made>>
  BY DEF Crash, confVars, Keys
<1>2. TypeInv'
  BY <1>1 DEF TypeInv, fetchVars, Keys
<1>3. \A f \in Files : Current(f)' = Current(f)
  BY <1>1 DEF Current
<1>4. HoldInv'
  BY <1>1 DEF HoldInv, TypeInv, fetchVars
<1>5. ValueInv' /\ FetchInv'
  BY <1>1, <1>3 DEF ValueInv, FetchInv, TypeInv, fetchVars, Keys, Files
<1>6. ASSUME NEW t \in Threads PROVE ThreadInv(t)' /\ OffInv(t)' /\ CheckInv(t)'
  <2>1. CASE t \in mine
    BY <1>1, <2>1 DEF ThreadInv, OffInv, CheckInv, TypeInv, fetchVars
  <2>2. CASE t \notin mine
    <3>1. verified'[Process[t]] = verified[Process[t]]
      BY <1>1, <2>2 DEF TypeInv, Procs
    <3> QED
      BY <1>1, <1>3, <2>2, <3>1 DEF ThreadInv, OffInv, CheckInv, TypeInv, fetchVars, Files
  <2> QED
    BY <2>1, <2>2
<1>7. ASSUME NEW p \in Procs PROVE ProcInv(p)'
  BY <1>1, <1>3 DEF ProcInv, TypeInv, fetchVars, Files
<1> QED
  BY <1>2, <1>4, <1>5, <1>6, <1>7

----------------------------------------------------------------------------
(* The steps of paramfetch                                                  *)

\* A step of paramfetch keeps what the threads rely on if parameters that are right, or
\* right but cut short, stay so and if no open file gets contents it must not have.
LEMMA FetchFrame ==
  ASSUME StoreInv, fpc # "off", fpc' # "off", FetchUnchanged,
         TypeInv', HoldInv', ValueInv', FetchInv',
         Current("params") \in {0, Good} => Current("params")' \in {0, Good},
         checking => \A t \in Threads : fd[t] # None =>
             /\ file[t] = "params" /\ content'[fd[t]] = Good => fd[t] = path'["params"]
             /\ file[t] = "vk" => content'[fd[t]] \in {0, Good}
             /\ file[t] = "srs" => content'[fd[t]] # Good
  PROVE  StoreInv'
<1> USE DEF StoreInv, FetchUnchanged, procVars, confVars, threadVars
<1>1. ASSUME NEW t \in Threads PROVE ThreadInv(t)' /\ OffInv(t)' /\ CheckInv(t)'
  BY DEF ThreadInv, OffInv, CheckInv
<1>2. ASSUME NEW p \in Procs PROVE ProcInv(p)'
  BY DEF ProcInv
<1> QED
  BY <1>1, <1>2

\* Looking at the files, deciding what to do, and starting over change no file.
LEMMA StoreFetchCheck ==
  ASSUME StoreInv, (\E f \in Keys : FetchCheck(f)) \/ FetchDecide \/ FetchAgain
  PROVE  StoreInv'
<1> USE DEF StoreInv, FetchUnchanged, procVars, confVars, threadVars
<1>1. /\ fpc \in {"check", "download"} /\ fpc' # "off" /\ fpc' # "ipget" /\ fnode' = fnode
      /\ FetchUnchanged /\ UNCHANGED <<path, content>>
  BY DEF FetchCheck, FetchDecide, FetchAgain
<1>2. \A f \in Files : Current(f)' = Current(f)
  BY <1>1 DEF Current
<1>3. Keys \subseteq Files /\ "params" \in Keys /\ "srs" \in Files
  BY DEF Keys, Files
<1>4. TypeInv'
  BY <1>1 DEF TypeInv, FetchCheck, FetchDecide, FetchAgain
<1>5. HoldInv' /\ ValueInv'
  BY <1>1, <1>2, <1>3 DEF HoldInv, ValueInv, Keys
<1>6. FetchInv'
  <2>1. ASSUME NEW f \in Keys, FetchCheck(f) PROVE FetchInv'
    <3>1. /\ path[f] = None => Current(f) # Good
          /\ path[f] # None => Current(f) = content[path[f]]
      BY DEF Current, Good
    <3> QED
      BY <1>1, <1>2, <1>3, <2>1, <3>1 DEF FetchCheck, FetchInv, TypeInv
  <2>2. CASE FetchDecide
    BY <1>1, <1>2, <1>3, <2>2 DEF FetchDecide, FetchInv, TypeInv
  <2>3. CASE FetchAgain
    BY <1>1, <1>2, <1>3, <2>3 DEF FetchAgain, FetchInv, TypeInv
  <2> QED
    BY <2>1, <2>2, <2>3
<1>7. checking => \A t \in Threads : fd[t] # None =>
         /\ file[t] = "params" /\ content'[fd[t]] = Good => fd[t] = path'["params"]
         /\ file[t] = "vk" => content'[fd[t]] \in {0, Good}
         /\ file[t] = "srs" => content'[fd[t]] # Good
  BY <1>1 DEF CheckInv
<1> QED
  BY <1>1, <1>2, <1>3, <1>4, <1>5, <1>6, <1>7, FetchFrame

\* A file with the wrong digest is moved away: no right parameters are lost.
LEMMA StoreFetchRename ==
  ASSUME StoreInv, FetchRename
  PROVE  StoreInv'
<1> USE DEF StoreInv, FetchUnchanged, procVars, confVars, threadVars
<1>1. /\ fpc = "rename" /\ fpc' = "check" /\ path' = [path EXCEPT ![cur] = None]
      /\ todo' = todo \cup {cur} /\ unchecked' = unchecked \ {cur}
      /\ UNCHANGED <<content, chosen, cur, fnode>> /\ FetchUnchanged
  BY DEF FetchRename
<1>2. Keys \subseteq Files /\ "params" \in Keys /\ "vk" \in Keys /\ "srs" \in Files /\ "srs" \notin Keys
      /\ cur \in Keys /\ path \in [Files -> Inodes \cup {None}]
  BY DEF Keys, Files, TypeInv
<1>3. \A f \in Files : Current(f)' = IF f = cur THEN 0 ELSE Current(f)
  BY <1>1, <1>2 DEF Current
<1>4. TypeInv'
  BY <1>1, <1>2 DEF TypeInv
<1>5. HoldInv'
  BY <1>1, <1>2 DEF HoldInv
<1>6. ValueInv'
  BY <1>1, <1>2, <1>3 DEF ValueInv
<1>7. FetchInv'
  BY <1>1, <1>2, <1>3 DEF FetchInv, TypeInv, Good
<1>8. cur = "params" => Current("params") # Good
  BY <1>1 DEF FetchInv
<1>9. checking => \A t \in Threads : fd[t] # None =>
         /\ file[t] = "params" /\ content'[fd[t]] = Good => fd[t] = path'["params"]
         /\ file[t] = "vk" => content'[fd[t]] \in {0, Good}
         /\ file[t] = "srs" => content'[fd[t]] # Good
  BY <1>1, <1>2, <1>8 DEF CheckInv, Current
<1> QED
  BY <1>1, <1>2, <1>3, <1>4, <1>5, <1>6, <1>7, <1>8, <1>9, FetchFrame

\* ipget truncates or creates the file, and fills it, completely or not.
LEMMA StoreFetchFile ==
  ASSUME StoreInv, (\E f \in Keys : FetchOpen(f)) \/ FetchFill
  PROVE  StoreInv'
<1> USE DEF StoreInv, FetchUnchanged, procVars, confVars, threadVars
<1>1. Keys \subseteq Files /\ "params" \in Keys /\ "vk" \in Keys /\ "srs" \in Files /\ "srs" \notin Keys
      /\ cur \in Keys /\ path \in [Files -> Inodes \cup {None}] /\ content \in [Inodes -> Nat]
  BY DEF Keys, Files, TypeInv
<1>2. PICK f \in Keys, i \in Inodes, c \in {0, Good} :
         /\ f \in unchecked /\ i # None /\ path' = [path EXCEPT ![f] = i]
         /\ path[f] = i \/ ((\A g \in Files : path[g] # i) /\ (\A t \in Threads : fd[t] # i))
         /\ path[f] # None => path[f] = i
         /\ content' = [content EXCEPT ![i] = c] /\ cur' = f
         /\ \/ fpc = "download" /\ fpc' = "ipget" /\ fnode' = i /\ unchecked' = unchecked /\ c = 0
            \/ fpc = "ipget" /\ fpc' = "download" /\ fnode' = None /\ unchecked' = unchecked \ {f}
  <2>1. ASSUME NEW f \in Keys, FetchOpen(f), path[f] = None
        PROVE  /\ f \in unchecked /\ path' = [path EXCEPT ![f] = FreeInode]
               /\ content' = [content EXCEPT ![FreeInode] = 0] /\ cur' = f
               /\ fpc = "download" /\ fpc' = "ipget" /\ fnode' = FreeInode /\ unchecked' = unchecked
    BY <2>1 DEF FetchOpen
  <2>2. ASSUME NEW f \in Keys, FetchOpen(f), path[f] # None
        PROVE  /\ f \in unchecked /\ path' = [path EXCEPT ![f] = path[f]] /\ path[f] \in Inodes
               /\ content' = [content EXCEPT ![path[f]] = 0] /\ cur' = f
               /\ fpc = "download" /\ fpc' = "ipget" /\ fnode' = path[f] /\ unchecked' = unchecked
    BY <1>1, <2>2 DEF FetchOpen
  <2>3. ASSUME FetchFill
        PROVE  /\ cur \in unchecked /\ path' = [path EXCEPT ![cur] = path[cur]]
               /\ path[cur] \in Inodes /\ path[cur] # None
               /\ \E c \in {0, Good} : content' = [content EXCEPT ![path[cur]] = c]
               /\ fpc = "ipget" /\ fpc' = "download" /\ fnode' = None /\ cur' = cur
               /\ unchecked' = unchecked \ {cur}
    BY <1>1, <2>3 DEF FetchFill, HoldInv, FetchInv
  <2>4. CASE \E f \in Keys : FetchOpen(f) /\ path[f] = None
    BY <2>1, <2>4, InodeFree
  <2>5. CASE \E f \in Keys : FetchOpen(f) /\ path[f] # None
    <3>1. PICK f \in Keys : FetchOpen(f) /\ path[f] # None
      BY <2>5
    <3>2. PICK i \in Inodes : i = path[f]
      BY <2>2, <3>1
    <3>3. PICK c \in {0, Good} : c = 0
      OBVIOUS
    <3>4. /\ f \in unchecked /\ i # None /\ path' = [path EXCEPT ![f] = i] /\ path[f] = i
          /\ content' = [content EXCEPT ![i] = c] /\ cur' = f
          /\ fpc = "download" /\ fpc' = "ipget" /\ fnode' = i /\ unchecked' = unchecked /\ c = 0
      BY <2>2, <3>1, <3>2, <3>3
    <3> QED
      BY <3>4
  <2>6. CASE FetchFill
    <3>1. PICK f \in Keys : f = cur
      BY <1>1
    <3>2. PICK i \in Inodes : i = path[f]
      BY <2>3, <2>6, <3>1
    <3>3. PICK c \in {0, Good} : content' = [content EXCEPT ![path[cur]] = c]
      BY <2>3, <2>6
    <3>4. /\ f \in unchecked /\ i # None /\ path' = [path EXCEPT ![f] = i] /\ path[f] = i
          /\ content' = [content EXCEPT ![i] = c] /\ cur' = f
          /\ fpc = "ipget" /\ fpc' = "download" /\ fnode' = None /\ unchecked' = unchecked \ {f}
      BY <2>3, <2>6, <3>1, <3>2, <3>3
    <3> QED
      BY <3>4
  <2> QED
    BY <2>4, <2>5, <2>6
<1>3. FetchUnchanged /\ UNCHANGED <<todo, chosen>> /\ fpc # "off" /\ fpc' # "off"
  BY DEF FetchOpen, FetchFill
<1>4. \A g \in Files : Current(g)' = IF g = f THEN c ELSE Current(g)
  BY <1>1, <1>2 DEF Current, HoldInv
<1>5. Current("params") \in {0, Good} => Current("params")' \in {0, Good}
  BY <1>1, <1>2, <1>4
<1>6. \A t \in Threads : fd[t] # None =>
         content'[fd[t]] = content[fd[t]] \/ (content'[fd[t]] = c /\ file[t] = f /\ fd[t] = path'[f])
  BY <1>1, <1>2 DEF HoldInv, TypeInv
<1>7. TypeInv'
  BY <1>1, <1>2, <1>3 DEF TypeInv, Good
<1>8. HoldInv'
  BY <1>1, <1>2, <1>3 DEF HoldInv, TypeInv
<1>9. ValueInv'
  BY <1>1, <1>2, <1>3, <1>4 DEF ValueInv
<1>10. FetchInv'
  BY <1>1, <1>2, <1>3, <1>4 DEF FetchInv, TypeInv, Good
<1>11. \A t \in Threads : fd[t] = path["params"] /\ fd[t] # None => path'["params"] = path["params"]
  BY <1>1, <1>2
<1>12. checking => \A t \in Threads : fd[t] # None =>
         /\ file[t] = "params" /\ content'[fd[t]] = Good => fd[t] = path'["params"]
         /\ file[t] = "vk" => content'[fd[t]] \in {0, Good}
         /\ file[t] = "srs" => content'[fd[t]] # Good
  BY <1>1, <1>2, <1>6, <1>11 DEF CheckInv
<1> QED
  BY <1>1, <1>3, <1>4, <1>5, <1>7, <1>8, <1>9, <1>10, <1>12, FetchFrame

----------------------------------------------------------------------------
(* The theorems                                                             *)

\* Every step keeps the invariant.
LEMMA StoreNext == StoreInv /\ [Next]_vars => StoreInv'
<1> SUFFICES ASSUME StoreInv, [Next]_vars PROVE StoreInv'
  OBVIOUS
<1>1. CASE UNCHANGED vars
  <2> USE <1>1 DEF vars, diskVars, procVars, confVars, fetchVars, threadVars, StoreInv
  <2>1. TypeInv' /\ HoldInv' /\ ValueInv' /\ FetchInv'
    BY DEF TypeInv, HoldInv, ValueInv, FetchInv, Current
  <2>2. ASSUME NEW t \in Threads PROVE ThreadInv(t)' /\ OffInv(t)' /\ CheckInv(t)'
    BY DEF ThreadInv, OffInv, CheckInv, Current
  <2>3. ASSUME NEW p \in Procs PROVE ProcInv(p)'
    BY DEF ProcInv, Current
  <2> QED
    BY <2>1, <2>2, <2>3
<1>2. ASSUME NEW t \in Threads, GetParams(t) \/ GetVerifyingKey(t) \/ GetSrsKey(t) \/ GetMetadata(t)
      PROVE  StoreInv'
  BY <1>2, StoreCall DEF GetParams, GetVerifyingKey, GetSrsKey, GetMetadata, Files
<1>3. ASSUME NEW t \in Threads, Thread(t) \/ WriteFails(t)
      PROVE  StoreInv'
  BY <1>3, StoreCell, StoreOpen, StoreHash, StoreRead, StoreExists, StoreGenerate, StoreCreate,
     StoreLock, StoreWrite DEF Thread
<1>4. CASE Fetch
  BY <1>4, StoreFetchCheck, StoreFetchRename, StoreFetchFile DEF Fetch, Keys
<1> QED
  BY <1>1, <1>2, <1>3, <1>4, StoreCrash DEF Next

\* The invariant holds in every state, if paramcache and paramfetch do not meet.
THEOREM StoreCorrect == Spec /\ Alone => []StoreInv
BY StoreInit, StoreNext, PTL DEF Spec

\* Agreement: without paramfetch, or where everyone verifies, all calls that succeed use
\* one parameter set with its verifying key, and one SRS, whoever generated them and
\* whoever died while writing; and no call uses a file that is cut short.
THEOREM StoreAgrees == Spec /\ Alone => []Agreement
<1>1. StoreInv => Agreement
  <2> SUFFICES ASSUME StoreInv PROVE Agreement
    OBVIOUS
  <2>1. \A t \in Threads : pc[t] = "ok" => val[t] # 0
    BY DEF StoreInv, ThreadInv
  <2>2. \A x, S : S \subseteq {x} => Cardinality(S) <= 1
    <3> TAKE x, S
    <3> HAVE S \subseteq {x}
    <3>1. IsFiniteSet({x}) /\ Cardinality({x}) = 1
      BY FS_Singleton
    <3>2. S \in SUBSET {x}
      OBVIOUS
    <3>3. Cardinality(S) <= Cardinality({x})
      BY <3>1, <3>2, FS_Subset
    <3> QED
      BY <3>1, <3>3
  <2>3. fpc = "off" => InUse({"params", "vk"}) \subseteq {Current("params")}
    BY DEF StoreInv, OffInv, ProcInv, InUse, Answered, Keys
  <2>4. fpc = "off" => InUse({"srs"}) \subseteq {Current("srs")}
    BY DEF StoreInv, OffInv, ProcInv, InUse, Answered
  <2>5. fpc # "off" /\ checking => InUse({"params", "vk"}) \subseteq {Good}
    <3> SUFFICES ASSUME fpc # "off", checking PROVE InUse({"params", "vk"}) \subseteq {Good}
      OBVIOUS
    <3>1. ASSUME NEW t \in Threads, Answered(t, {"params", "vk"}) PROVE val[t] = Good
      <4>1. t \notin Rng
        BY <3>1 DEF StoreInv, ThreadInv, Answered
      <4> QED
        BY <3>1, <4>1 DEF StoreInv, CheckInv, Answered
    <3>2. \A p \in Procs, w \in Keys : mem[p][w] \in {0, Good}
      BY DEF StoreInv, ProcInv
    <3> QED
      BY <3>1, <3>2 DEF InUse, Keys
  <2>6. fpc # "off" /\ checking => InUse({"srs"}) \subseteq {Good}
    <3> SUFFICES ASSUME fpc # "off", checking PROVE InUse({"srs"}) \subseteq {Good}
      OBVIOUS
    <3>1. ASSUME NEW t \in Threads, Answered(t, {"srs"}) PROVE val[t] = Good
      <4>1. t \notin Rng
        BY <3>1 DEF StoreInv, ThreadInv, Answered
      <4> QED
        BY <3>1, <4>1 DEF StoreInv, CheckInv, Answered
    <3>2. \A p \in Procs : cell[p] = 0
      BY DEF StoreInv, ProcInv
    <3> QED
      BY <3>1, <3>2 DEF InUse
  <2> QED
    BY <2>1, <2>2, <2>3, <2>4, <2>5, <2>6 DEF Agreement
<1> QED
  BY <1>1, StoreCorrect, PTL

\* VerifiedRight: with verify_production_params the API returns only what the
\* manifest lists, although a file is hashed once and opened again later.
THEOREM VerifiedIsRight == Spec /\ Alone => []VerifiedRight
<1>1. StoreInv => VerifiedRight
  BY DEF StoreInv, CheckInv, VerifiedRight, Answered
<1> QED
  BY <1>1, StoreCorrect, PTL

\* FetchedGood: when paramfetch reports success, the files it was asked for are
\* complete and stay so.
THEOREM FetchedIsGood == Spec /\ Alone => []FetchedGood
<1>1. StoreInv => FetchedGood
  <2> SUFFICES ASSUME StoreInv, fpc = "done", checking, NEW f \in chosen
               PROVE  path[f] # None /\ content[path[f]] = Good
    BY DEF FetchedGood
  <2>1. Current(f) = Good
    BY DEF StoreInv, FetchInv
  <2> QED
    BY <2>1 DEF Current, Good
<1> QED
  BY <1>1, StoreCorrect, PTL
==============================================================================

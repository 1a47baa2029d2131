---------------------------- MODULE Sector ----------------------------
(***************************************************************************)
(* The life of one sector on disk: sealing (filecoin-proofs/src/api/seal.rs *)
(* and stacked/vanilla/proof.rs), proving, unsealing and the clearing of    *)
(* its cache, as a sequence of API calls any of which may be killed between *)
(* two of its steps and called again.                                       *)
(*                                                                         *)
(* A file's contents are symbolic.  A node is a field element, and all the *)
(* code does with it is add and subtract keys, so a chunk of the replica   *)
(* (one base tree of it) is a formal sum: a function from terms to their   *)
(* coefficients.  A layer of labels is the sequence of replica ids that    *)
(* its own and the lower layers were computed with; a Merkle tree or a     *)
(* commitment is what it was computed over.  A replica id hashes a ticket  *)
(* and comm_d; every call that uses one has first checked comm_d against   *)
(* the pieces, so the ticket stands for it.                                *)
(***************************************************************************)
EXTENDS Integers, Sequences, FiniteSets

CONSTANTS
    Data,        \* the file the pieces describe
    Other,       \* some other file
    Zeros,       \* the one of the two that is a file of zeros
    Tickets,     \* sealing tickets
    LayerCount,  \* SDR layers
    TreeCount,   \* base trees per sector
    MaxCalls,    \* bound: API calls
    MaxCrashes,  \* bound: calls that are killed
    None,        \* no such file or value
    Torn         \* a file that was being written when its writer died

ASSUME CountsAssumption ==
    /\ LayerCount \in Nat \ {0} /\ TreeCount \in Nat \ {0}
    /\ MaxCalls \in Nat /\ MaxCrashes \in Nat
    /\ Zeros \in {Data, Other}

\* A missing and a torn file are neither of the two files nor a marker.
ASSUME NamesAssumption ==
    /\ None # Torn
    /\ \A x \in {None, Torn} : x \notin {Data, Other, "labels", "configs"}
    /\ "labels" \notin {Data, Other}

VARIABLES
    synth,       \* ApiFeature::SyntheticPoRep of the porep config
    multi,       \* SETTINGS.use_multicore_sdr
    gpu,         \* SETTINGS.use_gpu_column_builder
    rep,         \* the replica file: a sum per chunk, None or Torn
    cache,       \* the cache directory
    pc, i, arg,  \* the running call: its next step, loop index, arguments
    p1, p2,      \* the outputs of the phases, kept by the caller
    commit,      \* the commit that was last accepted, until a phase is run again
    fresh,       \* history: how far phases 1 and 2 have come, over the file the pieces
                 \* describe, with no crash and no other call in between
    result,      \* what the last call returned
    calls, crashes

callVars == <<pc, i, arg>>
outVars  == <<p1, p2, commit, fresh>>
sectorVars == <<synth, multi, gpu, rep, cache, pc, i, arg, p1, p2, commit, fresh,
                result, calls, crashes>>

Files   == {Data, Other}
Layers  == 1 .. LayerCount
Chunks  == 1 .. TreeCount

-----------------------------------------------------------------------------
\* Formal sums.
Zero == [x \in {} |-> 0]

Plus(v, t, n) ==
    LET s == IF t \in DOMAIN v THEN v[t] + n ELSE n
        D == IF s = 0 THEN DOMAIN v \ {t} ELSE DOMAIN v \cup {t}
    IN  [x \in D |-> IF x = t THEN s ELSE v[x]]

Plain(f) == [x \in {<<"file", f>>} |-> 1]

\* encode and decode: the key is the node's label in the last layer.
Encode(key, v) == Plus(v, <<"key", key>>, 1)
Decode(key, v) == Plus(v, <<"key", key>>, -1)

\* The labels of layer l computed for replica id t on top of the layer below.
LabelOver(below, t) == Append(below, t)
LabelsOf(t, l) == [k \in 1 .. l |-> t]
Bug_Below(labels, l) == <<>>

Below(labels, l) == IF l = 1 THEN <<>> ELSE labels[l - 1]
Key(t) == LabelsOf(t, LayerCount)

Readable(file) == file # None /\ file # Torn
StoreExists(f) == \A k \in DOMAIN f : f[k] # None
CommR(c, r) == <<c, r>>

EmptyCache ==
    [d |-> None, labels |-> [l \in Layers |-> None], c |-> [k \in Chunks |-> None],
     r |-> [k \in Chunks |-> None], paux |-> None, taux |-> None, synthProofs |-> None]

Init ==
    /\ synth \in BOOLEAN /\ multi \in BOOLEAN /\ gpu \in BOOLEAN
    /\ rep = None /\ cache = EmptyCache
    /\ pc = "idle" /\ i = 0 /\ arg = None
    /\ p1 = None /\ p2 = None /\ commit = None
    /\ fresh = "none" /\ result = "ok"
    /\ calls = 0 /\ crashes = 0

\* Synthetic proofs are of the replica as it was; current is no field of the
\* file, it remembers that neither phase has been run since.
Outdated(ch) ==
    IF Readable(ch.synthProofs) THEN [ch EXCEPT !.synthProofs.current = FALSE] ELSE ch

\* A call that is under way goes on to step to; one that ends returns res.
Goto(to, k) == pc' = to /\ i' = k /\ UNCHANGED <<arg, result, calls, crashes>>
Return(res) ==
    /\ pc' = "idle" /\ i' = 0 /\ arg' = None /\ result' = res
    /\ UNCHANGED <<calls, crashes>>

\* Called is a call that begins, AtOnce one that ends in the same step.
Called == pc = "idle" /\ calls < MaxCalls /\ calls' = calls + 1 /\ UNCHANGED crashes
Begin(to, a) == Called /\ pc' = to /\ i' = 1 /\ arg' = a /\ result' = "running"
AtOnce(res) == Called /\ pc' = "idle" /\ i' = 0 /\ arg' = None /\ result' = res
Config == UNCHANGED <<synth, multi, gpu>>

-----------------------------------------------------------------------------
(* seal_pre_commit_phase1: the staged file is copied over the replica (the  *)
(* copy truncates it first), its tree is built and checked against the     *)
(* pieces, and the labels are generated.  A Merkle tree over an existing   *)
(* store is not built: the store is opened and kept, or its length is an   *)
(* error.  (Other errors leave what a crash at that step leaves.)          *)
BeginPhase1(to, a) ==
    /\ Begin(to, a)
    /\ cache' = Outdated(cache)
    /\ commit' = None /\ fresh' = "none"
    /\ UNCHANGED <<p1, p2>> /\ Config

Phase1(t, f) == BeginPhase1("copy", [t |-> t, f |-> f]) /\ rep' = Torn

\* From /dev/zero nothing is copied: set_len appends zeros to a replica file that is
\* too short, and leaves the bytes of a full one, encoded or not, as they are.
Extended ==
    CASE rep = None -> {[k \in Chunks |-> Plain(Zeros)]}
      [] rep = Torn -> {[k \in Chunks |-> Plain(f)] : f \in {Zeros, Torn}}
      [] OTHER      -> {rep}

Phase1DevZero(t) == BeginPhase1("treeD", [t |-> t, f |-> Zeros]) /\ rep' \in Extended

CopyData ==
    /\ pc = "copy" /\ Goto("treeD", 1)
    /\ rep' = [k \in Chunks |-> Plain(arg.f)]
    /\ UNCHANGED <<cache, outVars>> /\ Config

\* The layers that single-core unsealing leaves at the path of tree D are shorter.
CreateTreeD ==
    /\ pc = "treeD"
    /\ CASE cache.d = None     -> Goto("treeDBuild", 1) /\ cache' = [cache EXCEPT !.d = Torn]
         [] cache.d = "labels" -> Return("error") /\ UNCHANGED cache
         [] OTHER              -> Goto("pieces", 1) /\ UNCHANGED cache
    /\ UNCHANGED <<rep, outVars>> /\ Config

BuildTreeD ==
    /\ pc = "treeDBuild" /\ Goto("pieces", 1)
    /\ cache' = [cache EXCEPT !.d = arg.f]
    /\ UNCHANGED <<rep, outVars>> /\ Config

\* comm_d is the root of the tree on disk; the pieces are those of Data.
VerifyPieces ==
    /\ pc = "pieces"
    /\ IF cache.d = Data THEN Goto("label", 1) ELSE Return("error")
    /\ UNCHANGED <<rep, cache, outVars>> /\ Config

\* A layer that is on disk is kept, whichever replica id it was made for.
NewLayer(labels, l) ==
    IF labels[l] # None THEN labels[l] ELSE LabelOver(Below(labels, l), arg.t)

GenerateLabels ==
    /\ pc = "label"
    /\ cache' = [cache EXCEPT !.labels[i] = NewLayer(cache.labels, i)]
    /\ IF i < LayerCount THEN Goto("label", i + 1) /\ UNCHANGED <<p1, fresh>>
       ELSE /\ Return("ok")
            /\ IF arg.f = None THEN UNCHANGED <<p1, fresh>>
               ELSE /\ p1' = [t |-> arg.t, d |-> cache.d]
                    /\ fresh' = IF rep = [k \in Chunks |-> Plain(Data)] THEN "p1" ELSE "none"
    /\ UNCHANGED <<rep, p2, commit>> /\ Config

\* sdr: the labels only.
Sdr(t) ==
    /\ Begin("label", [t |-> t, f |-> None])
    /\ fresh' = "none" /\ UNCHANGED <<rep, cache, p1, p2, commit>> /\ Config

-----------------------------------------------------------------------------
(* seal_pre_commit_phase2: tree C over the columns, then, base tree by base *)
(* tree, the chunk of the replica is encoded in place and its tree built.   *)
Phase2 ==
    /\ p1 # None
    /\ IF cache.d \in Files \cup {Torn} /\ StoreExists(cache.labels) /\ Readable(rep)
       THEN /\ Begin("treeC", [f |-> p1.d])
            /\ cache' = Outdated(cache)
            /\ commit' = None
            /\ fresh' = IF fresh = "p1" THEN "phase2" ELSE "none"
       ELSE AtOnce("missing") /\ UNCHANGED <<cache, commit, fresh>>
    /\ UNCHANGED <<rep, p1, p2>> /\ Config

\* generate_tree_c, called alone, ends with the tree.
NextTreeC ==
    IF i < TreeCount THEN Goto("treeC", i + 1)
    ELSE IF arg = None THEN Return("ok") ELSE Goto("encode", 1)

\* On the GPU an existing store is removed; on the CPU it is kept and nothing built.
CreateTreeC ==
    /\ pc = "treeC"
    /\ IF gpu \/ cache.c[i] = None
       THEN Goto("treeCBuild", i) /\ cache' = [cache EXCEPT !.c[i] = Torn]
       ELSE NextTreeC /\ UNCHANGED cache
    /\ UNCHANGED <<rep, outVars>> /\ Config

\* On the CPU nobody looks at the Result of the build: the store may stay unfilled.
BuildTreeC ==
    /\ pc = "treeCBuild" /\ NextTreeC
    /\ \/ cache' = [cache EXCEPT !.c[i] = cache.labels]
       \/ ~gpu /\ UNCHANGED cache
    /\ UNCHANGED <<rep, outVars>> /\ Config

EncodeChunk ==
    /\ pc = "encode" /\ Goto("treeR", i)
    /\ rep' = [rep EXCEPT ![i] = Encode(cache.labels[LayerCount], rep[i])]
    /\ UNCHANGED <<cache, outVars>> /\ Config

Bug_CreateTreeR ==
    /\ pc = "treeR"
    /\ IF cache.r[i] = None THEN Goto("treeRBuild", i) /\ cache' = [cache EXCEPT !.r[i] = Torn]
       ELSE /\ UNCHANGED cache
            /\ IF i < TreeCount THEN Goto(IF arg = None THEN "treeR" ELSE "encode", i + 1)
               ELSE IF arg = None THEN Return("ok") ELSE Goto("paux", 1)
    /\ UNCHANGED <<rep, outVars>> /\ Config

\* An existing store is removed and a new one begun.
CreateTreeR ==
    /\ pc = "treeR" /\ Goto("treeRBuild", i)
    /\ cache' = [cache EXCEPT !.r[i] = Torn]
    /\ UNCHANGED <<rep, outVars>> /\ Config

\* generate_tree_r_last, called alone, encodes nothing and ends with the tree.
BuildTreeR ==
    /\ pc = "treeRBuild"
    /\ cache' = [cache EXCEPT !.r[i] = rep[i]]
    /\ IF i < TreeCount THEN Goto(IF arg = None THEN "treeR" ELSE "encode", i + 1)
       ELSE IF arg = None THEN Return("ok") ELSE Goto("paux", 1)
    /\ UNCHANGED <<rep, outVars>> /\ Config

\* fs::write truncates the file and fills it: i counts the two.
PersistPAux ==
    /\ pc = "paux"
    /\ IF i = 1 THEN cache' = [cache EXCEPT !.paux = Torn] /\ Goto("paux", 2)
       ELSE /\ cache' = [cache EXCEPT !.paux = [c |-> cache.c, r |-> cache.r]]
            /\ Goto("taux", 1)
    /\ UNCHANGED <<rep, outVars>> /\ Config

PersistTAux ==
    /\ pc = "taux"
    /\ IF i = 1
       THEN cache' = [cache EXCEPT !.taux = Torn] /\ Goto("taux", 2) /\ UNCHANGED <<p2, fresh>>
       ELSE /\ cache' = [cache EXCEPT !.taux = "configs"] /\ Return("ok")
            /\ p2' = [r |-> CommR(cache.c, cache.r), d |-> arg.f]
            /\ fresh' = IF fresh = "phase2" THEN "p2" ELSE "none"
    /\ UNCHANGED <<rep, p1, commit>> /\ Config

\* The two trees can be built again from the labels and from the replica.
GenerateTreeC ==
    /\ StoreExists(cache.labels) /\ Begin("treeC", None)
    /\ fresh' = "none" /\ UNCHANGED <<rep, cache, p1, p2, commit>> /\ Config

GenerateTreeRLast ==
    /\ Readable(rep) /\ Begin("treeR", None)
    /\ fresh' = "none" /\ UNCHANGED <<rep, cache, p1, p2, commit>> /\ Config

-----------------------------------------------------------------------------
(* Proofs.  A vanilla proof opens the trees at the challenged chunks ch and *)
(* the columns of the parents, which may lie in further chunks, open.       *)

\* The stores TemporaryAuxCache::new opens.
Instantiated(skipLabels) ==
    /\ Readable(cache.paux) /\ Readable(cache.taux)
    /\ StoreExists(cache.r) /\ Readable(rep)
    /\ skipLabels \/ /\ cache.d \in Files \cup {Torn}
                     /\ StoreExists(cache.c) /\ StoreExists(cache.labels)

\* The assertions of prove_layers_generate.
RootsAgree(commD) == cache.d = commD /\ cache.paux.c = cache.c

\* What the proofs hold; tree_r_last serves its leaves from the replica file.
MakeProof(ch, open) ==
    [d |-> cache.d, c |-> cache.c, r |-> cache.r, labels |-> cache.labels,
     leaf |-> [k \in ch |-> rep[k]], open |-> open]

VerifyColumns(p) == \A k \in p.open : p.c[k] = p.labels

VerifyLabels(p, t) ==
    \A l \in Layers : p.labels[l] = LabelOver(Below(p.labels, l), t)

Bug_VerifyEncoding(p, t, k) == TRUE

VerifyEncoding(p, t, k) ==
    p.leaf[k] = Encode(LabelOver(Below(p.labels, LayerCount), t), Plain(p.d))

\* Proof::verify at every challenge.
VerifyProof(p, t, commD) ==
    /\ p.d = commD
    /\ VerifyColumns(p)
    /\ VerifyLabels(p, t)
    /\ \A k \in DOMAIN p.leaf : p.leaf[k] = p.r[k] /\ VerifyEncoding(p, t, k)

\* verify_all_partitions also recomputes comm_r.
VerifyAll(p, t, out) == CommR(p.c, p.r) = out.r /\ VerifyProof(p, t, out.d)

Openings ==
    {o \in (SUBSET Chunks) \X (SUBSET Chunks) : o[1] # {} /\ o[1] \subseteq o[2]}

\* generate_synth_proofs verifies the proofs (without comm_r) and writes them.
GenerateSynthProofs(t) ==
    /\ synth /\ p2 # None
    /\ IF Instantiated(FALSE) /\ RootsAgree(p2.d)
       THEN \E o \in Openings :
               LET p == MakeProof(o[1], o[2]) IN
               IF VerifyProof(p, t, p2.d)
               THEN /\ Begin("synth", [t |-> t, p |-> p])
                    /\ cache' = [cache EXCEPT !.synthProofs = Torn]
               ELSE AtOnce("error") /\ UNCHANGED cache
       ELSE AtOnce("missing") /\ UNCHANGED cache
    /\ UNCHANGED <<rep, outVars>> /\ Config

WriteSynthProofs ==
    /\ pc = "synth" /\ Return("ok")
    /\ cache' = [cache EXCEPT !.synthProofs = [t |-> arg.t, p |-> arg.p, current |-> TRUE]]
    /\ UNCHANGED <<rep, outVars>> /\ Config

\* The p_aux on disk was written with this comm_r.  Nothing compares its
\* comm_r_last with the tree (RootsAgree): one that a killed phase 2 left
\* behind is only noticed by the PoSt.  Like current, the answer is a history.
PAuxOf(paux, commR) == Readable(paux) /\ commR = CommR(paux.c, paux.r)

Accept(t, p, current) ==
    /\ commit' = [t |-> t, r |-> p2.r, d |-> p2.d, leaf |-> p.leaf,
                  current |-> current /\ PAuxOf(cache.paux, p2.r)]
    /\ AtOnce("ok")

\* seal_commit_phase1: the proofs are made, or read from the file of synthetic
\* proofs, for challenges only the chain knows in advance, and verified.
SanityCheck(p, t) == VerifyAll(p, t, p2)

Commit1(t) ==
    /\ p2 # None /\ ~synth
    /\ IF Instantiated(FALSE) /\ RootsAgree(p2.d)
       THEN \E o \in Openings :
               LET p == MakeProof(o[1], o[2]) IN
               IF SanityCheck(p, t) THEN Accept(t, p, TRUE)
               ELSE AtOnce("error") /\ UNCHANGED commit
       ELSE AtOnce("missing") /\ UNCHANGED commit
    /\ UNCHANGED <<rep, cache, p1, p2, fresh>> /\ Config

Commit1Synth(t) ==
    /\ p2 # None /\ synth
    /\ IF Instantiated(TRUE) /\ Readable(cache.synthProofs)
       THEN LET s == cache.synthProofs IN
            IF s.t = t /\ SanityCheck(s.p, t) THEN Accept(t, s.p, s.current)
            ELSE AtOnce("error") /\ UNCHANGED commit
       ELSE AtOnce("missing") /\ UNCHANGED commit
    /\ UNCHANGED <<rep, cache, p1, p2, fresh>> /\ Config

(* validate_cache_for_precommit_phase2 and validate_cache_for_commit look   *)
(* for every file and its length.  A store gets its full length when it is  *)
(* created, so one that was never filled passes; a replica torn while it was*)
(* copied may be empty.  They change no file and are not counted as calls.  *)
VerifyStore(file) == file # None /\ file # "labels"
VerifyLevelCacheStore(f) == \A k \in Chunks : f[k] # None

Validate(ok) ==
    /\ pc = "idle" /\ result' = IF ok THEN "ok" ELSE "missing"
    /\ UNCHANGED <<rep, cache, pc, i, arg, outVars, calls, crashes>> /\ Config

ValidateForPhase2 ==
    p1 # None /\ Validate(rep # None /\ StoreExists(cache.labels) /\ VerifyStore(cache.d))

ValidateForCommit ==
    \E empty \in {FALSE, rep = Torn} :
        Validate(/\ rep # None /\ ~empty
                 /\ Readable(cache.paux) /\ Readable(cache.taux)
                 /\ StoreExists(cache.labels) /\ VerifyStore(cache.d)
                 /\ StoreExists(cache.c) /\ VerifyLevelCacheStore(cache.r))

-----------------------------------------------------------------------------
(* clear_cache and clear_synthetic_proofs: one file after the other.        *)
Bug_Cleared(ch, step) ==
    CASE step = 1 -> [ch EXCEPT !.d = None]
      [] step = 2 -> [ch EXCEPT !.c = [k \in Chunks |-> None], !.r = [k \in Chunks |-> None]]
      [] step = 3 -> [ch EXCEPT !.labels = [l \in Layers |-> None]]

Cleared(ch, step) ==
    CASE step = 1 -> [ch EXCEPT !.d = None]
      [] step = 2 -> [ch EXCEPT !.c = [k \in Chunks |-> None]]
      [] step = 3 -> [ch EXCEPT !.labels = [l \in Layers |-> None]]

ClearCache ==
    /\ Begin("clear", None)
    /\ fresh' = "none" /\ UNCHANGED <<rep, cache, p1, p2, commit>> /\ Config

ClearStep ==
    /\ pc = "clear"
    /\ cache' = Cleared(cache, i)
    /\ IF i < 3 THEN Goto("clear", i + 1) ELSE Return("ok")
    /\ UNCHANGED <<rep, outVars>> /\ Config

ClearSyntheticProofs ==
    /\ cache.synthProofs # None /\ AtOnce("ok")
    /\ cache' = [cache EXCEPT !.synthProofs = None]
    /\ UNCHANGED <<rep, outVars>> /\ Config

(* unseal_range: labels are always generated anew.  Single-core decoding    *)
(* writes every layer to the path it was given, which is tree D's; multicore*)
(* decoding writes them to the layers' own files.  The replica is read      *)
(* through a private mapping.                                               *)
UnsealRange(t) ==
    /\ Readable(rep) /\ Begin("unseal", [t |-> t])
    /\ fresh' = "none" /\ UNCHANGED <<rep, cache, p1, p2, commit>> /\ Config

DecodeLabels ==
    /\ pc = "unseal"
    /\ cache' = IF multi THEN [cache EXCEPT !.labels[i] = LabelsOf(arg.t, i)]
                ELSE [cache EXCEPT !.d = "labels"]
    /\ IF i < LayerCount THEN Goto("unseal", i + 1) ELSE Return("ok")
    /\ UNCHANGED <<rep, outVars>> /\ Config

Unsealed(t, k) == Decode(Key(t), rep[k])

-----------------------------------------------------------------------------
(* PoSt over the sealed sector: PrivateReplicaInfo reads p_aux, the proof   *)
(* opens tree_r_last at the challenge, the verifier recomputes comm_r.      *)
PostVerifies(replica, r, paux, commR, k) ==
    /\ Readable(paux) /\ Readable(replica) /\ StoreExists(r)
    /\ commR = CommR(paux.c, paux.r)
    /\ paux.r = r /\ replica[k] = r[k]

\* A process that dies loses its call; files and the caller's records stay.
Crash ==
    /\ pc # "idle" /\ crashes < MaxCrashes
    /\ crashes' = crashes + 1
    /\ pc' = "idle" /\ i' = 0 /\ arg' = None /\ result' = "crash"
    /\ fresh' = "none"
    /\ UNCHANGED <<rep, cache, p1, p2, commit, calls>> /\ Config

Seal ==
    \/ \E t \in Tickets : Phase1DevZero(t) \/ \E f \in Files : Phase1(t, f)
    \/ CopyData \/ CreateTreeD \/ BuildTreeD \/ VerifyPieces \/ GenerateLabels
    \/ \E t \in Tickets : Sdr(t)
    \/ Phase2 \/ CreateTreeC \/ BuildTreeC \/ EncodeChunk \/ CreateTreeR \/ BuildTreeR
    \/ PersistPAux \/ PersistTAux \/ GenerateTreeC \/ GenerateTreeRLast
Prove ==
    \/ \E t \in Tickets : GenerateSynthProofs(t) \/ Commit1(t) \/ Commit1Synth(t)
    \/ WriteSynthProofs
Maintain ==
    \/ ClearCache \/ ClearStep \/ ClearSyntheticProofs
    \/ \E t \in Tickets : UnsealRange(t)
    \/ DecodeLabels \/ ValidateForPhase2 \/ ValidateForCommit \/ Crash
SectorNext == Seal \/ Prove \/ Maintain

-----------------------------------------------------------------------------
StoreOrNone == {None, Torn}

\* The calls, files and outputs are of the shapes above.
SectorTypeOK ==
    /\ synth \in BOOLEAN /\ multi \in BOOLEAN /\ gpu \in BOOLEAN
    /\ rep \in StoreOrNone \/ DOMAIN rep = Chunks
    /\ cache.d \in Files \cup StoreOrNone \cup {"labels"}
    /\ \A l \in Layers : cache.labels[l] = None \/ cache.labels[l] \in [1 .. l -> Tickets]
    /\ cache.taux \in StoreOrNone \cup {"configs"}
    /\ p1 = None \/ p1 \in [t : Tickets, d : Files]
    /\ fresh \in {"none", "p1", "phase2", "p2"}
    /\ result \in {"ok", "error", "missing", "crash", "running"}
    /\ (pc = "idle") = (i = 0)
    /\ i \in 0 .. LayerCount + TreeCount + 3
    /\ calls \in 0 .. MaxCalls /\ crashes \in 0 .. MaxCrashes

\* A commit that seal_commit_phase1 lets through is of the data: whatever was
\* killed, repeated, left over from another ticket or written over before, the
\* replica nodes its proofs open decode, with the key of the ticket it was
\* made for, to the file the pieces describe.
AcceptedDecodes ==
    commit # None =>
        /\ commit.d = Data
        /\ \A k \in DOMAIN commit.leaf : Decode(Key(commit.t), commit.leaf[k]) = Plain(Data)

\* What an accepted sector is for outlives the clearing of its cache, unsealing
\* and every crash: while it is not sealed again (and was accepted with proofs
\* of the replica as it is and with the p_aux of its own phase 2) PoSt verifies
\* against the committed comm_r and unsealing gives the data.  A tree_r_last
\* that is being rebuilt is excepted.
StillProvable ==
    commit # None /\ commit.current /\ DOMAIN commit.leaf = Chunks =>
        \A k \in Chunks :
            /\ Torn \in {cache.r[j] : j \in Chunks}
               \/ PostVerifies(rep, cache.r, cache.paux, commit.r, k)
            /\ Unsealed(commit.t, k) = Plain(Data)

\* Sealing again from phase 1 repairs what a crash has left: after phases 1 and 2
\* in a row, over the data of the pieces, the cache is found complete and the
\* commit succeeds.  What sealing keeps must have been right: a phase 1 that
\* passes has found or built the tree D of the pieces, but the layers found on
\* disk must be of the same ticket, the replica file given to a phase 1 from
\* /dev/zero must hold no other bytes, and on the CPU a tree C that was found, or
\* whose build failed unnoticed, must be that of the layers.
FreshCommits ==
    [][\A t \in Tickets :
          /\ fresh = "p2" /\ p1.t = t /\ cache.labels = [l \in Layers |-> LabelsOf(t, l)]
          /\ gpu \/ \A k \in Chunks : cache.c[k] = cache.labels
          /\ \/ ValidateForCommit
             \/ Commit1(t)
             \/ /\ Commit1Synth(t) /\ Readable(cache.synthProofs)
                /\ cache.synthProofs.current /\ cache.synthProofs.t = t
          => result' = "ok"]_sectorVars
=============================================================================

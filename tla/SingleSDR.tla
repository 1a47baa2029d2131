----------------------------- MODULE SingleSDR -----------------------------
(***************************************************************************)
(* Single-core labelling and the store of finished layers:                 *)
(* create_label/single.rs (create_labels_for_encoding and _for_decoding),  *)
(* create_label/mod.rs (prepare_layers, write_layer, read_layer) and the   *)
(* partial parent cache of cache.rs (ParentCache::read, reset).            *)
(*                                                                         *)
(* A label is an integer: 0 fresh memory, l >= 1 the right label of layer  *)
(* l, Bad one computed from wrong parents.  Files are inodes: a directory  *)
(* entry or an open DiskStore names one, and a rename replaces an entry    *)
(* while open stores keep the inode they were opened on.  The process may  *)
(* die at any step, or a write fail; labelling is then started again.      *)
(***************************************************************************)
EXTENDS Integers, Sequences, Functions

CONSTANTS
    N,            \* nodes of a layer
    Layers,       \* number of layers
    K,            \* BASE_DEGREE
    Parent,       \* Parent[n][k]: k-th base parent of node n >= 1
    Expander,     \* Expander[n]: the expander parents of node n
    CacheLen,     \* nodes in the mapped part of the parent cache
    Modes,        \* which of "encode" and "decode" are explored
    Leftovers,    \* sets of layers that may be on disk at the start
    MaxFailures   \* bound on crashes and failed writes

Nodes    == 0 .. N - 1
Base     == 1 .. K
LayerNos == 1 .. Layers
Bad      == -2
Short    == <<>>     \* the content of a file that was not written in full

ASSUME SingleAssumption ==
    /\ N \in Nat \ {0} /\ Layers \in Nat \ {0} /\ K \in Nat \ {0}
    /\ CacheLen \in 1 .. N /\ MaxFailures \in Nat
    /\ Parent \in [Nodes -> [Base -> Nodes]]
    /\ \A m \in Nodes \ {0} : \A k \in Base : Parent[m][k] < m   \* drgraph.rs
    /\ Expander \in [Nodes -> SUBSET Nodes]
    /\ Modes \subseteq {"encode", "decode"}
    /\ Leftovers \subseteq SUBSET LayerNos

VARIABLES
    mode,                    \* which entry point was called
    pc, layer, n,            \* where it is
    offset,                  \* CacheData.offset
    layerLabels, expLabels,  \* the two label buffers
    generated,               \* LayerState.generated, as a set of layers
    inodes,                  \* contents of the files, by inode number
    dir, tmp,                \* inode at a final and at a .tmp path, 0 if none
    stores,                  \* LabelsCache.labels: inodes of the open stores
    failures                 \* crashes and write errors so far

memVars  == <<layerLabels, expLabels>>
diskVars == <<inodes, dir, tmp>>
vars == <<mode, pc, layer, n, offset, memVars, generated, diskVars, stores, failures>>

\* Encoding has a file per layer; decoding writes every layer to config's path.
Paths   == 0 .. Layers
Path    == IF mode = "decode" THEN 0 ELSE layer
Zeros   == [m \in Nodes |-> 0]
Full(l) == [m \in Nodes |-> l]

\* Enough inodes for every path, its .tmp file and the open stores.
Inodes  == 1 .. 2 * Layers + 2

\* What is on disk before the first call: layers that are complete or of the
\* wrong size, and others that are absent.
Init ==
    /\ mode \in Modes
    /\ pc = "start" /\ layer = 1 /\ n = 0 /\ offset = 0
    /\ layerLabels = Zeros /\ expLabels = Zeros
    /\ generated = {} /\ stores = <<>> /\ failures = 0
    /\ \E there \in Leftovers, done \in SUBSET LayerNos :
          /\ inodes = [f \in Inodes |-> IF f \in there \cap done THEN Full(f) ELSE Short]
          /\ dir = [p \in Paths |-> IF p \in there THEN p ELSE 0]
    /\ tmp = [p \in Paths |-> 0]

----------------------------------------------------------------------------
(* prepare_layers                                                           *)

\* is_layer_written: the file is there and has the right size.
Bug_IsLayerWritten(l) == dir[l] # 0
Bug_NeverWritten(l) == FALSE

IsLayerWritten(l) == dir[l] # 0 /\ inodes[dir[l]] # Short

\* Remove left over .tmp files and mark the layers that are already on disk.
PrepareLayers ==
    /\ pc = "start"
    /\ IF mode = "encode"
       THEN /\ generated' = {l \in LayerNos : IsLayerWritten(l)}
            /\ tmp' = [p \in Paths |-> 0]
       ELSE UNCHANGED <<generated, tmp>>
    /\ pc' = "layer"
    /\ UNCHANGED <<mode, layer, n, offset, memVars, inodes, dir, stores, failures>>

----------------------------------------------------------------------------
(* The loop over the layers and nodes                                       *)

\* read_layer copies what the file holds into exp_labels.
SkipLayer ==
    /\ pc = "layer"
    /\ layer \in generated
    /\ expLabels' = IF inodes[dir[layer]] = Short THEN expLabels ELSE inodes[dir[layer]]
    /\ IF layer = Layers THEN pc' = "done" /\ UNCHANGED layer
                         ELSE layer' = layer + 1 /\ UNCHANGED pc
    /\ UNCHANGED <<mode, n, offset, layerLabels, generated, diskVars, stores, failures>>

\* ParentCache::reset
Bug_ResetOffset == offset

ResetOffset == 0

BeginLayer ==
    /\ pc = "layer"
    /\ layer \notin generated
    /\ offset' = ResetOffset
    /\ n' = 0
    /\ pc' = "label"
    /\ UNCHANGED <<mode, layer, memVars, generated, diskVars, stores, failures>>

\* ParentCache::read: where the mapping must lie for node m; it only moves
\* forward, by its own length, and never past the last entry.
Contains(m) == offset <= m /\ m < offset + CacheLen

Bug_Shifted == offset + CacheLen

Shifted == IF N - CacheLen < offset + CacheLen THEN N - CacheLen ELSE offset + CacheLen

OffsetFor(m) == IF m = 0 \/ Contains(m) THEN offset ELSE Shifted

\* The label of node n of this layer is right if its parents were read from the
\* mapped part of the cache file and hold right labels of this and the last layer.
ParentsRight ==
    /\ \A k \in Base : layerLabels[Parent[n][k]] = layer
    /\ layer = 1 \/ \A m \in Expander[n] : expLabels[m] = layer - 1

InFile == OffsetFor(n) <= n /\ n < OffsetFor(n) + CacheLen /\ OffsetFor(n) + CacheLen <= N

\* create_label and create_label_exp; "cache must be read in ascending order" is
\* an error.
CreateLabel ==
    /\ pc = "label"
    /\ n < N
    /\ IF n # 0 /\ n < offset
       THEN pc' = "failed" /\ UNCHANGED <<n, offset, layerLabels>>
       ELSE /\ offset' = OffsetFor(n)
            /\ layerLabels' = [layerLabels EXCEPT ![n] =
                  IF n = 0 \/ (InFile /\ ParentsRight) THEN layer ELSE Bad]
            /\ n' = n + 1
            /\ UNCHANGED pc
    /\ UNCHANGED <<mode, layer, expLabels, generated, diskVars, stores, failures>>

----------------------------------------------------------------------------
(* write_layer                                                              *)

\* fs::write creates or truncates the .tmp file ...
Bug_Target == IF dir[Path] # 0 THEN dir[Path] ELSE tmp[Path]

Target == tmp[Path]

FreeInode ==
    CHOOSE f \in Inodes : \A p \in Paths : f # dir[p] /\ f # tmp[p] /\ f \notin Range(stores)

CreateTmp ==
    /\ pc = "label"
    /\ n = N
    /\ LET f == IF Target = 0 THEN FreeInode ELSE Target IN
          /\ inodes' = [inodes EXCEPT ![f] = Short]
          /\ tmp' = [tmp EXCEPT ![Path] = f]
    /\ pc' = "write"
    /\ UNCHANGED <<mode, layer, n, offset, memVars, generated, dir, stores, failures>>

\* ... and fills it,
WriteTmp ==
    /\ pc = "write"
    /\ inodes' = [inodes EXCEPT ![tmp[Path]] = layerLabels]
    /\ pc' = "rename"
    /\ UNCHANGED <<mode, layer, n, offset, memVars, generated, dir, tmp, stores, failures>>

\* then the rename replaces the final path; decoding opens the store there.
\* The buffers are swapped: this layer becomes the expander parents of the next.
Rename ==
    /\ pc = "rename"
    /\ dir' = [dir EXCEPT ![Path] = tmp[Path]]
    /\ tmp' = [tmp EXCEPT ![Path] = 0]
    /\ stores' = IF mode = "decode" THEN Append(stores, dir'[Path]) ELSE stores
    /\ layerLabels' = expLabels /\ expLabels' = layerLabels
    /\ IF layer = Layers THEN pc' = "done" /\ UNCHANGED layer
                         ELSE pc' = "layer" /\ layer' = layer + 1
    /\ UNCHANGED <<mode, n, offset, generated, inodes, failures>>

\* "failed to write layer data": the error is returned, the .tmp file stays.
WriteFails ==
    /\ pc \in {"write", "rename"}
    /\ failures < MaxFailures
    /\ failures' = failures + 1
    /\ pc' = "failed"
    /\ UNCHANGED <<mode, layer, n, offset, memVars, generated, diskVars, stores>>

\* The caller runs labelling again, after an error or in a new process.
Restarted ==
    /\ pc' = "start" /\ layer' = 1 /\ n' = 0 /\ offset' = 0
    /\ layerLabels' = Zeros /\ expLabels' = Zeros
    /\ generated' = {} /\ stores' = <<>>
    /\ UNCHANGED <<mode, diskVars>>

Retry == pc = "failed" /\ Restarted /\ UNCHANGED failures

Crash ==
    /\ failures < MaxFailures
    /\ failures' = failures + 1
    /\ Restarted

Work == PrepareLayers \/ SkipLayer \/ BeginLayer \/ CreateLabel
            \/ CreateTmp \/ WriteTmp \/ Rename \/ Retry

Finished == pc = "done" /\ UNCHANGED vars

Next == Work \/ WriteFails \/ Crash \/ Finished

Spec == Init /\ [][Next]_vars

\* The process runs, and after an error the caller tries again.
FairSpec == Spec /\ WF_vars(Work)

----------------------------------------------------------------------------
(* Properties                                                               *)

\* Type invariant of the label store and the labelling loop.
TypeOK ==
    /\ mode \in Modes /\ layer \in LayerNos /\ n \in 0 .. N /\ offset \in 0 .. N - CacheLen
    /\ pc \in {"start", "layer", "label", "write", "rename", "failed", "done"}
    /\ layerLabels \in [Nodes -> {Bad} \cup 0 .. Layers]
    /\ expLabels \in [Nodes -> {Bad} \cup 0 .. Layers]
    /\ generated \subseteq LayerNos
    /\ inodes \in [Inodes -> {Short} \cup [Nodes -> {Bad} \cup 0 .. Layers]]
    /\ dir \in [Paths -> {0} \cup Inodes] /\ tmp \in [Paths -> {0} \cup Inodes]
    /\ stores \in Seq(Inodes)
    /\ failures \in 0 .. MaxFailures

\* A layer file of the right size is the right layer, whenever the process died:
\* this is what lets prepare_layers trust the size (mod.rs:41-46, :57).
DiskRight ==
    \A l \in LayerNos : dir[l] # 0 => inodes[dir[l]] \in {Short, Full(l)}

\* Labelling that ends leaves every layer complete on disk (encoding), or holds
\* one open store per layer, each with its own layer although all were written
\* to one path (decoding, single.rs:156-166).
ResultRight ==
    pc = "done" =>
        IF mode = "encode"
        THEN \A l \in LayerNos : dir[l] # 0 /\ inodes[dir[l]] = Full(l)
        ELSE /\ Len(stores) = Layers
             /\ \A l \in LayerNos : inodes[stores[l]] = Full(l)

\* A layer that is complete on disk is never written again, by this call or after
\* a crash: resuming does not redo finished layers (mod.rs:19-20).
CompleteKept ==
    [][mode = "encode" =>
        \A l \in LayerNos : dir[l] # 0 /\ inodes[dir[l]] = Full(l) => dir'[l] = dir[l]]_vars

\* After finitely many crashes and write errors labelling comes to its end.
Completes == <>(pc = "done")

\* A call that finds no finished layer takes the steps of the sequential
\* definition: nodes after their parents, a layer when the last one is complete.
Abstract == INSTANCE SDR WITH
    labelled <- IF pc = "done" THEN {m \in Nodes : expLabels[m] = layer}
                               ELSE {m \in Nodes : layerLabels[m] = layer}
StepsOfSDR ==
    [][generated = {} /\ generated' = {} /\ pc # "failed" /\ failures' = failures
         => [Abstract!Next]_(Abstract!sdrVars)]_vars
============================================================================

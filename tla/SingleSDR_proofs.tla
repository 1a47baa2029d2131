-------------------------- MODULE SingleSDR_proofs --------------------------
(***************************************************************************)
(* Proofs about single-core labelling and the layer store, for any graph   *)
(* whose parents precede their node, any number of layers, any length of   *)
(* the parent cache window and any number of crashes and failed writes:    *)
(* the type invariant, DiskRight, ResultRight, CompleteKept and            *)
(* StepsOfSDR.                                                             *)
(*                                                                         *)
(* The heart of SingleInv is TmpInv: there is one .tmp file at most, and   *)
(* no final path and no open store refers to its inode until it holds the  *)
(* whole layer.  GeneratedInv and StoreInv say which layers are complete,  *)
(* LabelInv that the buffers hold right labels and that the cache window   *)
(* has not run past the node.                                              *)
(***************************************************************************)
EXTENDS SingleSDR, FiniteSetTheorems, TLAPS

\* What a node of a label buffer or of a file can hold.
LabelOf == {Bad} \cup 0 .. Layers

\* A complete layer is a possible buffer, is no short file, and is the only buffer
\* whose labels are all right.
LEMMA FullLayer ==
  ASSUME NEW l \in LayerNos
  PROVE  /\ Full(l) \in [Nodes -> LabelOf] /\ Full(l) # Short
         /\ \A lab : lab \in [Nodes -> LabelOf] /\ (\A m \in Nodes : lab[m] = l) => lab = Full(l)
<1>1. Full(l) \in [Nodes -> LabelOf]
  BY SingleAssumption DEF Full, LabelOf, LayerNos
<1>2. 0 \in DOMAIN Full(l) /\ 0 \notin DOMAIN Short
  BY SingleAssumption DEF Full, Nodes, Short
<1>3. ASSUME NEW lab, lab \in [Nodes -> LabelOf], \A m \in Nodes : lab[m] = l
      PROVE  lab = Full(l)
  BY <1>3 DEF Full
<1> QED
  BY <1>1, <1>2, <1>3

----------------------------------------------------------------------------
(* The invariant                                                            *)

\* The call is in the loop over the layers.
Looping == pc \in {"layer", "label", "write", "rename"}

\* The file of layer l is complete.
Whole(l) == dir[l] # 0 /\ inodes[dir[l]] = Full(l)

\* There is at most one .tmp file, and nothing else refers to it.
TmpInv ==
    /\ \A p \in Paths : tmp[p] # 0 =>
          /\ \A q \in Paths : (q # p => tmp[q] = 0) /\ dir[q] # tmp[p]
          /\ \A l \in 1 .. Len(stores) : stores[l] # tmp[p]
    /\ mode = "encode" /\ pc \in {"layer", "label"} => \A p \in Paths : tmp[p] = 0
    /\ mode = "decode" => \A l \in LayerNos : tmp[l] = 0
    /\ pc \in {"write", "rename"} => tmp[Path] # 0
    /\ pc = "rename" => inodes[tmp[Path]] = Full(layer)

\* generated names the layers that were complete when prepare_layers looked, and
\* no other layer from the current one on is complete.
GeneratedInv ==
    /\ mode = "decode" \/ pc = "start" => generated = {}
    /\ \A l \in generated : Whole(l)
    /\ pc \in {"label", "write", "rename"} => layer \notin generated
    /\ mode = "encode" /\ Looping =>
          \A l \in LayerNos : layer <= l /\ l \notin generated => ~IsLayerWritten(l)

\* The expander labels are those of the layer before, the nodes before n are labelled,
\* and the cache window reaches the last node read.
LabelInv ==
    /\ pc = "start" => layer = 1
    /\ pc = "done" => layer = Layers
    /\ Looping => layer = 1 \/ expLabels = Full(layer - 1)
    /\ pc = "label" => \A m \in Nodes : m < n => layerLabels[m] = layer
    /\ pc \in {"write", "rename"} => layerLabels = Full(layer)
    /\ pc = "label" =>
          (n = 0 /\ offset = 0) \/ (n >= 1 /\ offset <= n - 1 /\ n - 1 < offset + CacheLen)

\* The layers before this one are complete: on disk when encoding, in an open store
\* each when decoding.
StoreInv ==
    /\ mode = "encode" \/ pc = "start" => stores = <<>>
    /\ mode = "encode" /\ Looping => \A l \in LayerNos : l < layer => Whole(l)
    /\ mode = "decode" /\ Looping => Len(stores) = layer - 1
    /\ \A l \in 1 .. Len(stores) : inodes[stores[l]] = Full(l)

\* The inductive invariant.
SingleInv == TypeOK /\ TmpInv /\ GeneratedInv /\ LabelInv /\ StoreInv /\ DiskRight /\ ResultRight

----------------------------------------------------------------------------
(* An inode for the .tmp file                                               *)

\* There is an inode for a new .tmp file: the final paths and the open stores do not
\* use them all.
LEMMA InodeFree ==
  ASSUME SingleInv, pc = "label", tmp[Path] = 0
  PROVE  /\ FreeInode \in Inodes
         /\ \A p \in Paths : FreeInode # dir[p] /\ FreeInode # tmp[p]
         /\ \A l \in 1 .. Len(stores) : FreeInode # stores[l]
<1> DEFINE Uses == 0 .. 2 * Layers
           used(k) == IF k <= Layers THEN dir[k] ELSE stores[k - Layers]
<1>1. \A p \in Paths : tmp[p] = 0
  BY SingleAssumption DEF SingleInv, TypeOK, TmpInv, Path, Paths, LayerNos
<1>2. Len(stores) \in Nat /\ Len(stores) < Layers /\ DOMAIN stores = 1 .. Len(stores)
      /\ Range(stores) = {stores[l] : l \in 1 .. Len(stores)}
  BY SingleAssumption DEF SingleInv, TypeOK, StoreInv, Looping, LayerNos, Range
<1>3. \E f \in Inodes : \A k \in Uses : f # used(k)
  <2> SUFFICES ASSUME \A f \in Inodes : \E k \in Uses : f = used(k) PROVE FALSE
    OBVIOUS
  <2> DEFINE g == [f \in Inodes |-> CHOOSE k \in Uses : f = used(k)]
  <2>1. \A f \in Inodes : g[f] \in Uses /\ f = used(g[f])
    OBVIOUS
  <2>2. g \in [Inodes -> Uses]
    BY <2>1
  <2>3. /\ IsFiniteSet(Inodes) /\ IsFiniteSet(Uses)
        /\ Cardinality(Inodes) = 2 * Layers + 2 /\ Cardinality(Uses) = 2 * Layers + 1
    BY FS_Interval, SingleAssumption DEF Inodes
  <2>4. Cardinality(Uses) < Cardinality(Inodes)
    BY <2>3, SingleAssumption
  <2>5. \E x, y \in Inodes : x # y /\ g[x] = g[y]
    <3> HIDE DEF g, Uses
    <3> QED
      BY <2>2, <2>3, <2>4, FS_PigeonHole
  <2>6. PICK x \in Inodes, y \in Inodes : x # y /\ g[x] = g[y]
    BY <2>5
  <2>7. x = used(g[x]) /\ y = used(g[y])
    BY <2>1
  <2> QED
    <3> HIDE DEF g
    <3> QED
      BY <2>6, <2>7
<1>4. PICK f \in Inodes : \A k \in Uses : f # used(k)
  BY <1>3
<1>5. \A p \in Paths : f # dir[p]
  BY <1>4, SingleAssumption DEF Paths
<1>6. \A l \in 1 .. Len(stores) : f # stores[l]
  <2> TAKE l \in 1 .. Len(stores)
  <2>1. Layers + l \in Uses /\ ~(Layers + l <= Layers) /\ Layers + l - Layers = l
    BY <1>2, SingleAssumption
  <2>2. f # used(Layers + l)
    <3> HIDE DEF Uses, used
    <3> QED BY <1>4, <2>1
  <2>3. used(Layers + l) = stores[l]
    BY <1>2, SingleAssumption
  <2> QED
    BY <2>2, <2>3
<1>7. 0 \notin Inodes
  BY DEF Inodes
<1>8. \E h \in Inodes : \A p \in Paths : h # dir[p] /\ h # tmp[p] /\ h \notin Range(stores)
  BY <1>1, <1>2, <1>5, <1>6, <1>7
<1>9. /\ FreeInode \in Inodes
      /\ \A p \in Paths : FreeInode # dir[p] /\ FreeInode # tmp[p] /\ FreeInode \notin Range(stores)
  BY <1>8 DEF FreeInode
<1>10. 0 \in Paths
  BY SingleAssumption DEF Paths
<1> QED
  BY <1>2, <1>9, <1>10

----------------------------------------------------------------------------
(* The steps                                                                *)

\* The invariant holds before the first call, whatever it finds on disk.
LEMMA SingleInit == Init => SingleInv
<1> SUFFICES ASSUME Init PROVE SingleInv
  OBVIOUS
<1> USE SingleAssumption DEF memVars, diskVars
<1>1. PICK there \in Leftovers, done \in SUBSET LayerNos :
         /\ inodes = [f \in Inodes |-> IF f \in there \cap done THEN Full(f) ELSE Short]
         /\ dir = [p \in Paths |-> IF p \in there THEN p ELSE 0]
  BY DEF Init
<1>2. there \subseteq LayerNos /\ LayerNos \subseteq Inodes /\ LayerNos \subseteq Paths
      /\ 0 \notin LayerNos /\ 1 \in LayerNos
  BY DEF LayerNos, Inodes, Paths
<1>3. inodes \in [Inodes -> {Short} \cup [Nodes -> LabelOf]]
  BY <1>1, <1>2, FullLayer
<1>4. dir \in [Paths -> {0} \cup Inodes]
  BY <1>1, <1>2
<1>5. Zeros \in [Nodes -> LabelOf]
  BY DEF Zeros, LabelOf
<1>6. TypeOK
  BY <1>2, <1>3, <1>4, <1>5 DEF Init, TypeOK, LabelOf, LayerNos
<1>7. DiskRight
  BY <1>1, <1>2 DEF DiskRight
<1>8. TmpInv
  BY DEF Init, TmpInv, Path, Paths, LayerNos
<1>9. GeneratedInv /\ LabelInv /\ ResultRight
  BY DEF Init, GeneratedInv, LabelInv, ResultRight, Looping
<1>10. StoreInv
  BY DEF Init, StoreInv, Looping
<1> QED
  BY <1>6, <1>7, <1>8, <1>9, <1>10 DEF SingleInv

\* prepare_layers removes the .tmp files and trusts files of the right size.
LEMMA SinglePrepare == SingleInv /\ PrepareLayers => SingleInv'
<1> SUFFICES ASSUME SingleInv, PrepareLayers PROVE SingleInv'
  OBVIOUS
<1> USE SingleAssumption DEF memVars, diskVars
<1>1. TypeOK'
  BY DEF SingleInv, TypeOK, PrepareLayers
<1>2. DiskRight' /\ ResultRight' /\ LabelInv' /\ StoreInv'
  BY DEF SingleInv, TypeOK, PrepareLayers, DiskRight, ResultRight, LabelInv, StoreInv, Looping,
         LayerNos, Whole
<1>3. TmpInv'
  BY DEF SingleInv, TypeOK, PrepareLayers, TmpInv, Path
<1>4. \A l \in LayerNos : IsLayerWritten(l) => Whole(l)
  BY DEF SingleInv, DiskRight, Whole, IsLayerWritten
<1>5. GeneratedInv'
  BY <1>4 DEF SingleInv, TypeOK, PrepareLayers, GeneratedInv, Looping, Whole, IsLayerWritten
<1> QED
  BY <1>1, <1>2, <1>3, <1>5 DEF SingleInv

\* A layer found on disk is read into the expander labels.
LEMMA SingleSkip == SingleInv /\ SkipLayer => SingleInv'
<1> SUFFICES ASSUME SingleInv, SkipLayer PROVE SingleInv'
  OBVIOUS
<1> USE SingleAssumption DEF memVars, diskVars
<1>1. layer \in LayerNos /\ Whole(layer) /\ mode = "encode"
  BY DEF SingleInv, TypeOK, SkipLayer, GeneratedInv
<1>2. expLabels' = Full(layer)
  BY <1>1, FullLayer DEF SkipLayer, Whole
<1>3. TypeOK'
  BY <1>1, <1>2, FullLayer DEF SingleInv, TypeOK, SkipLayer, LabelOf, LayerNos
<1>4. DiskRight' /\ TmpInv'
  BY <1>1 DEF SingleInv, TypeOK, SkipLayer, DiskRight, TmpInv, Path
<1>5. GeneratedInv'
  BY <1>1 DEF SingleInv, TypeOK, SkipLayer, GeneratedInv, Looping, Whole, IsLayerWritten, LayerNos
<1>6. LabelInv'
  <2>1. (pc' = "done" /\ layer' = Layers) \/ (pc' = "layer" /\ layer' - 1 = layer)
    BY <1>1 DEF SkipLayer, LayerNos
  <2>2. Looping' => expLabels' = Full(layer' - 1)
    BY <1>2, <2>1 DEF Looping
  <2> QED
    BY <2>1, <2>2 DEF LabelInv
<1>7. StoreInv'
  BY <1>1 DEF SingleInv, TypeOK, SkipLayer, StoreInv, Looping, Whole, LayerNos
<1>8. ResultRight'
  BY <1>1 DEF SingleInv, TypeOK, SkipLayer, StoreInv, ResultRight, Looping, Whole, LayerNos
<1> QED
  BY <1>3, <1>4, <1>5, <1>6, <1>7, <1>8 DEF SingleInv

\* The parent cache is reset for the layer.
LEMMA SingleBegin == SingleInv /\ BeginLayer => SingleInv'
<1> SUFFICES ASSUME SingleInv, BeginLayer PROVE SingleInv'
  OBVIOUS
<1> USE SingleAssumption DEF memVars, diskVars
<1>1. TypeOK'
  BY DEF SingleInv, TypeOK, BeginLayer, ResetOffset
<1>2. DiskRight' /\ TmpInv' /\ ResultRight'
  BY DEF SingleInv, TypeOK, BeginLayer, DiskRight, TmpInv, Path, ResultRight
<1>3. GeneratedInv' /\ StoreInv'
  BY DEF SingleInv, TypeOK, BeginLayer, GeneratedInv, StoreInv, Looping, Whole, IsLayerWritten
<1>4. LabelInv'
  BY DEF SingleInv, TypeOK, BeginLayer, LabelInv, Looping, ResetOffset, Nodes
<1> QED
  BY <1>1, <1>2, <1>3, <1>4 DEF SingleInv

\* ParentCache::read finds every node in its window: the window never runs past the
\* node nor past the end of the file, and the order is ascending.
LEMMA CacheInFile ==
  ASSUME SingleInv, pc = "label", n < N
  PROVE  /\ OffsetFor(n) \in 0 .. N - CacheLen
         /\ OffsetFor(n) <= n /\ n < OffsetFor(n) + CacheLen
         /\ n # 0 => ~(n < offset)
BY SingleAssumption
   DEF SingleInv, TypeOK, LabelInv, OffsetFor, Contains, Shifted

\* The parents of a node are labelled before it, in this layer and in the last.
LEMMA RightParents ==
  ASSUME SingleInv, pc = "label", n < N, n # 0
  PROVE  ParentsRight
<1> USE SingleAssumption DEF memVars, diskVars
<1>1. n \in Nodes \ {0} /\ layer \in LayerNos
  BY DEF SingleInv, TypeOK, Nodes
<1>2. \A k \in Base : layerLabels[Parent[n][k]] = layer
  BY <1>1 DEF SingleInv, LabelInv
<1>3. layer = 1 \/ \A m \in Expander[n] : expLabels[m] = layer - 1
  BY <1>1 DEF SingleInv, LabelInv, Looping, Full
<1> QED
  BY <1>2, <1>3 DEF ParentsRight

\* create_label computes a right label and does not fail.
LEMMA SingleLabel == SingleInv /\ CreateLabel => SingleInv'
<1> SUFFICES ASSUME SingleInv, CreateLabel PROVE SingleInv'
  OBVIOUS
<1> USE SingleAssumption DEF memVars, diskVars
<1>1. pc = "label" /\ n < N /\ n \in Nat /\ n \in Nodes /\ layer \in LayerNos
  BY DEF SingleInv, TypeOK, CreateLabel, Nodes
<1>2. /\ OffsetFor(n) \in 0 .. N - CacheLen
      /\ OffsetFor(n) <= n /\ n < OffsetFor(n) + CacheLen
      /\ n # 0 => ~(n < offset)
  BY <1>1, CacheInFile
<1>3. InFile /\ (n # 0 => ParentsRight)
  BY <1>1, <1>2, RightParents DEF InFile
<1>4. /\ offset' = OffsetFor(n) /\ n' = n + 1 /\ pc' = pc
      /\ layerLabels' = [layerLabels EXCEPT ![n] = layer]
      /\ UNCHANGED <<mode, layer, expLabels, generated, inodes, dir, tmp, stores, failures>>
  BY <1>1, <1>2, <1>3 DEF CreateLabel, diskVars
<1>5. TypeOK'
  BY <1>1, <1>2, <1>4 DEF SingleInv, TypeOK, LayerNos
<1>6. DiskRight' /\ TmpInv' /\ ResultRight'
  BY <1>4 DEF SingleInv, TypeOK, DiskRight, TmpInv, Path, ResultRight
<1>7. GeneratedInv' /\ StoreInv'
  BY <1>4 DEF SingleInv, TypeOK, GeneratedInv, StoreInv, Looping, Whole, IsLayerWritten
<1>8. LabelInv'
  BY <1>1, <1>2, <1>4 DEF SingleInv, TypeOK, LabelInv, Looping, Nodes
<1> QED
  BY <1>5, <1>6, <1>7, <1>8 DEF SingleInv

\* Creating or truncating the .tmp file hits no file in use.
LEMMA SingleCreateTmp == SingleInv /\ CreateTmp => SingleInv'
<1> SUFFICES ASSUME SingleInv, CreateTmp PROVE SingleInv'
  OBVIOUS
<1> USE SingleAssumption DEF memVars, diskVars
<1> DEFINE f == IF Target = 0 THEN FreeInode ELSE Target
<1>1. /\ pc = "label" /\ n = N /\ pc' = "write"
      /\ inodes' = [inodes EXCEPT ![f] = Short] /\ tmp' = [tmp EXCEPT ![Path] = f]
      /\ UNCHANGED <<mode, layer, n, offset, layerLabels, expLabels, generated, dir, stores,
                     failures>>
  BY DEF CreateTmp, memVars
<1>2. Path \in Paths /\ Path' = Path
  BY <1>1 DEF SingleInv, TypeOK, Path, Paths, LayerNos
<1>3. \A q \in Paths \ {Path} : tmp[q] = 0
  BY <1>1, <1>2 DEF SingleInv, TypeOK, TmpInv, Path, Paths, LayerNos
<1>4. /\ f \in Inodes
      /\ \A p \in Paths : f # dir[p]
      /\ \A l \in 1 .. Len(stores) : stores[l] # f
  <2>1. CASE Target = 0
    BY <1>1, <2>1, InodeFree DEF Target
  <2>2. CASE Target # 0
    BY <1>1, <1>2, <2>2 DEF SingleInv, TypeOK, TmpInv, Target
  <2> QED
    BY <2>1, <2>2
<1> HIDE DEF f
<1>5. f # 0
  BY <1>4 DEF Inodes
<1>6. /\ \A p \in Paths : dir[p] # 0 => inodes'[dir[p]] = inodes[dir[p]]
      /\ \A l \in 1 .. Len(stores) : inodes'[stores[l]] = inodes[stores[l]]
  BY <1>1, <1>4 DEF SingleInv, TypeOK
<1>7. \A l \in LayerNos : /\ l \in Paths /\ (Whole(l)' <=> Whole(l))
                          /\ IsLayerWritten(l)' <=> IsLayerWritten(l)
  BY <1>1, <1>6 DEF Whole, IsLayerWritten, LayerNos, Paths
<1>8. TypeOK'
  BY <1>1, <1>2, <1>4 DEF SingleInv, TypeOK
<1>9. TmpInv'
  BY <1>1, <1>2, <1>3, <1>4, <1>5 DEF SingleInv, TypeOK, TmpInv, Path, LayerNos
<1>10. GeneratedInv'
  BY <1>1, <1>7 DEF SingleInv, TypeOK, GeneratedInv, Looping
<1>11. layerLabels = Full(layer)
  <2>1. layer \in LayerNos /\ layerLabels \in [Nodes -> LabelOf]
    BY DEF SingleInv, TypeOK, LabelOf
  <2>2. \A m \in Nodes : layerLabels[m] = layer
    BY <1>1 DEF SingleInv, TypeOK, LabelInv, Nodes
  <2> QED
    BY <2>1, <2>2, FullLayer
<1>12. LabelInv'
  BY <1>1, <1>11 DEF SingleInv, LabelInv, Looping
<1>13. StoreInv'
  BY <1>1, <1>6, <1>7 DEF SingleInv, TypeOK, StoreInv, Looping
<1>14. DiskRight' /\ ResultRight'
  BY <1>1, <1>6, <1>7 DEF SingleInv, DiskRight, ResultRight
<1> QED
  BY <1>8, <1>9, <1>10, <1>12, <1>13, <1>14 DEF SingleInv

\* Filling the .tmp file hits no file in use.
LEMMA SingleWriteTmp == SingleInv /\ WriteTmp => SingleInv'
<1> SUFFICES ASSUME SingleInv, WriteTmp PROVE SingleInv'
  OBVIOUS
<1> USE SingleAssumption DEF memVars, diskVars
<1> DEFINE f == tmp[Path]
<1>1. /\ pc = "write" /\ pc' = "rename" /\ inodes' = [inodes EXCEPT ![f] = layerLabels]
      /\ UNCHANGED <<mode, layer, n, offset, layerLabels, expLabels, generated, dir, tmp,
                     stores, failures>>
  BY DEF WriteTmp, memVars
<1>2. Path \in Paths /\ Path' = Path
  BY <1>1 DEF SingleInv, TypeOK, Path, Paths, LayerNos
<1>3. /\ f \in Inodes
      /\ \A p \in Paths : f # dir[p]
      /\ \A l \in 1 .. Len(stores) : stores[l] # f
  BY <1>1, <1>2 DEF SingleInv, TypeOK, TmpInv
<1>4. layerLabels = Full(layer)
  BY <1>1 DEF SingleInv, LabelInv
<1>5. inodes'[tmp[Path]'] = Full(layer)
  BY <1>1, <1>2, <1>3, <1>4 DEF SingleInv, TypeOK
<1> HIDE DEF f
<1>6. /\ \A p \in Paths : dir[p] # 0 => inodes'[dir[p]] = inodes[dir[p]]
      /\ \A l \in 1 .. Len(stores) : inodes'[stores[l]] = inodes[stores[l]]
  BY <1>1, <1>3 DEF SingleInv, TypeOK
<1>7. \A l \in LayerNos : /\ l \in Paths /\ (Whole(l)' <=> Whole(l))
                          /\ IsLayerWritten(l)' <=> IsLayerWritten(l)
  BY <1>1, <1>6 DEF Whole, IsLayerWritten, LayerNos, Paths
<1>8. TypeOK'
  BY <1>1, <1>3 DEF SingleInv, TypeOK
<1>9. TmpInv'
  BY <1>1, <1>2, <1>5 DEF SingleInv, TypeOK, TmpInv
<1>10. GeneratedInv'
  BY <1>1, <1>7 DEF SingleInv, TypeOK, GeneratedInv, Looping
<1>11. LabelInv'
  BY <1>1, <1>4 DEF SingleInv, LabelInv, Looping
<1>12. StoreInv'
  BY <1>1, <1>6, <1>7 DEF SingleInv, TypeOK, StoreInv, Looping
<1>13. DiskRight' /\ ResultRight'
  BY <1>1, <1>6, <1>7 DEF SingleInv, DiskRight, ResultRight
<1> QED
  BY <1>8, <1>9, <1>10, <1>11, <1>12, <1>13 DEF SingleInv

\* The rename makes the layer complete under its final name.
LEMMA SingleRename == SingleInv /\ Rename => SingleInv'
<1> SUFFICES ASSUME SingleInv, Rename PROVE SingleInv'
  OBVIOUS
<1> USE SingleAssumption DEF memVars, diskVars
<1> DEFINE f == tmp[Path]
<1>1. /\ pc = "rename" /\ dir' = [dir EXCEPT ![Path] = f] /\ tmp' = [tmp EXCEPT ![Path] = 0]
      /\ layerLabels' = expLabels /\ expLabels' = layerLabels
      /\ \/ layer = Layers /\ pc' = "done" /\ layer' = layer
         \/ layer # Layers /\ pc' = "layer" /\ layer' = layer + 1
      /\ UNCHANGED <<mode, n, offset, generated, inodes, failures>>
  BY DEF Rename
<1>2. Path \in Paths /\ layer \in LayerNos /\ layer \in Paths /\ mode \in {"encode", "decode"}
      /\ Layers \in LayerNos /\ (layer # Layers => layer + 1 \in LayerNos)
  BY <1>1 DEF SingleInv, TypeOK, Path, Paths, LayerNos
<1>3. /\ f \in Inodes /\ f # 0 /\ inodes[f] = Full(layer)
      /\ \A q \in Paths : q # Path => tmp[q] = 0
  BY <1>1, <1>2 DEF SingleInv, TypeOK, TmpInv, Inodes
<1>4. layerLabels = Full(layer) /\ layer \notin generated
  BY <1>1 DEF SingleInv, LabelInv, GeneratedInv
<1>5. stores' = IF mode = "decode" THEN Append(stores, f) ELSE stores
  BY <1>1, <1>2 DEF Rename, SingleInv, TypeOK
<1> HIDE DEF f
<1>6. /\ stores' \in Seq(Inodes) /\ stores \in Seq(Inodes)
      /\ mode = "decode" => /\ Len(stores) = layer - 1 /\ Len(stores') = layer
                            /\ stores'[layer] = f
                            /\ \A l \in 1 .. layer - 1 : stores'[l] = stores[l]
  BY <1>1, <1>2, <1>3, <1>5 DEF SingleInv, TypeOK, StoreInv, Looping, LayerNos
<1>7. \A q \in Paths : tmp'[q] = 0
  BY <1>1, <1>2, <1>3 DEF SingleInv, TypeOK
<1>8. \A l \in LayerNos : l \in Paths /\ (l # Path => dir'[l] = dir[l])
  BY <1>1 DEF SingleInv, TypeOK, LayerNos, Paths
<1>9. mode = "encode" => Path = layer /\ dir'[layer] = f
  BY <1>1, <1>2 DEF Path, SingleInv, TypeOK
<1>10. mode = "decode" => Path \notin LayerNos
  BY DEF Path, LayerNos
<1>11. \A l \in LayerNos : l # layer \/ mode = "decode" =>
          (Whole(l)' <=> Whole(l)) /\ (IsLayerWritten(l)' <=> IsLayerWritten(l))
  BY <1>1, <1>2, <1>8, <1>9, <1>10 DEF Whole, IsLayerWritten
<1>12. mode = "encode" => \A l \in LayerNos : l = layer => Whole(l)'
  BY <1>1, <1>2, <1>3, <1>9 DEF Whole, Full
<1>13. TypeOK'
  BY <1>1, <1>2, <1>3, <1>6 DEF SingleInv, TypeOK
<1>14. TmpInv'
  BY <1>1, <1>7, <1>8 DEF TmpInv
<1>15. GeneratedInv'
  BY <1>1, <1>2, <1>4, <1>11 DEF SingleInv, TypeOK, GeneratedInv, Looping, LayerNos
<1>16. LabelInv'
  <2>1. (pc' = "done" /\ layer' = Layers) \/ (pc' = "layer" /\ layer' - 1 = layer)
    BY <1>1, <1>2 DEF LayerNos
  <2>2. Looping' => expLabels' = Full(layer' - 1)
    BY <1>1, <1>4, <2>1 DEF Looping
  <2> QED
    BY <2>1, <2>2 DEF LabelInv
<1>17. \A l \in 1 .. Len(stores') : inodes'[stores'[l]] = Full(l)
  <2>1. CASE mode = "encode"
    BY <1>1, <1>5, <2>1 DEF SingleInv, StoreInv
  <2>2. CASE mode = "decode"
    BY <1>1, <1>2, <1>3, <1>6, <2>2 DEF SingleInv, StoreInv, LayerNos
  <2> QED
    BY <1>2, <2>1, <2>2
<1>18. mode = "encode" => \A l \in LayerNos : l <= layer => Whole(l)'
  <2> SUFFICES ASSUME mode = "encode", NEW l \in LayerNos, l <= layer PROVE Whole(l)'
    OBVIOUS
  <2>1. CASE l = layer
    BY <1>12, <2>1
  <2>2. CASE l # layer
    <3>1. Whole(l)
      BY <1>1, <1>2, <2>2 DEF SingleInv, StoreInv, Looping, LayerNos
    <3> QED
      BY <1>11, <2>2, <3>1
  <2> QED
    BY <2>1, <2>2
<1>19. StoreInv'
  BY <1>1, <1>2, <1>5, <1>6, <1>17, <1>18 DEF SingleInv, StoreInv, Looping, LayerNos
<1>20. ResultRight'
  BY <1>1, <1>2, <1>6, <1>17, <1>18 DEF ResultRight, Whole, LayerNos, Full
<1>21. DiskRight'
  <2> SUFFICES ASSUME NEW l \in LayerNos, dir'[l] # 0
               PROVE  inodes'[dir'[l]] \in {Short, Full(l)}
    BY DEF DiskRight, Full, Short
  <2>1. CASE l = Path
    BY <1>1, <1>2, <1>3, <1>9, <1>10, <2>1
  <2>2. CASE l # Path
    BY <1>1, <1>8, <2>2 DEF SingleInv, DiskRight
  <2> QED
    BY <2>1, <2>2
<1> QED
  BY <1>13, <1>14, <1>15, <1>16, <1>19, <1>20, <1>21 DEF SingleInv

\* A failed write leaves the .tmp file behind and nothing else.
LEMMA SingleFails == SingleInv /\ WriteFails => SingleInv'
<1> SUFFICES ASSUME SingleInv, WriteFails PROVE SingleInv'
  OBVIOUS
<1> USE SingleAssumption DEF memVars, diskVars
<1>1. TypeOK'
  BY DEF SingleInv, TypeOK, WriteFails
<1>2. DiskRight' /\ ResultRight' /\ LabelInv'
  BY DEF SingleInv, WriteFails, DiskRight, ResultRight, LabelInv, Looping
<1>3. TmpInv' /\ GeneratedInv' /\ StoreInv'
  BY DEF SingleInv, WriteFails, TmpInv, GeneratedInv, StoreInv, Looping, Whole
<1> QED
  BY <1>1, <1>2, <1>3 DEF SingleInv

\* A new call, after an error or a crash, starts from what is on disk.
LEMMA SingleRestart == SingleInv /\ Restarted /\ failures' \in 0 .. MaxFailures => SingleInv'
<1> SUFFICES ASSUME SingleInv, Restarted, failures' \in 0 .. MaxFailures PROVE SingleInv'
  OBVIOUS
<1> USE SingleAssumption DEF memVars, diskVars
<1>1. Zeros \in [Nodes -> {Bad} \cup 0 .. Layers]
  BY DEF Zeros
<1>2. TypeOK'
  BY <1>1 DEF SingleInv, TypeOK, Restarted, LayerNos
<1>3. DiskRight' /\ ResultRight' /\ LabelInv'
  BY DEF SingleInv, Restarted, DiskRight, ResultRight, LabelInv, Looping
<1>4. GeneratedInv' /\ StoreInv'
  BY DEF SingleInv, Restarted, GeneratedInv, StoreInv, Looping
<1>5. TmpInv'
  BY DEF SingleInv, Restarted, TmpInv
<1> QED
  BY <1>2, <1>3, <1>4, <1>5 DEF SingleInv

\* The invariant depends on the variables only.
LEMMA SingleStutter == SingleInv /\ UNCHANGED vars => SingleInv'
<1> SUFFICES ASSUME SingleInv, UNCHANGED vars PROVE SingleInv'
  OBVIOUS
<1> USE DEF vars, memVars, diskVars
<1>1. TypeOK' /\ DiskRight' /\ ResultRight' /\ LabelInv'
  BY DEF SingleInv, TypeOK, DiskRight, ResultRight, LabelInv, Looping
<1>2. TmpInv' /\ GeneratedInv' /\ StoreInv'
  BY DEF SingleInv, TmpInv, GeneratedInv, StoreInv, Looping, Whole, Path, IsLayerWritten
<1> QED
  BY <1>1, <1>2 DEF SingleInv

\* Every step keeps the invariant.
LEMMA SingleNext == SingleInv /\ [Next]_vars => SingleInv'
<1> SUFFICES ASSUME SingleInv, [Next]_vars PROVE SingleInv'
  OBVIOUS
<1>1. CASE Work
  <2>1. CASE Retry
    <3>1. failures' \in 0 .. MaxFailures
      BY <2>1 DEF Retry, SingleInv, TypeOK
    <3> QED
      BY <2>1, <3>1, SingleRestart DEF Retry
  <2> QED
    BY <1>1, <2>1, SinglePrepare, SingleSkip, SingleBegin, SingleLabel, SingleCreateTmp,
       SingleWriteTmp, SingleRename DEF Work
<1>2. CASE Crash
  <2>1. failures' \in 0 .. MaxFailures
    BY <1>2, SingleAssumption DEF Crash, SingleInv, TypeOK
  <2> QED
    BY <1>2, <2>1, SingleRestart DEF Crash
<1> QED
  BY <1>1, <1>2, SingleFails, SingleStutter DEF Next, Finished

----------------------------------------------------------------------------
(* The theorems                                                             *)

\* The invariant holds in every state, across crashes and retries.
THEOREM SingleCorrect == Spec => []SingleInv
BY SingleInit, SingleNext, PTL DEF Spec

\* The type invariant of the label store and the labelling loop.
THEOREM SingleTyped == Spec => []TypeOK
<1>1. SingleInv => TypeOK
  BY DEF SingleInv
<1> QED
  BY <1>1, SingleCorrect, PTL

\* DiskRight: a layer file of the right size is the right layer, at whatever step the
\* process died before; prepare_layers may trust the size.
THEOREM DiskIsRight == Spec => []DiskRight
<1>1. SingleInv => DiskRight
  BY DEF SingleInv
<1> QED
  BY <1>1, SingleCorrect, PTL

\* ResultRight: labelling that ends has all its layers complete, on disk or in open
\* stores that were all written through one path.
THEOREM ResultIsRight == Spec => []ResultRight
<1>1. SingleInv => ResultRight
  BY DEF SingleInv
<1> QED
  BY <1>1, SingleCorrect, PTL

\* CompleteKept: no step, not even of a later call, replaces the file of a complete
\* layer when encoding.
THEOREM CompleteStays == Spec => CompleteKept
<1> DEFINE Kept == mode = "encode" =>
        \A l \in LayerNos : dir[l] # 0 /\ inodes[dir[l]] = Full(l) => dir'[l] = dir[l]
<1>1. SingleInv /\ [Next]_vars => [Kept]_vars
  <2> SUFFICES ASSUME SingleInv, Next, mode = "encode", NEW l \in LayerNos, Whole(l)
               PROVE  dir'[l] = dir[l]
    BY DEF Whole
  <2>1. CASE Rename
    <3>1. IsLayerWritten(l)
      BY FullLayer DEF IsLayerWritten, Whole
    <3>2. l # layer
      BY <2>1, <3>1, SingleAssumption
         DEF Rename, SingleInv, TypeOK, GeneratedInv, Looping, LayerNos
    <3> QED
      BY <2>1, <3>2 DEF Rename, Path, SingleInv, TypeOK
  <2>2. CASE ~Rename
    BY <2>2 DEF Next, Work, PrepareLayers, SkipLayer, BeginLayer, CreateLabel, CreateTmp, WriteTmp,
       Retry, Crash, Restarted, WriteFails, Finished, vars, diskVars
  <2> QED
    BY <2>1, <2>2
<1> QED
  BY <1>1, SingleCorrect, PTL DEF CompleteKept, Spec

----------------------------------------------------------------------------
(* The steps of the sequential definition                                   *)

\* What is not labelled yet in this layer holds labels of earlier layers.
FreshInv ==
    /\ pc \in {"start", "layer"} => \A m \in Nodes : layerLabels[m] < layer
    /\ pc = "label" => \A m \in Nodes : n <= m => layerLabels[m] < layer
    /\ pc = "start" \/ Looping => \A m \in Nodes : expLabels[m] < layer

\* Zeroed buffers hold no label.
LEMMA FreshInit == Init => FreshInv
BY SingleAssumption DEF Init, FreshInv, Zeros

\* Every step keeps FreshInv.
LEMMA FreshNext == SingleInv /\ FreshInv /\ [Next]_vars => FreshInv'
<1> SUFFICES ASSUME SingleInv, FreshInv, [Next]_vars PROVE FreshInv'
  OBVIOUS
<1> USE SingleAssumption DEF memVars, diskVars
<1>1. /\ layer \in LayerNos /\ layer \in Int
      /\ \A m \in Nodes : m \in Int /\ layerLabels[m] \in Int /\ expLabels[m] \in Int
  BY DEF SingleInv, TypeOK, LayerNos, Nodes, Bad
<1>2. CASE PrepareLayers \/ BeginLayer
  BY <1>1, <1>2 DEF PrepareLayers, BeginLayer, FreshInv, Looping, Nodes
<1>3. CASE SkipLayer
  <2>1. \A m \in Nodes : expLabels'[m] = layer
    <3>1. expLabels' = Full(layer)
      BY <1>3, FullLayer DEF SingleInv, TypeOK, GeneratedInv, SkipLayer, Whole
    <3> QED
      BY <3>1 DEF Full
  <2>2. pc' = "done" \/ (pc' = "layer" /\ layer' = layer + 1 /\ layerLabels' = layerLabels)
    BY <1>3 DEF SkipLayer
  <2> QED
    BY <1>1, <1>3, <2>1, <2>2 DEF SkipLayer, FreshInv, Looping
<1>4. CASE CreateLabel
  <2>1. pc = "label" /\ n < N /\ n \in Nodes /\ n \in Int
    BY <1>4 DEF SingleInv, TypeOK, CreateLabel, Nodes
  <2>2. \A m \in Nodes : m # n /\ pc' # "failed" => layerLabels'[m] = layerLabels[m]
    BY <1>4, <2>1 DEF SingleInv, TypeOK, CreateLabel
  <2>3. /\ layer' = layer /\ expLabels' = expLabels
        /\ pc' = "failed" \/ (pc' = "label" /\ n' = n + 1)
    BY <1>4 DEF CreateLabel
  <2> QED
    BY <1>1, <2>1, <2>2, <2>3 DEF FreshInv, Looping
<1>5. CASE CreateTmp \/ WriteTmp \/ WriteFails
  BY <1>5 DEF CreateTmp, WriteTmp, WriteFails, FreshInv, Looping
<1>6. CASE Rename
  <2>1. layerLabels = Full(layer)
    BY <1>6 DEF Rename, SingleInv, LabelInv
  <2>2. \A m \in Nodes : expLabels'[m] = layer /\ layerLabels'[m] = expLabels[m]
    BY <1>6, <2>1 DEF Rename, Full
  <2>3. pc = "rename" /\ (pc' = "done" \/ (pc' = "layer" /\ layer' = layer + 1))
    BY <1>6 DEF Rename
  <2> QED
    BY <1>1, <2>2, <2>3 DEF FreshInv, Looping
<1>7. CASE Retry \/ Crash
  BY <1>7 DEF Retry, Crash, Restarted, FreshInv, Zeros
<1>8. CASE UNCHANGED vars
  BY <1>8 DEF vars, FreshInv, Looping
<1> QED
  BY <1>2, <1>3, <1>4, <1>5, <1>6, <1>7, <1>8 DEF Next, Work, Finished

\* StepsOfSDR: a call that finds no finished layer labels nodes after their parents and
\* begins a layer when the one before is complete, as the sequential definition does.
THEOREM SingleTakesStepsOfSDR == Spec => StepsOfSDR
<1> DEFINE Step == generated = {} /\ generated' = {} /\ pc # "failed" /\ failures' = failures
                     => [Abstract!Next]_(Abstract!sdrVars)
           Done == IF pc = "done" THEN {m \in Nodes : expLabels[m] = layer}
                                  ELSE {m \in Nodes : layerLabels[m] = layer}
<1>1. SingleInv /\ FreshInv /\ [Next]_vars => [Step]_vars
  <2> SUFFICES ASSUME SingleInv, FreshInv, Next, generated = {}, pc # "failed", failures' = failures
               PROVE  Abstract!Next \/ (layer' = layer /\ Done' = Done)
    BY DEF Abstract!sdrVars
  <2> USE SingleAssumption DEF memVars, diskVars
  <2>1. /\ layer \in LayerNos /\ layer \in Int
        /\ \A m \in Nodes : m \in Int /\ layerLabels[m] \in Int /\ expLabels[m] \in Int
    BY DEF SingleInv, TypeOK, LayerNos, Nodes, Bad
  <2>2. CASE PrepareLayers \/ BeginLayer \/ CreateTmp \/ WriteTmp
    BY <2>2 DEF PrepareLayers, BeginLayer, CreateTmp, WriteTmp
  <2>3. CASE CreateLabel
    <3>1. pc = "label" /\ n < N /\ n \in Nodes /\ n \in Int
      BY <2>3 DEF SingleInv, TypeOK, CreateLabel, Nodes
    <3>2. /\ n # 0 => ParentsRight /\ ~(n < offset)
          /\ InFile
      BY <3>1, CacheInFile, RightParents DEF InFile, SingleInv, TypeOK
    <3>3. /\ pc' = pc /\ layer' = layer
          /\ layerLabels' = [layerLabels EXCEPT ![n] = layer]
      BY <2>3, <3>2 DEF CreateLabel
    <3>4. Done' = Done \cup {n}
      BY <3>1, <3>3 DEF SingleInv, TypeOK
    <3>5. n \notin Done
      BY <2>1, <3>1 DEF FreshInv
    <3>6. n > 0 => \A k \in Base : Parent[n][k] \in Done
      BY <3>1, <3>2 DEF ParentsRight
    <3>7. PICK m \in Nodes : m = n
      BY <3>1
    <3>8. Abstract!LabelNode(m)
      BY <3>3, <3>4, <3>5, <3>6, <3>7 DEF Abstract!LabelNode, Abstract!Base, Base
    <3> QED
      BY <3>8 DEF Abstract!Next, Abstract!Nodes, Nodes
  <2>4. CASE Rename
    <3>1. layerLabels = Full(layer) /\ pc = "rename"
      BY <2>4 DEF Rename, SingleInv, LabelInv
    <3>2. Done = Nodes
      BY <3>1 DEF Full
    <3>3. CASE layer = Layers
      <4>1. pc' = "done" /\ layer' = layer /\ expLabels' = layerLabels
        BY <2>4, <3>3 DEF Rename
      <4> QED
        BY <3>1, <4>1
    <3>4. CASE layer # Layers
      <4>1. pc' = "layer" /\ layer' = layer + 1 /\ layerLabels' = expLabels /\ layer < Layers
        BY <2>1, <2>4, <3>4 DEF Rename, LayerNos
      <4>2. Done' = {}
        BY <2>1, <3>1, <4>1 DEF FreshInv, Looping
      <4>3. Abstract!NextLayer
        BY <3>2, <4>1, <4>2 DEF Abstract!NextLayer, Abstract!Nodes, Nodes
      <4> QED
        BY <4>3 DEF Abstract!Next
    <3> QED
      BY <3>3, <3>4
  <2>5. ~SkipLayer /\ ~Retry /\ ~WriteFails /\ ~Crash
    BY DEF SkipLayer, Retry, WriteFails, Crash, SingleInv, TypeOK
  <2>6. CASE Finished
    BY <2>6 DEF Finished, vars
  <2> QED
    BY <2>2, <2>3, <2>4, <2>5, <2>6 DEF Next, Work
<1> QED
  BY <1>1, SingleCorrect, FreshInit, FreshNext, PTL DEF StepsOfSDR, Spec
============================================================================

----------------------- MODULE MultiSDR_labels_proofs -----------------------
(***************************************************************************)
(* Proofs about what multicore labelling computes: that every node is      *)
(* hashed with all its parents and with the right ones, whatever the       *)
(* interleaving, and that labelling implements the sequential definition   *)
(* SDR.                                                                    *)
(*                                                                         *)
(* LabelInv follows a node on its way: being filled by one producer        *)
(* (PartInv), filled and not yet published (OwnInv), published and waiting *)
(* in the ring (PublishedInv), labelled (LayerInv), and stored with its    *)
(* layer (StoredInv).  That the parent slices it is filled from are mapped *)
(* is SlicesMapped of MultiSDR_proofs, hence the same WindowHyp.           *)
(***************************************************************************)
EXTENDS MultiSDR_proofs

----------------------------------------------------------------------------
(* The invariant of the labels                                              *)

\* The ring slot of node n holds all that is hashed with it, or says what is missing.
Whole(n) ==
    /\ slotNode[SlotOf(n)] = n
    /\ Exp \in slotData[SlotOf(n)]
    /\ \A k \in Base : k \in missing[SlotOf(n)] \cup slotData[SlotOf(n)]

\* Node n was published by its producer and is not hashed yet.
Published(n) == consumer <= n /\ n <= curProducer

\* What is published waits in the ring, complete, and its memory is pre-hashed until
\* the hashing thread writes the label.
PublishedInv ==
    Laying => \A n \in Nodes \ {0} : Published(n) =>
        /\ n <= consumer + Lookahead - 1
        /\ Whole(n)
        /\ (mainPc # "incr" \/ n # i) => layerLabels[n] = PreHash

\* Producer p has filled node n of its stride and has not published it.
Own(p, n) == Active(p) /\ work[p] <= n /\ n < node[p]

\* What a producer has filled stays complete until it is published.
OwnInv ==
    \A p \in Producers, n \in Nodes \ {0} : Own(p, n) =>
        /\ n <= consumer + Lookahead - 1
        /\ Whole(n)
        /\ layerLabels[n] = PreHash

\* In fill_buffer the slot belongs to the node, the base parents looked at so far are
\* copied or marked missing, and the last one is marked (fill_buffer).
PartInv(p) ==
    pc[p] \in {"fillBase", "fillExp"} =>
        LET s == SlotOf(node[p]) IN
        /\ slotNode[s] = node[p]
        /\ layerLabels[node[p]] = PreHash
        /\ K \in missing[s]
        /\ \A k \in Base : pc[p] = "fillExp" \/ k < base[p] => k \in missing[s] \cup slotData[s]

\* No label is wrong, and the nodes before the consumer have their label of this
\* layer.
LayerInv ==
    /\ \A n \in Nodes : layerLabels[n] # Bad /\ expLabels[n] # Bad
    /\ Laying => \A n \in Nodes : n < consumer => layerLabels[n] = layer
    /\ mainPc = "store" => layerLabels[0] = layer
    /\ mainPc = "incr" => layerLabels[i] = layer
    /\ mainPc = "join" => consumer = N

\* The layers before this one are on disk, the last one is in exp_labels, and at the
\* end nothing is missing.
StoredInv ==
    /\ mainPc # "done" => ExpReady
    /\ Generated \subseteq stored
    /\ \A l \in 1 .. Layers : l < layer => l \in stored
    /\ mainPc = "done" =>
          layer = Layers /\ layer \in stored /\ \A n \in Nodes : expLabels[n] = Layers

\* The inductive invariant of the labels.
LabelInv == PublishedInv /\ OwnInv /\ (\A p \in Producers : PartInv(p)) /\ LayerInv /\ StoredInv

----------------------------------------------------------------------------
(* Which slots and labels a producer may touch                              *)

\* The node of a producer in fill_buffer is neither consumed nor published, and no
\* node that waits in the ring has its slot.
LEMMA FillApart ==
  ASSUME WindowHyp, RingInv, CursorInv, LabelInv, NEW p \in Producers, pc[p] \in Filling,
         NEW n \in Nodes \ {0},
         Published(n) \/ \E q \in Producers : Own(q, n)
  PROVE  n # node[p] /\ SlotOf(n) # SlotOf(node[p])
<1>1. Active(p) /\ pc[p] \in Busy /\ Laying
  BY RunsWhileLaying DEF Active, Busy, Filling
<1>2. /\ node[p] \in 1 .. N - 1 /\ consumer <= node[p] /\ consumer \in Nat /\ curProducer \in Nat
      /\ node[p] <= consumer + Lookahead - 1 /\ curProducer < work[p] /\ work[p] <= node[p]
      /\ work[p] \in Nat /\ node[p] < work[p] + Count(work[p])
      /\ Count(work[p]) \in Nat /\ Count(work[p]) <= Stride /\ Stride \in Nat
  BY <1>1, NextWindow, CountOK, ConstAssumption
  DEF RingInv, WorkInv, Types, LocalType, CountType
<1>3. n \in Nat \ {0} /\ n <= N - 1
  BY ConstAssumption DEF Nodes
<1>4. n <= consumer + Lookahead - 1 /\ consumer <= n /\ n # node[p]
  <2>1. CASE Published(n)
    BY <1>1, <1>2, <1>3, <2>1 DEF LabelInv, PublishedInv, Published
  <2>2. CASE \E q \in Producers : Own(q, n)
    <3>1. PICK q \in Producers : Own(q, n)
      BY <2>2
    <3>2. /\ work[q] \in Nat /\ node[q] \in Nat /\ curProducer < work[q] /\ work[q] < N
          /\ consumer <= curProducer + 1
      BY <1>1, <3>1, ConstAssumption
      DEF Own, RingInv, MainInv, WorkInv, Types, LocalType, Laying
    <3>3. node[q] <= work[q] + Count(work[q]) /\ Count(work[q]) <= Stride /\ Count(work[q]) \in Nat
      <4>1. Count(work[q]) <= Stride /\ Count(work[q]) \in Nat
        BY <3>2, CountOK
      <4>2. pc[q] \in Busy \cup {"room"} \/ pc[q] \in {"turn", "publish"}
        BY <3>1 DEF Own, Active, RingInv, Types, LocalType, Pcs
      <4> QED
        BY <3>2, <4>1, <4>2 DEF RingInv, WorkInv, CursorInv, ReadInv
    <3>4. q # p => work[p] + Stride <= work[q] \/ work[q] + Stride <= work[p]
      BY <1>1, <3>1 DEF Own, RingInv, StridesDisjoint
    <3>5. n <= consumer + Lookahead - 1
      BY <3>1 DEF LabelInv, OwnInv
    <3> QED
      BY <1>2, <1>3, <3>1, <3>2, <3>3, <3>4, <3>5 DEF Own
  <2> QED
    BY <2>1, <2>2
<1>5. n - node[p] < Lookahead /\ node[p] - n < Lookahead
  BY <1>2, <1>3, <1>4, ConstAssumption
<1> QED
  BY <1>2, <1>3, <1>4, <1>5, SlotsDiffer, ConstAssumption

\* Two producers in fill_buffer are at different nodes, in different slots.
LEMMA FillsApart ==
  ASSUME RingInv, NEW p \in Producers, NEW q \in Producers, p # q,
         pc[p] \in Filling, pc[q] \in Filling
  PROVE  node[q] # node[p] /\ SlotOf(node[q]) # SlotOf(node[p])
  BY RingExcludes DEF SlotExclusive

----------------------------------------------------------------------------
(* Steps of the hashing thread                                              *)

\* The invariant holds at the start.
LEMMA LabelsInit == Init => LabelInv
<1> SUFFICES ASSUME Init PROVE LabelInv
  OBVIOUS
<1> USE ConstAssumption DEF Init
<1>1. PublishedInv /\ OwnInv /\ \A p \in Producers : PartInv(p)
  BY DEF PublishedInv, OwnInv, PartInv, Own, Active, Laying
<1>2. LayerInv /\ StoredInv
  BY DEF LayerInv, StoredInv, Bad, ExpReady, Laying
<1> QED
  BY <1>1, <1>2 DEF LabelInv

\* Between layers there is nothing in the ring.
LEMMA LabelsIdle ==
  ASSUME \A p \in Producers : pc'[p] \in {"grab", "done"},
         ~Laying' \/ curProducer' = 0
  PROVE  PublishedInv' /\ OwnInv' /\ \A p \in Producers : PartInv(p)'
<1>1. PublishedInv'
  BY ConstAssumption DEF PublishedInv, Published, Nodes
<1>2. OwnInv'
  BY DEF OwnInv, Own, Active
<1>3. ASSUME NEW p \in Producers PROVE PartInv(p)'
  BY DEF PartInv
<1> QED
  BY <1>1, <1>2, <1>3

\* A layer that was on disk is read into exp_labels.
LEMMA LabelsSkip ==
  ASSUME RingInv, LabelInv, SkipLayer
  PROVE  LabelInv'
<1>1. \A p \in Producers : pc'[p] = "done"
  BY DEF SkipLayer, RingInv, MainInv, localVars
<1>2. ~Laying' /\ mainPc' \in {"begin", "done"}
  BY DEF SkipLayer, Laying
<1>3. layer \in Generated /\ layer \in stored /\ layer \in 1 .. Layers /\ UNCHANGED stored
      /\ expLabels' = [n \in Nodes |-> layer] /\ UNCHANGED layerLabels
  BY DEF SkipLayer, LabelInv, StoredInv, LayerRead, RingInv, Types, MainType
<1>4. LayerInv'
  BY <1>2, <1>3 DEF LabelInv, LayerInv, Bad, Laying
<1>5. StoredInv'
  <2>1. CASE layer # Layers
    <3>1. layer' = layer + 1 /\ mainPc' = "begin"
      BY <2>1 DEF SkipLayer
    <3> QED
      BY <1>3, <3>1, ConstAssumption DEF LabelInv, StoredInv, ExpReady
  <2>2. CASE layer = Layers
    <3>1. layer' = layer /\ mainPc' = "done"
      BY <2>2 DEF SkipLayer
    <3> QED
      BY <1>3, <2>2, <3>1, ConstAssumption DEF LabelInv, StoredInv
  <2> QED
    BY <2>1, <2>2
<1> QED
  BY <1>1, <1>2, <1>4, <1>5, LabelsIdle DEF LabelInv

\* A layer begins with an empty ring.
LEMMA LabelsBegin ==
  ASSUME RingInv, LabelInv, BeginLayer
  PROVE  LabelInv'
<1>1. /\ \A p \in Producers : pc'[p] = "grab"
      /\ curProducer' = 0 /\ consumer' = 0 /\ mainPc' = "node0"
      /\ UNCHANGED <<layerLabels, expLabels, stored, layer>> /\ mainPc = "begin"
  BY DEF BeginLayer, FinishReset, RingInv, MainInv, labelVars, cursorVars
<1>2. LayerInv'
  BY <1>1, ConstAssumption DEF LabelInv, LayerInv, Nodes
<1>3. StoredInv'
  BY <1>1 DEF LabelInv, StoredInv, ExpReady
<1> QED
  BY <1>1, <1>2, <1>3, LabelsIdle DEF LabelInv

\* A layer that is joined has all its labels; it is stored and becomes exp_labels.
LEMMA LabelsJoin ==
  ASSUME RingInv, LabelInv, Join
  PROVE  LabelInv'
<1>1. /\ \A p \in Producers : pc'[p] = "done"
      /\ mainPc = "join" /\ layer \in 1 .. Layers
      /\ layerLabels' = expLabels /\ expLabels' = layerLabels
  BY DEF Join, localVars, RingInv, Types, MainType
<1>2. ~Laying' /\ mainPc' \in {"begin", "done"}
  BY DEF Join, Laying
<1>3. \A n \in Nodes : layerLabels[n] = layer
  BY <1>1, ConstAssumption DEF LabelInv, LayerInv, Laying, Nodes
<1>4. stored' = stored \cup {layer}
  BY <1>3 DEF Join
<1>5. LayerInv'
  BY <1>1, <1>2 DEF LabelInv, LayerInv
<1>6. StoredInv'
  <2>1. CASE layer # Layers
    <3>1. layer' = layer + 1 /\ mainPc' = "begin"
      BY <2>1 DEF Join
    <3> QED
      BY <1>1, <1>3, <1>4, <3>1, ConstAssumption DEF LabelInv, StoredInv, ExpReady
  <2>2. CASE layer = Layers
    <3>1. layer' = layer /\ mainPc' = "done"
      BY <2>2 DEF Join
    <3> QED
      BY <1>1, <1>3, <1>4, <2>2, <3>1, ConstAssumption DEF LabelInv, StoredInv
  <2> QED
    BY <2>1, <2>2
<1> QED
  BY <1>1, <1>2, <1>5, <1>6, LabelsIdle DEF LabelInv

\* Everything that goes into the hash of node i is what it should be.
LEMMA HashInputs ==
  ASSUME RingInv, LabelInv, SlicesMapped, mainPc = "hash"
  PROVE  InputsRight
<1>1. /\ i \in Nodes \ {0} /\ consumer = i /\ i <= curProducer /\ i \in Nat /\ Laying
      /\ curProducer \in Nat
  BY ConstAssumption DEF RingInv, MainInv, Running, Types, MainType, CountType, Nodes, Laying
<1>2. Whole(i) /\ layerLabels[i] = PreHash
  BY <1>1 DEF LabelInv, PublishedInv, Published
<1>3. ASSUME NEW k \in Base
      PROVE  layerLabels[Parent[i][k]] = layer
  BY <1>1, ParentAssumption, ConstAssumption DEF LabelInv, LayerInv, Nodes
<1>4. ConsumerSliceOk
  BY DEF SlicesMapped
<1> QED
  BY <1>2, <1>3, <1>4 DEF InputsRight, Whole

\* The steps that write at most one label, of node 0 or of the node being hashed.
LEMMA LabelsMain ==
  ASSUME RingInv, LabelInv, SlicesMapped, NodeZero \/ LoadProducer \/ Refill \/ Hash
  PROVE  LabelInv'
<1>1. /\ UNCHANGED <<localVars, ringVars, countVars, expLabels, stored, layer, i>>
      /\ Laying /\ Laying' /\ mainPc' \notin {"begin", "done", "join"}
      /\ i \in Nat /\ consumer \in Nat /\ curProducer \in Nat /\ layer \in Nat \ {0}
  BY DEF NodeZero, LoadProducer, Refill, Hash, Laying, labelVars, RingInv, Types, MainType,
         CountType
<1>2. \/ layerLabels' = layerLabels /\ mainPc' \notin {"store", "incr"} /\ mainPc # "incr"
      \/ layerLabels' = [layerLabels EXCEPT ![0] = layer] /\ mainPc' = "store" /\ consumer = 0
         /\ mainPc = "node0"
      \/ /\ layerLabels' = [layerLabels EXCEPT ![i] = layer] /\ mainPc' = "incr"
         /\ mainPc = "hash" /\ consumer = i /\ i \in 1 .. N - 1 /\ i <= curProducer
  <2>1. mainPc = "hash" => InputsRight
    BY HashInputs
  <2> QED
    BY <1>1, <2>1
    DEF NodeZero, LoadProducer, Refill, Hash, labelVars, RingInv, MainInv, Running, Types, MainType
<1>3. layerLabels \in [Nodes -> Labels]
  BY DEF RingInv, Types, LabelType
<1>4. \A n \in Nodes : Whole(n)' <=> Whole(n)
  BY <1>1 DEF Whole, ringVars
<1> USE DEF localVars, countVars
<1>5. PublishedInv'
  BY <1>1, <1>2, <1>3, <1>4, ConstAssumption
  DEF LabelInv, PublishedInv, Published, Laying, Nodes
<1>6. ASSUME NEW p \in Producers, NEW n \in Nodes \ {0}, Own(p, n)'
      PROVE  (n <= consumer + Lookahead - 1 /\ Whole(n) /\ layerLabels[n] = PreHash)'
  <2>1. Own(p, n)
    BY <1>1, <1>6 DEF Own, Active
  <2>2. curProducer < n
    BY <1>1, <2>1, ConstAssumption DEF Own, RingInv, WorkInv, Nodes
  <2> QED
    BY <1>1, <1>2, <1>3, <1>4, <2>1, <2>2 DEF LabelInv, OwnInv
<1>7. ASSUME NEW p \in Producers PROVE PartInv(p)'
  <2> SUFFICES ASSUME pc[p] \in {"fillBase", "fillExp"}
               PROVE  PartInv(p)'
    BY <1>1 DEF PartInv
  <2>1. Active(p) /\ pc[p] \in Busy
    BY DEF Active, Busy, Filling
  <2>2. node[p] \in Nodes \ {0} /\ curProducer < node[p]
    BY <1>1, <2>1, RingInvTypeOK, ConstAssumption DEF TypeOK, Nodes, RingInv, WorkInv
  <2>3. layerLabels'[node[p]] = layerLabels[node[p]]
    BY <1>1, <1>2, <1>3, <2>2, ConstAssumption
  <2> QED
    BY <1>1, <2>3 DEF LabelInv, PartInv, ringVars
<1>8. LayerInv'
  BY <1>1, <1>2, <1>3, ConstAssumption DEF LabelInv, LayerInv, Bad, Nodes
<1>9. StoredInv'
  BY <1>1 DEF LabelInv, StoredInv, ExpReady, Laying
<1> QED
  BY <1>5, <1>6, <1>7, <1>8, <1>9 DEF LabelInv, OwnInv

\* The consumer moves past a node that has its label.
LEMMA LabelsConsume ==
  ASSUME RingInv, LabelInv, StoreConsumer \/ IncrementConsumer
  PROVE  LabelInv'
<1>1. /\ UNCHANGED <<localVars, ringVars, labelVars, curProducer, layer>>
      /\ Laying /\ Laying' /\ mainPc' \in {"refill", "load", "join"} 
      /\ consumer' = consumer + 1 /\ consumer \in Nat /\ curProducer \in Nat
      /\ layerLabels[consumer] = layer
      /\ mainPc = "incr" => consumer = i
  BY DEF StoreConsumer, IncrementConsumer, Laying, LabelInv, LayerInv, RingInv, MainInv, Running,
         Types, CountType
<1>2. mainPc' = "join" => consumer' = N
  BY ConstAssumption DEF StoreConsumer, IncrementConsumer, RingInv, MainInv, Running, Types, MainType
<1>3. \A n \in Nodes : Whole(n)' <=> Whole(n)
  BY <1>1 DEF Whole, ringVars
<1> USE DEF localVars, labelVars
<1>4. PublishedInv'
  BY <1>1, <1>3, ConstAssumption DEF LabelInv, PublishedInv, Published, Nodes
<1>5. OwnInv'
  BY <1>1, <1>3, ConstAssumption DEF LabelInv, OwnInv, Own, Active, Nodes
<1>6. ASSUME NEW p \in Producers PROVE PartInv(p)'
  BY <1>1 DEF LabelInv, PartInv, ringVars
<1>7. LayerInv'
  BY <1>1, <1>2, ConstAssumption DEF LabelInv, LayerInv, Nodes
<1>8. StoredInv'
  BY <1>1 DEF LabelInv, StoredInv, ExpReady, Laying
<1> QED
  BY <1>4, <1>5, <1>6, <1>7, <1>8 DEF LabelInv

----------------------------------------------------------------------------
(* Steps of a producer                                                      *)

\* slice_at and the waiting: no node is filled or published.
LEMMA LabelsQuiet ==
  ASSUME RingInv, LabelInv, NEW p \in Producers,
         Grab(p) \/ Room(p) \/ Turn(p) \/ SliceStep(p)
  PROVE  LabelInv'
<1>1. /\ UNCHANGED <<mainVars, ringVars, labelVars, consumer, curProducer, base>>
      /\ \A q \in Producers \ {p} : UNCHANGED <<pc[q], work[q], node[q]>>
      /\ \/ pc[p] = "grab" /\ work'[p] = node'[p]
         \/ Active(p) /\ UNCHANGED <<work[p], node[p]>>
      /\ pc'[p] \notin {"fillBase", "fillExp"}
      /\ Laying
  BY RunsWhileLaying
  DEF Grab, Room, Turn, SliceStep, CasCur, CasSafe, LoadSafe, Selected, NotSelected,
      WaitConsumer, Remap, Bump, Await, Slice, Goto, countVars, RingInv, Types, LocalType, Active
<1>2. \A n \in Nodes : Whole(n)' <=> Whole(n)
  BY <1>1 DEF Whole, ringVars
<1>3. work'[p] = node'[p] => \A n \in Nodes : ~Own(p, n)'
  <2>1. node'[p] \in Nat
    BY RingGrab, RingRoomTurn, RingSlice DEF RingInv, Types, LocalType
  <2> QED
    BY <2>1, ConstAssumption DEF Own, Nodes
<1> USE DEF mainVars, labelVars
<1>4. PublishedInv'
  BY <1>1, <1>2 DEF LabelInv, PublishedInv, Published, Laying
<1>5. \A q \in Producers, n \in Nodes : Own(q, n)' => Own(q, n)
  BY <1>1, <1>3 DEF Own, Active
<1>6. OwnInv'
  BY <1>1, <1>2, <1>5 DEF LabelInv, OwnInv
<1>7. ASSUME NEW q \in Producers PROVE PartInv(q)'
  BY <1>1 DEF LabelInv, PartInv, ringVars
<1>8. LayerInv' /\ StoredInv'
  BY <1>1 DEF LabelInv, LayerInv, StoredInv, ExpReady, Laying
<1> QED
  BY <1>4, <1>6, <1>7, <1>8 DEF LabelInv

\* Publishing hands the nodes of the stride over as they are.
LEMMA LabelsPublish ==
  ASSUME RingInv, CursorInv, LabelInv, NEW p \in Producers, Publish(p)
  PROVE  LabelInv'
<1>1. /\ UNCHANGED <<mainVars, ringVars, labelVars, consumer, base, work, node>>
      /\ \A q \in Producers \ {p} : UNCHANGED pc[q]
      /\ pc[p] = "publish" /\ pc'[p] = "grab" /\ Laying /\ Active(p)
      /\ curProducer \in Nat /\ work[p] \in Nat /\ node[p] \in Nat
  BY RunsWhileLaying DEF Publish, Goto, RingInv, Types, LocalType, CountType, Active
<1>2. curProducer' = node[p] - 1 /\ work[p] = curProducer + 1
  <2>1. /\ node[p] = work[p] + Count(work[p]) /\ work[p] <= curProducer + 1
        /\ curProducer < work[p] /\ work[p] < N
    BY <1>1, ConstAssumption DEF CursorInv, ReadInv, RingInv, WorkInv
  <2>2. Count(work[p]) \in Nat
    BY <1>1, <2>1, CountOK
  <2> QED
    BY <1>1, <2>1, <2>2 DEF Publish
<1>3. \A n \in Nodes : Whole(n)' <=> Whole(n)
  BY <1>1 DEF Whole, ringVars
<1>4. \A n \in Nodes : Published(n)' => Published(n) \/ Own(p, n)
  BY <1>1, <1>2, ConstAssumption DEF Published, Own, Nodes
<1> USE DEF mainVars, labelVars
<1>5. PublishedInv'
  BY <1>1, <1>3, <1>4 DEF LabelInv, PublishedInv, OwnInv, Laying
<1>6. OwnInv'
  BY <1>1, <1>3 DEF LabelInv, OwnInv, Own, Active
<1>7. ASSUME NEW q \in Producers PROVE PartInv(q)'
  BY <1>1 DEF LabelInv, PartInv, ringVars
<1>8. LayerInv' /\ StoredInv'
  BY <1>1 DEF LabelInv, LayerInv, StoredInv, ExpReady, Laying
<1> QED
  BY <1>5, <1>6, <1>7, <1>8 DEF LabelInv

\* What a producer in fill_buffer writes stays in the slot of its node, so every
\* other node in the ring keeps what it has.
LEMMA LabelsOthers ==
  ASSUME WindowHyp, RingInv, CursorInv, LabelInv, NEW p \in Producers, pc[p] \in Filling,
         UNCHANGED <<mainVars, consumer, curProducer, expLabels, stored, work>>,
         \A q \in Producers \ {p} : UNCHANGED <<pc[q], node[q], base[q]>>,
         \A s \in Slots \ {SlotOf(node[p])} : UNCHANGED <<slotNode[s], slotData[s], missing[s]>>,
         \A n \in Nodes \ {node[p]} : UNCHANGED layerLabels[n],
         layerLabels'[node[p]] = PreHash
  PROVE  /\ PublishedInv' /\ LayerInv' /\ StoredInv'
         /\ \A q \in Producers \ {p} : PartInv(q)'
         /\ \A q \in Producers, n \in Nodes \ {0} : Own(q, n) =>
               (n <= consumer + Lookahead - 1 /\ Whole(n) /\ layerLabels[n] = PreHash)'
<1>1. /\ Laying /\ node[p] \in 1 .. N - 1 /\ consumer <= node[p] /\ curProducer < node[p]
      /\ consumer \in Nat /\ curProducer \in Nat
  BY RunsWhileLaying, NextWindow, ConstAssumption
  DEF Busy, Filling, RingInv, WorkInv, Active, Types, LocalType, CountType
<1>2. ASSUME NEW n \in Nodes \ {0}, Published(n) \/ \E q \in Producers : Own(q, n), Whole(n)
      PROVE  n # node[p] /\ Whole(n)'
  BY <1>2, FillApart, SlotInRing, ConstAssumption DEF Whole, Nodes
<1> USE DEF mainVars
<1>3. PublishedInv'
  BY <1>1, <1>2 DEF LabelInv, PublishedInv, Published, Laying
<1>4. ASSUME NEW q \in Producers, NEW n \in Nodes \ {0}, Own(q, n)
      PROVE  (n <= consumer + Lookahead - 1 /\ Whole(n) /\ layerLabels[n] = PreHash)'
  BY <1>2, <1>4 DEF LabelInv, OwnInv
<1>5. ASSUME NEW q \in Producers \ {p} PROVE PartInv(q)'
  <2> SUFFICES ASSUME pc[q] \in {"fillBase", "fillExp"}
               PROVE  PartInv(q)'
    BY DEF PartInv
  <2>1. node[q] # node[p] /\ SlotOf(node[q]) # SlotOf(node[p])
    BY FillsApart DEF Filling
  <2>2. node[q] \in Nodes \ {0} /\ SlotOf(node[q]) \in Slots
    BY RingInvTypeOK, SlotInRing, ConstAssumption DEF TypeOK, Busy, Filling, Nodes
  <2> QED
    BY <2>1, <2>2 DEF LabelInv, PartInv
<1>6. LayerInv'
  <2>1. mainPc = "incr" => i <= curProducer /\ i \in Nodes
    BY ConstAssumption DEF RingInv, MainInv, Running, Types, MainType, CountType, Nodes
  <2> QED
    BY <1>1, <2>1, ConstAssumption DEF LabelInv, LayerInv, Bad, PreHash, Laying, Nodes
<1>7. StoredInv'
  BY <1>1 DEF LabelInv, StoredInv, ExpReady, Laying
<1> QED
  BY <1>3, <1>4, <1>5, <1>6, <1>7

\* fill_buffer begins: the slot is taken and its memory pre-hashed.
LEMMA LabelsFillHead ==
  ASSUME WindowHyp, RingInv, CursorInv, LabelInv, NEW p \in Producers, FillHead(p)
  PROVE  LabelInv'
<1> DEFINE s == SlotOf(node[p])
<1>1. /\ pc[p] = "fill" /\ pc[p] \in Filling /\ node[p] \in Nodes \ {0} /\ s \in Slots
      /\ base[p] = 1
  BY RingInvTypeOK, SlotInRing, ConstAssumption
  DEF FillHead, Goto, TypeOK, Busy, Filling, Nodes, RingInv, BaseInv
<1>2. /\ slotNode \in [Slots -> Nodes] /\ slotData \in [Slots -> SUBSET (0 .. K)]
      /\ missing \in [Slots -> SUBSET Base] /\ layerLabels \in [Nodes -> Labels]
      /\ pc \in [Producers -> Pcs]
  BY DEF RingInv, Types, RingType, LabelType, LocalType
<1>3. /\ UNCHANGED <<mainVars, consumer, curProducer, expLabels, stored, work, node, base>>
      /\ \A q \in Producers \ {p} : UNCHANGED pc[q]
      /\ \A r \in Slots \ {s} : UNCHANGED <<slotNode[r], slotData[r], missing[r]>>
      /\ \A n \in Nodes \ {node[p]} : UNCHANGED layerLabels[n]
      /\ layerLabels'[node[p]] = PreHash /\ slotNode'[s] = node[p]
      /\ pc'[p] \in {"fillBase", "fillExp"}
  BY <1>1, <1>2 DEF FillHead, Goto, countVars
<1>4. /\ K \in missing'[s]
      /\ pc'[p] = "fillExp" => Base \subseteq missing'[s]
  BY <1>1, <1>2, ConstAssumption DEF FillHead, Goto, Base
<1>5. PartInv(p)'
  BY <1>1, <1>3, <1>4, ConstAssumption DEF PartInv, Base
<1>6. \A q \in Producers, n \in Nodes : Own(q, n)' => Own(q, n)
  BY <1>1, <1>3 DEF Own, Active
<1> HIDE DEF s
<1>7. /\ PublishedInv' /\ LayerInv' /\ StoredInv'
      /\ \A q \in Producers \ {p} : PartInv(q)'
      /\ \A q \in Producers, n \in Nodes \ {0} : Own(q, n) =>
            (n <= consumer + Lookahead - 1 /\ Whole(n) /\ layerLabels[n] = PreHash)'
  BY <1>1, <1>3, LabelsOthers DEF s
<1> QED
  BY <1>5, <1>6, <1>7 DEF LabelInv, OwnInv

\* fill_buffer copies one base parent, or leaves it to the hashing thread.
LEMMA LabelsFillBase ==
  ASSUME WindowHyp, RingInv, CursorInv, LabelInv, SlicesMapped, NEW p \in Producers, FillBase(p)
  PROVE  LabelInv'
<1> DEFINE s == SlotOf(node[p])
<1>1. /\ pc[p] = "fillBase" /\ pc[p] \in Filling /\ node[p] \in Nodes \ {0} /\ s \in Slots
      /\ base[p] \in Nat \ {0} /\ base[p] < K /\ base[p] \in Base
  BY RingInvTypeOK, SlotInRing, ConstAssumption
  DEF FillBase, Goto, TypeOK, Busy, Filling, Nodes, RingInv, BaseInv, Types, LocalType, Base
<1>2. /\ slotData \in [Slots -> SUBSET (0 .. K)] /\ missing \in [Slots -> SUBSET Base]
      /\ pc \in [Producers -> Pcs] /\ base \in [Producers -> Nat \ {0}] /\ consumer \in Nat
  BY DEF RingInv, Types, RingType, LocalType, CountType
<1>3. /\ UNCHANGED <<mainVars, consumer, curProducer, layerLabels, expLabels, stored, work, node,
                     slotNode>>
      /\ \A q \in Producers \ {p} : UNCHANGED <<pc[q], base[q]>>
      /\ \A r \in Slots \ {s} : UNCHANGED <<slotData[r], missing[r]>>
      /\ pc'[p] = (IF base[p] + 1 = K THEN "fillExp" ELSE "fillBase") /\ base'[p] = base[p] + 1
  BY <1>1, <1>2 DEF FillBase, Goto, countVars, labelVars
<1>4. /\ missing[s] \subseteq missing'[s] /\ slotData[s] \subseteq slotData'[s]
      /\ base[p] \in missing'[s] \cup slotData'[s]
  <2>1. SliceOk(p)
    BY <1>1 DEF SlicesMapped
  <2>2. Parent[node[p]][base[p]] \in Nodes
    BY <1>1, ParentAssumption
  <2>3. ~NotReady(Parent[node[p]][base[p]]) => layerLabels[Parent[node[p]][base[p]]] = layer
    BY <1>1, <1>2, <2>2, RunsWhileLaying, ConstAssumption
    DEF NotReady, LabelInv, LayerInv, Nodes
  <2> QED
    BY <1>1, <1>2, <2>1, <2>3 DEF FillBase
<1>5. PartInv(p)'
  <2>1. /\ slotNode[s] = node[p] /\ layerLabels[node[p]] = PreHash /\ K \in missing[s]
        /\ \A k \in Base : k < base[p] => k \in missing[s] \cup slotData[s]
    BY <1>1 DEF LabelInv, PartInv
  <2>2. \A k \in Base : k < base[p] + 1 => k \in missing'[s] \cup slotData'[s]
    BY <1>1, <1>4, <2>1 DEF Base
  <2>3. base[p] + 1 = K => \A k \in Base : k \in missing'[s] \cup slotData'[s]
    BY <1>1, <1>4, <2>1, <2>2, ConstAssumption DEF Base
  <2> QED
    BY <1>3, <1>4, <2>1, <2>2, <2>3 DEF PartInv
<1>6. \A q \in Producers, n \in Nodes : Own(q, n)' => Own(q, n)
  BY <1>1, <1>3 DEF Own, Active
<1>7. layerLabels[node[p]] = PreHash
  BY <1>1 DEF LabelInv, PartInv
<1> HIDE DEF s
<1>8. /\ PublishedInv' /\ LayerInv' /\ StoredInv'
      /\ \A q \in Producers \ {p} : PartInv(q)'
      /\ \A q \in Producers, n \in Nodes \ {0} : Own(q, n) =>
            (n <= consumer + Lookahead - 1 /\ Whole(n) /\ layerLabels[n] = PreHash)'
  BY <1>1, <1>3, <1>7, LabelsOthers DEF s
<1> QED
  BY <1>5, <1>6, <1>8 DEF LabelInv, OwnInv

\* fill_buffer copies the expander parents: the node is complete.
LEMMA LabelsFillExp ==
  ASSUME WindowHyp, RingInv, CursorInv, LabelInv, SlicesMapped, NEW p \in Producers, FillExp(p)
  PROVE  LabelInv'
<1> DEFINE s == SlotOf(node[p])
<1>1. /\ pc[p] = "fillExp" /\ pc[p] \in Filling /\ pc[p] \in Busy /\ Active(p) /\ Laying
      /\ node[p] \in Nodes \ {0} /\ s \in Slots /\ node[p] \in Nat /\ work[p] \in Nat
  BY RingInvTypeOK, SlotInRing, RunsWhileLaying, ConstAssumption
  DEF FillExp, Goto, TypeOK, LocalType, Busy, Filling, Nodes, Active
<1>2. /\ slotData \in [Slots -> SUBSET (0 .. K)] /\ node \in [Producers -> Nat]
      /\ pc \in [Producers -> Pcs] /\ base \in [Producers -> Nat \ {0}]
  BY DEF RingInv, Types, RingType, LocalType
<1>3. /\ UNCHANGED <<mainVars, consumer, curProducer, layerLabels, expLabels, stored, work,
                     slotNode, missing>>
      /\ \A q \in Producers \ {p} : UNCHANGED <<pc[q], node[q], base[q]>>
      /\ \A r \in Slots \ {s} : UNCHANGED slotData[r]
      /\ pc'[p] \in {"room", "turn"} /\ node'[p] = node[p] + 1
  BY <1>1, <1>2 DEF FillExp, Goto, countVars, labelVars
<1>4. slotData'[s] = slotData[s] \cup {Exp}
  BY <1>1, <1>2 DEF FillExp, SlicesMapped, LabelInv, StoredInv, Laying
<1>5. /\ slotNode[s] = node[p] /\ layerLabels[node[p]] = PreHash
      /\ \A k \in Base : k \in missing[s] \cup slotData[s]
  BY <1>1 DEF LabelInv, PartInv
<1>6. node[p] <= consumer + Lookahead - 1
  BY <1>1 DEF RingInv, WorkInv
<1>8. ASSUME NEW n \in Nodes, n = node[p]
      PROVE  (n <= consumer + Lookahead - 1 /\ Whole(n) /\ layerLabels[n] = PreHash)'
  BY <1>3, <1>4, <1>5, <1>6, <1>8 DEF Whole
<1>9. \A q \in Producers, n \in Nodes : Own(q, n)' => Own(q, n) \/ n = node[p]
  BY <1>1, <1>2, <1>3, ConstAssumption DEF Own, Active, Nodes
<1>10. PartInv(p)'
  BY <1>3 DEF PartInv
<1> HIDE DEF s
<1>11. /\ PublishedInv' /\ LayerInv' /\ StoredInv'
       /\ \A q \in Producers \ {p} : PartInv(q)'
       /\ \A q \in Producers, n \in Nodes \ {0} : Own(q, n) =>
             (n <= consumer + Lookahead - 1 /\ Whole(n) /\ layerLabels[n] = PreHash)'
  BY <1>1, <1>3, <1>5, LabelsOthers DEF s
<1> QED
  BY <1>8, <1>9, <1>10, <1>11 DEF LabelInv, OwnInv

----------------------------------------------------------------------------
(* The theorems                                                             *)

\* Every step preserves the invariant of the labels.
LEMMA LabelsNext ==
  ASSUME WindowHyp, RingInv, CursorInv, LabelInv, SlicesMapped, [Next]_vars
  PROVE  LabelInv'
<1>1. CASE UNCHANGED vars
  <2>1. \A n \in Nodes : Whole(n)' <=> Whole(n)
    BY <1>1 DEF vars, ringVars, Whole
  <2> QED
    BY <1>1, <2>1
    DEF vars, mainVars, localVars, ringVars, labelVars, countVars, LabelInv, PublishedInv,
        Published, OwnInv, Own, Active, PartInv, LayerInv, StoredInv, ExpReady, Laying
<1>2. CASE Main
  BY <1>2, LabelsSkip, LabelsBegin, LabelsMain, LabelsConsume, LabelsJoin DEF Main
<1>3. ASSUME NEW p \in Producers, Runner(p)
      PROVE  LabelInv'
  BY <1>3, LabelsQuiet, LabelsPublish, LabelsFillHead, LabelsFillBase, LabelsFillExp
  DEF Runner, SliceStep
<1> QED
  BY <1>1, <1>2, <1>3 DEF Next, Terminated

\* The invariant holds in every state of every execution.
THEOREM LabelsCorrect ==
  ASSUME WindowHyp
  PROVE  Spec => [](RingInv /\ CursorInv /\ LabelInv)
<1>1. RingInv /\ CursorInv /\ SlicesMapped /\ LabelInv /\ [Next]_vars => LabelInv'
  BY LabelsNext
<1> QED
  BY <1>1, LabelsInit, CursorCorrect, SlicesStayMapped, PTL DEF Spec

\* PublishedReady: what the hashing thread finds published is complete in its ring
\* slot, with the parents that were not ready yet marked as missing.
THEOREM PublishedAreReady ==
  ASSUME WindowHyp
  PROVE  Spec => []PublishedReady
<1>1. ASSUME RingInv, LabelInv PROVE PublishedReady
  <2> SUFFICES ASSUME Running, NEW n \in Nodes \ {0}, i < n, n <= curProducer
               PROVE  Whole(n) /\ layerLabels[n] = PreHash
    BY DEF PublishedReady, Whole
  <2>1. Laying /\ consumer = i /\ i \in Nat /\ n \in Nat
    BY <1>1, ConstAssumption DEF Running, Laying, RingInv, MainInv, Types, MainType, Nodes
  <2> QED
    BY <1>1, <2>1 DEF LabelInv, PublishedInv, Published
<1>2. RingInv /\ LabelInv => PublishedReady
  BY <1>1
<1> QED
  BY <1>2, LabelsCorrect, PTL

\* LabelsRight: no label is computed from a stale or half written input, a joined
\* layer is complete, and in the end every layer is on disk.
THEOREM LabelsAreRight ==
  ASSUME WindowHyp
  PROVE  Spec => []LabelsRight
<1>1. ASSUME RingInv, LabelInv PROVE LabelsRight
  <2>1. \A n \in Nodes : layerLabels[n] # Bad /\ expLabels[n] # Bad
    BY <1>1 DEF LabelInv, LayerInv
  <2>2. mainPc = "join" => \A n \in Nodes : layerLabels[n] = layer
    BY <1>1, ConstAssumption DEF LabelInv, LayerInv, Laying, Nodes
  <2>3. mainPc = "done" => stored = 1 .. Layers /\ \A n \in Nodes : expLabels[n] = Layers
    <3> SUFFICES ASSUME mainPc = "done"
                 PROVE  stored = 1 .. Layers /\ \A n \in Nodes : expLabels[n] = Layers
      OBVIOUS
    <3>1. stored \subseteq 1 .. Layers
      BY <1>1 DEF RingInv, Types, LabelType
    <3>2. ASSUME NEW l \in 1 .. Layers PROVE l \in stored
      BY <1>1, ConstAssumption DEF LabelInv, StoredInv
    <3> QED
      BY <1>1, <3>1, <3>2 DEF LabelInv, StoredInv
  <2> QED
    BY <2>1, <2>2, <2>3 DEF LabelsRight
<1>2. RingInv /\ LabelInv => LabelsRight
  BY <1>1
<1> QED
  BY <1>2, LabelsCorrect, PTL

----------------------------------------------------------------------------
(* The refinement of SDR                                                    *)

\* The labels that are final in the layer being laid are those the hashing thread
\* has written; all other memory holds labels of earlier layers.
FreshInv ==
    /\ Laying => \A n \in Nodes : consumer <= n =>
          \/ layerLabels[n] < layer
          \/ mainPc = "store" /\ n = 0
          \/ mainPc = "incr" /\ n = i
    /\ mainPc = "begin" => \A n \in Nodes : layerLabels[n] < layer
    /\ mainPc # "done" => \A n \in Nodes : expLabels[n] < layer

\* Every step keeps FreshInv.
LEMMA FreshNext ==
  ASSUME WindowHyp, RingInv, CursorInv, LabelInv, SlicesMapped, FreshInv, [Next]_vars
  PROVE  FreshInv'
<1>0. /\ layer \in 1 .. Layers /\ consumer \in Nat /\ curProducer \in Nat /\ i \in Nat
      /\ layerLabels \in [Nodes -> Labels] /\ expLabels \in [Nodes -> Labels]
      /\ \A l \in Labels : l \in Int
  BY ConstAssumption DEF RingInv, Types, MainType, CountType, LabelType, Labels, PreHash, Bad
<1>1. CASE UNCHANGED <<mainPc, i, layer, consumer, layerLabels, expLabels>>
  BY <1>1 DEF FreshInv, Laying
<1>2. CASE SkipLayer
  <2>1. expLabels' = [n \in Nodes |-> layer]
    BY <1>2 DEF SkipLayer, LabelInv, StoredInv, LayerRead
  <2> QED
    BY <1>0, <1>2, <2>1, ConstAssumption DEF SkipLayer, FreshInv, Laying
<1>3. CASE BeginLayer
  BY <1>0, <1>3, ConstAssumption DEF BeginLayer, FreshInv, Laying, labelVars
<1>4. CASE NodeZero
  BY <1>0, <1>4, ConstAssumption
  DEF NodeZero, FreshInv, Laying, countVars, RingInv, MainInv, Nodes
<1>5. CASE StoreConsumer
  BY <1>0, <1>5, ConstAssumption
  DEF StoreConsumer, FreshInv, Laying, labelVars, RingInv, MainInv, Nodes
<1>6. CASE LoadProducer \/ Refill
  BY <1>0, <1>6 DEF LoadProducer, Refill, FreshInv, Laying, labelVars, countVars
<1>7. CASE Hash
  BY <1>0, <1>7, ConstAssumption
  DEF Hash, FreshInv, Laying, countVars, RingInv, MainInv, Running, Nodes
<1>8. CASE IncrementConsumer
  BY <1>0, <1>8, ConstAssumption
  DEF IncrementConsumer, FreshInv, Laying, labelVars, RingInv, MainInv, Running, Nodes
<1>9. CASE Join
  <2>1. \A n \in Nodes : layerLabels[n] = layer
    BY <1>9, ConstAssumption DEF Join, LabelInv, LayerInv, Laying, Nodes
  <2> QED
    BY <1>0, <1>9, <2>1, ConstAssumption DEF Join, FreshInv, Laying
<1>10. ASSUME NEW p \in Producers, Runner(p)
       PROVE  FreshInv'
  <2>1. CASE FillHead(p)
    <3>1. UNCHANGED <<mainPc, i, layer, consumer, expLabels>>
      BY <2>1 DEF FillHead, mainVars, countVars
    <3>2. layerLabels' = [layerLabels EXCEPT ![node[p]] = PreHash]
      BY <2>1 DEF FillHead
    <3>3. Laying
      BY <2>1, RunsWhileLaying DEF FillHead, Goto
    <3> QED
      BY <1>0, <3>1, <3>2, <3>3, ConstAssumption DEF FreshInv, Laying, PreHash
  <2>2. CASE ~FillHead(p)
    <3>1. UNCHANGED <<mainPc, i, layer, consumer, layerLabels, expLabels>>
      BY <1>10, <2>2
      DEF Runner, Grab, Room, CasCur, CasSafe, LoadSafe, Selected, NotSelected, WaitConsumer,
          Remap, Bump, Await, Slice, FillBase, FillExp, Turn, Publish, mainVars, countVars,
          labelVars
    <3> QED
      BY <1>1, <3>1
  <2> QED
    BY <2>1, <2>2
<1> QED
  BY <1>1, <1>2, <1>3, <1>4, <1>5, <1>6, <1>7, <1>8, <1>9, <1>10
  DEF Next, Main, Terminated, vars, mainVars, countVars, labelVars

\* The set that implements SDR's variable labelled.
FinalNodes == IF mainPc = "done" THEN {n \in Nodes : expLabels[n] = layer}
                                 ELSE {n \in Nodes : layerLabels[n] = layer}

\* Each step labels one more node, whose parents are labelled, starts the next layer
\* after the last node of this one, or leaves the labelled nodes as they are.
LEMMA StepOfSDR ==
  ASSUME WindowHyp, Generated = {}, RingInv, CursorInv, LabelInv, SlicesMapped, FreshInv,
         [Next]_vars
  PROVE  \/ \E n \in Nodes : /\ n \notin FinalNodes
                             /\ n > 0 => \A k \in Base : Parent[n][k] \in FinalNodes
                             /\ FinalNodes' = FinalNodes \cup {n}
                             /\ UNCHANGED layer
         \/ FinalNodes = Nodes /\ layer < Layers /\ layer' = layer + 1 /\ FinalNodes' = {}
         \/ UNCHANGED <<layer, FinalNodes>>
<1>0. /\ layer \in 1 .. Layers /\ consumer \in Nat /\ curProducer \in Nat /\ i \in Nat
      /\ layerLabels \in [Nodes -> Labels] /\ expLabels \in [Nodes -> Labels]
      /\ \A l \in Labels : l \in Int
  BY ConstAssumption DEF RingInv, Types, MainType, CountType, LabelType, Labels, PreHash, Bad
<1>1. CASE UNCHANGED <<layer, layerLabels, expLabels>> /\ mainPc # "done" /\ mainPc' # "done"
  BY <1>1 DEF FinalNodes
<1>2. CASE NodeZero
  <2>1. /\ layerLabels' = [layerLabels EXCEPT ![0] = layer] /\ UNCHANGED layer
        /\ mainPc = "node0" /\ mainPc' = "store" /\ consumer = 0
    BY <1>2 DEF NodeZero, RingInv, MainInv
  <2>2. 0 \in Nodes /\ 0 \notin FinalNodes
    BY <1>0, <2>1, ConstAssumption DEF FreshInv, Laying, FinalNodes, Nodes
  <2>3. FinalNodes' = FinalNodes \cup {0}
    BY <1>0, <2>1, <2>2 DEF FinalNodes
  <2> QED
    BY <2>1, <2>2, <2>3
<1>3. CASE Hash
  <2>1. /\ layerLabels' = [layerLabels EXCEPT ![i] = layer] /\ UNCHANGED layer
        /\ mainPc = "hash" /\ mainPc' = "incr"
    BY <1>3, HashInputs DEF Hash
  <2>2. consumer = i /\ i \in 1 .. N - 1 /\ i \in Nodes \ {0} /\ Laying
    BY <2>1, ConstAssumption DEF RingInv, MainInv, Running, Nodes, Laying
  <2>3. i \notin FinalNodes
    BY <1>0, <2>1, <2>2 DEF FreshInv, FinalNodes
  <2>4. ASSUME NEW k \in Base PROVE Parent[i][k] \in FinalNodes
    BY <2>1, <2>2, ParentAssumption, ConstAssumption
    DEF LabelInv, LayerInv, FinalNodes, Nodes
  <2>5. FinalNodes' = FinalNodes \cup {i}
    BY <1>0, <2>1, <2>2 DEF FinalNodes
  <2> QED
    BY <2>1, <2>2, <2>3, <2>4, <2>5
<1>4. CASE Join
  <2>1. /\ mainPc = "join" /\ layerLabels' = expLabels /\ expLabels' = layerLabels
    BY <1>4 DEF Join
  <2>2. \A n \in Nodes : layerLabels[n] = layer
    BY <2>1, ConstAssumption DEF LabelInv, LayerInv, Laying, Nodes
  <2>3. FinalNodes = Nodes
    BY <2>1, <2>2 DEF FinalNodes
  <2>4. CASE layer # Layers
    <3>1. layer' = layer + 1 /\ mainPc' = "begin"
      BY <1>4, <2>4 DEF Join
    <3>2. FinalNodes' = {}
      BY <1>0, <2>1, <3>1 DEF FinalNodes, FreshInv
    <3> QED
      BY <1>0, <2>3, <2>4, <3>1, <3>2, ConstAssumption
  <2>5. CASE layer = Layers
    <3>1. layer' = layer /\ mainPc' = "done"
      BY <1>4, <2>5 DEF Join
    <3>2. FinalNodes' = Nodes
      BY <2>1, <2>2, <3>1 DEF FinalNodes
    <3> QED
      BY <2>3, <3>1, <3>2
  <2> QED
    BY <2>4, <2>5
<1>5. CASE BeginLayer \/ StoreConsumer \/ LoadProducer \/ Refill \/ IncrementConsumer
  BY <1>1, <1>5
  DEF BeginLayer, StoreConsumer, LoadProducer, Refill, IncrementConsumer, labelVars
<1>6. ASSUME NEW p \in Producers, Runner(p)
      PROVE  UNCHANGED <<layer, FinalNodes>>
  <2>1. UNCHANGED <<layer, mainPc, expLabels>> /\ pc[p] # "done"
    BY <1>6
    DEF Runner, Grab, Room, CasCur, CasSafe, LoadSafe, Selected, NotSelected, WaitConsumer,
        Remap, Bump, Await, Slice, FillHead, FillBase, FillExp, Turn, Publish, mainVars,
        labelVars, Goto
  <2>2. Laying
    BY <2>1, RunsWhileLaying
  <2>3. CASE FillHead(p)
    <3>1. pc[p] \in Busy /\ pc[p] # "done" /\ Active(p)
      BY <2>3 DEF FillHead, Goto, Busy, Filling, Active
    <3>2. /\ node[p] \in Nodes \ {0} /\ consumer <= node[p] /\ curProducer < node[p]
      <4>1. node[p] \in Nat \ {0} /\ node[p] <= N - 1 /\ consumer <= node[p]
        BY <3>1, NextWindow
      <4>2. curProducer < work[p] /\ work[p] <= node[p] /\ work[p] \in Nat
        BY <3>1 DEF RingInv, WorkInv, Types, LocalType
      <4> QED
        BY <1>0, <4>1, <4>2, ConstAssumption DEF Nodes
    <3>3. mainPc = "incr" => i <= curProducer
      BY DEF RingInv, MainInv, Types, MainType, CountType
    <3>4. layerLabels[node[p]] < layer
      BY <1>0, <2>2, <3>2, <3>3, ConstAssumption DEF FreshInv, Nodes
    <3>5. layerLabels' = [layerLabels EXCEPT ![node[p]] = PreHash]
      BY <2>3 DEF FillHead
    <3>6. \A n \in Nodes : layerLabels'[n] = layer <=> layerLabels[n] = layer
      BY <1>0, <3>2, <3>4, <3>5 DEF PreHash
    <3> QED
      BY <2>1, <2>2, <3>6 DEF FinalNodes, Laying
  <2>4. CASE ~FillHead(p)
    <3>1. UNCHANGED layerLabels
      BY <1>6, <2>4
      DEF Runner, Grab, Room, CasCur, CasSafe, LoadSafe, Selected, NotSelected, WaitConsumer,
          Remap, Bump, Await, Slice, FillBase, FillExp, Turn, Publish, labelVars
    <3> QED
      BY <2>1, <3>1 DEF FinalNodes
  <2> QED
    BY <2>3, <2>4
<1>7. CASE UNCHANGED vars
  BY <1>7 DEF vars, mainVars, labelVars, FinalNodes
<1>8. ~SkipLayer
  BY DEF SkipLayer
<1> QED
  BY <1>2, <1>3, <1>4, <1>5, <1>6, <1>7, <1>8 DEF Next, Main, Terminated

\* ImplementsSDR: threads, ring, windows and strides together label one node after the
\* other, each after its parents, and layer after layer.  (A run that resumes on
\* stored layers skips them, which the definition does not.)
THEOREM MultiImplementsSDR ==
  ASSUME WindowHyp, Generated = {}
  PROVE  Spec => ImplementsSDR
<1>1. Init => FreshInv
  BY ConstAssumption DEF Init, FreshInv, Laying
<1>2. RingInv /\ CursorInv /\ LabelInv /\ SlicesMapped /\ FreshInv /\ [Next]_vars => FreshInv'
  BY FreshNext
<1>3. Init => Abstract!Init
  BY DEF Init, Abstract!Init
<1>4. RingInv /\ CursorInv /\ LabelInv /\ SlicesMapped /\ FreshInv /\ [Next]_vars
         => [Abstract!Next]_(Abstract!sdrVars)
  BY StepOfSDR
  DEF FinalNodes, Abstract!Next, Abstract!LabelNode, Abstract!NextLayer, Abstract!sdrVars,
      Abstract!Nodes, Abstract!Base, Nodes, Base
<1> QED
  BY <1>1, <1>2, <1>3, <1>4, LabelsCorrect, SlicesStayMapped, PTL
  DEF Spec, ImplementsSDR, Abstract!Spec
============================================================================

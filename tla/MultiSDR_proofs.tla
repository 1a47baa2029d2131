--------------------------- MODULE MultiSDR_proofs ---------------------------
(***************************************************************************)
(* Proofs about the ring buffer and the ring cursor of multicore           *)
(* labelling, for every number of nodes, layers and producers and every    *)
(* lookahead, stride and window size.                                      *)
(*                                                                         *)
(* The ring buffer protocol does not depend on the cursor, and its proofs  *)
(* hold with or without spurious CAS failures.  RingInv ties the counters  *)
(* down.                                                                   *)
(*                                                                         *)
(* The proofs about the cursor say which windows of the parent cache are   *)
(* mapped while the producers of multi.rs move the two buffers of          *)
(* CacheReader (memory_handling.rs) on.  CursorInv adds to RingInv what is *)
(* mapped: the window curSafe and one neighbour of it, the one before      *)
(* until a producer in transition replaces it by the one after, which it   *)
(* may do because the consumer has left it.                                *)
(*                                                                         *)
(* WindowHyp is what these theorems ask of the configuration.  No compare  *)
(* and swap fails spuriously (true of x86; the run multi_weak shows        *)
(* SafeIsMapped violated without it).  And the ring is no longer than a    *)
(* window, or there is one producer.  By default the ring has 800 nodes    *)
(* (settings.rs:61) and a window 2048 when encoding, 1024 when decoding    *)
(* (multi.rs:458, :556).                                                   *)
(***************************************************************************)
EXTENDS MultiSDR, TLAPS

----------------------------------------------------------------------------
(* Arithmetic                                                               *)

\* The ring slot of a node exists.
LEMMA SlotInRing ==
  ASSUME NEW n \in Nat \ {0}
  PROVE  SlotOf(n) \in Slots
  BY ConstAssumption DEF SlotOf, Slots

\* Nodes less than lookahead apart have different ring slots.
LEMMA SlotsDiffer ==
  ASSUME NEW a \in Nat \ {0}, NEW b \in Nat \ {0}, a < b, b - a < Lookahead
  PROVE  SlotOf(a) # SlotOf(b)
<1> DEFINE x == a - 1
           y == b - 1
           qx == x \div Lookahead
           qy == y \div Lookahead
<1>1. x = Lookahead * qx + (x % Lookahead) /\ y = Lookahead * qy + (y % Lookahead)
      /\ qx \in Int /\ qy \in Int
  BY ConstAssumption
<1>2. SUFFICES ASSUME x % Lookahead = y % Lookahead
               PROVE  FALSE
  BY DEF SlotOf
<1>3. Lookahead * (qy - qx) = b - a
  BY <1>1, <1>2, ConstAssumption
<1>4. qy - qx >= 1 => Lookahead * (qy - qx) >= Lookahead
  BY <1>1, ConstAssumption
<1>5. qy - qx <= 0 => Lookahead * (qy - qx) <= 0
  BY <1>1, ConstAssumption
<1> QED
  BY <1>1, <1>3, <1>4, <1>5, ConstAssumption

\* A window number is a natural number.
LEMMA WindowNat ==
  ASSUME NEW n \in Nat
  PROVE  Window(n) \in Nat
  BY ConstAssumption DEF Window

\* The stride is positive, and the part of a stride that is below num_nodes is
\* not empty and ends there.
LEMMA CountOK ==
  ASSUME NEW w \in Nat, w < N
  PROVE  /\ Stride \in Nat \ {0} /\ Count(w) \in Nat \ {0}
         /\ Count(w) <= Stride /\ w + Count(w) <= N
  BY ConstAssumption DEF Stride, Count, WindowNodes

----------------------------------------------------------------------------
(* The inductive invariant of the ring                                      *)

\* Producer p has taken a stride of nodes.
Active(p) == pc[p] \notin {"grab", "done"}

\* Where the hashing thread is determines consumer, and what it may read.
MainInv ==
    /\ mainPc \in {"begin", "done"} => \A p \in Producers : pc[p] = "done"
    /\ mainPc = "begin" /\ Layers = 1 => consumer = 0
    /\ mainPc \in {"node0", "store"} => consumer = 0
    /\ Running => consumer = i /\ i \in 1 .. N - 1
    /\ mainPc \in {"refill", "hash", "incr"} => i <= producerVal /\ producerVal <= curProducer
    /\ mainPc \notin {"begin", "done"} => consumer <= curProducer + 1

\* A producer at work holds a stride that is handed out and not yet published.
WorkInv ==
    /\ curProducer < curAwaiting
    /\ \A p \in Producers :
          /\ Active(p) =>
                /\ work[p] \in 1 .. N - 1 /\ curProducer < work[p]
                /\ work[p] + Stride <= curAwaiting
                /\ work[p] <= node[p]
          /\ pc[p] \in Busy \cup {"room"} => node[p] < work[p] + Count(work[p])
          /\ pc[p] \in Busy => node[p] <= consumer + Lookahead - 1
          /\ pc[p] = "publish" => work[p] <= curProducer + 1

\* The strides of different producers do not overlap.
StridesDisjoint ==
    \A p, q \in Producers : p # q /\ Active(p) /\ Active(q) =>
        work[p] + Stride <= work[q] \/ work[q] + Stride <= work[p]

\* The base parent a producer is at.
BaseInv ==
    \A p \in Producers :
        /\ pc[p] = "fillBase" => base[p] < K
        /\ pc[p] \notin {"fillBase", "fillExp"} => base[p] = 1

Types == MainType /\ CountType /\ CursorType /\ LocalType /\ RingType /\ LabelType

\* The inductive invariant.
RingInv == Types /\ MainInv /\ WorkInv /\ StridesDisjoint /\ BaseInv

\* The types the invariant needs to know of, without those of the data.
LEMMA RingInvTypeOK == RingInv => TypeOK
<1> SUFFICES ASSUME RingInv, NEW p \in Producers, pc[p] \in Busy \cup {"room"}
             PROVE  node[p] \in 1 .. N - 1
  BY DEF TypeOK, RingInv, Types
<1>1. Active(p)
  BY DEF Active, Busy, Slicing, Filling
<1>2. work[p] \in 1 .. N - 1 /\ work[p] <= node[p] /\ node[p] < work[p] + Count(work[p])
  BY <1>1 DEF RingInv, WorkInv
<1>3. work[p] + Count(work[p]) <= N /\ Count(work[p]) \in Nat
  BY <1>2, CountOK, ConstAssumption
<1> QED
  BY <1>2, <1>3, ConstAssumption DEF RingInv, Types, LocalType

\* The initial state of label generation satisfies the invariant.
LEMMA RingInit == Init => RingInv
<1> SUFFICES ASSUME Init PROVE RingInv
  OBVIOUS
<1> USE ConstAssumption DEF Init
<1>1. Types
  BY DEF Types, MainType, CountType, CursorType, LocalType, RingType, LabelType,
         MainPcs, Pcs, Labels, Nodes, Slots, Base
<1>2. MainInv /\ WorkInv /\ StridesDisjoint /\ BaseInv
  BY DEF MainInv, WorkInv, StridesDisjoint, BaseInv, Active, Running, Busy, Slicing, Filling
<1> QED
  BY <1>1, <1>2 DEF RingInv

----------------------------------------------------------------------------
(* Steps of the hashing thread                                              *)

\* A layer that is on disk: no thread is running.
LEMMA RingSkipLayer == RingInv /\ SkipLayer => RingInv'
<1> SUFFICES ASSUME RingInv, SkipLayer PROVE RingInv'
  OBVIOUS
<1> USE ConstAssumption DEF RingInv, SkipLayer, localVars, ringVars, cursorVars, countVars
<1>1. MainType' /\ CountType' /\ CursorType' /\ LocalType' /\ RingType'
  BY DEF Types, MainType, CountType, CursorType, LocalType, RingType, MainPcs
<1>2. LabelType'
  BY DEF Types, MainType, LabelType, Labels, LayerRead
<1>3. MainInv'
  BY DEF MainInv, Running, Types, MainType
<1>4. WorkInv' /\ StridesDisjoint' /\ BaseInv'
  BY DEF WorkInv, StridesDisjoint, BaseInv, Active
<1> QED
  BY <1>1, <1>2, <1>3, <1>4 DEF Types

\* A new layer: the producers start afresh on an empty ring.
LEMMA RingBeginLayer == RingInv /\ BeginLayer => RingInv'
<1> SUFFICES ASSUME RingInv, BeginLayer PROVE RingInv'
  OBVIOUS
<1> USE ConstAssumption DEF RingInv, BeginLayer
<1>1. MainType' /\ CountType'
  BY DEF Types, MainType, CountType, MainPcs, FinishReset
<1>2. CursorType'
  BY DEF Types, CursorType, FinishReset, cursorVars
<1>3. LocalType'
  BY DEF Types, LocalType, Pcs
<1>4. RingType' /\ LabelType'
  BY DEF Types, RingType, LabelType, labelVars, Nodes
<1>5. MainInv'
  BY DEF MainInv, FinishReset, Running
<1>6. WorkInv' /\ StridesDisjoint' /\ BaseInv'
  BY DEF MainInv, BaseInv, WorkInv, StridesDisjoint, Active, Busy, Slicing, Filling
<1> QED
  BY <1>1, <1>2, <1>3, <1>4, <1>5, <1>6 DEF Types

\* The steps that only move the hashing thread, or write one label.
LEMMA RingMainLocal ==
  ASSUME RingInv, NodeZero \/ LoadProducer \/ Refill \/ Hash
  PROVE  RingInv'
<1> USE ConstAssumption DEF RingInv
<1>0. UNCHANGED <<localVars, ringVars, cursorVars, countVars, expLabels, stored, layer, i>>
  BY DEF NodeZero, LoadProducer, Refill, Hash, labelVars
<1> USE DEF localVars, ringVars, cursorVars, countVars
<1>1. cwin' \in Nat
  <2>1. Window(1) \in Nat /\ Window(i) \in Nat
    BY WindowNat DEF Types, MainType
  <2>2. \A w \in Nat : w % 2 \in 0 .. 1
    OBVIOUS
  <2> QED
    BY <2>1, <2>2
    DEF NodeZero, LoadProducer, Refill, Hash, Types, MainType, CursorType
<1>2. MainType'
  BY <1>0, <1>1
  DEF NodeZero, LoadProducer, Refill, Hash, Types, MainType, CountType, MainPcs
<1>3. layerLabels' \in [Nodes -> Labels]
  BY DEF NodeZero, LoadProducer, Refill, Hash, labelVars, Types, LabelType, MainType, Labels
<1>4. Types'
  BY <1>0, <1>2, <1>3
  DEF Types, CountType, CursorType, LocalType, RingType, LabelType
<1>5. MainInv'
  BY <1>0
  DEF NodeZero, LoadProducer, Refill, Hash, MainInv, Running, Types, CountType, MainType
<1>6. WorkInv' /\ StridesDisjoint' /\ BaseInv'
  BY <1>0 DEF WorkInv, StridesDisjoint, BaseInv, Active
<1> QED
  BY <1>4, <1>5, <1>6

\* The steps that advance the consumer.
LEMMA RingConsume ==
  ASSUME RingInv, StoreConsumer \/ IncrementConsumer
  PROVE  RingInv'
<1> USE ConstAssumption DEF RingInv
<1>0. UNCHANGED <<localVars, ringVars, labelVars, cursorVars, curProducer, curAwaiting,
                  layer, producerVal, cwin>>
  BY DEF StoreConsumer, IncrementConsumer
<1> USE DEF localVars, ringVars, cursorVars, labelVars
<1>1. consumer' \in Nat /\ consumer <= consumer' /\ consumer' \in 0 .. N /\ i' \in 0 .. N
  BY DEF StoreConsumer, IncrementConsumer, MainInv, Running, Types, CountType, MainType
<1>2. Types'
  BY <1>0, <1>1
  DEF StoreConsumer, IncrementConsumer, Types, MainType, CountType, CursorType, LocalType,
      RingType, LabelType, MainPcs
<1>3. MainInv'
  BY <1>0, <1>1
  DEF StoreConsumer, IncrementConsumer, MainInv, Running, Types, CountType, MainType
<1>4. WorkInv'
  BY <1>0, <1>1 DEF WorkInv, Active, Types, CountType, LocalType
<1>5. StridesDisjoint' /\ BaseInv'
  BY <1>0 DEF StridesDisjoint, BaseInv, Active
<1> QED
  BY <1>2, <1>3, <1>4, <1>5

\* The end of a layer.
LEMMA RingJoin ==
  ASSUME RingInv, Join
  PROVE  RingInv'
<1> USE ConstAssumption DEF RingInv, Join, localVars, ringVars, countVars
<1>1. MainType' /\ CountType' /\ CursorType'
  BY DEF Types, MainType, CountType, CursorType, MainPcs
<1>2. LocalType' /\ RingType'
  BY DEF Types, LocalType, RingType
<1>3. LabelType'
  BY DEF Types, LabelType, MainType
<1>4. MainInv'
  BY DEF MainInv, Running, Types, MainType
<1>5. WorkInv' /\ StridesDisjoint' /\ BaseInv'
  BY DEF WorkInv, StridesDisjoint, BaseInv, Active
<1> QED
  BY <1>1, <1>2, <1>3, <1>4, <1>5 DEF Types

----------------------------------------------------------------------------
(* Steps of a producer                                                      *)

\* slice_at: the cursor and the buffers change, the stride does not.
SliceStep(p) == CasCur(p) \/ CasSafe(p) \/ LoadSafe(p) \/ Selected(p) \/ NotSelected(p)
                   \/ WaitConsumer(p) \/ Remap(p) \/ Bump(p) \/ Await(p) \/ Slice(p)

\* Finding its slice of the parents leaves the stride of a producer as it is.
LEMMA RingSlice ==
  ASSUME RingInv, NEW p \in Producers, SliceStep(p)
  PROVE  RingInv'
<1> USE ConstAssumption DEF RingInv
<1>0. /\ UNCHANGED <<mainVars, work, node, base, ringVars, labelVars, countVars>>
      /\ pc[p] \in Slicing
      /\ \E to \in Busy \ {"fillBase", "fillExp"} : pc' = [pc EXCEPT ![p] = to]
  BY DEF SliceStep, CasCur, CasSafe, LoadSafe, Selected, NotSelected, WaitConsumer, Remap,
         Bump, Await, Slice, Goto, Busy, Slicing, Filling
<1> USE DEF mainVars, ringVars, labelVars, countVars
<1>1. Window(node[p]) \in Nat /\ Window(node[p]) % 2 \in 0 .. 1
  BY WindowNat DEF Types, LocalType
<1>2. CursorType' /\ seen' \in [Producers -> Nat] /\ held' \in [Producers -> Nat]
  <2> USE DEF Types, CursorType, LocalType, cursorVars
  <2>1. CASE CasCur(p) \/ CasSafe(p)
    BY <2>1 DEF CasCur, CasSafe
  <2>2. CASE LoadSafe(p) \/ Slice(p)
    BY <2>2, <1>1 DEF LoadSafe, Slice, CursorSeen
  <2>3. CASE Selected(p) \/ NotSelected(p) \/ Bump(p) \/ Await(p)
    BY <2>3 DEF Selected, NotSelected, Bump, Await
  <2>4. CASE WaitConsumer(p) \/ Remap(p)
    BY <2>4, <1>1 DEF WaitConsumer, Remap, RearBuf
  <2> QED
    BY <2>1, <2>2, <2>3, <2>4 DEF SliceStep
<1>3. LocalType'
  BY <1>0, <1>2 DEF Types, LocalType, Pcs
<1>4. Types'
  BY <1>0, <1>2, <1>3 DEF Types, MainType, CountType, RingType, LabelType
<1>5. MainInv'
  BY <1>0 DEF MainInv, Running, Slicing, Types, LocalType
<1>6. WorkInv' /\ StridesDisjoint'
  BY <1>0
  DEF WorkInv, StridesDisjoint, Active, Types, LocalType, Busy, Slicing, Filling
<1>7. BaseInv'
  BY <1>0 DEF BaseInv, Types, LocalType, Busy, Slicing, Filling
<1> QED
  BY <1>4, <1>5, <1>6, <1>7

\* A producer takes the first stride that is not handed out yet.
LEMMA RingGrab ==
  ASSUME RingInv, NEW p \in Producers, Grab(p)
  PROVE  RingInv'
<1> USE ConstAssumption DEF RingInv, Grab, Goto
<1>0. Stride \in Nat \ {0}
  BY DEF Stride, WindowNodes
<1>1. Types'
  BY <1>0
  DEF Types, MainType, CountType, CursorType, LocalType, RingType, LabelType, Pcs,
      mainVars, ringVars, labelVars, cursorVars
<1>2. MainInv'
  BY DEF MainInv, Running, mainVars, Types, LocalType
<1>3. ASSUME ~NoWorkLeft
      PROVE  /\ curAwaiting \in 1 .. N - 1
             /\ Count(curAwaiting) \in Nat \ {0} /\ Count(curAwaiting) <= Stride
  BY <1>3, CountOK DEF NoWorkLeft, Types, CountType
<1>4. WorkInv'
  BY <1>0, <1>3
  DEF WorkInv, Active, Types, LocalType, CountType, Busy, Slicing, Filling
<1>5. StridesDisjoint'
  BY <1>0 DEF WorkInv, StridesDisjoint, Active, Types, LocalType, CountType
<1>6. BaseInv'
  BY DEF BaseInv, Types, LocalType
<1> QED
  BY <1>1, <1>2, <1>4, <1>5, <1>6

\* The ring has room for the producer's node; or its turn to publish has come.
LEMMA RingRoomTurn ==
  ASSUME RingInv, NEW p \in Producers, Room(p) \/ Turn(p)
  PROVE  RingInv'
<1> USE ConstAssumption DEF RingInv
<1>0. /\ UNCHANGED <<mainVars, work, node, base, seen, held, ringVars, labelVars, cursorVars,
                     countVars>>
      /\ \/ /\ pc[p] = "room" /\ HasRoom(p)
            /\ \E to \in Slicing : pc' = [pc EXCEPT ![p] = to]
         \/ /\ pc[p] = "turn" /\ MyTurn(p)
            /\ pc' = [pc EXCEPT ![p] = "publish"]
  BY DEF Room, Turn, Goto, Slicing
<1> USE DEF mainVars, ringVars, labelVars, cursorVars, countVars
<1>1. Types'
  BY <1>0
  DEF Types, MainType, CountType, CursorType, LocalType, RingType, LabelType, Pcs, Busy
<1>2. MainInv'
  BY <1>0 DEF MainInv, Running, Types, LocalType
<1>3. WorkInv' /\ StridesDisjoint'
  BY <1>0
  DEF WorkInv, StridesDisjoint, Active, HasRoom, MyTurn, Types, LocalType, Busy, Slicing,
      Filling
<1>4. BaseInv'
  BY <1>0 DEF BaseInv, Types, LocalType, Slicing
<1> QED
  BY <1>1, <1>2, <1>3, <1>4

\* fill_buffer up to the expander parents: only the node's slot and its label change.
LEMMA RingFill ==
  ASSUME RingInv, NEW p \in Producers, FillHead(p) \/ FillBase(p)
  PROVE  RingInv'
<1> USE ConstAssumption DEF RingInv
<1>0. /\ UNCHANGED <<mainVars, work, node, seen, held, expLabels, stored, cursorVars,
                     countVars>>
      /\ pc[p] \in {"fill", "fillBase"}
      /\ \E to \in {"fillBase", "fillExp"} : pc' = [pc EXCEPT ![p] = to]
  BY DEF FillHead, FillBase, Goto, labelVars
<1>1. node[p] \in Nodes \ {0} /\ SlotOf(node[p]) \in Slots
  BY <1>0, RingInvTypeOK, SlotInRing DEF TypeOK, Busy, Filling, Nodes
<1>2. /\ base[p] \in Nat \ {0} /\ base'[p] \in Nat \ {0}
      /\ pc[p] = "fillBase" => base[p] \in Base
      /\ \E b \in Nat \ {0} : base' = [base EXCEPT ![p] = b]
      /\ pc'[p] = "fillBase" => base'[p] < K
  BY <1>0 DEF FillHead, FillBase, Goto, BaseInv, Base, Types, LocalType
<1>3. RingType'
  <2>1. CASE FillHead(p)
    BY <2>1, <1>1 DEF FillHead, Types, RingType, Base
  <2>2. CASE FillBase(p)
    BY <2>2, <1>0, <1>1, <1>2 DEF FillBase, Goto, Types, RingType, Base
  <2> QED
    BY <2>1, <2>2
<1>4. LabelType'
  BY DEF FillHead, FillBase, labelVars, Types, LabelType, Labels
<1>5. LocalType'
  BY <1>0, <1>2 DEF Types, LocalType, Pcs, Busy, Filling
<1> USE DEF mainVars, cursorVars, countVars
<1>6. Types'
  BY <1>0, <1>3, <1>4, <1>5 DEF Types, MainType, CountType, CursorType
<1>7. MainInv'
  BY <1>0 DEF MainInv, Running, Types, LocalType
<1>8. WorkInv' /\ StridesDisjoint'
  BY <1>0
  DEF WorkInv, StridesDisjoint, Active, Types, LocalType, Busy, Slicing, Filling
<1>9. BaseInv'
  BY <1>0, <1>2 DEF BaseInv, Types, LocalType
<1> QED
  BY <1>6, <1>7, <1>8, <1>9

\* The end of fill_buffer: the next node of the stride, or the wait to publish.
LEMMA RingFillExp ==
  ASSUME RingInv, NEW p \in Producers, FillExp(p)
  PROVE  RingInv'
<1> USE ConstAssumption DEF RingInv, FillExp, Goto
<1>0. pc[p] \in Filling /\ Active(p)
  BY DEF Filling, Active
<1>1. node[p] \in Nodes \ {0} /\ SlotOf(node[p]) \in Slots
  BY <1>0, RingInvTypeOK, SlotInRing DEF TypeOK, Busy, Nodes
<1>2. work[p] \in 1 .. N - 1 /\ Count(work[p]) \in Nat
  BY <1>0, CountOK DEF WorkInv
<1>3. RingType'
  BY <1>1 DEF Types, RingType, Exp
<1>4. LocalType'
  BY DEF Types, LocalType, Pcs
<1> USE DEF mainVars, labelVars, cursorVars, countVars
<1>5. Types'
  BY <1>3, <1>4 DEF Types, MainType, CountType, CursorType, LabelType
<1>6. MainInv'
  BY DEF MainInv, Running, Types, LocalType
<1>7. WorkInv'
  BY <1>0, <1>2 DEF WorkInv, Active, Types, LocalType, Busy, Slicing, Filling
<1>8. StridesDisjoint' /\ BaseInv'
  BY <1>0 DEF StridesDisjoint, BaseInv, Active, Types, LocalType
<1> QED
  BY <1>5, <1>6, <1>7, <1>8

\* Publishing a stride: it was the lowest one at work, so what is published stays
\* below the strides of the other producers.
LEMMA RingPublish ==
  ASSUME RingInv, NEW p \in Producers, Publish(p)
  PROVE  RingInv'
<1> USE ConstAssumption DEF RingInv, Publish, Goto
<1>0. Active(p)
  BY DEF Active
<1>1. /\ work[p] \in 1 .. N - 1 /\ work[p] = curProducer + 1
      /\ work[p] + Stride <= curAwaiting
  BY <1>0 DEF WorkInv, Types, CountType
<1>2. /\ Stride \in Nat \ {0} /\ Count(work[p]) \in Nat \ {0}
      /\ Count(work[p]) <= Stride /\ work[p] + Count(work[p]) <= N
  BY <1>1, CountOK
<1>3. /\ curProducer' = work[p] + Count(work[p]) - 1
      /\ curProducer < curProducer' /\ curProducer' \in 0 .. N - 1
      /\ curProducer' < work[p] + Stride
  BY <1>1, <1>2 DEF Types, CountType
<1> USE DEF mainVars, ringVars, labelVars, cursorVars
<1>4. Types'
  BY <1>3
  DEF Types, MainType, CountType, CursorType, LocalType, RingType, LabelType, Pcs
<1>5. MainInv'
  BY <1>3 DEF MainInv, Running, Types, MainType, CountType, LocalType
<1>6. ASSUME NEW q \in Producers, q # p, Active(q)
      PROVE  curProducer' < work[q]
  BY <1>0, <1>1, <1>2, <1>3, <1>6 DEF StridesDisjoint, WorkInv, Types, LocalType, CountType
<1>7. WorkInv'
  BY <1>1, <1>2, <1>3, <1>6
  DEF WorkInv, Active, Types, LocalType, CountType, Busy, Slicing, Filling
<1>8. StridesDisjoint' /\ BaseInv'
  BY DEF StridesDisjoint, BaseInv, Active, Types, LocalType
<1> QED
  BY <1>4, <1>5, <1>7, <1>8

----------------------------------------------------------------------------
(* The theorems                                                             *)

\* Every step preserves the invariant of the ring.
LEMMA RingNext == RingInv /\ [Next]_vars => RingInv'
<1> SUFFICES ASSUME RingInv, [Next]_vars
             PROVE  RingInv'
  OBVIOUS
<1>1. CASE UNCHANGED vars
  BY <1>1
  DEF vars, mainVars, localVars, ringVars, labelVars, cursorVars, countVars, RingInv, Types,
      MainType, CountType, CursorType, LocalType, RingType, LabelType, MainInv, Running,
      WorkInv, StridesDisjoint, BaseInv, Active
<1>2. CASE Main
  BY <1>2, RingSkipLayer, RingBeginLayer, RingMainLocal, RingConsume, RingJoin DEF Main
<1>3. ASSUME NEW p \in Producers, Runner(p)
      PROVE  RingInv'
  BY <1>3, RingGrab, RingRoomTurn, RingSlice, RingFill, RingFillExp, RingPublish
  DEF Runner, SliceStep
<1> QED
  BY <1>1, <1>2, <1>3 DEF Next, Terminated

\* The invariant of the ring holds throughout label generation.
THEOREM RingCorrect == Spec => []RingInv
  BY RingInit, RingNext, PTL DEF Spec

\* Producers only work on nodes that exist, and so does the hashing thread: the
\* counters of create_layer_labels never leave the nodes of the layer.
THEOREM TypeCorrect == Spec => []TypeOK
  BY RingCorrect, RingInvTypeOK, PTL

\* The consumer, the published nodes and the strides handed out stay in order.
THEOREM OrderCorrect == Spec => []OrderOK
<1>1. RingInv => OrderOK
  <2> SUFFICES ASSUME RingInv PROVE OrderOK
    OBVIOUS
  <2>1. Stride \in Nat \ {0}
    BY ConstAssumption DEF Stride, WindowNodes
  <2> QED
    BY <2>1, ConstAssumption
    DEF RingInv, MainInv, WorkInv, OrderOK, Active, Types, CountType, LocalType
<1> QED
  BY <1>1, RingCorrect, PTL

\* No two threads use a ring slot at the same time: the strides at work are
\* disjoint, and nodes less than lookahead apart have different slots.
LEMMA RingExcludes == RingInv => SlotExclusive
<1> SUFFICES ASSUME RingInv, NEW p \in Producers, pc[p] \in Filling
             PROVE  /\ \A q \in Producers \ {p} : pc[q] \in Filling =>
                          SlotOf(node[q]) # SlotOf(node[p])
                    /\ \A n \in Nodes \ {0} : consumer <= n /\ n <= curProducer =>
                          SlotOf(n) # SlotOf(node[p])
  BY DEF SlotExclusive
<1>1. \A q \in Producers : pc[q] \in Filling =>
        /\ node[q] \in 1 .. N - 1
        /\ curProducer < work[q] /\ work[q] <= node[q]
        /\ node[q] < work[q] + Stride
        /\ node[q] <= consumer + Lookahead - 1
  <2> SUFFICES ASSUME NEW q \in Producers, pc[q] \in Filling
               PROVE  /\ node[q] \in 1 .. N - 1
                      /\ curProducer < work[q] /\ work[q] <= node[q]
                      /\ node[q] < work[q] + Stride
                      /\ node[q] <= consumer + Lookahead - 1
    OBVIOUS
  <2>1. Active(q) /\ pc[q] \in Busy
    BY DEF Active, Busy, Filling
  <2>2. work[q] \in 1 .. N - 1
    BY <2>1 DEF RingInv, WorkInv
  <2>3. Count(work[q]) <= Stride /\ Count(work[q]) \in Nat /\ Stride \in Nat
    BY <2>2, CountOK, ConstAssumption
  <2> QED
    BY <2>1, <2>2, <2>3, RingInvTypeOK, ConstAssumption
    DEF RingInv, WorkInv, TypeOK, Types, LocalType, CountType
<1>2. consumer \in Nat /\ curProducer \in Nat /\ consumer <= curProducer + 1
  BY DEF RingInv, MainInv, Types, CountType, Filling
<1>3. ASSUME NEW q \in Producers \ {p}, pc[q] \in Filling
      PROVE  SlotOf(node[q]) # SlotOf(node[p])
  <2>1. work[p] + Stride <= work[q] \/ work[q] + Stride <= work[p]
    BY <1>3 DEF RingInv, StridesDisjoint, Active, Filling
  <2>2. node[p] < node[q] \/ node[q] < node[p]
    BY <1>1, <1>3, <2>1, ConstAssumption DEF RingInv, Types, LocalType, Stride, WindowNodes
  <2>3. node[p] - node[q] < Lookahead /\ node[q] - node[p] < Lookahead
    BY <1>1, <1>2, <1>3, ConstAssumption DEF RingInv, Types, LocalType
  <2> QED
    BY <1>1, <1>3, <2>2, <2>3, SlotsDiffer
<1>4. ASSUME NEW n \in Nodes \ {0}, consumer <= n, n <= curProducer
      PROVE  SlotOf(n) # SlotOf(node[p])
  <2>1. n < node[p] /\ node[p] - n < Lookahead
    BY <1>1, <1>2, <1>4, ConstAssumption DEF Nodes, RingInv, Types, LocalType
  <2> QED
    BY <1>1, <2>1, SlotsDiffer, ConstAssumption DEF Nodes
<1> QED
  BY <1>3, <1>4

\* No two threads ever use a ring slot at the same time, whatever the lookahead,
\* the stride and the number of producers: the UnsafeSlice and the RingBuf of
\* multi.rs are accessed as their safety comments require.
THEOREM SlotExclusion == Spec => []SlotExclusive
  BY RingExcludes, RingCorrect, PTL

----------------------------------------------------------------------------
(* The cursor                                                               *)

\* Compare and swap only fails when the value differs, and at most two windows are
\* in use at once: the ring is no longer than a window, or one producer runs.
WindowHyp == ~WeakCas /\ (Lookahead <= W \/ \A p, q \in Producers : p = q)

----------------------------------------------------------------------------
(* Windows                                                                  *)

\* Window(n) is the one window that contains node n.
LEMMA WindowBounds ==
  ASSUME NEW n \in Nat
  PROVE  /\ Window(n) \in Nat /\ Window(n) * W <= n /\ n < (Window(n) + 1) * W
         /\ (Window(n) + 1) * W = Window(n) * W + W
  BY ConstAssumption DEF Window

\* A window with a higher number starts later.
LEMMA TimesMono ==
  ASSUME NEW a \in Int, NEW b \in Int, a <= b
  PROVE  a * W <= b * W
  BY ConstAssumption

\* A node from the start of window c on lies in that window or a later one.
LEMMA WindowAbove ==
  ASSUME NEW n \in Nat, NEW c \in Int, c * W <= n
  PROVE  c <= Window(n)
<1> SUFFICES ASSUME Window(n) + 1 <= c PROVE FALSE
  BY WindowBounds
<1>1. (Window(n) + 1) * W <= c * W
  BY TimesMono, WindowBounds
<1> QED
  BY <1>1, WindowBounds, ConstAssumption

\* A node before the start of window c lies in an earlier window.
LEMMA WindowBelow ==
  ASSUME NEW n \in Nat, NEW c \in Int, n < c * W
  PROVE  Window(n) < c
<1> SUFFICES ASSUME c <= Window(n) PROVE FALSE
  BY WindowBounds
<1>1. c * W <= Window(n) * W
  BY TimesMono, WindowBounds
<1> QED
  BY <1>1, WindowBounds, ConstAssumption

\* Later nodes lie in the same window or in later ones.
LEMMA WindowMono ==
  ASSUME NEW a \in Nat, NEW b \in Nat, a <= b
  PROVE  Window(a) <= Window(b)
  BY WindowAbove, WindowBounds, ConstAssumption

\* A node at most a window ahead lies in the same window or in the next.
LEMMA WindowStep ==
  ASSUME NEW a \in Nat, NEW b \in Nat, b <= a + W
  PROVE  Window(b) <= Window(a) + 1
<1>1. b < (Window(a) + 1) * W + W
  BY WindowBounds, ConstAssumption
<1>2. (Window(a) + 2) * W = (Window(a) + 1) * W + W
  BY WindowBounds, ConstAssumption
<1>3. Window(b) < Window(a) + 2
  BY <1>1, <1>2, WindowBelow, WindowBounds
<1> QED
  BY <1>3, WindowBounds

\* The window changes only at a multiple of its length.
LEMMA WindowSame ==
  ASSUME NEW n \in Nat, (n + 1) % W # 0
  PROVE  Window(n + 1) = Window(n)
<1>1. n + 1 = Window(n + 1) * W + ((n + 1) % W) /\ (n + 1) % W \in Nat
  BY ConstAssumption DEF Window
<1>2. Window(n + 1) * W <= n
  BY <1>1, WindowBounds, ConstAssumption
<1>3. Window(n + 1) <= Window(n)
  BY <1>2, WindowAbove, WindowBounds
<1> QED
  BY <1>3, WindowMono, WindowBounds

\* The first node lies in the first window.
LEMMA WindowZero == Window(0) = 0
  BY ConstAssumption DEF Window

\* The two buffers alternate: neighbouring windows go to different ones.
LEMMA Parity ==
  ASSUME NEW c \in Nat
  PROVE  /\ c % 2 \in 0 .. 1 /\ (c + 1) % 2 \in 0 .. 1
         /\ c % 2 # (c + 1) % 2
         /\ (c + 2) % 2 = c % 2
  OBVIOUS

----------------------------------------------------------------------------
(* The invariant of the cursor                                              *)

\* A layer is being laid: the producers may run, and the counters and the cursor
\* belong to this layer.
Laying  == mainPc \notin {"begin", "done"}
\* A producer won the compare and swap on cur and is moving the rear buffer.
Transit == {"waitConsumer", "remap", "bump"}

\* A layer starts with its first two windows mapped, because reset_for_layer maps
\* them or because no layer was laid before.
BeginInv ==
    mainPc = "begin" =>
        bufs[0] = 0 /\ (Layers = 1 => bufs[1] = 1 /\ cur = 0 /\ curSafe = 0)

\* The window that curSafe names is mapped; so is the one before it, unless a
\* transition has just replaced it, or window 1 while curSafe is still 0.  What the
\* buffers lost was consumed, and what is published lies in safe windows.
WindowsInv ==
    Laying =>
        /\ curSafe <= cur /\ cur <= curSafe + 1
        /\ (curSafe - 1) * W <= consumer
        /\ bufs[curSafe % 2] = curSafe
        /\ curSafe = 0 => bufs[1] = 1
        /\ curSafe # 0 /\ (\A p \in Producers : pc[p] # "bump") =>
              bufs[(curSafe + 1) % 2] = curSafe - 1
        /\ Window(curProducer) <= curSafe

\* What producer p has filled lies in windows that are safe, and what it is about
\* to fill too; it reads the slice of the window of its node.
ReadInv(p) ==
    /\ Active(p) /\ work[p] < node[p] => Window(node[p] - 1) <= curSafe
    /\ pc[p] \in {"turn", "publish"} => node[p] = work[p] + Count(work[p])
    /\ pc[p] \in {"slice", "fill", "fillBase", "fillExp"} => Window(node[p]) <= curSafe
    /\ pc[p] \in Filling => held[p] = Window(node[p])

\* How far ensure_slice of producer p has come: it waits for the window after the
\* one it saw, and in transition it alone moves cur and curSafe by one.
SliceInv(p) ==
    /\ pc[p] \in {"casCur", "casSafe"} => Window(node[p]) = 1
    /\ pc[p] = "casSafe" => cur >= 1
    /\ pc[p] = "loadSafe" /\ Window(node[p]) = 1 => curSafe >= 1
    /\ pc[p] \in {"select", "await"} =>
          Window(node[p]) = seen[p] + 1 /\ 1 <= seen[p] /\ seen[p] <= curSafe
    /\ pc[p] \in Transit =>
          Window(node[p]) = curSafe + 1 /\ cur = curSafe + 1 /\ 1 <= curSafe
    /\ pc[p] \in {"remap", "bump"} => curSafe * W <= consumer
    /\ pc[p] = "bump" => bufs[(curSafe + 1) % 2] = curSafe + 1

\* The compare and swap on cur lets one producer at a time into a transition.
OneTransit ==
    \A p, q \in Producers : pc[p] \in Transit /\ pc[q] \in Transit => p = q

\* The hashing thread holds the slice of the window of its node.
ConsumerInv ==
    /\ mainPc = "store" => cwin = Window(1)
    /\ mainPc \in {"load", "refill"} /\ (i = 1 \/ i % W # 0) => cwin = Window(i)
    /\ mainPc \in {"hash", "incr"} => cwin = Window(i)

\* A single producer takes the nodes up without a gap.
AloneInv ==
    (\A p, q \in Producers : p = q) =>
        \A p \in Producers :
            /\ Active(p) => work[p] = curProducer + 1 /\ curAwaiting = work[p] + Stride
            /\ pc[p] = "grab" => curAwaiting = curProducer + 1 \/ curAwaiting >= N

\* The inductive invariant of the cursor.
CursorInv ==
    /\ BeginInv /\ WindowsInv /\ OneTransit /\ ConsumerInv /\ AloneInv
    /\ \A p \in Producers : ReadInv(p) /\ SliceInv(p)

\* A producer that is not done runs while the layer is being laid.
LEMMA RunsWhileLaying ==
  ASSUME RingInv, NEW p \in Producers, pc[p] # "done"
  PROVE  Laying
  BY DEF RingInv, MainInv, Laying

\* A busy producer is at most one window past what is safely mapped.
LEMMA NextWindow ==
  ASSUME WindowHyp, RingInv, CursorInv, NEW p \in Producers, pc[p] \in Busy
  PROVE  /\ node[p] \in Nat \ {0} /\ node[p] <= N - 1 /\ consumer <= node[p]
         /\ Window(node[p]) \in Nat /\ Window(node[p]) <= curSafe + 1
         /\ curSafe \in Nat /\ consumer \in Nat /\ cur \in Nat
<1>1. Active(p) /\ Laying
  BY RunsWhileLaying DEF Active, Busy, Slicing, Filling
<1>2. /\ curSafe \in Nat /\ cur \in Nat /\ consumer \in Nat /\ curProducer \in Nat
      /\ consumer <= curProducer + 1
      /\ curProducer < work[p] /\ work[p] <= node[p] /\ work[p] \in Nat
      /\ node[p] <= consumer + Lookahead - 1
      /\ Window(curProducer) <= curSafe
  BY <1>1 DEF RingInv, MainInv, WorkInv, Types, CursorType, CountType, Laying, CursorInv, WindowsInv
<1>3. node[p] \in 1 .. N - 1
  BY RingInvTypeOK DEF TypeOK
<1>4. Window(node[p]) \in Nat /\ Window(node[p] - 1) \in Nat /\ Window(curProducer) \in Nat
  BY <1>2, <1>3, WindowNat, ConstAssumption
<1>5. CASE Lookahead <= W
  <2>1. node[p] <= curProducer + W
    BY <1>2, <1>3, <1>5, ConstAssumption
  <2> QED
    BY <1>2, <1>3, <1>4, <2>1, WindowStep, ConstAssumption
<1>6. CASE \A q, r \in Producers : q = r
  <2>1. work[p] = curProducer + 1
    BY <1>1, <1>6 DEF CursorInv, AloneInv
  <2>2. Window(node[p] - 1) <= curSafe
    BY <1>1, <1>2, <1>3, <2>1, ConstAssumption DEF CursorInv, ReadInv
  <2>3. Window(node[p]) <= Window(node[p] - 1) + 1
    BY <1>3, WindowStep, ConstAssumption
  <2> QED
    BY <1>2, <1>3, <1>4, <2>2, <2>3, ConstAssumption
<1> QED
  BY <1>5, <1>6 DEF WindowHyp

\* The window of a node that is not consumed and was made safe is mapped.
LEMMA Mapped ==
  ASSUME RingInv, CursorInv, Laying, NEW n \in Nat, consumer <= n, Window(n) <= curSafe
  PROVE  bufs[Window(n) % 2] = Window(n)
<1> DEFINE c == curSafe
<1>1. c \in Nat /\ consumer \in Nat /\ Window(n) \in Nat /\ bufs \in [0 .. 1 -> Nat]
  BY WindowNat DEF RingInv, Types, CursorType, CountType
<1>2. c - 1 <= Window(n)
  BY <1>1, WindowAbove, ConstAssumption DEF CursorInv, WindowsInv
<1>3. CASE Window(n) = c
  BY <1>3 DEF CursorInv, WindowsInv
<1>4. CASE Window(n) = c - 1
  <2>1. \A p \in Producers : pc[p] # "bump"
    <3> SUFFICES ASSUME NEW p \in Producers, pc[p] = "bump" PROVE FALSE
      OBVIOUS
    <3>1. c * W <= n
      BY <1>1, ConstAssumption DEF CursorInv, SliceInv
    <3> QED
      BY <1>1, <1>4, <3>1, WindowAbove
  <2>2. bufs[(c + 1) % 2] = c - 1
    BY <1>1, <1>4, <2>1 DEF CursorInv, WindowsInv
  <2>3. (c + 1) % 2 = (c - 1) % 2
    BY <1>1, <1>4, Parity
  <2> QED
    BY <1>4, <2>2, <2>3
<1> QED
  BY <1>1, <1>2, <1>3, <1>4

----------------------------------------------------------------------------
(* Steps of the hashing thread                                              *)

\* The invariant holds at the start.
LEMMA CursorInit == Init => CursorInv
<1> SUFFICES ASSUME Init PROVE CursorInv
  OBVIOUS
<1> USE DEF Init
<1>1. BeginInv /\ WindowsInv /\ OneTransit /\ ConsumerInv /\ AloneInv
  BY DEF BeginInv, WindowsInv, OneTransit, ConsumerInv, AloneInv, Laying, Transit, Active
<1>2. ASSUME NEW p \in Producers PROVE ReadInv(p) /\ SliceInv(p)
  BY DEF ReadInv, SliceInv, Transit, Active, Filling
<1> QED
  BY <1>1, <1>2 DEF CursorInv

\* Between layers no producer runs, and a layer begins with both windows mapped.
LEMMA CursorBetween ==
  ASSUME RingInv, CursorInv, SkipLayer \/ Join
  PROVE  CursorInv'
<1>1. /\ UNCHANGED <<localVars, i, cwin, producerVal, cur, curSafe, countVars>>
      /\ mainPc' \in {"begin", "done"}
      /\ \A p \in Producers : pc[p] = "done"
  BY DEF SkipLayer, Join, RingInv, MainInv, cursorVars
<1> USE <1>1 DEF localVars, countVars
<1>2. BeginInv'
  BY DEF SkipLayer, Join, CursorInv, BeginInv, cursorVars, RingInv, Types, CursorType, MainType
<1>3. WindowsInv' /\ OneTransit' /\ ConsumerInv' /\ AloneInv'
  BY DEF WindowsInv, OneTransit, ConsumerInv, AloneInv, Laying, Transit, Active
<1>4. ASSUME NEW p \in Producers PROVE ReadInv(p)' /\ SliceInv(p)'
  BY DEF ReadInv, SliceInv, Transit, Active, Filling
<1> QED
  BY <1>2, <1>3, <1>4 DEF CursorInv

\* BeginLayer finds or makes the first two windows mapped.
LEMMA CursorBegin ==
  ASSUME RingInv, CursorInv, BeginLayer
  PROVE  CursorInv'
<1> USE DEF BeginLayer
<1>1. cur' = 0 /\ curSafe' = 0 /\ bufs'[0] = 0 /\ bufs'[1] = 1 /\ consumer' = 0
  BY DEF FinishReset, CursorInv, BeginInv, cursorVars, RingInv, Types, CursorType, MainInv
<1>2. BeginInv' /\ ConsumerInv'
  BY DEF BeginInv, ConsumerInv
<1>3. WindowsInv'
  BY <1>1, WindowZero, ConstAssumption DEF WindowsInv
<1>4. OneTransit' /\ AloneInv'
  BY DEF OneTransit, AloneInv, Transit, Active
<1>5. ASSUME NEW p \in Producers PROVE ReadInv(p)' /\ SliceInv(p)'
  BY DEF ReadInv, SliceInv, Transit, Active, Filling
<1> QED
  BY <1>2, <1>3, <1>4, <1>5 DEF CursorInv

\* The steps of the hashing thread that leave the consumer alone.
LEMMA CursorMain ==
  ASSUME RingInv, CursorInv, NodeZero \/ LoadProducer \/ Refill \/ Hash
  PROVE  CursorInv'
<1>1. /\ UNCHANGED <<localVars, cursorVars, countVars, i>>
      /\ Laying /\ Laying' /\ mainPc' # "begin"
  BY DEF NodeZero, LoadProducer, Refill, Hash, Laying
<1> USE DEF localVars, cursorVars, countVars
<1>2. BeginInv' /\ OneTransit' /\ AloneInv' /\ WindowsInv'
  BY <1>1 DEF CursorInv, BeginInv, OneTransit, AloneInv, WindowsInv, Active
<1>3. ASSUME NEW p \in Producers PROVE ReadInv(p)' /\ SliceInv(p)'
  BY <1>1 DEF CursorInv, ReadInv, SliceInv, Active
<1>4. ConsumerInv'
  <2>1. CASE NodeZero
    <3>1. consumer = 0 /\ curSafe \in Nat
      BY <2>1 DEF NodeZero, RingInv, MainInv, Types, CursorType
    <3>2. \A p \in Producers : pc[p] \notin {"remap", "bump"}
      <4> SUFFICES ASSUME NEW p \in Producers, pc[p] \in {"remap", "bump"} PROVE FALSE
        OBVIOUS
      <4>1. 1 <= curSafe /\ curSafe * W <= 0
        BY <3>1 DEF CursorInv, SliceInv, Transit
      <4> QED
        BY <4>1, <3>1, TimesMono, ConstAssumption
    <3>3. (curSafe - 1) * W <= 0
      BY <1>1, <3>1 DEF CursorInv, WindowsInv
    <3>4. curSafe <= 1
      BY <3>1, <3>3, WindowAbove, WindowZero
    <3>5. bufs[0] = 0 /\ bufs[1] = 1
      BY <1>1, <3>1, <3>2, <3>4 DEF CursorInv, WindowsInv
    <3>6. Window(1) <= 1
      BY WindowStep, WindowZero, ConstAssumption
    <3>7. Window(1) \in {0, 1}
      BY <3>6, WindowNat
    <3> QED
      BY <2>1, <3>5, <3>7 DEF NodeZero, ConsumerInv
  <2>2. CASE LoadProducer \/ Hash
    BY <2>2 DEF LoadProducer, Hash, ConsumerInv, CursorInv
  <2>3. CASE Refill
    <3>1. /\ i = consumer /\ i \in Nat /\ i >= 1 /\ i <= curProducer /\ curProducer \in Nat
      BY <2>3 DEF Refill, RingInv, MainInv, Running, Types, MainType, CountType
    <3>2. Window(i) <= curSafe
      BY <1>1, <3>1, WindowMono, WindowNat DEF CursorInv, WindowsInv, RingInv, Types, CursorType
    <3>3. bufs[Window(i) % 2] = Window(i)
      BY <1>1, <3>1, <3>2, Mapped
    <3> QED
      BY <1>1, <2>3, <3>1, <3>3, ConstAssumption DEF Refill, ConsumerInv, CursorInv
  <2> QED
    BY <2>1, <2>2, <2>3
<1> QED
  BY <1>2, <1>3, <1>4 DEF CursorInv

\* The consumer moves on: this frees windows and never takes one away.
LEMMA CursorConsume ==
  ASSUME RingInv, CursorInv, StoreConsumer \/ IncrementConsumer
  PROVE  CursorInv'
<1>1. /\ UNCHANGED <<localVars, cursorVars, curProducer, curAwaiting, cwin>>
      /\ Laying /\ Laying' /\ mainPc' # "begin"
  BY DEF StoreConsumer, IncrementConsumer, Laying
<1>2. consumer \in Int /\ consumer' \in Int /\ consumer <= consumer' /\ curSafe \in Int
  BY DEF StoreConsumer, IncrementConsumer, RingInv, MainInv, Types, CountType, CursorType
<1>3. (curSafe - 1) * W \in Int /\ curSafe * W \in Int
  BY <1>2, ConstAssumption
<1> USE DEF localVars, cursorVars
<1>4. BeginInv' /\ OneTransit' /\ AloneInv' /\ WindowsInv'
  BY <1>1, <1>2, <1>3 DEF CursorInv, BeginInv, OneTransit, AloneInv, WindowsInv, Active
<1>5. ASSUME NEW p \in Producers PROVE ReadInv(p)' /\ SliceInv(p)'
  BY <1>1, <1>2, <1>3 DEF CursorInv, ReadInv, SliceInv, Active
<1>6. ConsumerInv'
  <2>1. CASE StoreConsumer
    BY <2>1 DEF StoreConsumer, CursorInv, ConsumerInv
  <2>2. CASE IncrementConsumer
    <3>1. i \in Nat /\ i >= 1 /\ i' = i + 1 /\ mainPc = "incr" /\ cwin = Window(i)
      BY <2>2 DEF IncrementConsumer, RingInv, MainInv, Running, Types, MainType,
                  CursorInv, ConsumerInv
    <3>2. i' % W # 0 => Window(i') = Window(i)
      BY <3>1, WindowSame
    <3> QED
      BY <1>1, <2>2, <3>1, <3>2 DEF IncrementConsumer, ConsumerInv
  <2> QED
    BY <2>1, <2>2
<1> QED
  BY <1>4, <1>5, <1>6 DEF CursorInv

----------------------------------------------------------------------------
(* Steps of a producer                                                      *)

\* What a step of p that leaves the cursor and the counters alone has to show.
LEMMA CursorLocal ==
  ASSUME RingInv, CursorInv, NEW p \in Producers,
         UNCHANGED <<mainVars, cursorVars, countVars>>, Laying,
         \A q \in Producers \ {p} : UNCHANGED <<pc[q], work[q], node[q], seen[q], held[q]>>,
         ReadInv(p)', SliceInv(p)',
         pc[p] # "bump", pc'[p] # "bump",
         pc'[p] \in Transit => pc[p] \in Transit,
         Active(p)' => Active(p) /\ work'[p] = work[p],
         pc'[p] # "grab"
  PROVE  CursorInv'
<1> USE DEF mainVars, cursorVars, countVars, CursorInv
<1>1. BeginInv' /\ ConsumerInv'
  BY DEF BeginInv, ConsumerInv, Laying
<1>2. WindowsInv'
  BY DEF WindowsInv, Laying
<1>3. OneTransit'
  BY DEF OneTransit
<1>4. AloneInv'
  BY DEF AloneInv, Active
<1>5. ASSUME NEW q \in Producers PROVE ReadInv(q)' /\ SliceInv(q)'
  <2>1. CASE q # p
    BY <2>1 DEF ReadInv, SliceInv, Active
  <2> QED
    BY <2>1
<1> QED
  BY <1>1, <1>2, <1>3, <1>4, <1>5

\* Taking a stride of nodes leaves the cursor alone.
LEMMA CursorGrab ==
  ASSUME RingInv, CursorInv, NEW p \in Producers, Grab(p)
  PROVE  CursorInv'
<1> USE DEF Grab, Goto, mainVars, cursorVars, CursorInv
<1>0. Laying /\ Laying' /\ pc \in [Producers -> Pcs] /\ work \in [Producers -> Nat]
      /\ node \in [Producers -> Nat] /\ curAwaiting \in Nat /\ curProducer \in Nat
      /\ Stride \in Nat \ {0}
  BY RunsWhileLaying, ConstAssumption
  DEF Laying, RingInv, Types, LocalType, CountType, Stride, WindowNodes
<1>1. BeginInv' /\ ConsumerInv'
  BY <1>0 DEF BeginInv, ConsumerInv, Laying
<1>2. WindowsInv'
  BY <1>0 DEF WindowsInv
<1>3. OneTransit'
  BY <1>0 DEF OneTransit, Transit
<1>4. AloneInv'
  BY <1>0, ConstAssumption DEF AloneInv, Active, NoWorkLeft
<1>5. ASSUME NEW q \in Producers PROVE ReadInv(q)' /\ SliceInv(q)'
  <2>1. CASE q # p
    BY <1>0, <2>1 DEF ReadInv, SliceInv, Active
  <2>2. CASE q = p
    BY <1>0, <2>2 DEF ReadInv, SliceInv, Active, Transit, Filling
  <2> QED
    BY <2>1, <2>2
<1> QED
  BY <1>1, <1>2, <1>3, <1>4, <1>5

\* What a producer publishes lies in windows that are safe.
LEMMA CursorPublish ==
  ASSUME RingInv, CursorInv, NEW p \in Producers, Publish(p)
  PROVE  CursorInv'
<1> USE DEF Publish, Goto, mainVars, cursorVars, CursorInv
<1>0. Laying /\ Laying' /\ pc \in [Producers -> Pcs] /\ work \in [Producers -> Nat]
      /\ node \in [Producers -> Nat] /\ curAwaiting \in Nat /\ curProducer \in Nat
      /\ Active(p) /\ Stride \in Nat \ {0} /\ curSafe \in Nat
  BY RunsWhileLaying, ConstAssumption
  DEF Laying, RingInv, Types, LocalType, CountType, CursorType, Active, Stride, WindowNodes
<1>1. /\ work[p] \in 1 .. N - 1 /\ work[p] = curProducer + 1
      /\ node[p] = work[p] + Count(work[p]) /\ Count(work[p]) \in Nat \ {0}
      /\ Count(work[p]) <= Stride
  BY <1>0, CountOK, ConstAssumption DEF RingInv, WorkInv, ReadInv
<1>2. curProducer' = node[p] - 1 /\ Window(curProducer') <= curSafe
  BY <1>0, <1>1, ConstAssumption DEF ReadInv
<1>3. BeginInv' /\ ConsumerInv'
  BY <1>0 DEF BeginInv, ConsumerInv, Laying
<1>4. WindowsInv'
  BY <1>0, <1>2 DEF WindowsInv
<1>5. OneTransit'
  BY <1>0 DEF OneTransit, Transit
<1>6. AloneInv'
  <2> SUFFICES ASSUME \A q, r \in Producers : q = r
               PROVE  curAwaiting = curProducer' + 1 \/ curAwaiting >= N
    BY <1>0 DEF AloneInv, Active
  <2>1. curAwaiting = work[p] + Stride
    BY <1>0 DEF AloneInv
  <2> QED
    BY <1>0, <1>1, <1>2, <2>1, ConstAssumption DEF Count
<1>7. ASSUME NEW q \in Producers PROVE ReadInv(q)' /\ SliceInv(q)'
  <2>1. CASE q # p
    BY <1>0, <2>1 DEF ReadInv, SliceInv, Active
  <2>2. CASE q = p
    BY <1>0, <2>2 DEF ReadInv, SliceInv, Active, Transit, Filling
  <2> QED
    BY <2>1, <2>2
<1> QED
  BY <1>3, <1>4, <1>5, <1>6, <1>7

\* The steps that check, wait or fill, and move neither the cursor nor a counter.
LEMMA CursorQuiet ==
  ASSUME WindowHyp, RingInv, CursorInv, NEW p \in Producers,
         Room(p) \/ LoadSafe(p) \/ NotSelected(p) \/ WaitConsumer(p) \/ Await(p)
           \/ Slice(p) \/ FillHead(p) \/ FillBase(p) \/ FillExp(p) \/ Turn(p)
  PROVE  CursorInv'
<1> DEFINE step == /\ UNCHANGED <<mainVars, cursorVars, countVars, work>>
                   /\ \A q \in Producers \ {p} :
                         UNCHANGED <<pc[q], work[q], node[q], seen[q], held[q]>>
<1>0. /\ pc \in [Producers -> Pcs] /\ node \in [Producers -> Nat] /\ seen \in [Producers -> Nat]
      /\ held \in [Producers -> Nat]
  BY DEF RingInv, Types, LocalType
<1>1. step
  BY <1>0 DEF Room, LoadSafe, NotSelected, WaitConsumer, Await, Slice, FillHead, FillBase, FillExp,
         Turn, Goto
<1>2. Laying /\ pc[p] # "done" /\ Active(p) /\ pc[p] \in Busy \cup {"room", "turn"}
  BY RunsWhileLaying
  DEF Room, LoadSafe, NotSelected, WaitConsumer, Await, Slice, FillHead, FillBase, FillExp,
      Turn, Goto, Active, Busy, Slicing, Filling
<1>3. /\ node[p] \in Nat \ {0} /\ work[p] \in Nat \ {0} /\ curSafe \in Nat /\ cur \in Nat
      /\ consumer \in Nat /\ Window(node[p]) \in Nat /\ Window(node[p] - 1) \in Nat
      /\ seen[p] \in Nat
      /\ pc[p] \in Busy => consumer <= node[p] /\ Window(node[p]) <= curSafe + 1
  <2>1. node[p] \in Nat \ {0} /\ work[p] \in Nat \ {0} /\ curSafe \in Nat /\ consumer \in Nat
        /\ cur \in Nat
    BY <1>0, <1>2, ConstAssumption DEF RingInv, WorkInv, Types, LocalType, CursorType, CountType
  <2>2. Window(node[p]) \in Nat /\ Window(node[p] - 1) \in Nat
    BY <2>1, WindowNat
  <2> QED
    BY <1>0, <1>2, <2>1, <2>2, NextWindow
<1>m. pc[p] = "slice" => bufs[Window(node[p]) % 2] = Window(node[p])
  <2> SUFFICES ASSUME pc[p] = "slice" PROVE bufs[Window(node[p]) % 2] = Window(node[p])
    OBVIOUS
  <2>1. pc[p] \in Busy /\ Window(node[p]) <= curSafe
    BY DEF Busy, Slicing, CursorInv, ReadInv
  <2> QED
    BY <1>2, <1>3, <2>1, Mapped
<1> USE DEF Goto, cursorVars, countVars, mainVars, CursorInv
<1>4. CASE Room(p)
  <2>1. ReadInv(p)' /\ SliceInv(p)'
    BY <1>0, <1>2, <1>3, <1>4 DEF Room, ReadInv, SliceInv, Active, Filling, Transit
  <2> QED
    BY <1>0, <1>1, <1>2, <1>4, <2>1, CursorLocal DEF Room, Transit, Active
<1>5. CASE LoadSafe(p)
  <2>1. ReadInv(p)' /\ SliceInv(p)'
    BY <1>0, <1>2, <1>3, <1>5 DEF LoadSafe, CursorSeen, ReadInv, SliceInv, Active, Filling, Transit,
                        Busy, Slicing
  <2> QED
    BY <1>0, <1>1, <1>2, <1>5, <2>1, CursorLocal DEF LoadSafe, Transit, Active
<1>6. CASE NotSelected(p)
  <2>1. ReadInv(p)' /\ SliceInv(p)'
    BY <1>0, <1>2, <1>3, <1>6 DEF NotSelected, ReadInv, SliceInv, Active, Filling, Transit
  <2> QED
    BY <1>0, <1>1, <1>2, <1>6, <2>1, CursorLocal DEF NotSelected, Transit, Active
<1>7. CASE WaitConsumer(p)
  <2>1. ReadInv(p)' /\ SliceInv(p)'
    BY <1>0, <1>2, <1>3, <1>7 DEF WaitConsumer, RearConsumed, ReadInv, SliceInv, Active, Filling,
                        Transit
  <2> QED
    BY <1>0, <1>1, <1>2, <1>7, <2>1, CursorLocal DEF WaitConsumer, Transit, Active
<1>8. CASE Await(p)
  <2>1. ReadInv(p)' /\ SliceInv(p)'
    BY <1>0, <1>2, <1>3, <1>8 DEF Await, ReadInv, SliceInv, Active, Filling, Transit
  <2> QED
    BY <1>0, <1>1, <1>2, <1>8, <2>1, CursorLocal DEF Await, Transit, Active
<1>9. CASE Slice(p)
  <2>1. ReadInv(p)' /\ SliceInv(p)'
    BY <1>0, <1>2, <1>3, <1>m, <1>9 DEF Slice, ReadInv, SliceInv, Active, Filling, Transit
  <2> QED
    BY <1>0, <1>1, <1>2, <1>9, <2>1, CursorLocal DEF Slice, Transit, Active
<1>10. CASE FillHead(p) \/ FillBase(p)
  <2>1. UNCHANGED <<node, seen, held>> /\ pc[p] \in {"fill", "fillBase"}
        /\ pc'[p] \in {"fillBase", "fillExp"}
    BY <1>0, <1>10 DEF FillHead, FillBase
  <2>2. ReadInv(p)' /\ SliceInv(p)'
    BY <1>0, <1>1, <1>2, <1>3, <2>1 DEF ReadInv, SliceInv, Active, Filling, Transit
  <2> QED
    BY <1>0, <1>1, <1>2, <2>1, <2>2, CursorLocal DEF Transit, Active
<1>11. CASE FillExp(p)
  <2>1. node'[p] = node[p] + 1 /\ pc[p] = "fillExp" /\ work'[p] = work[p]
        /\ pc'[p] = IF node[p] + 1 < work[p] + Count(work[p]) THEN "room" ELSE "turn"
    BY <1>0, <1>11 DEF FillExp
  <2>2. /\ Count(work[p]) \in Nat /\ node[p] < work[p] + Count(work[p])
    BY <1>2, <2>1, CountOK, ConstAssumption DEF RingInv, WorkInv, Busy, Filling
  <2>3. ReadInv(p)' /\ SliceInv(p)'
    BY <1>1, <1>2, <1>3, <2>1, <2>2 DEF ReadInv, SliceInv, Active, Filling, Transit
  <2> QED
    BY <1>1, <1>2, <2>1, <2>3, CursorLocal DEF Transit, Active
<1>12. CASE Turn(p)
  <2>1. ReadInv(p)' /\ SliceInv(p)'
    BY <1>0, <1>2, <1>3, <1>12 DEF Turn, ReadInv, SliceInv, Active, Filling, Transit
  <2> QED
    BY <1>0, <1>1, <1>2, <1>12, <2>1, CursorLocal DEF Turn, Transit, Active
<1> QED
  BY <1>4, <1>5, <1>6, <1>7, <1>8, <1>9, <1>10, <1>11, <1>12

\* The first transition: window 1 is mapped from the start.
LEMMA CursorCas ==
  ASSUME WindowHyp, RingInv, CursorInv, NEW p \in Producers, CasCur(p) \/ CasSafe(p)
  PROVE  CursorInv'
<1>0. /\ pc \in [Producers -> Pcs] /\ node \in [Producers -> Nat] /\ seen \in [Producers -> Nat]
      /\ curSafe \in Nat /\ cur \in Nat /\ consumer \in Nat /\ ~WeakCas
      /\ bufs \in [0 .. 1 -> Nat]
      /\ \A q \in Producers : Active(q) => node[q] \in Nat \ {0}
  BY ConstAssumption DEF RingInv, Types, LocalType, CursorType, CountType, WindowHyp, WorkInv
<1>1. /\ Laying /\ Active(p) /\ Window(node[p]) = 1
      /\ UNCHANGED <<mainVars, countVars, work, node, seen, held, bufs>>
      /\ pc' = [pc EXCEPT ![p] = IF pc[p] = "casCur" THEN "casSafe" ELSE "loadSafe"]
  BY RunsWhileLaying DEF CasCur, CasSafe, Goto, Active, CursorInv, SliceInv
<1>2. /\ cur' = IF pc[p] = "casCur" /\ cur = 0 THEN 1 ELSE cur
      /\ curSafe' = IF pc[p] = "casSafe" /\ curSafe = 0 THEN 1 ELSE curSafe
      /\ pc[p] \in {"casCur", "casSafe"}
  BY <1>0 DEF CasCur, CasSafe, Goto, Spurious
<1>3. cur' \in Nat /\ curSafe' \in Nat /\ curSafe <= curSafe' /\ cur <= cur' /\ cur' >= 1
      /\ (curSafe' # curSafe => curSafe = 0 /\ curSafe' = 1)
      /\ (cur' # cur => cur = 0 /\ cur' = 1 /\ curSafe = 0)
      /\ (cur = 0 => curSafe = 0)
  BY <1>0, <1>1, <1>2 DEF CursorInv, SliceInv, WindowsInv
<1>4. \A q \in Producers : Active(q) => Window(node[q]) \in Nat /\ Window(node[q] - 1) \in Nat
  BY <1>0, WindowNat
<1> USE DEF mainVars, countVars, CursorInv
<1>5. BeginInv' /\ ConsumerInv'
  BY <1>1 DEF BeginInv, ConsumerInv, Laying
<1>6. \A q \in Producers : pc[q] \in Transit => curSafe' = curSafe /\ cur' = cur
  BY <1>0, <1>3 DEF SliceInv
<1>7. WindowsInv'
  <2>1. CASE curSafe' = curSafe
    BY <1>0, <1>1, <1>2, <1>3, <2>1, ConstAssumption DEF WindowsInv, Laying, SliceInv
  <2>2. CASE curSafe' # curSafe
    <3>1. curSafe = 0 /\ curSafe' = 1 /\ bufs[0] = 0 /\ bufs[1] = 1 /\ cur' = 1
      BY <1>0, <1>1, <1>2, <1>3, <2>2 DEF WindowsInv
    <3>2. Window(curProducer) \in Nat
      BY WindowNat DEF RingInv, Types, CountType
    <3> QED
      BY <1>0, <1>1, <3>1, <3>2, ConstAssumption DEF WindowsInv, Laying
  <2> QED
    BY <2>1, <2>2
<1>8. OneTransit'
  BY <1>0, <1>1 DEF OneTransit, Transit
<1>9. AloneInv'
  BY <1>0, <1>1 DEF AloneInv, Active
<1>10. ASSUME NEW q \in Producers PROVE ReadInv(q)' /\ SliceInv(q)'
  <2>1. CASE q # p
    <3>1. ReadInv(q)'
      BY <1>0, <1>1, <1>3, <1>4, <2>1 DEF ReadInv, Active, Filling
    <3>2. CASE pc[q] \in Transit
      BY <1>0, <1>1, <1>6, <2>1, <3>1, <3>2 DEF SliceInv, Transit
    <3>3. CASE pc[q] \notin Transit
      <4>1. pc'[q] = pc[q] /\ node'[q] = node[q] /\ seen'[q] = seen[q]
        BY <1>0, <1>1, <2>1
      <4>2. pc[q] \notin {"remap", "bump"}
        BY <3>3 DEF Transit
      <4>3. seen[q] \in Nat /\ SliceInv(q)
        BY <1>0
      <4>4. (pc[q] \in {"casCur", "casSafe"} => Window(node[q]) = 1)'
        BY <4>1, <4>3 DEF SliceInv
      <4>5. /\ (pc[q] = "casSafe" => cur >= 1)'
            /\ (pc[q] = "loadSafe" /\ Window(node[q]) = 1 => curSafe >= 1)'
        BY <1>0, <1>3, <4>1, <4>3 DEF SliceInv
      <4>6. (pc[q] \in {"select", "await"} =>
               Window(node[q]) = seen[q] + 1 /\ 1 <= seen[q] /\ seen[q] <= curSafe)'
        BY <1>0, <1>3, <4>1, <4>3 DEF SliceInv
      <4> HIDE DEF CursorInv
      <4>7. SliceInv(q)'
        BY <3>3, <4>1, <4>2, <4>4, <4>5, <4>6, Zenon DEF SliceInv, Transit
      <4> QED
        BY <3>1, <4>7
    <3> QED
      BY <3>1, <3>2, <3>3
  <2>2. CASE q = p
    BY <1>0, <1>1, <1>2, <1>3, <1>4, <2>2 DEF ReadInv, SliceInv, Active, Filling, Transit
  <2> QED
    BY <2>1, <2>2
<1> QED
  BY <1>5, <1>7, <1>8, <1>9, <1>10

\* The election: cur is moved by one producer only.
LEMMA CursorSelected ==
  ASSUME WindowHyp, RingInv, CursorInv, NEW p \in Producers, Selected(p)
  PROVE  CursorInv'
<1>0. /\ pc \in [Producers -> Pcs] /\ node \in [Producers -> Nat] /\ seen \in [Producers -> Nat]
      /\ curSafe \in Nat /\ cur \in Nat /\ consumer \in Nat
  BY DEF RingInv, Types, LocalType, CursorType, CountType
<1>1. /\ Laying /\ Active(p)
      /\ UNCHANGED <<mainVars, countVars, work, node, seen, held, bufs, curSafe>>
      /\ pc[p] = "select" /\ pc' = [pc EXCEPT ![p] = "waitConsumer"]
      /\ cur = seen[p] /\ cur' = seen[p] + 1
  BY RunsWhileLaying DEF Selected, Goto, Active, CasWins
<1>2. Window(node[p]) = seen[p] + 1 /\ 1 <= seen[p] /\ curSafe = cur /\ seen[p] = curSafe
  BY <1>0, <1>1 DEF CursorInv, SliceInv, WindowsInv
<1>3. \A q \in Producers : pc[q] \notin Transit
  BY <1>0, <1>2 DEF CursorInv, SliceInv
<1> USE DEF mainVars, countVars, CursorInv
<1>4. BeginInv' /\ ConsumerInv'
  BY <1>1 DEF BeginInv, ConsumerInv, Laying
<1>5. WindowsInv'
  BY <1>0, <1>1, <1>2 DEF WindowsInv, Laying
<1>6. OneTransit'
  BY <1>0, <1>1, <1>3 DEF OneTransit, Transit
<1>7. AloneInv'
  BY <1>0, <1>1 DEF AloneInv, Active
<1>8. ASSUME NEW q \in Producers PROVE ReadInv(q)' /\ SliceInv(q)'
  <2>1. CASE q # p
    BY <1>0, <1>1, <1>2, <1>3, <2>1 DEF ReadInv, SliceInv, Active, Filling
  <2>2. CASE q = p
    BY <1>0, <1>1, <1>2, <2>2 DEF ReadInv, SliceInv, Active, Filling, Transit
  <2> QED
    BY <2>1, <2>2
<1> QED
  BY <1>4, <1>5, <1>6, <1>7, <1>8

\* The elected producer replaces the window the consumer has left.
LEMMA CursorRemap ==
  ASSUME WindowHyp, RingInv, CursorInv, NEW p \in Producers, Remap(p)
  PROVE  CursorInv'
<1>0. /\ pc \in [Producers -> Pcs] /\ node \in [Producers -> Nat] /\ seen \in [Producers -> Nat]
      /\ curSafe \in Nat /\ cur \in Nat /\ consumer \in Nat /\ bufs \in [0 .. 1 -> Nat]
  BY DEF RingInv, Types, LocalType, CursorType, CountType
<1>1. /\ Laying /\ Active(p)
      /\ UNCHANGED <<mainVars, countVars, work, node, seen, held, cur, curSafe>>
      /\ pc[p] = "remap" /\ pc' = [pc EXCEPT ![p] = "bump"]
      /\ Window(node[p]) = curSafe + 1 /\ 1 <= curSafe /\ curSafe * W <= consumer
      /\ bufs' = [bufs EXCEPT ![(curSafe + 1) % 2] = curSafe + 1]
  BY RunsWhileLaying DEF Remap, RearBuf, Goto, Active, CursorInv, SliceInv, Transit
<1>2. \A q \in Producers \ {p} : pc[q] \notin Transit
  BY <1>1 DEF CursorInv, OneTransit, Transit
<1>3. bufs'[curSafe % 2] = bufs[curSafe % 2] /\ bufs'[(curSafe + 1) % 2] = curSafe + 1
  BY <1>0, <1>1, Parity
<1> USE DEF mainVars, countVars, CursorInv
<1>4. BeginInv' /\ ConsumerInv'
  BY <1>1 DEF BeginInv, ConsumerInv, Laying
<1>5. WindowsInv'
  BY <1>0, <1>1, <1>3 DEF WindowsInv, Laying
<1>6. OneTransit'
  BY <1>0, <1>1, <1>2 DEF OneTransit, Transit
<1>7. AloneInv'
  BY <1>0, <1>1 DEF AloneInv, Active
<1>8. ASSUME NEW q \in Producers PROVE ReadInv(q)' /\ SliceInv(q)'
  <2>1. CASE q # p
    BY <1>0, <1>1, <1>2, <2>1 DEF ReadInv, SliceInv, Active, Filling, Transit
  <2>2. CASE q = p
    BY <1>0, <1>1, <1>3, <2>2 DEF ReadInv, SliceInv, Active, Filling, Transit
  <2> QED
    BY <2>1, <2>2
<1> QED
  BY <1>4, <1>5, <1>6, <1>7, <1>8

\* The transition is over: the new window is safe.
LEMMA CursorBump ==
  ASSUME WindowHyp, RingInv, CursorInv, NEW p \in Producers, Bump(p)
  PROVE  CursorInv'
<1>0. /\ pc \in [Producers -> Pcs] /\ node \in [Producers -> Nat] /\ seen \in [Producers -> Nat]
      /\ curSafe \in Nat /\ cur \in Nat /\ consumer \in Nat /\ curProducer \in Nat
      /\ \A q \in Producers : Active(q) => node[q] \in Nat \ {0}
  BY ConstAssumption DEF RingInv, Types, LocalType, CursorType, CountType, WorkInv
<1>1. /\ Laying /\ Active(p)
      /\ UNCHANGED <<mainVars, countVars, work, node, seen, held, cur, bufs>>
      /\ pc[p] = "bump" /\ pc' = [pc EXCEPT ![p] = "slice"]
      /\ Window(node[p]) = curSafe + 1 /\ 1 <= curSafe /\ curSafe * W <= consumer
      /\ curSafe' = curSafe + 1 /\ cur = curSafe + 1
      /\ bufs[(curSafe + 1) % 2] = curSafe + 1
  BY RunsWhileLaying DEF Bump, Goto, Active, CursorInv, SliceInv, Transit
<1>2. \A q \in Producers \ {p} : pc[q] \notin Transit
  BY <1>1 DEF CursorInv, OneTransit, Transit
<1>3. \A q \in Producers : Active(q) => Window(node[q]) \in Nat /\ Window(node[q] - 1) \in Nat
  BY <1>0, WindowNat
<1> USE DEF mainVars, countVars, CursorInv
<1>4. BeginInv' /\ ConsumerInv'
  BY <1>1 DEF BeginInv, ConsumerInv, Laying
<1>5. WindowsInv'
  <2>1. bufs[curSafe % 2] = curSafe /\ (curSafe' + 1) % 2 = curSafe % 2
    BY <1>0, <1>1, Parity DEF WindowsInv
  <2>2. Window(curProducer) \in Nat
    BY <1>0, WindowNat
  <2>3. curSafe' - 1 = curSafe
    BY <1>0, <1>1
  <2> QED
    BY <1>0, <1>1, <2>1, <2>2, <2>3 DEF WindowsInv, Laying
<1>6. OneTransit'
  BY <1>0, <1>1, <1>2 DEF OneTransit, Transit
<1>7. AloneInv'
  BY <1>0, <1>1 DEF AloneInv, Active
<1>8. ASSUME NEW q \in Producers PROVE ReadInv(q)' /\ SliceInv(q)'
  <2>1. CASE q # p
    BY <1>0, <1>1, <1>2, <1>3, <2>1 DEF ReadInv, SliceInv, Active, Filling, Transit
  <2>2. CASE q = p
    BY <1>0, <1>1, <1>3, <2>2 DEF ReadInv, SliceInv, Active, Filling, Transit
  <2> QED
    BY <2>1, <2>2
<1> QED
  BY <1>4, <1>5, <1>6, <1>7, <1>8

----------------------------------------------------------------------------
(* The theorems                                                             *)

\* Every step preserves the invariant of the cursor.
LEMMA CursorNext ==
  ASSUME WindowHyp, RingInv, CursorInv, [Next]_vars
  PROVE  CursorInv'
<1>1. CASE UNCHANGED vars
  BY <1>1
  DEF vars, mainVars, localVars, cursorVars, countVars, CursorInv, BeginInv, WindowsInv,
      OneTransit, ConsumerInv, AloneInv, ReadInv, SliceInv, Laying, Active
<1>2. CASE Main
  BY <1>2, CursorBetween, CursorBegin, CursorMain, CursorConsume DEF Main
<1>3. ASSUME NEW p \in Producers, Runner(p)
      PROVE  CursorInv'
  BY <1>3, CursorGrab, CursorPublish, CursorQuiet, CursorCas, CursorSelected, CursorRemap,
     CursorBump
  DEF Runner
<1> QED
  BY <1>1, <1>2, <1>3 DEF Next, Terminated

\* The invariant holds in every state of every execution: the mapped windows are
\* those the cursor says, whatever the interleaving.
THEOREM CursorCorrect ==
  ASSUME WindowHyp
  PROVE  Spec => [](RingInv /\ CursorInv)
<1>1. RingInv /\ CursorInv /\ [Next]_vars => (RingInv /\ CursorInv)'
  BY CursorNext, RingNext
<1>2. Init => RingInv /\ CursorInv
  BY RingInit, CursorInit
<1> QED
  BY <1>1, <1>2, PTL DEF Spec

\* SafeIsMapped: the window that cur_safe announces is mapped, so a producer that
\* has waited for it may read it without a lock.
THEOREM SafeMapped ==
  ASSUME WindowHyp
  PROVE  Spec => []SafeIsMapped
<1>1. RingInv /\ CursorInv => SafeIsMapped
  BY DEF CursorInv, WindowsInv, SafeIsMapped, Laying
<1> QED
  BY <1>1, CursorCorrect, PTL

\* SlicesMapped: no producer and not the hashing thread ever reads a slice whose
\* buffer was remapped to another window.
THEOREM SlicesStayMapped ==
  ASSUME WindowHyp
  PROVE  Spec => []SlicesMapped
<1>1. ASSUME RingInv, CursorInv PROVE SlicesMapped
  <2>1. ASSUME NEW p \in Producers, pc[p] \in Filling PROVE SliceOk(p)
    <3>1. pc[p] \in Busy /\ Laying
      BY <1>1, <2>1, RunsWhileLaying DEF Busy, Filling
    <3>2. node[p] \in Nat /\ consumer <= node[p]
      BY <1>1, <3>1, NextWindow
    <3>3. Window(node[p]) <= curSafe /\ held[p] = Window(node[p])
      BY <1>1, <2>1 DEF CursorInv, ReadInv, Filling
    <3> QED
      BY <1>1, <3>1, <3>2, <3>3, Mapped DEF SliceOk
  <2>2. ASSUME mainPc = "hash" PROVE ConsumerSliceOk
    <3>1. cwin = Window(i) /\ Laying
      BY <1>1, <2>2 DEF CursorInv, ConsumerInv, Laying
    <3>2. i \in Nat /\ consumer = i /\ i <= curProducer /\ curProducer \in Nat /\ curSafe \in Nat
      BY <1>1, <2>2 DEF RingInv, MainInv, Running, Types, MainType, CountType, CursorType
    <3>3. Window(i) <= curSafe
      BY <1>1, <3>1, <3>2, WindowMono, WindowNat DEF CursorInv, WindowsInv
    <3> QED
      BY <1>1, <3>1, <3>2, <3>3, Mapped DEF ConsumerSliceOk
  <2> QED
    BY <2>1, <2>2 DEF SlicesMapped
<1>2. RingInv /\ CursorInv => SlicesMapped
  BY <1>1
<1> QED
  BY <1>2, CursorCorrect, PTL

\* RemapOnlyConsumed: a buffer is remapped only after every node of its window has
\* been hashed.
THEOREM RemapsConsumed ==
  ASSUME WindowHyp
  PROVE  Spec => []RemapOnlyConsumed
<1>1. ASSUME RingInv, CursorInv PROVE RemapOnlyConsumed
  <2> SUFFICES ASSUME NEW p \in Producers, pc[p] = "remap"
               PROVE  consumer >= (bufs[RearBuf(p)] + 1) * W
    BY DEF RemapOnlyConsumed
  <2>1. /\ Laying /\ Window(node[p]) = curSafe + 1 /\ 1 <= curSafe
        /\ curSafe * W <= consumer /\ curSafe \in Nat /\ consumer \in Nat
    BY <1>1, RunsWhileLaying
    DEF CursorInv, SliceInv, Transit, RingInv, Types, CursorType, CountType
  <2>2. \A q \in Producers : pc[q] # "bump"
    BY <1>1 DEF CursorInv, OneTransit, Transit
  <2>3. bufs[RearBuf(p)] + 1 = curSafe
    BY <1>1, <2>1, <2>2 DEF CursorInv, WindowsInv, RearBuf
  <2> QED
    BY <2>1, <2>3, ConstAssumption
<1>2. RingInv /\ CursorInv => RemapOnlyConsumed
  BY <1>1
<1> QED
  BY <1>2, CursorCorrect, PTL

----------------------------------------------------------------------------
(* Waiting for a transition                                                 *)

\* The ring is shorter than half a window.  The defaults satisfy it when encoding
\* (1598 < 2048) and not when decoding (1024), where multi_missed shows a producer
\* that misses two transitions.
NarrowHyp == ~WeakCas /\ 2 * Lookahead - 2 < W

\* The hypothesis of CursorSound includes that of the other theorems.
LEMMA NarrowIsWindow == NarrowHyp => WindowHyp
  BY ConstAssumption DEF NarrowHyp, WindowHyp

\* A producer that waits for a transition lies near the start of its window, and
\* curSafe has moved by at most one since it looked.
AwaitInv ==
    \A p \in Producers : pc[p] \in {"select", "await"} =>
        node[p] <= (seen[p] + 1) * W + Lookahead - 1 /\ curSafe <= seen[p] + 1

\* What a producer that is about to wait has just read is the window before its
\* own, and its node lies near the start of its window.
LEMMA AwaitLoad ==
  ASSUME WindowHyp, RingInv, CursorInv, NEW p \in Producers, LoadSafe(p), pc'[p] = "select"
  PROVE  /\ node'[p] <= (seen'[p] + 1) * W + Lookahead - 1
         /\ curSafe' <= seen'[p] + 1
<1>1. /\ pc[p] = "loadSafe" /\ seen'[p] = curSafe /\ UNCHANGED <<node, curSafe>>
      /\ curSafe \in Nat /\ curProducer \in Nat /\ consumer \in Nat /\ node[p] \in Nat
      /\ pc[p] \in Busy /\ Laying
  BY RunsWhileLaying
  DEF LoadSafe, Goto, CursorSeen, cursorVars, RingInv, Types, LocalType, CursorType, CountType,
      Busy, Slicing
<1>2. /\ node[p] <= consumer + Lookahead - 1 /\ consumer <= curProducer + 1
      /\ Window(curProducer) <= curSafe
  BY <1>1 DEF RingInv, WorkInv, MainInv, CursorInv, WindowsInv, Laying
<1>3. /\ curProducer < (Window(curProducer) + 1) * W
      /\ (Window(curProducer) + 1) * W <= (curSafe + 1) * W
      /\ (Window(curProducer) + 1) * W \in Nat /\ (curSafe + 1) * W \in Nat
  BY <1>1, <1>2, WindowBounds, TimesMono, ConstAssumption
<1> QED
  BY <1>1, <1>2, <1>3, ConstAssumption

\* No transition completes twice while a producer waits for the first.
LEMMA AwaitBump ==
  ASSUME NarrowHyp, RingInv, CursorInv, AwaitInv, NEW p \in Producers, Bump(p),
         NEW q \in Producers, pc[q] \in {"select", "await"}
  PROVE  curSafe + 1 <= seen[q] + 1
<1>1. WindowHyp /\ pc[p] = "bump" /\ pc[p] \in Busy /\ pc[q] \in Busy
  BY NarrowIsWindow DEF Bump, Goto, Busy, Slicing
<1>2. /\ node[p] \in Nat /\ node[q] \in Nat /\ consumer \in Nat /\ consumer <= node[q]
      /\ curSafe \in Nat /\ seen[q] \in Nat /\ node[p] <= consumer + Lookahead - 1
  BY <1>1, NextWindow DEF RingInv, Types, LocalType, WorkInv
<1>3. /\ Window(node[p]) = curSafe + 1 /\ curSafe <= seen[q] + 1
      /\ node[q] <= (seen[q] + 1) * W + Lookahead - 1
  BY <1>1 DEF CursorInv, SliceInv, Transit, AwaitInv
<1>4. SUFFICES ASSUME curSafe = seen[q] + 1 PROVE FALSE
  BY <1>2, <1>3
<1>5. (curSafe + 1) * W <= node[p] /\ (curSafe + 1) * W = curSafe * W + W
  <2>1. Window(node[p]) * W <= node[p]
    BY <1>2, WindowBounds
  <2>2. (curSafe + 1) * W <= node[p]
    BY <1>3, <2>1
  <2> QED
    BY <1>2, <2>2, ConstAssumption
<1>6. node[q] <= curSafe * W + Lookahead - 1 /\ curSafe * W \in Nat
  BY <1>2, <1>3, <1>4, ConstAssumption
<1> QED
  BY <1>2, <1>5, <1>6, ConstAssumption DEF NarrowHyp

\* Every step keeps AwaitInv.
LEMMA AwaitNext ==
  ASSUME NarrowHyp, RingInv, CursorInv, AwaitInv, [Next]_vars
  PROVE  AwaitInv'
<1>0. /\ pc \in [Producers -> Pcs] /\ node \in [Producers -> Nat] /\ seen \in [Producers -> Nat]
      /\ curSafe \in Nat
  BY DEF RingInv, Types, LocalType, CursorType
<1>1. CASE UNCHANGED vars
  BY <1>1 DEF vars, localVars, cursorVars, AwaitInv
<1>2. CASE Main
  <2>1. CASE UNCHANGED <<localVars, curSafe>>
    BY <2>1 DEF localVars, AwaitInv
  <2>2. CASE BeginLayer
    BY <2>2 DEF BeginLayer, AwaitInv
  <2> QED
    BY <1>2, <2>1, <2>2
    DEF Main, SkipLayer, NodeZero, StoreConsumer, LoadProducer, Refill, Hash,
        IncrementConsumer, Join, cursorVars
<1>3. ASSUME NEW p \in Producers, Runner(p)
      PROVE  AwaitInv'
  <2>1. ASSUME NEW q \in Producers, q # p
        PROVE  pc'[q] = pc[q] /\ node'[q] = node[q] /\ seen'[q] = seen[q]
    BY <1>0, <1>3, <2>1
    DEF Runner, Grab, Room, CasCur, CasSafe, LoadSafe, Selected, NotSelected, WaitConsumer,
        Remap, Bump, Await, Slice, FillHead, FillBase, FillExp, Turn, Publish, Goto
  <2>2. CASE LoadSafe(p)
    BY <1>0, <2>1, <2>2, AwaitLoad, NarrowIsWindow
    DEF AwaitInv, LoadSafe, Goto, cursorVars
  <2>3. CASE NotSelected(p)
    BY <1>0, <2>1, <2>3 DEF AwaitInv, NotSelected, Goto, cursorVars
  <2>4. CASE CasSafe(p)
    BY <1>0, <2>1, <2>4 DEF AwaitInv, CasSafe, Goto, CursorInv, SliceInv
  <2>5. CASE Bump(p)
    BY <1>0, <2>1, <2>5, AwaitBump DEF AwaitInv, Bump, Goto
  <2>6. CASE ~(LoadSafe(p) \/ NotSelected(p) \/ CasSafe(p) \/ Bump(p))
    <3>1. curSafe' = curSafe /\ pc'[p] \notin {"select", "await"}
      BY <1>0, <1>3, <2>6
      DEF Runner, Grab, Room, CasCur, Selected, WaitConsumer, Remap, Await, Slice, FillHead,
          FillBase, FillExp, Turn, Publish, Goto, cursorVars
    <3> QED
      BY <2>1, <3>1 DEF AwaitInv
  <2> QED
    BY <2>2, <2>3, <2>4, <2>5, <2>6
<1> QED
  BY <1>1, <1>2, <1>3 DEF Next, Terminated

\* CursorOK: at most one producer is in transition, and one that waits in
\* "await" sees the very transition it waits for, so that its loop on
\* cur_safe ends with the window it needs.
THEOREM CursorSound ==
  ASSUME NarrowHyp
  PROVE  Spec => []CursorOK
<1>1. Init => AwaitInv
  BY DEF Init, AwaitInv
<1>2. RingInv /\ CursorInv /\ AwaitInv /\ [Next]_vars => AwaitInv'
  BY AwaitNext
<1>3. RingInv /\ CursorInv /\ AwaitInv => CursorOK
  BY DEF CursorInv, OneTransit, Transit, AwaitInv, CursorOK
<1>4. Spec => [](RingInv /\ CursorInv)
  BY CursorCorrect, NarrowIsWindow
<1> QED
  BY <1>1, <1>2, <1>3, <1>4, PTL DEF Spec
============================================================================

------------------------------ MODULE MultiSDR ------------------------------
(***************************************************************************)
(* Multicore SDR label generation: create_label/multi.rs (the hashing      *)
(* thread and the producer threads of create_layer_labels), utils.rs (the  *)
(* ring buffer and the bit masks) and memory_handling.rs (CacheReader: two *)
(* memory-mapped windows on the parent cache and the IncrementingCursor    *)
(* that elects the producer which remaps them).                            *)
(*                                                                         *)
(* A label is an integer: 0 is fresh memory, l >= 1 the right final label  *)
(* of layer l, PreHash the first SHA block a producer leaves in the node's *)
(* place, Bad a label computed from anything else.  A ring slot records    *)
(* for which node it was filled and which of its blocks hold right data:   *)
(* k \in Base for the k-th base parent, Exp for the expander parents.      *)
(* All atomics are SeqCst, so the threads interleave at these steps.       *)
(***************************************************************************)
EXTENDS Integers

CONSTANTS
    N,                  \* num_nodes
    Layers,             \* number of layers
    K,                  \* BASE_DEGREE
    Parent,             \* Parent[n][k]: k-th base parent of node n >= 1
    W,                  \* nodes in one window of the parent cache
    Lookahead,          \* multicore_sdr_lookahead, the slots of the ring
    StrideSetting,      \* multicore_sdr_producer_stride
    Producers,          \* the producer threads
    MinBaseParentNode,  \* MIN_BASE_PARENT_NODE
    WeakCas,            \* compare_exchange_weak may fail spuriously
    Generated           \* the layers prepare_layers finds complete on disk

ASSUME ConstAssumption ==
    /\ N \in Nat \ {0} /\ Layers \in Nat \ {0} /\ K \in Nat \ {0}
    /\ W \in Nat \ {0} /\ Lookahead \in Nat \ {0}
    /\ StrideSetting \in Nat \ {0}
    /\ MinBaseParentNode \in Nat
    /\ WeakCas \in BOOLEAN
    /\ Generated \subseteq 1 .. Layers

Nodes == 0 .. N - 1
Base  == 1 .. K
Slots == 0 .. Lookahead - 1

\* drgraph.rs: every base parent of a node other than 0 precedes it.
ASSUME ParentAssumption ==
    /\ Parent \in [Nodes -> [Base -> Nodes]]
    /\ \A n \in Nodes \ {0} : \A k \in Base : Parent[n][k] < n

PreHash == -1
Bad     == -2
Exp     == 0

\* CacheReader::window_nodes: the nodes of the whole cache file, not of a window.
WindowNodes == N

\* producer_stride: the setting, at most window_nodes().
Stride == IF StrideSetting < WindowNodes THEN StrideSetting ELSE WindowNodes

Window(n) == n \div W
SlotOf(n) == (n - 1) % Lookahead

VARIABLES
    layer,        \* the layer being created
    mainPc,       \* the hashing thread
    i,            \* the node the hashing thread is at
    producerVal,  \* its last load of cur_producer
    cwin,         \* the window its slice cur_parent_ptr points into
    consumer,     \* CacheReader.consumer
    curProducer,  \* cur_producer: highest node that is ready
    curAwaiting,  \* cur_awaiting: first node no producer has taken
    cur,          \* IncrementingCursor.cur
    curSafe,      \* IncrementingCursor.cur_safe
    bufs,         \* CacheReader.bufs: the window each buffer maps
    pc, work, node, base, seen, held,  \* the producers' locals (reset out of scope)
    slotNode, slotData, missing,       \* ring_buf and base_parent_missing
    layerLabels, expLabels,            \* the two label buffers
    stored        \* the layers whose file on disk holds their right labels

mainVars  == <<layer, mainPc, i, producerVal, cwin>>
localVars == <<pc, work, node, base, seen, held>>
ringVars  == <<slotNode, slotData, missing>>
labelVars == <<layerLabels, expLabels, stored>>
cursorVars == <<cur, curSafe, bufs>>
countVars == <<consumer, curProducer, curAwaiting>>
vars == <<mainVars, localVars, ringVars, labelVars, cursorVars, countVars>>

----------------------------------------------------------------------------
(* The hashing thread                                                       *)

Init ==
    /\ layer = 1 /\ mainPc = "begin" /\ i = 0 /\ producerVal = 0 /\ cwin = 0
    /\ consumer = 0 /\ curProducer = 0 /\ curAwaiting = 1
    /\ cur = 0 /\ curSafe = 0 /\ bufs = [b \in 0 .. 1 |-> b]
    /\ pc = [p \in Producers |-> "done"]
    /\ work = [p \in Producers |-> 0]
    /\ node = [p \in Producers |-> 0]
    /\ base = [p \in Producers |-> 1]
    /\ seen = [p \in Producers |-> 0]
    /\ held = [p \in Producers |-> 0]
    /\ slotNode = [s \in Slots |-> 0]
    /\ slotData = [s \in Slots |-> {}]
    /\ missing = [s \in Slots |-> {}]
    /\ layerLabels = [n \in Nodes |-> 0]
    /\ expLabels = [n \in Nodes |-> 0]
    /\ stored = Generated

\* A layer found on disk is not labelled again: read_layer loads it into
\* exp_labels, layer_labels and the cache reader stay as they are.
LayerRead == [n \in Nodes |-> IF layer \in stored THEN layer ELSE Bad]

SkipLayer ==
    /\ mainPc = "begin"
    /\ layer \in Generated
    /\ expLabels' = LayerRead
    /\ IF layer # Layers THEN layer' = layer + 1 /\ UNCHANGED mainPc
                         ELSE mainPc' = "done" /\ UNCHANGED layer
    /\ UNCHANGED <<i, producerVal, cwin, localVars, ringVars, layerLabels, stored, cursorVars,
                   countVars>>

\* finish_reset: map the second window again, rewind the cursor and the consumer.
Bug_FinishReset ==
    bufs' = [bufs EXCEPT ![1] = 1] /\ cur' = 0 /\ curSafe' = 0 /\ UNCHANGED consumer

FinishReset ==
    /\ bufs' = [bufs EXCEPT ![1] = 1]
    /\ cur' = 0 /\ curSafe' = 0
    /\ consumer' = 0

\* create_layer_labels up to the spawning of the producers.
BeginLayer ==
    /\ mainPc = "begin"
    /\ layer \notin Generated
    /\ IF Layers # 1 THEN FinishReset ELSE UNCHANGED <<cursorVars, consumer>>
    /\ slotNode' = [s \in Slots |-> 0]
    /\ slotData' = [s \in Slots |-> {}]
    /\ missing' = [s \in Slots |-> {}]
    /\ curProducer' = 0 /\ curAwaiting' = 1
    /\ pc' = [p \in Producers |-> "grab"]
    /\ mainPc' = "node0" /\ i' = 0
    /\ UNCHANGED <<layer, producerVal, cwin, work, node, base, seen, held, labelVars>>

\* consumer_slice_at(DEGREE) and the label of node 0, with the producers running.
NodeZero ==
    /\ mainPc = "node0"
    /\ cwin' = bufs[Window(1) % 2]
    /\ layerLabels' = [layerLabels EXCEPT ![0] = layer]
    /\ mainPc' = "store"
    /\ UNCHANGED <<layer, i, producerVal, localVars, ringVars, expLabels, stored, cursorVars,
                   countVars>>

StoreConsumer ==
    /\ mainPc = "store"
    /\ consumer' = 1 /\ i' = 1
    /\ mainPc' = IF 1 < N THEN "load" ELSE "join"
    /\ UNCHANGED <<layer, producerVal, cwin, localVars, ringVars, labelVars, cursorVars,
                   curProducer, curAwaiting>>

\* Wait until a producer has published node i; every published node is then ready.
LoadProducer ==
    /\ mainPc = "load"
    /\ curProducer >= i
    /\ producerVal' = curProducer
    /\ mainPc' = "refill"
    /\ UNCHANGED <<layer, i, cwin, localVars, ringVars, labelVars, cursorVars, countVars>>

\* The slice of a window is used up when i enters the next one.
Refill ==
    /\ mainPc = "refill"
    /\ cwin' = IF i > 1 /\ i % W = 0 THEN bufs[Window(i) % 2] ELSE cwin
    /\ mainPc' = "hash"
    /\ UNCHANGED <<layer, i, producerVal, localVars, ringVars, labelVars, cursorVars, countVars>>

\* The slice the hashing thread reads parents from is the one of node i, still mapped.
ConsumerSliceOk == cwin = Window(i) /\ bufs[cwin % 2] = cwin

\* Everything that goes into the hash of node i is what it should be.
InputsRight ==
    LET s == SlotOf(i) IN
    /\ slotNode[s] = i
    /\ Exp \in slotData[s]
    /\ layerLabels[i] = PreHash
    /\ \A k \in Base :
          IF k \in missing[s]
          THEN ConsumerSliceOk /\ layerLabels[Parent[i][k]] = layer
          ELSE k \in slotData[s]

Hash ==
    /\ mainPc = "hash"
    /\ layerLabels' = [layerLabels EXCEPT ![i] = IF InputsRight THEN layer ELSE Bad]
    /\ mainPc' = "incr"
    /\ UNCHANGED <<layer, i, producerVal, cwin, localVars, ringVars, expLabels, stored,
                   cursorVars, countVars>>

IncrementConsumer ==
    /\ mainPc = "incr"
    /\ consumer' = consumer + 1
    /\ i' = i + 1
    /\ mainPc' = IF i + 1 <= producerVal THEN "refill"
                 ELSE IF i + 1 < N THEN "load" ELSE "join"
    /\ UNCHANGED <<layer, producerVal, cwin, localVars, ringVars, labelVars, cursorVars,
                   curProducer, curAwaiting>>

\* Join the producers; start_reset unless this was the last layer; swap the
\* buffers and store the layer.
Join ==
    /\ mainPc = "join"
    /\ \A p \in Producers : pc[p] = "done"
    /\ layerLabels' = expLabels /\ expLabels' = layerLabels
    /\ stored' = stored \cup {l \in {layer} : \A n \in Nodes : layerLabels[n] = l}
    /\ IF layer # Layers
       THEN /\ bufs' = [bufs EXCEPT ![0] = 0]
            /\ layer' = layer + 1
            /\ mainPc' = "begin"
       ELSE /\ mainPc' = "done"
            /\ UNCHANGED <<bufs, layer>>
    /\ UNCHANGED <<i, producerVal, cwin, localVars, ringVars, cur, curSafe, countVars>>

Main == SkipLayer \/ BeginLayer \/ NodeZero \/ StoreConsumer \/ LoadProducer \/ Refill
            \/ Hash \/ IncrementConsumer \/ Join

----------------------------------------------------------------------------
(* A producer: create_label_runner                                          *)

Goto(p, from, to) == pc[p] = from /\ pc' = [pc EXCEPT ![p] = to]

Count(w) == IF w + Stride > N THEN N - w ELSE Stride

\* Take the next stride, or stop when no node is left.
Bug_NoWorkLeft == curAwaiting > N

NoWorkLeft == curAwaiting >= N

Grab(p) ==
    /\ Goto(p, "grab", IF NoWorkLeft THEN "done" ELSE "room")
    /\ work' = [work EXCEPT ![p] = curAwaiting]
    /\ node' = [node EXCEPT ![p] = curAwaiting]
    /\ curAwaiting' = curAwaiting + Stride
    /\ UNCHANGED <<mainVars, base, seen, held, ringVars, labelVars, cursorVars, consumer,
                   curProducer>>

\* Don't overrun the buffer.
Bug_HasRoom(p) == node[p] <= consumer + Lookahead

HasRoom(p) == node[p] <= consumer + Lookahead - 1

Room(p) ==
    /\ Goto(p, "room", IF Window(node[p]) = 1 THEN "casCur" ELSE "loadSafe")
    /\ HasRoom(p)
    /\ UNCHANGED <<mainVars, work, node, base, seen, held, ringVars, labelVars, cursorVars,
                   countVars>>

\* compare_and_swap: whether the exchange fails although the value matches.
Spurious == IF WeakCas THEN BOOLEAN ELSE {FALSE}

\* slice_at, window 1: it is mapped from the start, so only the cursor moves.
CasCur(p) ==
    /\ Goto(p, "casCur", "casSafe")
    /\ \E fails \in Spurious : cur' = IF cur = 0 /\ ~fails THEN 1 ELSE cur
    /\ UNCHANGED <<mainVars, work, node, base, seen, held, ringVars, labelVars, curSafe, bufs,
                   countVars>>

CasSafe(p) ==
    /\ Goto(p, "casSafe", "loadSafe")
    /\ \E fails \in Spurious : curSafe' = IF curSafe = 0 /\ ~fails THEN 1 ELSE curSafe
    /\ UNCHANGED <<mainVars, work, node, base, seen, held, ringVars, labelVars, cur, bufs,
                   countVars>>

\* IncrementingCursor::increment, target Window(node[p]): cur may already have
\* been moved while the window is not mapped yet, so cur_safe is what is checked.
Bug_CursorSeen == cur

CursorSeen == curSafe

LoadSafe(p) ==
    /\ Goto(p, "loadSafe", IF Window(node[p]) > CursorSeen THEN "select" ELSE "slice")
    /\ seen' = [seen EXCEPT ![p] = CursorSeen]
    /\ UNCHANGED <<mainVars, work, node, base, held, ringVars, labelVars, cursorVars, countVars>>

\* This producer moved cur: it is the one to advance the window.
Bug_CasWins(p) == cur <= seen[p] + 1

CasWins(p) == cur = seen[p]

Selected(p) ==
    /\ Goto(p, "select", "waitConsumer")
    /\ CasWins(p)
    /\ cur' = seen[p] + 1
    /\ UNCHANGED <<mainVars, work, node, base, seen, held, ringVars, labelVars, curSafe, bufs,
                   countVars>>

NotSelected(p) ==
    /\ Goto(p, "select", "await")
    /\ CasWins(p) => WeakCas
    /\ UNCHANGED <<mainVars, work, node, base, seen, held, ringVars, labelVars, cursorVars,
                   countVars>>

\* wait_fn: the hashing thread must have left the window that is to be replaced.
Bug_RearConsumed(p) == consumer >= (Window(node[p]) - 2) * W

RearConsumed(p) == consumer >= (Window(node[p]) - 1) * W

WaitConsumer(p) ==
    /\ Goto(p, "waitConsumer", "remap")
    /\ RearConsumed(p)
    /\ UNCHANGED <<mainVars, work, node, base, seen, held, ringVars, labelVars, cursorVars,
                   countVars>>

\* advance_rear_window
Bug_RearBuf(p) == (Window(node[p]) + 1) % 2

RearBuf(p) == Window(node[p]) % 2

Remap(p) ==
    /\ Goto(p, "remap", "bump")
    /\ bufs' = [bufs EXCEPT ![RearBuf(p)] = Window(node[p])]
    /\ UNCHANGED <<mainVars, work, node, base, seen, held, ringVars, labelVars, cur, curSafe,
                   countVars>>

Bug_Bump(p) == Goto(p, "bump", "slice") /\ UNCHANGED <<mainVars, work, node, base, seen, held,
    ringVars, labelVars, cursorVars, countVars>>

Bump(p) ==
    /\ Goto(p, "bump", "slice")
    /\ curSafe' = curSafe + 1
    /\ UNCHANGED <<mainVars, work, node, base, seen, held, ringVars, labelVars, cur, bufs,
                   countVars>>

\* A producer that was not selected spins until cur_safe is exactly one more.
Await(p) ==
    /\ Goto(p, "await", "slice")
    /\ curSafe = seen[p] + 1
    /\ UNCHANGED <<mainVars, work, node, base, seen, held, ringVars, labelVars, cursorVars,
                   countVars>>

\* The end of slice_at: take the slice of the buffer that should map the window.
Slice(p) ==
    /\ Goto(p, "slice", "fill")
    /\ held' = [held EXCEPT ![p] = bufs[Window(node[p]) % 2]]
    /\ seen' = [seen EXCEPT ![p] = 0]
    /\ UNCHANGED <<mainVars, work, node, base, ringVars, labelVars, cursorVars, countVars>>

----------------------------------------------------------------------------
(* fill_buffer                                                              *)

\* The slice p holds is the one of its node and its buffer is still mapped.
SliceOk(p) == held[p] = Window(node[p]) /\ bufs[held[p] % 2] = held[p]

\* First hash into the node's own place; the last base parent, or below
\* MIN_BASE_PARENT_NODE every one, is left to the hashing thread.  The bits of
\* an earlier node of the slot are never cleared.
FillHead(p) ==
    LET s == SlotOf(node[p])
        late == node[p] <= MinBaseParentNode
    IN
    /\ Goto(p, "fill", IF late \/ K = 1 THEN "fillExp" ELSE "fillBase")
    /\ layerLabels' = [layerLabels EXCEPT ![node[p]] = PreHash]
    /\ slotNode' = [slotNode EXCEPT ![s] = node[p]]
    /\ slotData' = [slotData EXCEPT ![s] = {}]
    /\ missing' = [missing EXCEPT ![s] = @ \cup (IF late THEN Base ELSE {K})]
    /\ UNCHANGED <<mainVars, work, node, base, seen, held, expLabels, stored, cursorVars,
                   countVars>>

\* A base parent the hashing thread has not labelled yet.
Bug_NotReady(parent) == parent > consumer

NotReady(parent) == parent >= consumer

\* One base parent: copied if the consumer is past it, else marked missing.
\* What a bad slice yields is arbitrary, so it may go either way.
FillBase(p) ==
    LET s == SlotOf(node[p])
        parent == Parent[node[p]][base[p]]
    IN
    /\ Goto(p, "fillBase", IF base[p] + 1 = K THEN "fillExp" ELSE "fillBase")
    /\ base' = [base EXCEPT ![p] = @ + 1]
    /\ \/ /\ SliceOk(p) => NotReady(parent)
          /\ missing' = [missing EXCEPT ![s] = @ \cup {base[p]}]
          /\ UNCHANGED slotData
       \/ /\ SliceOk(p) => ~NotReady(parent)
          /\ slotData' = [slotData EXCEPT ![s] =
                @ \cup (IF SliceOk(p) /\ layerLabels[parent] = layer THEN {base[p]} ELSE {})]
          /\ UNCHANGED missing
    /\ UNCHANGED <<mainVars, work, node, seen, held, slotNode, labelVars, cursorVars, countVars>>

\* The expander parents, from the layer before; then the next node of the stride.
ExpReady == layer = 1 \/ \A n \in Nodes : expLabels[n] = layer - 1

FillExp(p) ==
    LET s == SlotOf(node[p]) IN
    /\ Goto(p, "fillExp", IF node[p] + 1 < work[p] + Count(work[p]) THEN "room" ELSE "turn")
    /\ slotData' = [slotData EXCEPT ![s] = @ \cup (IF SliceOk(p) /\ ExpReady THEN {Exp} ELSE {})]
    /\ node' = [node EXCEPT ![p] = @ + 1]
    /\ base' = [base EXCEPT ![p] = 1]
    /\ held' = [held EXCEPT ![p] = 0]
    /\ UNCHANGED <<mainVars, work, seen, slotNode, missing, labelVars, cursorVars,
                   countVars>>

\* Wait for the strides before this one, then publish.
Bug_MyTurn(p) == TRUE

MyTurn(p) == work[p] <= curProducer + 1

Turn(p) ==
    /\ Goto(p, "turn", "publish")
    /\ MyTurn(p)
    /\ UNCHANGED <<mainVars, work, node, base, seen, held, ringVars, labelVars, cursorVars,
                   countVars>>

Publish(p) ==
    /\ Goto(p, "publish", "grab")
    /\ curProducer' = curProducer + Count(work[p])
    /\ UNCHANGED <<mainVars, work, node, base, seen, held, ringVars, labelVars, cursorVars,
                   consumer, curAwaiting>>

Runner(p) == \/ Grab(p) \/ Room(p) \/ CasCur(p) \/ CasSafe(p) \/ LoadSafe(p)
             \/ Selected(p) \/ NotSelected(p) \/ WaitConsumer(p) \/ Remap(p) \/ Bump(p)
             \/ Await(p) \/ Slice(p) \/ FillHead(p) \/ FillBase(p) \/ FillExp(p)
             \/ Turn(p) \/ Publish(p)

Terminated == mainPc = "done" /\ UNCHANGED vars

Next == Main \/ (\E p \in Producers : Runner(p)) \/ Terminated

Spec == Init /\ [][Next]_vars

\* Every thread keeps being scheduled (the spins sleep or yield to the others).
FairSpec == Spec /\ WF_vars(Main) /\ \A p \in Producers : WF_vars(Runner(p))
----------------------------------------------------------------------------
(* Properties                                                               *)

MainPcs == {"begin", "node0", "store", "load", "refill", "hash", "incr", "join", "done"}
\* Positions inside slice_at and fill_buffer, and all that lie inside the stride.
Slicing == {"casCur", "casSafe", "loadSafe", "select", "waitConsumer", "remap", "bump",
            "await", "slice"}
Filling == {"fill", "fillBase", "fillExp"}
Busy    == Slicing \cup Filling
Pcs     == Busy \cup {"grab", "room", "turn", "publish", "done"}
Labels  == {PreHash, Bad} \cup 0 .. Layers

\* The hashing thread is between the spawning and the joining of the producers.
Running == mainPc \in {"load", "refill", "hash", "incr"}

MainType == /\ layer \in 1 .. Layers /\ mainPc \in MainPcs
            /\ i \in 0 .. N /\ producerVal \in 0 .. N - 1 /\ cwin \in Nat

CountType == consumer \in 0 .. N /\ curProducer \in 0 .. N - 1 /\ curAwaiting \in Nat \ {0}

CursorType == cur \in Nat /\ curSafe \in Nat /\ bufs \in [0 .. 1 -> Nat]

LocalType == /\ pc \in [Producers -> Pcs]
             /\ work \in [Producers -> Nat] /\ node \in [Producers -> Nat]
             /\ base \in [Producers -> Nat \ {0}] /\ seen \in [Producers -> Nat]
             /\ held \in [Producers -> Nat]

RingType == /\ slotNode \in [Slots -> Nodes]
            /\ slotData \in [Slots -> SUBSET (0 .. K)]
            /\ missing \in [Slots -> SUBSET Base]

LabelType == /\ layerLabels \in [Nodes -> Labels] /\ expLabels \in [Nodes -> Labels]
             /\ stored \subseteq 1 .. Layers

\* Type invariant of create_layer_labels; a producer only ever works on nodes
\* below num_nodes, and cur_producer never names a node that does not exist.
TypeOK ==
    /\ MainType /\ CountType /\ CursorType /\ LocalType /\ RingType /\ LabelType
    /\ \A p \in Producers : pc[p] \in Busy \cup {"room"} => node[p] \in 1 .. N - 1

\* multi.rs:129-134.  The consumer, the published nodes and the work handed out
\* stay in this order, and nobody fills a node before the hashing thread freed
\* the ring slot it goes to.
OrderOK ==
    /\ mainPc \notin {"begin", "done"} => consumer <= curProducer + 1
    /\ \A p \in Producers :
          /\ pc[p] \notin {"grab", "done"} => curProducer < work[p] /\ work[p] < curAwaiting
          /\ pc[p] \in Busy => node[p] < consumer + Lookahead

\* Nobody else touches a ring slot while a producer fills it: neither another
\* producer nor the hashing thread, nor is a published node waiting in it.
SlotExclusive ==
    \A p \in Producers : pc[p] \in Filling =>
        /\ \A q \in Producers \ {p} : pc[q] \in Filling =>
              SlotOf(node[q]) # SlotOf(node[p])
        /\ \A n \in Nodes \ {0} : consumer <= n /\ n <= curProducer =>
              SlotOf(n) # SlotOf(node[p])

\* Every node a producer has published and the hashing thread has not consumed
\* sits complete in its slot: nodes become visible in order, none half filled.
PublishedReady ==
    Running => \A n \in Nodes \ {0} : i < n /\ n <= curProducer =>
        /\ slotNode[SlotOf(n)] = n
        /\ Exp \in slotData[SlotOf(n)]
        /\ layerLabels[n] = PreHash

\* memory_handling.rs:207-209: a buffer is remapped only after the consumer has
\* left the window it maps.
RemapOnlyConsumed ==
    \A p \in Producers : pc[p] = "remap" =>
        consumer >= (bufs[RearBuf(p)] + 1) * W

\* Slices of the parent cache are the wanted ones and stay mapped while in use,
\* by a producer in fill_buffer and by the hashing thread.
SlicesMapped ==
    /\ \A p \in Producers : pc[p] \in Filling => SliceOk(p)
    /\ mainPc = "hash" => ConsumerSliceOk

\* memory_handling.rs:65-66 and :82: cur_safe names a window that is mapped.
SafeIsMapped ==
    mainPc \notin {"begin", "done"} => bufs[curSafe % 2] = curSafe

\* memory_handling.rs:43-45: one producer at a time carries out a transition of
\* the cursor, and one that waits for it has not missed it.
CursorOK ==
    \A p \in Producers :
        /\ pc[p] \in {"waitConsumer", "remap", "bump"} =>
              \A q \in Producers \ {p} : pc[q] \notin {"waitConsumer", "remap", "bump"}
        /\ pc[p] = "await" => curSafe <= seen[p] + 1

\* No label is computed from a stale, half written or wrong input, a layer that
\* is joined is complete, and in the end every layer is on disk: the result is
\* that of the sequential algorithm, whichever layers an earlier run had stored.
LabelsRight ==
    /\ \A n \in Nodes : layerLabels[n] # Bad /\ expLabels[n] # Bad
    /\ mainPc = "join" => \A n \in Nodes : layerLabels[n] = layer
    /\ mainPc = "done" => stored = 1 .. Layers /\ \A n \in Nodes : expLabels[n] = Layers

\* Multicore labelling implements the sequential definition: a node is labelled
\* by the hashing thread after its parents, layer after layer (from an empty disk).
Abstract == INSTANCE SDR WITH
    labelled <- IF mainPc = "done" THEN {n \in Nodes : expLabels[n] = layer}
                                   ELSE {n \in Nodes : layerLabels[n] = layer}
ImplementsSDR == Abstract!Spec

\* memory_handling.rs:44-45, "Unselected threads wait until the transition has
\* completed": a producer that waits for a transition goes on after it.
NoMissedTransition == \A p \in Producers : pc[p] = "await" ~> pc[p] = "slice"

\* Label generation ends: no thread waits for ever for another (multi.rs:220-221
\* and memory_handling.rs:44-45).
Termination == <>(mainPc = "done")
============================================================================

------------------------ MODULE SectorUpdate_proofs ------------------------
(***************************************************************************)
(* Proofs about the life of a sector and its update, for any numbers of    *)
(* layers, base trees, tickets, calls and crashes: TypeOK,                 *)
(* AcceptedDecodes, StillProvable, FreshCommits, UpdateStands and          *)
(* KeyRecovered.                                                           *)
(*                                                                         *)
(* The invariant says, for each step a call may be at, what the call has   *)
(* established so far (CallInv), and what each record that outlives a call *)
(* still says about the files: the accepted commit (CommitInv), synthetic  *)
(* proofs (SynthInv), an unbroken pass over phases 1 and 2 (FreshInv), the *)
(* accepted update (UpdInv) and the recovered key (KeyInv).                *)
(***************************************************************************)
EXTENDS SectorUpdate, WellFoundedInduction, TLAPS

\* f is a function.
IsFcn(f) == f = [x \in DOMAIN f |-> f[x]]

\* A missing or torn file is no function: it is not taken for contents, which are
\* sequences, records and functions (TLC's model values are not).
Atoms == \A f : IsFcn(f) => f \notin {None, Torn}

\* A formal sum: it keeps no zero coefficient.
IsSum(v) == IsFcn(v) /\ \A x \in DOMAIN v : v[x] \in Int \ {0}

\* The replica, one sum for each chunk.
Replica(x) == IsFcn(x) /\ DOMAIN x = Chunks /\ \A k \in Chunks : IsSum(x[k])

\* The steps of phases 1 and 2; GenerateTreeC and GenerateTreeRLast share some.
Phase1Steps == {"copy", "treeD", "treeDBuild", "pieces"}
TreeCSteps  == {"treeC", "treeCBuild"}
TreeRSteps  == {"treeR", "treeRBuild"}
AuxSteps    == {"paux", "taux"}
Phase2Steps == TreeCSteps \cup TreeRSteps \cup AuxSteps \cup {"encode"}
UpdateSteps == {"uTreeD", "uEncode", "uTreeR", "uPieces", "uPAux", "uTAux"}

\* The synthetic proofs on disk are not of the replica as it is.
NoCurrent == Readable(cache.synthProofs) => ~cache.synthProofs.current

\* A phase 2 is running; it is past the encoding of the first chunk.
Sealing == pc \in Phase2Steps /\ arg # None
Encoded == Sealing /\ (pc \in TreeRSteps \cup AuxSteps \/ (pc = "encode" /\ i > 1))

\* A layer of labels.
IsLayer(x, l) == x \in [1 .. l -> Tickets]

\* The cache directory.
CacheOK ==
    /\ DOMAIN cache = {"d", "labels", "c", "r", "paux", "taux", "synthProofs"}
    /\ cache.d \in Files \cup StoreOrNone \cup {"labels"}
    /\ IsFcn(cache.labels) /\ DOMAIN cache.labels = Layers
    /\ \A l \in Layers : cache.labels[l] = None \/ IsLayer(cache.labels[l], l)
    /\ IsFcn(cache.c) /\ DOMAIN cache.c = Chunks
    /\ IsFcn(cache.r) /\ DOMAIN cache.r = Chunks
    /\ cache.paux \in StoreOrNone \/ cache.paux = [c |-> cache.paux.c, r |-> cache.paux.r]
    /\ cache.taux \in StoreOrNone \cup {"configs"}

\* The replica, the new replica with its directory, and the records of the caller.
FilesOK ==
    /\ synth \in BOOLEAN /\ multi \in BOOLEAN /\ gpu \in BOOLEAN
    /\ rep \in StoreOrNone \/ Replica(rep)
    /\ DOMAIN new = {"rep", "d", "r", "paux", "taux"}
    /\ IsFcn(new.rep) /\ DOMAIN new.rep = Chunks
    /\ IsFcn(new.r) /\ DOMAIN new.r = Chunks
    /\ new.d \in Staged \cup StoreOrNone
    /\ p1 # None => p1 \in [t : Tickets, d : Files] /\ p1.d = Data
    /\ p2 # None => p2.d = Data
    /\ enc # None => enc.d = NewData

\* The control state and the counters.
ControlOK ==
    /\ fresh \in {"none", "p1", "phase2", "p2"}
    /\ result \in {"ok", "error", "missing", "crash", "running"}
    /\ (pc = "idle") = (i = 0)
    /\ i \in 0 .. LayerCount + TreeCount + 3
    /\ calls \in 0 .. MaxCalls /\ crashes \in 0 .. MaxCrashes

\* What the running call has established.
CallInv ==
    /\ pc \in Phase1Steps =>
          /\ i = 1 /\ arg.t \in Tickets /\ arg.f \in Files
          /\ commit = None /\ NoCurrent /\ fresh = "none"
          /\ pc = "copy" => rep = Torn
          /\ pc # "copy" => Replica(rep)
    /\ pc = "label" =>
          /\ i \in Layers /\ arg.t \in Tickets /\ fresh = "none"
          /\ \A l \in Layers : l < i => IsLayer(cache.labels[l], l)
          /\ arg.f # None =>
                commit = None /\ NoCurrent /\ cache.d = Data /\ Replica(rep)
    /\ pc \in TreeCSteps \cup TreeRSteps => i \in Chunks
    /\ pc \in TreeRSteps => Replica(rep)
    /\ pc = "encode" => i \in Chunks /\ arg # None
    /\ pc \in AuxSteps => i \in 1 .. 2 /\ arg # None
    /\ pc = "clear" => i \in 1 .. 3
    /\ pc = "unseal" => i \in Layers /\ arg.t \in Tickets
    /\ pc \in {"label", "clear", "unseal"} => fresh = "none"
    /\ pc \in Phase2Steps /\ arg = None => fresh = "none"
    /\ Sealing => arg = [f |-> Data] /\ commit = None /\ NoCurrent /\ Replica(rep)
    /\ pc \in UpdateSteps => upd = None
    /\ pc = "uTreeD" => i \in 1 .. 2 /\ arg.f \in Staged
    /\ pc \in {"uEncode", "uPieces"} => i = 1
    /\ pc = "uTreeR" => i \in Chunks
    /\ pc \in {"uPAux", "uTAux"} => i \in 1 .. 2 /\ new.d = NewData
    /\ pc = "remove" =>
          /\ i = 1 /\ enc.d = NewData
          /\ arg.from = "key" => arg.paux = cache.paux

\* The proof p was made from the replica as it is.
Made(p) ==
    /\ Replica(rep) /\ DOMAIN p.leaf \subseteq Chunks
    /\ IsFcn(p.r) /\ DOMAIN p.r = Chunks
    /\ \A k \in DOMAIN p.leaf : p.leaf[k] = rep[k] /\ cache.r[k] \in {Torn, p.leaf[k]}

SynthInv ==
    /\ Readable(cache.synthProofs) /\ cache.synthProofs.current => Made(cache.synthProofs.p)
    /\ Readable(cache.synthProofs) =>
          DOMAIN cache.synthProofs = {"t", "p", "current"} /\ cache.synthProofs.current \in BOOLEAN
    /\ pc = "synth" => i = 1 /\ Made(arg.p)

\* What was accepted is of the data, and still on disk.
CommitInv ==
    commit # None =>
        /\ commit.d = Data
        /\ \A k \in DOMAIN commit.leaf : commit.leaf[k] = Encode(Key(commit.t), Plain(Data))
        /\ commit.current =>
              /\ Replica(rep) /\ DOMAIN commit.leaf \subseteq Chunks
              /\ PAuxOf(cache.paux, commit.r)
              /\ IsFcn(cache.paux.r) /\ DOMAIN cache.paux.r = Chunks
              /\ \A k \in DOMAIN commit.leaf :
                    /\ commit.leaf[k] = rep[k] /\ commit.leaf[k] = cache.paux.r[k]
                    /\ cache.r[k] \in {Torn, commit.leaf[k]}

\* The chunk k of the replica as phase 2 leaves it.
EncodedChunk(k) == rep[k] = Encode(cache.labels[LayerCount], Plain(Data))

\* How far an unbroken pass over phases 1 and 2 has come.
FreshInv ==
    /\ fresh # "none" => p1 # None /\ cache.d = Data /\ Replica(rep)
    /\ fresh = "p1" =>
          /\ ~Sealing
          /\ \A k \in Chunks : rep[k] = Plain(Data)
    /\ fresh = "phase2" =>
          /\ Sealing /\ StoreExists(cache.labels)
          /\ gpu => \A k \in Chunks : (pc \in TreeCSteps => k < i) => cache.c[k] = cache.labels
          /\ \A k \in Chunks :
                IF pc \in AuxSteps \/ (pc \in {"encode"} \cup TreeRSteps /\ k < i)
                      \/ (pc \in TreeRSteps /\ k = i)
                THEN EncodedChunk(k) ELSE rep[k] = Plain(Data)
          /\ \A k \in Chunks :
                pc \in AuxSteps \/ (pc \in {"encode"} \cup TreeRSteps /\ k < i) => cache.r[k] = rep[k]
          /\ pc = "taux" => cache.paux = [c |-> cache.c, r |-> cache.r]
    /\ fresh = "p2" =>
          /\ ~Sealing /\ StoreExists(cache.labels)
          /\ gpu => \A k \in Chunks : cache.c[k] = cache.labels
          /\ \A k \in Chunks : EncodedChunk(k) /\ cache.r[k] = rep[k]
          /\ cache.paux = [c |-> cache.c, r |-> cache.r] /\ cache.taux = "configs"
          /\ p2 = [r |-> CommR(cache.c, cache.r), d |-> Data]
          /\ Readable(cache.synthProofs) /\ cache.synthProofs.current =>
                VerifyAll(cache.synthProofs.p, cache.synthProofs.t, p2)
          /\ pc = "synth" => VerifyAll(arg.p, arg.t, p2)

\* The accepted update is of the two replicas on disk.
UpdInv ==
    /\ upd # None =>
          /\ upd.d = NewData /\ upd.ch \subseteq Chunks
          /\ Replica(rep)
          /\ upd.oldAux =>
                /\ Readable(cache.paux) /\ IsFcn(cache.paux.r) /\ DOMAIN cache.paux.r = Chunks
                /\ \A k \in upd.ch : DecodedFrom(k, NewData) /\ cache.paux.r[k] = rep[k]
          /\ upd.newAux =>
                /\ PAuxOf(new.paux, upd.r) /\ new.paux.r = new.r /\ StoreExists(new.r)
                /\ \A k \in upd.ch : new.rep[k] = new.r[k]
    /\ Encoded => upd = None

\* The recovered key is the replica.
KeyInv ==
    /\ key \notin StoreOrNone =>
          (key.from = "key" /\ key.of # None /\ key.of.ch = Chunks /\ key.of.oldAux =>
              /\ Replica(rep)
              /\ key.rep = rep /\ key.paux = cache.paux)
    /\ Encoded => key = None

\* The inductive invariant.
SectorInv ==
    /\ CacheOK /\ FilesOK /\ ControlOK /\ CallInv
    /\ SynthInv /\ CommitInv /\ FreshInv /\ UpdInv /\ KeyInv

-----------------------------------------------------------------------------
(* Induction over the layers                                                *)

\* A set of numbers that is not empty has a least element.
LEMMA LeastNat == \A T \in SUBSET Nat : T # {} => \E n \in T : \A m \in T : n <= m
<1> SUFFICES ASSUME NEW T \in SUBSET Nat, T # {} PROVE \E n \in T : \A m \in T : n <= m
  OBVIOUS
<1> DEFINE R == OpToRel(<, Nat)
<1>1. \A x, y \in Nat : <<x, y>> \in R <=> x < y
  BY DEF OpToRel
<1>2. IsWellFoundedOn(R, Nat)
  BY NatLessThanWellFounded
<1> HIDE DEF R
<1>3. PICK x \in T : \A y \in T : ~ (<<y, x>> \in R)
  BY <1>2, WFMin, Zenon
<1>4. \A m \in T : ~(m < x)
  BY <1>1, <1>3
<1> QED
  BY <1>4

\* Labels that verify layer by layer for a replica id are those of the replica id:
\* the key of the last layer is what create_key of a fresh computation gives.
LEMMA LabelsUnfold ==
  ASSUME NEW labels, NEW t,
         \A l \in Layers : labels[l] = LabelOver(Below(labels, l), t)
  PROVE  \A l \in Layers : labels[l] = LabelsOf(t, l)
<1> DEFINE T == {l \in Layers : labels[l] # LabelsOf(t, l)}
<1> SUFFICES ASSUME T # {} PROVE FALSE
  OBVIOUS
<1>1. T \in SUBSET Nat
  BY CountsAssumption DEF Layers
<1>2. \A n \in T : n \in Layers /\ labels[n] # LabelsOf(t, n)
  OBVIOUS
<1>3. \A m \in Layers : m \notin T => labels[m] = LabelsOf(t, m)
  OBVIOUS
<1> HIDE DEF T
<1>4. PICK n \in T : \A m \in T : n <= m
  BY <1>1, LeastNat
<1>5. n \in Layers /\ n \in Nat /\ n >= 1
  BY <1>2, CountsAssumption DEF Layers
<1>6. CASE n = 1
  BY <1>2, <1>5, <1>6 DEF Below, LabelsOf, LabelOver
<1>7. CASE n # 1
  <2>1. n - 1 \in Layers
    BY <1>5, <1>7, CountsAssumption DEF Layers
  <2>2. labels[n - 1] = LabelsOf(t, n - 1)
    BY <1>3, <1>4, <1>5, <2>1
  <2>3. labels[n] = Append(LabelsOf(t, n - 1), t)
    BY <1>5, <1>7, <2>2 DEF Below, LabelOver
  <2>4. Append(LabelsOf(t, n - 1), t) = LabelsOf(t, n)
    BY <1>5, <1>7 DEF LabelsOf
  <2> QED
    BY <1>2, <2>3, <2>4
<1> QED
  BY <1>6, <1>7

-----------------------------------------------------------------------------
(* Formal sums and functions                                                *)

\* A function stays one when a value of it is replaced.
LEMMA ExceptFcn ==
  ASSUME NEW f, IsFcn(f), NEW a \in DOMAIN f, NEW v
  PROVE  /\ IsFcn([f EXCEPT ![a] = v]) /\ DOMAIN [f EXCEPT ![a] = v] = DOMAIN f
         /\ \A x \in DOMAIN f : [f EXCEPT ![a] = v][x] = IF x = a THEN v ELSE f[x]
BY DEF IsFcn

\* Functions with the same domain and values are equal.
LEMMA SameFcn ==
  ASSUME NEW f, NEW g, IsFcn(f), IsFcn(g), DOMAIN f = DOMAIN g, \A x \in DOMAIN f : f[x] = g[x]
  PROVE  f = g
BY DEF IsFcn

\* The domain and the values of a sum to which a term was added.
LEMMA PlusIs ==
  ASSUME NEW v, IsSum(v), NEW t, NEW n \in Int \ {0}
  PROVE  /\ IsSum(Plus(v, t, n))
         /\ \A x : x # t => (x \in DOMAIN Plus(v, t, n) <=> x \in DOMAIN v)
         /\ \A x \in DOMAIN Plus(v, t, n) : x # t => Plus(v, t, n)[x] = v[x]
         /\ t \notin DOMAIN v => t \in DOMAIN Plus(v, t, n) /\ Plus(v, t, n)[t] = n
         /\ t \in DOMAIN v /\ v[t] + n # 0 =>
               t \in DOMAIN Plus(v, t, n) /\ Plus(v, t, n)[t] = v[t] + n
         /\ t \in DOMAIN v /\ v[t] + n = 0 => t \notin DOMAIN Plus(v, t, n)
<1> DEFINE s == IF t \in DOMAIN v THEN v[t] + n ELSE n
           D == IF s = 0 THEN DOMAIN v \ {t} ELSE DOMAIN v \cup {t}
<1>1. Plus(v, t, n) = [x \in D |-> IF x = t THEN s ELSE v[x]]
  BY DEF Plus
<1>2. s \in Int /\ \A x \in DOMAIN v : v[x] \in Int \ {0}
  BY DEF IsSum
<1> HIDE DEF s
<1>3. DOMAIN Plus(v, t, n) = D /\ \A x \in D : Plus(v, t, n)[x] = IF x = t THEN s ELSE v[x]
  BY <1>1
<1>4. IsFcn(Plus(v, t, n))
  BY <1>1 DEF IsFcn
<1>5. \A x \in D : (IF x = t THEN s ELSE v[x]) \in Int \ {0}
  BY <1>2
<1>6. IsSum(Plus(v, t, n))
  BY <1>3, <1>4, <1>5 DEF IsSum
<1> QED
  BY <1>2, <1>3, <1>6 DEF s

\* encode and decode, and adding and removing rho * data, undo each other.
LEMMA PlusMinus ==
  ASSUME NEW v, IsSum(v), NEW t
  PROVE  Plus(Plus(v, t, 1), t, -1) = v
<1> DEFINE w == Plus(v, t, 1)
           u == Plus(w, t, -1)
<1>1. IsSum(w) /\ IsSum(u)
  BY PlusIs
<1>2. /\ \A x : x # t => (x \in DOMAIN w <=> x \in DOMAIN v)
      /\ \A x \in DOMAIN w : x # t => w[x] = v[x]
      /\ t \notin DOMAIN v => t \in DOMAIN w /\ w[t] = 1
      /\ t \in DOMAIN v /\ v[t] + 1 # 0 => t \in DOMAIN w /\ w[t] = v[t] + 1
      /\ t \in DOMAIN v /\ v[t] + 1 = 0 => t \notin DOMAIN w
  BY PlusIs
<1>3. /\ \A x : x # t => (x \in DOMAIN u <=> x \in DOMAIN w)
      /\ \A x \in DOMAIN u : x # t => u[x] = w[x]
      /\ t \notin DOMAIN w => t \in DOMAIN u /\ u[t] = -1
      /\ t \in DOMAIN w /\ w[t] + (-1) # 0 => t \in DOMAIN u /\ u[t] = w[t] + (-1)
      /\ t \in DOMAIN w /\ w[t] + (-1) = 0 => t \notin DOMAIN u
  BY <1>1, PlusIs
<1> HIDE DEF u, w
<1>4. t \in DOMAIN v => v[t] \in Int \ {0}
  BY DEF IsSum
<1>5. (t \in DOMAIN u <=> t \in DOMAIN v) /\ (t \in DOMAIN v => u[t] = v[t])
  BY <1>2, <1>3, <1>4
<1>6. DOMAIN u = DOMAIN v /\ \A x \in DOMAIN v : u[x] = v[x]
  BY <1>2, <1>3, <1>5
<1>7. u = v
  BY <1>1, <1>6, SameFcn DEF IsSum
<1> QED
  BY <1>7 DEF u, w

\* Encoding changes a chunk.
LEMMA PlusDiffers ==
  ASSUME NEW v, IsSum(v), NEW t
  PROVE  Plus(v, t, 1) # v
BY PlusIs DEF IsSum

\* A file is a sum.
LEMMA PlainSum == \A f : IsSum(Plain(f))
BY DEF Plain, IsSum, IsFcn

\* Encoding keeps sums, decoding gives back what was encoded.
LEMMA EncodeSum ==
  ASSUME NEW v, IsSum(v), NEW k
  PROVE  IsSum(Encode(k, v)) /\ Encode(k, v) # v /\ Decode(k, Encode(k, v)) = v
BY PlusIs, PlusDiffers, PlusMinus DEF Encode, Decode

-----------------------------------------------------------------------------
(* What a step leaves alone                                                 *)

\* The commit does not notice a rebuilding of tree_r_last.
LEMMA CommitFrame ==
  ASSUME CommitInv, commit' = commit, rep' = rep, cache'.paux = cache.paux,
         \A k \in Chunks : cache'.r[k] \in {cache.r[k], Torn, rep[k]}
  PROVE  CommitInv'
BY DEF CommitInv, PAuxOf, Readable, Replica, IsSum

\* Nor do synthetic proofs.
LEMMA SynthFrame ==
  ASSUME SynthInv, rep' = rep, cache'.synthProofs = cache.synthProofs, pc' # "synth",
         \A k \in Chunks : cache'.r[k] \in {cache.r[k], Torn, rep[k]}
  PROVE  SynthInv'
BY DEF SynthInv, Made, Readable, Replica, IsSum

\* The update and the key depend on the replicas and on p_aux.
LEMMA UpdFrame ==
  ASSUME UpdInv, KeyInv, rep' = rep, upd' = upd, key' = key, new' = new,
         cache'.paux = cache.paux, Encoded' => Encoded
  PROVE  UpdInv' /\ KeyInv'
BY DEF UpdInv, KeyInv, PAuxOf, Readable, DecodedFrom, DecodePhi, CommROf, StoreExists

\* Without an update and a key there is nothing to show.
LEMMA UpdGone ==
  ASSUME upd' = None, key' = None
  PROVE  UpdInv' /\ KeyInv'
BY DEF UpdInv, KeyInv, StoreOrNone

\* An unbroken pass over the phases is not affected by other calls.
LEMMA FreshFrame ==
  ASSUME FreshInv, fresh' = fresh, gpu' = gpu, p1' = p1, p2' = p2, rep' = rep, cache' = cache,
         ~Sealing, ~Sealing', pc' # "synth"
  PROVE  FreshInv'
BY DEF FreshInv, StoreExists, EncodedChunk, VerifyAll, VerifyProof, VerifyColumns, VerifyLabels,
       VerifyEncoding, Readable

\* A pass that was broken.
LEMMA FreshNone ==
  ASSUME fresh' = "none"
  PROVE  FreshInv'
BY DEF FreshInv

\* Between two calls.
LEMMA IdleCall ==
  (pc = "idle" => CallInv /\ ~Sealing /\ ~Encoded) /\ (pc' = "idle" => CallInv' /\ ~Sealing' /\ ~Encoded')
BY DEF CallInv, Sealing, Encoded, Phase1Steps, Phase2Steps, TreeCSteps, TreeRSteps, AuxSteps,
       UpdateSteps

\* The index of a call that begins, and of its first steps.
LEMMA Indices ==
  /\ 1 \in Layers /\ 1 \in Chunks /\ LayerCount \in Layers /\ Layers \subseteq Nat /\ Chunks \subseteq Nat
  /\ \A n \in Nat : n <= 3 \/ n \in Layers \/ n \in Chunks => n \in 0 .. LayerCount + TreeCount + 3
  /\ \A n \in Layers : n >= 1 /\ (n < LayerCount => n + 1 \in Layers) /\ (~(n < LayerCount) => n = LayerCount)
  /\ \A n \in Chunks : n >= 1 /\ (n < TreeCount => n + 1 \in Chunks) /\ (~(n < TreeCount) => n = TreeCount)
BY CountsAssumption DEF Layers, Chunks

\* The control state after the four ways a step may end.
LEMMA ControlNext ==
  ASSUME ControlOK, fresh' \in {"none", "p1", "phase2", "p2"}
  PROVE  /\ \A to, a : Begin(to, a) /\ to # "idle" => ControlOK'
         /\ \A res \in {"ok", "error", "missing"} : AtOnce(res) \/ Return(res) => ControlOK'
         /\ \A to, k : Goto(to, k) /\ to # "idle" /\ k \in Nat \ {0}
                        /\ (k <= 3 \/ k \in Layers \/ k \in Chunks) => ControlOK'
BY Indices, CountsAssumption DEF ControlOK, Begin, AtOnce, Return, Goto, Called

-----------------------------------------------------------------------------
(* Calls that begin, and calls that change no file                          *)

\* What a step of the sector does to the update and the key.
Glue ==
    /\ upd' = IF rep' = rep THEN upd ELSE None
    /\ key' = IF rep' = rep THEN key ELSE None
    /\ UNCHANGED <<new, enc>>

\* A step that changes no file and no record keeps what they say.
LEMMA Quiet ==
  ASSUME SectorInv, UNCHANGED <<synth, multi, gpu, rep, cache, p1, p2, commit, upd, key, new, enc>>,
         ControlOK', CallInv', ~Encoded', pc' # "synth",
         fresh' = "none" \/ (fresh' = fresh /\ ~Sealing /\ ~Sealing')
  PROVE  SectorInv'
<1>1. CacheOK' /\ FilesOK'
  BY DEF SectorInv, CacheOK, FilesOK
<1>2. CommitInv' /\ SynthInv'
  BY CommitFrame, SynthFrame DEF SectorInv
<1>3. UpdInv' /\ KeyInv'
  BY UpdFrame DEF SectorInv
<1>4. FreshInv'
  BY FreshFrame, FreshNone DEF SectorInv
<1> QED
  BY <1>1, <1>2, <1>3, <1>4 DEF SectorInv

\* sdr, generate_tree_c, generate_tree_r_last, clear_cache and unseal_range begin.
LEMMA InvBegins ==
  ASSUME SectorInv, Glue, NEW t,
         \/ t \in Tickets /\ (Sdr(t) \/ UnsealRange(t))
         \/ GenerateTreeC \/ GenerateTreeRLast \/ ClearCache
  PROVE  SectorInv'
<1> USE DEF Phase1Steps, Phase2Steps, TreeCSteps, TreeRSteps, AuxSteps, UpdateSteps
<1>1. /\ UNCHANGED <<synth, multi, gpu, rep, cache, p1, p2, commit>> /\ fresh' = "none"
      /\ UNCHANGED <<upd, key, new, enc>>
  BY DEF Glue, Sdr, GenerateTreeC, GenerateTreeRLast, ClearCache, UnsealRange, Config
<1>2. /\ ControlOK'
      /\ pc' \in {"label", "treeC", "treeR", "clear", "unseal"} /\ i' = 1
      /\ pc' = "label" => t \in Tickets /\ arg' = [t |-> t, f |-> None]
      /\ pc' \in {"treeC", "treeR"} => arg' = None
      /\ pc' = "treeR" => Readable(rep)
      /\ pc' = "unseal" => t \in Tickets /\ arg' = [t |-> t]
  BY <1>1, ControlNext
     DEF SectorInv, Sdr, GenerateTreeC, GenerateTreeRLast, ClearCache, UnsealRange, Begin
<1>3. ~Sealing' /\ ~Encoded'
  BY <1>2 DEF Sealing, Encoded
<1>4. CallInv'
  BY <1>1, <1>2, <1>3, Indices DEF CallInv, SectorInv, FilesOK, Readable, StoreOrNone
<1> QED
  BY <1>1, <1>2, <1>3, <1>4, Quiet

\* The two validations, and a crash.
LEMMA InvNothing ==
  ASSUME SectorInv, Glue, ValidateForPhase2 \/ ValidateForCommit \/ Crash
  PROVE  SectorInv'
<1>1. /\ UNCHANGED <<synth, multi, gpu, rep, cache, p1, p2, commit>>
      /\ UNCHANGED <<upd, key, new, enc>> /\ pc' = "idle" /\ ControlOK'
      /\ fresh' = "none" \/ (fresh' = fresh /\ pc = "idle")
  <2>1. CASE Crash
    BY <2>1, CountsAssumption DEF Glue, SectorInv, ControlOK, Crash, Config
  <2>2. CASE \E ok \in BOOLEAN : Validate(ok)
    BY <2>2 DEF Glue, SectorInv, ControlOK, Validate, outVars, Config
  <2> QED
    BY <2>1, <2>2 DEF ValidateForPhase2, ValidateForCommit
<1> QED
  BY <1>1, IdleCall, Quiet

-----------------------------------------------------------------------------
(* Phase 1                                                                  *)

\* The proofs on disk are outdated, and nothing else in the cache changes.
LEMMA OutdatedIs ==
  ASSUME CacheOK, SynthInv, cache' = Outdated(cache)
  PROVE  /\ CacheOK' /\ NoCurrent'
         /\ cache'.d = cache.d /\ cache'.labels = cache.labels /\ cache'.c = cache.c
         /\ cache'.r = cache.r /\ cache'.paux = cache.paux /\ cache'.taux = cache.taux
         /\ Readable(cache'.synthProofs) =>
               DOMAIN cache'.synthProofs = {"t", "p", "current"} /\ cache'.synthProofs.current \in BOOLEAN
<1>1. CASE ~Readable(cache.synthProofs)
  BY <1>1 DEF Outdated, CacheOK, NoCurrent
<1>2. CASE Readable(cache.synthProofs)
  <2>1. cache' = [cache EXCEPT !.synthProofs = [cache.synthProofs EXCEPT !.current = FALSE]]
    BY <1>2 DEF Outdated
  <2>2. DOMAIN cache.synthProofs = {"t", "p", "current"}
    BY <1>2 DEF SynthInv
  <2>3. /\ cache'.d = cache.d /\ cache'.labels = cache.labels /\ cache'.c = cache.c
        /\ cache'.r = cache.r /\ cache'.paux = cache.paux /\ cache'.taux = cache.taux
        /\ DOMAIN cache' = DOMAIN cache
        /\ cache'.synthProofs = [cache.synthProofs EXCEPT !.current = FALSE]
    BY <2>1 DEF CacheOK
  <2>4. DOMAIN cache'.synthProofs = {"t", "p", "current"} /\ cache'.synthProofs.current = FALSE
    BY <2>2, <2>3
  <2>5. CacheOK'
    BY <2>3 DEF CacheOK
  <2> QED
    BY <2>3, <2>4, <2>5 DEF NoCurrent
<1> QED
  BY <1>1, <1>2

\* Proofs that are not current need not be made from anything.
LEMMA SynthStale ==
  ASSUME NoCurrent', pc' # "synth",
         Readable(cache'.synthProofs) =>
            DOMAIN cache'.synthProofs = {"t", "p", "current"} /\ cache'.synthProofs.current \in BOOLEAN
  PROVE  SynthInv'
BY DEF SynthInv, NoCurrent

\* The copy of the staged file is a replica.
LEMMA PlainReplica == \A f : Replica([k \in Chunks |-> Plain(f)])
<1> TAKE f
<1>1. IsSum(Plain(f))
  BY PlainSum
<1> DEFINE x == [k \in Chunks |-> Plain(f)]
<1>2. DOMAIN x = Chunks /\ \A k \in Chunks : x[k] = Plain(f)
  OBVIOUS
<1>3. IsFcn(x)
  BY DEF IsFcn
<1> QED
  BY <1>1, <1>2, <1>3 DEF Replica

\* Phase 1 begins: the replica is truncated, or, from /dev/zero, extended or kept.
LEMMA InvPhase1 ==
  ASSUME Atoms, SectorInv, Glue, NEW t \in Tickets,
         (\E f \in Files : Phase1(t, f)) \/ Phase1DevZero(t)
  PROVE  SectorInv'
<1> USE DEF SectorInv
<1>1. PICK f \in Files, to \in {"copy", "treeD"} :
         /\ BeginPhase1(to, [t |-> t, f |-> f])
         /\ \/ to = "copy" /\ rep' = Torn
            \/ to = "treeD" /\ rep' \in Extended
  BY CountsAssumption DEF Phase1, Phase1DevZero, Files
<1>2. /\ pc' = to /\ i' = 1 /\ arg' = [t |-> t, f |-> f]
      /\ cache' = Outdated(cache) /\ commit' = None /\ fresh' = "none"
      /\ UNCHANGED <<p1, p2, synth, multi, gpu, new, enc>>
  BY <1>1 DEF BeginPhase1, Begin, Config, Glue
<1>3. \/ to = "copy" /\ rep' = Torn
      \/ to = "treeD" /\ Replica(rep')
  <2>1. ASSUME rep' \in Extended PROVE Replica(rep')
    <3>1. CASE rep = None
      BY <2>1, <3>1, PlainReplica DEF Extended
    <3>2. CASE rep = Torn
      BY <2>1, <3>2, PlainReplica, NamesAssumption DEF Extended
    <3>3. CASE rep # None /\ rep # Torn
      <4>1. Replica(rep) /\ rep' = rep
        BY <2>1, <3>3 DEF Extended, FilesOK, StoreOrNone
      <4> QED
        BY <4>1
    <3> QED
      BY <3>1, <3>2, <3>3
  <2> QED
    BY <1>1, <2>1
<1>4. ControlOK'
  BY <1>1, <1>2, ControlNext DEF BeginPhase1
<1>5. ~Sealing' /\ ~Encoded'
  BY <1>2 DEF Sealing, Encoded, Phase2Steps, TreeCSteps, TreeRSteps, AuxSteps
<1>6. CacheOK' /\ NoCurrent' /\ SynthInv' /\ cache'.paux = cache.paux
  BY <1>2, OutdatedIs, SynthStale
<1>7. FilesOK'
  BY <1>2, <1>3 DEF FilesOK, StoreOrNone, Replica
<1>8. CallInv'
  BY <1>2, <1>3, <1>5, <1>6
     DEF CallInv, Phase1Steps, Phase2Steps, TreeCSteps, TreeRSteps, AuxSteps, UpdateSteps, Replica
<1>9. UpdInv' /\ KeyInv'
  <2>1. CASE rep' = rep
    BY <1>2, <1>5, <1>6, <2>1, UpdFrame DEF Glue
  <2>2. CASE rep' # rep
    BY <2>2, UpdGone DEF Glue
  <2> QED
    BY <2>1, <2>2
<1>10. CommitInv' /\ FreshInv'
  BY <1>2, FreshNone DEF CommitInv
<1> QED
  BY <1>4, <1>6, <1>7, <1>8, <1>9, <1>10

\* The data is copied.
LEMMA InvCopyData ==
  ASSUME Atoms, SectorInv, Glue, CopyData
  PROVE  SectorInv'
<1> USE DEF SectorInv, Phase1Steps, Phase2Steps, TreeCSteps, TreeRSteps, AuxSteps, UpdateSteps
<1>1. /\ pc = "copy" /\ pc' = "treeD" /\ i' = 1 /\ arg' = arg
      /\ rep' = [k \in Chunks |-> Plain(arg.f)]
      /\ UNCHANGED <<cache, commit, fresh, p1, p2, synth, multi, gpu, new, enc>>
  BY DEF CopyData, Goto, Config, Glue, outVars
<1>2. /\ arg.t \in Tickets /\ arg.f \in Files /\ commit = None /\ NoCurrent
      /\ fresh = "none" /\ rep = Torn
  BY <1>1 DEF CallInv
<1>3. Replica(rep')
  BY <1>1, PlainReplica
<1>4. rep' # rep
  BY <1>2, <1>3 DEF Atoms, Replica
<1>5. ControlOK'
  BY <1>1, <1>2, ControlNext DEF CopyData
<1>6. CacheOK' /\ FilesOK'
  BY <1>1, <1>3 DEF CacheOK, FilesOK, Replica
<1>7. CallInv'
  BY <1>1, <1>2, <1>3 DEF CallInv, Sealing, NoCurrent, Replica
<1>8. SynthInv'
  BY <1>1, <1>2 DEF SynthInv, NoCurrent
<1>9. CommitInv' /\ FreshInv'
  BY <1>1, <1>2, FreshNone DEF CommitInv
<1> QED
  BY <1>4, <1>5, <1>6, <1>7, <1>8, <1>9, UpdGone DEF Glue

\* A step that changes the cache, but neither p_aux nor the synthetic proofs, and
\* tree_r_last only as far as it is built again.
LEMMA CacheStep ==
  ASSUME SectorInv, UNCHANGED <<rep, commit, new, upd, key>>, pc' # "synth",
         cache'.paux = cache.paux, cache'.synthProofs = cache.synthProofs,
         \A k \in Chunks : cache'.r[k] \in {cache.r[k], Torn, rep[k]},
         CacheOK', FilesOK', ControlOK', CallInv', FreshInv', Encoded' => Encoded
  PROVE  SectorInv'
<1>1. CommitInv' /\ SynthInv'
  BY CommitFrame, SynthFrame DEF SectorInv
<1>2. UpdInv' /\ KeyInv'
  BY UpdFrame DEF SectorInv
<1> QED
  BY <1>1, <1>2 DEF SectorInv

\* Tree D is found, or created and built; its root is compared with the pieces.
LEMMA InvTreeD ==
  ASSUME SectorInv, Glue, CreateTreeD \/ BuildTreeD \/ VerifyPieces
  PROVE  SectorInv'
<1> USE DEF SectorInv, Phase1Steps, Phase2Steps, TreeCSteps, TreeRSteps, AuxSteps, UpdateSteps
<1>1. /\ UNCHANGED <<rep, commit, fresh, p1, p2, synth, multi, gpu, new, enc, upd, key>>
      /\ \/ pc = "treeD" /\ pc' = "treeDBuild" /\ i' = 1 /\ arg' = arg
            /\ cache' = [cache EXCEPT !.d = Torn]
         \/ pc = "treeD" /\ pc' = "pieces" /\ i' = 1 /\ arg' = arg /\ cache' = cache
         \/ pc = "treeD" /\ pc' = "idle" /\ cache' = cache
         \/ pc = "treeDBuild" /\ pc' = "pieces" /\ i' = 1 /\ arg' = arg
            /\ cache' = [cache EXCEPT !.d = arg.f]
         \/ pc = "pieces" /\ pc' = "label" /\ i' = 1 /\ arg' = arg /\ cache.d = Data
            /\ cache' = cache
         \/ pc = "pieces" /\ pc' = "idle" /\ cache' = cache
  BY DEF CreateTreeD, BuildTreeD, VerifyPieces, Goto, Return, Config, Glue, outVars
<1>2. /\ arg.t \in Tickets /\ arg.f \in Files /\ commit = None /\ NoCurrent
      /\ fresh = "none" /\ Replica(rep)
  BY <1>1 DEF CallInv
<1>3. /\ DOMAIN cache' = DOMAIN cache /\ cache'.labels = cache.labels /\ cache'.c = cache.c
      /\ cache'.r = cache.r /\ cache'.paux = cache.paux /\ cache'.taux = cache.taux
      /\ cache'.synthProofs = cache.synthProofs /\ cache'.d \in {cache.d, Torn, arg.f}
  BY <1>1 DEF CacheOK
<1>4. CacheOK' /\ FilesOK'
  BY <1>1, <1>2, <1>3 DEF CacheOK, FilesOK, StoreOrNone, Replica
<1>5. ControlOK'
  BY <1>1, <1>2, ControlNext DEF CreateTreeD, BuildTreeD, VerifyPieces
<1>6. CallInv'
  BY <1>1, <1>2, <1>3, Indices DEF CallInv, Sealing, NoCurrent, Replica
<1>7. ~Encoded' /\ pc' # "synth" /\ FreshInv'
  BY <1>1, <1>2, FreshNone DEF Encoded, Sealing
<1> QED
  BY <1>1, <1>3, <1>4, <1>5, <1>6, <1>7, CacheStep

\* The labels of one more layer.
LEMMA AppendTyped ==
  ASSUME NEW S, NEW n \in Nat, NEW b \in [1 .. n -> S], NEW u \in S
  PROVE  Append(b, u) \in [1 .. n + 1 -> S]
<1>1. b \in Seq(S) /\ Len(b) = n
  OBVIOUS
<1>2. Append(b, u) \in Seq(S) /\ Len(Append(b, u)) = n + 1
  BY <1>1
<1>3. \A q \in Seq(S) : q \in [1 .. Len(q) -> S]
  OBVIOUS
<1> QED
  BY <1>2, <1>3

\* A layer is generated, or kept.
LEMMA InvGenerateLabels ==
  ASSUME Atoms, SectorInv, Glue, GenerateLabels
  PROVE  SectorInv'
<1> USE DEF SectorInv, Phase1Steps, Phase2Steps, TreeCSteps, TreeRSteps, AuxSteps, UpdateSteps
<1>1. /\ pc = "label" /\ UNCHANGED <<rep, commit, p2, synth, multi, gpu, new, enc, upd, key>>
      /\ cache' = [cache EXCEPT !.labels = [cache.labels EXCEPT ![i] = NewLayer(cache.labels, i)]]
      /\ \/ i < LayerCount /\ pc' = "label" /\ i' = i + 1 /\ arg' = arg /\ UNCHANGED <<p1, fresh>>
         \/ pc' = "idle" /\ ~(i < LayerCount)
            /\ (IF arg.f = None THEN UNCHANGED <<p1, fresh>>
                ELSE /\ p1' = [t |-> arg.t, d |-> cache.d]
                     /\ fresh' = IF rep = [k \in Chunks |-> Plain(Data)] THEN "p1" ELSE "none")
  BY DEF GenerateLabels, Goto, Return, Config, Glue
<1>2. /\ i \in Layers /\ arg.t \in Tickets /\ fresh = "none"
      /\ \A l \in Layers : l < i => IsLayer(cache.labels[l], l)
      /\ arg.f # None => commit = None /\ NoCurrent /\ cache.d = Data /\ Replica(rep)
  BY <1>1 DEF CallInv
<1>3. IsLayer(NewLayer(cache.labels, i), i)
  <2>1. CASE cache.labels[i] # None
    BY <1>2, <2>1 DEF NewLayer, CacheOK
  <2>2. CASE cache.labels[i] = None
    <3>1. i = 1 => Below(cache.labels, i) \in [1 .. i - 1 -> Tickets]
      BY DEF Below
    <3>2. i # 1 => Below(cache.labels, i) \in [1 .. i - 1 -> Tickets]
      <4>1. i # 1 => i - 1 \in Layers /\ i - 1 < i
        BY <1>2, Indices DEF Layers
      <4> QED
        BY <1>2, <4>1 DEF Below, IsLayer
    <3>3. PICK b \in [1 .. i - 1 -> Tickets] : b = Below(cache.labels, i)
      BY <3>1, <3>2
    <3>4. PICK n \in Nat : i = n + 1
      BY <1>2, Indices DEF Layers
    <3>5. n + 1 - 1 = n
      BY <3>4
    <3>6. b \in [1 .. n -> Tickets]
      BY <3>3, <3>4, <3>5
    <3>7. Append(b, arg.t) \in [1 .. n + 1 -> Tickets]
      BY <1>2, <3>6, AppendTyped
    <3>8. Append(b, arg.t) \in [1 .. i -> Tickets]
      BY <3>4, <3>7
    <3> QED
      BY <2>2, <3>3, <3>8 DEF NewLayer, LabelOver, IsLayer
  <2> QED
    BY <2>1, <2>2
<1>4. /\ DOMAIN cache' = DOMAIN cache /\ cache'.c = cache.c /\ cache'.d = cache.d
      /\ cache'.r = cache.r /\ cache'.paux = cache.paux /\ cache'.taux = cache.taux
      /\ cache'.synthProofs = cache.synthProofs
      /\ cache'.labels = [cache.labels EXCEPT ![i] = NewLayer(cache.labels, i)]
  BY <1>1 DEF CacheOK
<1>5. /\ IsFcn(cache'.labels) /\ DOMAIN cache'.labels = Layers
      /\ \A l \in Layers : cache'.labels[l] = IF l = i THEN NewLayer(cache.labels, i) ELSE cache.labels[l]
  BY <1>2, <1>4, ExceptFcn DEF CacheOK
<1>6. CacheOK'
  BY <1>3, <1>4, <1>5 DEF CacheOK
<1>7. FilesOK'
  BY <1>1, <1>2 DEF FilesOK, Replica, Files
<1>8. ControlOK'
  <2>1. fresh' \in {"none", "p1", "phase2", "p2"}
    BY <1>1, <1>2
  <2>2. i < LayerCount => i + 1 \in Layers /\ i + 1 \in Nat \ {0}
    BY <1>2, Indices
  <2> QED
    BY <2>1, <2>2, ControlNext DEF GenerateLabels
<1>9. CallInv'
  <2>1. CASE pc' = "idle"
    BY <2>1, IdleCall
  <2>2. CASE pc' # "idle"
    <3>1. /\ pc' = "label" /\ i' = i + 1 /\ arg' = arg /\ i' \in Layers /\ fresh' = "none"
      BY <1>1, <1>2, <2>2, Indices
    <3>2. \A l \in Layers : l < i' => IsLayer(cache'.labels[l], l)
      BY <1>2, <1>3, <1>5, <3>1, Indices
    <3> QED
      BY <1>1, <1>2, <1>4, <3>1, <3>2 DEF CallInv, Sealing, NoCurrent
  <2> QED
    BY <2>1, <2>2
<1>10. ~Sealing' /\ ~Encoded' /\ pc' # "synth"
  BY <1>1 DEF Encoded, Sealing
<1>11. FreshInv'
  <2>1. CASE fresh' = "none"
    BY <2>1, FreshNone
  <2>2. CASE fresh' # "none"
    <3>1. /\ fresh' = "p1" /\ p1' = [t |-> arg.t, d |-> Data] /\ cache'.d = Data
          /\ rep' = [k \in Chunks |-> Plain(Data)]
      BY <1>1, <1>2, <1>4, <2>2
    <3>2. IsFcn(p1')
      BY <3>1 DEF IsFcn
    <3> QED
      BY <1>10, <3>1, <3>2, PlainReplica DEF FreshInv, Atoms
  <2> QED
    BY <2>1, <2>2
<1> QED
  BY <1>1, <1>4, <1>6, <1>7, <1>8, <1>9, <1>10, <1>11, CacheStep

-----------------------------------------------------------------------------
(* Phase 2                                                                  *)

\* Phase 2 begins.
LEMMA InvPhase2 ==
  ASSUME Atoms, SectorInv, Glue, Phase2
  PROVE  SectorInv'
<1> USE DEF SectorInv, Phase1Steps, Phase2Steps, TreeCSteps, TreeRSteps, AuxSteps, UpdateSteps
<1>1. p1 # None /\ p1.d = Data /\ pc = "idle" /\ ~Sealing /\ ~Encoded
      /\ UNCHANGED <<rep, p1, p2, synth, multi, gpu, new, enc, upd, key>>
  BY IdleCall DEF Phase2, FilesOK, Config, Glue, Begin, AtOnce, Called
<1>2. CASE AtOnce("missing") /\ UNCHANGED <<cache, commit, fresh>>
  <2>1. pc' = "idle" /\ ControlOK'
    BY <1>2, ControlNext DEF AtOnce, ControlOK
  <2>2. CallInv' /\ ~Sealing' /\ ~Encoded'
    BY <2>1, IdleCall
  <2> QED
    BY <1>1, <1>2, <2>1, <2>2, Quiet
<1>3. CASE /\ cache.d \in Files \cup {Torn} /\ StoreExists(cache.labels) /\ Readable(rep)
           /\ Begin("treeC", [f |-> p1.d]) /\ cache' = Outdated(cache) /\ commit' = None
           /\ fresh' = IF fresh = "p1" THEN "phase2" ELSE "none"
  <2>1. pc' = "treeC" /\ i' = 1 /\ arg' = [f |-> Data] /\ ControlOK'
    BY <1>1, <1>3, ControlNext DEF Begin
  <2>2. arg' # None
    <3>1. IsFcn(arg')
      BY <2>1 DEF IsFcn
    <3> QED
      BY <3>1 DEF Atoms
  <2>3. /\ CacheOK' /\ NoCurrent' /\ SynthInv'
        /\ cache'.d = cache.d /\ cache'.labels = cache.labels /\ cache'.paux = cache.paux
    BY <1>3, <2>1, OutdatedIs, SynthStale
  <2>4. FilesOK' /\ Replica(rep) /\ Replica(rep)'
    BY <1>1, <1>3 DEF FilesOK, Readable, StoreOrNone, Replica
  <2>5. CallInv' /\ ~Encoded' /\ Sealing'
    BY <1>3, <2>1, <2>2, <2>3, <2>4, Indices DEF CallInv, Sealing, Encoded
  <2>6. UpdInv' /\ KeyInv'
    BY <1>1, <2>3, <2>5, UpdFrame
  <2>7. CommitInv'
    BY <1>3 DEF CommitInv
  <2>8. FreshInv'
    <3>1. CASE fresh # "p1"
      BY <1>3, <3>1, FreshNone
    <3>2. CASE fresh = "p1"
      <4>1. fresh' = "phase2" /\ cache.d = Data /\ \A k \in Chunks : rep[k] = Plain(Data)
        BY <1>3, <3>2 DEF FreshInv
      <4>2. StoreExists(cache'.labels)
        BY <1>3, <2>3
      <4>3. \A k \in Chunks : ~(k < 1)
        BY Indices
      <4> QED
        BY <1>1, <2>1, <2>3, <2>4, <2>5, <4>1, <4>2, <4>3 DEF FreshInv
    <3> QED
      BY <3>1, <3>2
  <2> QED
    BY <2>1, <2>3, <2>4, <2>5, <2>6, <2>7, <2>8
<1> QED
  BY <1>2, <1>3 DEF Phase2

\* Tree C: a base tree is found, or created and built from the layers; the GPU
\* route finds none.
LEMMA InvTreeC ==
  ASSUME Atoms, SectorInv, Glue, CreateTreeC \/ BuildTreeC
  PROVE  SectorInv'
<1> USE DEF SectorInv, Phase1Steps, Phase2Steps, TreeCSteps, TreeRSteps, AuxSteps, UpdateSteps
<1> DEFINE Onward == \/ i < TreeCount /\ pc' = "treeC" /\ i' = i + 1 /\ arg' = arg
                     \/ ~(i < TreeCount) /\ arg = None /\ pc' = "idle"
                     \/ ~(i < TreeCount) /\ arg # None /\ pc' = "encode" /\ i' = 1 /\ arg' = arg
<1>1. i \in Chunks /\ i \in Nat \ {0} /\ (i < TreeCount => i + 1 \in Chunks /\ i + 1 \in Nat \ {0})
      /\ (~(i < TreeCount) => i = TreeCount)
  BY Indices DEF CallInv, CreateTreeC, BuildTreeC
<1>2. ASSUME NextTreeC PROVE Onward
  BY <1>1, <1>2 DEF NextTreeC, Goto, Return
<1>3. PICK v \in {cache.c[i], Torn, cache.labels} :
      /\ UNCHANGED <<rep, commit, fresh, p1, p2, synth, multi, gpu, new, enc, upd, key>>
      /\ cache' = [cache EXCEPT !.c = [cache.c EXCEPT ![i] = v]] \/ (v = cache.c[i] /\ cache' = cache)
      /\ \/ pc = "treeC" /\ pc' = "treeCBuild" /\ i' = i /\ arg' = arg
         \/ pc = "treeC" /\ ~gpu /\ Onward
         \/ pc = "treeCBuild" /\ (gpu => v = cache.labels) /\ Onward
  <2>1. UNCHANGED <<rep, commit, fresh, p1, p2, synth, multi, gpu, new, enc, upd, key>>
    BY DEF CreateTreeC, BuildTreeC, Config, Glue, outVars
  <2>2. CASE CreateTreeC
    <3>1. CASE Goto("treeCBuild", i) /\ cache' = [cache EXCEPT !.c[i] = Torn]
      BY <2>1, <2>2, <3>1 DEF CreateTreeC, Goto
    <3>2. CASE ~gpu /\ NextTreeC /\ UNCHANGED cache
      <4>1. pc = "treeC" /\ Onward
        BY <1>2, <2>2, <3>2 DEF CreateTreeC
      <4> HIDE DEF Onward
      <4> QED
        BY <2>1, <3>2, <4>1
    <3> QED
      BY <2>2, <3>1, <3>2 DEF CreateTreeC
  <2>3. CASE BuildTreeC
    <3>1. pc = "treeCBuild" /\ Onward
      BY <1>2, <2>3 DEF BuildTreeC
    <3>2. \/ cache' = [cache EXCEPT !.c = [cache.c EXCEPT ![i] = cache.labels]]
          \/ ~gpu /\ UNCHANGED cache
      BY <2>3 DEF BuildTreeC
    <3> HIDE DEF Onward
    <3> QED
      BY <2>1, <3>1, <3>2
  <2> QED
    BY <2>2, <2>3
<1>4. /\ arg = None => fresh = "none"
      /\ arg # None => Sealing /\ arg = [f |-> Data] /\ commit = None /\ NoCurrent /\ Replica(rep)
  BY <1>3 DEF CallInv, Sealing
<1>5. /\ DOMAIN cache' = DOMAIN cache /\ cache'.labels = cache.labels /\ cache'.d = cache.d
      /\ cache'.r = cache.r /\ cache'.paux = cache.paux /\ cache'.taux = cache.taux
      /\ cache'.synthProofs = cache.synthProofs
      /\ cache'.c = [cache.c EXCEPT ![i] = v] \/ (v = cache.c[i] /\ cache'.c = cache.c)
  BY <1>3 DEF CacheOK
<1>6. /\ IsFcn(cache'.c) /\ DOMAIN cache'.c = Chunks
      /\ \A k \in Chunks : cache'.c[k] = IF k = i THEN v ELSE cache.c[k]
  BY <1>1, <1>5, ExceptFcn DEF CacheOK
<1>7. CacheOK'
  BY <1>5, <1>6 DEF CacheOK
<1>8. FilesOK'
  BY <1>3 DEF FilesOK, Replica
<1>9. ControlOK'
  <2>1. \/ Goto("treeCBuild", i) \/ Return("ok") \/ Goto("encode", 1)
        \/ i < TreeCount /\ Goto("treeC", i + 1)
    BY DEF CreateTreeC, BuildTreeC, NextTreeC
  <2>2. ControlOK /\ fresh' \in {"none", "p1", "phase2", "p2"}
    BY <1>3 DEF ControlOK
  <2> QED
    BY <1>1, <2>1, <2>2, ControlNext
<1>10. CallInv'
  BY <1>1, <1>3, <1>4, <1>5, Indices DEF CallInv, Sealing, NoCurrent, Replica
<1>11. ~Encoded' /\ pc' # "synth" /\ (pc' # "idle" /\ arg # None => Sealing')
  BY <1>3, <1>4 DEF Encoded, Sealing
<1>12. FreshInv'
  <2>1. CASE fresh = "none"
    BY <1>3, <2>1, FreshNone
  <2>2. CASE fresh # "none"
    <3>1. fresh = "phase2" /\ arg # None /\ Sealing /\ pc' # "idle" /\ fresh' = "phase2"
      BY <1>3, <1>4, <2>2 DEF FreshInv, ControlOK
    <3>2. /\ p1 # None /\ cache.d = Data /\ Replica(rep) /\ StoreExists(cache.labels)
          /\ gpu => \A k \in Chunks : k < i => cache.c[k] = cache.labels
          /\ \A k \in Chunks : rep[k] = Plain(Data)
      BY <1>3, <3>1 DEF FreshInv
    <3>3. ASSUME gpu
          PROVE  /\ pc' \in TreeCSteps => \A k \in Chunks : k < i' => cache'.c[k] = cache'.labels
                 /\ pc' = "encode" => \A k \in Chunks : cache'.c[k] = cache'.labels
      <4>1. \A k \in Chunks : k \in Nat /\ k <= TreeCount
        BY CountsAssumption DEF Chunks
      <4> QED
        BY <1>1, <1>3, <1>5, <1>6, <3>2, <3>3, <4>1
    <3>4. pc' \in TreeCSteps \/ (pc' = "encode" /\ i' = 1)
      BY <1>3, <3>1
    <3>5. \A k \in Chunks : ~(k < 1)
      BY Indices
    <3>6. Replica(rep)' /\ StoreExists(cache.labels)'
      BY <1>3, <1>5, <3>2 DEF StoreExists, Replica
    <3>7. gpu' => \A k \in Chunks : (pc' \in TreeCSteps => k < i') => cache'.c[k] = cache'.labels
      BY <1>3, <3>3, <3>4
    <3> HIDE DEF Onward
    <3> QED
      BY <1>3, <1>5, <1>11, <3>1, <3>2, <3>4, <3>5, <3>6, <3>7 DEF FreshInv
  <2> QED
    BY <2>1, <2>2
<1> QED
  BY <1>3, <1>5, <1>7, <1>8, <1>9, <1>10, <1>11, <1>12, CacheStep

\* A chunk of the replica is encoded: what was accepted or recovered is void.
LEMMA InvEncodeChunk ==
  ASSUME Atoms, SectorInv, Glue, EncodeChunk
  PROVE  SectorInv'
<1> USE DEF SectorInv, Phase1Steps, Phase2Steps, TreeCSteps, TreeRSteps, AuxSteps, UpdateSteps
<1> DEFINE e == Encode(cache.labels[LayerCount], rep[i])
<1>1. /\ pc = "encode" /\ pc' = "treeR" /\ i' = i /\ arg' = arg /\ rep' = [rep EXCEPT ![i] = e]
      /\ UNCHANGED <<cache, commit, fresh, p1, p2, synth, multi, gpu, new, enc>>
  BY DEF EncodeChunk, Goto, Config, Glue, outVars
<1>2. /\ i \in Chunks /\ arg # None /\ Sealing /\ arg = [f |-> Data] /\ commit = None
      /\ NoCurrent /\ Replica(rep)
  BY <1>1 DEF CallInv, Sealing
<1>3. IsSum(rep[i]) /\ IsSum(e) /\ e # rep[i]
  BY <1>2, EncodeSum DEF Replica
<1> HIDE DEF e
<1>4. /\ IsFcn(rep') /\ DOMAIN rep' = Chunks
      /\ \A k \in Chunks : rep'[k] = IF k = i THEN e ELSE rep[k]
  BY <1>1, <1>2, ExceptFcn DEF Replica
<1>5. Replica(rep') /\ rep' # rep
  BY <1>2, <1>3, <1>4 DEF Replica
<1>6. CacheOK' /\ FilesOK'
  BY <1>1, <1>5 DEF CacheOK, FilesOK, Replica
<1>7. i \in Nat \ {0}
  BY <1>2, Indices
<1>8. ControlOK'
  BY <1>1, <1>2, <1>7, ControlNext DEF EncodeChunk, ControlOK
<1>9. CallInv' /\ Sealing'
  BY <1>1, <1>2, <1>5 DEF CallInv, Sealing, NoCurrent, Replica
<1>10. SynthInv' /\ CommitInv'
  BY <1>1, <1>2 DEF SynthInv, NoCurrent, CommitInv
<1>11. UpdInv' /\ KeyInv'
  BY <1>5, UpdGone DEF Glue
<1>12. FreshInv'
  <2>1. CASE fresh = "none"
    BY <1>1, <2>1, FreshNone
  <2>2. CASE fresh # "none"
    <3>1. fresh = "phase2"
      BY <1>2, <2>2 DEF FreshInv, ControlOK
    <3>2. /\ p1 # None /\ cache.d = Data /\ StoreExists(cache.labels)
          /\ gpu => \A k \in Chunks : cache.c[k] = cache.labels
          /\ \A k \in Chunks : IF k < i THEN EncodedChunk(k) ELSE rep[k] = Plain(Data)
          /\ \A k \in Chunks : k < i => cache.r[k] = rep[k]
      BY <1>1, <3>1 DEF FreshInv
    <3>3. rep[i] = Plain(Data) /\ rep'[i] = Encode(cache.labels[LayerCount], Plain(Data))
      BY <1>2, <1>4, <1>7, <3>2 DEF e
    <3>4. \A k \in Chunks : IF k < i' \/ k = i' THEN EncodedChunk(k)' ELSE rep'[k] = Plain(Data)
      BY <1>1, <1>4, <1>7, <3>2, <3>3 DEF EncodedChunk
    <3>5. \A k \in Chunks : k < i' => cache'.r[k] = rep'[k]
      BY <1>1, <1>4, <1>7, <3>2
    <3>6. StoreExists(cache.labels)'
      BY <1>1, <3>2 DEF StoreExists
    <3> QED
      BY <1>1, <1>5, <1>9, <3>1, <3>2, <3>4, <3>5, <3>6 DEF FreshInv
  <2> QED
    BY <2>1, <2>2
<1> QED
  BY <1>6, <1>8, <1>9, <1>10, <1>11, <1>12

\* Tree R: a base tree is created, then built from the replica, by phase 2 or anew.
LEMMA InvTreeR ==
  ASSUME Atoms, SectorInv, Glue, CreateTreeR \/ BuildTreeR
  PROVE  SectorInv'
<1> USE DEF SectorInv, Phase1Steps, Phase2Steps, TreeCSteps, TreeRSteps, AuxSteps, UpdateSteps
<1>1. /\ UNCHANGED <<rep, commit, fresh, p1, p2, synth, multi, gpu, new, enc, upd, key>>
      /\ \/ pc = "treeR" /\ pc' = "treeRBuild" /\ i' = i /\ arg' = arg
            /\ cache' = [cache EXCEPT !.r = [cache.r EXCEPT ![i] = Torn]]
         \/ /\ pc = "treeRBuild"
            /\ cache' = [cache EXCEPT !.r = [cache.r EXCEPT ![i] = rep[i]]]
            /\ \/ i < TreeCount /\ arg = None /\ pc' = "treeR" /\ i' = i + 1 /\ arg' = arg
               \/ i < TreeCount /\ arg # None /\ pc' = "encode" /\ i' = i + 1 /\ arg' = arg
               \/ ~(i < TreeCount) /\ arg = None /\ pc' = "idle"
               \/ ~(i < TreeCount) /\ arg # None /\ pc' = "paux" /\ i' = 1 /\ arg' = arg
  BY DEF CreateTreeR, BuildTreeR, Goto, Return, Config, Glue, outVars
<1>2. /\ i \in Chunks /\ Replica(rep) /\ (arg = None => fresh = "none")
      /\ arg # None => Sealing /\ Encoded /\ arg = [f |-> Data] /\ commit = None /\ NoCurrent
  BY <1>1 DEF CallInv, Sealing, Encoded
<1>3. /\ DOMAIN cache' = DOMAIN cache /\ cache'.labels = cache.labels /\ cache'.d = cache.d
      /\ cache'.c = cache.c /\ cache'.paux = cache.paux /\ cache'.taux = cache.taux
      /\ cache'.synthProofs = cache.synthProofs
      /\ cache'.r = [cache.r EXCEPT ![i] = IF pc = "treeR" THEN Torn ELSE rep[i]]
  BY <1>1 DEF CacheOK
<1>4. /\ IsFcn(cache'.r) /\ DOMAIN cache'.r = Chunks
      /\ \A k \in Chunks : cache'.r[k] = IF k # i THEN cache.r[k]
                                         ELSE IF pc = "treeR" THEN Torn ELSE rep[i]
  BY <1>2, <1>3, ExceptFcn DEF CacheOK
<1>5. CacheOK'
  BY <1>3, <1>4 DEF CacheOK
<1>6. FilesOK'
  BY <1>1 DEF FilesOK, Replica
<1>7. i \in Nat \ {0} /\ (i < TreeCount => i + 1 \in Chunks /\ i + 1 \in Nat \ {0})
      /\ (~(i < TreeCount) => i = TreeCount)
  BY <1>2, Indices
<1>8. ControlOK'
  BY <1>1, <1>2, <1>7, ControlNext DEF CreateTreeR, BuildTreeR, ControlOK
<1>9. CallInv'
  BY <1>1, <1>2, <1>3, <1>7, Indices DEF CallInv, Sealing, NoCurrent, Replica
<1>10. (Encoded' => Encoded) /\ pc' # "synth" /\ (pc' # "idle" /\ arg # None => Sealing')
  BY <1>1, <1>2 DEF Encoded, Sealing
<1>11. FreshInv'
  <2>1. CASE fresh = "none"
    BY <1>1, <2>1, FreshNone
  <2>2. CASE fresh # "none"
    <3>1. fresh = "phase2" /\ arg # None /\ Sealing' /\ fresh' = "phase2"
      BY <1>1, <1>2, <1>10, <2>2 DEF FreshInv, ControlOK
    <3>2. /\ p1 # None /\ cache.d = Data /\ StoreExists(cache.labels)
          /\ gpu => \A k \in Chunks : cache.c[k] = cache.labels
          /\ \A k \in Chunks : IF k < i \/ k = i THEN EncodedChunk(k) ELSE rep[k] = Plain(Data)
          /\ \A k \in Chunks : k < i => cache.r[k] = rep[k]
      BY <1>1, <3>1 DEF FreshInv
    <3>3. \A k \in Chunks : k \in Nat /\ k <= TreeCount
      BY CountsAssumption DEF Chunks
    <3>4. CASE pc = "treeR"
      <4>1. pc' = "treeRBuild" /\ i' = i
        BY <1>1, <3>4
      <4>2. \A k \in Chunks : k < i' => cache'.r[k] = rep'[k]
        BY <1>1, <1>4, <1>7, <3>2, <4>1
      <4>3. \A k \in Chunks : IF k < i' \/ k = i' THEN EncodedChunk(k)' ELSE rep'[k] = Plain(Data)
        BY <1>1, <1>3, <3>2, <4>1 DEF EncodedChunk
      <4>4. StoreExists(cache.labels)' /\ Replica(rep)'
        BY <1>1, <1>2, <1>3, <3>2 DEF StoreExists, Replica
      <4> QED
        BY <1>1, <1>3, <3>1, <3>2, <4>1, <4>2, <4>3, <4>4 DEF FreshInv
    <3>5. CASE pc = "treeRBuild"
      <4>1. \/ pc' = "encode" /\ i' = i + 1
            \/ pc' = "paux" /\ i' = 1 /\ i = TreeCount
        BY <1>1, <1>7, <3>1, <3>5
      <4>2. \A k \in Chunks : pc' = "paux" \/ k < i' => cache'.r[k] = rep'[k]
        BY <1>1, <1>4, <1>7, <3>2, <3>3, <3>5, <4>1
      <4>3. \A k \in Chunks : IF pc' = "paux" \/ k < i' THEN EncodedChunk(k)' ELSE rep'[k] = Plain(Data)
        BY <1>1, <1>3, <1>7, <3>2, <3>3, <4>1 DEF EncodedChunk
      <4>4. StoreExists(cache.labels)' /\ Replica(rep)'
        BY <1>1, <1>2, <1>3, <3>2 DEF StoreExists, Replica
      <4> QED
        BY <1>1, <1>3, <3>1, <3>2, <4>1, <4>2, <4>3, <4>4 DEF FreshInv
    <3> QED
      BY <1>1, <3>4, <3>5
  <2> QED
    BY <2>1, <2>2
<1> QED
  BY <1>1, <1>3, <1>4, <1>5, <1>6, <1>8, <1>9, <1>10, <1>11, CacheStep

\* p_aux is truncated and filled; then t_aux, and phase 2 ends.
LEMMA InvPersist ==
  ASSUME Atoms, SectorInv, Glue, PersistPAux \/ PersistTAux
  PROVE  SectorInv'
<1> USE DEF SectorInv, Phase1Steps, Phase2Steps, TreeCSteps, TreeRSteps, AuxSteps, UpdateSteps
<1> DEFINE aux == [c |-> cache.c, r |-> cache.r]
<1>1. /\ UNCHANGED <<rep, commit, p1, synth, multi, gpu, new, enc, upd, key>>
      /\ \/ pc = "paux" /\ i = 1 /\ pc' = "paux" /\ i' = 2 /\ arg' = arg
            /\ cache' = [cache EXCEPT !.paux = Torn] /\ UNCHANGED <<p2, fresh>>
         \/ pc = "paux" /\ i # 1 /\ pc' = "taux" /\ i' = 1 /\ arg' = arg
            /\ cache' = [cache EXCEPT !.paux = aux] /\ UNCHANGED <<p2, fresh>>
         \/ pc = "taux" /\ i = 1 /\ pc' = "taux" /\ i' = 2 /\ arg' = arg
            /\ cache' = [cache EXCEPT !.taux = Torn] /\ UNCHANGED <<p2, fresh>>
         \/ pc = "taux" /\ i # 1 /\ pc' = "idle"
            /\ cache' = [cache EXCEPT !.taux = "configs"]
            /\ p2' = [r |-> CommR(cache.c, cache.r), d |-> arg.f]
            /\ fresh' = IF fresh = "phase2" THEN "p2" ELSE "none"
  BY DEF PersistPAux, PersistTAux, Goto, Return, Config, Glue, outVars
<1>2. /\ i \in 1 .. 2 /\ arg # None /\ Sealing /\ Encoded /\ arg = [f |-> Data] /\ commit = None
      /\ NoCurrent /\ Replica(rep)
  BY <1>1 DEF CallInv, Sealing, Encoded
<1>3. /\ DOMAIN cache' = DOMAIN cache /\ cache'.labels = cache.labels /\ cache'.d = cache.d
      /\ cache'.c = cache.c /\ cache'.r = cache.r /\ cache'.synthProofs = cache.synthProofs
      /\ cache'.paux \in {cache.paux, Torn, aux} /\ cache'.taux \in {cache.taux, Torn, "configs"}
      /\ pc' = "taux" /\ i' = 1 => cache'.paux = aux
      /\ pc = "taux" => cache'.paux = cache.paux
      /\ pc' = "idle" => cache'.taux = "configs"
  BY <1>1 DEF CacheOK
<1>4. CacheOK'
  BY <1>3 DEF CacheOK, StoreOrNone
<1>5. FilesOK'
  BY <1>1, <1>2 DEF FilesOK, Replica
<1>6. ControlOK'
  <2>1. fresh' \in {"none", "p1", "phase2", "p2"}
    BY <1>1 DEF ControlOK
  <2> QED
    BY <1>1, <2>1, ControlNext DEF PersistPAux, PersistTAux
<1>7. CallInv'
  BY <1>1, <1>2, <1>3 DEF CallInv, Sealing, NoCurrent, Replica
<1>8. pc' # "idle" => Sealing'
  BY <1>1, <1>2 DEF Sealing
<1>9. SynthInv' /\ CommitInv'
  BY <1>1, <1>2, <1>3 DEF SynthInv, NoCurrent, CommitInv
<1>10. UpdInv' /\ KeyInv'
  BY <1>1, <1>2, UpdGone DEF UpdInv, KeyInv
<1>11. FreshInv'
  <2>1. CASE fresh' = "none"
    BY <2>1, FreshNone
  <2>2. CASE fresh' # "none"
    <3>1. fresh = "phase2"
      BY <1>1, <1>2, <2>2 DEF FreshInv, ControlOK
    <3>2. /\ p1 # None /\ cache.d = Data /\ StoreExists(cache.labels)
          /\ gpu => \A k \in Chunks : cache.c[k] = cache.labels
          /\ \A k \in Chunks : EncodedChunk(k) /\ cache.r[k] = rep[k]
          /\ pc = "taux" => cache.paux = aux
      BY <1>1, <3>1 DEF FreshInv
    <3>3. /\ StoreExists(cache.labels)' /\ Replica(rep)' /\ p1' # None /\ cache'.d = Data
          /\ gpu' => \A k \in Chunks : cache'.c[k] = cache'.labels
          /\ \A k \in Chunks : EncodedChunk(k)' /\ cache'.r[k] = rep'[k]
      BY <1>1, <1>2, <1>3, <3>2 DEF StoreExists, Replica, EncodedChunk
    <3>4. pc' = "taux" \/ pc' = "idle" => cache'.paux = [c |-> cache'.c, r |-> cache'.r]
      BY <1>1, <1>3, <3>2
    <3>5. CASE pc' # "idle"
      BY <1>1, <1>8, <3>1, <3>3, <3>4, <3>5 DEF FreshInv
    <3>6. CASE pc' = "idle"
      <4>1. fresh' = "p2" /\ p2' = [r |-> CommR(cache'.c, cache'.r), d |-> Data] /\ cache'.taux = "configs"
        BY <1>1, <1>2, <1>3, <3>1, <3>6 DEF CommR
      <4>2. NoCurrent' /\ ~Sealing'
        BY <1>2, <1>3, <3>6, IdleCall DEF NoCurrent
      <4> QED
        BY <3>3, <3>4, <3>6, <4>1, <4>2 DEF FreshInv, NoCurrent
    <3> QED
      BY <3>5, <3>6
  <2> QED
    BY <2>1, <2>2
<1> QED
  BY <1>4, <1>5, <1>6, <1>7, <1>9, <1>10, <1>11

-----------------------------------------------------------------------------
(* Proofs                                                                   *)

\* An unbroken pass over the phases is not affected by synthetic proofs.
LEMMA FreshProofs ==
  ASSUME FreshInv, UNCHANGED <<gpu, fresh, p1, p2, rep>>, ~Sealing, ~Sealing',
         cache'.d = cache.d, cache'.labels = cache.labels, cache'.c = cache.c,
         cache'.r = cache.r, cache'.paux = cache.paux, cache'.taux = cache.taux,
         fresh = "p2" =>
            /\ Readable(cache'.synthProofs) /\ cache'.synthProofs.current =>
                  VerifyAll(cache'.synthProofs.p, cache'.synthProofs.t, p2')
            /\ pc' = "synth" => VerifyAll(arg'.p, arg'.t, p2')
  PROVE  FreshInv'
<1> USE DEF StoreExists, EncodedChunk
<1>1. (fresh # "none" => p1 # None /\ cache.d = Data /\ Replica(rep))'
  BY DEF FreshInv, Replica
<1>2. (fresh = "p1" => ~Sealing /\ \A k \in Chunks : rep[k] = Plain(Data))'
  BY DEF FreshInv
<1>3. fresh' # "phase2"
  BY DEF FreshInv
<1>4. (fresh = "p2" =>
          /\ ~Sealing /\ StoreExists(cache.labels)
          /\ gpu => \A k \in Chunks : cache.c[k] = cache.labels
          /\ \A k \in Chunks : EncodedChunk(k) /\ cache.r[k] = rep[k]
          /\ cache.paux = [c |-> cache.c, r |-> cache.r] /\ cache.taux = "configs"
          /\ p2 = [r |-> CommR(cache.c, cache.r), d |-> Data]
          /\ Readable(cache.synthProofs) /\ cache.synthProofs.current =>
                VerifyAll(cache.synthProofs.p, cache.synthProofs.t, p2)
          /\ pc = "synth" => VerifyAll(arg.p, arg.t, p2))'
  BY DEF FreshInv, CommR, VerifyAll, VerifyProof, VerifyColumns, VerifyLabels, VerifyEncoding
<1> QED
  BY <1>1, <1>2, <1>3, <1>4 DEF FreshInv

\* What verifies was made from the replica.
LEMMA MadeProof ==
  ASSUME SectorInv, Readable(rep), NEW o \in Openings, NEW t, NEW d,
         VerifyProof(MakeProof(o[1], o[2]), t, d)
  PROVE  Made(MakeProof(o[1], o[2]))
<1> DEFINE p == MakeProof(o[1], o[2])
<1>1. /\ p.r = cache.r /\ p.leaf = [k \in o[1] |-> rep[k]]
      /\ \A k \in DOMAIN p.leaf : p.leaf[k] = p.r[k]
  BY DEF MakeProof, VerifyProof
<1>2. o[1] \subseteq Chunks
  BY DEF Openings
<1>3. Replica(rep) /\ IsFcn(cache.r) /\ DOMAIN cache.r = Chunks
  BY DEF SectorInv, FilesOK, CacheOK, Readable, StoreOrNone
<1> QED
  BY <1>1, <1>2, <1>3 DEF Made

\* A step that changes no file but the one of synthetic proofs, and no record.
LEMMA ProofStep ==
  ASSUME SectorInv, UNCHANGED <<synth, multi, gpu, rep, p1, p2, commit, fresh, upd, key, new, enc>>,
         \E x : cache' = [cache EXCEPT !.synthProofs = x],
         ControlOK', pc' \in {"idle", "synth"}, pc \in {"idle", "synth"}, SynthInv',
         fresh = "p2" =>
            /\ Readable(cache'.synthProofs) /\ cache'.synthProofs.current =>
                  VerifyAll(cache'.synthProofs.p, cache'.synthProofs.t, p2')
            /\ pc' = "synth" => VerifyAll(arg'.p, arg'.t, p2')
  PROVE  SectorInv'
<1> USE DEF Phase1Steps, Phase2Steps, TreeCSteps, TreeRSteps, AuxSteps, UpdateSteps
<1>1. /\ DOMAIN cache' = DOMAIN cache /\ cache'.labels = cache.labels /\ cache'.d = cache.d
      /\ cache'.c = cache.c /\ cache'.r = cache.r /\ cache'.taux = cache.taux
      /\ cache'.paux = cache.paux
  BY DEF SectorInv, CacheOK
<1>2. CacheOK' /\ FilesOK'
  BY <1>1 DEF SectorInv, CacheOK, FilesOK, Replica
<1>3. CallInv' /\ ~Sealing /\ ~Sealing' /\ ~Encoded'
  BY DEF CallInv, Sealing, Encoded
<1>4. FreshInv'
  BY <1>1, <1>3, FreshProofs DEF SectorInv
<1>5. CommitInv'
  BY <1>1, CommitFrame DEF SectorInv
<1>6. UpdInv' /\ KeyInv'
  BY <1>1, <1>3, UpdFrame DEF SectorInv
<1> QED
  BY <1>2, <1>3, <1>4, <1>5, <1>6 DEF SectorInv

\* generate_synth_proofs, the write of its proofs, and clear_synthetic_proofs.
LEMMA InvSynth ==
  ASSUME Atoms, SectorInv, Glue, NEW t,
         GenerateSynthProofs(t) \/ WriteSynthProofs \/ ClearSyntheticProofs
  PROVE  SectorInv'
<1>1. UNCHANGED <<synth, multi, gpu, rep, p1, p2, commit, fresh, upd, key, new, enc>>
  BY DEF GenerateSynthProofs, WriteSynthProofs, ClearSyntheticProofs, outVars, Config, Glue
<1>2. fresh' \in {"none", "p1", "phase2", "p2"}
  BY <1>1 DEF SectorInv, ControlOK
<1>3. CASE UNCHANGED cache /\ (AtOnce("error") \/ AtOnce("missing"))
  <2>1. pc = "idle" /\ pc' = "idle" /\ ControlOK'
    BY <1>2, <1>3, ControlNext DEF AtOnce, Called, SectorInv
  <2> QED
    BY <1>1, <1>3, <2>1, IdleCall, Quiet
<1>4. ASSUME NEW o \in Openings, Readable(rep), VerifyProof(MakeProof(o[1], o[2]), t, p2.d),
             Begin("synth", [t |-> t, p |-> MakeProof(o[1], o[2])]),
             cache' = [cache EXCEPT !.synthProofs = Torn]
      PROVE  SectorInv'
  <2> DEFINE p == MakeProof(o[1], o[2])
  <2>1. Made(p) /\ p.c = cache.c /\ p.r = cache.r
    BY <1>4, MadeProof DEF MakeProof
  <2>2. fresh = "p2" => VerifyAll(p, t, p2)
    <3>1. fresh = "p2" => p2.r = CommR(cache.c, cache.r)
      BY DEF SectorInv, FreshInv
    <3> QED
      BY <1>4, <2>1, <3>1 DEF VerifyAll
  <2> HIDE DEF p
  <2>3. pc = "idle" /\ pc' = "synth" /\ i' = 1 /\ arg' = [t |-> t, p |-> p] /\ ControlOK'
    BY <1>2, <1>4, ControlNext DEF Begin, Called, SectorInv, p
  <2>4. cache'.synthProofs = Torn /\ ~Readable(cache'.synthProofs) /\ cache'.r = cache.r
    BY <1>4 DEF SectorInv, CacheOK, Readable
  <2>5. arg'.p = p /\ arg'.t = t
    BY <2>3
  <2>6. SynthInv'
    BY <1>1, <2>1, <2>3, <2>4, <2>5 DEF SynthInv, Made, Replica
  <2>7. fresh = "p2" => VerifyAll(arg'.p, arg'.t, p2')
    BY <1>1, <2>2, <2>5
  <2> QED
    BY <1>1, <1>4, <2>3, <2>4, <2>6, <2>7, ProofStep
<1>5. CASE WriteSynthProofs
  <2> DEFINE w == [t |-> arg.t, p |-> arg.p, current |-> TRUE]
  <2>1. pc = "synth" /\ pc' = "idle" /\ ControlOK' /\ cache' = [cache EXCEPT !.synthProofs = w]
    BY <1>2, <1>5, ControlNext DEF WriteSynthProofs, Return, SectorInv
  <2>2. Made(arg.p) /\ (fresh = "p2" => VerifyAll(arg.p, arg.t, p2))
    BY <2>1 DEF SectorInv, SynthInv, FreshInv
  <2>3. cache'.synthProofs = w /\ cache'.r = cache.r
    BY <2>1 DEF SectorInv, CacheOK
  <2>4. w.p = arg.p /\ w.t = arg.t /\ DOMAIN w = {"t", "p", "current"} /\ w.current = TRUE
    OBVIOUS
  <2> HIDE DEF w
  <2>5. cache'.synthProofs.p = arg.p /\ cache'.synthProofs.t = arg.t
    BY <2>3, <2>4
  <2>6. Made(cache.synthProofs.p)'
    BY <1>1, <2>2, <2>3, <2>5 DEF Made, Replica
  <2>7. SynthInv'
    BY <2>1, <2>3, <2>4, <2>6 DEF SynthInv
  <2>8. fresh = "p2" => VerifyAll(cache'.synthProofs.p, cache'.synthProofs.t, p2')
    BY <1>1, <2>2, <2>5
  <2> QED
    BY <1>1, <2>1, <2>7, <2>8, ProofStep
<1>6. CASE ClearSyntheticProofs
  <2>1. pc = "idle" /\ pc' = "idle" /\ ControlOK' /\ cache' = [cache EXCEPT !.synthProofs = None]
    BY <1>2, <1>6, ControlNext DEF ClearSyntheticProofs, AtOnce, Called, SectorInv
  <2>2. ~Readable(cache'.synthProofs)
    BY <2>1 DEF SectorInv, CacheOK, Readable
  <2>3. SynthInv'
    BY <2>1, <2>2 DEF SynthInv
  <2> QED
    BY <1>1, <2>1, <2>2, <2>3, ProofStep
<1> QED
  BY <1>3, <1>4, <1>5, <1>6 DEF GenerateSynthProofs, Instantiated

\* A commit is accepted: its leaves are the data under the key of its ticket.
LEMMA InvAccept ==
  ASSUME SectorInv, UNCHANGED <<synth, multi, gpu, rep, cache, p1, p2, fresh, upd, key, new, enc>>,
         p2 # None, NEW t, NEW p, NEW cur \in BOOLEAN, Accept(t, p, cur),
         VerifyAll(p, t, p2), cur => Made(p)
  PROVE  SectorInv'
<1>1. pc = "idle" /\ pc' = "idle"
  BY DEF Accept, AtOnce, Called
<1>2. ControlOK'
  BY ControlNext DEF Accept, SectorInv, ControlOK
<1>3. /\ commit'.t = t /\ commit'.r = p2.r /\ commit'.d = p2.d /\ commit'.leaf = p.leaf
      /\ commit'.current = (cur /\ PAuxOf(cache.paux, p2.r))
  BY DEF Accept
<1>4. p2.d = Data /\ p.d = Data
  BY DEF SectorInv, FilesOK, VerifyAll, VerifyProof
<1>5. LabelOver(Below(p.labels, LayerCount), t) = Key(t)
  <2>1. \A l \in Layers : p.labels[l] = LabelOver(Below(p.labels, l), t)
    BY DEF VerifyAll, VerifyProof, VerifyLabels
  <2>2. \A l \in Layers : p.labels[l] = LabelsOf(t, l)
    BY <2>1, LabelsUnfold
  <2> QED
    BY <2>1, <2>2, Indices DEF Key
<1>6. \A k \in DOMAIN p.leaf : p.leaf[k] = p.r[k] /\ p.leaf[k] = Encode(Key(t), Plain(Data))
  BY <1>4, <1>5 DEF VerifyAll, VerifyProof, VerifyEncoding
<1>7. p2.r = <<p.c, p.r>>
  BY DEF VerifyAll, CommR
<1>8. PAuxOf(cache.paux, p2.r) => cache.paux.r = p.r
  BY <1>7 DEF PAuxOf, CommR
<1>9. CommitInv'
  <2>1. commit'.d = Data
    BY <1>3, <1>4
  <2>2. \A k \in DOMAIN commit'.leaf : commit'.leaf[k] = Encode(Key(commit'.t), Plain(Data))
    BY <1>3, <1>6
  <2>3. ASSUME commit'.current
        PROVE  /\ Replica(rep)' /\ DOMAIN commit'.leaf \subseteq Chunks
               /\ PAuxOf(cache.paux, commit.r)'
               /\ IsFcn(cache'.paux.r) /\ DOMAIN cache'.paux.r = Chunks
               /\ \A k \in DOMAIN commit'.leaf :
                     /\ commit'.leaf[k] = rep'[k] /\ commit'.leaf[k] = cache'.paux.r[k]
                     /\ cache'.r[k] \in {Torn, commit'.leaf[k]}
    <3>1. Made(p) /\ PAuxOf(cache.paux, p2.r) /\ cache.paux.r = p.r
      BY <1>3, <1>8, <2>3
    <3>2. PAuxOf(cache.paux, commit.r)'
      BY <1>3, <3>1 DEF PAuxOf, Readable, CommR
    <3> QED
      BY <1>3, <1>6, <3>1, <3>2 DEF Made, Replica
  <2> QED
    BY <2>1, <2>2, <2>3 DEF CommitInv
<1>10. CacheOK' /\ FilesOK'
  BY DEF SectorInv, CacheOK, FilesOK
<1>11. CallInv' /\ ~Sealing /\ ~Sealing' /\ ~Encoded'
  BY <1>1, IdleCall
<1>12. SynthInv' /\ FreshInv' /\ UpdInv' /\ KeyInv'
  BY <1>1, <1>11, SynthFrame, FreshFrame, UpdFrame DEF SectorInv
<1> QED
  BY <1>2, <1>9, <1>10, <1>11, <1>12 DEF SectorInv

\* seal_commit_phase1, with proofs made now or read.
LEMMA InvCommit ==
  ASSUME SectorInv, Glue, NEW t \in Tickets, Commit1(t) \/ Commit1Synth(t)
  PROVE  SectorInv'
<1>1. UNCHANGED <<synth, multi, gpu, rep, cache, p1, p2, fresh, upd, key, new, enc>> /\ p2 # None
  BY DEF Commit1, Commit1Synth, Config, Glue
<1>2. CASE UNCHANGED commit /\ (AtOnce("error") \/ AtOnce("missing"))
  <2>1. pc = "idle" /\ pc' = "idle" /\ ControlOK'
    BY <1>1, <1>2, ControlNext DEF AtOnce, Called, SectorInv, ControlOK
  <2> QED
    BY <1>1, <1>2, <2>1, IdleCall, Quiet
<1>3. ASSUME NEW o \in Openings, Readable(rep), SanityCheck(MakeProof(o[1], o[2]), t),
             Accept(t, MakeProof(o[1], o[2]), TRUE)
      PROVE  SectorInv'
  <2>1. VerifyAll(MakeProof(o[1], o[2]), t, p2)
    BY <1>3 DEF SanityCheck
  <2>2. Made(MakeProof(o[1], o[2]))
    BY <1>3, <2>1, MadeProof DEF VerifyAll
  <2> QED
    BY <1>1, <1>3, <2>1, <2>2, InvAccept
<1>4. ASSUME Readable(cache.synthProofs), SanityCheck(cache.synthProofs.p, t),
             Accept(t, cache.synthProofs.p, cache.synthProofs.current)
      PROVE  SectorInv'
  <2>1. VerifyAll(cache.synthProofs.p, t, p2)
    BY <1>4 DEF SanityCheck
  <2>2. PICK p, cur : p = cache.synthProofs.p /\ cur = cache.synthProofs.current
    OBVIOUS
  <2>3. cur \in BOOLEAN /\ (cur => Made(p))
    BY <1>4, <2>2 DEF SectorInv, SynthInv
  <2>4. Accept(t, p, cur) /\ VerifyAll(p, t, p2)
    BY <1>4, <2>1, <2>2
  <2> QED
    BY <1>1, <2>3, <2>4, InvAccept
<1> QED
  BY <1>2, <1>3, <1>4 DEF Commit1, Commit1Synth, Instantiated

-----------------------------------------------------------------------------
(* Clearing the cache and unsealing                                         *)

\* A file or a family of stores is removed.
LEMMA InvClear ==
  ASSUME SectorInv, Glue, ClearStep
  PROVE  SectorInv'
<1> USE DEF SectorInv, Phase1Steps, Phase2Steps, TreeCSteps, TreeRSteps, AuxSteps, UpdateSteps
<1>1. /\ UNCHANGED <<rep, commit, fresh, p1, p2, synth, multi, gpu, new, enc, upd, key>>
      /\ pc = "clear" /\ cache' = Cleared(cache, i)
      /\ \/ pc' = "clear" /\ i' = i + 1 /\ i < 3
         \/ pc' = "idle"
  BY DEF ClearStep, Goto, Return, Config, Glue, outVars
<1>2. i \in 1 .. 3 /\ fresh = "none"
  BY <1>1 DEF CallInv
<1>3. \/ cache' = [cache EXCEPT !.d = None]
      \/ cache' = [cache EXCEPT !.c = [k \in Chunks |-> None]]
      \/ cache' = [cache EXCEPT !.labels = [l \in Layers |-> None]]
  BY <1>1, <1>2 DEF Cleared
<1>4. /\ DOMAIN cache' = DOMAIN cache /\ cache'.r = cache.r /\ cache'.paux = cache.paux
      /\ cache'.taux = cache.taux /\ cache'.synthProofs = cache.synthProofs
      /\ cache'.d \in {cache.d, None}
      /\ cache'.c \in {cache.c, [k \in Chunks |-> None]}
      /\ cache'.labels \in {cache.labels, [l \in Layers |-> None]}
  BY <1>3 DEF CacheOK
<1>5. CacheOK' /\ FilesOK'
  BY <1>1, <1>4 DEF CacheOK, FilesOK, StoreOrNone, Replica, IsFcn
<1>6. ControlOK'
  BY <1>1, <1>2, ControlNext DEF ClearStep
<1>7. CallInv' /\ ~Encoded'
  BY <1>1, <1>2 DEF CallInv, Sealing, Encoded
<1> QED
  BY <1>1, <1>2, <1>4, <1>5, <1>6, <1>7, CacheStep, FreshNone

\* Unsealing writes a layer of labels over the layer's file, or over tree D.
LEMMA InvUnseal ==
  ASSUME SectorInv, Glue, DecodeLabels
  PROVE  SectorInv'
<1> USE DEF SectorInv, Phase1Steps, Phase2Steps, TreeCSteps, TreeRSteps, AuxSteps, UpdateSteps
<1>1. /\ UNCHANGED <<rep, commit, fresh, p1, p2, synth, multi, gpu, new, enc, upd, key>>
      /\ pc = "unseal"
      /\ \/ cache' = [cache EXCEPT !.d = "labels"]
         \/ cache' = [cache EXCEPT !.labels = [cache.labels EXCEPT ![i] = LabelsOf(arg.t, i)]]
      /\ \/ pc' = "unseal" /\ i' = i + 1 /\ i < LayerCount /\ arg' = arg
         \/ pc' = "idle"
  BY DEF DecodeLabels, Goto, Return, Config, Glue, outVars
<1>2. i \in Layers /\ arg.t \in Tickets /\ fresh = "none"
  BY <1>1 DEF CallInv
<1>3. /\ DOMAIN cache' = DOMAIN cache /\ cache'.r = cache.r /\ cache'.paux = cache.paux
      /\ cache'.taux = cache.taux /\ cache'.synthProofs = cache.synthProofs
      /\ cache'.c = cache.c
      /\ cache'.d \in {cache.d, "labels"}
      /\ \/ cache'.labels = cache.labels
         \/ cache'.labels = [cache.labels EXCEPT ![i] = LabelsOf(arg.t, i)]
  BY <1>1 DEF CacheOK
<1>4. IsLayer(LabelsOf(arg.t, i), i)
  BY <1>2 DEF IsLayer, LabelsOf
<1>5. /\ IsFcn(cache'.labels) /\ DOMAIN cache'.labels = Layers
      /\ \A l \in Layers : cache'.labels[l] = None \/ IsLayer(cache'.labels[l], l)
  <2>1. /\ IsFcn(cache.labels) /\ DOMAIN cache.labels = Layers
        /\ \A l \in Layers : cache.labels[l] = None \/ IsLayer(cache.labels[l], l)
    BY DEF CacheOK
  <2> QED
    BY <1>2, <1>3, <1>4, <2>1, ExceptFcn
<1>6. CacheOK' /\ FilesOK'
  BY <1>1, <1>3, <1>5 DEF CacheOK, FilesOK, Replica
<1>7. ControlOK'
  BY <1>1, <1>2, ControlNext, Indices DEF DecodeLabels
<1>8. CallInv' /\ ~Encoded'
  BY <1>1, <1>2, Indices DEF CallInv, Sealing, Encoded
<1> QED
  BY <1>1, <1>2, <1>3, <1>6, <1>7, <1>8, CacheStep, FreshNone

-----------------------------------------------------------------------------
(* The update                                                               *)

\* A step of the update changes nothing of the sealed sector.
LEMMA UpdateFrame ==
  ASSUME SectorInv, UNCHANGED Sealed, ~Sealing, ~Sealing', pc' # "synth"
  PROVE  /\ CacheOK' /\ CommitInv' /\ SynthInv' /\ FreshInv' /\ ~Encoded'
         /\ upd' = None => UpdInv'
         /\ UNCHANGED <<upd, new>> => UpdInv'
         /\ key' \in {key, Torn} => KeyInv'
<1>1. UNCHANGED <<synth, multi, gpu, rep, cache, p1, p2, commit, fresh>>
  BY DEF Sealed, outVars
<1>2. CacheOK' /\ ~Encoded'
  BY <1>1 DEF SectorInv, CacheOK, Encoded
<1>3. CommitInv' /\ SynthInv' /\ FreshInv'
  BY <1>1, CommitFrame, SynthFrame, FreshFrame DEF SectorInv
<1>4. upd' = None => UpdInv'
  BY <1>2 DEF UpdInv
<1>5. UNCHANGED <<upd, new>> => UpdInv'
  BY <1>1, <1>2
     DEF SectorInv, UpdInv, PAuxOf, Readable, DecodedFrom, DecodePhi, CommROf, StoreExists, Replica
<1>6. key' \in {key, Torn} => KeyInv'
  BY <1>1, <1>2 DEF SectorInv, KeyInv, StoreOrNone, Replica
<1> QED
  BY <1>2, <1>3, <1>4, <1>5, <1>6

\* The steps of encode_into.
LEMMA InvEncodeInto ==
  ASSUME SectorInv,
         \/ \E f \in Staged : EncodeInto(f)
         \/ EncodeTreeD
         \/ \E k \in Chunks : EncodeIntoChunk(k)
         \/ EncodeTreeR \/ EncodePieces \/ EncodePAux \/ EncodeTAux
  PROVE  SectorInv'
<1> USE DEF Phase1Steps, Phase2Steps, TreeCSteps, TreeRSteps, AuxSteps, UpdateSteps
<1>1. UNCHANGED <<Sealed, key>> /\ UNCHANGED <<synth, multi, gpu, rep, cache, p1, p2, commit, fresh>>
  BY DEF EncodeInto, EncodeTreeD, EncodeIntoChunk, EncodeTreeR, EncodePieces, EncodePAux,
         EncodeTAux, Sealed, outVars
<1>2. pc \in UpdateSteps \cup {"idle"} /\ pc' \in UpdateSteps \cup {"idle"}
  BY DEF EncodeInto, EncodeTreeD, EncodeIntoChunk, EncodeTreeR, EncodePieces, EncodePAux,
         EncodeTAux, Begin, Called, Goto, Return
<1>3. ~Sealing /\ ~Sealing' /\ pc' # "synth"
  BY <1>2 DEF Sealing
<1>4. /\ CacheOK' /\ CommitInv' /\ SynthInv' /\ FreshInv' /\ ~Encoded' /\ KeyInv'
      /\ upd' = None => UpdInv'
  BY <1>1, <1>3, UpdateFrame
<1>5. CallInv /\ FilesOK /\ ControlOK /\ fresh' \in {"none", "p1", "phase2", "p2"}
  BY <1>1 DEF SectorInv, ControlOK
<1> SUFFICES FilesOK' /\ ControlOK' /\ CallInv' /\ upd' = None
  BY <1>4 DEF SectorInv
<1>6. CASE \E f \in Staged : EncodeInto(f)
  <2>1. PICK f \in Staged : EncodeInto(f)
    BY <1>6
  <2>2. /\ pc' = "uTreeD" /\ i' = 1 /\ arg'.f = f /\ upd' = None /\ UNCHANGED <<new, enc>>
        /\ \E a : Begin("uTreeD", a)
    BY <2>1 DEF EncodeInto, Begin
  <2>3. ControlOK'
    BY <1>5, <2>2, ControlNext
  <2> QED
    BY <1>1, <1>3, <1>5, <2>2, <2>3 DEF FilesOK, CallInv
<1>7. CASE EncodeTreeD
  <2>1. /\ pc = "uTreeD" /\ i \in 1 .. 2 /\ arg.f \in Staged /\ upd = None
        /\ UNCHANGED <<upd, enc>>
    BY <1>5, <1>7 DEF EncodeTreeD, CallInv
  <2>2. \/ new' = [new EXCEPT !.d = Torn] /\ Goto("uTreeD", 2)
        \/ new' = [new EXCEPT !.d = arg.f] /\ Goto("uEncode", 1)
        \/ new' = new /\ Goto("uEncode", 1)
    BY <1>7 DEF EncodeTreeD
  <2>3. arg' = arg /\ ((pc' = "uTreeD" /\ i' = 2) \/ (pc' = "uEncode" /\ i' = 1))
    BY <2>2 DEF Goto
  <2>5. ControlOK'
    BY <1>5, <2>2, ControlNext
  <2>4. FilesOK'
    BY <1>1, <1>5, <2>1, <2>2 DEF FilesOK, StoreOrNone
  <2> QED
    BY <1>3, <2>1, <2>3, <2>4, <2>5 DEF CallInv
<1>8. CASE \E k \in Chunks : EncodeIntoChunk(k)
  <2>1. PICK k \in Chunks : EncodeIntoChunk(k)
    BY <1>8
  <2>2. PICK v : new' = [new EXCEPT !.rep = [new.rep EXCEPT ![k] = v]]
    BY <2>1 DEF EncodeIntoChunk
  <2>3. /\ pc = "uEncode" /\ upd = None /\ pc' \in {"uEncode", "uTreeR"} /\ i' = 1
        /\ UNCHANGED <<enc, upd, result, calls, crashes>>
    BY <1>5, <2>1 DEF EncodeIntoChunk, CallInv
  <2>4. ControlOK'
    BY <1>1, <1>5, <2>3, CountsAssumption DEF ControlOK
  <2>5. /\ DOMAIN new' = DOMAIN new /\ new'.d = new.d /\ new'.r = new.r
        /\ new'.rep = [new.rep EXCEPT ![k] = v]
    BY <1>5, <2>2 DEF FilesOK
  <2>6. IsFcn(new'.rep) /\ DOMAIN new'.rep = Chunks
    BY <1>5, <2>5, ExceptFcn DEF FilesOK
  <2>7. FilesOK'
    BY <1>1, <1>5, <2>3, <2>5, <2>6 DEF FilesOK
  <2> QED
    BY <1>3, <2>3, <2>4, <2>7, Indices DEF CallInv
<1>9. CASE EncodeTreeR
  <2>1. /\ pc = "uTreeR" /\ upd = None /\ i \in Chunks /\ UNCHANGED <<upd, enc>>
        /\ new' = [new EXCEPT !.r = [new.r EXCEPT ![i] = new.rep[i]]]
        /\ IF i < TreeCount THEN Goto("uTreeR", i + 1) ELSE Goto("uPieces", 1)
    BY <1>5, <1>9 DEF EncodeTreeR, CallInv
  <2>2. \/ Goto("uTreeR", i + 1) /\ i + 1 \in Chunks /\ i + 1 \in Nat \ {0}
        \/ Goto("uPieces", 1)
    BY <2>1, Indices
  <2>3. ControlOK'
    BY <1>5, <2>2, ControlNext
  <2>4. /\ DOMAIN new' = DOMAIN new /\ new'.d = new.d /\ new'.rep = new.rep
        /\ new'.r = [new.r EXCEPT ![i] = new.rep[i]]
    BY <1>5, <2>1 DEF FilesOK
  <2>5. IsFcn(new'.r) /\ DOMAIN new'.r = Chunks
    BY <1>5, <2>1, <2>4, ExceptFcn DEF FilesOK
  <2>6. FilesOK'
    BY <1>1, <1>5, <2>1, <2>4, <2>5 DEF FilesOK
  <2> QED
    BY <1>3, <2>1, <2>2, <2>3, <2>6 DEF CallInv, Goto
<1>10. CASE EncodePieces
  <2>1. /\ pc = "uPieces" /\ upd = None /\ UNCHANGED <<upd, new, enc>>
        /\ (new.d = NewData /\ Goto("uPAux", 1)) \/ Return("error")
    BY <1>5, <1>10 DEF EncodePieces, CallInv
  <2>2. ControlOK'
    BY <1>5, <2>1, ControlNext
  <2> QED
    BY <1>1, <1>3, <1>5, <2>1, <2>2 DEF CallInv, FilesOK, Goto, Return
<1>11. CASE EncodePAux
  <2>1. /\ pc = "uPAux" /\ upd = None /\ new.d = NewData /\ UNCHANGED <<upd, enc>>
        /\ \E x : new' = [new EXCEPT !.paux = x]
        /\ Goto("uPAux", 2) \/ Goto("uTAux", 1)
    BY <1>5, <1>11 DEF EncodePAux, CallInv
  <2>2. ControlOK'
    BY <1>5, <2>1, ControlNext
  <2>3. FilesOK'
    BY <1>1, <1>5, <2>1 DEF FilesOK
  <2> QED
    BY <1>3, <2>1, <2>2, <2>3 DEF CallInv, Goto
<1>12. CASE EncodeTAux
  <2>1. /\ pc = "uTAux" /\ upd = None /\ new.d = NewData /\ UNCHANGED upd
        /\ \E x : new' = [new EXCEPT !.taux = x]
        /\ (Goto("uTAux", 2) /\ UNCHANGED enc) \/ (Return("ok") /\ enc'.d = NewData)
    BY <1>5, <1>12 DEF EncodeTAux, CallInv
  <2>2. ControlOK'
    BY <1>5, <2>1, ControlNext
  <2>3. FilesOK'
    BY <1>1, <1>5, <2>1 DEF FilesOK
  <2> QED
    BY <1>3, <2>1, <2>2, <2>3 DEF CallInv, Goto, Return
<1> QED
  BY <1>6, <1>7, <1>8, <1>9, <1>10, <1>11, <1>12

\* The update proof is accepted, or not.
LEMMA InvProveUpdate ==
  ASSUME SectorInv, ProveUpdate
  PROVE  SectorInv'
<1>1. UNCHANGED <<Sealed, key, new, enc>> /\ UNCHANGED <<synth, multi, gpu, rep, cache, p1, p2, commit, fresh>>
  BY DEF ProveUpdate, Sealed, outVars
<1>2. AtOnce("ok") \/ AtOnce("error") \/ AtOnce("missing")
  BY DEF ProveUpdate
<1>3. pc = "idle" /\ pc' = "idle"
  BY <1>2 DEF AtOnce, Called
<1>4. CallInv' /\ ~Sealing /\ ~Sealing' /\ ~Encoded'
  BY <1>3, IdleCall
<1>5. ControlOK'
  BY <1>1, <1>2, ControlNext DEF SectorInv, ControlOK
<1>6. /\ CacheOK' /\ CommitInv' /\ SynthInv' /\ FreshInv' /\ KeyInv'
      /\ UNCHANGED upd => UpdInv'
  BY <1>1, <1>3, <1>4, UpdateFrame
<1>7. FilesOK'
  BY <1>1 DEF SectorInv, FilesOK
<1> SUFFICES UpdInv'
  BY <1>4, <1>5, <1>6, <1>7 DEF SectorInv
<1>8. CASE UNCHANGED upd
  BY <1>6, <1>8
<1>9. ASSUME NEW ch \in SUBSET Chunks, enc # None, Readable(rep), StoreExists(new.r),
             OpeningsValid(ProveInner(ch)), VerifyUpdate(ProveInner(ch), p2.r, enc),
             upd' = [ch |-> ch, r |-> enc.r, d |-> enc.d,
                     oldAux |-> PAuxOf(cache.paux, p2.r), newAux |-> PAuxOf(new.paux, enc.r)]
      PROVE  UpdInv'
  <2> DEFINE p == ProveInner(ch)
  <2>1. /\ p.c = cache.paux.c /\ p.rOld = cache.r /\ p.rNew = new.r /\ p.d = new.d
        /\ DOMAIN p.old = ch
        /\ \A k \in ch : p.old[k] = rep[k] /\ p.new[k] = new.rep[k]
    BY DEF ProveInner
  <2>2. /\ \A k \in DOMAIN p.old : p.old[k] = p.rOld[k] /\ p.new[k] = p.rNew[k]
        /\ <<p.c, p.rOld>> = p2.r /\ <<p.c, p.rNew>> = enc.r /\ p.d = enc.d
        /\ \A k \in DOMAIN p.old : p.new[k] = Plus(p.old[k], Rho(p.d, Phi(enc.d, p2.r)), 1)
    BY <1>9 DEF OpeningsValid, VerifyUpdate, CommR, UpdateEncoded
  <2> HIDE DEF p
  <2>3. enc.d = NewData /\ Replica(rep) /\ IsFcn(cache.r) /\ DOMAIN cache.r = Chunks
    BY <1>9 DEF SectorInv, FilesOK, CacheOK, Readable, StoreOrNone
  <2>4. /\ upd'.ch = ch /\ upd'.r = enc.r /\ upd'.d = NewData
        /\ upd'.oldAux = PAuxOf(cache.paux, p2.r) /\ upd'.newAux = PAuxOf(new.paux, enc.r)
    BY <1>9, <2>3
  <2>5. ASSUME upd'.oldAux
        PROVE  /\ Readable(cache.paux)' /\ IsFcn(cache'.paux.r) /\ DOMAIN cache'.paux.r = Chunks
               /\ \A k \in ch : DecodedFrom(k, NewData)' /\ cache'.paux.r[k] = rep'[k]
    <3>1. Readable(cache.paux) /\ p2.r = <<cache.paux.c, cache.paux.r>>
      BY <2>4, <2>5 DEF PAuxOf, CommR
    <3>2. cache.paux.r = cache.r
      BY <2>1, <2>2, <3>1
    <3>3. \A k \in ch : new.rep[k] = Plus(rep[k], Rho(NewData, Phi(NewData, p2.r)), 1)
      BY <2>1, <2>2, <2>3
    <3>4. \A k \in ch : DecodedFrom(k, NewData)'
      BY <1>1, <3>1, <3>3 DEF DecodedFrom, DecodePhi, CommROf, CommR
    <3>5. \A k \in ch : cache.paux.r[k] = rep[k]
      BY <2>1, <2>2, <3>2
    <3> QED
      BY <1>1, <2>3, <3>1, <3>2, <3>4, <3>5 DEF Readable
  <2>6. ASSUME upd'.newAux
        PROVE  /\ PAuxOf(new.paux, upd.r)' /\ new'.paux.r = new'.r /\ StoreExists(new.r)'
               /\ \A k \in ch : new'.rep[k] = new'.r[k]
    <3>1. PAuxOf(new.paux, enc.r) /\ enc.r = <<new.paux.c, new.paux.r>>
      BY <2>4, <2>6 DEF PAuxOf, CommR
    <3>2. new.paux.r = new.r
      BY <2>1, <2>2, <3>1
    <3>3. \A k \in ch : new.rep[k] = new.r[k]
      BY <2>1, <2>2
    <3>4. PAuxOf(new.paux, upd.r)' /\ StoreExists(new.r)'
      BY <1>1, <1>9, <2>4, <3>1 DEF PAuxOf, Readable, StoreExists
    <3> QED
      BY <1>1, <3>2, <3>3, <3>4
  <2>7. Replica(rep)'
    BY <1>1, <2>3 DEF Replica
  <2> QED
    BY <1>4, <2>4, <2>5, <2>6, <2>7 DEF UpdInv
<1> QED
  BY <1>8, <1>9 DEF ProveUpdate

\* remove_encoded_data.
LEMMA InvRemove ==
  ASSUME SectorInv, (\E from \in {"key", "new"} : RemoveEncodedData(from)) \/ RemoveDone
  PROVE  SectorInv'
<1>1. UNCHANGED <<Sealed, new, enc, upd>> /\ UNCHANGED <<synth, multi, gpu, rep, cache, p1, p2, commit, fresh>>
  BY DEF RemoveEncodedData, RemoveDone, Sealed, outVars
<1>2. pc \in {"idle", "remove"} /\ pc' \in {"idle", "remove"}
  BY DEF RemoveEncodedData, RemoveDone, Begin, Called, Return
<1>3. ~Sealing /\ ~Sealing' /\ pc' # "synth"
  BY <1>2 DEF Sealing, Phase2Steps, TreeCSteps, TreeRSteps, AuxSteps
<1>4. /\ CacheOK' /\ CommitInv' /\ SynthInv' /\ FreshInv' /\ UpdInv' /\ ~Encoded'
      /\ key' \in {key, Torn} => KeyInv'
  BY <1>1, <1>3, UpdateFrame
<1>5. FilesOK'
  BY <1>1 DEF SectorInv, FilesOK
<1>6. ControlOK /\ fresh' \in {"none", "p1", "phase2", "p2"}
  BY <1>1 DEF SectorInv, ControlOK
<1>7. CASE \E from \in {"key", "new"} : RemoveEncodedData(from)
  <2>1. PICK from \in {"key", "new"} : RemoveEncodedData(from)
    BY <1>7
  <2>2. /\ pc' = "remove" /\ i' = 1 /\ arg' = [paux |-> ReplicaCache(from).paux, from |-> from]
        /\ key' = Torn /\ enc # None /\ \E a : Begin("remove", a)
    BY <2>1 DEF RemoveEncodedData, Begin
  <2>3. ControlOK'
    BY <1>6, <2>2, ControlNext
  <2>4. enc'.d = NewData /\ (arg'.from = "key" => arg'.paux = cache'.paux)
    BY <1>1, <2>2 DEF SectorInv, FilesOK, ReplicaCache
  <2>5. CallInv'
    BY <1>3, <2>2, <2>4
       DEF CallInv, Phase1Steps, Phase2Steps, TreeCSteps, TreeRSteps, AuxSteps, UpdateSteps
  <2> QED
    BY <1>4, <1>5, <2>2, <2>3, <2>5 DEF SectorInv
<1>8. CASE RemoveDone
  <2> DEFINE phi == RemovePhi(arg.paux)
             out == [k \in Chunks |-> Plus(new.rep[k], Rho(enc.d, phi), -1)]
  <2>1. /\ pc = "remove" /\ pc' = "idle" /\ Return("ok")
        /\ key' = [rep |-> out, paux |-> [c |-> arg.paux.c, r |-> out], from |-> arg.from, of |-> upd]
    BY <1>8 DEF RemoveDone, Return
  <2>2. ControlOK' /\ CallInv'
    BY <1>6, <2>1, ControlNext, IdleCall
  <2>3. enc.d = NewData /\ (arg.from = "key" => arg.paux = cache.paux)
    BY <2>1 DEF SectorInv, CallInv
  <2>4. ASSUME arg.from = "key", upd # None, upd.ch = Chunks, upd.oldAux
        PROVE  Replica(rep) /\ out = rep /\ [c |-> arg.paux.c, r |-> out] = cache.paux
    <3>1. /\ Replica(rep) /\ Readable(cache.paux) /\ IsFcn(cache.paux.r)
          /\ DOMAIN cache.paux.r = Chunks
          /\ \A k \in Chunks : DecodedFrom(k, NewData) /\ cache.paux.r[k] = rep[k]
      BY <2>4 DEF SectorInv, UpdInv
    <3>2. phi = DecodePhi(NewData)
      BY <2>3, <2>4 DEF RemovePhi, DecodePhi
    <3>3. \A k \in Chunks : new.rep[k] = Plus(rep[k], Rho(NewData, phi), 1)
      BY <3>1, <3>2 DEF DecodedFrom
    <3> HIDE DEF phi
    <3>4. \A k \in Chunks : Plus(new.rep[k], Rho(NewData, phi), -1) = rep[k]
      BY <3>1, <3>3, PlusMinus DEF Replica
    <3>5. DOMAIN out = Chunks /\ \A k \in Chunks : out[k] = rep[k]
      BY <2>3, <3>4
    <3>6. IsFcn(out)
      BY DEF IsFcn
    <3> HIDE DEF out
    <3>7. out = rep
      BY <3>1, <3>5, <3>6, SameFcn DEF Replica
    <3>8. cache.paux.r = rep
      BY <3>1, SameFcn DEF Replica
    <3>9. cache.paux = [c |-> cache.paux.c, r |-> cache.paux.r]
      BY <3>1 DEF SectorInv, CacheOK, Readable, StoreOrNone
    <3> QED
      BY <2>3, <2>4, <3>1, <3>7, <3>8, <3>9
  <2> HIDE DEF out
  <2>5. /\ key'.rep = out /\ key'.paux = [c |-> arg.paux.c, r |-> out]
        /\ key'.from = arg.from /\ key'.of = upd
    BY <2>1
  <2>6. KeyInv'
    BY <1>1, <1>4, <2>4, <2>5 DEF KeyInv, Replica
  <2> QED
    BY <1>4, <1>5, <2>2, <2>6 DEF SectorInv
<1> QED
  BY <1>7, <1>8

-----------------------------------------------------------------------------
(* The theorems                                                             *)

\* An empty directory satisfies the invariant.
LEMMA SectorInvInit == UpdateInit => SectorInv
<1> SUFFICES ASSUME UpdateInit PROVE SectorInv
  OBVIOUS
<1>1. /\ synth \in BOOLEAN /\ multi \in BOOLEAN /\ gpu \in BOOLEAN /\ rep = None /\ cache = EmptyCache /\ pc = "idle"
      /\ i = 0 /\ p1 = None /\ p2 = None /\ commit = None /\ fresh = "none" /\ result = "ok"
      /\ calls = 0 /\ crashes = 0 /\ enc = None /\ upd = None /\ key = None
      /\ new = [rep |-> [k \in Chunks |-> Zero], d |-> None,
                r |-> [k \in Chunks |-> None], paux |-> None, taux |-> None]
  BY DEF UpdateInit, Init
<1>2. CacheOK
  BY <1>1 DEF CacheOK, EmptyCache, IsFcn, StoreOrNone
<1>3. FilesOK
  BY <1>1 DEF FilesOK, IsFcn, StoreOrNone
<1>4. ControlOK
  BY <1>1, CountsAssumption DEF ControlOK
<1>5. CallInv /\ ~Encoded
  BY <1>1, IdleCall
<1>6. cache.synthProofs = None
  BY <1>1 DEF EmptyCache
<1>7. SynthInv /\ CommitInv /\ FreshInv
  BY <1>1, <1>6 DEF SynthInv, CommitInv, FreshInv, Readable
<1>8. UpdInv /\ KeyInv
  BY <1>1, <1>5 DEF UpdInv, KeyInv, StoreOrNone
<1> QED
  BY <1>2, <1>3, <1>4, <1>5, <1>7, <1>8 DEF SectorInv

\* Every step keeps the invariant.
LEMMA SectorInvNext ==
  ASSUME Atoms, SectorInv, [Next]_vars
  PROVE  SectorInv'
<1>1. CASE UNCHANGED vars
  <2>1. UNCHANGED <<synth, multi, gpu, rep, cache, pc, i, arg, p1, p2, commit, fresh, result, calls,
                    crashes, new, enc, upd, key>>
    BY <1>1 DEF vars, sectorVars, updVars
  <2>2. (CacheOK /\ FilesOK /\ ControlOK)'
    BY <2>1 DEF SectorInv, CacheOK, FilesOK, ControlOK
  <2>3. (CallInv /\ SynthInv /\ CommitInv)'
    BY <2>1 DEF SectorInv, CallInv, SynthInv, CommitInv, NoCurrent, Sealing, Readable, Replica, Made,
                PAuxOf
  <2>4. (Encoded)' => Encoded
    BY <2>1 DEF Encoded, Sealing
  <2>5. (UpdInv /\ KeyInv)'
    BY <2>1, <2>4, UpdFrame DEF SectorInv
  <2>6. FreshInv'
    BY <2>1 DEF SectorInv, FreshInv, Sealing, StoreExists, EncodedChunk, VerifyAll, VerifyProof,
                VerifyColumns, VerifyLabels, VerifyEncoding, Readable, Replica
  <2> QED
    BY <2>2, <2>3, <2>5, <2>6 DEF SectorInv
<1>2. CASE SealStep
  <2>1. Glue /\ SectorNext
    BY <1>2 DEF SealStep, Glue
  <2>2. CASE Seal
    <3>1. CASE \E t \in Tickets : Phase1DevZero(t) \/ \E f \in Files : Phase1(t, f)
      BY <2>1, <3>1, InvPhase1
    <3>2. CASE \E t \in Tickets : Sdr(t)
      BY <2>1, <3>2, InvBegins
    <3>3. CASE CopyData \/ CreateTreeD \/ BuildTreeD \/ VerifyPieces \/ GenerateLabels \/ Phase2
      BY <2>1, <3>3, InvCopyData, InvTreeD, InvGenerateLabels, InvPhase2
    <3>4. CASE \/ CreateTreeC \/ BuildTreeC \/ EncodeChunk \/ CreateTreeR \/ BuildTreeR
               \/ PersistPAux \/ PersistTAux
      BY <2>1, <3>4, InvTreeC, InvEncodeChunk, InvTreeR, InvPersist
    <3>5. CASE GenerateTreeC \/ GenerateTreeRLast
      BY <2>1, <3>5, InvBegins
    <3> QED
      BY <2>2, <3>1, <3>2, <3>3, <3>4, <3>5 DEF Seal
  <2>3. CASE Prove
    <3>1. CASE \E t \in Tickets : GenerateSynthProofs(t) \/ Commit1(t) \/ Commit1Synth(t)
      BY <2>1, <3>1, InvSynth, InvCommit
    <3>2. CASE WriteSynthProofs
      BY <2>1, <3>2, InvSynth
    <3> QED
      BY <2>3, <3>1, <3>2 DEF Prove
  <2>4. CASE Maintain
    <3>1. CASE \E t \in Tickets : UnsealRange(t)
      BY <2>1, <3>1, InvBegins
    <3>2. CASE ClearCache
      BY <2>1, <3>2, InvBegins
    <3>3. CASE ClearStep \/ DecodeLabels \/ ValidateForPhase2 \/ ValidateForCommit \/ Crash
      BY <2>1, <3>3, InvClear, InvUnseal, InvNothing
    <3>4. CASE ClearSyntheticProofs
      BY <2>1, <3>4, InvSynth
    <3> QED
      BY <2>4, <3>1, <3>2, <3>3, <3>4 DEF Maintain
  <2> QED
    BY <2>1, <2>2, <2>3, <2>4 DEF SectorNext
<1>3. CASE UpdateStep
  BY <1>3, InvEncodeInto, InvProveUpdate, InvRemove DEF UpdateStep
<1> QED
  BY <1>1, <1>2, <1>3 DEF Next

\* The invariant holds in every reachable state of a sector's life, whatever calls
\* are made, killed and repeated.
THEOREM SectorCorrect ==
  ASSUME Atoms
  PROVE  Spec => []SectorInv
<1>1. UpdateInit => SectorInv
  BY SectorInvInit
<1>2. SectorInv /\ [Next]_vars => SectorInv'
  BY SectorInvNext
<1> QED
  BY <1>1, <1>2, PTL DEF Spec

\* The calls, files and outputs keep their shapes.
THEOREM SectorTyped ==
  ASSUME Atoms
  PROVE  Spec => []TypeOK
<1>1. SectorInv => TypeOK
  <2> SUFFICES ASSUME SectorInv PROVE TypeOK
    OBVIOUS
  <2>1. SectorTypeOK
    BY DEF SectorInv, SectorTypeOK, CacheOK, FilesOK, ControlOK, IsLayer, Replica
  <2>2. upd # None => upd.d \in Staged /\ upd.ch \subseteq Chunks
    BY DEF SectorInv, UpdInv, Staged
  <2> QED
    BY <2>1, <2>2 DEF TypeOK, SectorInv, FilesOK
<1> QED
  BY <1>1, SectorCorrect, PTL

\* A commit that seal_commit_phase1 lets through is of the data: the replica nodes
\* its proofs open decode, with the key of its ticket, to the file the pieces describe.
THEOREM AcceptedDecode ==
  ASSUME Atoms
  PROVE  Spec => []AcceptedDecodes
<1>1. SectorInv => AcceptedDecodes
  <2>1. Decode(Key(commit.t), Encode(Key(commit.t), Plain(Data))) = Plain(Data)
    BY EncodeSum, PlainSum
  <2> QED
    BY <2>1 DEF SectorInv, CommitInv, AcceptedDecodes
<1> QED
  BY <1>1, SectorCorrect, PTL

\* A sector accepted with proofs of the replica as it is, and with the p_aux of its
\* own phase 2, is provable and unseals to the data until it is sealed again.
THEOREM StaysProvable ==
  ASSUME Atoms
  PROVE  Spec => []StillProvable
<1>1. SectorInv => StillProvable
  <2> SUFFICES ASSUME SectorInv, commit # None, commit.current, DOMAIN commit.leaf = Chunks,
                      NEW k \in Chunks
               PROVE  /\ Torn \in {cache.r[j] : j \in Chunks}
                         \/ PostVerifies(rep, cache.r, cache.paux, commit.r, k)
                      /\ Unsealed(commit.t, k) = Plain(Data)
    BY DEF StillProvable
  <2>1. /\ Replica(rep) /\ PAuxOf(cache.paux, commit.r)
        /\ IsFcn(cache.paux.r) /\ DOMAIN cache.paux.r = Chunks
        /\ \A j \in Chunks :
              /\ commit.leaf[j] = Encode(Key(commit.t), Plain(Data))
              /\ commit.leaf[j] = rep[j] /\ commit.leaf[j] = cache.paux.r[j]
              /\ cache.r[j] \in {Torn, commit.leaf[j]}
    BY DEF SectorInv, CommitInv
  <2>2. Unsealed(commit.t, k) = Plain(Data)
    <3>1. Decode(Key(commit.t), Encode(Key(commit.t), Plain(Data))) = Plain(Data)
      BY EncodeSum, PlainSum
    <3> QED
      BY <2>1, <3>1 DEF Unsealed
  <2>3. ASSUME Torn \notin {cache.r[j] : j \in Chunks}
        PROVE  PostVerifies(rep, cache.r, cache.paux, commit.r, k)
    <3>1. \A j \in Chunks : cache.r[j] = rep[j] /\ cache.paux.r[j] = cache.r[j]
      BY <2>1, <2>3
    <3>2. IsFcn(cache.r) /\ DOMAIN cache.r = Chunks
      BY DEF SectorInv, CacheOK
    <3>3. cache.paux.r = cache.r
      BY <2>1, <3>1, <3>2, SameFcn
    <3>4. Readable(rep)
      BY <2>1 DEF Replica, Readable, Atoms
    <3>5. StoreExists(cache.r)
      BY <2>1, <3>1, <3>2 DEF StoreExists, Replica, IsSum, Atoms
    <3> QED
      BY <2>1, <3>1, <3>3, <3>4, <3>5 DEF PostVerifies, PAuxOf
  <2> QED
    BY <2>2, <2>3
<1> QED
  BY <1>1, SectorCorrect, PTL

\* An accepted update proof is of the staged data and, where the p_aux files were
\* those of the replicas, the new replica decodes against the sector key and PoSt
\* verifies over it.
THEOREM UpdateIsSound ==
  ASSUME Atoms
  PROVE  Spec => []UpdateStands
<1>1. SectorInv => UpdateStands
  <2> SUFFICES ASSUME SectorInv, upd # None
               PROVE  /\ upd.d = NewData
                      /\ upd.oldAux => \A k \in upd.ch : DecodedFrom(k, NewData)
                      /\ upd.ch = Chunks /\ upd.newAux =>
                            \A k \in Chunks : PostVerifies(new.rep, new.r, new.paux, upd.r, k)
    BY DEF UpdateStands
  <2>1. upd.d = NewData /\ (upd.oldAux => \A k \in upd.ch : DecodedFrom(k, NewData))
    BY DEF SectorInv, UpdInv
  <2>2. ASSUME upd.ch = Chunks, upd.newAux, NEW k \in Chunks
        PROVE  PostVerifies(new.rep, new.r, new.paux, upd.r, k)
    <3>1. /\ PAuxOf(new.paux, upd.r) /\ new.paux.r = new.r /\ StoreExists(new.r)
          /\ new.rep[k] = new.r[k]
      BY <2>2 DEF SectorInv, UpdInv
    <3>2. Readable(new.rep)
      BY DEF SectorInv, FilesOK, Readable, Atoms
    <3> QED
      BY <3>1, <3>2 DEF PostVerifies, PAuxOf
  <2> QED
    BY <2>1, <2>2
<1> QED
  BY <1>1, SectorCorrect, PTL

\* remove_encoded_data gives back the sector key and its p_aux.
THEOREM KeyIsRecovered ==
  ASSUME Atoms
  PROVE  Spec => []KeyRecovered
<1>1. SectorInv => KeyRecovered
  BY DEF SectorInv, KeyInv, KeyRecovered
<1> QED
  BY <1>1, SectorCorrect, PTL

\* What a validation or a commit finds right after phases 1 and 2.
LEMMA FreshFiles ==
  ASSUME Atoms, SectorInv, fresh = "p2", gpu \/ \A k \in Chunks : cache.c[k] = cache.labels
  PROVE  /\ Replica(rep) /\ rep # None /\ rep # Torn
         /\ Readable(cache.paux) /\ Readable(cache.taux)
         /\ StoreExists(cache.labels) /\ VerifyStore(cache.d) /\ cache.d \in Files
         /\ StoreExists(cache.c) /\ StoreExists(cache.r) /\ VerifyLevelCacheStore(cache.r)
         /\ RootsAgree(p2.d)
<1>1. /\ cache.d = Data /\ Replica(rep) /\ StoreExists(cache.labels)
      /\ \A k \in Chunks : cache.c[k] = cache.labels /\ cache.r[k] = rep[k]
      /\ cache.paux = [c |-> cache.c, r |-> cache.r] /\ cache.taux = "configs"
      /\ p2.d = Data
  BY DEF SectorInv, FreshInv
<1>2. IsFcn(cache.labels) /\ DOMAIN cache.c = Chunks /\ DOMAIN cache.r = Chunks
  BY DEF SectorInv, CacheOK
<1>3. IsFcn([c |-> cache.c, r |-> cache.r])
  BY DEF IsFcn
<1>4. Readable(cache.paux) /\ Readable(cache.taux)
  BY <1>1, <1>3, NamesAssumption DEF Atoms, Readable
<1>5. StoreExists(cache.c) /\ StoreExists(cache.r) /\ VerifyLevelCacheStore(cache.r)
  BY <1>1, <1>2 DEF StoreExists, VerifyLevelCacheStore, Atoms, Replica, IsSum
<1>6. VerifyStore(cache.d) /\ cache.d \in Files
  BY <1>1, NamesAssumption DEF VerifyStore, Files
<1>7. rep # None /\ rep # Torn
  BY <1>1 DEF Replica, Atoms
<1>8. RootsAgree(p2.d)
  BY <1>1 DEF RootsAgree
<1> QED
  BY <1>1, <1>4, <1>5, <1>6, <1>7, <1>8

\* Proofs made right after phases 1 and 2 of a ticket verify.
LEMMA FreshVerify ==
  ASSUME SectorInv, fresh = "p2", gpu \/ \A k \in Chunks : cache.c[k] = cache.labels,
         NEW t, NEW o \in Openings, cache.labels = [l \in Layers |-> LabelsOf(t, l)]
  PROVE  VerifyAll(MakeProof(o[1], o[2]), t, p2)
<1> DEFINE p == MakeProof(o[1], o[2])
<1>1. /\ cache.d = Data /\ p2.d = Data /\ p2.r = CommR(cache.c, cache.r)
      /\ \A k \in Chunks :
            /\ cache.c[k] = cache.labels /\ cache.r[k] = rep[k]
            /\ rep[k] = Encode(cache.labels[LayerCount], Plain(Data))
  BY DEF SectorInv, FreshInv, EncodedChunk
<1>2. /\ p.d = cache.d /\ p.c = cache.c /\ p.r = cache.r /\ p.labels = cache.labels
      /\ p.open = o[2] /\ DOMAIN p.leaf = o[1] /\ \A k \in o[1] : p.leaf[k] = rep[k]
  BY DEF MakeProof
<1>3. o[1] \subseteq Chunks /\ o[2] \subseteq Chunks
  BY DEF Openings
<1> HIDE DEF p
<1>4. ASSUME NEW l \in Layers
      PROVE  p.labels[l] = LabelOver(Below(p.labels, l), t)
  <2>1. l \in Nat /\ l >= 1 /\ p.labels[l] = LabelsOf(t, l)
    BY <1>2, Indices
  <2>2. CASE l = 1
    BY <2>1, <2>2 DEF Below, LabelOver, LabelsOf
  <2>3. CASE l # 1
    <3>1. l - 1 \in Layers
      BY <2>1, <2>3, CountsAssumption DEF Layers
    <3>2. Below(p.labels, l) = LabelsOf(t, l - 1)
      BY <1>2, <2>3, <3>1 DEF Below
    <3>3. Append(LabelsOf(t, l - 1), t) = LabelsOf(t, l)
      BY <2>1, <2>3 DEF LabelsOf
    <3> QED
      BY <2>1, <3>2, <3>3 DEF LabelOver
  <2> QED
    BY <2>2, <2>3
<1>5. VerifyColumns(p) /\ VerifyLabels(p, t)
  BY <1>1, <1>2, <1>3, <1>4 DEF VerifyColumns, VerifyLabels
<1>6. \A k \in DOMAIN p.leaf : p.leaf[k] = p.r[k] /\ VerifyEncoding(p, t, k)
  <2>1. LabelOver(Below(p.labels, LayerCount), t) = cache.labels[LayerCount]
    BY <1>2, <1>4, Indices
  <2>2. \A k \in o[1] : p.leaf[k] = Encode(cache.labels[LayerCount], Plain(Data))
    BY <1>1, <1>2, <1>3
  <2> QED
    BY <1>1, <1>2, <1>3, <2>1, <2>2 DEF VerifyEncoding
<1>7. VerifyAll(p, t, p2)
  BY <1>1, <1>2, <1>5, <1>6 DEF VerifyAll, VerifyProof
<1> QED
  BY <1>7 DEF p

\* After phases 1 and 2 in a row over the data, with layers of the same ticket and,
\* on the CPU, a tree C of these layers, the cache is found complete and
\* seal_commit_phase1 succeeds, whatever a crash had left before: a tree D that was
\* found is that of the pieces, and tree R and the aux files are made anew.
THEOREM FreshCommit ==
  ASSUME Atoms
  PROVE  Spec => FreshCommits
<1>1. ASSUME SectorInv, NEW t \in Tickets, fresh = "p2", p1.t = t,
             cache.labels = [l \in Layers |-> LabelsOf(t, l)],
             gpu \/ \A k \in Chunks : cache.c[k] = cache.labels,
             \/ ValidateForCommit
             \/ Commit1(t)
             \/ /\ Commit1Synth(t) /\ Readable(cache.synthProofs)
                /\ cache.synthProofs.current /\ cache.synthProofs.t = t
      PROVE  result' = "ok"
  <2>1. /\ rep # None /\ rep # Torn
        /\ Readable(cache.paux) /\ Readable(cache.taux)
        /\ StoreExists(cache.labels) /\ VerifyStore(cache.d) /\ cache.d \in Files
        /\ StoreExists(cache.c) /\ StoreExists(cache.r) /\ VerifyLevelCacheStore(cache.r)
        /\ RootsAgree(p2.d)
    BY <1>1, FreshFiles
  <2>2. CASE ValidateForCommit
    BY <2>1, <2>2 DEF ValidateForCommit, Validate
  <2>3. Instantiated(FALSE) /\ Instantiated(TRUE)
    BY <2>1 DEF Instantiated, Readable
  <2>4. CASE Commit1(t)
    <3>1. PICK o \in Openings : SanityCheck(MakeProof(o[1], o[2]), t) => AtOnce("ok")
      BY <2>1, <2>3, <2>4 DEF Commit1, Accept
    <3>2. SanityCheck(MakeProof(o[1], o[2]), t)
      BY <1>1, FreshVerify DEF SanityCheck
    <3> QED
      BY <3>1, <3>2 DEF AtOnce
  <2>5. CASE Commit1Synth(t) /\ Readable(cache.synthProofs)
             /\ cache.synthProofs.current /\ cache.synthProofs.t = t
    <3>1. VerifyAll(cache.synthProofs.p, t, p2)
      BY <1>1, <2>5 DEF SectorInv, FreshInv
    <3> QED
      BY <2>3, <2>5, <3>1 DEF Commit1Synth, SanityCheck, Accept, AtOnce
  <2> QED
    BY <1>1, <2>2, <2>4, <2>5
<1>2. SectorInv /\ [Next]_vars =>
        [\A t \in Tickets :
            /\ fresh = "p2" /\ p1.t = t /\ cache.labels = [l \in Layers |-> LabelsOf(t, l)]
            /\ gpu \/ \A k \in Chunks : cache.c[k] = cache.labels
            /\ \/ ValidateForCommit
               \/ Commit1(t)
               \/ /\ Commit1Synth(t) /\ Readable(cache.synthProofs)
                  /\ cache.synthProofs.current /\ cache.synthProofs.t = t
            => result' = "ok"]_sectorVars
  BY <1>1
<1> QED
  BY <1>2, SectorCorrect, PTL DEF Spec, FreshCommits
=============================================================================

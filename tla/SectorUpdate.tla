------------------------- MODULE SectorUpdate -------------------------
(***************************************************************************)
(* Sector update (filecoin-proofs/src/api/update.rs and                    *)
(* storage-proofs-update/src/vanilla.rs) on top of the life of a sector:   *)
(* new data is encoded into a copy of the replica, the update is proved,   *)
(* and the data or the sector key are got back from the new replica.       *)
(* The encoding adds rho * data, with rho derived from phi = H(comm_d_new, *)
(* comm_r_old): a term of the formal sum, named by the data and phi.       *)
(***************************************************************************)
EXTENDS Sector

CONSTANT NewData   \* the file the new pieces describe

VARIABLES
    new,         \* the new replica and its cache directory
    enc,         \* the output of encode_into, kept by the caller
    upd,         \* the update proof that was last accepted, while it stands
    key          \* what remove_encoded_data wrote

updVars == <<new, enc, upd, key>>
vars    == <<sectorVars, updVars>>

Staged == {NewData, Other}

Phi(commD, commROld) == <<commD, commROld>>
Rho(d, phi) == <<"rho", d, phi>>
CommROf(paux) == CommR(paux.c, paux.r)

UpdateInit ==
    /\ Init
    /\ new = [rep |-> [k \in Chunks |-> Zero], d |-> None,
              r |-> [k \in Chunks |-> None], paux |-> None, taux |-> None]
    /\ enc = None /\ upd = None /\ key = None

Sealed == <<synth, multi, gpu, rep, cache, outVars>>

-----------------------------------------------------------------------------
(* encode_into: the tree of the staged file, the new replica chunk by chunk *)
(* in parallel, its tree, the check of the pieces, p_aux and t_aux.         *)
KeyCacheOpened == Readable(cache.paux) /\ Readable(cache.taux)

EncodeInto(f) ==
    /\ KeyCacheOpened /\ Readable(rep)
    /\ Begin("uTreeD", [f |-> f, paux |-> cache.paux, todo |-> Chunks])
    /\ upd' = None
    /\ UNCHANGED <<Sealed, new, enc, key>>

\* A tree D in the new cache directory is opened and kept.
EncodeTreeD ==
    /\ pc = "uTreeD"
    /\ CASE i = 2              -> Goto("uEncode", 1) /\ new' = [new EXCEPT !.d = arg.f]
         [] i = 1 /\ new.d = None -> Goto("uTreeD", 2) /\ new' = [new EXCEPT !.d = Torn]
         [] OTHER              -> Goto("uEncode", 1) /\ UNCHANGED new
    /\ UNCHANGED <<Sealed, enc, upd, key>>

\* comm_d_new is the root of that tree.
EncodePhi == Phi(new.d, CommROf(arg.paux))

EncodeIntoChunk(k) ==
    /\ pc = "uEncode" /\ k \in arg.todo
    /\ new' = [new EXCEPT !.rep[k] = Plus(rep[k], Rho(arg.f, EncodePhi), 1)]
    /\ arg' = [arg EXCEPT !.todo = @ \ {k}]
    /\ pc' = IF arg'.todo = {} THEN "uTreeR" ELSE "uEncode"
    /\ i' = 1
    /\ UNCHANGED <<Sealed, result, calls, crashes, enc, upd, key>>

EncodeTreeR ==
    /\ pc = "uTreeR"
    /\ new' = [new EXCEPT !.r[i] = new.rep[i]]
    /\ IF i < TreeCount THEN Goto("uTreeR", i + 1) ELSE Goto("uPieces", 1)
    /\ UNCHANGED <<Sealed, enc, upd, key>>

EncodePieces ==
    /\ pc = "uPieces"
    /\ IF new.d = NewData THEN Goto("uPAux", 1) ELSE Return("error")
    /\ UNCHANGED <<Sealed, new, enc, upd, key>>

EncodePAux ==
    /\ pc = "uPAux"
    /\ IF i = 1 THEN new' = [new EXCEPT !.paux = Torn] /\ Goto("uPAux", 2)
       ELSE /\ new' = [new EXCEPT !.paux = [c |-> arg.paux.c, r |-> new.r]]
            /\ Goto("uTAux", 1)
    /\ UNCHANGED <<Sealed, enc, upd, key>>

EncodeTAux ==
    /\ pc = "uTAux"
    /\ IF i = 1
       THEN new' = [new EXCEPT !.taux = Torn] /\ Goto("uTAux", 2) /\ UNCHANGED enc
       ELSE /\ new' = [new EXCEPT !.taux = "configs"] /\ Return("ok")
            /\ enc' = [r |-> CommR(arg.paux.c, new.r), d |-> new.d]
    /\ UNCHANGED <<Sealed, upd, key>>

-----------------------------------------------------------------------------
(* The update proof.  prove_inner opens both replicas' trees and the new    *)
(* tree D at the challenges and checks each opening; verify recomputes both *)
(* comm_r from the roots and comm_c, and the encoding of each challenge.    *)
ProveInner(ch) ==
    [c |-> cache.paux.c, rOld |-> cache.r, rNew |-> new.r, d |-> new.d,
     old |-> [k \in ch |-> rep[k]], new |-> [k \in ch |-> new.rep[k]]]

OpeningsValid(p) ==
    \A k \in DOMAIN p.old : p.old[k] = p.rOld[k] /\ p.new[k] = p.rNew[k]

Bug_UpdateEncoded(p, phi, k) == TRUE

UpdateEncoded(p, phi, k) == p.new[k] = Plus(p.old[k], Rho(p.d, phi), 1)

VerifyUpdate(p, commROld, out) ==
    /\ CommR(p.c, p.rOld) = commROld
    /\ CommR(p.c, p.rNew) = out.r
    /\ p.d = out.d
    /\ \A k \in DOMAIN p.old : UpdateEncoded(p, Phi(out.d, commROld), k)

ProveUpdate ==
    /\ enc # None /\ p2 # None
    /\ IF /\ KeyCacheOpened /\ Readable(rep)
          /\ StoreExists(cache.r) /\ StoreExists(new.r) /\ new.d # None
       THEN \E ch \in SUBSET Chunks \ {{}} :
               LET p == ProveInner(ch) IN
               IF OpeningsValid(p) /\ VerifyUpdate(p, p2.r, enc)
               THEN /\ AtOnce("ok")
                    /\ upd' = [ch |-> ch, r |-> enc.r, d |-> enc.d,
                               oldAux |-> PAuxOf(cache.paux, p2.r),
                               newAux |-> PAuxOf(new.paux, enc.r)]
               ELSE AtOnce("error") /\ UNCHANGED upd
       ELSE AtOnce("missing") /\ UNCHANGED upd
    /\ UNCHANGED <<Sealed, new, enc, key>>

\* decode_from and decode_from_range divide the difference of the replicas by rho.
DecodePhi(d) == Phi(d, CommROf(cache.paux))
DecodedFrom(k, d) == new.rep[k] = Plus(rep[k], Rho(d, DecodePhi(d)), 1)

-----------------------------------------------------------------------------
(* remove_encoded_data: subtracts rho * data from the new replica.  phi is  *)
(* computed from the p_aux of the cache directory it is given, and the root *)
(* of the result is written to a p_aux beside it.                           *)
Bug_RemovePhi(paux) == Phi(enc.d, enc.r)

RemovePhi(paux) == Phi(enc.d, CommROf(paux))

ReplicaCache(from) == IF from = "key" THEN cache ELSE new

RemoveEncodedData(from) ==
    LET paux == ReplicaCache(from).paux IN
    /\ enc # None /\ Readable(paux) /\ Readable(ReplicaCache(from).taux)
    /\ Begin("remove", [paux |-> paux, from |-> from])
    /\ key' = Torn
    /\ UNCHANGED <<Sealed, new, enc, upd>>

RemoveDone ==
    /\ pc = "remove" /\ Return("ok")
    /\ LET out == [k \in Chunks |-> Plus(new.rep[k], Rho(enc.d, RemovePhi(arg.paux)), -1)] IN
          key' = [rep |-> out, paux |-> [c |-> arg.paux.c, r |-> out], from |-> arg.from,
                  of |-> upd]
    /\ UNCHANGED <<Sealed, new, enc, upd>>

-----------------------------------------------------------------------------
UpdateStep ==
    \/ \E f \in Staged : EncodeInto(f)
    \/ EncodeTreeD
    \/ \E k \in Chunks : EncodeIntoChunk(k)
    \/ EncodeTreeR \/ EncodePieces \/ EncodePAux \/ EncodeTAux
    \/ ProveUpdate
    \/ \E from \in {"key", "new"} : RemoveEncodedData(from)
    \/ RemoveDone

\* A new replica is of the sector key it was encoded with: once the sector is
\* sealed again, what was accepted or recovered no longer stands.
SealStep ==
    /\ SectorNext
    /\ upd' = IF rep' = rep THEN upd ELSE None
    /\ key' = IF rep' = rep THEN key ELSE None
    /\ UNCHANGED <<new, enc>>

Next == SealStep \/ UpdateStep
Spec == UpdateInit /\ [][Next]_vars

-----------------------------------------------------------------------------
TypeOK ==
    /\ SectorTypeOK
    /\ DOMAIN new.rep = Chunks /\ DOMAIN new.r = Chunks
    /\ new.d \in Staged \cup StoreOrNone
    /\ upd # None => upd.d \in Staged /\ upd.ch \subseteq Chunks

\* An update proof that is accepted is of the new data, after any crashes and
\* repetitions of encode_into: decoding the new replica against the sector key
\* gives the staged file where it was challenged, and when it was challenged
\* everywhere PoSt verifies over the new replica and the new cache directory.
\* Each holds when the p_aux it reads was, on acceptance, that of the replica: no
\* update proof reads the new one, nor comm_r_last of the old one.
UpdateStands ==
    upd # None =>
        /\ upd.d = NewData
        /\ upd.oldAux => \A k \in upd.ch : DecodedFrom(k, NewData)
        /\ upd.ch = Chunks /\ upd.newAux =>
              \A k \in Chunks : PostVerifies(new.rep, new.r, new.paux, upd.r, k)

\* "When the data is removed, it MUST match the original sealed data" (the API
\* test): removing the data of an accepted update with the cache directory the
\* sector was sealed in, and the p_aux of its sealing there, gives back the
\* sector key and its p_aux.
KeyRecovered ==
    key \notin StoreOrNone =>
        (key.from = "key" /\ key.of # None /\ key.of.ch = Chunks /\ key.of.oldAux
            => key.rep = rep /\ key.paux = cache.paux)
=============================================================================

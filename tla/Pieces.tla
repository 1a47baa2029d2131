------------------------------- MODULE Pieces -------------------------------
(* Pieces of a sector: how each one is aligned, padded, written to the staged *)
(* sector and committed to while it is written, and how the commitment of the *)
(* whole sector is computed from those of the pieces alone.                   *)
(* Sizes are in bytes; a node is one padded element.                          *)
EXTENDS Merkle, Fr32

MinimumPieceSize == BlockIn

NodesIn(bits) == [k \in 1..(Len(bits) \div ElementBits) |-> Slice(bits, (k - 1) * ElementBits, k * ElementBits)]

PieceHash(a, b) == Hash(<<a, b>>)

(****************************************************************************)
(* CommitmentReader: hashes what passes through it, two nodes at a time, as  *)
(* soon as its buffer holds whole pairs.                                     *)
(****************************************************************************)
HashBytes == 2 * ElementBytes

TryHash(c) ==
  IF (Len(c.buffer) \div 8) % HashBytes # 0 THEN c
  ELSE LET nodes == NodesIn(c.buffer)
       IN [c EXCEPT !.tree = @ \o [k \in 1..(Len(nodes) \div 2) |-> PieceHash(nodes[2 * k - 1], nodes[2 * k])],
                    !.buffer = <<>>]

CommitmentReader(source) == [source |-> Fr32Reader(source), buffer |-> <<>>, tree |-> <<>>]

(* One read of the given size; copying stops at a read of nothing.            *)
Buffered(c, r) == [reader |-> TryHash([c EXCEPT !.source = r.reader, !.buffer = @ \o r.target]), target |-> r.target]

CommitmentRead(c, bytes) == Buffered(c, Fr32Read(c.source, Min({BufferBytes - Len(c.buffer) \div 8, bytes})))

RECURSIVE CopyAll(_, _, _)
CopyAll(c, bytes, copied) ==
  LET r == CommitmentRead(c, bytes)
  IN IF r.target = <<>> THEN [reader |-> c, copied |-> copied] ELSE CopyAll(r.reader, bytes, copied \o r.target)

RECURSIVE FoldRow(_)
FoldRow(row) == IF Len(row) = 1 THEN row[1] ELSE FoldRow([k \in 1..(Len(row) \div 2) |-> PieceHash(row[2 * k - 1], row[2 * k])])

Finish(c) == [ok |-> c.buffer = <<>>, comm |-> IF c.tree = <<>> THEN <<>> ELSE FoldRow(c.tree)]

(****************************************************************************)
(* Alignment                                                                 *)
(****************************************************************************)
IsPowerOfTwo(n) == \E b \in 0..20 : 2 ^ b = n

RECURSIVE PieceBytesNeeded(_, _)
PieceBytesNeeded(needed, bytes) == IF needed < bytes THEN PieceBytesNeeded(needed * 2, bytes) ELSE needed

Bug_GetPieceAlignment(written, bytes) ==
  LET needed == PieceBytesNeeded(MinimumPieceSize, bytes)
      encroaching == written % MinimumPieceSize
  IN [left |-> IF encroaching > 0 THEN needed - encroaching ELSE 0, right |-> needed - bytes]

GetPieceAlignment(written, bytes) ==
  LET needed == PieceBytesNeeded(MinimumPieceSize, bytes)
      encroaching == written % needed
  IN [left |-> IF encroaching > 0 THEN needed - encroaching ELSE 0, right |-> needed - bytes]

SumPieceBytesWithAlignment(lengths) ==
  FoldLeft(LAMBDA acc, n : LET a == GetPieceAlignment(acc, n) IN acc + a.left + n + a.right, 0, lengths)

GetPieceStartByte(lengths, bytes) ==
  LET last == SumPieceBytesWithAlignment(lengths) IN last + GetPieceAlignment(last, bytes).left

EnsurePieceSize(bytes) == bytes >= MinimumPieceSize /\ IsPowerOfTwo(ToPaddedBytes(bytes))

PieceInfo(comm, size) == [comm |-> comm, size |-> size]

(* What one piece adds to the staged sector, and its commitment.  The source  *)
(* may deliver other than the announced number of bytes.                      *)
Added(copy, size, alignment) ==
  LET n   == Len(copy.copied) \div 8
      end == Finish(copy.reader)
  IN [ok    |-> EnsurePieceSize(size) /\ n # 0 /\ ToUnpaddedBytes(n) = size /\ end.ok,
      out   |-> Zeros(8 * ToPaddedBytes(alignment.left)) \o copy.copied \o Zeros(8 * ToPaddedBytes(alignment.right)),
      piece |-> PieceInfo(end.comm, size), written |-> alignment.left + alignment.right + size]

AddPiece(source, size, lengths, request) ==
  Added(CopyAll(CommitmentReader(source), request, <<>>), size,
        GetPieceAlignment(SumPieceBytesWithAlignment(lengths), size))

(* The same commitment from a source alone: a tree over its elements.         *)
GeneratePieceCommitment(source, size) ==
  LET padded == Fr32Read(Fr32Reader(source), ToPaddedBytes(size)).target
  IN [ok |-> EnsurePieceSize(size) /\ Len(padded) = 8 * ToPaddedBytes(size),
      comm |-> Last(RowsOf(NodesIn(padded), 2))[1]]

(****************************************************************************)
(* comm_d from the pieces                                                    *)
(****************************************************************************)
RECURSIVE ZeroComm(_, _)
ZeroComm(comm, bytes) == IF bytes = HashBytes THEN PieceHash(comm, comm) ELSE LET half == ZeroComm(comm, bytes \div 2) IN PieceHash(half, half)

ZeroPadding(size) == PieceInfo(ZeroComm(Zeros(ElementBits), ToPaddedBytes(size)), size)

JoinPieceInfos(left, right) == PieceInfo(PieceHash(left.comm, right.comm), left.size + right.size)

RECURSIVE Reduce(_)
Reduce(stack) ==
  LET n == Len(stack)
  IN IF n < 2 \/ stack[n].size # stack[Max({1, n - 1})].size THEN stack
     ELSE Reduce(Append(SubSeq(stack, 1, n - 2), JoinPieceInfos(stack[n - 1], stack[n])))

ShiftReduce(stack, piece) == Reduce(Append(stack, piece))

RECURSIVE PadTo(_, _)
PadTo(stack, size) ==
  IF Last(stack).size < size THEN PadTo(ShiftReduce(stack, ZeroPadding(Last(stack).size)), size) ELSE stack

RECURSIVE Collapse(_)
Collapse(stack) == IF Len(stack) > 1 THEN Collapse(ShiftReduce(stack, ZeroPadding(Last(stack).size))) ELSE stack[1]

EmptyCommD(sector) ==
  Finish(CopyAll(CommitmentReader(Zeros(8 * ToUnpaddedBytes(sector))), BufferBytes, <<>>).reader).comm

ComputeCommD(sector, pieces) ==
  LET padded(i) == ToPaddedBytes(pieces[i].size)
      whole == Collapse(FoldLeft(LAMBDA stack, p : ShiftReduce(PadTo(stack, p.size), p), <<pieces[1]>>, Tail(pieces)))
  IN IF pieces = <<>> THEN [ok |-> TRUE, comm |-> EmptyCommD(sector), size |-> ToUnpaddedBytes(sector)]
     ELSE IF /\ Len(pieces) <= ToUnpaddedBytes(sector) \div MinimumPieceSize
             /\ FoldLeft(LAMBDA n, i : n + padded(i), 0, [i \in DOMAIN pieces |-> i]) <= sector
             /\ \A i \in DOMAIN pieces : IsPowerOfTwo(padded(i))
          THEN [ok |-> TRUE, comm |-> whole.comm, size |-> whole.size]
          ELSE [ok |-> FALSE, comm |-> <<>>, size |-> 0]

VerifyPieces(commD, pieces, sector) == LET c == ComputeCommD(sector, pieces) IN c.ok /\ c.comm = commD

(* Whether a piece of that many leaves may start at that leaf of a tree.       *)
SubtreeCapacity(pos, total) ==
  LET cursor == pos + (CHOOSE n \in {2 ^ b : b \in 0..20} : n >= total /\ n \div 2 < total)
  IN Max({c \in {2 ^ b : b \in 0..20} : cursor % c = 0})

PieceIsAligned(pos, length, total) == SubtreeCapacity(pos, total) >= length

(****************************************************************************)
(* Reading back: of the unsealed sector, the padded bytes of the range are   *)
(* cut out and unpadded as if they began an element.                         *)
(****************************************************************************)
UnsealRange(data, offset, bytes) ==
  LET start == ToPaddedBytes(offset)
  IN WriteUnpadded(Slice(data, 8 * start, 8 * (start + ToPaddedBytes(bytes))), 0, bytes)
=============================================================================

-------------------------------- MODULE Fr32 --------------------------------
(* Bit padding: raw bytes are cut into units of DataBits bits and each unit   *)
(* gets two zero bits, so that it is an element of the field.  A stream is    *)
(* the sequence of its bits, least significant bit of the first byte first;   *)
(* a bit is 0 or the positive name of the raw bit it came from, so that a     *)
(* misplaced bit shows.  The scheme is the code's with a smaller element:     *)
(* four elements are still one block, whose padding adds up to one byte.      *)
EXTENDS Integers, Sequences, SequencesExt, FiniteSetsExt

CONSTANTS
  ElementBits,   \* element_bits of FR32_PADDING_MAP: 256
  WriteChunk,    \* chunk_size of write_unpadded, in bytes: 128000
  BufferBytes    \* BUFFER_SIZE of the commitment reader: 4096

PadBits == 2

DataBits == ElementBits - PadBits

ElementBytes == ElementBits \div 8

NumFrsPerBlock == 4

BlockIn == (NumFrsPerBlock * DataBits) \div 8

BlockOut == (NumFrsPerBlock * ElementBits) \div 8

Zeros(n) == [i \in 1..n |-> 0]

Slice(bits, from, to) == SubSeq(bits, from + 1, to)

DivCeil(x, y) == 1 + ((x - 1) \div y)

BytesNeeded(bits) == (bits \div 8) + (IF bits % 8 = 0 THEN 0 ELSE 1)

(****************************************************************************)
(* PaddingMap                                                                *)
(****************************************************************************)
TransformBitOffset(pos, padding) ==
  LET from == IF padding THEN DataBits ELSE ElementBits
      to   == IF padding THEN ElementBits ELSE DataBits
  IN (pos \div from) * to + (pos % from)

(* Rounded up when padding and down when unpadding.                           *)
TransformByteOffset(pos, padding) ==
  LET bits == TransformBitOffset(pos * 8, padding) IN IF padding THEN BytesNeeded(bits) ELSE bits \div 8

ToPaddedBytes(unpadded) == TransformByteOffset(unpadded, TRUE)

ToUnpaddedBytes(padded) == TransformByteOffset(padded, FALSE)

NextBoundary(position) ==
  LET left == DataBits - (position % ElementBits)
  IN [next |-> ((position + left + PadBits) \div 8) * 8, left |-> left]

(* Shifting left grows the bytes by one, shifting right loses the first bits. *)
ShiftBits(input, amount, left) ==
  IF left THEN Zeros(amount) \o input \o Zeros(8 - amount)
  ELSE Slice(input, amount, Len(input)) \o Zeros(amount)

(* num bits from pos on, relocated to start at bit newOffset of a byte.       *)
ExtractBitsAndShift(input, pos, num, newOffset) ==
  LET skip    == 8 * (pos \div 8)
      offset  == pos % 8
      trimmed == Slice(input, skip, skip + 8 * BytesNeeded(offset + num))
      shifted == CASE newOffset < offset -> ShiftBits(trimmed, offset - newOffset, FALSE)
                   [] newOffset > offset -> ShiftBits(trimmed, newOffset - offset, TRUE)
                   [] OTHER              -> trimmed
      wanted  == 8 * BytesNeeded(newOffset + num)
      kept    == IF Len(shifted) > wanted THEN Slice(shifted, 0, Len(shifted) - 8) ELSE shifted
  IN [i \in DOMAIN kept |-> IF i <= newOffset \/ i > newOffset + num THEN 0 ELSE kept[i]]

(* The first byte of what was recovered is or-ed into the last one written.   *)
Join(raw, recovered, bitOffset) ==
  IF bitOffset = 0 THEN raw \o recovered
  ELSE LET last == Slice(raw, Len(raw) - 8, Len(raw))
       IN Slice(raw, 0, Len(raw) - 8) \o [i \in 1..8 |-> last[i] + recovered[i]] \o Slice(recovered, 8, Len(recovered))

RECURSIVE Unpad(_, _, _, _, _)
Unpad(source, readPos, max, written, raw) ==
  IF readPos \div 8 >= Len(source) \div 8 \/ written >= max THEN raw
  ELSE LET boundary == NextBoundary(readPos)
           extract  == Min({boundary.left, Len(source) - readPos, max - written})
           recovered == ExtractBitsAndShift(source, readPos, extract, written % 8)
       IN Unpad(source, boundary.next, max, written + extract, Join(raw, recovered, written % 8))

WriteUnpaddedAux(source, writePos, maxBytes) ==
  Unpad(source, TransformBitOffset(writePos * 8, TRUE), maxBytes * 8, 0, <<>>)

WriteUnpadded(source, offset, len) ==
  LET readPos == TransformBitOffset(offset * 8, TRUE)
      chunks  == DivCeil(Len(source) \div 8, WriteChunk)
      chunkLen(c) == Min({WriteChunk, Len(source) \div 8 - (c - 1) * WriteChunk})
      step(s, c) == LET n == Min({s.len, chunkLen(c)})
                    IN [out |-> s.out \o WriteUnpaddedAux(source, s.offset, n), offset |-> s.offset + n, len |-> s.len - n]
  IN IF BytesNeeded(TransformBitOffset(Len(source) - readPos, FALSE)) < len THEN [ok |-> FALSE, out |-> <<>>]
     ELSE [ok |-> TRUE,
           out |-> FoldLeft(step, [out |-> <<>>, offset |-> offset, len |-> len], [c \in 1..chunks |-> c]).out]

(****************************************************************************)
(* Fr32Reader.  A reader holds what is left of its source, the bytes of the   *)
(* block it last padded, its place in them, and how many elements it has left.*)
(****************************************************************************)
Fr32Reader(source) == [left |-> source, out |-> <<>>, offset |-> 0, frs |-> 0, done |-> FALSE]

(* Two words of half an element, shifted together from three, with the two    *)
(* high bits masked.                                                          *)
ProcessFr(in, j, o) ==
  LET W == ElementBits \div 2
      out0 == Slice(in[j], W - o, W) \o Slice(in[j + 1], 0, W - o)
      out1 == Slice(in[j + 1], W - o, W) \o Slice(in[j + 2], 0, W - o)
  IN out0 \o Slice(out1, 0, W - PadBits) \o Zeros(PadBits)

ProcessBlock(bits) ==
  LET W     == ElementBits \div 2
      words == [j \in 1..8 |-> Slice(bits \o Zeros(8), (j - 1) * W, j * W)]
  IN words[1] \o Slice(words[2], 0, W - PadBits) \o Zeros(PadBits)
     \o ProcessFr(words, 2, 2) \o ProcessFr(words, 4, 4) \o ProcessFr(words, 6, 6)

(* The source is read until the block is full or the source ends.             *)
FillInBuffer(left) ==
  LET n == Min({Len(left), BlockIn * 8})
  IN [bytes |-> n \div 8, block |-> Slice(left, 0, n) \o Zeros(BlockIn * 8 - n), left |-> Slice(left, n, Len(left))]

RECURSIVE ReadInto(_, _, _)
ReadInto(reader, target, bytes) ==
  IF Len(target) = bytes * 8 THEN [reader |-> reader, target |-> target]
  ELSE IF reader.frs = 0 /\ reader.left = <<>> THEN [reader |-> [reader EXCEPT !.done = TRUE], target |-> target]
  ELSE LET filled == FillInBuffer(reader.left)
           r == IF reader.frs > 0 THEN reader
                ELSE [reader EXCEPT !.left = filled.left, !.out = ProcessBlock(filled.block), !.offset = 0,
                                    !.frs = DivCeil(filled.bytes * 8, DataBits)]
           len == Min({r.frs * ElementBytes, bytes - Len(target) \div 8})
       IN ReadInto([r EXCEPT !.offset = @ + len, !.frs = @ - DivCeil(len * 8, ElementBits)],
                   target \o Slice(r.out, r.offset * 8, (r.offset + len) * 8), bytes)

Fr32Read(reader, bytes) ==
  IF reader.done \/ bytes = 0 THEN [reader |-> reader, target |-> <<>>] ELSE ReadInto(reader, <<>>, bytes)
=============================================================================

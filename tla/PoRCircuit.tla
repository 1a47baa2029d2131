----------------------------- MODULE PoRCircuit -----------------------------
(* The PoR gadgets of storage-proofs-core: a leaf and its authentication path *)
(* are hashed up to a root inside the circuit, with every index as allocated  *)
(* bits.  A synthesis is [sat |-> are the constraints satisfied, inputs |->   *)
(* the public inputs, in the order in which they are allocated].              *)
EXTENDS Merkle

Log2(n) == CHOOSE b \in 0..30 : 2 ^ b = n

(* Little endian, as every index of the circuits is.                          *)
ToBits(count, n) == [i \in 1..count |-> (n \div 2 ^ (i - 1)) % 2 = 1]

Pack(bits) == FoldLeft(LAMBDA acc, i : acc + (IF bits[i] THEN 2 ^ (i - 1) ELSE 0), 0, [i \in DOMAIN bits |-> i])

Pick(condition, a, b) == IF condition THEN a ELSE b

(* The halves are chosen from the most significant bit down.                  *)
Select(from, bits) ==
  FoldRight(LAMBDA bit, state : LET half == Len(state) \div 2
                                IN [j \in 1..half |-> Pick(bit, state[half + j], state[j])], bits, from)[1]

Insert2(x, b0, e) == <<Pick(b0, e[1], x), Pick(b0, x, e[1])>>

Insert4(a, b0, b1, e) ==
  LET b == e[1]  c == e[2]  d == e[3]
  IN <<Pick(b1, b, Pick(b0, b, a)), Pick(b1, c, Pick(b0, a, b)),
       Pick(b1, Pick(b0, d, a), c), Pick(b1, Pick(b0, a, d), d)>>

Insert8(a, b0, b1, b2, x) ==
  LET b == x[1]  c == x[2]  d == x[3]  e == x[4]  f == x[5]  g == x[6]  h == x[7]
      nor == ~b0 /\ ~b1
      and == b0 /\ b1
  IN <<Pick(b2, b, Pick(nor, a, b)), Pick(b2, c, Pick(b1, c, Pick(b0, a, b))),
       Pick(b2, d, Pick(b1, Pick(b0, d, a), c)), Pick(b2, e, Pick(and, a, d)),
       Pick(b2, Pick(nor, a, f), e), Pick(b2, Pick(b1, g, Pick(b0, a, f)), f),
       Pick(b2, Pick(b1, Pick(b0, h, a), g), g), Pick(b2, Pick(and, a, h), h)>>

Insert(x, bits, e) ==
  CASE Len(e) = 1 -> Insert2(x, bits[1], e)
    [] Len(e) = 3 -> Insert4(x, bits[1], bits[2], e)
    [] Len(e) = 7 -> Insert8(x, bits[1], bits[2], bits[3], e)
    [] OTHER      -> [pos \in 1..(Len(e) + 1) |->
                        Select([index \in 1..(Len(e) + 1) |-> InsertAt(e, index, x)[pos]], bits)]

(* The last elements of a path belong to the top and the sub tree.            *)
AuthPathFrom(t, opts) ==
  LET k == IF t.top > 0 THEN 2 ELSE IF t.sub > 0 THEN 1 ELSE 0
      n == Len(opts)
  IN [base |-> SubSeq(opts, 1, n - k), top |-> IF t.top > 0 THEN <<opts[n]>> ELSE <<>>,
      sub |-> IF t.sub > 0 THEN <<opts[IF t.top > 0 THEN n - 1 ELSE n]>> ELSE <<>>]

(* The widths of the elements of each part: all that a circuit's constraints  *)
(* depend on, so that parameters made from the blank circuit fit every proof. *)
PathWidths(auth) ==
  [part \in {"base", "sub", "top"} |-> [k \in DOMAIN auth[part] |-> Len(auth[part][k].hashes)]]

AuthPathBlank(t, leaves) ==
  [part \in {"base", "sub", "top"} |->
     CASE part = "base" -> [k \in 1..BasePathLength(t, leaves) |-> t.arity - 1]
       [] part = "sub"  -> IF t.sub > 0 THEN <<t.sub - 1>> ELSE <<>>
       [] part = "top"  -> IF t.top > 0 THEN <<t.top - 1>> ELSE <<>>]

SubPathSynthesize(arity, path, cur) ==
  FoldLeft(LAMBDA s, e : LET bits == ToBits(Log2(arity), e.index)
                         IN [cur |-> Hash(Insert(s.cur, bits, e.hashes)), bits |-> s.bits \o bits],
           [cur |-> cur, bits |-> <<>>], path)

PoRSynthesize(t, value, auth, root, private) ==
  LET base == SubPathSynthesize(t.arity, auth.base, value)
      sub  == SubPathSynthesize(t.sub, auth.sub, base.cur)
      top  == SubPathSynthesize(t.top, auth.top, sub.cur)
  IN [sat    |-> top.cur = root,
      inputs |-> <<Pack(base.bits \o sub.bits \o top.bits)>> \o (IF private THEN <<>> ELSE <<root>>)]

PoRPublicInputs(t, challenge, commitment, private) ==
  <<challenge>> \o (IF private THEN <<>> ELSE <<commitment>>)

(* The gadget without the challenge as a public input takes the insertion     *)
(* indexes from the bits of an already allocated challenge.                   *)
PoRNoChallengeInput(t, bits, leaf, path, root) ==
  LET subAt   == IF t.sub = 0 THEN Len(path) + 1 ELSE Len(path) - (IF t.top = 0 THEN 0 ELSE 1)
      arityAt(k) == CASE k < subAt -> t.arity [] k = subAt -> t.sub [] OTHER -> t.top
      step(s, k) == LET n == Log2(arityAt(k))
                    IN [cur  |-> Hash(Insert(s.cur, SubSeq(s.left, 1, n), path[k])),
                        left |-> SubSeq(s.left, n + 1, Len(s.left))]
      end == FoldLeft(step, [cur |-> leaf, left |-> bits], [k \in DOMAIN path |-> k])
  IN end.left = <<>> /\ end.cur = root
=============================================================================

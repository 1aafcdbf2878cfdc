--------------------------- MODULE AlgorithmsProofs ---------------------------
(***************************************************************************)
(* What zlib's utilities promise, for every value of their parameters: the *)
(* room that deflateBound() and compressBound() ask for is enough, for a   *)
(* source of any length and any settings; and compress2() and              *)
(* uncompress2() say what happened, for any source, room and length of the *)
(* pieces.                                                                 *)
(***************************************************************************)
EXTENDS MCAlgorithms, TLAPS

-----------------------------------------------------------------------------
(* deflateBound().  A block adds at most 42 bits to its bytes if it is     *)
(* stored, and 24 if it is not though it could be; a block that cannot be  *)
(* stored adds a bit for each byte and 10.  That is within the             *)
(* conservative bound at once.  For the tight bound it is not: 42 bits for *)
(* each block are too many.  There the invariant is that a block adds no   *)
(* more than 40 bits, and that whoever leaves a byte incomplete, so that   *)
(* the next stored block has to fill it up, has saved the 7 bits before.   *)

\* The parameters, and how far the source is in blocks.
BoundTypes ==
  /\ cfg \in [w_bits : 9..15, memLevel : 1..9, level : 0..9, wrap : {0, 1, 2}, dict : BOOLEAN]
  /\ head \in [extra : Nat \union {-1}, name : Nat \union {-1}, comment : Nat \union {-1},
               hcrc : BOOLEAN]
  /\ size \in Nat
  /\ left \in Nat
  /\ left <= size
  /\ bits \in Nat
  /\ done \in BOOLEAN

Default == cfg.w_bits = 15 /\ cfg.memLevel = 8

\* Any settings: an eighth and a 64th more.
WithinConservative == 8 * bits <= 73 * (size - left)

\* The default settings: k blocks of 16383 bytes, c in all, and none with more
\* than 40 bits on top, 131104 with them, or the bits of an incomplete byte are
\* saved.
FullBlock == 16383
FullBits == 8 * FullBlock + 40

TightAt(k, c, b) ==
  /\ c = FullBlock * k
  /\ b <= FullBits * k
  /\ b % 8 = 0 \/ b <= FullBits * k - 7

WithinTight == \E k \in Nat : TightAt(k, size - left, bits)

\* What a block of a bytes may take from b to e bits, and what if it can be
\* stored: then it fills the byte at which it begins.
LooseCost(a, b, e) ==
  e <= b + 9 * a + 10 \/ (a >= 15 /\ e % 8 = 0 /\ e <= b + 8 * a + 42)

TightCost(a, b, e) ==
  \/ e <= b + 8 * a + 24
  \/ /\ e % 8 = 0
     /\ e <= b + 8 * a + 42
     /\ b % 8 = 0 => e = b + 8 * a + 40

\* z is the end of the byte of e.
EndsByte(e, z) == z <= e + 7 /\ z % 8 = 0 /\ (e % 8 = 0 => z = e)

\* Level 0: blocks of 65535 bytes with 40 bits on top.
WithinStored ==
  \E k \in Nat : size - left = 65535 * k /\ bits = 8 * 65535 * k + 40 * k

Complen == IF Default THEN Bound!Tight(size) ELSE Bound!Conservative(size)

BoundInv ==
  /\ BoundTypes
  /\ ~done /\ cfg.level > 0 => WithinConservative /\ (Default => WithinTight)
  /\ ~done /\ cfg.level = 0 => WithinStored
  /\ done => bits <= 8 * Complen

\* The smaller of two numbers.
LEMMA BoundMin ==
  ASSUME NEW a \in Int, NEW b \in Int
  PROVE  Bound!Min({a, b}) = IF a <= b THEN a ELSE b
  BY DEF Bound!Min

\* Up to the end of the byte.
LEMMA WholeBytes ==
  ASSUME NEW b \in Nat
  PROVE  Bound!Whole(b) \in Nat /\ EndsByte(b, Bound!Whole(b))
  BY DEF Bound!Whole, EndsByte

\* 1 << (memLevel + 6): a block has at least 127 literals.
LEMMA BlockSizes ==
  ASSUME BoundTypes
  PROVE  /\ Bound!lit_bufsize \in Nat /\ Bound!lit_bufsize >= 128
         /\ Default => Bound!lit_bufsize = 16384 /\ Bound!w_size = 32768
         /\ Bound!w_size \in Nat /\ Bound!w_size >= 512
<1> DEFINE P(x) == 2^x
<1>1. /\ P(7) = 128 /\ P(8) = 256 /\ P(9) = 512 /\ P(10) = 1024 /\ P(11) = 2048
      /\ P(12) = 4096 /\ P(13) = 8192 /\ P(14) = 16384 /\ P(15) = 32768
  OBVIOUS
<1>2. Bound!lit_bufsize = P(cfg.memLevel + 6) /\ Bound!w_size = P(cfg.w_bits)
  BY DEF Bound!lit_bufsize, Bound!w_size
<1>3. cfg.memLevel \in 1..9 /\ cfg.w_bits \in 9..15
  BY DEF BoundTypes
<1> HIDE DEF P
<1>4. /\ cfg.memLevel + 6 \in {7, 8, 9, 10, 11, 12, 13, 14, 15}
      /\ cfg.w_bits \in {9, 10, 11, 12, 13, 14, 15}
      /\ Default => cfg.memLevel + 6 = 14 /\ cfg.w_bits = 15
  BY <1>3 DEF Default
<1>5. P(cfg.memLevel + 6) \in {128, 256, 512, 1024, 2048, 4096, 8192, 16384, 32768}
  BY <1>1, <1>4
<1>6. P(cfg.w_bits) \in {512, 1024, 2048, 4096, 8192, 16384, 32768}
  BY <1>1, <1>4
<1>7. Default => P(cfg.memLevel + 6) = 16384 /\ P(cfg.w_bits) = 32768
  BY <1>1, <1>4
<1> QED
  BY <1>2, <1>5, <1>6, <1>7

\* _tr_flush_block(): what a block of a bytes may take if its symbols need o
\* bits.
LEMMA BlockCost ==
  ASSUME NEW a \in Nat, NEW o \in Nat, NEW w \in BOOLEAN, bits \in Nat,
         o <= 9 * a + 7
  PROVE  /\ Bound!Chosen(a, o, w) \in Nat
         /\ LooseCost(a, bits, Bound!Chosen(a, o, w))
         /\ w => TightCost(a, bits, Bound!Chosen(a, o, w))
<1> DEFINE long == a + 4 <= (o + 3 + 7) \div 8
<1>1. CASE long /\ w
  <2>1. Bound!Chosen(a, o, w) = ((bits + 3 + 7) \div 8) * 8 + 32 + 8 * a
    BY <1>1 DEF Bound!Chosen, Bound!Stored, Bound!Whole
  <2>2. a >= 15
    BY <1>1
  <2>3. /\ Bound!Chosen(a, o, w) \in Nat
        /\ LooseCost(a, bits, Bound!Chosen(a, o, w))
        /\ TightCost(a, bits, Bound!Chosen(a, o, w))
    BY <2>1, <2>2 DEF LooseCost, TightCost
  <2> QED
    BY <2>3, Zenon
<1>2. CASE ~(long /\ w)
  <2>1. Bound!Chosen(a, o, w) = bits + 3 + o
    BY <1>2 DEF Bound!Chosen
  <2>2. /\ Bound!Chosen(a, o, w) \in Nat
        /\ LooseCost(a, bits, Bound!Chosen(a, o, w))
    BY <2>1 DEF LooseCost
  <2>3. ASSUME ~long PROVE TightCost(a, bits, Bound!Chosen(a, o, w))
    BY <2>1, <2>3 DEF TightCost
  <2> HIDE DEF long
  <2> QED
    BY <1>2, <2>2, <2>3, Zenon
<1> QED
  BY <1>1, <1>2, Zenon

\* A block of a bytes that can be stored and begins when m bits are allowed,
\* and the rest of its last byte.
LEMMA TightBlock ==
  ASSUME NEW m \in Nat, NEW b \in Nat, NEW e \in Nat, NEW a \in Nat,
         b <= m, b % 8 = 0 \/ b <= m - 7, TightCost(a, b, e)
  PROVE  /\ e <= m + 8 * a + 40
         /\ e % 8 = 0 \/ e <= m + 8 * a + 33
  BY SMT DEF TightCost

LEMMA TightEnd ==
  ASSUME NEW m \in Nat, NEW e \in Nat, NEW a \in Nat, NEW z \in Nat,
         e <= m + 8 * a + 40, e % 8 = 0 \/ e <= m + 8 * a + 33, EndsByte(e, z)
  PROVE  z <= m + 8 * a + 40
  BY SMT DEF EndsByte

LEMMA FullNat ==
  /\ FullBlock \in Nat
  /\ \A k \in Nat : FullBits * k \in Nat /\ FullBits * k = 8 * (FullBlock * k) + 40 * k
  BY SMT DEF FullBlock, FullBits

LEMMA TightStep ==
  ASSUME NEW b \in Nat, NEW e \in Nat, NEW k \in Nat, NEW c \in Nat, NEW a \in Nat,
         a = FullBlock, TightAt(k, c, b), TightCost(a, b, e)
  PROVE  TightAt(k + 1, c + a, e)
<1> DEFINE m == FullBits * k
<1>1. m \in Nat
  BY FullNat, Zenon
<1>2. c = FullBlock * k /\ b <= m /\ (b % 8 = 0 \/ b <= m - 7)
  BY Zenon DEF TightAt
<1>3. FullBlock * (k + 1) = FullBlock * k + FullBlock /\ FullBits * (k + 1) = m + 8 * FullBlock + 40
  BY SMT DEF FullBlock, FullBits
<1> HIDE DEF m
<1>4. e <= m + 8 * a + 40 /\ (e % 8 = 0 \/ e <= m + 8 * a + 33)
  BY <1>1, <1>2, TightBlock, Zenon
<1>5. FullBits * (k + 1) = m + 8 * a + 40
  BY <1>3, Zenon
<1>6. FullBits * (k + 1) - 7 = m + 8 * a + 33
  BY <1>1, <1>5, SMT
<1>7. c + a = FullBlock * (k + 1)
  BY <1>2, <1>3, Zenon
<1>8. e <= FullBits * (k + 1)
  BY <1>4, <1>5, Zenon
<1>9. e % 8 = 0 \/ e <= FullBits * (k + 1) - 7
  BY <1>4, <1>6, Zenon
<1> QED
  BY <1>7, <1>8, <1>9, Zenon DEF TightAt

\* The shifts of the tight bound make room for 5 bytes for each block, less 2.
Shifts(s) == (s \div 4096) + (s \div 16384) + (s \div 33554432)

LEMMA TightIs == ASSUME NEW s \in Nat PROVE Bound!Tight(s) = s + Shifts(s) + 7
<1>1. 2^12 = 4096 /\ 2^14 = 16384 /\ 2^25 = 33554432
  BY SMT
<1> QED
  BY <1>1, SMT DEF Bound!Tight, Shifts

LEMMA ShiftsNat == ASSUME NEW s \in Nat PROVE Shifts(s) \in Nat
  BY SMT DEF Shifts

LEMMA ShiftsSum ==
  ASSUME NEW w \in Nat, NEW k \in Nat, 167772160 * k <= 33554432 * w + 100653055
  PROVE  5 * k - 2 <= w
<1>1. 5 * k < w + 3
  BY SMT
<1> QED
  BY <1>1, SMT

LEMMA ShiftsRoom ==
  ASSUME NEW s \in Nat, NEW k \in Nat, s >= FullBlock * k
  PROVE  5 * k - 2 <= Shifts(s)
<1> DEFINE x == s \div 4096
           y == s \div 16384
           z == s \div 33554432
<1>1. x \in Nat /\ s <= 4096 * x + 4095
  BY SMT
<1>2. y \in Nat /\ s <= 16384 * y + 16383
  BY SMT
<1>3. z \in Nat /\ s <= 33554432 * z + 33554431
  BY SMT
<1>4. Shifts(s) = x + y + z
  BY SMT DEF Shifts
<1> HIDE DEF x, y, z
<1>5. 10241 * s <= 33554432 * (x + y + z) + 100653055
  BY <1>1, <1>2, <1>3, SMT
<1>6. 167772160 * k <= 10241 * s
  BY SMT DEF FullBlock
<1>7. x + y + z \in Nat
  BY <1>1, <1>2, <1>3, SMT
<1>8. 5 * k - 2 <= x + y + z
  <2>1. 167772160 * k <= 33554432 * (x + y + z) + 100653055
    BY <1>5, <1>6, <1>7, SMT
  <2> QED
    BY <1>7, <2>1, ShiftsSum, SMT
<1> QED
  BY <1>4, <1>8, SMT

LEMMA TightNat == ASSUME NEW s \in Nat PROVE Bound!Tight(s) \in Nat
  BY TightIs, ShiftsNat, SMT

LEMMA TightRoom ==
  ASSUME NEW s \in Nat, NEW k \in Nat, s >= FullBlock * k
  PROVE  s + 5 * k + 5 <= Bound!Tight(s)
<1>1. Bound!Tight(s) = s + Shifts(s) + 7 /\ Shifts(s) \in Nat
  BY TightIs, ShiftsNat, Zenon
<1>2. 5 * k - 2 <= Shifts(s)
  BY ShiftsRoom, Zenon
<1> QED
  BY <1>1, <1>2, SMT

\* The last block, of a bytes, and the rest of its byte.
LEMMA TightLast ==
  ASSUME NEW b \in Nat, NEW e \in Nat, NEW z \in Nat, NEW k \in Nat, NEW c \in Nat,
         NEW a \in Nat,
         TightAt(k, c, b), TightCost(a, b, e), EndsByte(e, z)
  PROVE  z <= 8 * Bound!Tight(c + a)
<1> DEFINE m == FullBits * k
<1>1. m \in Nat /\ m = 8 * (FullBlock * k) + 40 * k
  BY FullNat, Zenon
<1>2. c = FullBlock * k /\ b <= m /\ (b % 8 = 0 \/ b <= m - 7)
  BY Zenon DEF TightAt
<1> HIDE DEF m
<1>3. z <= 8 * (c + a + 5 * k + 5)
  <2>1. e <= m + 8 * a + 40 /\ (e % 8 = 0 \/ e <= m + 8 * a + 33)
    BY <1>1, <1>2, TightBlock, Zenon
  <2>2. z <= m + 8 * a + 40
    BY <1>1, <2>1, TightEnd, Zenon
  <2>3. m = 8 * c + 40 * k
    BY <1>1, <1>2, Zenon
  <2> QED
    BY <2>2, <2>3, SMT
<1>4. c + a \in Nat
  BY SMT
<1>5. c + a >= FullBlock * k
  <2>1. c + a >= c
    BY SMT
  <2> QED
    BY <1>2, <2>1, Zenon
<1>6. Bound!Tight(c + a) \in Nat
  BY <1>4, TightNat, Zenon
<1>7. (c + a) + 5 * k + 5 <= Bound!Tight(c + a)
  BY <1>4, <1>5, TightRoom, Zenon
<1> QED
  BY <1>3, <1>6, <1>7, SMT

LEMMA ConservativeRoom ==
  ASSUME NEW s \in Nat
  PROVE  Bound!Conservative(s) \in Nat /\ 64 * Bound!Conservative(s) >= 73 * s + 320
  BY DEF Bound!Conservative

LEMMA ConservativeLast ==
  ASSUME NEW b \in Nat, NEW e \in Nat, NEW z \in Nat, NEW c \in Nat, NEW a \in Nat,
         8 * b <= 73 * c, LooseCost(a, b, e), EndsByte(e, z)
  PROVE  z <= 8 * Bound!Conservative(c + a)
<1>1. c + a \in Nat
  OBVIOUS
<1>2. /\ Bound!Conservative(c + a) \in Nat
      /\ 64 * Bound!Conservative(c + a) >= 73 * (c + a) + 320
  BY <1>1, ConservativeRoom
<1> QED
  BY <1>2 DEF LooseCost, EndsByte

\* No block yet.
LEMMA BoundInit == ASSUME Bound!Init PROVE BoundInv
<1>1. /\ cfg \in AllSettings /\ head \in AllHeads \union {Bound!NoHead}
      /\ size \in Sizes /\ left = size /\ bits = 0 /\ done = FALSE
  BY DEF Bound!Init
<1>2. /\ cfg \in [w_bits : 9..15, memLevel : 1..9, level : 0..9, wrap : {0, 1, 2}, dict : BOOLEAN]
      /\ size \in Nat
  BY <1>1, ComponentsAssumption DEF Bound!BoundAssumption
<1>3. head \in [extra : Nat \union {-1}, name : Nat \union {-1}, comment : Nat \union {-1},
                hcrc : BOOLEAN]
  <2>1. Bound!NoHead \in [extra : Nat \union {-1}, name : Nat \union {-1},
                          comment : Nat \union {-1}, hcrc : BOOLEAN]
    BY DEF Bound!NoHead
  <2> QED
    BY <1>1, <2>1, ComponentsAssumption DEF Bound!BoundAssumption
<1>4. BoundTypes
  <2>1. left \in Nat /\ left <= size /\ bits \in Nat
    BY <1>1, <1>2
  <2>2. done \in BOOLEAN
    BY <1>1, Zenon
  <2> QED
    BY <1>2, <1>3, <2>1, <2>2, Zenon DEF BoundTypes
<1>5. WithinConservative
  BY <1>1, <1>2 DEF WithinConservative
<1>6. WithinTight
  <2>1. TightAt(0, size - left, bits)
    BY <1>1, <1>2, SMT DEF TightAt, FullBlock, FullBits
  <2> QED
    BY <2>1, Zenon DEF WithinTight
<1>7. WithinStored
  <2>1. size - left = 65535 * 0 /\ bits = 8 * 65535 * 0 + 40 * 0
    BY <1>1, <1>2
  <2> QED
    BY <2>1 DEF WithinStored
<1> QED
  BY <1>1, <1>4, <1>5, <1>6, <1>7 DEF BoundInv

\* A block of Block(last): its bytes and where it ends.
LEMMA BlockParts ==
  ASSUME BoundTypes, NEW last \in BOOLEAN, Bound!Block(last)
  PROVE  \E a \in Nat, e \in Nat :
           /\ a <= left /\ a < Bound!lit_bufsize
           /\ last => a = left
           /\ ~last => a = Bound!lit_bufsize - 1
           /\ left' = left - a
           /\ bits' = IF last THEN Bound!Whole(e) ELSE e
           /\ LooseCost(a, bits, e)
           /\ a <= Bound!w_size => TightCost(a, bits, e)
<1> DEFINE a == Bound!Min({left, Bound!lit_bufsize - 1})
<1>1. left \in Nat /\ bits \in Nat /\ Bound!lit_bufsize \in Nat /\ Bound!lit_bufsize >= 128
  BY BlockSizes DEF BoundTypes
<1>2. a = IF left <= Bound!lit_bufsize - 1 THEN left ELSE Bound!lit_bufsize - 1
  BY <1>1, BoundMin
<1>3. /\ last <=> (left < Bound!lit_bufsize - 1)
      /\ left' = left - a
  BY DEF Bound!Block
<1>4. PICK o \in {9 * a + 7} \union {x \in OptLens : x < 9 * a + 7}, w \in BOOLEAN :
        /\ a <= Bound!w_size => w
        /\ bits' = IF last THEN Bound!Whole(Bound!Chosen(a, o, w)) ELSE Bound!Chosen(a, o, w)
  BY DEF Bound!Block
<1> HIDE DEF a
<1>5. a \in Nat
  BY <1>1, <1>2
<1>6. o \in Nat /\ o <= 9 * a + 7
  BY <1>4, <1>5, ComponentsAssumption DEF Bound!BoundAssumption
<1>7. /\ a <= left /\ a < Bound!lit_bufsize
      /\ last => a = left
      /\ ~last => a = Bound!lit_bufsize - 1
  BY <1>1, <1>2, <1>3
<1>8. /\ Bound!Chosen(a, o, w) \in Nat
      /\ LooseCost(a, bits, Bound!Chosen(a, o, w))
      /\ w => TightCost(a, bits, Bound!Chosen(a, o, w))
  BY <1>1, <1>5, <1>6, BlockCost, Zenon
<1> QED
  BY <1>3, <1>4, <1>5, <1>7, <1>8, Zenon

\* deflate() fills a block.
LEMMA BlockMiddle ==
  ASSUME BoundInv, Bound!Block(FALSE)
  PROVE  BoundTypes' /\ WithinConservative' /\ (Default => WithinTight')
<1>0. /\ BoundTypes /\ cfg.level > 0 /\ ~done /\ done' = FALSE /\ UNCHANGED <<cfg, head, size>>
      /\ WithinConservative /\ (Default => WithinTight)
  BY DEF BoundInv, Bound!Block
<1>1. PICK a \in Nat, e \in Nat :
        /\ a <= left /\ a = Bound!lit_bufsize - 1
        /\ left' = left - a /\ bits' = e
        /\ LooseCost(a, bits, e)
        /\ a <= Bound!w_size => TightCost(a, bits, e)
  BY <1>0, BlockParts, Zenon
<1>2. bits \in Nat /\ left \in Nat /\ size \in Nat /\ left <= size /\ a >= 127
  BY <1>0, <1>1, BlockSizes DEF BoundTypes
<1>4. BoundTypes'
  <2>1. left' \in Nat /\ left' <= size
    BY <1>1, <1>2
  <2>2. UNCHANGED <<cfg, head, size>> /\ done' \in BOOLEAN
    BY <1>0, Zenon
  <2> QED
    BY <1>0, <1>1, <2>1, <2>2 DEF BoundTypes
<1>5. WithinConservative'
  <2>1. size' = size
    BY <1>0, Zenon
  <2> QED
    BY <1>0, <1>1, <1>2, <2>1, SMT DEF WithinConservative, LooseCost
<1>6. ASSUME Default PROVE WithinTight'
  <2>1. a = FullBlock /\ a <= Bound!w_size
    BY <1>0, <1>1, <1>6, BlockSizes, SMT DEF FullBlock
  <2>2. PICK k \in Nat : TightAt(k, size - left, bits)
    BY <1>0, <1>6, Zenon DEF WithinTight
  <2>3. TightCost(a, bits, e)
    BY <1>1, <2>1, SMT
  <2>4. size - left \in Nat /\ k + 1 \in Nat
    BY <1>2, SMT
  <2>5. TightAt(k + 1, (size - left) + a, bits')
    BY <1>1, <1>2, <2>1, <2>2, <2>3, <2>4, TightStep, SMT
  <2>6. size' - left' = (size - left) + a
    <3>1. size' = size
      BY <1>0, Zenon
    <3> QED
      BY <1>1, <1>2, <3>1, SMT
  <2> QED
    BY <2>4, <2>5, <2>6, Zenon DEF WithinTight
<1> QED
  BY <1>4, <1>5, <1>6, Zenon

\* The last block, up to the end of its byte.
LEMMA BlockLast ==
  ASSUME BoundInv, Bound!Block(TRUE)
  PROVE  BoundTypes' /\ bits' <= 8 * Complen
<1>0. /\ BoundTypes /\ cfg.level > 0 /\ ~done /\ done' = TRUE /\ UNCHANGED <<cfg, head, size>>
      /\ WithinConservative /\ (Default => WithinTight)
  BY DEF BoundInv, Bound!Block
<1>1. PICK a \in Nat, e \in Nat :
        /\ a = left /\ a < Bound!lit_bufsize
        /\ left' = left - a /\ bits' = Bound!Whole(e)
        /\ LooseCost(a, bits, e)
        /\ a <= Bound!w_size => TightCost(a, bits, e)
  BY <1>0, BlockParts, Zenon
<1>2. /\ bits \in Nat /\ left \in Nat /\ size \in Nat /\ left <= size
      /\ size - left \in Nat /\ (size - left) + a = size
  BY <1>0, <1>1 DEF BoundTypes
<1>3. bits' \in Nat /\ EndsByte(e, bits')
  BY <1>1, WholeBytes, Zenon
<1>4. BoundTypes'
  <2>1. left' \in Nat /\ left' <= size
    BY <1>1, <1>2
  <2>2. UNCHANGED <<cfg, head, size>> /\ done' \in BOOLEAN
    BY <1>0, Zenon
  <2> QED
    BY <1>0, <1>3, <2>1, <2>2 DEF BoundTypes
<1>5. bits' <= 8 * Bound!Conservative(size)
  <2>1. 8 * bits <= 73 * (size - left)
    BY <1>0 DEF WithinConservative
  <2>2. bits' <= 8 * Bound!Conservative((size - left) + a)
    BY <1>1, <1>2, <1>3, <2>1, ConservativeLast, Zenon
  <2> QED
    BY <1>2, <2>2, Zenon
<1>6. ASSUME Default PROVE bits' <= 8 * Bound!Tight(size)
  <2>1. a <= Bound!w_size
    BY <1>0, <1>1, <1>6, BlockSizes, SMT
  <2>2. PICK k \in Nat : TightAt(k, size - left, bits)
    BY <1>0, <1>6, Zenon DEF WithinTight
  <2>3. bits' <= 8 * Bound!Tight((size - left) + a)
    BY <1>1, <1>2, <1>3, <2>1, <2>2, TightLast, Zenon
  <2> QED
    BY <1>2, <2>3, Zenon
<1> QED
  BY <1>4, <1>5, <1>6, Zenon DEF Complen

\* k blocks of 65535 bytes at level 0 and one more of a bytes.
LEMMA StoredCost ==
  ASSUME NEW k \in Nat, NEW a \in Nat, bits = 8 * 65535 * k + 40 * k
  PROVE  Bound!Stored(a) = 8 * (65535 * k + a) + 40 * (k + 1)
  BY SMT DEF Bound!Stored, Bound!Whole

LEMMA StoredTight ==
  ASSUME NEW k \in Nat, NEW s \in Nat, s >= 65535 * k
  PROVE  8 * s + 40 * (k + 1) <= 8 * Bound!Tight(s)
<1>1. s >= FullBlock * k
  BY SMT DEF FullBlock
<1>2. Bound!Tight(s) \in Nat /\ s + 5 * k + 5 <= Bound!Tight(s)
  BY <1>1, TightNat, TightRoom, SMT
<1> QED
  BY <1>2, SMT

LEMMA StoredConservative ==
  ASSUME NEW k \in Nat, NEW s \in Nat, s >= 65535 * k
  PROVE  8 * s + 40 * (k + 1) <= 8 * Bound!Conservative(s)
<1>1. /\ Bound!Conservative(s) \in Nat
      /\ 64 * Bound!Conservative(s) >= 73 * s + 320
  BY ConservativeRoom, SMT
<1> QED
  BY <1>1, SMT

\* deflate_stored() writes a block.
LEMMA StoredStep ==
  ASSUME BoundInv, Bound!StoredBlock
  PROVE  BoundInv'
<1>0. /\ BoundTypes /\ cfg.level = 0 /\ ~done /\ UNCHANGED <<cfg, head, size>>
      /\ WithinStored
  BY DEF BoundInv, Bound!StoredBlock
<1> DEFINE a == Bound!Min({left, 65535})
<1>1. /\ bits' = Bound!Stored(a) /\ left' = left - a /\ done' = (a = left)
  BY DEF Bound!StoredBlock
<1>2. bits \in Nat /\ left \in Nat /\ size \in Nat /\ left <= size
  BY <1>0 DEF BoundTypes
<1>3. a = IF left <= 65535 THEN left ELSE 65535
  BY <1>2, BoundMin, SMT
<1> HIDE DEF a
<1>4. a \in Nat /\ a <= left
  BY <1>2, <1>3, SMT
<1>5. PICK k \in Nat : size - left = 65535 * k /\ bits = 8 * 65535 * k + 40 * k
  BY <1>0, SMT DEF WithinStored
<1>6. bits' = 8 * (65535 * k + a) + 40 * (k + 1)
  BY <1>1, <1>4, <1>5, StoredCost, SMT
<1>7. size' = size /\ cfg' = cfg /\ head' = head
  BY <1>0, Zenon
<1>8. done' \in BOOLEAN
  BY <1>1, Zenon
<1>9. left' \in Nat /\ left' <= size /\ bits' \in Nat
  BY <1>1, <1>2, <1>4, <1>6, SMT
<1>10. BoundTypes'
  BY <1>0, <1>7, <1>8, <1>9, Zenon DEF BoundTypes
<1>11. ASSUME ~done' PROVE WithinStored'
  <2>1. a # left
    BY <1>1, <1>11, Zenon
  <2>2. a = 65535
    BY <1>2, <1>3, <2>1, SMT
  <2>3. size' - left' = 65535 * (k + 1) /\ bits' = 8 * 65535 * (k + 1) + 40 * (k + 1)
    BY <1>1, <1>2, <1>5, <1>6, <1>7, <2>2, SMT
  <2> QED
    BY <2>3, SMT DEF WithinStored
<1>12. ASSUME done' PROVE bits' <= 8 * Complen'
  <2>1. a = left
    BY <1>1, <1>12, Zenon
  <2>2. bits' = 8 * size + 40 * (k + 1) /\ size >= 65535 * k
    BY <1>2, <1>5, <1>6, <2>1, SMT
  <2>3. bits' <= 8 * Bound!Tight(size) /\ bits' <= 8 * Bound!Conservative(size)
    BY <1>2, <2>2, StoredTight, StoredConservative, SMT
  <2>4. Complen' = Complen
    BY <1>7, Zenon DEF Complen, Default, Bound!Tight, Bound!Conservative
  <2> QED
    BY <2>3, <2>4, Zenon DEF Complen
<1>13. ~(cfg.level > 0)
  BY <1>0
<1> QED
  BY <1>7, <1>10, <1>11, <1>12, <1>13, Zenon DEF BoundInv

LEMMA BoundStep ==
  ASSUME BoundInv, Bound!Next
  PROVE  BoundInv'
<1>1. CASE Bound!Block(FALSE)
  <2>1. cfg.level > 0 /\ done' = FALSE /\ cfg' = cfg
    BY <1>1 DEF Bound!Block
  <2>2. BoundTypes' /\ WithinConservative' /\ (Default => WithinTight')
    BY <1>1, BlockMiddle, Zenon
  <2>3. cfg.level # 0
    BY <2>1
  <2>4. Default' = Default
    BY <2>1, Zenon DEF Default
  <2> QED
    BY <2>1, <2>2, <2>3, <2>4, Zenon DEF BoundInv
<1>2. CASE Bound!Block(TRUE)
  <2>1. done' = TRUE /\ cfg' = cfg /\ size' = size
    BY <1>2 DEF Bound!Block
  <2>2. BoundTypes' /\ bits' <= 8 * Complen
    BY <1>2, BlockLast, Zenon
  <2>3. Complen' = Complen
    BY <2>1, Zenon DEF Complen, Default, Bound!Tight, Bound!Conservative
  <2> QED
    BY <2>1, <2>2, <2>3, Zenon DEF BoundInv
<1>3. CASE Bound!StoredBlock
  BY <1>3, StoredStep
<1> QED
  BY <1>1, <1>2, <1>3, Zenon DEF Bound!Next

\* deflate() writes the header and the trailer that deflateBound() counts.
LEMMA WrapperCounted ==
  ASSUME BoundTypes
  PROVE  Bound!Wrapper \in Nat /\ Bound!wraplen = Bound!Wrapper
<1>1. cfg.wrap \in {0, 1, 2} /\ cfg.dict \in BOOLEAN
  BY DEF BoundTypes
<1>2. /\ head.extra \in Nat \union {-1} /\ head.name \in Nat \union {-1}
      /\ head.comment \in Nat \union {-1}
  BY DEF BoundTypes
<1>3. head.hcrc \in BOOLEAN
  BY DEF BoundTypes
<1>4. CASE cfg.wrap = 0
  BY <1>4 DEF Bound!Wrapper, Bound!wraplen
<1>5. CASE cfg.wrap = 1
  BY <1>5, <1>1 DEF Bound!Wrapper, Bound!wraplen
<1>6. CASE cfg.wrap = 2
  BY <1>6, <1>2, <1>3 DEF Bound!Wrapper, Bound!wraplen
<1> QED
  BY <1>1, <1>4, <1>5, <1>6

LEMMA BoundSuffices == ASSUME BoundInv PROVE Bound!BoundHolds /\ Bound!CompressHolds
<1> SUFFICES ASSUME done PROVE Bound!BoundHolds /\ Bound!CompressHolds
  BY Zenon DEF Bound!BoundHolds, Bound!CompressHolds
<1>1. BoundTypes /\ bits <= 8 * Complen
  BY Zenon DEF BoundInv
<1>2. bits \in Nat /\ size \in Nat
  BY <1>1 DEF BoundTypes
<1>3. Bound!Tight(size) \in Nat
  BY <1>2, TightNat, SMT
<1>4. Bound!Conservative(size) \in Nat
  BY <1>2, ConservativeRoom, SMT
<1>5. Complen \in Nat
  BY <1>3, <1>4, Zenon DEF Complen
<1>6. bits \div 8 \in Nat /\ bits \div 8 <= Complen
  BY <1>1, <1>2, <1>5, SMT
<1>7. Bound!Wrapper \in Nat /\ Bound!wraplen = Bound!Wrapper
  BY <1>1, WrapperCounted
<1>8. Bound!deflateBound = Complen + Bound!wraplen
  <2>1. (cfg.w_bits # 15 \/ Bound!hash_bits # 8 + 7) <=> ~Default
    <3>1. cfg.memLevel \in Nat
      BY <1>1 DEF BoundTypes
    <3> QED
      BY <3>1 DEF Default, Bound!hash_bits
  <2> QED
    BY <2>1, Zenon DEF Bound!deflateBound, Complen
<1>9. Bound!BoundHolds
  BY <1>5, <1>6, <1>7, <1>8, SMT DEF Bound!BoundHolds, Bound!Output
<1>10. ASSUME cfg.w_bits = 15, cfg.memLevel = 8, cfg.wrap = 1, ~cfg.dict
       PROVE  Bound!Output <= Bound!compressBound
  <2>1. Complen = Bound!Tight(size)
    BY <1>10, Zenon DEF Complen, Default
  <2>2. Bound!Wrapper = 6
    BY <1>10 DEF Bound!Wrapper
  <2> QED
    BY <1>3, <1>6, <2>1, <2>2, SMT DEF Bound!Output, Bound!compressBound
<1> QED
  BY <1>9, <1>10, Zenon DEF Bound!CompressHolds

-----------------------------------------------------------------------------
(* compress2() and uncompress2().                                          *)

Streams == [avail_in : Nat, avail_out : Nat, total_in : Nat, total_out : Nat]

UncTypes ==
  /\ call \in {"compress2", "uncompress2"}
  /\ Len(src) \in Nat
  /\ \A i \in 1..Len(src) : src[i] \in Nat
  /\ \A i, j \in 1..Len(src) : i <= j => src[i] <= src[j]
  /\ event \in {"end", "corrupt", "dict", "truncated"}
  /\ call = "compress2" => event = "end" /\ trailing = 0
  /\ trailing \in Nat
  /\ event = "truncated" => trailing = 0
  /\ destLen \in Nat
  /\ left \in Nat
  /\ len \in Nat
  /\ stream \in Streams
  /\ pending \in Nat
  /\ moved \in BOOLEAN
  /\ err \in {"OK", "call", "BUF_ERROR", "STREAM_END", "DATA_ERROR", "NEED_DICT"}

\* No byte of room, of input and of output is lost between the loop and the
\* stream.
Balanced ==
  /\ left + stream.avail_out + stream.total_out = Unc!Room
  /\ len + stream.avail_in + stream.total_in = Len(src) + trailing
  /\ stream.total_in <= Len(src)
  /\ stream.total_out + pending = Unc!Made(stream.total_in)

\* A call that has not moved yet has room and input if there is any left, and
\* deflate() is not called again when it is through.
Handed ==
  /\ err = "call" /\ ~moved =>
       /\ stream.avail_out = 0 => left = 0
       /\ stream.avail_in = 0 => len = 0
  /\ call = "compress2" /\ (err = "OK" \/ (err = "call" /\ ~moved)) => ~Unc!AtEvent

\* What the stream's last call has met.
Met ==
  /\ err = "STREAM_END" => Unc!AtEvent /\ event = "end"
  /\ err = "DATA_ERROR" => Unc!AtEvent /\ event = "corrupt"
  /\ err = "NEED_DICT" => Unc!AtEvent /\ event = "dict"
  /\ err = "BUF_ERROR" =>
       \/ pending > 0 /\ stream.avail_out = 0 /\ left = 0
       \/ pending = 0 /\ stream.total_in = Len(src) /\ event = "truncated"

\* What the loop has made of it.
Told ==
  result # "none" =>
    /\ err \notin {"OK", "call"}
    /\ result = IF Unc!Inflates THEN Unc!UncompressResult
                ELSE IF err = "STREAM_END" THEN "OK" ELSE err

UncInv == UncTypes /\ Balanced /\ Handed /\ Met /\ Told

LEMMA UncMin ==
  ASSUME NEW a \in Int, NEW b \in Int
  PROVE  Unc!Min({a, b}) = IF a <= b THEN a ELSE b
  BY DEF Unc!Min

\* A longer part of the source does not stand for less.
LEMMA MadeGrows ==
  ASSUME UncTypes, NEW i \in 0..Len(src), NEW j \in i..Len(src)
  PROVE  Unc!Made(i) \in Nat /\ Unc!Made(j) \in Nat /\ Unc!Made(i) <= Unc!Made(j)
<1>1. Unc!Header \in {0, 1}
  BY DEF Unc!Header
<1>2. Len(src) \in Nat /\ j \in 0..Len(src)
  BY DEF UncTypes
<1>3. CASE i = 0 /\ j = 0
  BY <1>1, <1>3 DEF Unc!Made
<1>4. CASE i = 0 /\ j # 0
  <2>1. j \in 1..Len(src)
    BY <1>2, <1>4
  <2>2. src[j] \in Nat
    BY <2>1 DEF UncTypes
  <2> QED
    BY <1>1, <1>4, <2>2 DEF Unc!Made
<1>5. CASE i # 0
  <2>1. i \in 1..Len(src) /\ j \in 1..Len(src) /\ i <= j /\ j # 0
    BY <1>2, <1>5
  <2>2. src[i] \in Nat /\ src[j] \in Nat /\ src[i] <= src[j]
    BY <2>1 DEF UncTypes
  <2> QED
    BY <1>1, <1>5, <2>1, <2>2 DEF Unc!Made
<1> QED
  BY <1>3, <1>4, <1>5

\* The counters, and the parameters that the loop leaves alone.
LEMMA UncNumbers ==
  ASSUME UncTypes
  PROVE  /\ stream.avail_in \in Nat /\ stream.avail_out \in Nat
         /\ stream.total_in \in Nat /\ stream.total_out \in Nat
         /\ left \in Nat /\ len \in Nat /\ pending \in Nat /\ trailing \in Nat
         /\ Len(src) \in Nat /\ destLen \in Nat /\ Unc!Room \in Nat
  BY DEF UncTypes, Unc!Room, Streams

\* The sums of Balanced after a step that hands u bytes of room and v of the
\* source over, reads i and writes o.
LEMMA Sums ==
  ASSUME NEW lf \in Nat, NEW ln \in Nat, NEW ai \in Nat, NEW ao \in Nat,
         NEW ti \in Nat, NEW to \in Nat, NEW room \in Nat, NEW all \in Nat, NEW tr \in Nat,
         NEW u \in Nat, NEW v \in Nat, NEW i \in Nat, NEW o \in Nat,
         lf + ao + to = room, ln + ai + ti = all + tr,
         u <= lf, v <= ln, i <= ai + v, o <= ao + u
  PROVE  /\ (lf - u) + (ao + u - o) + (to + o) = room
         /\ (ln - v) + (ai + v - i) + (ti + i) = all + tr
         /\ lf - u \in Nat /\ ln - v \in Nat
         /\ ao + u - o \in Nat /\ ai + v - i \in Nat /\ ti + i \in Nat /\ to + o \in Nat
  OBVIOUS

\* The stream's fields after Round, Produce and Consume.
LEMMA StreamHanded ==
  ASSUME stream \in Streams, NEW x \in Nat, NEW y \in Nat,
         stream' = [stream EXCEPT !.avail_out = x, !.avail_in = y]
  PROVE  /\ stream' \in Streams /\ stream'.avail_out = x /\ stream'.avail_in = y
         /\ stream'.total_in = stream.total_in /\ stream'.total_out = stream.total_out
  BY DEF Streams

LEMMA StreamWritten ==
  ASSUME stream \in Streams, NEW x \in Nat, NEW y \in Nat,
         stream' = [stream EXCEPT !.avail_out = x, !.total_out = y]
  PROVE  /\ stream' \in Streams /\ stream'.avail_out = x /\ stream'.total_out = y
         /\ stream'.avail_in = stream.avail_in /\ stream'.total_in = stream.total_in
  BY DEF Streams

LEMMA StreamRead ==
  ASSUME stream \in Streams, NEW x \in Nat, NEW y \in Nat,
         stream' = [stream EXCEPT !.avail_in = x, !.total_in = y]
  PROVE  /\ stream' \in Streams /\ stream'.avail_in = x /\ stream'.total_in = y
         /\ stream'.avail_out = stream.avail_out /\ stream'.total_out = stream.total_out
  BY DEF Streams

LEMMA UncInit == ASSUME Unc!Init PROVE UncInv
<1>1. /\ call \in {"compress2", "uncompress2"}
      /\ src \in UNION {[1..m -> Totals] : m \in 0..MaxSource}
      /\ \A i, j \in 1..Len(src) : i <= j => src[i] <= src[j]
      /\ event \in IF Unc!Inflates THEN Events ELSE {"end"}
      /\ trailing \in IF Unc!Inflates /\ event # "truncated" THEN {0, 1} ELSE {0}
      /\ destLen \in DestLens
      /\ left = Unc!Room
      /\ len = Len(src) + trailing
      /\ stream = [avail_in |-> 0, avail_out |-> 0, total_in |-> 0, total_out |-> 0]
      /\ pending = Unc!Header /\ moved = FALSE /\ err = "OK" /\ result = "none"
  BY DEF Unc!Init
<1>2. /\ MaxSource \in Nat /\ Totals \subseteq Nat /\ DestLens \subseteq Nat
      /\ Events \subseteq {"end", "corrupt", "dict", "truncated"}
  BY ComponentsAssumption DEF Unc!UtilityAssumption
<1>3. Len(src) \in Nat /\ \A i \in 1..Len(src) : src[i] \in Nat
  <2>1. PICK m \in 0..MaxSource : src \in [1..m -> Totals]
    BY <1>1
  <2>2. m \in Nat /\ Len(src) = m
    BY <1>2, <2>1
  <2> QED
    BY <1>2, <2>1, <2>2
<1>4. trailing \in Nat /\ destLen \in Nat /\ Unc!Room \in Nat /\ Unc!Header \in Nat
  BY <1>1, <1>2 DEF Unc!Room, Unc!Header
<1>5. /\ event \in {"end", "corrupt", "dict", "truncated"}
      /\ call = "compress2" => event = "end" /\ trailing = 0
      /\ event = "truncated" => trailing = 0
  BY <1>1, <1>2 DEF Unc!Inflates
<1>6. UncTypes
  <2>1. left \in Nat /\ len \in Nat /\ pending \in Nat
    BY <1>1, <1>3, <1>4
  <2>2. stream \in Streams
    BY <1>1 DEF Streams
  <2>3. moved \in BOOLEAN
    BY <1>1, Zenon
  <2>4. err \in {"OK", "call", "BUF_ERROR", "STREAM_END", "DATA_ERROR", "NEED_DICT"}
    BY <1>1
  <2> QED
    BY <1>1, <1>3, <1>4, <1>5, <2>1, <2>2, <2>3, <2>4, Zenon DEF UncTypes
<1>7. Balanced
  BY <1>1, <1>3, <1>4 DEF Balanced, Unc!Made
<1>8. Handed
  <2>1. call = "compress2" => pending = 1
    BY <1>1 DEF Unc!Header, Unc!Inflates
  <2> QED
    BY <1>1, <2>1 DEF Handed, Unc!AtEvent
<1>9. Met /\ Told
  BY <1>1 DEF Met, Told
<1> QED
  BY <1>6, <1>7, <1>8, <1>9 DEF UncInv

\* What is handed over of what is left: something, if the stream has nothing.
LEMMA HandPart ==
  ASSUME NEW v \in Nat, NEW r \in Nat
  PROVE  /\ Unc!Hand(v, r) \in Nat /\ Unc!Hand(v, r) <= r
         /\ v + Unc!Hand(v, r) = 0 => r = 0
<1>1. Piece \in Nat /\ Piece > 0
  BY ComponentsAssumption DEF Unc!UtilityAssumption
<1>2. Unc!Min({Piece, r}) = IF Piece <= r THEN Piece ELSE r
  BY <1>1, UncMin
<1> QED
  BY <1>1, <1>2 DEF Unc!Hand

\* A step that hands u bytes of room and v of the source over, reads i and
\* writes o, so that g more are owed.
Counts(u, v, i, o, g) ==
  /\ u <= left /\ v <= len /\ i <= stream.avail_in + v /\ o <= stream.avail_out + u
  /\ o <= pending + g
  /\ stream.total_in + i <= Len(src)
  /\ Unc!Made(stream.total_in + i) = Unc!Made(stream.total_in) + g
  /\ left' = left - u /\ len' = len - v
  /\ stream' \in Streams
  /\ stream'.avail_in = stream.avail_in + v - i /\ stream'.total_in = stream.total_in + i
  /\ stream'.avail_out = stream.avail_out + u - o /\ stream'.total_out = stream.total_out + o
  /\ pending' = pending + g - o

\* No byte is lost by it.
LEMMA BalancedStep ==
  ASSUME UncTypes, Balanced, UNCHANGED <<call, src, event, trailing, destLen>>,
         moved' \in BOOLEAN,
         err' \in {"OK", "call", "BUF_ERROR", "STREAM_END", "DATA_ERROR", "NEED_DICT"},
         NEW u \in Nat, NEW v \in Nat, NEW i \in Nat, NEW o \in Nat, NEW g \in Nat,
         Counts(u, v, i, o, g)
  PROVE  UncTypes' /\ Balanced'
<1> DEFINE ai == stream.avail_in
           ao == stream.avail_out
           ti == stream.total_in
           to == stream.total_out
           all == Len(src)
           room == Unc!Room
           made(x) == Unc!Made(x)
<1>1. /\ ai \in Nat /\ ao \in Nat /\ ti \in Nat /\ to \in Nat
      /\ left \in Nat /\ len \in Nat /\ pending \in Nat /\ trailing \in Nat
      /\ all \in Nat /\ room \in Nat
  BY UncNumbers, Zenon
<1>2. /\ left + ao + to = room /\ len + ai + ti = all + trailing
      /\ to + pending = made(ti)
  BY Zenon DEF Balanced
<1>3. /\ u <= left /\ v <= len /\ i <= ai + v /\ o <= ao + u
      /\ o <= pending + g /\ ti + i <= all
      /\ made(ti + i) = made(ti) + g
      /\ left' = left - u /\ len' = len - v
      /\ pending' = pending + g - o
  BY Zenon DEF Counts
<1>4. /\ call' = call /\ src' = src /\ event' = event /\ trailing' = trailing
      /\ destLen' = destLen
  BY Zenon
<1> HIDE DEF ai, ao, ti, to, all, room, made
<1>5. /\ (left - u) + (ao + u - o) + (to + o) = room
      /\ (len - v) + (ai + v - i) + (ti + i) = all + trailing
      /\ left - u \in Nat /\ len - v \in Nat
      /\ ao + u - o \in Nat /\ ai + v - i \in Nat /\ ti + i \in Nat /\ to + o \in Nat
  BY <1>1, <1>2, <1>3, Sums, SMT
<1>6. /\ stream' \in Streams
      /\ stream'.avail_in = ai + v - i /\ stream'.avail_out = ao + u - o
      /\ stream'.total_in = ti + i /\ stream'.total_out = to + o
  BY Zenon DEF Counts, ai, ao, ti, to
<1>7. pending' \in Nat /\ (to + o) + pending' = made(ti + i)
  <2>1. /\ pending + g - o \in Nat
        /\ (to + o) + (pending + g - o) = (to + pending) + g
    BY <1>1, <1>3
  <2> QED
    BY <1>2, <1>3, <2>1, Zenon
<1>8. UncTypes'
  BY <1>3, <1>4, <1>5, <1>6, <1>7, Zenon DEF UncTypes
<1>9. Balanced'
  <2>1. Unc!Room' = room
    BY <1>4, Zenon DEF Unc!Room, Unc!Inflates, room
  <2>2. Len(src)' = all
    BY <1>4, Zenon DEF all
  <2>4. Unc!Made(stream.total_in)' = made(ti + i)
    BY <1>4, <1>6, Zenon DEF Unc!Made, Unc!Header, Unc!Inflates, made
  <2> QED
    BY <1>3, <1>4, <1>5, <1>6, <1>7, <2>1, <2>2, <2>4, Zenon DEF Balanced
<1> QED
  BY <1>8, <1>9, Zenon

\* One round of the loop.
LEMMA RoundStep == ASSUME UncInv, Unc!Round PROVE UncInv'
<1> DEFINE out == Unc!Hand(stream.avail_out, left)
           in == Unc!Hand(stream.avail_in, len)
<1>1. UncTypes /\ Balanced /\ Handed
  BY Zenon DEF UncInv
<1>2. /\ err = "OK" /\ result = "none" /\ err' = "call" /\ result' = result
      /\ call' = call /\ src' = src /\ event' = event /\ trailing' = trailing
      /\ destLen' = destLen /\ pending' = pending
  BY DEF Unc!Round, Unc!args
<1>3. /\ stream' = [stream EXCEPT !.avail_out = @ + out, !.avail_in = @ + in]
      /\ left' = left - out /\ len' = len - in
  BY Zenon DEF Unc!Round
<1>4. moved' \in BOOLEAN
  BY Zenon DEF Unc!Round
<1>5. /\ stream.avail_in \in Nat /\ stream.avail_out \in Nat
      /\ stream.total_in \in Nat /\ stream.total_out \in Nat
      /\ left \in Nat /\ len \in Nat /\ pending \in Nat
  BY <1>1, UncNumbers, Zenon
<1>6. /\ out \in Nat /\ out <= left /\ (stream.avail_out + out = 0 => left = 0)
      /\ in \in Nat /\ in <= len /\ (stream.avail_in + in = 0 => len = 0)
  BY <1>5, HandPart, Zenon
<1> HIDE DEF out, in
<1>7. /\ stream' \in Streams
      /\ stream'.avail_in = stream.avail_in + in /\ stream'.total_in = stream.total_in
      /\ stream'.avail_out = stream.avail_out + out /\ stream'.total_out = stream.total_out
  <2>1. stream \in Streams
    BY <1>1, Zenon DEF UncTypes
  <2>2. stream.avail_in + in \in Nat /\ stream.avail_out + out \in Nat
    BY <1>5, <1>6, SMT
  <2> QED
    BY <1>3, <2>1, <2>2, StreamHanded, Zenon
<1>8. Counts(out, in, 0, 0, 0)
  <2>1. /\ 0 <= stream.avail_in + in /\ 0 <= stream.avail_out + out /\ 0 <= pending + 0
        /\ stream.total_in + 0 = stream.total_in /\ pending + 0 - 0 = pending
        /\ stream.total_out + 0 = stream.total_out
        /\ stream.avail_in + in - 0 = stream.avail_in + in
        /\ stream.avail_out + out - 0 = stream.avail_out + out
    BY <1>5, <1>6, SMT
  <2>2. /\ Unc!Made(stream.total_in) \in Nat /\ stream.total_in <= Len(src)
    <3>1. Len(src) \in Nat
      BY <1>1, UncNumbers, Zenon
    <3>2. stream.total_in <= Len(src)
      BY <1>1, Zenon DEF Balanced
    <3>3. stream.total_in \in 0..Len(src) /\ stream.total_in \in stream.total_in..Len(src)
      BY <1>5, <3>1, <3>2, SMT
    <3> QED
      BY <1>1, <3>2, <3>3, MadeGrows, Zenon
  <2>3. Unc!Made(stream.total_in) + 0 = Unc!Made(stream.total_in)
    BY <2>2, SMT
  <2> QED
    BY <1>2, <1>3, <1>6, <1>7, <2>1, <2>2, <2>3, Zenon DEF Counts
<1>9. UncTypes' /\ Balanced'
  BY <1>1, <1>2, <1>4, <1>6, <1>8, BalancedStep, SMT
<1>10. Handed'
  <2>1. stream'.avail_out = stream.avail_out + out /\ stream'.avail_in = stream.avail_in + in
        /\ stream'.total_in = stream.total_in
    BY <1>7, Zenon
  <2>2. left = 0 => left' = 0
    BY <1>3, <1>5, <1>6, SMT
  <2>3. len = 0 => len' = 0
    BY <1>3, <1>5, <1>6, SMT
  <2>4. Unc!AtEvent' = Unc!AtEvent
    BY <1>2, <2>1, Zenon DEF Unc!AtEvent
  <2>5. call' = "compress2" => ~Unc!AtEvent
    BY <1>1, <1>2, Zenon DEF Handed
  <2> QED
    BY <1>6, <2>1, <2>2, <2>3, <2>4, <2>5, Zenon DEF Handed
<1>11. Met' /\ Told'
  BY <1>2 DEF Met, Told
<1> QED
  BY <1>9, <1>10, <1>11, Zenon DEF UncInv

\* Where the stream is in the source, and what that stands for.
LEMMA MadeHere ==
  ASSUME UncTypes, Balanced
  PROVE  /\ stream.total_in \in 0..Len(src)
         /\ Unc!Made(stream.total_in) \in Nat /\ Unc!Output \in Nat
         /\ Unc!Made(stream.total_in) <= Unc!Output
<1>1. Len(src) \in Nat /\ stream.total_in \in Nat
  BY UncNumbers, Zenon
<1>2. stream.total_in <= Len(src)
  BY Zenon DEF Balanced
<1>3. stream.total_in \in 0..Len(src) /\ Len(src) \in stream.total_in..Len(src)
  BY <1>1, <1>2, SMT
<1> QED
  BY <1>3, MadeGrows, Zenon DEF Unc!Output

\* After a step within a call.
LEMMA WithinCall ==
  ASSUME UncTypes, Told, UncTypes', Balanced', err = "call", err' = "call",
         moved' = TRUE, result' = result
  PROVE  UncInv'
<1>1. result' = "none"
  BY Zenon DEF Told
<1>2. Handed' /\ Met' /\ Told'
  BY <1>1, Zenon DEF Handed, Met, Told
<1> QED
  BY <1>2, Zenon DEF UncInv

\* Output that is owed is written.
LEMMA ProduceStep == ASSUME UncInv, Unc!Produce PROVE UncInv'
<1> DEFINE o == Unc!Min({pending, stream.avail_out})
<1>1. UncTypes /\ Balanced /\ Told
  BY Zenon DEF UncInv
<1>2. /\ err = "call" /\ err' = err /\ result' = result /\ moved' = TRUE
      /\ call' = call /\ src' = src /\ event' = event /\ trailing' = trailing
      /\ destLen' = destLen /\ left' = left /\ len' = len
      /\ stream' = [stream EXCEPT !.avail_out = @ - o, !.total_out = @ + o]
      /\ pending' = pending - o
  BY Zenon DEF Unc!Produce, Unc!args
<1>3. /\ stream.avail_in \in Nat /\ stream.avail_out \in Nat
      /\ stream.total_in \in Nat /\ stream.total_out \in Nat
      /\ left \in Nat /\ len \in Nat /\ pending \in Nat
  BY <1>1, UncNumbers, Zenon
<1>4. o \in Nat /\ o <= pending /\ o <= stream.avail_out
  BY <1>3, UncMin, SMT
<1> HIDE DEF o
<1>5. /\ stream' \in Streams
      /\ stream'.avail_in = stream.avail_in /\ stream'.total_in = stream.total_in
      /\ stream'.avail_out = stream.avail_out - o /\ stream'.total_out = stream.total_out + o
  <2>1. stream \in Streams
    BY <1>1, Zenon DEF UncTypes
  <2>2. stream.avail_out - o \in Nat /\ stream.total_out + o \in Nat
    BY <1>3, <1>4, SMT
  <2> QED
    BY <1>2, <2>1, <2>2, StreamWritten, Zenon
<1>6. Counts(0, 0, 0, o, 0)
  <2>1. /\ 0 <= left /\ 0 <= len /\ 0 <= stream.avail_in + 0 /\ o <= stream.avail_out + 0
        /\ o <= pending + 0 /\ left - 0 = left /\ len - 0 = len
        /\ stream.avail_in + 0 - 0 = stream.avail_in
        /\ stream.avail_out + 0 - o = stream.avail_out - o
        /\ stream.total_in + 0 = stream.total_in
        /\ pending + 0 - o = pending - o
    BY <1>3, <1>4, SMT
  <2>2. Unc!Made(stream.total_in) + 0 = Unc!Made(stream.total_in)
    BY <1>1, MadeHere, SMT
  <2>3. stream.total_in <= Len(src)
    BY <1>1, Zenon DEF Balanced
  <2> QED
    BY <1>2, <1>5, <2>1, <2>2, <2>3, Zenon DEF Counts
<1>7. /\ moved' \in BOOLEAN
      /\ err' \in {"OK", "call", "BUF_ERROR", "STREAM_END", "DATA_ERROR", "NEED_DICT"}
  BY <1>2, Zenon
<1>8. UncTypes' /\ Balanced'
  BY <1>1, <1>2, <1>4, <1>6, <1>7, BalancedStep, SMT
<1> QED
  BY <1>1, <1>2, <1>8, WithinCall, Zenon

\* Input is read.
LEMMA ConsumeStep == ASSUME UncInv, Unc!Consume PROVE UncInv'
<1> DEFINE g == Unc!Made(stream.total_in + 1) - Unc!Made(stream.total_in)
<1>1. UncTypes /\ Balanced /\ Told
  BY Zenon DEF UncInv
<1>2. /\ err = "call" /\ err' = err /\ result' = result /\ moved' = TRUE
      /\ call' = call /\ src' = src /\ event' = event /\ trailing' = trailing
      /\ destLen' = destLen /\ left' = left /\ len' = len
      /\ stream' = [stream EXCEPT !.avail_in = @ - 1, !.total_in = @ + 1]
      /\ stream.avail_in > 0 /\ stream.total_in < Len(src)
  BY Zenon DEF Unc!Consume, Unc!CanConsume, Unc!args
<1>3. /\ stream.avail_in \in Nat /\ stream.avail_out \in Nat
      /\ stream.total_in \in Nat /\ stream.total_out \in Nat
      /\ left \in Nat /\ len \in Nat /\ pending \in Nat /\ Len(src) \in Nat
  BY <1>1, UncNumbers, Zenon
<1>4. /\ stream.total_in + 1 <= Len(src) /\ stream.avail_in - 1 \in Nat
      /\ stream.total_in + 1 \in Nat /\ 1 <= stream.avail_in
  <2>1. stream.avail_in > 0 /\ stream.total_in < Len(src)
    BY <1>2, Zenon
  <2> QED
    BY <1>3, <2>1, SMT
<1>5. /\ g \in Nat
      /\ Unc!Made(stream.total_in + 1) = Unc!Made(stream.total_in) + g
      /\ pending' = pending + g
  <2>1. stream.total_in \in 0..Len(src) /\ stream.total_in + 1 \in stream.total_in..Len(src)
    BY <1>3, <1>4, SMT
  <2>2. /\ Unc!Made(stream.total_in) \in Nat /\ Unc!Made(stream.total_in + 1) \in Nat
        /\ Unc!Made(stream.total_in) <= Unc!Made(stream.total_in + 1)
    BY <1>1, <2>1, MadeGrows, Zenon
  <2>3. pending' = pending + Unc!Made(stream.total_in + 1) - Unc!Made(stream.total_in)
    BY Zenon DEF Unc!Consume
  <2> QED
    BY <1>3, <2>2, <2>3, SMT
<1> HIDE DEF g
<1>6. /\ stream' \in Streams
      /\ stream'.avail_in = stream.avail_in - 1 /\ stream'.total_in = stream.total_in + 1
      /\ stream'.avail_out = stream.avail_out /\ stream'.total_out = stream.total_out
  <2>1. stream \in Streams
    BY <1>1, Zenon DEF UncTypes
  <2> QED
    BY <1>2, <1>4, <2>1, StreamRead, Zenon
<1>7. Counts(0, 0, 1, 0, g)
  <2>1. /\ 0 <= left /\ 0 <= len /\ 1 <= stream.avail_in + 0 /\ 0 <= stream.avail_out + 0
        /\ 0 <= pending + g /\ left - 0 = left /\ len - 0 = len
        /\ stream.avail_in + 0 - 1 = stream.avail_in - 1
        /\ stream.avail_out + 0 - 0 = stream.avail_out
        /\ stream.total_out + 0 = stream.total_out
        /\ pending + g - 0 = pending + g
    BY <1>3, <1>4, <1>5, SMT
  <2> QED
    BY <1>2, <1>4, <1>5, <1>6, <2>1, Zenon DEF Counts
<1>8. /\ moved' \in BOOLEAN
      /\ err' \in {"OK", "call", "BUF_ERROR", "STREAM_END", "DATA_ERROR", "NEED_DICT"}
  BY <1>2, Zenon
<1>9. UncTypes' /\ Balanced'
  <2>1. 0 \in Nat /\ 1 \in Nat
    BY SMT
  <2> QED
    BY <1>1, <1>2, <1>5, <1>7, <1>8, <2>1, BalancedStep, Zenon
<1> QED
  BY <1>1, <1>2, <1>9, WithinCall, Zenon

\* inflate() or deflate() returns.
LEMMA ReturnStep == ASSUME UncInv, Unc!Return PROVE UncInv'
<1>1. UncTypes /\ Balanced /\ Handed /\ Told
  BY Zenon DEF UncInv
<1>2. /\ err = "call" /\ result' = result /\ moved' = moved
      /\ call' = call /\ src' = src /\ event' = event /\ trailing' = trailing
      /\ destLen' = destLen /\ left' = left /\ len' = len
      /\ stream' = stream /\ pending' = pending
      /\ ~Unc!CanProduce /\ ~Unc!CanConsume
  BY Zenon DEF Unc!Return, Unc!args
<1>3. err' = IF Unc!BufError THEN "BUF_ERROR" ELSE
         CASE Unc!AtEvent /\ event = "end" /\ (Unc!Inflates \/ len = 0) -> "STREAM_END"
           [] Unc!AtEvent /\ event = "corrupt" -> "DATA_ERROR"
           [] Unc!AtEvent /\ event = "dict" -> "NEED_DICT"
           [] OTHER -> "OK"
  BY Zenon DEF Unc!Return
<1>4. result = "none"
  BY <1>1, <1>2, Zenon DEF Told
<1>5. /\ stream.avail_in \in Nat /\ stream.avail_out \in Nat
      /\ stream.total_in \in Nat /\ pending \in Nat /\ len \in Nat
      /\ Len(src) \in Nat /\ trailing \in Nat
  BY <1>1, UncNumbers, Zenon
<1>6. Unc!AtEvent' = Unc!AtEvent
  BY <1>2, Zenon DEF Unc!AtEvent
<1>7. Unc!BufError => ~Unc!AtEvent /\ ~moved
  <2>1. Unc!BufError => ~moved /\ (~Unc!AtEvent \/ call # "uncompress2")
    BY Zenon DEF Unc!BufError, Unc!Inflates
  <2>2. call = "compress2" \/ call = "uncompress2"
    BY <1>1, Zenon DEF UncTypes
  <2>3. call = "compress2" /\ ~moved => ~Unc!AtEvent
    BY <1>1, <1>2, Zenon DEF Handed
  <2> QED
    BY <2>1, <2>2, <2>3, Zenon
<1>8. Unc!BufError => \/ pending > 0 /\ stream.avail_out = 0 /\ left = 0
                      \/ pending = 0 /\ stream.total_in = Len(src) /\ event = "truncated"
  <2>1. SUFFICES ASSUME Unc!BufError
                 PROVE  \/ pending > 0 /\ stream.avail_out = 0 /\ left = 0
                        \/ pending = 0 /\ stream.total_in = Len(src) /\ event = "truncated"
    OBVIOUS
  <2>2. /\ stream.avail_out = 0 => left = 0
        /\ stream.avail_in = 0 => len = 0
    BY <1>1, <1>2, <1>7, <2>1, Zenon DEF Handed
  <2>3. CASE pending > 0
    <3>1. ~(stream.avail_out > 0)
      BY <1>2, <2>3, Zenon DEF Unc!CanProduce
    <3>2. stream.avail_out = 0
      BY <1>5, <3>1, SMT
    <3> QED
      BY <2>2, <2>3, <3>2, Zenon
  <2>4. CASE ~(pending > 0)
    <3>1. pending = 0
      BY <1>5, <2>4, SMT
    <3>2. ~(stream.avail_in > 0) \/ ~(stream.total_in < Len(src))
      BY <1>2, <3>1, Zenon DEF Unc!CanConsume
    <3>3. stream.total_in <= Len(src) /\ len + stream.avail_in + stream.total_in = Len(src) + trailing
      BY <1>1, Zenon DEF Balanced
    <3>4. stream.avail_in = 0 \/ stream.total_in = Len(src)
      BY <1>5, <3>2, <3>3, SMT
    <3>5. stream.total_in = Len(src)
      <4>1. CASE stream.avail_in = 0
        <5>1. len = 0
          BY <2>2, <4>1, Zenon
        <5> QED
          BY <1>5, <3>3, <4>1, <5>1, SMT
      <4> QED
        BY <3>4, <4>1, Zenon
    <3>6. event = "truncated"
      BY <1>7, <2>1, <3>1, <3>5, Zenon DEF Unc!AtEvent
    <3> QED
      BY <3>1, <3>5, <3>6, Zenon
  <2> QED
    BY <2>3, <2>4, Zenon
<1>9. /\ err' \in {"OK", "BUF_ERROR", "STREAM_END", "DATA_ERROR", "NEED_DICT"}
      /\ err' = "BUF_ERROR" => Unc!BufError
      /\ err' = "STREAM_END" => Unc!AtEvent /\ event = "end"
      /\ err' = "DATA_ERROR" => Unc!AtEvent /\ event = "corrupt"
      /\ err' = "NEED_DICT" => Unc!AtEvent /\ event = "dict"
      /\ err' = "OK" => ~(Unc!AtEvent /\ event = "end" /\ (Unc!Inflates \/ len = 0))
  <2>1. CASE Unc!BufError
    BY <1>3, <2>1
  <2>2. CASE ~Unc!BufError /\ Unc!AtEvent /\ event = "end" /\ (Unc!Inflates \/ len = 0)
    BY <1>3, <2>2
  <2>3. CASE /\ ~Unc!BufError
             /\ ~(Unc!AtEvent /\ event = "end" /\ (Unc!Inflates \/ len = 0))
    BY <1>3, <2>3
  <2> QED
    BY <2>1, <2>2, <2>3, Zenon
<1>10. Met'
  BY <1>2, <1>6, <1>8, <1>9, Zenon DEF Met
<1>11. Handed'
  <2>1. err' # "call"
    BY <1>9
  <2>2. ASSUME call = "compress2", err' = "OK", Unc!AtEvent PROVE FALSE
    <3>1. event = "end" /\ trailing = 0
      BY <1>1, <2>2, Zenon DEF UncTypes
    <3>2. stream.total_in = Len(src)
      BY <2>2, Zenon DEF Unc!AtEvent
    <3>3. len + stream.avail_in + stream.total_in = Len(src) + trailing
      BY <1>1, Zenon DEF Balanced
    <3>4. len = 0
      BY <1>5, <3>1, <3>2, <3>3, SMT
    <3> QED
      BY <1>9, <2>2, <3>1, <3>4, Zenon
  <2> QED
    BY <1>2, <1>6, <2>1, <2>2, Zenon DEF Handed
<1>12. Told'
  BY <1>2, <1>4, Zenon DEF Told
<1>13. UncTypes' /\ Balanced'
  <2>1. err' \in {"OK", "call", "BUF_ERROR", "STREAM_END", "DATA_ERROR", "NEED_DICT"}
    BY <1>9
  <2>2. UncTypes'
    BY <1>1, <1>2, <2>1, Zenon DEF UncTypes
  <2>3. Balanced'
    BY <1>1, <1>2, Zenon DEF Balanced, Unc!Room, Unc!Inflates, Unc!Made, Unc!Header
  <2> QED
    BY <2>2, <2>3, Zenon
<1> QED
  BY <1>10, <1>11, <1>12, <1>13, Zenon DEF UncInv

\* What is made of the last error.
LEMMA FinishStep == ASSUME UncInv, Unc!Finish PROVE UncInv'
<1>1. UncTypes /\ Balanced /\ Handed /\ Met
  BY Zenon DEF UncInv
<1>2. /\ err \notin {"OK", "call"} /\ err' = err /\ moved' = moved
      /\ call' = call /\ src' = src /\ event' = event /\ trailing' = trailing
      /\ destLen' = destLen /\ left' = left /\ len' = len
      /\ stream' = stream /\ pending' = pending
      /\ result' = IF Unc!Inflates THEN Unc!UncompressResult
                   ELSE IF err = "STREAM_END" THEN "OK" ELSE err
  BY Zenon DEF Unc!Finish, Unc!args
<1>3. UncTypes'
  BY <1>1, <1>2, Zenon DEF UncTypes
<1>4. Balanced'
  BY <1>1, <1>2, Zenon DEF Balanced, Unc!Room, Unc!Inflates, Unc!Made, Unc!Header
<1>5. Handed' /\ Met'
  BY <1>1, <1>2, Zenon DEF Handed, Met, Unc!AtEvent
<1>6. Told'
  <2>1. Unc!UncompressResult' = Unc!UncompressResult /\ Unc!Inflates' = Unc!Inflates
    BY <1>2, Zenon DEF Unc!UncompressResult, Unc!Inflates
  <2> QED
    BY <1>2, <2>1, Zenon DEF Told
<1> QED
  BY <1>3, <1>4, <1>5, <1>6, Zenon DEF UncInv

LEMMA UncStays == ASSUME UncInv, UNCHANGED Unc!vars PROVE UncInv'
<1>1. /\ call' = call /\ src' = src /\ event' = event /\ trailing' = trailing
      /\ destLen' = destLen /\ left' = left /\ len' = len /\ stream' = stream
      /\ pending' = pending /\ moved' = moved /\ err' = err /\ result' = result
  BY Zenon DEF Unc!vars, Unc!args
<1>2. UncTypes => UncTypes'
  BY <1>1, Zenon DEF UncTypes
<1>3. Balanced => Balanced'
  BY <1>1, Zenon DEF Balanced, Unc!Room, Unc!Inflates, Unc!Made, Unc!Header
<1>4. Handed /\ Met => Handed' /\ Met'
  BY <1>1, Zenon DEF Handed, Met, Unc!AtEvent
<1>5. Unc!UncompressResult' = Unc!UncompressResult /\ Unc!Inflates' = Unc!Inflates
  BY <1>1, Zenon DEF Unc!UncompressResult, Unc!Inflates
<1>6. Told => Told'
  BY <1>1, <1>5, Zenon DEF Told
<1> QED
  BY <1>2, <1>3, <1>4, <1>6, Zenon DEF UncInv

LEMMA UncStep == ASSUME UncInv, Unc!Next PROVE UncInv'
  BY UncStays, RoundStep, ProduceStep, ConsumeStep, ReturnStep, FinishStep, Zenon DEF Unc!Next

\* What the caller gets.
LEMMA UncSuffices == ASSUME UncInv PROVE Unc!ResultsExact
<1> DEFINE told ==
      IF Unc!EndsAtTheRim THEN "BUF_ERROR"
      ELSE IF Unc!RoomReplaced
           THEN (IF event = "end" /\ Unc!Output = 1 THEN "OK" ELSE "DATA_ERROR")
           ELSE Unc!Documented
           got == IF Unc!RoomReplaced THEN 0 ELSE Unc!Output
<1> SUFFICES ASSUME result # "none"
             PROVE  /\ result = told
                    /\ result = "OK" => Unc!UsedLen = Len(src) /\ Unc!GotLen = got
                    /\ Unc!UsedLen = stream.total_in
  BY Zenon DEF Unc!ResultsExact
<1>1. UncTypes /\ Balanced /\ Met /\ Told
  BY Zenon DEF UncInv
<1>2. /\ stream.avail_in \in Nat /\ stream.avail_out \in Nat
      /\ stream.total_in \in Nat /\ stream.total_out \in Nat
      /\ left \in Nat /\ len \in Nat /\ pending \in Nat /\ trailing \in Nat
      /\ Len(src) \in Nat /\ destLen \in Nat /\ Unc!Room \in Nat
  BY <1>1, UncNumbers, Zenon
<1>3. /\ left + stream.avail_out + stream.total_out = Unc!Room
      /\ len + stream.avail_in + stream.total_in = Len(src) + trailing
      /\ stream.total_out + pending = Unc!Made(stream.total_in)
  BY <1>1, Zenon DEF Balanced
<1>4. /\ Unc!Made(stream.total_in) \in Nat /\ Unc!Output \in Nat
      /\ Unc!Made(stream.total_in) <= Unc!Output
  BY <1>1, MadeHere, Zenon
<1>5. Unc!UsedLen = stream.total_in
  <2> DEFINE all == Len(src)
             ai == stream.avail_in
             ti == stream.total_in
  <2>1. len + ai + ti = all + trailing
    BY <1>3, Zenon
  <2>2. len \in Nat /\ ai \in Nat /\ ti \in Nat /\ all \in Nat /\ trailing \in Nat
    BY <1>2, Zenon
  <2> HIDE DEF all, ai, ti
  <2>3. all + trailing - (len + ai) = ti
    BY <2>1, <2>2, SMT
  <2> QED
    BY <2>3, Zenon DEF Unc!UsedLen, all, ai, ti
<1>6. /\ err \in {"BUF_ERROR", "STREAM_END", "DATA_ERROR", "NEED_DICT"}
      /\ result = IF Unc!Inflates THEN Unc!UncompressResult
                  ELSE IF err = "STREAM_END" THEN "OK" ELSE err
  <2>1. err \in {"OK", "call", "BUF_ERROR", "STREAM_END", "DATA_ERROR", "NEED_DICT"}
    BY <1>1, Zenon DEF UncTypes
  <2>2. err \notin {"OK", "call"}
    BY <1>1, Zenon DEF Told
  <2>3. result = IF Unc!Inflates THEN Unc!UncompressResult
                 ELSE IF err = "STREAM_END" THEN "OK" ELSE err
    BY <1>1, Zenon DEF Told
  <2> QED
    BY <2>1, <2>2, <2>3, Zenon
<1>7. /\ Unc!Inflates <=> call = "uncompress2"
      /\ call = "compress2" \/ call = "uncompress2"
      /\ call = "compress2" => event = "end"
  BY <1>1, Zenon DEF Unc!Inflates, UncTypes
<1>8. /\ destLen # 0 => Unc!Room = destLen /\ destLen > 0 /\ ~Unc!RoomReplaced
      /\ destLen = 0 /\ Unc!Inflates => Unc!Room = 1
      /\ destLen = 0 /\ ~Unc!Inflates => Unc!Room = 0
      /\ destLen = 0 => ~Unc!EndsAtTheRim
      /\ Unc!RoomReplaced <=> Unc!Inflates /\ destLen = 0 /\ Unc!Output > 0
      /\ Unc!EndsAtTheRim <=> event = "truncated" /\ Unc!Output = destLen /\ destLen > 0
  <2>1. destLen # 0 <=> destLen > 0
    BY <1>2, SMT
  <2> QED
    BY <2>1, Zenon DEF Unc!Room, Unc!RoomReplaced, Unc!EndsAtTheRim
\* Compressed data has its header, which takes room.
<1>9. ~Unc!Inflates => Unc!Output > 0
  <2>1. SUFFICES ASSUME ~Unc!Inflates PROVE Unc!Output > 0
    OBVIOUS
  <2>2. Unc!Made(0) = 1
    BY <2>1 DEF Unc!Made, Unc!Header
  <2>3. 0 \in 0..Len(src) /\ Len(src) \in 0..Len(src)
    BY <1>2, SMT
  <2>4. Unc!Made(0) <= Unc!Made(Len(src))
    BY <1>1, <2>3, MadeGrows, Zenon
  <2>5. 1 <= Unc!Output
    BY <2>2, <2>4, Zenon DEF Unc!Output
  <2> QED
    BY <1>4, <2>5, SMT
\* All of the source is read and all that it stands for is written.
<1>10. ASSUME Unc!AtEvent
       PROVE  /\ event # "truncated" /\ stream.total_in = Len(src)
              /\ stream.total_out = Unc!Output /\ Unc!Output <= Unc!Room
  <2>1. pending = 0 /\ stream.total_in = Len(src) /\ event # "truncated"
    BY <1>10, Zenon DEF Unc!AtEvent
  <2>2. Unc!Made(stream.total_in) = Unc!Output
    BY <2>1, Zenon DEF Unc!Output
  <2>3. stream.total_out = Unc!Output /\ stream.total_out <= Unc!Room
    BY <1>2, <1>3, <1>4, <2>1, <2>2, SMT
  <2> QED
    BY <2>1, <2>3, Zenon
\* What is told then: the data was all in the room, or in the byte that stands
\* in for it.
<1>11. ASSUME Unc!AtEvent
       PROVE  /\ told = IF event = "end" THEN "OK" ELSE "DATA_ERROR"
              /\ Unc!GotLen = got
  <2>1. /\ event # "truncated" /\ ~Unc!EndsAtTheRim
        /\ stream.total_out = Unc!Output /\ Unc!Output <= Unc!Room
    BY <1>8, <1>10, <1>11, Zenon
  <2>2. CASE destLen # 0
    <3>1. ~Unc!RoomReplaced /\ ~(Unc!Output > destLen)
      BY <1>2, <1>4, <1>8, <2>1, <2>2, SMT
    <3>2. Unc!Documented = IF event = "end" THEN "OK" ELSE "DATA_ERROR"
      BY <3>1, Zenon DEF Unc!Documented
    <3>3. Unc!GotLen = stream.total_out
      BY <2>2, Zenon DEF Unc!GotLen
    <3> QED
      BY <2>1, <3>1, <3>2, <3>3, Zenon
  <2>3. CASE destLen = 0
    <3>1. Unc!Inflates
      <4>1. ~Unc!Inflates => Unc!Room = 0 /\ Unc!Output > 0
        BY <1>8, <1>9, <2>3, Zenon
      <4> QED
        BY <1>4, <2>1, <4>1, SMT
    <3>2. Unc!GotLen = 0
      BY <2>3, <3>1, Zenon DEF Unc!GotLen
    <3>3. Unc!Output \in {0, 1}
      BY <1>4, <1>8, <2>1, <2>3, <3>1, SMT
    <3>4. CASE Unc!Output = 0
      <4>1. ~Unc!RoomReplaced /\ ~(Unc!Output > destLen)
        BY <1>8, <2>3, <3>4, SMT
      <4>2. Unc!Documented = IF event = "end" THEN "OK" ELSE "DATA_ERROR"
        BY <4>1, Zenon DEF Unc!Documented
      <4> QED
        BY <2>1, <3>2, <3>4, <4>1, <4>2, Zenon
    <3>5. CASE Unc!Output = 1
      <4>1. Unc!RoomReplaced
        BY <1>8, <2>3, <3>1, <3>5, SMT
      <4> QED
        BY <2>1, <3>2, <3>5, <4>1, Zenon
    <3> QED
      BY <3>3, <3>4, <3>5, Zenon
  <2> QED
    BY <2>2, <2>3, Zenon
<1>12. CASE err = "STREAM_END"
  <2>1. Unc!AtEvent /\ event = "end"
    BY <1>1, <1>12, Zenon DEF Met
  <2>2. result = "OK"
    BY <1>6, <1>12 DEF Unc!UncompressResult
  <2>3. told = "OK" /\ Unc!GotLen = got
    BY <1>11, <2>1, Zenon
  <2>4. Unc!UsedLen = Len(src)
    BY <1>5, <1>10, <2>1, Zenon
  <2> QED
    BY <1>5, <2>2, <2>3, <2>4, Zenon
<1>13. CASE err \in {"DATA_ERROR", "NEED_DICT"}
  <2>1. Unc!AtEvent /\ event # "end"
    BY <1>1, <1>13 DEF Met
  <2>2. Unc!Inflates
    BY <1>7, <2>1, Zenon
  <2>3. result = "DATA_ERROR"
    BY <1>6, <1>13, <2>2 DEF Unc!UncompressResult
  <2>4. told = "DATA_ERROR"
    BY <1>11, <2>1, Zenon
  <2> QED
    BY <1>5, <2>3, <2>4
\* No room is left, and what there was is full.
<1>14. CASE err = "BUF_ERROR" /\ pending > 0 /\ stream.avail_out = 0 /\ left = 0
  <2>1. Unc!Output > Unc!Room /\ stream.total_out = Unc!Room
    BY <1>2, <1>3, <1>4, <1>14, SMT
  <2>2. ~(left > 0) /\ left + stream.avail_out = 0
    BY <1>14, SMT
  <2>3. CASE destLen # 0
    <3>1. Unc!Output > destLen /\ ~Unc!RoomReplaced /\ Unc!Output # destLen
      BY <1>2, <1>4, <1>8, <2>1, <2>3, SMT
    <3>2. told = "BUF_ERROR"
      BY <1>8, <3>1, Zenon DEF Unc!Documented
    <3>3. Unc!UncompressResult = "BUF_ERROR"
      BY <1>14, <2>2, <2>3 DEF Unc!UncompressResult
    <3>4. result = "BUF_ERROR"
      BY <1>6, <1>14, <3>3
    <3> QED
      BY <1>5, <3>2, <3>4
  <2>4. CASE destLen = 0 /\ Unc!Inflates
    <3>1. Unc!Room = 1
      BY <1>8, <2>4, Zenon
    <3>2. Unc!Output > 0 /\ Unc!Output # 1 /\ stream.total_out > 0
      BY <1>4, <2>1, <3>1, SMT
    <3>3. told = "DATA_ERROR"
      BY <1>8, <2>4, <3>2, Zenon
    <3>4. 1 + stream.avail_out # 0
      BY <1>2, SMT
    <3>5. Unc!UncompressResult = "DATA_ERROR"
      BY <1>14, <2>4, <3>2, <3>4 DEF Unc!UncompressResult
    <3>6. result = "DATA_ERROR"
      BY <1>6, <2>4, <3>5
    <3> QED
      BY <1>5, <3>3, <3>6
  <2>5. CASE destLen = 0 /\ ~Unc!Inflates
    <3>1. Unc!Output > destLen /\ ~Unc!RoomReplaced /\ ~Unc!EndsAtTheRim
      BY <1>8, <1>9, <2>5, Zenon
    <3>2. told = "BUF_ERROR"
      BY <3>1, Zenon DEF Unc!Documented
    <3>3. result = "BUF_ERROR"
      BY <1>6, <1>14, <2>5
    <3> QED
      BY <1>5, <3>2, <3>3
  <2> QED
    BY <2>3, <2>4, <2>5, Zenon
\* The input has ended too early.
<1>15. CASE err = "BUF_ERROR" /\ pending = 0 /\ stream.total_in = Len(src) /\ event = "truncated"
  <2>1. Unc!Inflates
    BY <1>7, <1>15, Zenon
  <2>2. stream.total_out = Unc!Output
    <3>1. Unc!Made(stream.total_in) = Unc!Output
      BY <1>15, Zenon DEF Unc!Output
    <3> QED
      BY <1>2, <1>3, <1>15, <3>1, SMT
  <2>3. result = Unc!UncompressResult
    BY <1>6, <2>1, Zenon
  <2>4. event = "truncated" /\ event # "end"
    BY <1>15
  <2>5. CASE destLen # 0
    <3>1. /\ left + stream.avail_out + Unc!Output = destLen
          /\ ~(Unc!Output > destLen)
          /\ left + stream.avail_out = 0 <=> Unc!Output = destLen
      <4>1. Unc!Room = destLen
        BY <1>8, <2>5, Zenon
      <4> QED
        BY <1>2, <1>3, <1>4, <2>2, <2>5, <4>1, SMT
    <3>2. Unc!UncompressResult = IF Unc!Output = destLen THEN "BUF_ERROR" ELSE "DATA_ERROR"
      BY <1>15, <2>5, <3>1 DEF Unc!UncompressResult
    <3>3. told = IF Unc!Output = destLen THEN "BUF_ERROR" ELSE "DATA_ERROR"
      BY <1>8, <2>4, <2>5, <3>1, Zenon DEF Unc!Documented
    <3> QED
      BY <1>5, <2>3, <3>2, <3>3
  <2>6. CASE destLen = 0
    <3>1. Unc!Room = 1 /\ ~Unc!EndsAtTheRim
      BY <1>8, <2>1, <2>6, Zenon
    <3>2. Unc!UncompressResult = "DATA_ERROR"
      <4>1. stream.total_out > 0 \/ left + stream.avail_out # 0
        BY <1>2, <1>3, <2>2, <3>1, SMT
      <4>2. 1 + stream.avail_out # 0
        BY <1>2, SMT
      <4> QED
        BY <1>15, <2>6, <4>1, <4>2 DEF Unc!UncompressResult
    <3>3. told = "DATA_ERROR"
      <4>1. CASE Unc!Output > 0
        BY <1>8, <2>1, <2>4, <2>6, <3>1, <4>1, Zenon
      <4>2. CASE ~(Unc!Output > 0)
        BY <1>8, <2>4, <2>6, <3>1, <4>2, Zenon DEF Unc!Documented
      <4> QED
        BY <4>1, <4>2, Zenon
    <3> QED
      BY <1>5, <2>3, <3>2, <3>3
  <2> QED
    BY <2>5, <2>6, Zenon
<1>16. err = "BUF_ERROR" =>
         \/ pending > 0 /\ stream.avail_out = 0 /\ left = 0
         \/ pending = 0 /\ stream.total_in = Len(src) /\ event = "truncated"
  BY <1>1, Zenon DEF Met
<1> HIDE DEF told, got
<1> QED
  BY <1>6, <1>12, <1>13, <1>14, <1>15, <1>16, Zenon

-----------------------------------------------------------------------------
(* The utilities in the model of all algorithms, of which a behaviour      *)
(* belongs to one.                                                         *)
UtilitiesInv ==
  /\ part = "bound" => BoundInv
  /\ part = "uncompress" => UncInv

LEMMA UtilitiesInit == ASSUME Init PROVE UtilitiesInv
<1>1. part = "bound" => Bound!Init
  BY Zenon DEF Init
<1>2. part = "uncompress" => Unc!Init
  BY Zenon DEF Init
<1> QED
  BY <1>1, <1>2, BoundInit, UncInit, Zenon DEF UtilitiesInv

\* What UtilitiesInv speaks of.
Seen == <<part, cfg, head, size, left, bits, done, call, src, event, trailing, destLen, len,
          stream, pending, moved, err, result>>

LEMMA UtilitiesStay == ASSUME UtilitiesInv, UNCHANGED Seen PROVE UtilitiesInv'
<1>1. part' = part
  BY Zenon DEF Seen
<1>2. ASSUME BoundInv PROVE BoundInv'
  <2>1. /\ cfg' = cfg /\ head' = head /\ size' = size /\ left' = left /\ bits' = bits
        /\ done' = done
    BY Zenon DEF Seen
  <2>2. BoundTypes => BoundTypes'
    BY <2>1, Zenon DEF BoundTypes
  <2>3. WithinConservative => WithinConservative'
    BY <2>1, Zenon DEF WithinConservative
  <2>4. WithinTight => WithinTight'
    BY <2>1, Zenon DEF WithinTight
  <2>5. WithinStored => WithinStored'
    BY <2>1, SMT DEF WithinStored
  <2>6. Complen' = Complen /\ Default' = Default
    BY <2>1, Zenon DEF Complen, Default, Bound!Tight, Bound!Conservative
  <2> QED
    BY <1>2, <2>1, <2>2, <2>3, <2>4, <2>5, <2>6, Zenon DEF BoundInv
<1>3. ASSUME UncInv PROVE UncInv'
  <2>1. UNCHANGED Unc!vars
    BY Zenon DEF Seen, Unc!vars, Unc!args
  <2> QED
    BY <1>3, <2>1, UncStays, Zenon
<1> QED
  BY <1>1, <1>2, <1>3, Zenon DEF UtilitiesInv

LEMMA UtilitiesStep == ASSUME UtilitiesInv, [Next]_vars PROVE UtilitiesInv'
<1>1. CASE BoundNext
  <2>1. part = "bound" /\ Bound!Next
    BY <1>1, Zenon DEF BoundNext
  <2>2. part' = part
    BY <1>1, Zenon DEF BoundNext, NotDeflateBound
  <2>3. BoundInv'
    BY <2>1, BoundStep, Zenon DEF UtilitiesInv
  <2> QED
    BY <2>1, <2>2, <2>3 DEF UtilitiesInv
<1>2. CASE UncNext
  <2>1. part = "uncompress" /\ Unc!Next
    BY <1>2, Zenon DEF UncNext
  <2>2. part' = part
    BY <1>2, Zenon DEF UncNext, NotUncompress
  <2>3. UncInv'
    BY <2>1, UncStep, Zenon DEF UtilitiesInv
  <2> QED
    BY <2>1, <2>2, <2>3 DEF UtilitiesInv
<1>3. CASE AdlerNext \/ CrcNext \/ TreeNext \/ SendNext \/ TabNext \/ SyncNext
  <2>1. part' = part
    BY <1>3, Zenon DEF AdlerNext, CrcNext, TreeNext, SendNext, TabNext, SyncNext,
      NotAdler32, NotCrc32, NotHuffmanTree, NotSendTree, NotInflateTable, NotInflateSync
  <2>2. part \in {"adler32", "crc32", "tree", "send", "table", "sync"}
    BY <1>3 DEF AdlerNext, CrcNext, TreeNext, SendNext, TabNext, SyncNext
  <2> QED
    BY <2>1, <2>2 DEF UtilitiesInv
<1>4. CASE UNCHANGED vars
  <2>1. UNCHANGED Seen
    BY <1>4, Zenon DEF vars, Seen, deflateBoundVars, uncompressVars
  <2> QED
    BY <2>1, UtilitiesStay, Zenon
<1> QED
  BY <1>1, <1>2, <1>3, <1>4, Zenon DEF Next, Over

LEMMA UtilitiesSuffice == ASSUME UtilitiesInv PROVE UtilitiesExact
  BY BoundSuffices, UncSuffices, Zenon DEF UtilitiesInv, UtilitiesExact

\* deflateBound() and compressBound() ask for enough room for a source of any
\* length, under all of deflateInit2()'s settings and with any gzip header, as
\* long as its blocks are of literals; and compress2() and uncompress2() return
\* Z_BUF_ERROR when and only when there is too little room, Z_DATA_ERROR when
\* and only when the stream is wrong or incomplete within that room, and Z_OK
\* otherwise, and report what they used and wrote, for any source, room and
\* length of the pieces they hand over, but for two cases: a stream that is cut
\* short where its output fills the room is Z_BUF_ERROR, and with no room at
\* all a whole stream of one byte is Z_OK, with nothing written, and any other
\* stream with output Z_DATA_ERROR.
THEOREM UtilitiesStayExact == Spec => []UtilitiesExact
<1>1. Init => UtilitiesInv
  BY UtilitiesInit
<1>2. UtilitiesInv /\ [Next]_vars => UtilitiesInv'
  BY UtilitiesStep
<1>3. UtilitiesInv => UtilitiesExact
  BY UtilitiesSuffice
<1> QED
  BY <1>1, <1>2, <1>3, PTL DEF Spec
==============================================================================

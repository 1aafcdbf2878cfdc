-------------------------------- MODULE Crc32 --------------------------------
(***************************************************************************)
(* The check value of the gzip format (zlib/crc32.c).  A byte or a         *)
(* register is the set of its bits that are one, so that exclusive or is   *)
(* the symmetric difference; all the widths are those of the code.         *)
(* crc32_z() goes bytewise to the next word in memory, then by words with  *)
(* four tables, then bytewise again, in one form for each byte order;      *)
(* crc32_combine() lets zeros pass through a value with the squares of a   *)
(* matrix.  The tables of crc32.h are the ones make_crc_table() makes.     *)
(***************************************************************************)
EXTENDS Integers, Sequences, FiniteSets, FiniteSetsExt, SequencesExt

CONSTANTS Bytes,     \* the bytes of the data
          MaxLen,    \* how many there are, at most fifteen
          MaxSet     \* how many of them differ from zero at most

VARIABLES little,    \* the byte order of the machine
          fed,       \* the bytes handed over
          crc        \* the value the application keeps

vars == <<little, fed, crc>>

\* What the constants must be; the modules that instantiate this one assume it.
BytesAssumption == \A b \in Bytes : b \subseteq 0 .. 7

Xor(a, b) == (a \ b) \cup (b \ a)
Not(c)    == (0 .. 31) \ c
Shr(c, n) == {i - n : i \in {j \in c : j >= n}}
Shl(c, n) == {i + n : i \in {j \in c : j + n <= 31}}
Byte(c, n) == Shr(c, 8 * n) \cap (0 .. 7)

ZSWAP32(c) == {8 * (3 - (i \div 8)) + (i % 8) : i \in c}

\* The terms of the polynomial, lowest power in the highest bit.
Poly == {31 - p : p \in {0, 1, 2, 4, 5, 7, 8, 10, 11, 12, 16, 22, 23, 26}}

TimesX(c) == IF 0 \in c THEN Xor(Poly, Shr(c, 1)) ELSE Shr(c, 1)

\* The first table: every byte, eight bits on.
Table0 ==
    [b \in SUBSET (0 .. 7) |->
        LET c[k \in 0 .. 8] == IF k = 0 THEN b ELSE TimesX(c[k - 1]) IN c[8]]

\* The others: a byte followed by one, two and three zeros, ...
Table1 == [b \in SUBSET (0 .. 7) |-> Xor(Table0[Byte(Table0[b], 0)], Shr(Table0[b], 8))]
Table2 == [b \in SUBSET (0 .. 7) |-> Xor(Table0[Byte(Table1[b], 0)], Shr(Table1[b], 8))]
Table3 == [b \in SUBSET (0 .. 7) |-> Xor(Table0[Byte(Table2[b], 0)], Shr(Table2[b], 8))]

\* ... and all four with their bytes swapped.
Table4 == [b \in SUBSET (0 .. 7) |-> ZSWAP32(Table0[b])]
Table5 == [b \in SUBSET (0 .. 7) |-> ZSWAP32(Table1[b])]
Table6 == [b \in SUBSET (0 .. 7) |-> ZSWAP32(Table2[b])]
Table7 == [b \in SUBSET (0 .. 7) |-> ZSWAP32(Table3[b])]

\* One byte, on a machine that is little-endian or not.
DO1(c, byte) ==
    IF little THEN Xor(Table0[Xor(Byte(c, 0), byte)], Shr(c, 8))
    ELSE Xor(Table4[Xor(Byte(c, 3), byte)], Shl(c, 8))

\* The word at buf[n], as the machine reads it.
Word(buf, n) ==
    UNION {LET at == 8 * (IF little THEN i ELSE 3 - i) IN Shl(buf[n + i], at) : i \in 0 .. 3}

DOLIT4(c) ==
    Xor(Xor(Table3[Byte(c, 0)], Table2[Byte(c, 1)]), Xor(Table1[Byte(c, 2)], Table0[Byte(c, 3)]))

DOBIG4(c) ==
    Xor(Xor(Table4[Byte(c, 0)], Table5[Byte(c, 1)]), Xor(Table6[Byte(c, 2)], Table7[Byte(c, 3)]))

DO4(c, word) == IF little THEN DOLIT4(Xor(c, word)) ELSE DOBIG4(Xor(c, word))

\* The numbers from .. to, in order.
Interval(from, to) == [n \in 1 .. to - from + 1 |-> from + n - 1]

\* The bytes before the first whole word in memory.
LeadBytes(buf, align) == Min({Len(buf), (4 - align) % 4})

\* Bytes up to a word, whole words, and the bytes that remain.
crc32_z(v, buf, align) ==
    LET lead  == LeadBytes(buf, align)
        words == (Len(buf) - lead) \div 4
        rest  == lead + 4 * words
        bytes(c, from, to) == FoldLeft(LAMBDA d, n : DO1(d, buf[n]), c, Interval(from, to))
        begin == bytes(Not(IF little THEN v ELSE ZSWAP32(v)), 1, lead)
        middle == FoldLeft(LAMBDA d, n : DO4(d, Word(buf, lead + 4 * n - 3)), begin, Interval(1, words))
        out == Not(bytes(middle, rest + 1, Len(buf)))
    IN  IF little THEN out ELSE ZSWAP32(out)

\* crc32(0L, Z_NULL, 0)
Initial == {}

\* A matrix over bits is a function from columns to registers.
gf2_matrix_times(mat, vec) == FoldSet(LAMBDA i, sum : Xor(sum, mat[i]), {}, vec)

gf2_matrix_square(mat) == [n \in 0 .. 31 |-> gf2_matrix_times(mat, mat[n])]

\* The operator for one zero bit, and its squares: even and odd, in turn.
OneZeroBit == [n \in 0 .. 31 |-> IF n = 0 THEN Poly ELSE {n - 1}]

TwoZeroBits   == gf2_matrix_square(OneZeroBit)
FourZeroBits  == gf2_matrix_square(TwoZeroBits)
OneZeroByte   == gf2_matrix_square(FourZeroBits)
TwoZeroBytes  == gf2_matrix_square(OneZeroByte)
FourZeroBytes == gf2_matrix_square(TwoZeroBytes)
EightZeroBytes == gf2_matrix_square(FourZeroBytes)

\* The operators for 2^(k - 1) zero bytes, in the order of the loop.
ZeroBytes == <<OneZeroByte, TwoZeroBytes, FourZeroBytes, EightZeroBytes>>

crc32_combine_(crc1, crc2, len2) ==
    LET step(c, k) ==
            IF (len2 \div 2^(k - 1)) % 2 = 1 THEN gf2_matrix_times(ZeroBytes[k], c) ELSE c
    IN  IF len2 <= 0 THEN crc1 ELSE Xor(FoldLeft(step, crc1, <<1, 2, 3, 4>>), crc2)

Sparse(s) == Cardinality({i \in DOMAIN s : s[i] # {}}) <= MaxSet

Bufs == {s \in UNION {[1 .. n -> Bytes] : n \in 0 .. MaxLen} : Sparse(s)}

Init == little \in BOOLEAN /\ fed = <<>> /\ crc = Initial

Update(buf, align) ==
    /\ Len(fed \o buf) <= MaxLen /\ Sparse(fed \o buf)
    /\ crc' = crc32_z(crc, buf, align)
    /\ fed' = fed \o buf
    /\ UNCHANGED little

Next == \E buf \in Bufs, align \in 0 .. 3 : Update(buf, align)

Spec == Init /\ [][Next]_vars

-----------------------------------------------------------------------------
\* CRC-32 by its definition: the bits of the data, lowest first, pass through
\* a register that is divided by the polynomial.
Reference(s) ==
    LET bit(n) == ((n - 1) % 8) \in s[((n - 1) \div 8) + 1]
        step(c, n) == IF (0 \in c) # bit(n) THEN Xor(Poly, Shr(c, 1)) ELSE Shr(c, 1)
    IN  Not(FoldLeft(step, 0 .. 31, Interval(1, 8 * Len(s))))

\* However the data is cut into calls and wherever each piece lies in memory,
\* crc32_z() keeps the CRC-32 of all of it, on machines of either byte order.
CrcExact == crc = Reference(fed)

\* crc32_combine() of the values of two parts is the value of the whole.
CombineExact ==
    \A n \in 0 .. Len(fed) :
        crc32_combine_(Reference(SubSeq(fed, 1, n)),
                       Reference(SubSeq(fed, n + 1, Len(fed))), Len(fed) - n) = Reference(fed)

=============================================================================

------------------------------- MODULE Adler32 -------------------------------
(***************************************************************************)
(* The check value of the zlib format (zlib/adler32.c): two sums modulo    *)
(* the prime BASE, packed in one unsigned long.  adler32_z() puts the      *)
(* modulo off as long as an unsigned long of Width bits can hold the sums, *)
(* in three ways: for one byte, for fewer than Short bytes, and for blocks *)
(* of NMAX bytes.  adler32_combine() makes the value of a concatenation    *)
(* from the values of its parts.                                           *)
(*                                                                         *)
(* The numbers of the code (8 bits a byte, Base 65521, Width 32, Short 16, *)
(* NMax 5552) are scaled down together: Base is the largest prime that two *)
(* halves of Width bits hold, and NMax the longest block whose sums fit.   *)
(***************************************************************************)
EXTENDS Integers, Sequences

CONSTANTS Bytes, Base, Width, Short, NMax, MaxLen

VARIABLES start,   \* the value the application begins with
          fed,     \* the bytes it has handed over since
          adler    \* the value it keeps: adler & 0xffff, adler >> 16

vars == <<start, fed, adler>>

\* What the constants must be; the modules that instantiate this one assume it.
NumbersScaled ==
    /\ Base \in Nat \ {0} /\ Short \in Nat \ {0}
    /\ NMax % Short = 0
    /\ \A b \in Bytes : b \in 0 .. Base - 1

Value(a, b) == [low |-> a, high |-> b]

Values == [low : 0 .. Base - 1, high : 0 .. Base - 1]

\* An unsigned long wraps around at Width bits.
Wrap(n) == n % 2^Width

\* if (n >= by) n -= by
Less(n, by) == IF n >= by THEN n - by ELSE n

\* DO1: both sums take one byte, without a modulo.
DO1(v, byte) ==
    LET a == Wrap(v.low + byte)
    IN  Value(a, Wrap(v.high + a))

\* The sums of buf[from .. to], without a modulo.
Sums(v, buf, from, to) ==
    LET s[n \in from - 1 .. to] == IF n < from THEN v ELSE DO1(s[n - 1], buf[n])
    IN  s[to]

MOD(v) == Value(v.low % Base, v.high % Base)

OneByte(v, byte) ==
    LET a == Less(v.low + byte, Base)
    IN  Value(a, Less(v.high + a, Base))

FewBytes(v, buf) ==
    LET s == Sums(v, buf, 1, Len(buf))
    IN  Value(Less(s.low, Base), s.high % Base)

\* Mutant: one modulo for all the bytes.
ManyBytesOneModulo(v, buf) == MOD(Sums(v, buf, 1, Len(buf)))

\* Blocks of NMAX bytes, each with one modulo, then the bytes that remain.
ManyBytes(v, buf) ==
    LET blocks == Len(buf) \div NMax
        s[n \in 0 .. blocks] ==
            IF n = 0 THEN v ELSE MOD(Sums(s[n - 1], buf, (n - 1) * NMax + 1, n * NMax))
    IN  IF Len(buf) % NMax = 0 THEN s[blocks]
        ELSE MOD(Sums(s[blocks], buf, blocks * NMax + 1, Len(buf)))

adler32_z(v, buf) ==
    CASE Len(buf) = 1     -> OneByte(v, buf[1])
      [] Len(buf) < Short -> FewBytes(v, buf)
      [] OTHER            -> ManyBytes(v, buf)

\* adler32(0L, Z_NULL, 0)
Initial == Value(1, 0)

adler32_combine_(v1, v2, len2) ==
    LET rem  == len2 % Base
        sum2 == Wrap(rem * v1.low) % Base
        lo   == Wrap(v1.low + v2.low + Base - 1)
        hi   == Wrap(sum2 + v1.high + v2.high + Base - rem)
    IN  Value(Less(Less(lo, Base), Base), Less(Less(hi, 2 * Base), Base))

Bufs == UNION {[1 .. n -> Bytes] : n \in 0 .. MaxLen}

\* The value the application begins with is that of any data before.
Init ==
    /\ start \in Values
    /\ fed = <<>>
    /\ adler = start

Update(buf) ==
    /\ Len(fed) + Len(buf) <= MaxLen
    /\ adler' = adler32_z(adler, buf)
    /\ fed' = fed \o buf
    /\ UNCHANGED start

Next == \E buf \in Bufs : Update(buf)

Spec == Init /\ [][Next]_vars

-----------------------------------------------------------------------------
\* The state is the value of some data and the bytes since.
TypeOK ==
    /\ start \in Values
    /\ fed \in Seq(Bytes)
    /\ adler \in Values

SumOf(s) ==
    LET t[n \in 0 .. Len(s)] == IF n = 0 THEN 0 ELSE t[n - 1] + s[n]
    IN  t[Len(s)]

\* Adler-32 by its definition: the sum of the bytes, and the sum of all the
\* values the first sum goes through, both modulo BASE.
Reference(v, s) ==
    LET first(n) == v.low + SumOf(SubSeq(s, 1, n))
    IN  Value(first(Len(s)) % Base,
              (v.high + SumOf([n \in 1 .. Len(s) |-> first(n)])) % Base)

\* However the data is cut into calls, the value adler32_z() keeps is the
\* Adler-32 of all of it: no sum overflows before its modulo is taken, and the
\* subtractions that stand for a modulo are enough.
SumsExact == adler = Reference(start, fed)

\* adler32_combine() of the values of two parts is the value of the whole.
CombineExact ==
    \A n \in 0 .. Len(fed) :
        adler32_combine_(Reference(start, SubSeq(fed, 1, n)),
                         Reference(Initial, SubSeq(fed, n + 1, Len(fed))),
                         Len(fed) - n) = Reference(start, fed)

=============================================================================

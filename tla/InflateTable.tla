---------------------------- MODULE InflateTable ----------------------------
(***************************************************************************)
(* zlib's inflate_table(): code lengths into a decoding table of two       *)
(* levels, one step for each code it enters.  MaxBits is 15 in the code    *)
(* and Match 257 for lengths; base and extra bits of a symbol are its      *)
(* index behind Match.                                                     *)
(***************************************************************************)
EXTENDS Integers, Sequences, FiniteSetsExt, SequencesExt

CONSTANTS
  NumCodes,     \* codes
  MaxBits,      \* longest code
  Roots,        \* index bits the caller asks for
  Match,        \* first symbol with a base, behind the end of block
  Enough        \* ENOUGH_LENS and ENOUGH_DISTS, for each of Roots

\* What the constants must be; the modules that instantiate this one assume it.
TableAssumption ==
  /\ NumCodes \in Nat \ {0} /\ MaxBits \in Nat \ {0} /\ Match \in Nat
  /\ Roots \subseteq 1..MaxBits /\ Enough \in [Roots -> Nat]

VARIABLES
  type, lens, bits,             \* the arguments
  count, root,
  huff, sym, len, next, curr, drop, low, used,
  table, ret

args == <<type, lens, bits>>
vars == <<args, count, root, huff, sym, len, next, curr, drop, low, used, table, ret>>

Entry(op, n, val) == [op |-> op, bits |-> n, val |-> val]
Unset == Entry("unset", 0, 0)
InvalidCode(n) == Entry("invalid", n, 0)
Size == 2^(MaxBits + 1)

-----------------------------------------------------------------------------
(* Before the loop.                                                        *)

Symbols == 0..NumCodes - 1
HowMany(ls, n) == Cardinality({s \in Symbols : ls[s] = n})
Count(ls) == [n \in 0..MaxBits |-> HowMany(ls, n)]
Lengths(ls) == {ls[s] : s \in Symbols} \ {0}
Longest == Max(Lengths(lens))
Root(ls, b) == Max({Min(Lengths(ls)), Min({Max(Lengths(ls)), b})})

\* Prefixes left over once the codes of up to n bits are taken.
LeftOver(ls) ==
  LET left[n \in 0..MaxBits] == IF n = 0 THEN 1 ELSE 2 * left[n - 1] - HowMany(ls, n)
  IN left

Refused(t, ls) ==
  \/ \E n \in 1..MaxBits : LeftOver(ls)[n] < 0
  \/ LeftOver(ls)[MaxBits] > 0 /\ (t = "CODES" \/ Max(Lengths(ls)) # 1)

\* The symbols by length, and in their order within a length.
Before(ls, s, t) == ls[s] < ls[t] \/ (ls[s] = ls[t] /\ s < t)
Work(ls) ==
  LET coded == {s \in Symbols : ls[s] # 0}
  IN [n \in 1..Cardinality(coded) |->
        CHOOSE s \in coded : Cardinality({t \in coded : Before(ls, t, s)}) = n - 1]

OutOfSpace(n) == type # "CODES" /\ n > Enough[bits]

Init ==
  /\ type \in {"CODES", "LENS", "DISTS"}
  /\ lens \in [Symbols -> 0..MaxBits]
  /\ bits \in Roots
  /\ count = Count(lens)
  /\ huff = 0 /\ sym = 1 /\ next = 0 /\ drop = 0 /\ low = -1
  /\ IF Lengths(lens) = {}
     THEN /\ root = 1 /\ len = 0 /\ curr = 0 /\ used = 2 /\ ret = "ok"
          /\ table = [i \in 0..Size |-> IF i < 2 THEN InvalidCode(1) ELSE Unset]
     ELSE /\ root = Root(lens, bits) /\ len = Min(Lengths(lens)) /\ curr = root
          /\ used = 2^root
          /\ ret = IF Refused(type, lens) THEN "refused"
                   ELSE IF OutOfSpace(used) THEN "space" ELSE "none"
          /\ table = [i \in 0..Size |-> Unset]

-----------------------------------------------------------------------------
(* The loop.                                                               *)

Here(s) ==
  LET match == CASE type = "CODES" -> NumCodes + 1 [] type = "LENS" -> Match [] OTHER -> 0
  IN CASE s + 1 < match -> Entry("symbol", len - drop, s)
       [] s >= match -> Entry("base", len - drop, s - match)
       [] OTHER -> Entry("end", len - drop, 0)

\* Every index whose low bits are the code.
Replicate(here) ==
  LET at == {next + (huff \div 2^drop) + k * 2^(len - drop) : k \in 0..2^(curr - (len - drop)) - 1}
  IN [i \in DOMAIN table |-> IF i \in at THEN here ELSE table[i]]

BitSet(n, k) == (n \div 2^k) % 2 = 1

\* The code of len bits incremented from its top bit down.
Increment ==
  LET clear == {k \in 0..len - 1 : ~BitSet(huff, k)}
  IN IF clear = {} THEN 0 ELSE LET k == Max(clear) IN (huff % 2^k) + 2^k

\* Mutant: every sub-table has room for the longest codes.
SubBitsLongest(cnt, l) == Longest - root

\* The index bits of a sub-table that begins with a code of l bits: grows
\* while codes of the length are too few to fill it.
SubBits(cnt, l) ==
  LET left[c \in (l - root)..(Longest - root)] ==
        IF c = l - root THEN 2^c - cnt[l] ELSE 2 * left[c - 1] - cnt[c + root]
      full == {c \in (l - root)..(Longest - root) : c + root = Longest \/ left[c] <= 0}
  IN Min(full)

Enter ==
  /\ ret = "none"
  /\ LET work == Work(lens)
         filled == Replicate(Here(work[sym]))
         cnt == [count EXCEPT ![len] = @ - 1]
         ended == cnt[len] = 0 /\ len = Longest
         l == IF cnt[len] = 0 /\ ~ended THEN lens[work[sym + 1]] ELSE len
         another == ~ended /\ l > root /\ Increment % 2^root # low
         c == SubBits(cnt, l)
     IN /\ huff' = Increment
        /\ sym' = sym + 1
        /\ count' = cnt
        /\ len' = l
        /\ IF another
           THEN /\ drop' = root
                /\ next' = next + 2^curr
                /\ curr' = c
                /\ used' = used + 2^c
                /\ low' = Increment % 2^root
                /\ IF OutOfSpace(used') THEN ret' = "space" /\ table' = filled
                   ELSE /\ table' = [filled EXCEPT ![low'] = [op |-> "table", bits |-> root,
                                                              val |-> next', index |-> c]]
                        /\ UNCHANGED ret
           ELSE /\ ret' = IF ended THEN "ok" ELSE ret
                /\ table' = IF ended /\ huff' # 0
                            THEN [filled EXCEPT ![next + huff'] = InvalidCode(len - drop)]
                            ELSE filled
                /\ UNCHANGED <<drop, next, curr, used, low>>
  /\ UNCHANGED <<args, root>>

Done == ret # "none" /\ UNCHANGED vars
Next == Enter \/ Done
Spec == Init /\ [][Next]_vars

-----------------------------------------------------------------------------
(* What inflate() finds in the table.                                      *)

\* The entry for the bits to come, of which the first is the lowest.
Lookup(n) ==
  LET here == table[n % 2^root]
  IN IF here.op = "table" THEN table[here.val + (n % 2^(here.bits + here.index)) \div 2^here.bits]
     ELSE here
CodeBits(n) == Lookup(n).bits + (IF table[n % 2^root].op = "table" THEN root ELSE 0)

-----------------------------------------------------------------------------
(* Reference: the canonical code.                                          *)

\* The first code of n bits, as a number whose top bit comes first.
First(ls) ==
  LET first[n \in 0..MaxBits] == IF n <= 1 THEN 0 ELSE 2 * (first[n - 1] + HowMany(ls, n - 1))
  IN first
Code(s) == First(lens)[lens[s]] + Cardinality({t \in Symbols : t < s /\ lens[t] = lens[s]})

\* The next n bits as a number of this kind.
Reversed(v, n) == SumSet({2^k : k \in {j \in 0..n - 1 : BitSet(v, n - 1 - j)}})
Coded(v) == {s \in Symbols : lens[s] # 0 /\ Reversed(v, lens[s]) = Code(s)}

-----------------------------------------------------------------------------
(* Properties.                                                             *)

\* The table that inflate_table() builds sends every sequence of bits to the
\* symbol whose canonical code it begins with, with the right number of bits,
\* and to an invalid code if there is none.
DecodesExactly ==
  ret = "ok" =>
    \A v \in 0..2^MaxBits - 1 :
      LET here == Lookup(v)
      IN IF Coded(v) = {} THEN here.op = "invalid"
         ELSE \A s \in Coded(v) :
                /\ CodeBits(v) = lens[s]
                /\ here.op = CASE type = "CODES" \/ (type = "LENS" /\ s < Match - 1) -> "symbol"
                               [] type = "LENS" /\ s = Match - 1 -> "end"
                               [] OTHER -> "base"
                /\ here.val = CASE here.op = "symbol" -> s [] here.op = "end" -> 0
                                [] type = "LENS" -> s - Match [] OTHER -> s

\* What the codes of the lengths take of all sequences of bits.
Kraft == SumFunction([s \in Symbols |-> IF lens[s] = 0 THEN 0 ELSE 2^(MaxBits - lens[s])])

\* A set of lengths is refused exactly when it asks for more codes than there
\* are or leaves codes unused, apart from a code of one bit for a length or a
\* distance and from no code at all.
RefusedExactly ==
  (ret = "refused") =
    (\/ Kraft > 2^MaxBits
     \/ /\ Kraft \in 1..2^MaxBits - 1
        /\ type = "CODES" \/ Kraft # 2^(MaxBits - 1) \/ Cardinality({s \in Symbols : lens[s] = 1}) # 1)

\* The tables that inflate() reserves are large enough for all codes that are
\* not refused, and nothing is written behind what is counted as used.
StaysInside ==
  /\ ret # "space"
  /\ \A i \in DOMAIN table : i >= used => table[i] = Unset
=============================================================================

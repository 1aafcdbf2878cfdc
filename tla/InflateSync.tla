----------------------------- MODULE InflateSync ----------------------------
(***************************************************************************)
(* zlib's inflateSync(): skips input, in as many calls as it takes, until  *)
(* the bytes 00 00 FF FF that end a full flush.  The first call looks at   *)
(* the input that inflate() holds in its bit buffer first.                 *)
(***************************************************************************)
EXTENDS Integers, Sequences, SequencesExt

CONSTANTS
  Bytes,        \* values of bytes, with 0 and 255 among them
  Held,         \* bits in the bit buffer when inflateSync() is called first
  MaxInput      \* bound: bytes of input in all

\* What the constants must be; the modules that instantiate this one assume it.
SyncAssumption == {0, 255} \subseteq Bytes /\ Held \subseteq 0..16 /\ MaxInput \in Nat

VARIABLES
  mode, hold, bits, have,
  total,        \* total_in since the first call
  ret,          \* of the last call
  skipped       \* history: the whole bytes of the bit buffer and the input, in order

vars == <<mode, hold, bits, have, total, ret, skipped>>

Strings(n) == UNION {[1..k -> Bytes] : k \in 0..n}

\* The bit buffer: the rest of a byte that was used in part, in the low bits,
\* and whole bytes.
Value(part, n, whole) == part + 2^n * FoldRight(LAMBDA b, v : b + 256 * v, whole, 0)

Init ==
  \E b \in Held : \E whole \in [1..b \div 8 -> Bytes], part \in {0, 2^(b % 8) - 1} :
    /\ mode = "INFLATE" /\ bits = b /\ hold = Value(part, b % 8, whole)
    /\ have = 0 /\ total = 0 /\ ret = "none"
    /\ skipped = whole

\* Bytes of the pattern seen once b is.
Got(got, b) ==
  IF b = (IF got < 2 THEN 0 ELSE 255) THEN got + 1 ELSE IF b # 0 THEN 0 ELSE 4 - got

\* How far syncsearch() gets, and in what state.
syncsearch(got, buf) ==
  FoldLeft(LAMBDA s, b : IF s.got = 4 THEN s ELSE [got |-> Got(s.got, b), next |-> s.next + 1],
           [got |-> got, next |-> 0], buf)

\* The bytes that the first call takes out of the bit buffer.
HeldBytes ==
  LET shifted == hold * 2^(bits % 8)
  IN [i \in 1..bits \div 8 |-> (shifted \div 256^(i - 1)) % 256]

NoInput(buf) == buf = <<>> /\ bits < 8

Sync(buf) ==
  /\ mode # "TYPE"
  /\ IF NoInput(buf) THEN ret' = "BUF_ERROR" /\ UNCHANGED <<mode, hold, bits, have, total, skipped>>
     ELSE LET first == IF mode = "SYNC" THEN have ELSE syncsearch(0, HeldBytes).got
              found == syncsearch(first, buf)
          IN /\ hold' = 0 /\ bits' = 0
             /\ total' = total + found.next
             /\ skipped' = skipped \o SubSeq(buf, 1, found.next)
             /\ IF found.got = 4 THEN mode' = "TYPE" /\ have' = 0 /\ ret' = "OK"
                ELSE mode' = "SYNC" /\ have' = found.got /\ ret' = "DATA_ERROR"

Next ==
  \/ \E buf \in Strings(MaxInput - total) : Sync(buf)
  \/ mode = "TYPE" /\ UNCHANGED vars
Spec == Init /\ [][Next]_vars

\* Reference: the pattern at the end of the bytes that begin s.
Pattern == <<0, 0, 255, 255>>
EndsAt(s, n) == n >= 4 /\ SubSeq(s, n - 3, n) = Pattern

\* However the input is cut into calls, inflateSync() stops right behind the
\* first 00 00 FF FF of the data that inflate() has not used, and only there.
StopsAtFlush ==
  /\ mode = "TYPE" => EndsAt(skipped, Len(skipped))
  /\ \A n \in 0..Len(skipped) - 1 : ~EndsAt(skipped, n)
  /\ mode # "TYPE" => ~EndsAt(skipped, Len(skipped))
=============================================================================

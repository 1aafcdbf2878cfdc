---------------------------- MODULE InflateBack -----------------------------
(***************************************************************************)
(* zlib's inflateBack(): raw deflate data decoded in one call.  Input      *)
(* comes from in() in chunks, the caller's window is the output buffer,    *)
(* and out() gets it whenever it is full; either may fail.                 *)
(*                                                                         *)
(* The state lacks one field that inflateBackInit_ leaves unset and        *)
(* inflate_fast() reads: sane.  It is a choice of the initial state.       *)
(***************************************************************************)
EXTENDS DeflateFormat, FiniteSetsExt

CONSTANTS
  Chunks,       \* bytes that in() provides at a time
  StoredLengths,\* lengths of stored blocks
  NumLens,      \* nlen + ndist
  MaxCodes,     \* bound: literals and matches
  MaxBlocks     \* bound: blocks

\* What the constants must be; the modules that instantiate this one assume it.
BackAssumption ==
  /\ NumLens \in Nat /\ MaxCodes \in Nat /\ MaxBlocks \in Nat
  /\ 0 \notin Chunks

VARIABLES
  mode, last, bits, length, offset, extra, lens,
  have,         \* input left of the chunk
  left,         \* room left in the window: put is WSize - left
  whave,
  window,
  fast,         \* "in" the loop of inflate_fast, at its "end", or "no"
  sane,         \* whatever the allocator left there
  ret,          \* "none" while the call goes on
  field,        \* the field that is next in the stream, if it is chosen
  hist          \* history: what the stream stands for, what out() got, ...

state == <<mode, last, length, offset, extra, lens>>
vars == <<state, bits, have, left, whave, window, fast, sane, ret, field, hist>>

Running == ret = "none" /\ fast = "no"
Chosen == field.op # "none"
Put == WSize - left

\* What has come out: handed to out(), or still in the window.
Written == hist.out \o [i \in 1..Put |-> window[i - 1]]

-----------------------------------------------------------------------------
(* PULL, PULLBYTE and NEEDBITS.                                            *)

Bits == IF mode = "STORED" THEN bits - (bits % 8) ELSE bits
Missing(n) == IF Bits >= n THEN 0 ELSE (n - Bits + 7) \div 8
Rest(n) == Bits + 8 * Missing(n) - n

Take ==
  /\ Running /\ Chosen
  /\ Missing(field.bits) <= have
  /\ have' = have - Missing(field.bits)
  /\ field' = None
Fast == have >= 6 /\ left >= MaxMatch

\* All there is goes into the accumulator, and in() is asked for more.
Pull ==
  /\ Running /\ Chosen
  /\ mode = "LEN" => ~Fast
  /\ Missing(field.bits) > have
  /\ bits' = Bits + 8 * have
  /\ \/ \E n \in Chunks : have' = n /\ UNCHANGED ret
     \/ have' = 0 /\ ret' = "BUF_ERROR"
  /\ UNCHANGED <<state, left, whave, window, fast, sane, field, hist>>

\* ROOM: the full window is handed over and written again from its start.
WritesNext == mode \in {"COPY", "MATCH", "LIT"}
\* The whole window is valid from now on.
WhaveAll == WSize
Room ==
  /\ Running /\ left = 0 /\ WritesNext
  /\ left' = WSize
  /\ whave' = WhaveAll
  /\ ret' \in {"none", "BUF_ERROR"}
  /\ hist' = [hist EXCEPT !.out = Written]
  /\ UNCHANGED <<state, bits, have, window, fast, sane, field>>

-----------------------------------------------------------------------------
(* The stream.                                                             *)

Lasts == IF hist.blocks + 1 >= MaxBlocks THEN {TRUE} ELSE BOOLEAN
MoreCodes == IF hist.codes >= MaxCodes THEN {EndOfBlock} ELSE Codes
CodeLengths ==
  {[op |-> "len", bits |-> 3, val |-> 1, extra |-> 0],
   [op |-> "previous", bits |-> 7, val |-> 3, extra |-> 0]}

Fields ==
  CASE mode = "TYPE" -> BlockHeaders(Lasts)
    [] mode = "STORED" -> StoredSizes(StoredLengths)
    [] mode = "TABLE" -> {[op |-> "table", bits |-> 14, val |-> 0, extra |-> 0], Invalid(14)}
    [] mode = "CODELENS" -> CodeLengths
    [] mode = "LEN" -> MoreCodes
    [] mode = "LENEXT" -> LenExtra(extra)
    [] mode = "DIST" -> DistCodes
    [] mode = "DISTEXT" -> DistExtra(extra)
    [] OTHER -> {}

\* A distance may not reach beyond the output, nor beyond the window.
TooFar(distance) == distance > Min({Len(hist.past), WSize})
Wrong(f) ==
  \/ f.op = "invalid"
  \/ mode = "DISTEXT" /\ TooFar(offset + f.val)
  \/ f.op = "previous" /\ (lens = 0 \/ lens + f.val > NumLens)

Read ==
  /\ Running /\ ~Chosen
  /\ mode = "TYPE" => ~last
  /\ mode = "CODELENS" => lens < NumLens
  /\ mode = "LEN" => ~Fast
  /\ \E f \in Fields : field' = f /\ hist' = [hist EXCEPT !.bad = @ \/ Wrong(f)]
  /\ UNCHANGED <<state, bits, have, left, whave, window, fast, sane, ret>>

-----------------------------------------------------------------------------
(* Blocks.                                                                 *)

Quiet == UNCHANGED <<left, whave, window, fast, sane, ret>>

Type ==
  /\ mode = "TYPE" /\ ~last /\ Take
  /\ last' = field.val
  /\ mode' = CASE field.op = "stored" -> "STORED" [] field.op = "fixed" -> "LEN"
               [] field.op = "dynamic" -> "TABLE" [] OTHER -> "BAD"
  /\ bits' = Rest(3)
  /\ hist' = [hist EXCEPT !.blocks = @ + 1]
  /\ UNCHANGED <<length, offset, extra, lens>> /\ Quiet

Stored ==
  /\ mode = "STORED" /\ Take
  /\ IF field.op = "invalid" THEN mode' = "BAD" /\ bits' = Rest(0) /\ UNCHANGED length
     ELSE mode' = "COPY" /\ bits' = 0 /\ length' = field.val
  /\ UNCHANGED <<last, offset, extra, lens, hist>> /\ Quiet

\* The window after bytes are put into it.
PutBytes(b) == [i \in DOMAIN window |-> IF i \in Put..Put + Len(b) - 1 THEN b[i - Put + 1] ELSE window[i]]

Copy ==
  /\ Running /\ mode = "COPY"
  /\ IF length = 0
     THEN mode' = "TYPE" /\ UNCHANGED <<length, have, left, window, ret, hist>>
     ELSE \/ /\ have = 0
             /\ \/ \E n \in Chunks : have' = n /\ UNCHANGED ret
                \/ ret' = "BUF_ERROR" /\ UNCHANGED have
             /\ UNCHANGED <<mode, length, left, window, hist>>
          \/ /\ have > 0 /\ left > 0
             /\ LET copy == Min({length, have, left})
                IN /\ length' = length - copy
                   /\ have' = have - copy
                   /\ left' = left - copy
                   /\ \E b \in [1..copy -> Bytes] :
                        window' = PutBytes(b) /\ hist' = [hist EXCEPT !.past = @ \o b]
             /\ UNCHANGED <<mode, ret>>
  /\ UNCHANGED <<last, offset, extra, lens, bits, whave, fast, sane, field>>

\* The sizes; then the code length code, which may be refused.
Table ==
  /\ mode = "TABLE" /\ Take
  /\ \/ field.op # "invalid" /\ mode' = "CODELENS" /\ UNCHANGED hist
     \/ mode' = "BAD" /\ hist' = [hist EXCEPT !.bad = TRUE]
  /\ bits' = Rest(14)
  /\ lens' = 0
  /\ UNCHANGED <<last, length, offset, extra>> /\ Quiet

CodeLens ==
  /\ mode = "CODELENS" /\ lens < NumLens /\ Take
  /\ LET n == IF field.op = "len" THEN 1 ELSE field.val
         refused == (field.op = "previous" /\ lens = 0) \/ lens + n > NumLens
     IN IF refused THEN mode' = "BAD" /\ UNCHANGED lens ELSE lens' = lens + n /\ UNCHANGED mode
  /\ bits' = Rest(field.bits)
  /\ UNCHANGED <<last, length, offset, extra, hist>> /\ Quiet

BuildCodes ==
  /\ Running /\ mode = "CODELENS" /\ lens = NumLens
  /\ \/ mode' = "LEN" /\ UNCHANGED hist
     \/ mode' = "BAD" /\ hist' = [hist EXCEPT !.bad = TRUE]
  /\ UNCHANGED <<last, length, offset, extra, lens, bits, have, field>> /\ Quiet

-----------------------------------------------------------------------------
(* Codes.                                                                  *)

CodeSeen(f) ==
  [hist EXCEPT !.codes = @ + 1,
               !.past = IF f.op = "literal" THEN Append(@, f.val) ELSE @]
Matched(h, len, dist) ==
  IF dist \notin 1..Len(h.past) THEN h ELSE [h EXCEPT !.past = Expand(@, len, dist)]

LenCode ==
  /\ mode = "LEN" /\ ~Fast /\ Take
  /\ mode' = CASE field.op = "literal" -> "LIT" [] field.op = "end" -> "TYPE"
               [] field.op = "length" -> "LENEXT" [] OTHER -> "BAD"
  /\ length' = field.val
  /\ extra' = field.extra
  /\ bits' = Rest(field.bits)
  /\ hist' = CodeSeen(field)
  /\ UNCHANGED <<last, offset, lens>> /\ Quiet

LenExt ==
  /\ mode = "LENEXT" /\ Take
  /\ mode' = "DIST"
  /\ length' = length + field.val
  /\ bits' = Rest(field.bits)
  /\ UNCHANGED <<last, offset, extra, lens, hist>> /\ Quiet

DistCode ==
  /\ mode = "DIST" /\ Take
  /\ mode' = IF field.op = "invalid" THEN "BAD" ELSE "DISTEXT"
  /\ offset' = field.val
  /\ extra' = field.extra
  /\ bits' = Rest(field.bits)
  /\ UNCHANGED <<last, length, lens, hist>> /\ Quiet

\* The distance that the window can serve: all of it once it was full.
Reach == WSize - (IF whave < WSize THEN left ELSE 0)

DistExt ==
  /\ mode = "DISTEXT" /\ Take
  /\ offset' = offset + field.val
  /\ mode' = IF offset' > Reach THEN "BAD" ELSE "MATCH"
  /\ bits' = Rest(field.bits)
  /\ hist' = Matched(hist, length, offset')
  /\ UNCHANGED <<last, length, extra, lens>> /\ Quiet

\* Copies n bytes within the window, from on, one after the other.
Within(from, n) ==
  FoldLeft(LAMBDA w, i : [w EXCEPT ![Put + i] = w[from + i]], window, [i \in 1..n |-> i - 1])

Match ==
  /\ Running /\ mode = "MATCH" /\ left > 0
  /\ LET ahead == WSize - offset
         wraps == ahead < left
         copy == Min({IF wraps THEN left - ahead ELSE left, length})
     IN /\ window' = Within(IF wraps THEN Put + ahead ELSE Put - offset, copy)
        /\ left' = left - copy
        /\ length' = length - copy
        /\ mode' = IF length = copy THEN "LEN" ELSE "MATCH"
  /\ UNCHANGED <<last, offset, extra, lens, bits, have, whave, fast, sane, ret, field, hist>>

Lit ==
  /\ Running /\ mode = "LIT" /\ left > 0
  /\ window' = PutBytes(<<length>>)
  /\ left' = left - 1
  /\ mode' = "LEN"
  /\ UNCHANGED <<last, length, offset, extra, lens, bits, have, whave, fast, sane, ret, field, hist>>

-----------------------------------------------------------------------------
(* inflate_fast, as inflateBack uses it: wnext is 0 and its output begins  *)
(* with the window.                                                        *)

WhaveAtFast == IF whave < WSize THEN WSize - left ELSE whave
EnterFast ==
  /\ Running /\ mode = "LEN" /\ Fast
  /\ fast' = "in"
  /\ whave' = WhaveAtFast
  /\ UNCHANGED <<state, bits, have, left, window, sane, ret, field, hist>>

Topped(b) == IF b < 15 THEN b + 16 ELSE b
WithExtra(b, n) == IF b >= n THEN b ELSE IF b + 8 >= n THEN b + 8 ELSE b + 16

\* do ... while (in < last && out < end): b bits are left, n were used.
FastGoes(b, n) ==
  /\ have' = have - ((b + n - bits) \div 8)
  /\ bits' = b
  /\ fast' = IF mode' = "LEN" /\ have' > 5 /\ left' > MaxMatch - 1 THEN "in" ELSE "end"
  /\ field' = None
  /\ UNCHANGED <<last, length, offset, extra, lens, whave, sane, ret>>

FastShort(c) ==
  /\ c.op # "length"
  /\ mode' = CASE c.op = "end" -> "TYPE" [] c.op = "invalid" -> "BAD" [] OTHER -> "LEN"
  /\ IF c.op = "literal" THEN window' = PutBytes(<<c.val>>) /\ left' = left - 1
                         ELSE UNCHANGED <<window, left>>
  /\ hist' = [CodeSeen(c) EXCEPT !.bad = @ \/ c.op = "invalid"]
  /\ FastGoes(Topped(bits) - c.bits, c.bits)

\* Bytes op back of the window's start are at its end.
FastBytes(len, dist) ==
  LET op == dist - Put
      byte(w, i) == IF i \in DOMAIN w THEN w[i] ELSE Garbage
  IN FoldLeft(LAMBDA w, i : [w EXCEPT ![Put + i] =
                               byte(w, IF i < op THEN WSize - op + i ELSE Put + i - dist)],
              window, [i \in 1..len |-> i - 1])

FastMatch(c, e, d, x) ==
  /\ c.op = "length"
  /\ LET len == c.val + e.val
         dist == d.val + x.val
         b2 == WithExtra(Topped(bits) - c.bits, e.bits) - e.bits
         b3 == Topped(b2) - d.bits
         xbits == IF d.op = "invalid" THEN 0 ELSE x.bits
         far == dist > Put /\ dist - Put > whave
         refused == d.op = "invalid" \/ (far /\ sane)
     IN /\ mode' = IF refused THEN "BAD" ELSE "LEN"
        /\ IF refused THEN UNCHANGED <<window, left>>
           ELSE window' = FastBytes(len, dist) /\ left' = left - len
        /\ FastGoes(WithExtra(b3, xbits) - xbits, c.bits + e.bits + d.bits + xbits)
        /\ hist' = [Matched(CodeSeen(c), len, dist) EXCEPT
                      !.bad = @ \/ d.op = "invalid" \/ TooFar(dist),
                      !.passed = @ \/ (~refused /\ TooFar(dist))]

FastCode ==
  /\ fast = "in"
  /\ \E c \in IF Chosen THEN {field} ELSE MoreCodes :
       \/ FastShort(c)
       \/ \E e \in LenExtra(c.extra), d \in DistCodes : \E x \in DistExtra(d.extra) : FastMatch(c, e, d, x)

\* Whole bytes of the accumulator go back to the input.
FastReturn ==
  /\ fast = "end"
  /\ fast' = "no"
  /\ have' = have + bits \div 8
  /\ bits' = bits % 8
  /\ UNCHANGED <<state, left, whave, window, sane, ret, field, hist>>

-----------------------------------------------------------------------------
\* The last block is over; what the window holds is handed over.
Done ==
  /\ Running /\ mode = "TYPE" /\ last
  /\ bits' = bits - (bits % 8)
  /\ mode' = "DONE"
  /\ hist' = [hist EXCEPT !.out = Written]
  /\ ret' \in IF left < WSize THEN {"STREAM_END", "BUF_ERROR"} ELSE {"STREAM_END"}
  /\ UNCHANGED <<last, length, offset, extra, lens, have, left, whave, window, fast, sane, field>>

DataError ==
  /\ Running /\ mode = "BAD"
  /\ ret' = "DATA_ERROR"
  /\ UNCHANGED <<state, bits, have, left, whave, window, fast, sane, field, hist>>

Init ==
  /\ mode = "TYPE" /\ last = FALSE /\ bits = 0 /\ length = 0 /\ offset = 0 /\ extra = 0 /\ lens = 0
  /\ have \in Chunks \cup {0}
  /\ left = WSize /\ whave = 0
  /\ window = [i \in 0..WSize - 1 |-> Garbage]
  /\ fast = "no" /\ sane \in BOOLEAN
  /\ ret = "none" /\ field = None
  /\ hist = [past |-> << >>, out |-> << >>, bad |-> FALSE, passed |-> FALSE, codes |-> 0, blocks |-> 0]

Next ==
  \/ Pull \/ Room \/ Read
  \/ Type \/ Stored \/ Copy \/ Table \/ CodeLens \/ BuildCodes
  \/ LenCode \/ LenExt \/ DistCode \/ DistExt \/ Match \/ Lit \/ EnterFast \/ FastCode \/ FastReturn
  \/ Done \/ DataError

Spec == Init /\ [][Next]_vars

-----------------------------------------------------------------------------
(* Properties.                                                             *)

\* inflate_fast() never reads beyond the input nor writes beyond the window.
InBounds == have \in Nat /\ left \in 0..WSize /\ bits \in Nat /\ whave <= WSize

\* For a stream without error, what comes out by way of the window is what
\* the stream stands for, however in() cuts it.
Faithful ==
  ~hist.bad => IF ret = "none" THEN IsPrefix(Written, hist.past)
               ELSE ret = "STREAM_END" => hist.out = hist.past

\* No stream is refused without reason, and none is cut short: success means
\* a stream without error, or one whose error the fast loop let pass.
NoFalseErrors ==
  /\ ret = "DATA_ERROR" => hist.bad
  /\ ret = "STREAM_END" /\ hist.bad => hist.passed

\* The comment on inflateBack: it returns "Z_DATA_ERROR for an deflate
\* format error".
FormatErrorsReported == ret = "STREAM_END" => ~hist.bad

=============================================================================

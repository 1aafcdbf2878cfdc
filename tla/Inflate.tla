------------------------------ MODULE Inflate -------------------------------
(***************************************************************************)
(* zlib's inflate(): the state machine that decodes a stream in pieces, as *)
(* the application hands it input and room for output in chunks of any     *)
(* size, with the sliding window that is all it keeps of earlier output.   *)
(*                                                                         *)
(* One action per mode of the machine.  A field of the stream (see         *)
(* DeflateFormat) is chosen when the machine comes to it; `bits' counts    *)
(* the bits in the accumulator, so that a byte is in it or still in the    *)
(* input exactly as in the code.  A check value is the sequence of bytes   *)
(* it was computed over, or the number of them for the gzip header.        *)
(***************************************************************************)
EXTENDS DeflateFormat, FiniteSets, TLC

CONSTANTS
  Wraps,        \* values of wrap: subsets of {1, 2, 4}, for zlib, gzip, check
  Dictionary,   \* a preset dictionary
  InChunks,     \* bytes the application adds to the input
  OutChunks,    \* room it gives
  Flushes,      \* subset of {"NO", "FINISH", "BLOCK", "TREES"}
  StoredLengths,\* lengths of stored blocks
  NumLens,      \* nlen + ndist, at least 258 in the code
  MaxCodes,     \* bound: literals and matches of a stream
  MaxBlocks,    \* bound: blocks of a stream
  MaxResets,    \* bound: calls of inflateReset
  MemoryFails   \* the window's allocation may fail

\* What the constants must be; the modules that instantiate this one assume it.
InflateAssumption ==
  /\ Wraps \subseteq SUBSET {1, 2, 4}
  /\ NumLens \in Nat /\ MaxCodes \in Nat /\ MaxBlocks \in Nat /\ MaxResets \in Nat

NoWindow == << >>

VARIABLES
  pc,           \* "app", "run" in the loop, "fast" in inflate_fast, "leave"
  avail_in, avail_out,
  uncounted,    \* total_in misses bytes that were taken from the input
  st,           \* the inflate_state
  call,         \* the call's flush, in, out and ret
  field,        \* the field that is next in the stream, if it is chosen
  hist          \* history: what the stream stands for, what was written, ...

vars == <<pc, avail_in, avail_out, uncounted, st, call, field, hist>>

-----------------------------------------------------------------------------
(* The bit accumulator.                                                    *)

Chosen == field.op # "none"

\* BYTEBITS, which comes before NEEDBITS in a stored block.
Aligned(n) == n - (n % 8)
Bits == IF st.mode = "STORED" THEN Aligned(st.bits) ELSE st.bits

\* The bytes that NEEDBITS(n) takes from the input.
Missing(n) == IF Bits >= n THEN 0 ELSE (n - Bits + 7) \div 8

\* What DROPBITS(n) leaves.
Rest(n) == Bits + 8 * Missing(n) - n

\* The field is all there: take it.
Take ==
  /\ pc = "run"
  /\ Chosen
  /\ Missing(field.bits) <= avail_in
  /\ avail_in' = avail_in - Missing(field.bits)
  /\ field' = None

\* goto inf_leave, or not.
Go(leave) == pc' = IF leave THEN "leave" ELSE "run"

\* The application has the result; the rest of the call is over.
Returned(ret) ==
  /\ pc' = "app"
  /\ call' = [flush |-> "NO", in |-> 0, out |-> 0, ret |-> ret]
  /\ avail_out' = 0
  /\ UNCHANGED <<avail_in, field, hist>>

Modes == {"HEAD", "FLAGS", "TIME", "OS", "EXLEN", "HCRC", "DICTID", "TYPE", "TYPEDO",
          "STORED", "TABLE", "LENLENS", "CODELENS", "LEN", "LENEXT", "DIST", "DISTEXT",
          "CHECK", "LENGTH"}

\* The code enters its fast loop with that much input and output, or more.
Fast == avail_in >= 6 /\ avail_out >= MaxMatch

\* Mutant: the bits are not saved when the call returns.
StarveLost ==
  /\ pc = "run" /\ st.mode \in Modes /\ (st.mode = "LEN" => ~Fast)
  /\ Chosen /\ Missing(field.bits) > avail_in
  /\ avail_in' = 0 /\ pc' = "leave"
  /\ UNCHANGED <<avail_out, uncounted, st, call, field, hist>>

\* PULLBYTE with no input: the bytes there were are in the accumulator.
Starve ==
  /\ pc = "run"
  /\ st.mode \in Modes
  /\ st.mode = "LEN" => ~Fast
  /\ Chosen
  /\ Missing(field.bits) > avail_in
  /\ avail_in' = 0
  /\ st' = [st EXCEPT !.bits = Bits + 8 * avail_in]
  /\ pc' = "leave"
  /\ UNCHANGED <<avail_out, uncounted, call, field, hist>>

-----------------------------------------------------------------------------
(* The stream.                                                             *)

F(op, bits) == [op |-> op, bits |-> bits, val |-> 0, extra |-> 0]
Checked(bits) == {F("right", bits), F("invalid", bits)}

\* A stream has at most MaxBlocks blocks and MaxCodes literals and matches.
Lasts == IF hist.blocks + 1 >= MaxBlocks THEN {TRUE} ELSE BOOLEAN
MoreCodes == IF hist.codes >= MaxCodes THEN {EndOfBlock} ELSE Codes

\* A symbol of the code length code: a length (0..15), a repeat of the last
\* length (16), or a run of zeros (17 and 18 differ in their counts only).
CodeLengths ==
  {[op |-> "len", bits |-> 3, val |-> 1, extra |-> 0],
   [op |-> "previous", bits |-> 7, val |-> 3, extra |-> 0],
   [op |-> "zeros", bits |-> 10, val |-> 3, extra |-> 0]}

\* What a gzip header may have, alone and together.
FlagSets == {{}, {"hcrc"}, {"name"}, {"extra", "comment"}, {"hcrc", "extra", "name", "comment"}}

Fields ==
  CASE st.mode = "HEAD" -> {F(op, 16) : op \in {"zlib", "zlibdict", "gzip", "invalid"}}
    [] st.mode = "FLAGS" -> {[op |-> "flags", bits |-> 16, val |-> fs, extra |-> 0] :
                               fs \in FlagSets} \cup {Invalid(16)}
    [] st.mode = "TIME" -> {F("time", 32)}
    [] st.mode = "OS" -> {F("os", 16)}
    [] st.mode = "EXLEN" -> {[op |-> "exlen", bits |-> 16, val |-> n, extra |-> 0] : n \in {0, 3}}
    [] st.mode \in {"NAME", "COMMENT"} -> {[op |-> "text", bits |-> 0, val |-> 2, extra |-> 0]}
    [] st.mode = "HCRC" -> Checked(16)
    [] st.mode = "DICTID" -> {F("dictid", 32)}
    [] st.mode \in {"TYPE", "TYPEDO"} -> BlockHeaders(Lasts)
    [] st.mode = "STORED" -> StoredSizes(StoredLengths)
    [] st.mode = "TABLE" -> {[op |-> "table", bits |-> 14, val |-> 2, extra |-> 0], Invalid(14)}
    [] st.mode = "LENLENS" -> {F("lenlen", 3)}
    [] st.mode = "CODELENS" -> CodeLengths
    [] st.mode = "LEN" -> MoreCodes
    [] st.mode = "LENEXT" -> LenExtra(st.extra)
    [] st.mode = "DIST" -> DistCodes
    [] st.mode = "DISTEXT" -> DistExtra(st.extra)
    [] st.mode \in {"CHECK", "LENGTH"} -> Checked(32)

\* A header the caller did not ask for is as wrong as one that fails its check.
Unwanted(f) ==
  st.mode = "HEAD" /\ (IF f.op = "gzip" THEN 2 \notin st.wrap ELSE 1 \notin st.wrap)

\* Whether the stream is in error from this field on.
Wrong(f) ==
  \/ f.op = "invalid"
  \/ Unwanted(f)
  \/ st.mode = "DISTEXT" /\ st.offset + f.val > Len(hist.past)
  \/ f.op = "previous" /\ st.have = 0
  \/ f.op \in {"previous", "zeros"} /\ st.have + f.val > NumLens
Unchecked == 4 \notin st.wrap /\ st.mode \in {"HCRC", "CHECK"}
Judged(f) ==
  IF Wrong(f) /\ ~Unchecked THEN "yes"
  ELSE IF st.mode = "DISTEXT" /\ st.offset + f.val > WSize THEN "maybe" ELSE hist.bad

\* Nothing is read from the stream where a mode needs no field.
NeedsField ==
  /\ st.mode \in Modes \cup {"NAME", "COMMENT"}
  /\ st.mode = "HEAD" => st.wrap # {}
  /\ st.mode = "TYPE" => call.flush \notin {"BLOCK", "TREES"}
  /\ st.mode \in {"TYPE", "TYPEDO"} => ~st.last
  /\ st.mode = "EXLEN" => "extra" \in st.flags
  /\ st.mode \in {"NAME", "COMMENT"} => (IF st.mode = "NAME" THEN "name" ELSE "comment") \in st.flags
  /\ st.mode = "HCRC" => "hcrc" \in st.flags
  /\ st.mode = "LEN" => ~Fast
  /\ st.mode = "LENLENS" => st.have < st.ncode
  /\ st.mode = "CODELENS" => st.have < NumLens
  /\ st.mode = "CHECK" => st.wrap # {}
  /\ st.mode = "LENGTH" => st.wrap # {} /\ st.gzip

Read ==
  /\ pc = "run"
  /\ ~Chosen
  /\ NeedsField
  /\ \E f \in Fields : field' = f /\ hist' = [hist EXCEPT !.bad = Judged(f)]
  /\ UNCHANGED <<pc, avail_in, avail_out, uncounted, st, call>>

-----------------------------------------------------------------------------
(* Headers.                                                                *)

\* A mode that takes a field and goes on, or finds it wrong.
Become(mode, upd) == st' = [upd EXCEPT !.mode = mode]
Bad == [st EXCEPT !.mode = "BAD", !.bits = Rest(field.bits)]
Idle == UNCHANGED <<avail_out, uncounted, call>>

\* Raw data have no header.
HeadRaw ==
  /\ pc = "run" /\ st.mode = "HEAD" /\ st.wrap = {}
  /\ Become("TYPEDO", st)
  /\ UNCHANGED <<pc, avail_in, field, hist>> /\ Idle

\* CRC2, CRC4 and crc32() over n bytes of a gzip header.
HeaderCheck(s, n) ==
  IF "hcrc" \in s.flags /\ 4 \in s.wrap THEN [s EXCEPT !.hcheck = @ + n] ELSE s
Counted(n) == hist' = [hist EXCEPT !.header = @ + n]

HeadMagic ==
  /\ st.mode = "HEAD" /\ st.wrap # {} /\ Take /\ Go(FALSE) /\ Idle
  /\ IF field.op = "gzip" /\ 2 \in st.wrap
     THEN Become("FLAGS", [st EXCEPT !.hcheck = 2, !.gzip = TRUE, !.bits = 0]) /\ Counted(2)
     ELSE /\ UNCHANGED hist
          /\ IF field.op \in {"gzip", "invalid"} \/ 1 \notin st.wrap
             THEN st' = [Bad EXCEPT !.gzip = FALSE]
             ELSE Become(IF field.op = "zlibdict" THEN "DICTID" ELSE "TYPE",
                         [st EXCEPT !.gzip = FALSE, !.check = << >>, !.bits = 0])

Flags ==
  /\ st.mode = "FLAGS" /\ Take /\ Go(FALSE) /\ Idle /\ Counted(2)
  /\ IF field.op = "invalid"
     THEN st' = Bad
     ELSE Become("TIME", HeaderCheck([st EXCEPT !.flags = field.val, !.bits = 0], 2))

TimeOrOs ==
  /\ st.mode \in {"TIME", "OS"} /\ Take /\ Go(FALSE) /\ Idle
  /\ Counted(field.bits \div 8)
  /\ Become(IF st.mode = "TIME" THEN "OS" ELSE "EXLEN",
            HeaderCheck([st EXCEPT !.bits = 0], field.bits \div 8))

ExLen ==
  /\ st.mode = "EXLEN" /\ Idle
  /\ IF "extra" \in st.flags
     THEN /\ Take /\ Go(FALSE) /\ Counted(2)
          /\ Become("EXTRA", HeaderCheck([st EXCEPT !.length = field.val, !.bits = 0], 2))
     ELSE /\ pc = "run"
          /\ Become("EXTRA", st)
          /\ UNCHANGED <<pc, avail_in, field, hist>>

\* The extra field is skipped as far as there is input.
ExtraField ==
  /\ pc = "run" /\ st.mode = "EXTRA" /\ Idle
  /\ LET copy == IF "extra" \in st.flags THEN Min({st.length, avail_in}) ELSE 0
         more == "extra" \in st.flags /\ st.length > copy
     IN /\ avail_in' = avail_in - copy
        /\ Counted(copy)
        /\ Go(more)
        /\ IF more
           THEN st' = HeaderCheck([st EXCEPT !.length = @ - copy], copy)
           ELSE Become("NAME", HeaderCheck([st EXCEPT !.length = 0], copy))
  /\ UNCHANGED field

\* Name and comment end with a zero; field.val bytes of it are to come.
Text(mode, flag, next) ==
  /\ pc = "run" /\ st.mode = mode /\ Idle
  /\ IF flag \notin st.flags
     THEN Become(next, [st EXCEPT !.length = 0]) /\ UNCHANGED <<pc, avail_in, field, hist>>
     ELSE /\ Chosen
          /\ LET copy == Min({field.val, avail_in})
                 more == copy < field.val
             IN /\ avail_in' = avail_in - copy
                /\ Counted(copy)
                /\ Go(more)
                /\ field' = IF more THEN [field EXCEPT !.val = @ - copy] ELSE None
                /\ st' = HeaderCheck([st EXCEPT !.mode = IF more THEN mode ELSE next,
                                                !.length = 0], copy)

HCrc ==
  /\ st.mode = "HCRC" /\ Idle
  /\ LET done == [st EXCEPT !.mode = "TYPE", !.check = << >>]
     IN IF "hcrc" \in st.flags
        THEN /\ Take /\ Go(FALSE)
             /\ st' = IF 4 \in st.wrap /\ (field.op = "invalid" \/ st.hcheck # hist.header)
                      THEN [st EXCEPT !.mode = "BAD"]
                      ELSE [done EXCEPT !.bits = 0]
        ELSE pc = "run" /\ st' = done /\ UNCHANGED <<pc, avail_in, field>>
  /\ UNCHANGED hist

DictId ==
  /\ st.mode = "DICTID" /\ Take /\ Go(FALSE) /\ Idle
  /\ Become("DICT", [st EXCEPT !.bits = 0])
  /\ UNCHANGED hist

\* Z_NEED_DICT is returned at once: what inf_leave does is not done.
Dict ==
  /\ pc = "run" /\ st.mode = "DICT"
  /\ \/ /\ st.havedict
        /\ Become("TYPE", [st EXCEPT !.check = << >>])
        /\ UNCHANGED <<pc, avail_in, field, hist>> /\ Idle
     \/ /\ ~st.havedict
        /\ Returned("NEED_DICT")
        /\ uncounted' = (uncounted \/ call.in # avail_in)
        /\ UNCHANGED st

-----------------------------------------------------------------------------
(* Blocks.                                                                 *)

\* TYPE leaves when the caller wants to see block boundaries.
AtBlock ==
  /\ pc = "run" /\ st.mode = "TYPE" /\ call.flush \in {"BLOCK", "TREES"}
  /\ pc' = "leave"
  /\ UNCHANGED <<avail_in, st, field, hist>> /\ Idle

Typing == st.mode \in {"TYPE", "TYPEDO"} /\ (st.mode = "TYPE" => call.flush \notin {"BLOCK", "TREES"})

LastDone ==
  /\ pc = "run" /\ Typing /\ st.last
  /\ Become("CHECK", [st EXCEPT !.bits = Aligned(@)])
  /\ UNCHANGED <<pc, avail_in, field, hist>> /\ Idle

Type ==
  /\ Typing /\ ~st.last /\ Take /\ Idle
  /\ Go(field.op = "fixed" /\ call.flush = "TREES")
  /\ LET s == [st EXCEPT !.last = field.val, !.bits = Rest(3)]
     IN st' = CASE field.op = "stored" -> [s EXCEPT !.mode = "STORED"]
                [] field.op = "fixed" -> [s EXCEPT !.mode = "LEN_", !.lencode = "fixed",
                                                   !.distcode = "fixed"]
                [] field.op = "dynamic" -> [s EXCEPT !.mode = "TABLE"]
                [] OTHER -> [s EXCEPT !.mode = "BAD"]
  /\ hist' = [hist EXCEPT !.blocks = @ + 1]

Stored ==
  /\ st.mode = "STORED" /\ Take /\ Idle
  /\ Go(field.op # "invalid" /\ call.flush = "TREES")
  /\ st' = IF field.op = "invalid" THEN Bad
           ELSE [st EXCEPT !.mode = "COPY_", !.length = field.val, !.bits = 0]
  /\ UNCHANGED hist

\* COPY_ and LEN_ are COPY and LEN, the first time in.
Enter ==
  /\ pc = "run" /\ st.mode \in {"COPY_", "LEN_"}
  /\ Become(IF st.mode = "COPY_" THEN "COPY" ELSE "LEN", st)
  /\ UNCHANGED <<pc, avail_in, field, hist>> /\ Idle

\* Output is written, and is what the stream stands for so far.
Wrote(bytes) == hist.written \o bytes

Copy ==
  /\ pc = "run" /\ st.mode = "COPY"
  /\ UNCHANGED <<uncounted, call, field>>
  /\ IF st.length = 0
     THEN Become("TYPE", st) /\ UNCHANGED <<pc, avail_in, avail_out, hist>>
     ELSE LET copy == Min({st.length, avail_in, avail_out})
          IN /\ Go(copy = 0)
             /\ avail_in' = avail_in - copy
             /\ avail_out' = avail_out - copy
             /\ st' = [st EXCEPT !.length = @ - copy]
             /\ \E b \in [1..copy -> Bytes] :
                  hist' = [hist EXCEPT !.past = @ \o b, !.written = Wrote(b)]

Table ==
  /\ st.mode = "TABLE" /\ Take /\ Go(FALSE) /\ Idle
  /\ st' = IF field.op = "invalid" THEN Bad
           ELSE [st EXCEPT !.mode = "LENLENS", !.ncode = field.val, !.have = 0, !.bits = Rest(14)]
  /\ UNCHANGED hist

LenLens ==
  /\ st.mode = "LENLENS" /\ st.have < st.ncode /\ Take /\ Go(FALSE) /\ Idle
  /\ st' = [st EXCEPT !.have = @ + 1, !.bits = Rest(3)]
  /\ UNCHANGED hist

\* inflate_table builds the tables in codes, or refuses the lengths.
Build(mode, s) ==
  /\ pc = "run" /\ Idle
  /\ \/ Become(mode, s) /\ Go(mode = "LEN_" /\ call.flush = "TREES") /\ UNCHANGED hist
     \/ st' = [s EXCEPT !.mode = "BAD"] /\ UNCHANGED pc /\ hist' = [hist EXCEPT !.bad = "yes"]
  /\ UNCHANGED <<avail_in, field>>

BuildLens ==
  /\ st.mode = "LENLENS" /\ st.have >= st.ncode
  /\ Build("CODELENS", [st EXCEPT !.have = 0, !.lencode = "own"])

CodeLens ==
  /\ st.mode = "CODELENS" /\ st.have < NumLens /\ Take /\ Go(FALSE) /\ Idle
  /\ LET n == IF field.op = "len" THEN 1 ELSE field.val
     IN st' = IF (field.op = "previous" /\ st.have = 0) \/ st.have + n > NumLens
              THEN Bad
              ELSE [st EXCEPT !.have = @ + n, !.bits = Rest(field.bits)]
  /\ UNCHANGED hist

BuildCodes ==
  /\ st.mode = "CODELENS" /\ st.have = NumLens
  /\ Build("LEN_", [st EXCEPT !.lencode = "own", !.distcode = "own"])

-----------------------------------------------------------------------------
(* Codes.                                                                  *)

\* What a code does to the stream's output, for the reference.
CodeSeen(f) ==
  [hist EXCEPT !.codes = @ + 1,
               !.past = IF f.op = "literal" THEN Append(@, f.val) ELSE @]

\* A literal or length code, when there is little input or little room.
LenCode ==
  /\ st.mode = "LEN" /\ ~Fast /\ Take /\ Go(FALSE) /\ Idle
  /\ LET s == [st EXCEPT !.bits = Rest(field.bits), !.length = field.val]
     IN st' = CASE field.op = "literal" -> [s EXCEPT !.mode = "LIT"]
                [] field.op = "end" -> [s EXCEPT !.mode = "TYPE"]
                [] field.op = "length" -> [s EXCEPT !.mode = "LENEXT", !.extra = field.extra]
                [] OTHER -> Bad
  /\ hist' = CodeSeen(field)

LenExt ==
  /\ st.mode = "LENEXT" /\ Take /\ Go(FALSE) /\ Idle
  /\ Become("DIST", [st EXCEPT !.length = @ + field.val, !.bits = Rest(field.bits)])
  /\ UNCHANGED hist

DistCode ==
  /\ st.mode = "DIST" /\ Take /\ Go(FALSE) /\ Idle
  /\ st' = IF field.op = "invalid" THEN Bad
           ELSE [st EXCEPT !.mode = "DISTEXT", !.offset = field.val, !.extra = field.extra,
                           !.bits = Rest(field.bits)]
  /\ UNCHANGED hist

DistExt ==
  /\ st.mode = "DISTEXT" /\ Take /\ Go(FALSE) /\ Idle
  /\ LET offset == st.offset + field.val
     IN /\ Become("MATCH", [st EXCEPT !.offset = offset, !.bits = Rest(field.bits)])
        /\ hist' = [hist EXCEPT !.past =
                      IF offset > Len(@) THEN @ ELSE Expand(@, st.length, offset)]

\* Bytes written by this call, the only output it can still read.
Produced == call.out - avail_out
InBuffer(o, distance) ==
  IF Len(o) - distance >= Len(hist.written) - Produced
  THEN o[Len(o) - distance + 1] ELSE Garbage

\* The output after n bytes are copied, byte i (from 0) being src(o, i).
CopyBytes(n, src(_, _)) ==
  FoldLeft(LAMBDA o, i : Append(o, src(o, i)), hist.written, [i \in 1..n |-> i - 1])

InWindow(i) == IF i \in DOMAIN st.window THEN st.window[i] ELSE Garbage

\* Copies what there is room for, and at most to the end of the window.
Match ==
  /\ pc = "run" /\ st.mode = "MATCH"
  /\ UNCHANGED <<avail_in, uncounted, call, field>>
  /\ LET back == st.offset - Produced
         from == IF back > st.wnext THEN st.wsize - (back - st.wnext) ELSE st.wnext - back
         span == IF back > st.wnext THEN back - st.wnext ELSE back
         copy == Min({IF back > 0 THEN Min({span, st.length}) ELSE st.length, avail_out})
     IN IF avail_out = 0
        THEN pc' = "leave" /\ UNCHANGED <<avail_out, st, hist>>
        ELSE /\ UNCHANGED pc
             /\ IF back > 0 /\ back > st.whave
                THEN Become("BAD", st) /\ UNCHANGED <<avail_out, hist>>
                ELSE /\ avail_out' = avail_out - copy
                     /\ st' = [st EXCEPT !.length = @ - copy,
                                         !.mode = IF st.length = copy THEN "LEN" ELSE "MATCH"]
                     /\ hist' = [hist EXCEPT !.written =
                          CopyBytes(copy, LAMBDA o, i : IF back > 0 THEN InWindow(from + i)
                                                        ELSE InBuffer(o, st.offset))]

Lit ==
  /\ pc = "run" /\ st.mode = "LIT"
  /\ IF avail_out = 0
     THEN pc' = "leave" /\ UNCHANGED <<avail_out, st, hist>>
     ELSE /\ Become("LEN", st)
          /\ avail_out' = avail_out - 1
          /\ hist' = [hist EXCEPT !.written = Append(@, st.length)]
          /\ UNCHANGED pc
  /\ UNCHANGED <<avail_in, uncounted, call, field>>

-----------------------------------------------------------------------------
(* inflate_fast: no checks of input and room within a code.                *)

EnterFast ==
  /\ pc = "run" /\ st.mode = "LEN" /\ Fast
  /\ pc' = "fast"
  /\ UNCHANGED <<avail_in, st, field, hist>> /\ Idle

\* Two bytes are pulled when a code may be longer than what is there.
Topped(b) == IF b < 15 THEN b + 16 ELSE b
WithExtra(b, n) == IF b >= n THEN b ELSE IF b + 8 >= n THEN b + 8 ELSE b + 16

\* Mutant: a match that wraps around the window is read on from its end.
FastByteStraight(o, i, op, dist) ==
  IF op <= 0 \/ i >= op THEN InBuffer(o, dist)
  ELSE InWindow(IF st.wnext < op THEN st.wsize + st.wnext - op + i ELSE st.wnext - op + i)

\* The window's bytes of a match, then those of the output: op of them are
\* before the output of this call, and the window may wrap.
FastByte(o, i, op, dist) ==
  CASE op <= 0 \/ i >= op -> InBuffer(o, dist)
    [] st.wnext = 0 -> InWindow(st.wsize - op + i)
    [] st.wnext # 0 /\ st.wnext < op ->
         IF i < op - st.wnext THEN InWindow(st.wsize + st.wnext - op + i)
                              ELSE InWindow(i - (op - st.wnext))
    [] OTHER -> InWindow(st.wnext - op + i)

\* do ... while (in < last && out < end): b bits are left, n were used.
FastGoes(s, b, n, out) ==
  /\ avail_in' = avail_in - ((b + n - st.bits) \div 8)
  /\ avail_out' = out
  /\ st' = [s EXCEPT !.bits = b]
  /\ pc' = IF s.mode = "LEN" /\ avail_in' > 5 /\ out > MaxMatch - 1 THEN "fast" ELSE "fastend"
  /\ field' = None

\* One turn of the loop on literal, end of block, or what is no code.
FastShort(c) ==
  /\ pc = "fast" /\ c.op # "length"
  /\ FastGoes([st EXCEPT !.mode = CASE c.op = "end" -> "TYPE" [] c.op = "invalid" -> "BAD"
                                    [] OTHER -> @],
              Topped(st.bits) - c.bits, c.bits,
              IF c.op = "literal" THEN avail_out - 1 ELSE avail_out)
  /\ hist' = [CodeSeen(c) EXCEPT
       !.written = IF c.op = "literal" THEN Append(@, c.val) ELSE @,
       !.bad = IF c.op = "invalid" THEN "yes" ELSE @]
  /\ UNCHANGED <<uncounted, call>>

\* One turn of the loop on a match.
FastMatch(c, e, d, x) ==
  /\ pc = "fast" /\ c.op = "length"
  /\ LET len == c.val + e.val
         dist == d.val + x.val
         b2 == WithExtra(Topped(st.bits) - c.bits, e.bits) - e.bits
         b3 == Topped(b2) - d.bits
         b4 == IF d.op = "invalid" THEN b3 ELSE WithExtra(b3, x.bits) - x.bits
         used == c.bits + e.bits + d.bits + (IF d.op = "invalid" THEN 0 ELSE x.bits)
         far == d.op = "invalid" \/ dist - Produced > st.whave
         wrong == d.op = "invalid" \/ dist > Len(hist.past)
     IN /\ FastGoes([st EXCEPT !.mode = IF far THEN "BAD" ELSE @], b4, used,
                    IF far THEN avail_out ELSE avail_out - len)
        /\ hist' = [CodeSeen(c) EXCEPT
             !.past = IF wrong THEN @ ELSE Expand(@, len, dist),
             !.written = IF far THEN @
                         ELSE CopyBytes(len, LAMBDA o, i : FastByte(o, i, dist - Produced, dist)),
             !.bad = IF wrong THEN "yes" ELSE IF dist > WSize THEN "maybe" ELSE @]
  /\ UNCHANGED <<uncounted, call>>

FastCode ==
  \E c \in IF ~Chosen THEN MoreCodes ELSE {field} :
    \/ FastShort(c)
    \/ \E e \in LenExtra(c.extra), d \in DistCodes : \E x \in DistExtra(d.extra) : FastMatch(c, e, d, x)

\* Whole bytes of the accumulator go back to the input.
FastReturn ==
  /\ pc = "fastend"
  /\ pc' = "run"
  /\ avail_in' = avail_in + st.bits \div 8
  /\ st' = [st EXCEPT !.bits = @ % 8]
  /\ UNCHANGED <<field, hist>> /\ Idle

-----------------------------------------------------------------------------
(* Trailer and return.                                                     *)

\* The output proper, without a dictionary.
Data(s) == SubSeq(s, hist.dict + 1, Len(s))

Check ==
  /\ st.mode = "CHECK" /\ UNCHANGED <<avail_out, uncounted, hist>>
  /\ IF st.wrap = {}
     THEN pc = "run" /\ Become("LENGTH", st) /\ UNCHANGED <<pc, avail_in, call, field>>
     ELSE /\ Take /\ Go(FALSE)
          /\ call' = [call EXCEPT !.out = avail_out]
          /\ LET check == IF 4 \in st.wrap THEN st.check \o Suffix(hist.written, Produced) ELSE st.check
                 s == [st EXCEPT !.total = @ + Produced, !.check = check]
             IN st' = IF 4 \in st.wrap /\ (field.op = "invalid" \/ check # Data(hist.past))
                      THEN [s EXCEPT !.mode = "BAD", !.bits = Rest(32) + 32]
                      ELSE [s EXCEPT !.mode = "LENGTH", !.bits = 0]

Length ==
  /\ st.mode = "LENGTH" /\ Idle /\ UNCHANGED hist
  /\ IF st.wrap # {} /\ st.gzip
     THEN /\ Take /\ Go(FALSE)
          /\ st' = IF field.op = "invalid" \/ st.total # Len(Data(hist.past))
                   THEN Bad ELSE [st EXCEPT !.mode = "DONE", !.bits = 0]
     ELSE pc = "run" /\ Become("DONE", st) /\ UNCHANGED <<pc, avail_in, field>>

Final ==
  /\ pc = "run" /\ st.mode \in {"DONE", "BAD"}
  /\ pc' = "leave"
  /\ call' = [call EXCEPT !.ret = IF st.mode = "DONE" THEN "STREAM_END" ELSE "DATA_ERROR"]
  /\ UNCHANGED <<avail_in, avail_out, uncounted, st, field, hist>>

\* updatewindow: the ring gets the bytes, or the last wsize of them.
UpdateWindow(s, bytes) ==
  LET init == IF s.wsize = 0 THEN [s EXCEPT !.wsize = WSize, !.wnext = 0, !.whave = 0] ELSE s
      w == IF s.window = NoWindow THEN [i \in 0..WSize - 1 |-> Garbage] ELSE s.window
      copy == Len(bytes)
      dist == Min({init.wsize - init.wnext, copy})
      over == copy - dist
  IN IF copy >= init.wsize
     THEN [init EXCEPT !.window = [i \in DOMAIN w |-> bytes[copy - init.wsize + i + 1]],
                       !.wnext = 0, !.whave = init.wsize]
     ELSE [init EXCEPT
            !.window = [i \in DOMAIN w |->
                          IF i < over THEN bytes[dist + i + 1]
                          ELSE IF i \in init.wnext..init.wnext + dist - 1
                               THEN bytes[i - init.wnext + 1] ELSE w[i]],
            !.wnext = IF over > 0 THEN over ELSE (@ + dist) % init.wsize,
            !.whave = IF over > 0 THEN init.wsize ELSE Min({@ + dist, init.wsize})]

\* Mutant: only output that fills the window is kept.
KeepsIfFull == Produced >= WSize

\* Whether the call keeps its output in the window.
KeepsWindow ==
  \/ st.wsize # 0
  \/ /\ Produced > 0
     /\ st.mode # "BAD"
     /\ st.mode \notin {"CHECK", "LENGTH", "DONE"} \/ call.flush # "FINISH"

Leave ==
  /\ pc = "leave"
  /\ LET bytes == Suffix(hist.written, Produced)
         s == IF KeepsWindow THEN UpdateWindow(st, bytes) ELSE st
         idle == call.in = avail_in /\ Produced = 0
     IN /\ st' = [s EXCEPT !.total = @ + Produced,
                           !.check = IF 4 \in st.wrap THEN @ \o bytes ELSE @]
        /\ Returned(IF (idle \/ call.flush = "FINISH") /\ call.ret = "OK" THEN "BUF_ERROR"
                    ELSE call.ret)
  /\ UNCHANGED uncounted

LeaveNoMemory ==
  /\ MemoryFails
  /\ pc = "leave" /\ KeepsWindow /\ st.window = NoWindow
  /\ st' = [st EXCEPT !.mode = "MEM"]
  /\ Returned("MEM_ERROR")
  /\ uncounted' = (uncounted \/ call.in # avail_in)

\* MEM is returned at once.
OutOfMemory ==
  /\ pc = "run" /\ st.mode = "MEM"
  /\ Returned("MEM_ERROR")
  /\ UNCHANGED <<st, uncounted>>

-----------------------------------------------------------------------------
(* The application.                                                        *)

\* inflate(strm, flush), with more input and a new buffer.
Call(i, o, f) ==
  /\ pc = "app"
  /\ pc' = "run"
  /\ avail_in' = avail_in + i
  /\ avail_out' = o
  /\ st' = IF st.mode = "TYPE" THEN [st EXCEPT !.mode = "TYPEDO"] ELSE st
  /\ call' = [flush |-> f, in |-> avail_in + i, out |-> o, ret |-> "OK"]
  /\ UNCHANGED <<uncounted, field, hist>>

\* inflateResetKeep's fields, and those of inflateReset.
ResetKeep(s) ==
  [s EXCEPT !.mode = "HEAD", !.last = FALSE, !.havedict = FALSE, !.total = 0, !.bits = 0,
            !.lencode = "own", !.distcode = "own"]
Reset(s) == ResetKeep([s EXCEPT !.wsize = 0, !.whave = 0, !.wnext = 0])

\* inflateReset2: another wrap; the window is freed if its size changes, and
\* kept as it is otherwise.
InflateReset(w) ==
  /\ pc = "app" /\ hist.resets < MaxResets
  /\ \E window \in {NoWindow, st.window} : st' = Reset([st EXCEPT !.wrap = w, !.window = window])
  /\ uncounted' = FALSE
  /\ field' = None
  /\ hist' = [hist EXCEPT !.resets = @ + 1, !.past = << >>, !.written = << >>, !.bad = "no",
                          !.codes = 0, !.blocks = 0, !.dict = 0, !.header = 0]
  /\ UNCHANGED <<pc, avail_in, avail_out, call>>

\* inflateSetDictionary, when asked for it or before raw data.
SetDictionary ==
  /\ pc = "app" /\ ~st.havedict /\ Dictionary # << >>
  /\ IF st.wrap # {} THEN st.mode = "DICT" ELSE st.mode = "HEAD"
  /\ st' = [UpdateWindow(st, Dictionary) EXCEPT !.havedict = TRUE]
  /\ hist' = [hist EXCEPT !.past = Dictionary, !.written = Dictionary, !.dict = Len(Dictionary)]
  /\ UNCHANGED <<pc, avail_in, avail_out, uncounted, call, field>>

\* inflateValidate, before the stream.
Validate(on) ==
  /\ pc = "app" /\ st.mode = "HEAD" /\ st.bits = 0 /\ st.wrap # {}
  /\ st' = [st EXCEPT !.wrap = IF on THEN @ \cup {4} ELSE @ \ {4}]
  /\ UNCHANGED <<pc, avail_in, avail_out, uncounted, call, field, hist>>

\* A copy's tables: pointers into codes become pointers into its own, if
\* lencode is one.  "wild" is a pointer nobody may follow.
Rebased(s) ==
  IF s.lencode = "own"
  THEN [s EXCEPT !.distcode = IF @ = "own" THEN "own" ELSE "wild"]
  ELSE [s EXCEPT !.distcode = IF @ = "own" THEN "wild" ELSE @]

\* inflateCopy, after which the source ends and the copy goes on.
InflateCopy ==
  /\ pc = "app"
  /\ st' = Rebased(st)
  /\ UNCHANGED <<pc, avail_in, avail_out, uncounted, call, field, hist>>

-----------------------------------------------------------------------------
Init ==
  /\ pc = "app" /\ avail_in = 0 /\ avail_out = 0 /\ uncounted = FALSE
  /\ \E w \in Wraps :
       st = [mode |-> "HEAD", last |-> FALSE, wrap |-> w, gzip |-> FALSE, flags |-> {},
             havedict |-> FALSE, check |-> << >>, hcheck |-> 0, total |-> 0, window |-> NoWindow,
             wsize |-> 0, whave |-> 0, wnext |-> 0, bits |-> 0, length |-> 0, offset |-> 0,
             extra |-> 0, have |-> 0, ncode |-> 0, lencode |-> "own", distcode |-> "own"]
  /\ call = [flush |-> "NO", in |-> 0, out |-> 0, ret |-> "OK"]
  /\ field = None
  /\ hist = [past |-> << >>, written |-> << >>, bad |-> "no", codes |-> 0, blocks |-> 0,
             dict |-> 0, header |-> 0, resets |-> 0]

Header == HeadRaw \/ HeadMagic \/ Flags \/ TimeOrOs \/ ExLen \/ ExtraField
          \/ Text("NAME", "name", "COMMENT") \/ Text("COMMENT", "comment", "HCRC")
          \/ HCrc \/ DictId \/ Dict
Block == AtBlock \/ LastDone \/ Type \/ Stored \/ Enter \/ Copy \/ Table \/ LenLens \/ BuildLens
         \/ CodeLens \/ BuildCodes
Code == LenCode \/ LenExt \/ DistCode \/ DistExt \/ Match \/ Lit \/ EnterFast \/ FastCode \/ FastReturn
Return == Check \/ Length \/ Final \/ Leave \/ LeaveNoMemory \/ OutOfMemory
Step == Read \/ Starve \/ Header \/ Block \/ Code \/ Return
Calls == \E i \in IF avail_in = 0 THEN InChunks ELSE {0}, o \in OutChunks, f \in Flushes : Call(i, o, f)
App ==
  \/ Calls
  \/ \E w \in Wraps : InflateReset(w)
  \/ \E on \in BOOLEAN : Validate(on)
  \/ SetDictionary \/ InflateCopy

Next == Step \/ App
Spec == Init /\ [][Next]_vars

-----------------------------------------------------------------------------
(* Properties.                                                             *)

\* Every variable has its type, from the modes of inflate() to the fields of the stream.
TypeOK ==
  /\ pc \in {"app", "run", "fast", "fastend", "leave"}
  /\ avail_in \in Nat /\ avail_out \in Nat /\ st.bits \in Nat
  /\ st.length \in Nat \cup Bytes
  /\ st.whave <= st.wsize /\ (st.wsize > 0 => st.wnext < st.wsize)

\* What is written is what the stream stands for, however it was cut into
\* calls: nothing is missing but the literal or match at hand.
Faithful ==
  /\ IsPrefix(hist.written, hist.past)
  /\ st.mode \notin {"LIT", "MATCH", "BAD", "MEM"} => hist.written = hist.past

\* Until the last block is over, the window's ring holds the last whave
\* bytes whenever a call is over.
WindowIsHistory ==
  pc = "app" /\ st.mode \notin {"LENGTH", "DONE", "BAD", "MEM"} /\ st.whave > 0 =>
    \A i \in 1..st.whave :
      st.window[(st.wnext - i + st.wsize) % st.wsize] = hist.written[Len(hist.written) - i + 1]

\* A data error is returned exactly for a stream that is wrong, whatever
\* the chunks; only a distance beyond the window's size depends on them.
ErrorsExact ==
  pc = "app" =>
    /\ st.mode = "BAD" => hist.bad # "no"
    /\ hist.bad = "yes" /\ ~Chosen => st.mode \in {"BAD", "MATCH", "MEM"}

\* inflate() returns to the application only when it has no input or no
\* room left, or something to tell.
ReturnsWhenStuck ==
  pc = "leave" /\ call.ret = "OK" /\ call.flush \in {"NO", "FINISH"} => avail_in = 0 \/ avail_out = 0

\* Between fields less than a byte is in the accumulator: inflate_fast may
\* give back whole bytes, and at the end the input is used to the byte.
InputExact ==
  pc \in {"run", "leave"} /\ ~Chosen /\ st.mode # "BAD" => st.bits < 8

\* The tables that codes are looked up in exist.
TablesExist ==
  /\ st.mode \in {"LEN_", "LEN"} => st.lencode \in {"own", "fixed"}
  /\ st.mode \in {"LEN", "DIST"} => st.distcode \in {"own", "fixed"}

\* The stream has come to its end or to its error.
Ended == st.mode \in {"DONE", "BAD"}

\* zlib.h calls total_in the "total number of input bytes read so far".
TotalInExact == pc = "app" => ~uncounted

=============================================================================

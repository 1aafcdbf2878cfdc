---------------------------- MODULE DeflateWindow ----------------------------
(***************************************************************************)
(* How deflate() (zlib/deflate.c) turns its input into literals, matches   *)
(* and stored blocks: the sliding window of two halves of WSize bytes, the *)
(* hash chains, the five functions that look for matches (deflate_stored,  *)
(* _fast, _slow, _rle, _huff), and the calls that change the window or the *)
(* function in the middle of a stream: deflateParams, deflateSetDictionary *)
(* and a full flush.  One step is one round of a function's loop.          *)
(*                                                                         *)
(* What leaves is modelled by what a decoder makes of it: decoded is the   *)
(* decoder's output.  How many bytes a compressed block takes is not       *)
(* known here, so a flushed block leaves room or takes it all.             *)
(*                                                                         *)
(* The lengths are scaled down together; MIN_MATCH is that of the code.    *)
(* A byte is a bit and the hash keeps the last two bytes of three, as the  *)
(* smallest hash of the code loses the upper bits of the first.            *)
(***************************************************************************)
EXTENDS Integers, Sequences, FiniteSets, SequencesExt, FiniteSetsExt

CONSTANTS WSize,        \* s->w_size
          MAX_MATCH,
          LitBufSize,   \* s->lit_bufsize: symbols in a block
          PendingSize,  \* s->pending_buf_size
          MAX_STORED,   \* bytes in a stored block
          HeaderLen,    \* bytes of a stored block's header
          Good, Lazy, Nice, Chain,   \* configuration_table[level]
          TooFar,       \* TOO_FAR
          Inputs,       \* the data to choose from
          Chunks,       \* how many bytes a call may bring
          Flushes,      \* the values of flush, FINISH apart
          Rooms,        \* avail_out of a call
          Funcs,        \* the functions to begin with and to switch to
          Dicts,        \* the dictionaries to choose from
          MaxSwitch     \* bound on deflateParams() and deflateSetDictionary()

MIN_MATCH == 3
MIN_LOOKAHEAD == MAX_MATCH + MIN_MATCH + 1
MAX_DIST == WSize - MIN_LOOKAHEAD
WinSize == 2 * WSize
NIL == 0
Unwritten == 9          \* a byte of the window nobody has written yet
HashSize == 4

\* What the constants must be; the modules that instantiate this one assume it.
SizesFit == MAX_MATCH > MIN_MATCH /\ MAX_DIST > 0 /\ Good > 0

VARIABLES input,    \* the data the application still has
          strm,     \* in: the bytes at next_in, and avail_out
          s,        \* the deflate_state
          call,     \* the call of deflate() that runs, or what the last one did: its
                    \* flush (none, flushed, ended, or one to call again with),
                    \* and the function deflateParams() switches to after it
          used,     \* what deflate_stored() has read in its loop, -1 outside of it
          truth,    \* dictionaries and data read so far: what must come out
          decoded,  \* what a decoder has of it
          closed,   \* how much of that was in blocks that are flushed
          asked,    \* the prev_length longest_match() was last called with
          junk,     \* whether it had an unwritten byte in its reach
          switches  \* calls of deflateParams() and deflateSetDictionary()

vars == <<input, strm, s, call, used, truth, decoded, closed, asked, junk, switches>>

-----------------------------------------------------------------------------
(* The hash chains.                                                        *)

UPDATE_HASH(h, c) == (2 * h + c) % HashSize

\* A byte of the window, or of the memory around it, which holds any three
\* bytes, over and over.
ByteAt(st, pos) == IF pos \in DOMAIN st.window THEN st.window[pos] ELSE st.stray[pos % 3]
Strays == [0 .. 2 -> {0, 1}]
Unread == [n \in 0 .. 2 |-> 0]

CLEAR_HASH(st) == [st EXCEPT !.head = [h \in DOMAIN @ |-> NIL]]

\* The string at pos goes to the head of its chain.  A Pos has the 16 bits of
\* twice the largest window.
INSERT_STRING(st, pos) ==
    LET h == UPDATE_HASH(st.ins_h, ByteAt(st, pos + MIN_MATCH - 1))
    IN  [st EXCEPT !.ins_h = h,
                   !.prev[pos % WSize] = st.head[h],
                   !.head[h] = pos % WinSize]

RECURSIVE InsertAll(_, _, _)
InsertAll(st, from, to) ==
    IF from > to THEN st ELSE InsertAll(INSERT_STRING(st, from), from + 1, to)

Slid(n) == IF n >= WSize THEN n - WSize ELSE NIL


slide_hash(st) ==
    [st EXCEPT !.head = [h \in DOMAIN @ |-> Slid(@[h])],
               !.prev = [n \in DOMAIN @ |-> Slid(@[n])]]

\* lm_init(): the state after deflateInit() and deflateReset().
lm_init(func) ==
    [func |-> func,
     window |-> [n \in 0 .. WinSize - 1 |-> Unwritten],
     head |-> [h \in 0 .. HashSize - 1 |-> NIL],
     prev |-> [n \in 0 .. WSize - 1 |-> NIL],
     strstart |-> 0, block_start |-> 0, lookahead |-> 0, insert |-> 0, ins_h |-> 0,
     match_length |-> MIN_MATCH - 1, prev_length |-> MIN_MATCH - 1,
     match_start |-> 0, match_available |-> FALSE,
     high_water |-> 0, matches |-> 0, last_lit |-> 0, stray |-> Unread, wild |-> FALSE]

-----------------------------------------------------------------------------
(* The window.  The operators take and return what they change: the state  *)
(* st, and the bytes in that are still to be read.                         *)

Put(window, at, bytes) ==
    [n \in DOMAIN window |-> IF n \in at .. at + Len(bytes) - 1 THEN bytes[n - at + 1] ELSE window[n]]

\* zmemcpy(window, window + WSize, len)
CopyDown(window, len) ==
    [n \in DOMAIN window |-> IF n < len THEN window[n + WSize] ELSE window[n]]

\* The window is almost full: the upper half moves to the lower one.
SlideWindow(st) ==
    LET more == WinSize - st.lookahead - st.strstart
    IN  slide_hash([st EXCEPT !.window = CopyDown(@, WSize - more),
                              !.match_start = @ - WSize,
                              !.strstart = @ - WSize,
                              !.block_start = @ - WSize])

\* The strings that lacked a byte so far are inserted.
RECURSIVE CatchUp(_)
CatchUp(st) ==
    IF st.insert = 0 \/ st.lookahead + st.insert < MIN_MATCH THEN st
    ELSE CatchUp([INSERT_STRING(st, st.strstart - st.insert) EXCEPT !.insert = @ - 1])

\* They lie below strstart.  With more of them than that, str is no position in
\* the window: the program ends there (an offset of nearly 2^32, where addresses
\* are longer) or takes the bytes in front of the window into the hash.
StartHash(st) ==
    LET str == st.strstart - st.insert
    IN  IF st.lookahead + st.insert < MIN_MATCH THEN st
        ELSE CatchUp([st EXCEPT !.ins_h = UPDATE_HASH(ByteAt(st, str), ByteAt(st, str + 1)),
                                !.wild = @ \/ str < 0])

\* The MAX_MATCH bytes behind the data have a value, once they are written.
ZeroAhead(st) ==
    LET curr == st.strstart + st.lookahead
        from == Max({curr, st.high_water})
        to   == Min({curr + MAX_MATCH, WinSize})
    IN  IF st.high_water < WinSize /\ st.high_water < curr + MAX_MATCH
        THEN [st EXCEPT !.window = Put(@, from, [n \in 1 .. to - from |-> 0]), !.high_water = to]
        ELSE st

MustSlide(st) == st.strstart >= WSize + MAX_DIST

RECURSIVE Refill(_, _)
RefillMore(st, in) ==
    IF st.lookahead < MIN_LOOKAHEAD /\ in # <<>> THEN Refill(st, in) ELSE [st |-> st, in |-> in]

ReadInput(st, in) ==
    LET n == Min({Len(in), WinSize - st.lookahead - st.strstart})
        t == [st EXCEPT !.window = Put(@, st.strstart + st.lookahead, SubSeq(in, 1, n)),
                        !.lookahead = @ + n]
    IN  IF in = <<>> THEN [st |-> st, in |-> in]
        ELSE RefillMore(StartHash(t), SubSeq(in, n + 1, Len(in)))

Refill(st, in) == ReadInput(IF MustSlide(st) THEN SlideWindow(st) ELSE st, in)

fill_window(st, in) == [Refill(st, in) EXCEPT !.st = ZeroAhead(@)]

\* It, whatever the memory around the window holds.  Only deflate_stored() leaves
\* so many strings that some may lie there.
Fills(st, in) ==
    {[r EXCEPT !.st.stray = IF r.st.wild THEN @ ELSE Unread] :
       r \in {fill_window([st EXCEPT !.stray = b], in) :
                b \in IF st.wild \/ st.insert >= MIN_MATCH THEN Strays ELSE {Unread}}}

-----------------------------------------------------------------------------
(* The longest match.                                                      *)

Limit(st) == IF st.strstart > MAX_DIST THEN st.strstart - MAX_DIST ELSE NIL

\* How far the strings at the scan and at cur agree, given that their first
\* three bytes do.
AgreeLen(st, cur) ==
    Min({MAX_MATCH} \cup {n \in 3 .. MAX_MATCH - 1 : ByteAt(st, cur + n) # st.window[st.strstart + n]})

\* The cheap tests: the last two bytes of a better match, and the first two.
\* The third is the same because the hash is.
Promising(st, cur, best) ==
    \A n \in {best, best - 1, 0, 1} : ByteAt(st, cur + n) = st.window[st.strstart + n]

\* Along the chain from cur, as long as it is near enough and not too long.
RECURSIVE Search(_, _, _, _)
SearchOn(st, cur, m, better, chain) ==
    LET next == st.prev[cur % WSize]
    IN  IF better # m /\ better.len >= Min({Nice, st.lookahead}) THEN better
        ELSE IF next > Limit(st) /\ chain > 1 THEN Search(st, next, better, chain - 1)
        ELSE better

Better(st, cur, m) ==
    LET len == AgreeLen(st, cur)
    IN  IF Promising(st, cur, m.len) /\ len > m.len THEN [len |-> len, start |-> cur] ELSE m

Search(st, cur, m, chain) == SearchOn(st, cur, m, Better(st, cur, m), chain)

Longest(st, m) == [st EXCEPT !.match_length = Min({m.len, st.lookahead}), !.match_start = m.start]

longest_match(st, hash_head) ==
    LET chain == IF st.prev_length >= Good THEN Chain \div 4 ELSE Chain
    IN  Longest(st, Search(st, hash_head, [len |-> st.prev_length, start |-> st.match_start], chain))

\* The scan goes up to MAX_MATCH bytes ahead, whatever the lookahead.
ScansUnwritten(st) == st.window[Min({WinSize - 1, st.strstart + MAX_MATCH})] = Unwritten

-----------------------------------------------------------------------------
(* Output.                                                                 *)

\* What a decoder makes of a match: byte by byte, so that it may overlap.
RECURSIVE CopyMatch(_, _, _)
CopyMatch(hist, dist, len) ==
    IF len = 0 THEN hist
    ELSE CopyMatch(Append(hist, IF dist \in 1 .. Len(hist) THEN hist[Len(hist) - dist + 1] ELSE Unwritten),
                   dist, len - 1)

\* _tr_tally: one more symbol, and whether it fills the block.
Tally(st) == [st EXCEPT !.last_lit = @ + 1]
Filled(st) == st.last_lit = LitBufSize - 1

\* FLUSH_BLOCK_ONLY: the block goes out.
FlushBlock(st) == [st EXCEPT !.block_start = st.strstart, !.last_lit = 0]

\* A step that leaves st, the decoder with out, and goes on or returns.
Goes(st, in, out, room, to) ==
    /\ s' = st /\ decoded' = out /\ call' = to
    /\ closed' = IF st.last_lit = 0 THEN Len(out) ELSE closed
    /\ truth' = truth \o SubSeq(strm.in, 1, Len(strm.in) - Len(in))
    /\ strm' = [strm EXCEPT !.in = in, !.avail_out = room]
    /\ UNCHANGED <<input, used, switches>>

Returned(flush) == [call EXCEPT !.flush = flush, !.busy = FALSE]

\* FLUSH_BLOCK(s, 0): nothing more can be done without room.
FlushGoes(st, in, out) ==
    \E room \in {0, strm.avail_out} :
        Goes(FlushBlock(st), in, out, room, IF room = 0 THEN Returned(call.flush) ELSE call)

Emit(st, in, out) == IF Filled(st) THEN FlushGoes(st, in, out) ELSE Goes(st, in, out, strm.avail_out, call)

Seen(st, looked) ==
    /\ asked' = IF looked THEN st.prev_length ELSE asked
    /\ junk' = (junk \/ (looked /\ ScansUnwritten(st)))

\* After a full flush the history is forgotten.
Forget(st) ==
    LET t == CLEAR_HASH(st)
    IN  IF st.lookahead = 0 THEN [t EXCEPT !.strstart = 0, !.block_start = 0, !.insert = 0] ELSE t

\* The data has ended and the flush asks for all of it: what is open goes out.
\* The tail of deflate() is part of this step.
Finish(st, in, out, insert) ==
    LET t == [st EXCEPT !.insert = insert]
        open == t.last_lit > 0 \/ call.flush = "FINISH"
    IN  \E room \in IF open THEN {0, strm.avail_out} ELSE {strm.avail_out} :
          LET f == IF open THEN FlushBlock(t) ELSE t
              to == CASE call.flush = "FINISH" -> "ended"
                      [] room = 0 -> call.flush
                      [] OTHER -> "flushed"
          IN  Goes(IF call.flush = "FULL_FLUSH" /\ to = "flushed" THEN Forget(f) ELSE f,
                   in, out, room, Returned(to))

NeedMore(st, in) == Goes(st, in, decoded, strm.avail_out, Returned("none"))

Running(func) == call.busy /\ s.func = func

\* The window is filled up where the lookahead is below the one needed.
Filled_(need) ==
    IF s.lookahead < need THEN Fills(s, strm.in) ELSE {[st |-> s, in |-> strm.in]}

Starved(st, need) == st.lookahead < need /\ call.flush = "NO_FLUSH"

\* INSERT_STRING where there are bytes enough, and the head of its chain.
Insert(st) == IF st.lookahead >= MIN_MATCH THEN INSERT_STRING(st, st.strstart) ELSE st

HashHead(st) ==
    IF st.lookahead < MIN_MATCH THEN NIL
    ELSE st.head[UPDATE_HASH(st.ins_h, st.window[st.strstart + MIN_MATCH - 1])]

\* The difference is unsigned.
Near(st, hash_head) == hash_head # NIL /\ st.strstart - hash_head \in 0 .. MAX_DIST

InsertTail(st) == Min({st.strstart, MIN_MATCH - 1})

-----------------------------------------------------------------------------
\* deflate_fast(): the longest match at once.
FastMatch(st, in) ==
    LET len  == st.match_length
        left == [Tally(st) EXCEPT !.lookahead = @ - len]
        next == st.strstart + len
    IN  Emit(IF len <= Lazy /\ left.lookahead >= MIN_MATCH
             THEN [InsertAll(left, st.strstart + 1, next - 1) EXCEPT !.strstart = next, !.match_length = 0]
             ELSE [left EXCEPT !.strstart = next, !.match_length = 0,
                               !.ins_h = UPDATE_HASH(st.window[next], st.window[next + 1])],
             in, CopyMatch(decoded, st.strstart - st.match_start, len))

Literal(st, in) ==
    Emit([Tally(st) EXCEPT !.lookahead = @ - 1, !.strstart = @ + 1], in,
         Append(decoded, st.window[st.strstart]))

FastOut(m, in) == IF m.match_length >= MIN_MATCH THEN FastMatch(m, in) ELSE Literal(m, in)

FastAt(st, head, in) ==
    /\ Seen(st, Near(st, head))
    /\ FastOut(IF Near(st, head) THEN longest_match(st, head) ELSE st, in)

FastRound(st, in) ==
    CASE Starved(st, MIN_LOOKAHEAD) -> NeedMore(st, in) /\ Seen(st, FALSE)
      [] st.lookahead = 0 -> Finish(st, in, decoded, InsertTail(st)) /\ Seen(st, FALSE)
      [] OTHER -> FastAt(Insert(st), HashHead(st), in)

deflate_fast == Running("fast") /\ \E r \in Filled_(MIN_LOOKAHEAD) : FastRound(r.st, r.in)

-----------------------------------------------------------------------------
(* deflate_slow(): a match is taken if there is no better one a byte on.   *)

Dropped(m) ==
    m.match_length <= 5 /\ m.match_length = MIN_MATCH /\ m.strstart - m.match_start > TooFar

Kept(m) == IF Dropped(m) THEN [m EXCEPT !.match_length = MIN_MATCH - 1] ELSE m

SlowSearch(st, head) ==
    LET t == [st EXCEPT !.prev_length = st.match_length, !.match_length = MIN_MATCH - 1]
    IN  IF Near(t, head) /\ t.prev_length < Lazy THEN Kept(longest_match(t, head)) ELSE t

\* The match at strstart - 1 is put out, and its strings are inserted.
SlowMatch(m, prev_match, in) ==
    LET max_insert == m.strstart + m.lookahead - MIN_MATCH
        next == m.strstart + m.prev_length - 1
        t == InsertAll([Tally(m) EXCEPT !.lookahead = @ - (m.prev_length - 1)],
                       m.strstart + 1, Min({next - 1, max_insert}))
    IN  Emit([t EXCEPT !.strstart = next, !.prev_length = 0, !.match_available = FALSE,
                       !.match_length = MIN_MATCH - 1],
             in, CopyMatch(decoded, m.strstart - 1 - prev_match, m.prev_length))

\* The byte before strstart is put out as a literal; the room is looked at even
\* if no block was flushed.
SlowLiteral(m, in) ==
    LET t == Tally(m)
        out == Append(decoded, m.window[m.strstart - 1])
        on(u) == [u EXCEPT !.strstart = @ + 1, !.lookahead = @ - 1]
    IN  IF Filled(t)
        THEN \E room \in {0, strm.avail_out} :
               Goes(on(FlushBlock(t)), in, out, room, IF room = 0 THEN Returned(call.flush) ELSE call)
        ELSE Goes(on(t), in, out, strm.avail_out, call)

SlowOut(m, prev_match, in) ==
    IF m.prev_length >= MIN_MATCH /\ m.match_length <= m.prev_length THEN SlowMatch(m, prev_match, in)
    ELSE IF m.match_available THEN SlowLiteral(m, in)
    ELSE Goes([m EXCEPT !.match_available = TRUE, !.strstart = @ + 1, !.lookahead = @ - 1],
              in, decoded, strm.avail_out, call)

SlowAt(st, head, in) ==
    /\ Seen([st EXCEPT !.prev_length = st.match_length], Near(st, head) /\ st.match_length < Lazy)
    /\ SlowOut(SlowSearch(st, head), st.match_start, in)

\* At the end the byte that waited for a better match goes out.
SlowFinish(st, in) ==
    IF st.match_available
    THEN Finish([Tally(st) EXCEPT !.match_available = FALSE], in,
                Append(decoded, st.window[st.strstart - 1]), InsertTail(st))
    ELSE Finish(st, in, decoded, InsertTail(st))

SlowRound(st, in) ==
    CASE Starved(st, MIN_LOOKAHEAD) -> NeedMore(st, in) /\ Seen(st, FALSE)
      [] st.lookahead = 0 -> SlowFinish(st, in) /\ Seen(st, FALSE)
      [] OTHER -> SlowAt(Insert(st), HashHead(st), in)

deflate_slow == Running("slow") /\ \E r \in Filled_(MIN_LOOKAHEAD) : SlowRound(r.st, r.in)

-----------------------------------------------------------------------------
\* deflate_rle(): only runs of the byte before, found without the hash chains.
RunLen(st) ==
    Min({MAX_MATCH} \cup {n \in 0 .. MAX_MATCH - 1 : st.window[st.strstart + n] # st.window[st.strstart - 1]})

RunRound(st, in) ==
    LET run == IF st.lookahead >= MIN_MATCH /\ st.strstart > 0 /\ RunLen(st) >= 3
               THEN Min({RunLen(st), st.lookahead}) ELSE 0
    IN  /\ CASE Starved(st, MAX_MATCH + 1) -> NeedMore(st, in)
             [] st.lookahead = 0 -> Finish(st, in, decoded, 0)
             [] OTHER ->
                  IF run >= MIN_MATCH
                  THEN Emit([Tally(st) EXCEPT !.lookahead = @ - run, !.strstart = @ + run, !.match_length = 0],
                            in, CopyMatch(decoded, 1, run))
                  ELSE Literal([st EXCEPT !.match_length = 0], in)
        /\ Seen(st, FALSE)

deflate_rle == Running("rle") /\ \E r \in Filled_(MAX_MATCH + 1) : RunRound(r.st, r.in)

\* deflate_huff(): only literals.
deflate_huff ==
    /\ Running("huff")
    /\ \E r \in Filled_(1) :
         CASE Starved(r.st, 1) -> NeedMore(r.st, r.in)
           [] r.st.lookahead = 0 -> Finish(r.st, r.in, decoded, 0)
           [] OTHER -> Literal([r.st EXCEPT !.match_length = 0], r.in)
    /\ UNCHANGED <<asked, junk>>

-----------------------------------------------------------------------------
(* deflate_stored(): straight to the output as long as that is worthwhile, *)
(* then into the window, and from there to the pending buffer.             *)

Left(st) == st.strstart - st.block_start

\* The bytes of the window from from on.
Bytes(st, from, len) == [n \in 1 .. len |-> st.window[from + n - 1]]

DirectLen == Min({MAX_STORED, Left(s) + Len(strm.in), strm.avail_out - HeaderLen})

Direct ==
    /\ strm.avail_out >= HeaderLen
    /\ ~ /\ DirectLen < Min({PendingSize - HeaderLen, WSize})
         /\ \/ DirectLen = 0 /\ call.flush # "FINISH"
            \/ call.flush = "NO_FLUSH"
            \/ DirectLen # Left(s) + Len(strm.in)

LastDirect == call.flush = "FINISH" /\ DirectLen = Left(s) + Len(strm.in)

\* One stored block is written to next_out, from the window and from next_in.
StoredDirect ==
    /\ call.busy /\ s.func = "stored" /\ Direct /\ ~call.last
    /\ LET left == Min({Left(s), DirectLen})
           len  == DirectLen - left
           new  == SubSeq(strm.in, 1, len)
       IN  /\ s' = [s EXCEPT !.block_start = @ + left]
           /\ decoded' = decoded \o Bytes(s, s.block_start, left) \o new
           /\ strm' = [strm EXCEPT !.in = SubSeq(@, len + 1, Len(@)), !.avail_out = @ - HeaderLen - DirectLen]
           /\ truth' = truth \o new
           /\ used' = IF used = -1 THEN len ELSE used + len
           /\ call' = [call EXCEPT !.last = LastDirect]
    /\ closed' = Len(decoded')
    /\ UNCHANGED <<input, asked, junk, switches>>

\* The half above slides down; the hash does not, but the slide is counted.
StoredSlide(st) ==
    [st EXCEPT !.strstart = @ - WSize,
               !.window = CopyDown(@, st.strstart - WSize),
               !.matches = Min({@ + 1, 2})]

\* The last bytes written directly follow in the window, for matches later on.
Behind(st, n, bytes) == [st EXCEPT !.window = Put(@, st.strstart, bytes), !.strstart = @ + n]
CaughtUp(st, n) == [st EXCEPT !.block_start = st.strstart, !.insert = @ + Min({n, WSize - @})]

CatchUpWindow(st, n) ==
    LET new == SubSeq(truth, Len(truth) - Min({n, WSize}) + 1, Len(truth))
    IN  CASE n = 0 -> st
          [] n >= WSize ->
               CaughtUp([st EXCEPT !.matches = 2, !.window = Put(@, 0, new), !.strstart = WSize], n)
          [] OTHER ->
               CaughtUp(Behind(IF WinSize - st.strstart <= n THEN StoredSlide(st) ELSE st, n, new), n)

Raised(st) == [st EXCEPT !.high_water = Max({@, st.strstart})]

\* The input that is left goes to the window.
StoredRead(st) ==
    LET n == Min({WinSize - st.strstart - 1, Len(strm.in)})
    IN  Raised(Behind(st, n, SubSeq(strm.in, 1, n)))

StoredFill(st) ==
    LET free == WinSize - st.strstart - 1
    IN  StoredRead(IF Len(strm.in) > free /\ st.block_start >= WSize
                   THEN [StoredSlide(st) EXCEPT !.block_start = @ - WSize] ELSE st)

\* Nothing is left, or the last block was written directly.
StoredDone(st) ==
    /\ s' = IF call.flush = "FULL_FLUSH" THEN Forget(st) ELSE st
    /\ call' = [Returned(IF call.last THEN "ended" ELSE "flushed") EXCEPT !.last = FALSE]
    /\ UNCHANGED <<strm, truth, decoded>>

\* The window goes to the pending buffer, at most have bytes at once.
Have == Min({PendingSize - HeaderLen, MAX_STORED})
Writes(left, rest) ==
    \/ left >= Min({Have, WSize})
    \/ /\ left > 0 \/ call.flush = "FINISH"
       /\ call.flush # "NO_FLUSH" /\ rest = <<>> /\ left <= Have

\* With len bytes for the pending buffer, or no block if writes is not true.
StoredWrite(st, rest, writes, len) ==
    LET room == IF writes THEN Max({0, strm.avail_out - HeaderLen - len}) ELSE strm.avail_out
        last == writes /\ call.flush = "FINISH" /\ rest = <<>> /\ len = Left(st)
    IN  /\ s' = IF writes THEN [st EXCEPT !.block_start = @ + len] ELSE st
        /\ decoded' = IF writes THEN decoded \o Bytes(st, st.block_start, len) ELSE decoded
        /\ strm' = [in |-> rest, avail_out |-> room]
        /\ truth' = truth \o SubSeq(strm.in, 1, Len(strm.in) - Len(rest))
        /\ call' = Returned(CASE last -> "ended" [] call.flush = "NO_FLUSH" -> "none"
                              [] room = 0 -> call.flush [] OTHER -> "flushed")

StoredFilled(st, rest) == StoredWrite(st, rest, Writes(Left(st), rest), Min({Left(st), Have}))

StoredTail(st) ==
    IF \/ call.last
       \/ call.flush \notin {"NO_FLUSH", "FINISH"} /\ strm.in = <<>> /\ Left(st) = 0
    THEN StoredDone(st)
    ELSE \E u \in {StoredFill(st)} :
           StoredFilled(u, SubSeq(strm.in, Left(u) - Left(st) + 1, Len(strm.in)))

\* Behind the loop.
StoredRest ==
    /\ call.busy /\ s.func = "stored" /\ (call.last \/ ~Direct)
    /\ StoredTail(Raised(CatchUpWindow(s, IF used = -1 THEN 0 ELSE used)))
    /\ used' = -1 /\ closed' = Len(decoded')
    /\ UNCHANGED <<input, asked, junk, switches>>

-----------------------------------------------------------------------------
(* The application.                                                        *)

Idle == ~call.busy /\ call.flush # "ended" /\ call.then = "none"

\* deflate(): more input, unless a flush is still to be completed.
Deflate(flush, n, room) ==
    /\ Idle
    /\ call.flush \notin {"none", "flushed", "NO_FLUSH"} => flush = call.flush /\ n = 0
    /\ n <= Len(input) /\ (flush = "FINISH" => n = Len(input))
    /\ strm.in # <<>> \/ n # 0 \/ s.lookahead # 0 \/ flush # "NO_FLUSH"
    /\ strm' = [in |-> strm.in \o SubSeq(input, 1, n), avail_out |-> room]
    /\ input' = SubSeq(input, n + 1, Len(input))
    /\ call' = [call EXCEPT !.flush = flush, !.busy = TRUE]
    /\ UNCHANGED <<s, used, truth, decoded, closed, asked, junk, switches>>

\* deflateParams(): what is open is flushed as a block first.
Params(func, room) ==
    /\ Idle /\ func # s.func /\ switches < MaxSwitch
    /\ call.flush \in {"none", "flushed", "NO_FLUSH"}
    /\ strm' = [strm EXCEPT !.avail_out = room]
    /\ call' = [call EXCEPT !.then = func, !.busy = s.high_water # 0,
                            !.flush = IF s.high_water # 0 THEN "BLOCK" ELSE @]
    /\ switches' = switches + 1
    /\ UNCHANGED <<input, s, used, truth, decoded, closed, asked, junk>>

Switched(st, func) ==
    LET t == CASE st.func # "stored" \/ st.matches = 0 -> st
               [] st.matches = 1 -> slide_hash(st)
               [] OTHER -> CLEAR_HASH(st)
    IN  [t EXCEPT !.func = func, !.matches = 0]

\* ... and then the function changes, if there was room.
ParamsDone ==
    /\ ~call.busy /\ call.then # "none"
    /\ s' = IF strm.avail_out = 0 THEN s ELSE Switched(s, call.then)
    /\ call' = [call EXCEPT !.then = "none"]
    /\ UNCHANGED <<input, strm, used, truth, decoded, closed, asked, junk, switches>>

\* All the strings of a dictionary go into the hash chains.
RECURSIVE HashDict(_, _)
HashRest(r) == HashDict(r.st, r.in)
HashDict(st, in) ==
    IF st.lookahead < MIN_MATCH THEN st
    ELSE LET next == st.strstart + st.lookahead - (MIN_MATCH - 1)
         IN  HashRest(fill_window([InsertAll(st, st.strstart, next - 1) EXCEPT
                                     !.strstart = next, !.lookahead = MIN_MATCH - 1], in))

\* The window with the dictionary, or with the end of a long one.
Hashed(dict) ==
    IF Len(dict) >= WSize
    THEN {HashRest(r) : r \in Fills([CLEAR_HASH(s) EXCEPT !.strstart = 0, !.block_start = 0, !.insert = 0],
                                    SubSeq(dict, Len(dict) - WSize + 1, Len(dict)))}
    ELSE {HashRest(r) : r \in Fills(s, dict)}

\* The dictionary is history: the next block starts behind it.
AsHistory(st) ==
    [st EXCEPT !.strstart = @ + st.lookahead, !.block_start = st.strstart + st.lookahead,
               !.insert = st.lookahead, !.lookahead = 0, !.match_available = FALSE,
               !.match_length = MIN_MATCH - 1, !.prev_length = MIN_MATCH - 1]

\* deflateSetDictionary() of a raw stream, at its start or behind a flush.
SetDictionary(dict) ==
    /\ Idle /\ switches < MaxSwitch /\ s.lookahead = 0
    /\ call.flush = "flushed" \/ (truth = <<>> /\ call.flush = "none")
    /\ \E st \in Hashed(dict) : s' = AsHistory(st)
    /\ truth' = truth \o dict
    /\ decoded' = decoded \o dict /\ closed' = Len(decoded')
    /\ switches' = switches + 1
    /\ UNCHANGED <<input, strm, call, used, asked, junk>>

\* deflateGetDictionary()
GetDictionary ==
    LET have == s.strstart + s.lookahead
        len  == Min({have, WSize})
    IN  Bytes(s, have - len, len)

Init ==
    /\ input \in Inputs
    /\ \E func \in Funcs : s = lm_init(func)
    /\ strm = [in |-> <<>>, avail_out |-> 0]
    /\ call = [flush |-> "none", busy |-> FALSE, then |-> "none", last |-> FALSE]
    /\ used = -1 /\ truth = <<>> /\ decoded = <<>> /\ closed = 0
    /\ asked = MIN_MATCH - 1 /\ junk = FALSE /\ switches = 0

Next ==
    \/ deflate_fast \/ deflate_slow \/ deflate_rle \/ deflate_huff
    \/ StoredDirect \/ StoredRest \/ ParamsDone
    \/ \E flush \in Flushes \cup {"FINISH"}, n \in Chunks \cup {0, Len(input)}, room \in Rooms :
         Deflate(flush, n, room)
    \/ \E func \in Funcs, room \in Rooms : Params(func, room)
    \/ \E dict \in Dicts : SetDictionary(dict)

Spec == Init /\ [][Next]_vars

-----------------------------------------------------------------------------

\* Behind a flush that returns with room left, and at the end, all the data
\* given to deflate() has gone out.
FlushDeliversAll ==
    ~call.busy /\ call.flush \in {"flushed", "ended"} => decoded = truth /\ strm.in = <<>>

\* The window holds the last bytes of the data, so that a block can be stored
\* from it and deflateGetDictionary() returns what a decoder has.
WindowIsTail ==
    ~call.busy =>
        LET have == s.strstart + s.lookahead
        IN  /\ have <= Len(truth)
            /\ Bytes(s, 0, have) = SubSeq(truth, Len(truth) - have + 1, Len(truth))

\* The block that is open spans the data of the symbols put out since the last
\* one: stored from the window instead, it stands for the same bytes.
BlockSpans ==
    LET open == IF s.match_available THEN 1 ELSE 0
    IN  s.func # "stored" =>
          /\ Len(truth) - Len(decoded) = s.lookahead + open
          /\ s.strstart - s.block_start - open = Len(decoded) - closed

\* longest_match() reads no byte of the window that was never written.
NoJunk == ~junk

\* deflate.h of s->insert: bytes at end of window left to insert.  So the strings
\* that fill_window() takes into the hash lie in the window.
InsertsInside == ~s.wild

\* The assertion in front of longest_match(): prev_length >= 1.
PrevLengthGiven == asked >= 1

=============================================================================

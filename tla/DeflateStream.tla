--------------------------- MODULE DeflateStream ---------------------------
(***************************************************************************)
(* deflate() as a stream: what it returns and writes over any sequence of  *)
(* calls, each with some input, some room and a flush mode.  All output    *)
(* passes through pending_buf, so the header, a block or the trailer can   *)
(* be cut anywhere by the end of the room and goes on in the next call.    *)
(*                                                                         *)
(* The compressor is the common shape of deflate_fast(), _slow(), _rle()   *)
(* and _huff(), one symbol for each byte of input (their matches are in    *)
(* DeflateWindow, and so is deflate_stored()).  Compressed data is a       *)
(* sequence of items, ByteBits of them to a byte; a checksum is the        *)
(* sequence of what it was computed of.                                    *)
(***************************************************************************)
EXTENDS Integers, Sequences, FiniteSetsExt, SequencesExt

CONSTANTS
  Streams,      \* z_stream structures
  WindowBits,   \* arguments of deflateInit2()
  Heads,        \* what deflateSetHeader() is given
  Calls,        \* flush modes of the calls
  Rooms,        \* avail_out of the calls
  MaxIn,        \* bound: bytes of input
  MaxFlushes,   \* bound: calls for a flush, of a stream
  MaxResets,    \* bound: resets of a stream
  PendingSize,  \* pending_buf_size
  ByteBits,     \* items in a byte
  LitBuf,       \* symbols in a block
  Lookahead,    \* the compressor waits for this much input
  Extras        \* of "fail", "dict", "prime": what else can happen

NoField == -1
NoHead == [none |-> TRUE]

\* What the constants must be; the modules that instantiate this one assume it.
StreamAssumption ==
  /\ \A n \in {PendingSize, ByteBits, LitBuf, Lookahead} : n \in Nat \ {0}
  /\ MaxIn \in Nat /\ MaxFlushes \in Nat /\ MaxResets \in Nat /\ Rooms \subseteq Nat
  /\ Calls \subseteq {"NO_FLUSH", "PARTIAL_FLUSH", "SYNC_FLUSH", "FULL_FLUSH", "FINISH", "BLOCK"}
  /\ \A h \in Heads : h = NoHead \/ h \in [extra : {NoField} \union Nat, name : {NoField} \union Nat,
                                           comment : {NoField} \union Nat, hcrc : BOOLEAN]

VARIABLES
  strm,         \* the z_stream and its deflate_state, by stream; status "none": no state
  heap,         \* what is allocated: pairs of a stream and a part
  call          \* the call of deflate() that runs: its stream, flush, and where it is

vars == <<strm, heap, call>>

Parts == {"state", "window", "prev", "head", "pending_buf"}
Idle == [at |-> "idle"]

\* The order of the flush modes; -1 stands for last_flush = -1.
RANK(flush) ==
  CASE flush = "none" -> -2
    [] flush = "NO_FLUSH" -> 0
    [] flush = "BLOCK" -> 1
    [] flush = "PARTIAL_FLUSH" -> 2
    [] flush = "SYNC_FLUSH" -> 4
    [] flush = "FULL_FLUSH" -> 6
    [] flush = "FINISH" -> 8

---------------------------------------------------------------------------
(* The pending output.  pbuf is <<>> whenever nothing is pending.  *)

\* put_byte(), of several bytes: they go behind the number of bytes that are pending, wherever the
\* first of those is.
PutAll(z, bytes) ==
  LET end == z.pending + Len(bytes)
  IN  [z EXCEPT !.pending = end, !.pbuf = SubSeq(@, 1, z.pending) \o bytes \o SubSeq(@, end + 1, Len(@))]

put_byte(z, b) == PutAll(z, <<b>>)

flush_pending(z) ==
  LET len == Min({z.pending, z.room})
      rest == z.pending - len
  IN  [z EXCEPT !.out = @ \o SubSeq(z.pbuf, z.pending_out + 1, z.pending_out + len),
                !.room = @ - len, !.pending = rest,
                !.pending_out = IF rest = 0 THEN 0 ELSE @ + len,
                !.pbuf = IF rest = 0 THEN <<>> ELSE @]

\* Items enter the bit buffer, and whole bytes leave it.
SendItems(z, items) ==
  LET all == z.bits \o items
      n == Len(all) \div ByteBits
  IN  [PutAll(z, [i \in 1..n |-> SubSeq(all, (i - 1) * ByteBits + 1, i * ByteBits)])
         EXCEPT !.bits = SubSeq(all, n * ByteBits + 1, Len(all))]

\* bi_windup(): the bits that are left go out as a byte.
Windup(z) ==
  SendItems(z, IF z.bits = <<>> THEN <<>> ELSE [i \in 1..(ByteBits - Len(z.bits)) |-> <<"pad", 0>>])

Symbols(from, to) == [i \in 1..(to - from) |-> <<"sym", from + i>>]

\* _tr_flush_block(): the symbols tallied since the last block; the last block fills its last byte.
FlushBlock(z, last) ==
  LET done == z.total_in - z.lookahead
      sent == SendItems(z, <<<<"block", last>>>> \o Symbols(done - z.lits, done) \o <<<<"end", 0>>>>)
  IN  flush_pending([(IF last = 1 THEN Windup(sent) ELSE sent) EXCEPT !.lits = 0])

\* _tr_stored_block() of no bytes: the marker, aligned, with its length in bytes of its own.
StoredMarker(z) == put_byte(Windup(SendItems(z, <<<<"stored", 0>>>>)), <<<<"len", 0>>>>)

\* _tr_align(): an empty block of fixed codes.
Align(z) == SendItems(z, <<<<"block", 0>>, <<"end", 0>>>>)

\* Mutant: a flush that sends no marker.
MarkerNone(z, flush) == z

Marker(z, flush) ==
  CASE flush = "PARTIAL_FLUSH" -> Align(z)
    [] flush \in {"SYNC_FLUSH", "FULL_FLUSH"} -> StoredMarker(z)
    [] OTHER -> z

---------------------------------------------------------------------------
(* Life of a stream.  *)

NoState == [status |-> "none", ret |-> "none"]

Wrap(windowBits) == IF windowBits < 0 THEN 0 ELSE IF windowBits > 15 THEN 2 ELSE 1
Bits(windowBits) ==
  IF windowBits < 0 THEN -windowBits ELSE IF windowBits > 15 THEN windowBits - 16 ELSE windowBits

Status0(wrap) == CASE wrap = 2 -> "GZIP" [] wrap = 1 -> "INIT" [] OTHER -> "BUSY"
Abs(n) == IF n < 0 THEN -n ELSE n

deflateResetKeep(z) ==
  [z EXCEPT !.pbuf = <<>>, !.pending = 0, !.pending_out = 0,
            !.wrap = Abs(@), !.status = Status0(Abs(z.wrap)),
            !.adler = <<>>, !.last_flush = "NO_FLUSH", !.bits = <<>>, !.lits = 0,
            !.total_in = 0, !.out = <<>>]

\* lm_init() empties the window.
deflateReset(z) == [deflateResetKeep(z) EXCEPT !.lookahead = 0, !.strstart = 0]

Fresh(wrap, w_bits) ==
  deflateReset([status |-> "INIT", wrap |-> wrap, w_bits |-> w_bits, gzhead |-> NoHead, gzindex |-> 0,
                pbuf |-> <<>>, pending |-> 0, pending_out |-> 0, bits |-> <<>>, adler |-> <<>>,
                last_flush |-> "NO_FLUSH", lookahead |-> 0, lits |-> 0, strstart |-> 0,
                total_in |-> 0, avail_in |-> 0, room |-> 0, out |-> <<>>,
                ret |-> "OK", dict |-> FALSE, prime |-> <<>>, flushes |-> 0, resets |-> 0])

Owned(x) == {<<x, p>> : p \in Parts}
Freed(x) == Owned(x)

\* One of the allocations fails, and deflateEnd() frees the others.
AllocFails(x) ==
  /\ "fail" \in Extras
  /\ strm' = [strm EXCEPT ![x] = [NoState EXCEPT !.ret = "MEM_ERROR"]]
  /\ \E got \in SUBSET Owned(x) : got # Owned(x) /\ heap' = (heap \union got) \ Freed(x)

BadBits(windowBits) ==
  Bits(windowBits) \notin 8..15 \/ (Bits(windowBits) = 8 /\ Wrap(windowBits) # 1)

\* deflateInit2(): the arguments, five allocations, and deflateEnd() if one of the last four fails.
deflateInit2(x, windowBits) ==
  /\ call = Idle /\ strm[x].status = "none"
  /\ \/ /\ BadBits(windowBits)
        /\ strm' = [strm EXCEPT ![x] = [@ EXCEPT !.ret = "STREAM_ERROR"]] /\ UNCHANGED heap
     \/ ~BadBits(windowBits) /\ AllocFails(x)
     \/ /\ ~BadBits(windowBits)
        /\ strm' = [strm EXCEPT ![x] = Fresh(Wrap(windowBits), Max({9, Bits(windowBits)}))]
        /\ heap' = heap \union Owned(x)
  /\ UNCHANGED call

Live(x) == call = Idle /\ strm[x].status # "none"

deflateEnd(x) ==
  /\ Live(x)
  /\ heap' = heap \ Freed(x)
  /\ strm' = [strm EXCEPT ![x] = [NoState EXCEPT !.ret = IF strm[x].status = "BUSY" THEN "DATA_ERROR" ELSE "OK"]]
  /\ UNCHANGED call

\* deflateCopy(): a state of its own, or nothing: after the first allocation deflateEnd() frees what there is.
deflateCopy(dest, source) ==
  /\ Live(source) /\ dest # source /\ strm[dest].status = "none"
  /\ \/ /\ strm' = [strm EXCEPT ![dest] = strm[source]]
        /\ heap' = heap \union Owned(dest)
     \/ AllocFails(dest)
  /\ UNCHANGED call

\* The header may be given, the window and the bits filled, before the first call of deflate().
Untouched(z) == z.status = Status0(Abs(z.wrap)) /\ z.out = <<>> /\ z.total_in = 0 /\ z.pending = 0 /\ z.last_flush = "NO_FLUSH"

deflateSetHeader(x, head) ==
  /\ Live(x) /\ Untouched(strm[x]) /\ strm[x].gzhead = NoHead
  /\ strm[x].wrap = 2
  /\ strm' = [strm EXCEPT ![x].gzhead = head]
  /\ UNCHANGED <<heap, call>>

deflateSetDictionary(x) ==
  /\ Live(x) /\ "dict" \in Extras /\ Untouched(strm[x]) /\ strm[x].strstart = 0
  /\ strm[x].wrap = 1
  /\ strm' = [strm EXCEPT ![x].adler = @ \o <<<<"dict", 0>>>>, ![x].strstart = 1, ![x].dict = TRUE]
  /\ UNCHANGED <<heap, call>>

\* deflatePrime(): bits in front of a raw stream; whole bytes of them are pending at once.
deflatePrime(x) ==
  /\ Live(x) /\ "prime" \in Extras /\ Untouched(strm[x]) /\ strm[x].prime = <<>>
  /\ strm[x].wrap = 0
  /\ \E n \in 1..(ByteBits + 1) :
       LET items == [i \in 1..n |-> <<"prime", i>>]
       IN  strm' = [strm EXCEPT ![x] = [SendItems(@, items) EXCEPT !.prime = items]]
  /\ UNCHANGED <<heap, call>>

Reset(x) ==
  /\ Live(x) /\ strm[x].resets < MaxResets
  /\ strm' = [strm EXCEPT ![x] = [deflateReset(@) EXCEPT !.resets = @ + 1, !.prime = <<>>, !.dict = FALSE,
                                                         !.flushes = 0, !.ret = "OK"]]
  /\ UNCHANGED <<heap, call>>

---------------------------------------------------------------------------
(* A call of deflate().  *)

Return(x, z, ret) ==
  /\ strm' = [strm EXCEPT ![x] = [z EXCEPT !.ret = ret]]
  /\ call' = Idle

Goes(x, z, at) ==
  /\ strm' = [strm EXCEPT ![x] = z]
  /\ call' = [call EXCEPT !.at = at]

\* The call returns because the room is used up: last_flush keeps the next one from being refused.
OutOfRoom(x, z) == Return(x, [z EXCEPT !.last_flush = "none"], "OK")

\* "User must not provide more input after the first FINISH"
LateInput(z) == z.status = "FINISH" /\ z.avail_in # 0

\* From the start of deflate() to the header.
deflate(x, flush, n, room) ==
  LET z0 == [strm[x] EXCEPT !.avail_in = n, !.room = room,
                            !.flushes = IF flush \in {"NO_FLUSH", "FINISH"} THEN @ ELSE @ + 1]
      z1 == [z0 EXCEPT !.last_flush = flush]
      z2 == flush_pending(z1)
  IN  /\ Live(x) /\ n <= MaxIn - z0.total_in /\ z0.flushes <= MaxFlushes
      /\ IF z0.status = "FINISH" /\ flush # "FINISH" THEN Return(x, z0, "STREAM_ERROR")
         ELSE IF room = 0 THEN Return(x, z0, "BUF_ERROR")
         ELSE IF z0.pending # 0 /\ z2.room = 0 THEN OutOfRoom(x, z2)
         ELSE IF z0.pending = 0 /\ n = 0 /\ flush # "FINISH" /\ RANK(flush) <= RANK(z0.last_flush)
              THEN Return(x, z1, "BUF_ERROR")
         ELSE IF LateInput(z0) THEN Return(x, z2, "BUF_ERROR")
         ELSE /\ strm' = [strm EXCEPT ![x] = z2]
              /\ call' = [at |-> "header", strm |-> x, flush |-> flush]
      /\ UNCHANGED heap

\* The stream of the running call.
X == call.strm
Z == strm[call.strm]
In(status) == call.at = "header" /\ Z.status = status /\ UNCHANGED heap

\* "Compression must start with an empty pending buffer": the header is out, or the call returns.
StartBusy(z) ==
  LET out == flush_pending([z EXCEPT !.status = "BUSY"])
  IN  IF out.pending # 0 THEN OutOfRoom(X, out) ELSE Goes(X, out, "header")

ZlibHeader ==
  /\ In("INIT")
  /\ LET dict == IF Z.strstart = 0 THEN <<>> ELSE <<<<<<"dictid", Z.adler>>>>>>
         bytes == <<<<<<"cmf", Z.w_bits>>>>, <<<<"flg", Z.strstart>>>>>> \o dict
     IN  StartBusy([PutAll(Z, bytes) EXCEPT !.adler = <<>>])

\* What the gzip header starts with.
GzipFixed(head) ==
  <<<<<<"magic", 0>>>>, <<<<"flags", head>>>>>>
    \o (IF head # NoHead /\ head.extra # NoField THEN <<<<<<"xlen", head.extra>>>>>> ELSE <<>>)

GzipHeader ==
  /\ In("GZIP")
  /\ LET z == PutAll([Z EXCEPT !.adler = <<>>], GzipFixed(Z.gzhead))
     IN  IF Z.gzhead = NoHead THEN StartBusy(z)
         ELSE Goes(X, [z EXCEPT !.adler = IF Z.gzhead.hcrc THEN z.pbuf ELSE @,
                                !.gzindex = 0, !.status = "EXTRA"], "header")

\* Mutant: a field that goes on behind a full buffer counts the buffer's bytes again.
HCRC_UPDATEall(z, beg) ==
  IF z.gzhead.hcrc /\ z.pending > beg THEN [z EXCEPT !.adler = @ \o SubSeq(z.pbuf, 1, z.pending)] ELSE z

HCRC_UPDATE(z, beg) ==
  IF z.gzhead.hcrc /\ z.pending > beg THEN [z EXCEPT !.adler = @ \o SubSeq(z.pbuf, beg + 1, z.pending)] ELSE z

FieldBytes(field, from, to) == [i \in 1..(to - from) |-> <<<<field, from + i>>>>]

Fits(z) == PendingSize - z.pending

\* A field goes into the pending buffer, up to its end or until the buffer is full; then the buffer is
\* flushed, and the copying goes on here or, from gzindex, in the next call.
Field(field, next, index) ==
  LET len == Z.gzhead[field]
      copy == Min({len - Z.gzindex, Fits(Z)})
      z == HCRC_UPDATE(PutAll(Z, FieldBytes(field, Z.gzindex, Z.gzindex + copy)), Z.pending)
      flushed == flush_pending([z EXCEPT !.gzindex = @ + copy])
  IN  IF len = NoField THEN Goes(X, [Z EXCEPT !.status = next], "header")
      ELSE IF copy = len - Z.gzindex THEN Goes(X, [z EXCEPT !.gzindex = index, !.status = next], "header")
      ELSE IF flushed.pending # 0 THEN OutOfRoom(X, flushed)
      ELSE Goes(X, flushed, "header")

Extra == In("EXTRA") /\ Field("extra", "NAME", 0)
Name == In("NAME") /\ Field("name", "COMMENT", 0)
Comment == In("COMMENT") /\ Field("comment", "HCRC", Z.gzhead.comment)

\* The checksum of the header, after a flush if it does not fit.
Hcrc ==
  /\ In("HCRC")
  /\ LET full == Z.gzhead.hcrc /\ Z.pending + 1 > PendingSize
         z == IF full THEN flush_pending(Z) ELSE Z
     IN  IF full /\ z.pending # 0 THEN OutOfRoom(X, z)
         ELSE StartBusy(IF Z.gzhead.hcrc THEN [put_byte(z, <<<<"hcrc", z.adler>>>>) EXCEPT !.adler = <<>>] ELSE z)

\* "Start a new block or continue the current one."
StartBlock ==
  /\ call.at = "header" /\ Z.status \in {"BUSY", "FINISH"}
  /\ Goes(X, Z, IF Z.avail_in # 0 \/ Z.lookahead # 0 \/ (call.flush # "NO_FLUSH" /\ Z.status # "FINISH")
                THEN "block" ELSE "trailer")
  /\ UNCHANGED heap

---------------------------------------------------------------------------
(* The compressor: deflate_fast() and the others, without their matches.  *)

\* fill_window(), read_buf(): input is read while there is too little, and summed up for the trailer.
Filled(z) ==
  IF z.lookahead >= Lookahead THEN z
  ELSE [z EXCEPT !.lookahead = @ + z.avail_in, !.total_in = @ + z.avail_in, !.avail_in = 0,
                 !.strstart = IF @ + z.avail_in > 0 THEN 1 ELSE 0,
                 !.adler = IF z.wrap > 0 THEN @ \o Symbols(z.total_in, z.total_in + z.avail_in) ELSE @]

\* deflate() returns after need_more and finish_started.
Stops(z) == Return(X, [z EXCEPT !.last_flush = IF z.room = 0 THEN "none" ELSE @], "OK")

\* A symbol is tallied; a full block is flushed, and without room left the compressor returns need_more.
Tally ==
  /\ call.at = "block"
  /\ \E z \in {Filled(Z)} : \E t \in {[z EXCEPT !.lookahead = @ - 1, !.lits = @ + 1]} :
      /\ z.lookahead > 0 /\ (z.lookahead >= Lookahead \/ call.flush # "NO_FLUSH")
      /\ IF t.lits < LitBuf THEN Goes(X, t, "block")
         ELSE \E f \in {FlushBlock(t, 0)} : IF f.room = 0 THEN Stops(f) ELSE Goes(X, f, "block")
  /\ UNCHANGED heap

NeedMore ==
  /\ call.at = "block" /\ call.flush = "NO_FLUSH" /\ Filled(Z).lookahead < Lookahead
  /\ Stops(Filled(Z))
  /\ UNCHANGED heap

\* All input is in: the last block, or the block and the marker of a flush.
FinishBlock ==
  /\ call.at = "block" /\ call.flush = "FINISH" /\ Filled(Z).lookahead = 0
  /\ \E f \in {[FlushBlock(Filled(Z), 1) EXCEPT !.status = "FINISH"]} :
       IF f.room = 0 THEN Stops(f) ELSE Goes(X, f, "trailer")
  /\ UNCHANGED heap

EndBlock ==
  /\ call.at = "block" /\ call.flush \notin {"NO_FLUSH", "FINISH"} /\ Filled(Z).lookahead = 0
  /\ \E z \in {Filled(Z)} : \E b \in {IF z.lits > 0 THEN FlushBlock(z, 0) ELSE z} :
       \E f \in {flush_pending(Marker(b, call.flush))} :
         IF z.lits > 0 /\ b.room = 0 THEN Stops(b)
         ELSE IF f.room = 0 THEN OutOfRoom(X, f)
         ELSE Goes(X, f, "trailer")
  /\ UNCHANGED heap

\* "write the trailer only once!"
TrailerDone(z) == -z.wrap

TrailerBytes(z) ==
  <<<<<<"sum", z.adler>>>>>> \o (IF z.wrap = 2 THEN <<<<<<"isize", z.total_in>>>>>> ELSE <<>>)

Trailer ==
  /\ call.at = "trailer"
  /\ \E z \in {flush_pending(PutAll(Z, TrailerBytes(Z)))} :
       IF call.flush # "FINISH" THEN Return(X, Z, "OK")
       ELSE IF Z.wrap <= 0 THEN Return(X, Z, "STREAM_END")
       ELSE Return(X, [z EXCEPT !.wrap = TrailerDone(Z)], IF z.pending # 0 THEN "OK" ELSE "STREAM_END")
  /\ UNCHANGED heap

---------------------------------------------------------------------------

Init ==
  /\ strm = [x \in Streams |-> NoState]
  /\ heap = {}
  /\ call = Idle

Header == ZlibHeader \/ GzipHeader \/ Extra \/ Name \/ Comment \/ Hcrc
Step == call # Idle /\ (Header \/ StartBlock \/ Tally \/ NeedMore \/ FinishBlock \/ EndBlock \/ Trailer)

\* An application that wants the end of the stream calls again, with some room.
Finishes(x) ==
  /\ Live(x) /\ strm[x].ret # "STREAM_END"
  /\ \E room \in Rooms \ {0} :
       deflate(x, "FINISH", IF strm[x].status = "FINISH" THEN 0 ELSE MaxIn - strm[x].total_in, room)

Next ==
  \/ Step
  \/ \E x \in Streams :
       \/ \E b \in WindowBits : deflateInit2(x, b)
       \/ deflateEnd(x) \/ deflateSetDictionary(x) \/ deflatePrime(x) \/ Reset(x)
       \/ \E y \in Streams : deflateCopy(x, y)
       \/ \E h \in Heads : deflateSetHeader(x, h)
       \/ \E f \in Calls, n \in 0..MaxIn, r \in Rooms : deflate(x, f, n, r)

Spec == Init /\ [][Next]_vars

---------------------------------------------------------------------------
(* What a decoder makes of the output.  *)

HeaderOf(z) ==
  LET head == z.gzhead
      field(f) == IF head[f] = NoField THEN <<>> ELSE FieldBytes(f, 0, head[f])
      gz == GzipFixed(head) \o (IF head = NoHead THEN <<>> ELSE field("extra") \o field("name") \o field("comment"))
      dictid == <<<<<<"dictid", <<<<"dict", 0>>>>>>>>>>
  IN  CASE Abs(z.wrap) = 2 -> gz \o (IF head # NoHead /\ head.hcrc THEN <<<<<<"hcrc", gz>>>>>> ELSE <<>>)
        [] Abs(z.wrap) = 1 -> <<<<<<"cmf", z.w_bits>>>>, <<<<"flg", IF z.dict THEN 1 ELSE 0>>>>>>
                                \o (IF z.dict THEN dictid ELSE <<>>)
        [] OTHER -> <<>>

Read(p, item) ==
  LET to(mode) == [p EXCEPT !.mode = mode]
  IN  CASE p.mode = "prime" /\ item[1] = "prime" -> p
        [] p.mode \in {"prime", "between"} /\ item[1] = "block" -> to(IF item[2] = 1 THEN "last" ELSE "in")
        [] p.mode \in {"prime", "between"} /\ item[1] = "stored" -> to("stored")
        [] p.mode = "stored" /\ item[1] = "pad" -> p
        [] p.mode = "stored" /\ item[1] = "len" -> [to("between") EXCEPT !.markers = @ + 1]
        [] p.mode \in {"in", "last"} /\ item = <<"sym", p.got + 1>> -> [p EXCEPT !.got = @ + 1, !.markers = 0]
        [] p.mode = "in" /\ item[1] = "end" -> to("between")
        [] p.mode = "last" /\ item[1] = "end" -> to("done")
        [] p.mode = "done" /\ item[1] = "pad" -> p
        [] OTHER -> to("bad")

\* The blocks in the bytes, from one byte of the output to another.
Decoded(bytes) == FoldLeft(Read, [mode |-> "prime", got |-> 0, markers |-> 0], FlattenSeq(bytes))

Body(z, trailer) == SubSeq(z.out, Len(HeaderOf(z)) + 1, Len(z.out) - Len(trailer))

---------------------------------------------------------------------------
(* Properties.  *)

\* Every variable has its type: each z_stream that has a state, with its status, buffers and history.
TypeOK ==
  /\ \A x \in Streams : strm[x].status # "none" =>
       /\ strm[x].status \in {"INIT", "GZIP", "EXTRA", "NAME", "COMMENT", "HCRC", "BUSY", "FINISH"}
       /\ strm[x].wrap \in -2..2 /\ strm[x].w_bits \in 9..15
       /\ strm[x].pending_out + strm[x].pending <= Len(strm[x].pbuf)
  /\ heap \subseteq Streams \X Parts
  /\ call.at \in {"idle", "header", "block", "trailer"}

\* When deflate() returns Z_STREAM_END, the output is exactly one stream: the header with the checksum
\* of its own bytes, blocks from which a decoder gets the input, all of it, once and in order, the last
\* one marked, and one trailer with the checksum and the length of the input; however the calls cut it.
EndExact ==
  \A x \in Streams :
    LET z == strm[x]
        trailer == IF z.wrap = 0 THEN <<>>
                   ELSE TrailerBytes([z EXCEPT !.wrap = Abs(@), !.adler = Symbols(0, z.total_in)])
    IN  call = Idle /\ z.ret = "STREAM_END" =>
          /\ Len(z.out) >= Len(HeaderOf(z)) + Len(trailer)
          /\ z.pending = 0
          /\ z.out = HeaderOf(z) \o Body(z, trailer) \o trailer
          /\ Decoded(Body(z, trailer)).mode = "done"
          /\ Decoded(Body(z, trailer)).got = z.total_in

\* A flush that returns with room left has taken all input and delivered it: a decoder gets everything
\* from the bytes that are out, and after Z_SYNC_FLUSH and Z_FULL_FLUSH they end with a whole block.
FlushDelivers ==
  \A x \in Streams :
    LET z == strm[x]
        p == Decoded(Body(z, <<>>))
    IN  /\ call = Idle /\ z.status = "BUSY" /\ z.ret = "OK" /\ z.room > 0
        /\ z.last_flush \in {"PARTIAL_FLUSH", "SYNC_FLUSH", "FULL_FLUSH"}
        => /\ z.avail_in = 0 /\ p.got = z.total_in /\ p.mode # "bad"
           /\ z.last_flush # "PARTIAL_FLUSH" => p.mode = "between" /\ z.bits = <<>>

\* The bytes put into pending_buf stay within it: a field of the header of any length, its checksum,
\* a block, a marker and the trailer.
PendingFits == \A x \in Streams : strm[x].status # "none" => Len(strm[x].pbuf) <= PendingSize

\* Outside of deflate() each stream with a state owns its five allocations, and no stream without one
\* owns any: after a failed deflateInit2() or deflateCopy() and after deflateEnd() nothing is left.
HeapExact == call = Idle => heap = UNION {Owned(x) : x \in {y \in Streams : strm[y].status # "none"}}

\* The stream has ended, or was freed before.
Ended(x) == strm[x].status = "none" \/ strm[x].ret = "STREAM_END"

\* "for a very small output buffer, we emit at most one empty block": no two markers without data.
OneMarker == \A x \in Streams : strm[x].status # "none" => Decoded(Body(strm[x], <<>>)).markers <= 1

===========================================================================

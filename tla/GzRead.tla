------------------------------- MODULE GzRead -------------------------------
(***************************************************************************)
(* zlib's gz* functions on a file opened for reading: buffering, looking   *)
(* for gzip streams in the file, seeking, pushing back, end of file.       *)
(*                                                                         *)
(* The file is a sequence of bytes, each a record of what it is to         *)
(* inflate(): one of the two that begin a gzip stream, compressed data     *)
(* for n bytes (of which the last may be a newline), the end of a stream,  *)
(* or wrong.  Data that is read is named by where it comes from: <<i, k>>  *)
(* is the k-th byte out of byte i of the file, <<i, 0>> that byte as it    *)
(* is; Pushed is one that is pushed back in front of the data.  The file   *)
(* may grow while it is read.                                              *)
(***************************************************************************)
EXTENDS GzOpen, Integers, FiniteSetsExt

CONSTANTS
  Files,        \* set of files
  Sizes,        \* buffer sizes that gzbuffer() is asked for
  Lengths,      \* bytes that reads ask for
  Offsets,      \* offsets of gzseek()
  MaxPos        \* bound: positions that gzseek() is asked for

\* What the constants must be; the modules that instantiate this one assume it.
GzReadAssumption == 0 \notin Sizes /\ Sizes \subseteq Nat /\ Lengths \subseteq Nat

VARIABLES
  file,
  seen,         \* how much of the file is there
  s,            \* the gz_state
  hist          \* history: reference position, what the last call returned

vars == <<file, seen, s, hist>>

Pushed == <<0, 0>>

Fatal(err) == err \notin {"OK", "BUF_ERROR"}
Failed(t) == Fatal(t.err)

\* gz_error(): a fatal error takes away the output.
gz_error(t, err) == [t EXCEPT !.err = err, !.out = IF Fatal(err) THEN <<>> ELSE @]

gz_reset(t) ==
  [gz_error(t, "OK") EXCEPT !.out = <<>>, !.eof = FALSE, !.past = FALSE, !.how = "LOOK",
                            !.seek = FALSE, !.pos = 0, !.in = <<>>]

\* What gz_open() leaves: no buffers, and reading directly until a stream is met.
Opened ==
  [how |-> "LOOK", direct |-> gz_open(<<"r">>).direct, size |-> 0, want |-> Max(Sizes), fd |-> 0,
   in |-> <<>>, out |-> <<>>, pos |-> 0, eof |-> FALSE, past |-> FALSE,
   seek |-> FALSE, skip |-> 0, err |-> "OK",
   inf |-> "head", pend |-> <<>>,       \* inflate's state, and output it owes
   fault |-> "none"]                    \* what fails in the current call

-----------------------------------------------------------------------------
(* inflate().                                                              *)

RECURSIVE inflate(_, _, _)
inflate(t, got, room) ==
  IF t.pend # <<>>
  THEN IF Len(got) = room THEN [s |-> t, got |-> got, ret |-> "OK"]
       ELSE inflate([t EXCEPT !.pend = Tail(@)], Append(got, Head(t.pend)), room)
  ELSE IF t.in = <<>> THEN [s |-> t, got |-> got, ret |-> "OK"]
  ELSE LET i == Head(t.in)
           op == file[i].op
           used == [t EXCEPT !.in = Tail(@)]
       IN CASE t.inf = "head" /\ op = "31" -> inflate([used EXCEPT !.inf = "head2"], got, room)
            [] t.inf = "head2" /\ op = "139" -> inflate([used EXCEPT !.inf = "data"], got, room)
            [] t.inf = "data" /\ op = "data" ->
                 inflate([used EXCEPT !.pend = [k \in 1..file[i].n |-> <<i, k>>]], got, room)
            [] t.inf = "data" /\ op = "end" -> [s |-> used, got |-> got, ret |-> "STREAM_END"]
            [] OTHER -> [s |-> used, got |-> got, ret |-> "DATA_ERROR"]

-----------------------------------------------------------------------------
(* Input.                                                                  *)

\* What gz_load() reads: as much as asked for unless the file ends.  (An
\* error is met at the first read(): what was read before it is dropped.)
gz_load(t, len) ==
  LET n == Min({len, Max({seen - t.fd, 0})})
  IN IF t.fault = "read" THEN [s |-> gz_error(t, "ERRNO"), got |-> <<>>]
     ELSE [s |-> [t EXCEPT !.fd = @ + n, !.eof = @ \/ n < len],
           got |-> [i \in 1..n |-> t.fd + i]]

\* What gz_load() has read comes behind the input that is left.
Supplied(r) == IF Failed(r.s) THEN r.s ELSE [r.s EXCEPT !.in = @ \o r.got]

gz_avail(t) ==
  IF Failed(t) \/ t.eof THEN t ELSE Supplied(gz_load(t, t.size - Len(t.in)))

Allocated(t) ==
  IF t.size # 0 THEN t
  ELSE IF t.fault = "memory" THEN gz_error(t, "MEM_ERROR")
  ELSE [t EXCEPT !.size = t.want, !.in = <<>>]

Raw(in) == [i \in 1..Len(in) |-> <<in[i], 0>>]
Magic(in) == Len(in) > 1 /\ file[in[1]].op = "31" /\ file[in[2]].op = "139"

\* At least the two bytes that may begin a stream, if there are that many.
WithMagic(t) == IF Failed(t) \/ Len(t.in) >= 2 THEN t ELSE gz_avail(t)

Looked(t) ==
  CASE Failed(t) \/ t.in = <<>> -> t
    [] ~Failed(t) /\ Magic(t.in) ->
         [t EXCEPT !.inf = "head", !.pend = <<>>, !.how = "GZIP", !.direct = FALSE]
    [] ~Failed(t) /\ t.in # <<>> /\ ~Magic(t.in) /\ ~t.direct ->
         [t EXCEPT !.in = <<>>, !.eof = TRUE, !.out = <<>>]
    [] OTHER -> [t EXCEPT !.out = Raw(t.in), !.in = <<>>, !.how = "COPY"]

gz_look(t) == Looked(WithMagic(Allocated(t)))

\* Decompresses up to room bytes.  On failure what it got is lost.
RECURSIVE gz_decomp(_, _, _)

\* After a call of inflate() that returned r.
Inflated(r, room) ==
  CASE r.ret = "DATA_ERROR" -> [s |-> gz_error(r.s, "DATA_ERROR"), got |-> <<>>]
    [] r.ret = "STREAM_END" -> [s |-> [r.s EXCEPT !.how = "LOOK"], got |-> r.got]
    [] r.ret = "OK" /\ Len(r.got) < room -> gz_decomp(r.s, r.got, room)
    [] OTHER -> [s |-> r.s, got |-> r.got]

\* With input, or with none to be had.
Decompress(t, got, room) ==
  CASE Failed(t) -> [s |-> t, got |-> <<>>]
    [] ~Failed(t) /\ t.in = <<>> -> [s |-> gz_error(t, "BUF_ERROR"), got |-> got]
    [] OTHER -> Inflated(inflate(t, got, room), room)

gz_decomp(t, got, room) == Decompress(IF t.in = <<>> THEN gz_avail(t) ELSE t, got, room)

\* The output buffer takes what was decompressed, or copied.
Buffered(r) == [r.s EXCEPT !.out = r.got]
Copied(r) == [r.s EXCEPT !.out = IF Failed(r.s) THEN <<>> ELSE Raw(r.got)]

\* One round of gz_fetch().
FetchOnce(t) ==
  CASE t.how = "LOOK" -> gz_look(t)
    [] t.how = "COPY" -> Copied(gz_load(t, 2 * t.size))
    [] OTHER -> Buffered(gz_decomp(t, <<>>, 2 * t.size))

FetchDone(t, next) ==
  \/ Failed(next) \/ t.how = "COPY" \/ (t.how = "LOOK" /\ next.how = "LOOK")
  \/ next.out # <<>> \/ (next.eof /\ next.in = <<>>)

RECURSIVE gz_fetch(_)
FetchFrom(t, next) == IF FetchDone(t, next) THEN next ELSE gz_fetch(next)
gz_fetch(t) == FetchFrom(t, FetchOnce(t))

\* The next n bytes of the output buffer are used.
Drop(t, n) == [t EXCEPT !.out = SubSeq(@, n + 1, Len(@)), !.pos = @ + n]

AtEnd(t) == t.eof /\ t.in = <<>>

RECURSIVE gz_skip(_, _)
SkipMore(t, len) == IF Failed(t) THEN t ELSE gz_skip(t, len)
gz_skip(t, len) ==
  LET n == Min({Len(t.out), len})
  IN CASE len = 0 -> t
       [] len > 0 /\ t.out # <<>> -> gz_skip(Drop(t, n), len - n)
       [] len > 0 /\ t.out = <<>> /\ AtEnd(t) -> t
       [] OTHER -> SkipMore(gz_fetch(t), len)

\* Mutant: the skip that gzseek() asks for is forgotten.
SkippedNever(t) == [t EXCEPT !.seek = FALSE]

\* A skip that gzseek() asks for is done by the call that comes next.
Skipped(t) == IF t.seek THEN gz_skip([t EXCEPT !.seek = FALSE], t.skip) ELSE t

-----------------------------------------------------------------------------
(* Reading.                                                                *)

Reached(t) == AtEnd(t)

RECURSIVE ReadLoop(_, _, _)

\* The rest of a read, after g came straight into the caller's memory, or none
\* because the call failed.
ReadOn(t, g, len, got) ==
  IF Failed(t) THEN [s |-> t, got |-> <<>>]
  ELSE ReadLoop([t EXCEPT !.pos = @ + Len(g)], len - Len(g), got \o g)

Direct(r) == [r EXCEPT !.got = Raw(@)]
ReadStraight(r, len, got) == ReadOn(r.s, r.got, len, got)

ReadLoop(t, len, got) ==
  LET n == Min({Len(t.out), len})
  IN CASE len = 0 -> [s |-> t, got |-> got]
       [] len > 0 /\ t.out # <<>> -> ReadLoop(Drop(t, n), len - n, got \o SubSeq(t.out, 1, n))
       [] len > 0 /\ t.out = <<>> /\ Reached(t) -> [s |-> [t EXCEPT !.past = TRUE], got |-> got]
       [] OTHER ->
            CASE t.how = "LOOK" \/ len < 2 * t.size -> ReadOn(gz_fetch(t), <<>>, len, got)
              [] t.how = "COPY" /\ len >= 2 * t.size ->
                   ReadStraight(Direct(gz_load(t, len)), len, got)
              [] OTHER -> ReadStraight(gz_decomp(t, <<>>, len), len, got)

\* After the skip, if there was one and it did not fail.
ReadSkipped(t, sought, len) ==
  IF sought /\ Failed(t) THEN [s |-> t, got |-> <<>>] ELSE ReadLoop(t, len, <<>>)

gz_read(t, len) ==
  IF len = 0 THEN [s |-> t, got |-> <<>>] ELSE ReadSkipped(Skipped(t), t.seek, len)

\* Newlines: the last byte of data that says so.
Newline(b) == b # Pushed /\ file[b[1]].nl /\ b[2] \in {0, file[b[1]].n}

RECURSIVE GetsLoop(_, _, _)

\* Takes what is in the output buffer, up to a newline.
GetsTake(t, left, got) ==
  LET eols == {k \in 1..Min({Len(t.out), left}) : Newline(t.out[k])}
      n == IF eols = {} THEN Min({Len(t.out), left}) ELSE Min(eols)
      all == got \o SubSeq(t.out, 1, n)
  IN CASE Failed(t) -> [s |-> t, got |-> <<>>]
       [] ~Failed(t) /\ t.out = <<>> -> [s |-> [t EXCEPT !.past = TRUE], got |-> got]
       [] OTHER -> IF eols # {} THEN [s |-> Drop(t, n), got |-> all]
                   ELSE GetsLoop(Drop(t, n), left - n, all)

GetsLoop(t, left, got) ==
  IF left = 0 THEN [s |-> t, got |-> got]
  ELSE GetsTake(IF t.out = <<>> THEN gz_fetch(t) ELSE t, left, got)

GetsSkipped(t, sought, len) ==
  IF sought /\ Failed(t) THEN [s |-> t, got |-> <<>>] ELSE GetsLoop(t, len - 1, <<>>)

-----------------------------------------------------------------------------
(* The functions.                                                          *)

Usable == ~Failed(s) /\ s.how \notin {"CLOSED", "CRASHED"}

\* gztell(): a skip that is not done yet counts.
Tell(t) == t.pos + (IF t.seek THEN t.skip ELSE 0)

NoRead(at) == [from |-> at, got |-> <<>>, past |-> s.past]

\* A call ends with t, and the application takes itself to be at that place.
Ends(t, at) ==
  /\ s' = [t EXCEPT !.fault = "none"]
  /\ hist' = [at |-> at, last |-> NoRead(at)]
  /\ UNCHANGED <<file, seen>>

\* A call ends with t and has read got, from that place on.  If it has not, a
\* seek may have ended at the end of the file.
EndsFrom(from, t, got) ==
  /\ s' = [t EXCEPT !.fault = "none"]
  /\ hist' = [at |-> IF got = <<>> THEN Tell(t) ELSE from + Len(got),
              last |-> [from |-> from, got |-> got, past |-> s.past]]
  /\ UNCHANGED <<file, seen>>

\* Where a call starts to read: a skip does not go beyond an end of the file
\* that was met before, though the file may have grown.
Begins ==
  IF s.seek /\ AtEnd(s) THEN Min({hist.at, s.pos + Len(s.out)}) ELSE hist.at

EndsWith(t, got) == EndsFrom(Begins, t, got)

Returns(r) == EndsWith(r.s, r.got)

Broken == {[s EXCEPT !.fault = f] : f \in {"none", "read"} \cup (IF s.size = 0 THEN {"memory"} ELSE {})}

gzbuffer(size) ==
  /\ Usable /\ s.size = 0
  /\ Ends([s EXCEPT !.want = Max({size, 2})], hist.at)

\* gzread() and gzfread().
gzread(len) ==
  /\ Usable
  /\ \E t \in Broken : Returns(gz_read(t, len))

gzgetc ==
  /\ Usable
  /\ \E t \in Broken :
       IF t.out # <<>> THEN EndsFrom(hist.at, Drop(t, 1), <<t.out[1]>>) ELSE Returns(gz_read(t, 1))

gzgets(len) ==
  /\ Usable
  /\ \E t \in Broken : Returns(GetsSkipped(Skipped(t), t.seek, len))

-----------------------------------------------------------------------------
(* Reference: what the file holds.                                         *)

RECURSIVE Streams(_, _, _)
Streams(i, in, got) ==
  CASE i > Len(file) -> [data |-> got, whole |-> ~in]
    [] i <= Len(file) /\ ~in ->
         IF Magic([k \in 1..Min({2, Len(file) - i + 1}) |-> i + k - 1]) THEN Streams(i + 2, TRUE, got)
         ELSE [data |-> got, whole |-> TRUE]
    [] OTHER ->
         CASE file[i].op = "data" -> Streams(i + 1, TRUE, got \o [k \in 1..file[i].n |-> <<i, k>>])
           [] file[i].op = "end" -> Streams(i + 1, FALSE, got)
           [] OTHER -> [data |-> got, whole |-> FALSE]

All == [i \in 1..Len(file) |-> i]
Contents == IF Magic(All) THEN Streams(1, FALSE, <<>>) ELSE [data |-> Raw(All), whole |-> TRUE]

-----------------------------------------------------------------------------

\* An empty buffer is written at its end.  There is none before anything was
\* read: the byte would go in front of address 0, which ends the process.
PushIntoNothing(t) == Ends([t EXCEPT !.how = "CRASHED"], t.pos)

\* gzungetc() of the byte before the position, as after reading it, or of one
\* in front of the data.  No more are pushed there: a bound.
PushBack(t, sought) ==
  LET p == t.pos
  IN IF sought /\ Failed(t) THEN EndsWith(t, <<>>)
     ELSE /\ p \in 0..Len(Contents.data)
          /\ CASE t.out = <<>> /\ t.size = 0 -> PushIntoNothing(t)
               [] t.out # <<>> /\ Len(t.out) = 2 * t.size -> Ends(gz_error(t, "DATA_ERROR"), p)
               [] OTHER ->
                    Ends([t EXCEPT !.out = <<IF p = 0 THEN Pushed ELSE Contents.data[p]>> \o @,
                                   !.pos = p - 1, !.past = FALSE],
                         (IF sought THEN p ELSE hist.at) - 1)

gzungetc ==
  /\ Usable
  /\ \E t \in Broken : PushBack(Skipped(t), t.seek)

\* gzrewind(): the input begins anew.
Rewound(t) == gz_reset([t EXCEPT !.fd = 0])
gzrewind == Usable /\ Ends(Rewound(s), 0)

\* gzseek() forwards in what is decompressed.
Forwards(t, offset) ==
  LET n == Min({Len(t.out), offset})
      d == Drop(t, n)
  IN IF offset = n THEN d ELSE [d EXCEPT !.seek = TRUE, !.skip = offset - n]

\* gzseek() in a file that is copied: the file itself is moved.
Directly(t, offset) ==
  [gz_error(t, "OK") EXCEPT !.fd = @ + offset - Len(t.out), !.out = <<>>, !.eof = FALSE,
                            !.past = FALSE, !.in = <<>>, !.pos = @ + offset]

\* The offset from the current position that is asked for.
Relative(offset, whence) ==
  IF whence = "SET" THEN offset - s.pos ELSE offset + (IF s.seek THEN s.skip ELSE 0)

gzseek(offset, whence) ==
  /\ Usable
  /\ hist.at + offset <= MaxPos
  /\ LET t == [s EXCEPT !.seek = FALSE]
         by == Relative(offset, whence)
         to == IF whence = "SET" THEN offset ELSE hist.at + offset
         moved == IF s.how = "COPY" THEN Directly(t, by)
                  ELSE IF by < 0 THEN Forwards(Rewound(t), s.pos + by) ELSE Forwards(t, by)
     IN IF s.pos + by < 0 THEN Ends(t, s.pos)
        ELSE Ends(moved, to)

\* Fatal errors are not cleared: the application closes the file then.
gzclearerr ==
  /\ Usable
  /\ s' = [gz_error(s, "OK") EXCEPT !.eof = FALSE, !.past = FALSE]
  /\ UNCHANGED <<file, seen, hist>>

gzdirect ==
  /\ Usable
  /\ s.how = "LOOK" /\ s.out = <<>>
  /\ \E t \in Broken : Ends(gz_look(t), hist.at)

\* Whether the file ended within a stream is in the result.
gzclose_r ==
  /\ s.how \notin {"CLOSED", "CRASHED"}
  /\ s' = [Opened EXCEPT !.how = "CLOSED", !.err = IF s.err = "BUF_ERROR" THEN s.err ELSE "OK"]
  /\ hist' = [hist EXCEPT !.last = NoRead(hist.at)]
  /\ UNCHANGED <<file, seen>>

\* Somebody appends to the file, but never half of what begins a stream.
Grow ==
  /\ Usable
  /\ \E n \in seen + 1..Len(file) : (n = Len(file) \/ file[n].op # "31") /\ seen' = n
  /\ UNCHANGED <<file, s, hist>>

Init ==
  /\ file \in Files
  /\ seen \in {Len(file)} \cup {n \in {0, 3} : n < Len(file) /\ (n = 0 \/ file[n].op # "31")}
  /\ s = Opened
  /\ hist = [at |-> 0, last |-> NoRead(0)]

Next ==
  \/ \E n \in Sizes : gzbuffer(n)
  \/ \E n \in Lengths : gzread(n) \/ gzgets(n)
  \/ gzgetc \/ gzungetc \/ gzrewind \/ gzclearerr \/ gzdirect \/ Grow
  \/ \E o \in Offsets, w \in {"SET", "CUR"} : gzseek(o, w)
  \/ gzclose_r \/ (s.how \in {"CLOSED", "CRASHED"} /\ UNCHANGED vars)

Spec == Init /\ [][Next]_vars

-----------------------------------------------------------------------------
(* Properties.                                                             *)

Data == Contents.data
DataAt(p, b) ==
  /\ p + Len(b) <= Len(Data)
  /\ \A k \in 1..Len(b) : b[k] = IF p + k = 0 THEN Pushed ELSE Data[p + k]

\* The skip that is still to come after a read: gzgetc() takes what is in the
\* output buffer without it, as there is after gzseek() and gzdirect().
Unskipped == IF s.seek THEN s.skip ELSE 0

\* Whatever sequence of reads, seeks, push-backs and retries, gzread(),
\* gzgetc() and gzgets() deliver what the file holds at the position where
\* the application is, over the ends of buffers and of streams; but for a
\* gzgetc() in front of a skip, whose byte is as much too early as is to be
\* skipped.
ReadsFile ==
  Usable =>
    LET l == hist.last IN l.got = <<>> \/ DataAt(l.from - Unskipped, l.got)

\* The comment in gzgetc(), "no need to check for skip request": what it takes
\* is at the position.
NoNeedToSkip ==
  Usable =>
    LET l == hist.last IN l.got = <<>> \/ DataAt(l.from, l.got)

\* gztell() is where the application is, and what is buffered continues there.
TellsPosition ==
  Usable =>
    /\ Tell(s) = hist.at
    /\ s.out # <<>> => DataAt(s.pos, s.out)

\* A read that sets the end-of-file indicator has delivered all that there
\* is, unless the file ends within a stream.
EofAtEnd ==
  s.past /\ ~hist.last.past /\ Usable /\ s.fd >= Len(file) /\ Contents.whole =>
    hist.at >= Len(Data)

\* zlib.h on gzungetc(): "If gzungetc is used immediately after gzopen or
\* gzdopen, at least the output buffer size of pushed characters is allowed."
PushAllowed == s.how # "CRASHED"

\* Once gzeof() is true the read functions return no more data, until
\* gzclearerr().
NoMoreAfterEof == hist.last.past => hist.last.got = <<>>

\* After a read that came up short in the middle of a stream, gzerror() says
\* Z_BUF_ERROR.
TruncationTold ==
  s.past /\ Usable /\ seen = Len(file) /\ s.fd = seen /\ ~Contents.whole => s.err # "OK"
=============================================================================

------------------------------- MODULE GzWrite ------------------------------
(***************************************************************************)
(* zlib's gz* functions on a file opened for writing: small writes         *)
(* collected in a buffer, deflate(), its output collected in another, and  *)
(* a disk that may become full.                                            *)
(*                                                                         *)
(* A byte of data is the place it is written to, counted from 1; a zero    *)
(* that gzseek() asks for is 0, and memory that nobody has set is -1.      *)
(* deflate() turns a byte into a token of one byte, and holds some of      *)
(* them back unless it is told to flush.                                   *)
(***************************************************************************)
EXTENDS GzOpen, Integers, FiniteSetsExt

CONSTANTS
  Modes,        \* mode strings
  Sizes,        \* buffer sizes
  Lengths,      \* bytes that one call writes
  Skips,        \* offsets of gzseek()
  Space,        \* bytes that the disk has room for
  Hold,         \* tokens that deflate() holds back
  MaxData       \* bound: bytes of data

\* What the constants must be; the modules that instantiate this one assume it.
GzWriteAssumption == 0 \notin Sizes /\ Hold \in Nat /\ MaxData \in Nat /\ Space \subseteq Nat

VARIABLES
  w,            \* the gz_state
  disk, space,  \* what the file holds, and room for more
  data,         \* history: what the application has written
  done          \* history: result of the last flush, or of gzclose()

vars == <<w, disk, space, data, done>>

Token(op, val) == [op |-> op, val |-> val]
Tokens(b) == [i \in 1..Len(b) |-> Token("data", b[i])]
Failed(t) == t.err # "OK"

\* After gz_open(): nothing is allocated.  A file is truncated or appended to.
Init ==
  /\ \E m \in Modes, size \in Sizes, earlier \in {<<>>, <<Token("head", 0), Token("end", 0)>>} :
       LET o == gz_open(m)
       IN /\ ~o.refused /\ o.mode # "READ"
          /\ w = [open |-> TRUE, direct |-> o.direct, size |-> 0, want |-> size, in |-> <<>>,
                  q |-> <<>>, begun |-> FALSE, ended |-> FALSE, out |-> <<>>, room |-> 0,
                  seek |-> FALSE, skip |-> 0, err |-> "OK", disk |-> <<>>, space |-> 0]
          /\ disk = IF o.mode = "APPEND" THEN earlier ELSE <<>>
  /\ space \in Space
  /\ data = <<>> /\ done = "none"

-----------------------------------------------------------------------------
(* deflate() and write().                                                  *)

\* deflate() takes all of the input and puts out what there is room for.
deflate(t, flush) ==
  LET head == IF t.begun THEN <<>> ELSE <<Token("head", 0)>>
      end == IF flush = "FINISH" /\ ~t.ended THEN <<Token("end", 0)>> ELSE <<>>
      q == t.q \o head \o Tokens(t.in) \o end
      due == IF flush = "NO_FLUSH" THEN Max({Len(q) - Hold, 0}) ELSE Len(q)
      n == Min({t.room, due})
  IN [t EXCEPT !.q = SubSeq(q, n + 1, Len(q)), !.begun = TRUE, !.ended = flush = "FINISH", !.in = <<>>,
               !.out = @ \o SubSeq(q, 1, n), !.room = @ - n]

\* All of b is written, or what there is space for before the error.
Write(t, b) ==
  LET n == Min({Len(b), t.space})
  IN [t EXCEPT !.disk = @ \o SubSeq(b, 1, n), !.space = @ - n,
               !.err = IF n < Len(b) THEN "ERRNO" ELSE @]

\* The output buffer is written, and begins anew if it was full.
Emptied(t) == IF Failed(t) \/ t.room # 0 THEN t ELSE [t EXCEPT !.room = t.size]
WriteOut(t) ==
  LET n == Min({Len(t.out), t.space})
  IN Emptied([Write(t, t.out) EXCEPT !.out = SubSeq(@, n + 1, Len(@))])

gz_init(t) == [t EXCEPT !.size = t.want, !.room = t.want]

\* When the output buffer is written, before deflate() is called again.
WritesNow(t, flush, ended) ==
  t.room = 0 \/ (flush # "NO_FLUSH" /\ (flush # "FINISH" \/ ended))

RECURSIVE CompLoop(_, _, _)

\* After a call of deflate(): it is called again as long as it gives output.
Deflated(t, room, flush) ==
  IF t.room # room THEN CompLoop(t, flush, t.ended /\ t.q = <<>>) ELSE t

Deflate(t, flush) == IF Failed(t) THEN t ELSE Deflated(deflate(t, flush), t.room, flush)

CompLoop(t, flush, ended) == Deflate(IF WritesNow(t, flush, ended) THEN WriteOut(t) ELSE t, flush)

\* deflateReset(): another stream may begin.
Restarted(t) == [t EXCEPT !.begun = FALSE, !.ended = FALSE, !.q = <<>>]

Finished(t, flush) == IF Failed(t) \/ flush # "FINISH" THEN t ELSE Restarted(t)

Compress(t, flush) ==
  LET n == Min({Len(t.in), t.space})
  IN IF t.direct THEN [Write(t, Tokens(t.in)) EXCEPT !.in = SubSeq(@, n + 1, Len(@))]
     ELSE Finished(CompLoop(t, flush, FALSE), flush)

Ready(t) == IF t.size = 0 THEN gz_init(t) ELSE t
gz_comp(t, flush) == Compress(Ready(t), flush)

-----------------------------------------------------------------------------
(* Data on its way to deflate().                                           *)

\* Zeros are cleared once, in the first piece; the piece has no bytes if the
\* buffer is not allocated yet.
RECURSIVE Zeros(_, _, _)
ZerosOn(t, len, cleared) == IF Failed(t) THEN t ELSE Zeros(t, len, cleared)
Zeros(t, len, cleared) ==
  LET n == Min({t.size, len})
      known == IF cleared = -1 THEN n ELSE cleared
      piece == [i \in 1..n |-> IF i <= known THEN 0 ELSE -1]
  IN IF len = 0 THEN t ELSE ZerosOn(gz_comp([t EXCEPT !.in = piece], "NO_FLUSH"), len - n, known)

\* What is in the buffer goes first.
Passed(t) == IF t.in # <<>> THEN gz_comp(t, "NO_FLUSH") ELSE t

gz_zero(t, len) == ZerosOn(Passed(t), len, -1)

\* What every function begins with.
Sought(t) == IF t.seek THEN gz_zero([t EXCEPT !.seek = FALSE], t.skip) ELSE t

RECURSIVE SmallWrite(_, _)
SmallRest(t, b) == IF Failed(t) THEN t ELSE SmallWrite(t, b)
SmallWrite(t, b) ==
  LET n == Min({t.size - Len(t.in), Len(b)})
      f == [t EXCEPT !.in = @ \o SubSeq(b, 1, n)]
  IN IF n = Len(b) THEN f ELSE SmallRest(gz_comp(f, "NO_FLUSH"), SubSeq(b, n + 1, Len(b)))

\* Mutant: a large write overtakes what is in the buffer.
LargeWriteFirst(t, b) == gz_comp([t EXCEPT !.in = b \o @], "NO_FLUSH")

LargeRest(t, b) == IF Failed(t) THEN t ELSE gz_comp([t EXCEPT !.in = b], "NO_FLUSH")
LargeWrite(t, b) == LargeRest(Passed(t), b)

WriteSought(t, b) ==
  IF Failed(t) THEN t ELSE IF Len(b) < t.size THEN SmallWrite(t, b) ELSE LargeWrite(t, b)
gz_write(t, b) == WriteSought(Sought(Ready(t)), b)

-----------------------------------------------------------------------------
(* The functions.                                                          *)

Usable == w.open /\ ~Failed(w)
Disk == [w EXCEPT !.disk = disk, !.space = space]

\* What the application has written once n more bytes are.
Zeroed == IF w.seek THEN data \o [i \in 1..w.skip |-> 0] ELSE data
More(n) == [i \in 1..n |-> Len(Zeroed) + i]

Ends(t, all, result) ==
  /\ w' = [t EXCEPT !.disk = <<>>, !.space = 0]
  /\ disk' = t.disk /\ space' = t.space
  /\ data' = all /\ done' = result
Fits(n) == Len(Zeroed) + n <= MaxData

gzbuffer(size) ==
  /\ Usable /\ w.size = 0
  /\ w' = [w EXCEPT !.want = size]
  /\ UNCHANGED <<disk, space, data, done>>

\* gzwrite(), gzfwrite() and gzputs().
gzwrite(n) ==
  /\ Usable /\ Fits(n)
  /\ Ends(gz_write(Disk, More(n)), Zeroed \o More(n), "none")

\* A byte goes straight into the buffer if that has room.
Put(t, b) ==
  IF Failed(t) THEN t
  ELSE IF t.size # 0 /\ Len(t.in) < t.size THEN [t EXCEPT !.in = @ \o b] ELSE gz_write(t, b)

gzputc ==
  /\ Usable /\ Fits(1)
  /\ Ends(Put(Sought(Disk), More(1)), Zeroed \o More(1), "none")

\* The text is put behind what is in the buffer, which has twice the size,
\* and nothing is written if it is as long as a buffer.
PrintRest(t, rest) == IF Failed(t) THEN t ELSE [t EXCEPT !.in = rest]
Printed(t, all) ==
  IF Len(all) < t.size THEN [t EXCEPT !.in = all]
  ELSE PrintRest(gz_comp([t EXCEPT !.in = SubSeq(all, 1, t.size)], "NO_FLUSH"),
                 SubSeq(all, t.size + 1, Len(all)))

PrintSought(t, n) ==
  IF Failed(t) \/ n >= t.size THEN Ends(t, Zeroed, "none")
  ELSE Ends(Printed(t, t.in \o More(n)), Zeroed \o More(n), "none")

gzprintf(n) == Usable /\ Fits(n) /\ PrintSought(Sought(Ready(Disk)), n)

Flushed(t, flush) == IF Failed(t) THEN t ELSE gz_comp(t, flush)
EndsFlush(t) == Ends(t, Zeroed, IF Failed(t) THEN "failed" ELSE "flushed")
gzflush(flush) == Usable /\ EndsFlush(Flushed(Sought(Disk), flush))

\* The old parameters are good for what is in the buffer.  deflateParams()
\* flushes as well.
OldParams(t) == IF Failed(t) \/ t.size = 0 \/ t.in = <<>> THEN t ELSE gz_comp(t, "BLOCK")
NewParams(t) == IF Failed(t) \/ t.size = 0 \/ t.direct THEN t ELSE deflate(t, "BLOCK")
gzsetparams == Usable /\ Ends(NewParams(OldParams(Sought(Disk))), Zeroed, "none")

gzseek(n) ==
  /\ Usable
  /\ LET skip == n + (IF w.seek THEN w.skip ELSE 0)
     IN /\ Len(data) + skip <= MaxData
        /\ w' = [w EXCEPT !.seek = skip > 0, !.skip = IF skip > 0 THEN skip ELSE @]
  /\ done' = "none"
  /\ UNCHANGED <<disk, space, data>>

\* Everything is freed, whether or not a skip that was pending failed.
EndsClose(t, failed) ==
  Ends([t EXCEPT !.open = FALSE, !.in = <<>>, !.q = <<>>, !.out = <<>>, !.seek = FALSE],
       Zeroed, IF failed \/ Failed(t) THEN "failed" ELSE "closed")
Close(t) == EndsClose(gz_comp(t, "FINISH"), Failed(t))
gzclose_w == w.open /\ Close(Sought(Disk))

Next ==
  \/ \E n \in Sizes : gzbuffer(n)
  \/ \E n \in Lengths : gzwrite(n) \/ gzprintf(n)
  \/ gzputc \/ gzsetparams \/ gzclose_w
  \/ \E f \in {"SYNC", "FINISH"} : gzflush(f)
  \/ \E n \in Skips : gzseek(n)
  \/ ~w.open /\ UNCHANGED vars

Spec == Init /\ [][Next]_vars

-----------------------------------------------------------------------------
(* Properties.                                                             *)

\* Reference: what the file stands for.
Stored == LET d == SelectSeq(disk, LAMBDA t : t.op = "data") IN [i \in 1..Len(d) |-> d[i].val]

\* At any time the file holds the beginning of what was written: nothing is
\* lost in between, doubled or out of order.  But for what stands for zeros when
\* gz_zero() comes before anything is allocated: memory nobody has set.
HoldsPrefix ==
  /\ Len(Stored) <= Len(data)
  /\ \A i \in 1..Len(Stored) : Stored[i] = data[i] \/ (Stored[i] = -1 /\ data[i] = 0)

\* After gzflush(), and after gzclose(), all that was written is in the file,
\* or the call has said that it failed.
FlushedAll == done \in {"flushed", "closed"} => Len(Stored) = Len(data)

\* zlib.h of gzseek(): it compresses a sequence of zeroes up to the new position.
ZeroesWritten == -1 \notin {Stored[i] : i \in 1..Len(Stored)}

\* Streams begin and end in turn, and none is open once the file is closed.
StreamsWhole ==
  LET marks == SelectSeq(disk, LAMBDA t : t.op # "data")
  IN /\ \A i \in 1..Len(marks) : marks[i].op = IF i % 2 = 1 THEN "head" ELSE "end"
     /\ done = "closed" => Len(marks) % 2 = 0
=============================================================================

----------------------------- MODULE Uncompress -----------------------------
(***************************************************************************)
(* zlib's compress2() and uncompress2(), which the connector calls for     *)
(* each packet: buffers of any size through streams whose counters are     *)
(* shorter, handed over in pieces of at most Piece, (uInt)-1 in the code.  *)
(* Of inflate() and deflate() this keeps how they use up input, produce    *)
(* output and say what happened: each byte of input stands for some bytes  *)
(* of output, and the source is given by how many there are up to it.      *)
(***************************************************************************)
EXTENDS Integers, Sequences, FiniteSetsExt

CONSTANTS
  Piece,        \* largest value of avail_in and avail_out
  MaxSource,    \* bound: bytes of the source
  Totals,       \* bytes of output that the source can stand for up to a byte of it
  DestLens,     \* sizes of the destination
  Events        \* how a stream can end

\* What the constants must be; the modules that instantiate this one assume it.
UtilityAssumption ==
  /\ Piece \in Nat \ {0} /\ MaxSource \in Nat /\ Totals \subseteq Nat /\ DestLens \subseteq Nat
  /\ Events \subseteq {"end", "corrupt", "dict", "truncated"}

VARIABLES
  call,         \* "compress2" or "uncompress2"
  src, event,   \* the output up to each byte, and what inflate() meets behind the last one
  trailing,     \* bytes of the source behind the end
  destLen,
  left, len,    \* room and source that are not handed over yet
  stream,       \* avail_in, avail_out, total_in, total_out
  pending,      \* output that inflate() or deflate() owes
  moved,        \* the current call has used input or produced output
  err,          \* of the last call, "call" during one
  result        \* of the whole

args == <<call, src, event, trailing, destLen>>
vars == <<args, left, len, stream, pending, moved, err, result>>

Inflates == call = "uncompress2"
\* Of compressed data, one more byte: the header, which deflate() always owes.
Header == IF Inflates THEN 0 ELSE 1
\* The output that the first i bytes of the source stand for, and all of them.
Made(i) == Header + (IF i = 0 THEN 0 ELSE src[i])
Output == Made(Len(src))

\* A destination of no bytes is replaced by one of one byte.
Room == IF Inflates /\ destLen = 0 THEN 1 ELSE destLen

Init ==
  /\ call \in {"compress2", "uncompress2"}
  /\ src \in UNION {[1..n -> Totals] : n \in 0..MaxSource}
  /\ \A i, j \in 1..Len(src) : i <= j => src[i] <= src[j]
  /\ event \in IF Inflates THEN Events ELSE {"end"}
  /\ trailing \in IF Inflates /\ event # "truncated" THEN {0, 1} ELSE {0}
  /\ destLen \in DestLens
  /\ left = Room
  /\ len = Len(src) + trailing
  /\ stream = [avail_in |-> 0, avail_out |-> 0, total_in |-> 0, total_out |-> 0]
  /\ pending = Header /\ moved = FALSE /\ err = "OK" /\ result = "none"

\* What is handed over next of what is left.
Hand(avail, rest) == IF avail = 0 THEN Min({Piece, rest}) ELSE 0

\* One round of the loop, up to the call of inflate() or deflate().
Round ==
  /\ err = "OK" /\ result = "none"
  /\ LET out == Hand(stream.avail_out, left)
         in == Hand(stream.avail_in, len)
     IN /\ stream' = [stream EXCEPT !.avail_out = @ + out, !.avail_in = @ + in]
        /\ left' = left - out
        /\ len' = len - in
  /\ err' = "call" /\ moved' = FALSE
  /\ UNCHANGED <<args, pending, result>>

\* Within the call: output that is owed is written as far as there is room.
CanProduce == pending > 0 /\ stream.avail_out > 0
Produce ==
  /\ err = "call" /\ CanProduce
  /\ LET n == Min({pending, stream.avail_out})
     IN /\ stream' = [stream EXCEPT !.avail_out = @ - n, !.total_out = @ + n]
        /\ pending' = pending - n
  /\ moved' = TRUE
  /\ UNCHANGED <<args, left, len, err, result>>

\* Input is read; inflate() has written all of the last byte before.
CanConsume ==
  /\ stream.avail_in > 0 /\ stream.total_in < Len(src)
  /\ Inflates => pending = 0
Consume ==
  /\ err = "call" /\ CanConsume
  /\ stream' = [stream EXCEPT !.avail_in = @ - 1, !.total_in = @ + 1]
  /\ pending' = pending + Made(stream.total_in + 1) - Made(stream.total_in)
  /\ moved' = TRUE
  /\ UNCHANGED <<args, left, len, err, result>>

\* Everything is read and written: the stream's end, or what is wrong with it.
AtEvent == pending = 0 /\ stream.total_in = Len(src) /\ event # "truncated"

\* Nothing was read, nothing written, and there is more to do.
BufError == ~moved /\ (~AtEvent \/ (~Inflates /\ stream.avail_out = 0))

Return ==
  /\ err = "call" /\ ~CanProduce /\ ~CanConsume
  /\ err' = IF BufError THEN "BUF_ERROR" ELSE
       CASE AtEvent /\ event = "end" /\ (Inflates \/ len = 0) -> "STREAM_END"
         [] AtEvent /\ event = "corrupt" -> "DATA_ERROR"
         [] AtEvent /\ event = "dict" -> "NEED_DICT"
         [] OTHER -> "OK"
  /\ UNCHANGED <<args, left, len, stream, pending, moved, result>>

\* Mutant: running out of input is reported as running out of room.
UncompressResultPlain == IF err = "STREAM_END" THEN "OK" ELSE IF err = "NEED_DICT" THEN "DATA_ERROR" ELSE err

\* What uncompress2() makes of the error: no room is left, or input is missing.
UncompressResult ==
  LET rest == IF destLen = 0 /\ stream.total_out > 0 /\ err = "BUF_ERROR" THEN 1 ELSE left
  IN CASE err = "STREAM_END" -> "OK" [] err = "NEED_DICT" -> "DATA_ERROR"
       [] err = "BUF_ERROR" /\ rest + stream.avail_out # 0 -> "DATA_ERROR" [] OTHER -> err

\* Behind the loop.  *destLen and *sourceLen are then GotLen and UsedLen.
Finish ==
  /\ err \notin {"OK", "call"} /\ result = "none"
  /\ result' = IF Inflates THEN UncompressResult ELSE IF err = "STREAM_END" THEN "OK" ELSE err
  /\ UNCHANGED <<args, left, len, stream, pending, moved, err>>
GotLen == IF Inflates /\ destLen = 0 THEN 0 ELSE stream.total_out
UsedLen == Len(src) + trailing - (len + stream.avail_in)

Next == Round \/ Produce \/ Consume \/ Return \/ Finish \/ (result # "none" /\ UNCHANGED vars)
Spec == Init /\ [][Next]_vars

-----------------------------------------------------------------------------
(* Properties.                                                             *)

\* What the comment above uncompress2() promises: Z_BUF_ERROR for too little
\* room, Z_DATA_ERROR for input that is wrong or incomplete, Z_OK otherwise.
Documented == IF Output > destLen THEN "BUF_ERROR" ELSE IF event = "end" THEN "OK" ELSE "DATA_ERROR"

\* The two ways the code has of saying something else.  Input that ends when
\* it has just filled the room does not differ, to the last test, from output
\* that does not fit.  A destination of no bytes is replaced by one of one.
EndsAtTheRim == event = "truncated" /\ Output = destLen /\ destLen > 0
RoomReplaced == Inflates /\ destLen = 0 /\ Output > 0

\* compress2() and uncompress2() say what happened, whatever the pieces: all
\* is there and fits, the room was too small, or the stream was incomplete or
\* wrong within the part that fits; and they report what they used and wrote.
\* But for two cases: input that ends when the room is full is Z_BUF_ERROR; and
\* with no room at all a whole stream of one byte is Z_OK, and the byte is lost,
\* and everything else Z_DATA_ERROR.
ResultsExact ==
  result # "none" =>
    /\ result = IF EndsAtTheRim THEN "BUF_ERROR"
                ELSE IF RoomReplaced THEN (IF event = "end" /\ Output = 1 THEN "OK" ELSE "DATA_ERROR")
                ELSE Documented
    /\ result = "OK" => UsedLen = Len(src) /\ GotLen = IF RoomReplaced THEN 0 ELSE Output
    /\ UsedLen = stream.total_in

\* The loop has ended.
Ended == result # "none"

\* The comment of uncompress2(): upon exit, *destLen is the size of the
\* decompressed data, so Z_OK means that the destination holds all of it.
OkMeansAll == result = "OK" => GotLen = Output

\* The comment of uncompress2(): Z_BUF_ERROR means that the room was too small,
\* and an incomplete stream is Z_DATA_ERROR.
RoomWasTooSmall == result = "BUF_ERROR" => Output > destLen
=============================================================================

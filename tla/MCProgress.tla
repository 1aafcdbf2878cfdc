----------------------------- MODULE MCProgress -----------------------------
(***************************************************************************)
(* What must eventually happen in a job on one thread, for TLC: the        *)
(* retries of an action end, and so do the loops of zlib, however small    *)
(* the pieces are. A behaviour belongs to one component. Variables of the  *)
(* same name are shared by the components that have them, and Off in the   *)
(* others.                                                                 *)
(***************************************************************************)
EXTENDS Integers, Sequences

CONSTANT Garbage   \* a byte nobody has written

VARIABLES
  part,         \* the component, and its instance, that the behaviour belongs to
  link, open, nextId, losses, stmt, cached, connErr, kind, hasRetried,
  hasRetriedStatement, errorno, qErr, walk, timer, binds, results, pushed,
  jobs, applied, answerLost, cutShort, crossed, wrong, dead,   \* Executor
  pc,   \* Executor, Inflate
  avail_in, avail_out, uncounted, st, field, hist,   \* Inflate
  call,   \* Inflate, Uncompress, DeflateStream
  src, event, trailing, destLen, left, len, stream, pending, moved, err,
  result,   \* Uncompress
  strm, heap   \* DeflateStream

executorVars == <<link, open, nextId, losses, stmt, cached, connErr, kind,
  hasRetried, hasRetriedStatement, errorno, qErr, walk, timer, binds, results,
  pushed, jobs, applied, answerLost, cutShort, crossed, wrong, dead>>
inflateVars == <<avail_in, avail_out, uncounted, st, field, hist>>
uncompressVars == <<src, event, trailing, destLen, left, len, stream, pending,
  moved, err, result>>
deflateStreamVars == <<strm, heap>>
vars == <<part, executorVars, pc, inflateVars, call, uncompressVars, deflateStreamVars>>

\* What a component has no use for.
Off == "off"
executorOff == link = Off /\ open = Off /\ nextId = Off /\ losses = Off /\
  stmt = Off /\ cached = Off /\ connErr = Off /\ kind = Off /\ hasRetried = Off /\
  hasRetriedStatement = Off /\ errorno = Off /\ qErr = Off /\ walk = Off /\
  timer = Off /\ binds = Off /\ results = Off /\ pushed = Off /\ jobs = Off /\
  applied = Off /\ answerLost = Off /\ cutShort = Off /\ crossed = Off /\
  wrong = Off /\ dead = Off
inflateOff == avail_in = Off /\ avail_out = Off /\ uncounted = Off /\ st = Off /\
  field = Off /\ hist = Off
uncompressOff == src = Off /\ event = Off /\ trailing = Off /\ destLen = Off /\
  left = Off /\ len = Off /\ stream = Off /\ pending = Off /\ moved = Off /\
  err = Off /\ result = Off
deflateStreamOff == strm = Off /\ heap = Off

-----------------------------------------------------------------------------
\* Two statements and two losses, so that the retry is lost again; one result,
\* and one more of a failure.
Exec == INSTANCE Executor WITH
  NumStmts <- 2, MaxJobs <- 2, MaxLosses <- 2,
  MaxResults <- 1

\* Raw data in chunks of one byte and more.
Inf == INSTANCE Inflate WITH
  Bytes <- {"x"}, MaxMatch <- 4, WSize <- 3,
  Wraps <- {{}}, Dictionary <- <<>>, InChunks <- {1, 16}, OutChunks <- {1, 9},
  Flushes <- {"NO"}, StoredLengths <- {0, 2}, NumLens <- 4, MaxCodes <- 1,
  MaxBlocks <- 2, MaxResets <- 0, MemoryFails <- FALSE

\* Sources of up to four bytes in pieces of two.
Unc == INSTANCE Uncompress WITH
  Piece <- 2, MaxSource <- 4, Totals <- {0, 1, 3, 6, 9},
  DestLens <- {0, 1, 2, 3, 5, 12}, Events <- {"end", "corrupt", "dict", "truncated"}

\* One byte of room in each call, with flushes in between.
Fin == INSTANCE DeflateStream WITH
  Streams <- {"a"}, WindowBits <- {25},
  Heads <- {[extra |-> 4, name |-> -1, comment |-> 2, hcrc |-> TRUE]},
  Calls <- {"NO_FLUSH", "SYNC_FLUSH", "FINISH"}, Rooms <- {1}, MaxIn <- 1,
  MaxFlushes <- 1, MaxResets <- 0, PendingSize <- 3, ByteBits <- 2, LitBuf <- 2,
  Lookahead <- 2, Extras <- {}

ASSUME ComponentsAssumption ==
  /\ Exec!ExecutorAssumption
  /\ Inf!FormatAssumption /\ Inf!InflateAssumption
  /\ Unc!UtilityAssumption
  /\ Fin!StreamAssumption

-----------------------------------------------------------------------------
Init ==
  \/ part = "executor" /\ Exec!Init /\ inflateOff /\ call = Off /\ uncompressOff /\
     deflateStreamOff
  \/ part = "inflate" /\ Inf!Init /\ executorOff /\ uncompressOff /\ deflateStreamOff
  \/ part = "uncompress" /\ Unc!Init /\ executorOff /\ pc = Off /\ inflateOff /\
     deflateStreamOff
  \/ part = "deflate" /\ Fin!Init /\ executorOff /\ pc = Off /\ inflateOff /\
     uncompressOff

NotExecutor == <<part, inflateVars, call, uncompressVars, deflateStreamVars>>
NotInflate == <<part, executorVars, uncompressVars, deflateStreamVars>>
NotUncompress == <<part, executorVars, pc, inflateVars, deflateStreamVars>>
NotDeflateStream == <<part, executorVars, pc, inflateVars, uncompressVars>>

ExecNext == part = "executor" /\ Exec!Next /\ UNCHANGED NotExecutor
InfNext == part = "inflate" /\ Inf!Next /\ UNCHANGED NotInflate
UncNext == part = "uncompress" /\ Unc!Next /\ UNCHANGED NotUncompress
FinNext == part = "deflate" /\ Fin!Next /\ UNCHANGED NotDeflateStream

\* The jobs of these components come to an end.
Over == part \in {"executor"} /\ UNCHANGED vars

Next == ExecNext \/ InfNext \/ UncNext \/ FinNext \/ Over
Spec == Init /\ [][Next]_vars

\* Each component is scheduled as the code is: calls into the connector return,
\* if only with an error and on a lost link with nothing else, and the loops of
\* zlib run on.  An
\* application that decodes goes on calling with input and room and answers
\* Z_NEED_DICT, one that encodes asks for the end of the stream over and over,
\* with room.
Fairness ==
  /\ WF_vars(part = "executor" /\ Exec!HandlerStep /\ UNCHANGED NotExecutor)
  /\ WF_vars(part = "inflate" /\ Inf!Step /\ UNCHANGED NotInflate)
  /\ WF_vars(part = "inflate" /\ Inf!Calls /\ UNCHANGED NotInflate)
  /\ WF_vars(part = "inflate" /\ Inf!SetDictionary /\ UNCHANGED NotInflate)
  /\ WF_vars(part = "uncompress" /\ Unc!Next /\ UNCHANGED NotUncompress)
  /\ WF_vars(part = "deflate" /\ Fin!Step /\ UNCHANGED NotDeflateStream)
  /\ SF_vars(part = "deflate" /\ Fin!Finishes("a") /\ UNCHANGED NotDeflateStream)

LiveSpec == Spec /\ Fairness

-----------------------------------------------------------------------------
(* Properties.                                                              *)

\* Every action that the io thread starts is pushed, whatever is lost on the
\* way: the retries end, and the loop over the results ends but when the link
\* is lost in it and mysql_next_result goes on failing.  CallbackComes, of
\* Executor, has no such exception, and fails.
ActionsEnd ==
  (part = "executor" /\ ~Exec!Ended) ~>
  (part = "executor" /\ (Exec!Ended \/ Exec!Spinning))

\* However small the chunks, a stream that is decoded comes to its end or its
\* error and the loop of uncompress2() ends; an application that keeps calling
\* deflate() with Z_FINISH and some room, even one byte, gets Z_STREAM_END,
\* unless it frees the stream before.
StreamsEnd ==
  /\ <>(part = "inflate" => Inf!Ended)
  /\ <>(part = "uncompress" => Unc!Ended)
  /\ (part = "deflate" /\ ~Fin!Ended("a")) ~> (part = "deflate" /\ Fin!Ended("a"))
=============================================================================

----------------------------- MODULE MCDecoding -----------------------------
(***************************************************************************)
(* zlib's decoders, for TLC: inflate() in three settings, inflateBack()    *)
(* and the reading of gz files. A behaviour belongs to one of them.        *)
(* Variables of the same name are shared by the components that have them, *)
(* and Off in the others.                                                  *)
(***************************************************************************)
EXTENDS Integers, Sequences, TLC

CONSTANTS
  x1, x2,       \* bytes, interchangeable
  Garbage       \* a byte nobody has written

VARIABLES
  part,         \* the component, and its instance, that the behaviour belongs to
  pc, avail_in, avail_out, uncounted, st, call,   \* Inflate
  field,   \* Inflate, InflateBack
  hist,   \* Inflate, InflateBack, GzRead
  mode, last, bits, length, offset, extra, lens, have, left, whave,
  window, fast, sane, ret,   \* InflateBack
  file, seen, s   \* GzRead

inflateVars == <<pc, avail_in, avail_out, uncounted, st, call>>
inflateBackVars == <<mode, last, bits, length, offset, extra, lens, have, left,
  whave, window, fast, sane, ret>>
gzReadVars == <<file, seen, s>>
vars == <<part, inflateVars, field, hist, inflateBackVars, gzReadVars>>

\* What a component has no use for.
Off == "off"
inflateOff == pc = Off /\ avail_in = Off /\ avail_out = Off /\ uncounted = Off /\
  st = Off /\ call = Off
inflateBackOff == mode = Off /\ last = Off /\ bits = Off /\ length = Off /\
  offset = Off /\ extra = Off /\ lens = Off /\ have = Off /\ left = Off /\
  whave = Off /\ window = Off /\ fast = Off /\ sane = Off /\ ret = Off
gzReadOff == file = Off /\ seen = Off /\ s = Off

-----------------------------------------------------------------------------
\* Files of gzip streams: the streams and their ends fall on all places of
\* buffers of two bytes (the least that gzbuffer() takes) and three.
Byte(op, k, newline) == [op |-> op, n |-> k, nl |-> newline]
Head1 == Byte("31", 1, FALSE)
Head2 == Byte("139", 1, FALSE)
Data(k) == Byte("data", k, FALSE)
Line(k) == Byte("data", k, TRUE)
Stream(data) == <<Head1, Head2>> \o data \o <<Byte("end", 1, FALSE)>>
Files ==
  {<<>>, <<Head1>>, <<Data(1), Line(1), Data(1), Data(1), Line(1), Head1, Head2>>,
   Stream(<<>>), Stream(<<Line(3), Data(0), Data(5)>>),
   Stream(<<Data(1)>>) \o Stream(<<>>) \o Stream(<<Line(2)>>),
   Stream(<<Data(2)>>) \o <<Data(1), Head1>>,
   Stream(<<Data(1)>>) \o <<Head1, Head2, Byte("bad", 1, FALSE), Data(2)>>}

\* Raw data: two blocks, two codes, a window of three bytes, which wraps;
\* chunks on both sides of what inflate_fast() needs.
Raw == INSTANCE Inflate WITH
  Bytes <- {x1, x2}, MaxMatch <- 4, WSize <- 3,
  Wraps <- {{}}, Dictionary <- <<>>, InChunks <- {0, 3, 9}, OutChunks <- {1, 9},
  Flushes <- {"NO"}, StoredLengths <- {0, 2}, NumLens <- 4, MaxCodes <- 2,
  MaxBlocks <- 2, MaxResets <- 0, MemoryFails <- FALSE

\* zlib and gzip streams around one short block, with a dictionary.
Wrapped == INSTANCE Inflate WITH
  Bytes <- {"x"}, MaxMatch <- 4, WSize <- 3,
  Wraps <- {{1, 4}, {2, 4}}, Dictionary <- <<"x", "y", "y">>, InChunks <- {1, 16},
  OutChunks <- {5}, Flushes <- {"NO", "FINISH"}, StoredLengths <- {2}, NumLens <- 4,
  MaxCodes <- 1, MaxBlocks <- 1, MaxResets <- 0, MemoryFails <- TRUE

\* Raw and zlib streams that are reset, copied and stopped at every block.
Again == INSTANCE Inflate WITH
  Bytes <- {"x"}, MaxMatch <- 4, WSize <- 3,
  Wraps <- {{}, {1, 4}}, Dictionary <- <<"x", "y", "y">>, InChunks <- {16},
  OutChunks <- {5}, Flushes <- {"TREES"}, StoredLengths <- {2}, NumLens <- 4,
  MaxCodes <- 1, MaxBlocks <- 1, MaxResets <- 1, MemoryFails <- FALSE

\* Two blocks and three codes through a window of four bytes.
Back == INSTANCE InflateBack WITH
  Bytes <- {x1, x2}, MaxMatch <- 3, WSize <- 4,
  Chunks <- {1, 9}, StoredLengths <- {0, 2}, NumLens <- 4, MaxCodes <- 3,
  MaxBlocks <- 2

File == INSTANCE GzRead WITH
  Sizes <- {2, 3}, Lengths <- {1, 4},
  Offsets <- {-2, 1, 5}, MaxPos <- 9

ASSUME ComponentsAssumption ==
  /\ Raw!FormatAssumption /\ Raw!InflateAssumption
  /\ Wrapped!FormatAssumption /\ Wrapped!InflateAssumption
  /\ Again!FormatAssumption /\ Again!InflateAssumption
  /\ Back!FormatAssumption /\ Back!BackAssumption
  /\ File!GzReadAssumption

-----------------------------------------------------------------------------
Init ==
  \/ part = "raw" /\ Raw!Init /\ inflateBackOff /\ gzReadOff
  \/ part = "wrapped" /\ Wrapped!Init /\ inflateBackOff /\ gzReadOff
  \/ part = "again" /\ Again!Init /\ inflateBackOff /\ gzReadOff
  \/ part = "back" /\ Back!Init /\ inflateOff /\ gzReadOff
  \/ part = "file" /\ File!Init /\ inflateOff /\ field = Off /\ inflateBackOff

NotInflate == <<part, inflateBackVars, gzReadVars>>
NotInflateBack == <<part, inflateVars, gzReadVars>>
NotGzRead == <<part, inflateVars, field, inflateBackVars>>

RawNext == part = "raw" /\ Raw!Next /\ UNCHANGED NotInflate
WrappedNext == part = "wrapped" /\ Wrapped!Next /\ UNCHANGED NotInflate
AgainNext == part = "again" /\ Again!Next /\ UNCHANGED NotInflate
BackNext == part = "back" /\ Back!Next /\ UNCHANGED NotInflateBack
FileNext == part = "file" /\ File!Next /\ UNCHANGED NotGzRead

\* The jobs of these components come to an end.
Over == part \in {"back"} /\ UNCHANGED vars

Next == RawNext \/ WrappedNext \/ AgainNext \/ BackNext \/ FileNext \/ Over
Spec == Init /\ [][Next]_vars

-----------------------------------------------------------------------------
(* Properties.                                                              *)

\* What inflate() writes and inflateBack() hands to out() is what the stream
\* stands for, however it was cut into calls: the window is the history of the
\* output, the input is used to the byte, and no code is looked up in a table
\* of another stream.
Faithful ==
  /\ part = "raw" => Raw!TypeOK /\ Raw!Faithful /\ Raw!WindowIsHistory /\ Raw!InputExact
  /\ part = "again" => Again!TablesExist
  /\ part = "back" => Back!Faithful /\ Back!InBounds

\* Right data is never refused, whatever was kept of older calls, other streams
\* and a dictionary.  Wrong data is, and a call of inflate() that can do nothing
\* returns Z_BUF_ERROR; but inflateBack() may come to Z_STREAM_END over a match
\* that its fast loop took from before the start of the data, when the field
\* that inflateBackInit_() leaves unset says so (FormatErrorsReported, which
\* fails).
ErrorsExact ==
  /\ part = "raw" => Raw!ErrorsExact /\ Raw!ReturnsWhenStuck
  /\ part = "wrapped" => Wrapped!ErrorsExact
  /\ part = "again" => Again!ErrorsExact
  /\ part = "back" => Back!NoFalseErrors

\* The calls that read a gz file return its data in order from where they are,
\* gztell() is that place, and gzeof() is true only at the end, over streams
\* that follow each other, seeks and characters pushed back.  A gzgetc() after
\* gzseek() and gzdirect() does not skip, and returns the byte before the skip
\* (NoNeedToSkip, which fails); a gzungetc() right after the file is opened
\* ends the process (PushAllowed, which fails).
ReadsFile ==
  part = "file" => File!ReadsFile /\ File!TellsPosition /\ File!EofAtEnd

-----------------------------------------------------------------------------
(* What the comments of zlib say.                                           *)

\* infback.c on inflateBack(): "Z_DATA_ERROR for an deflate format error".
FormatErrorsReported == part = "back" => Back!FormatErrorsReported

\* gzread.c in gzgetc(): "no need to check for skip request".
NoNeedToSkip == part = "file" => File!NoNeedToSkip

\* zlib.h on gzungetc(): right after gzopen(), characters may be pushed.
PushAllowed == part = "file" => File!PushAllowed

\* Bytes are interchangeable where they are x1 and x2.
Permuted == Permutations({x1, x2})
=============================================================================

----------------------------- MODULE MCEncoding -----------------------------
(***************************************************************************)
(* zlib's encoder, for TLC: the window and the matches in three settings,  *)
(* deflate() as a stream in three settings, and the writing of gz files. A *)
(* behaviour belongs to one of them. Variables of the same name are shared *)
(* by the components that have them, and Off in the others.                *)
(***************************************************************************)
EXTENDS Integers, Sequences, FiniteSets

VARIABLES
  part,         \* the component, and its instance, that the behaviour belongs to
  input, s, used, truth, decoded, closed, asked, junk, switches,   \* DeflateWindow
  strm, call,   \* DeflateWindow, DeflateStream
  heap,   \* DeflateStream
  w, disk, space, data, done   \* GzWrite

deflateWindowVars == <<input, s, used, truth, decoded, closed, asked, junk, switches>>
deflateStreamVars == <<heap>>
gzWriteVars == <<w, disk, space, data, done>>
vars == <<part, deflateWindowVars, strm, call, deflateStreamVars, gzWriteVars>>

\* What a component has no use for.
Off == "off"
deflateWindowOff == input = Off /\ s = Off /\ used = Off /\ truth = Off /\
  decoded = Off /\ closed = Off /\ asked = Off /\ junk = Off /\ switches = Off
deflateStreamOff == heap = Off
gzWriteOff == w = Off /\ disk = Off /\ space = Off /\ data = Off /\ done = Off

-----------------------------------------------------------------------------
\* Data made of two patterns: short words, repeated, with changes from one to
\* the other and back, so that there are matches of every length and distance,
\* runs, and strings with the same hash.
FirstWords == {<<0>>, <<0, 1>>, <<0, 0, 1>>}
SecondWords == {<<1>>, <<0, 1>>, <<0, 1, 1>>, <<1, 0, 0, 1>>}
At(word, k) == word[((k - 1) % Len(word)) + 1]
Words(size, changes) ==
  {[k \in 1..size |-> At(IF Cardinality({p \in c : p < k}) % 2 = 0 THEN u ELSE v, k)] :
     c \in changes, u \in FirstWords, v \in SecondWords}

SlidingData == Words(32, {{8}, {15}, {6, 9, 17}})
SwitchedData == Words(31, {{9}, {13, 15, 24}})
ShortData == Words(20, {{9}})
\* One that fits with room to spare, and one as long as the window.
Dictionaries == {[k \in 1..4 |-> At(<<0, 1>>, k)], [k \in 1..13 |-> At(<<0, 0, 1>>, k)]}

\* gzip headers whose fields end before, at and behind the end of a pending
\* buffer of three bytes, and fields of no bytes; -1 is no field.
GzHead(extra, name, comment, hcrc) == [extra |-> extra, name |-> name, comment |-> comment, hcrc |-> hcrc]
GzHeads ==
  {[none |-> TRUE], GzHead(-1, -1, -1, TRUE), GzHead(0, -1, -1, TRUE), GzHead(4, 1, -1, TRUE),
   GzHead(-1, 1, -1, TRUE), GzHead(-1, 2, 3, TRUE), GzHead(7, -1, 2, FALSE), GzHead(2, 5, 1, TRUE)}

\* 32 bytes through a window of 12, which slides twice.
Win == INSTANCE DeflateWindow WITH
  WSize <- 12, MAX_MATCH <- 4, LitBufSize <- 6,
  PendingSize <- 6, MAX_STORED <- 9, HeaderLen <- 1, Good <- 4, Lazy <- 4, Nice <- 4,
  Chain <- 4, TooFar <- 2, Inputs <- SlidingData, Chunks <- {5, 11},
  Flushes <- {"NO_FLUSH", "SYNC_FLUSH"}, Rooms <- {30},
  Funcs <- {"fast", "slow", "rle", "huff"}, Dicts <- {}, MaxSwitch <- 0

\* The level changes to and from 0 while the window slides.
Switch == INSTANCE DeflateWindow WITH
  WSize <- 12, MAX_MATCH <- 4, LitBufSize <- 20,
  PendingSize <- 8, MAX_STORED <- 30, HeaderLen <- 1, Good <- 4, Lazy <- 4, Nice <- 4,
  Chain <- 8, TooFar <- 2, Inputs <- SwitchedData, Chunks <- {9, 15},
  Flushes <- {"NO_FLUSH"}, Rooms <- {40}, Funcs <- {"slow", "stored"}, Dicts <- {},
  MaxSwitch <- 2

\* A dictionary, or a change of the level, and full flushes.
Dict == INSTANCE DeflateWindow WITH
  WSize <- 12, MAX_MATCH <- 4, LitBufSize <- 6,
  PendingSize <- 6, MAX_STORED <- 9, HeaderLen <- 1, Good <- 4, Lazy <- 4, Nice <- 4,
  Chain <- 4, TooFar <- 2, Inputs <- ShortData, Chunks <- {9},
  Flushes <- {"NO_FLUSH", "FULL_FLUSH"}, Rooms <- {4, 30},
  Funcs <- {"slow", "stored"}, Dicts <- Dictionaries, MaxSwitch <- 1

\* gzip streams with every kind of header.
Gzip == INSTANCE DeflateStream WITH
  Streams <- {"a"}, WindowBits <- {31},
  Heads <- GzHeads, Calls <- {"NO_FLUSH", "FINISH"}, Rooms <- {0, 1, 2, 3, 4, 9},
  MaxIn <- 3, MaxFlushes <- 0, MaxResets <- 1, PendingSize <- 3, ByteBits <- 2,
  LitBuf <- 2, Lookahead <- 2, Extras <- {}

\* Raw and zlib streams with every flush mode.
Flush == INSTANCE DeflateStream WITH
  Streams <- {"a"}, WindowBits <- {-9, 8},
  Heads <- {},
  Calls <- {"NO_FLUSH", "PARTIAL_FLUSH", "SYNC_FLUSH", "FULL_FLUSH", "FINISH", "BLOCK"},
  Rooms <- {1, 9}, MaxIn <- 3, MaxFlushes <- 2, MaxResets <- 1, PendingSize <- 3,
  ByteBits <- 2, LitBuf <- 2, Lookahead <- 2, Extras <- {"dict", "prime"}

\* A stream and its copy, allocations that fail, and arguments that
\* deflateInit2() refuses.
Copy == INSTANCE DeflateStream WITH
  Streams <- {"a", "b"},
  WindowBits <- {-8, 7, 15}, Heads <- {},
  Calls <- {"NO_FLUSH", "SYNC_FLUSH", "FINISH"}, Rooms <- {1, 3}, MaxIn <- 1,
  MaxFlushes <- 1, MaxResets <- 0, PendingSize <- 3, ByteBits <- 2, LitBuf <- 2,
  Lookahead <- 2, Extras <- {"fail"}

\* Files opened in every way, with buffers of two bytes, on a disk that becomes
\* full.
File == INSTANCE GzWrite WITH
  Modes <- {<<"w">>, <<"a", "b">>, <<"w", "T">>, <<"r">>, <<"w", "+">>, <<"r", "T">>, <<"b">>},
  Sizes <- {2}, Lengths <- {1, 2, 4}, Skips <- {1, 2}, Space <- {1, 5, 10}, Hold <- 2,
  MaxData <- 5

ASSUME ComponentsAssumption ==
  /\ Win!SizesFit /\ Switch!SizesFit /\ Dict!SizesFit
  /\ Gzip!StreamAssumption /\ Flush!StreamAssumption /\ Copy!StreamAssumption
  /\ File!GzWriteAssumption

-----------------------------------------------------------------------------
Init ==
  \/ part = "window" /\ Win!Init /\ deflateStreamOff /\ gzWriteOff
  \/ part = "switch" /\ Switch!Init /\ deflateStreamOff /\ gzWriteOff
  \/ part = "dict" /\ Dict!Init /\ deflateStreamOff /\ gzWriteOff
  \/ part = "gzip" /\ Gzip!Init /\ deflateWindowOff /\ gzWriteOff
  \/ part = "flush" /\ Flush!Init /\ deflateWindowOff /\ gzWriteOff
  \/ part = "copy" /\ Copy!Init /\ deflateWindowOff /\ gzWriteOff
  \/ part = "file" /\ File!Init /\ deflateWindowOff /\ strm = Off /\ call = Off /\
     deflateStreamOff

NotDeflateWindow == <<part, deflateStreamVars, gzWriteVars>>
NotDeflateStream == <<part, deflateWindowVars, gzWriteVars>>
NotGzWrite == <<part, deflateWindowVars, strm, call, deflateStreamVars>>

WinNext == part = "window" /\ Win!Next /\ UNCHANGED NotDeflateWindow
SwitchNext == part = "switch" /\ Switch!Next /\ UNCHANGED NotDeflateWindow
DictNext == part = "dict" /\ Dict!Next /\ UNCHANGED NotDeflateWindow
GzipNext == part = "gzip" /\ Gzip!Next /\ UNCHANGED NotDeflateStream
FlushNext == part = "flush" /\ Flush!Next /\ UNCHANGED NotDeflateStream
CopyNext == part = "copy" /\ Copy!Next /\ UNCHANGED NotDeflateStream
FileNext == part = "file" /\ File!Next /\ UNCHANGED NotGzWrite

\* The jobs of these components come to an end.
Over == part \in {"window", "switch", "dict"} /\ UNCHANGED vars

Next == WinNext \/ SwitchNext \/ DictNext \/ GzipNext \/ FlushNext \/ CopyNext \/
  FileNext \/ Over
Spec == Init /\ [][Next]_vars

-----------------------------------------------------------------------------
(* Properties.                                                              *)


\* The comment of s->insert in deflate.h: the strings left to insert are bytes at
\* the end of the window, also after stored blocks, a slide and another level.
InsertsInside == part = "switch" => Switch!InsertsInside

\* When deflate() returns Z_STREAM_END the output is exactly one stream, from
\* which a decoder gets the input, however the calls cut it; nothing is put
\* behind pending_buf on the way, and every allocation is owned or freed.
EndExact ==
  /\ part = "gzip" => Gzip!TypeOK /\ Gzip!EndExact /\ Gzip!PendingFits
  /\ part = "flush" => Flush!EndExact
  /\ part = "copy" => Copy!EndExact /\ Copy!HeapExact

\* A flush that returns with room left has taken all input and delivered it, to
\* a decoder that has the bytes that are out.
FlushDelivers ==
  /\ part = "flush" => Flush!FlushDelivers
  /\ part = "dict" => Dict!FlushDeliversAll

\* deflate.c, where deflate() returns without room: "for a very small output
\* buffer, we emit at most one empty block".
OneMarker == part = "flush" => Flush!OneMarker

\* At any time a gz file holds the beginning of what was written; after
\* gzflush() and gzclose() all of it, in whole streams, or the call has said
\* that it failed.  But for the value of the zeros of a gzseek() that comes
\* before anything is allocated (ZeroesWritten).
HoldsPrefix ==
  part = "file" => File!HoldsPrefix /\ File!FlushedAll /\ File!StreamsWhole

\* zlib.h of gzseek() on a file opened for writing: it compresses a sequence of
\* zeroes up to the new starting position.
ZeroesWritten == part = "file" => File!ZeroesWritten
=============================================================================

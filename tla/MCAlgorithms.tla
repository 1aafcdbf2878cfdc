---------------------------- MODULE MCAlgorithms ----------------------------
(***************************************************************************)
(* zlib's algorithms on bounded inputs, for TLC: the check values, the     *)
(* building and the sending of Huffman trees, the decoding tables, the     *)
(* search for a flush point, the bounds on the size of the output and the  *)
(* functions that compress and uncompress at one go. A behaviour belongs   *)
(* to one of them. Variables of the same name are shared by the components *)
(* that have them, and Off in the others. The parameters of the last two   *)
(* are CONSTANTS: AlgorithmsProofs proves for all of their values what     *)
(* they do.                                                                *)
(***************************************************************************)
EXTENDS Integers, Sequences

CONSTANTS
  WindowBits, MemLevels, Levels,        \* DeflateBound: settings
  Fields,                               \* DeflateBound: lengths of the fields of a gzip header
  Sizes, OptLens, MaxBlocks,            \* DeflateBound
  Piece, MaxSource, Totals, DestLens, Events    \* Uncompress

VARIABLES
  part,         \* the component, and its instance, that the behaviour belongs to
  start, adler,   \* Adler32
  fed,   \* Adler32, Crc32
  little, crc,   \* Crc32
  freq,   \* HuffmanTree, SendTree
  t,   \* HuffmanTree
  trees, pass, tree, n, run, sent,   \* SendTree
  cfg, head, size, done,   \* DeflateBound
  left,   \* DeflateBound, Uncompress
  bits,   \* DeflateBound, InflateTable, InflateSync
  type, lens, count, root, huff, sym, next, curr, drop, low, used, table,   \* InflateTable
  len,   \* InflateTable, Uncompress
  ret,   \* InflateTable, InflateSync
  call, src, event, trailing, destLen, stream, pending, moved, err, result,   \* Uncompress
  mode, hold, have, total, skipped   \* InflateSync

adler32Vars == <<start, adler>>
crc32Vars == <<little, crc>>
huffmanTreeVars == <<t>>
sendTreeVars == <<trees, pass, tree, n, run, sent>>
deflateBoundVars == <<cfg, head, size, done>>
inflateTableVars == <<type, lens, count, root, huff, sym, next, curr, drop, low,
  used, table>>
uncompressVars == <<call, src, event, trailing, destLen, stream, pending, moved,
  err, result>>
inflateSyncVars == <<mode, hold, have, total, skipped>>
vars == <<part, adler32Vars, fed, crc32Vars, freq, huffmanTreeVars, sendTreeVars,
  deflateBoundVars, left, bits, inflateTableVars, len, ret, uncompressVars,
  inflateSyncVars>>

\* What a component has no use for.
Off == "off"
adler32Off == start = Off /\ adler = Off
crc32Off == little = Off /\ crc = Off
huffmanTreeOff == t = Off
sendTreeOff == trees = Off /\ pass = Off /\ tree = Off /\ n = Off /\ run = Off /\
  sent = Off
deflateBoundOff == cfg = Off /\ head = Off /\ size = Off /\ done = Off
inflateTableOff == type = Off /\ lens = Off /\ count = Off /\ root = Off /\
  huff = Off /\ sym = Off /\ next = Off /\ curr = Off /\ drop = Off /\ low = Off /\
  used = Off /\ table = Off
uncompressOff == call = Off /\ src = Off /\ event = Off /\ trailing = Off /\
  destLen = Off /\ stream = Off /\ pending = Off /\ moved = Off /\ err = Off /\
  result = Off
inflateSyncOff == mode = Off /\ hold = Off /\ have = Off /\ total = Off /\
  skipped = Off

-----------------------------------------------------------------------------
\* A dictionary cannot be set for a gzip stream.
AllSettings ==
  {s \in [w_bits : WindowBits, memLevel : MemLevels, level : Levels, wrap : {0, 1, 2}, dict : BOOLEAN] :
     s.dict => s.wrap # 2}
AllHeads ==
  [extra : Fields \union {-1}, name : Fields \union {-1}, comment : Fields \union {-1}, hcrc : BOOLEAN]

\* Up to seven bytes of two values, with all numbers scaled down together.
Adler == INSTANCE Adler32 WITH
  Bytes <- {1, 6}, Base <- 13, Width <- 8, Short <- 3,
  NMax <- 6, MaxLen <- 7

\* Up to eight bytes of which two differ from zero, at every alignment.
Crc == INSTANCE Crc32 WITH
  Bytes <- {{}, {0, 7}}, MaxLen <- 8, MaxSet <- 2

\* Five symbols, so that lengths of four bits have to be cut to three.
Tree == INSTANCE HuffmanTree WITH
  Elems <- 5, MaxLength <- 3,
  Freqs <- {0, 1, 2, 3, 4, 8}

\* Runs at and behind every limit.
Send == INSTANCE SendTree WITH
  Lengths <- {0, 1, 2}, MaxLiterals <- 9,
  MaxDistances <- 1, Rep <- 4, Repz <- 4, MaxZeros <- 6

Bound == INSTANCE DeflateBound WITH
  Settings <- AllSettings, Heads <- AllHeads

\* Six codes of up to four bits. Enough is the largest table they can need, as
\* the enough program computes ENOUGH for the code's own sizes.
Tab == INSTANCE InflateTable WITH
  NumCodes <- 6, MaxBits <- 4, Roots <- {1, 2},
  Match <- 2, Enough <- <<10, 10>>

Unc == INSTANCE Uncompress

Sync == INSTANCE InflateSync WITH
  Bytes <- {0, 1, 255}, Held <- {0, 5, 8, 16},
  MaxInput <- 6

ASSUME ComponentsAssumption ==
  /\ Tab!TableAssumption /\ Sync!SyncAssumption
  /\ Adler!NumbersScaled /\ Crc!BytesAssumption
  /\ Tree!TreeAssumption /\ Send!SendAssumption
  /\ Bound!BoundAssumption /\ Unc!UtilityAssumption

-----------------------------------------------------------------------------
Init ==
  \/ part = "adler32" /\ Adler!Init /\ crc32Off /\ freq = Off /\ huffmanTreeOff /\
     sendTreeOff /\ deflateBoundOff /\ left = Off /\ bits = Off /\ inflateTableOff /\
     len = Off /\ ret = Off /\ uncompressOff /\ inflateSyncOff
  \/ part = "crc32" /\ Crc!Init /\ adler32Off /\ freq = Off /\ huffmanTreeOff /\
     sendTreeOff /\ deflateBoundOff /\ left = Off /\ bits = Off /\ inflateTableOff /\
     len = Off /\ ret = Off /\ uncompressOff /\ inflateSyncOff
  \/ part = "tree" /\ Tree!Init /\ adler32Off /\ fed = Off /\ crc32Off /\
     sendTreeOff /\ deflateBoundOff /\ left = Off /\ bits = Off /\ inflateTableOff /\
     len = Off /\ ret = Off /\ uncompressOff /\ inflateSyncOff
  \/ part = "send" /\ Send!Init /\ adler32Off /\ fed = Off /\ crc32Off /\
     huffmanTreeOff /\ deflateBoundOff /\ left = Off /\ bits = Off /\
     inflateTableOff /\ len = Off /\ ret = Off /\ uncompressOff /\ inflateSyncOff
  \/ part = "bound" /\ Bound!Init /\ adler32Off /\ fed = Off /\ crc32Off /\
     freq = Off /\ huffmanTreeOff /\ sendTreeOff /\ inflateTableOff /\ len = Off /\
     ret = Off /\ uncompressOff /\ inflateSyncOff
  \/ part = "table" /\ Tab!Init /\ adler32Off /\ fed = Off /\ crc32Off /\
     freq = Off /\ huffmanTreeOff /\ sendTreeOff /\ deflateBoundOff /\ left = Off /\
     uncompressOff /\ inflateSyncOff
  \/ part = "uncompress" /\ Unc!Init /\ adler32Off /\ fed = Off /\ crc32Off /\
     freq = Off /\ huffmanTreeOff /\ sendTreeOff /\ deflateBoundOff /\ bits = Off /\
     inflateTableOff /\ ret = Off /\ inflateSyncOff
  \/ part = "sync" /\ Sync!Init /\ adler32Off /\ fed = Off /\ crc32Off /\
     freq = Off /\ huffmanTreeOff /\ sendTreeOff /\ deflateBoundOff /\ left = Off /\
     inflateTableOff /\ len = Off /\ uncompressOff

NotAdler32 == <<part, crc32Vars, freq, huffmanTreeVars, sendTreeVars,
  deflateBoundVars, left, bits, inflateTableVars, len, ret, uncompressVars,
  inflateSyncVars>>
NotCrc32 == <<part, adler32Vars, freq, huffmanTreeVars, sendTreeVars,
  deflateBoundVars, left, bits, inflateTableVars, len, ret, uncompressVars,
  inflateSyncVars>>
NotHuffmanTree == <<part, adler32Vars, fed, crc32Vars, sendTreeVars, deflateBoundVars,
  left, bits, inflateTableVars, len, ret, uncompressVars, inflateSyncVars>>
NotSendTree == <<part, adler32Vars, fed, crc32Vars, huffmanTreeVars, deflateBoundVars,
  left, bits, inflateTableVars, len, ret, uncompressVars, inflateSyncVars>>
NotDeflateBound == <<part, adler32Vars, fed, crc32Vars, freq, huffmanTreeVars,
  sendTreeVars, inflateTableVars, len, ret, uncompressVars, inflateSyncVars>>
NotInflateTable == <<part, adler32Vars, fed, crc32Vars, freq, huffmanTreeVars,
  sendTreeVars, deflateBoundVars, left, uncompressVars, inflateSyncVars>>
NotUncompress == <<part, adler32Vars, fed, crc32Vars, freq, huffmanTreeVars,
  sendTreeVars, deflateBoundVars, bits, inflateTableVars, ret, inflateSyncVars>>
NotInflateSync == <<part, adler32Vars, fed, crc32Vars, freq, huffmanTreeVars,
  sendTreeVars, deflateBoundVars, left, inflateTableVars, len, uncompressVars>>

AdlerNext == part = "adler32" /\ Adler!Next /\ UNCHANGED NotAdler32
CrcNext == part = "crc32" /\ Crc!Next /\ UNCHANGED NotCrc32
TreeNext == part = "tree" /\ Tree!Next /\ UNCHANGED NotHuffmanTree
SendNext == part = "send" /\ Send!Next /\ UNCHANGED NotSendTree
BoundNext == part = "bound" /\ Bound!Next /\ UNCHANGED NotDeflateBound
TabNext == part = "table" /\ Tab!Next /\ UNCHANGED NotInflateTable
UncNext == part = "uncompress" /\ Unc!Next /\ UNCHANGED NotUncompress
SyncNext == part = "sync" /\ Sync!Next /\ UNCHANGED NotInflateSync

\* The jobs of these components come to an end.
Over == part \in {"adler32", "crc32", "tree", "send", "bound"} /\ UNCHANGED vars

Next == AdlerNext \/ CrcNext \/ TreeNext \/ SendNext \/ BoundNext \/ TabNext \/
  UncNext \/ SyncNext \/ Over
Spec == Init /\ [][Next]_vars

-----------------------------------------------------------------------------
(* Properties.                                                              *)

\* adler32() and crc32() are the check values of the data, however it is cut,
\* aligned or combined, in either byte order.
SumsExact ==
  /\ part = "adler32" => Adler!SumsExact /\ Adler!CombineExact
  /\ part = "crc32" => Crc!CrcExact /\ Crc!CombineExact

\* build_tree() makes a complete prefix code of the least cost unless lengths
\* had to be cut, opt_len counts its bits, and send_tree() sends with the codes
\* that scan_tree() counted what a decoder reads as these lengths.
TreesExact ==
  /\ part = "tree" => Tree!LengthsComplete /\ Tree!CodesCanonical /\ Tree!LenExact /\
       Tree!LengthsLeast
  /\ part = "send" => Send!SentExact /\ Send!ScanAgrees

\* A table built by inflate_table() decodes each code to its symbol, sets of
\* lengths that are no code are refused, and the entries stay within what is
\* reserved; inflateSync() stops behind the first flush point and nowhere else,
\* unless the bit buffer holds odd bits and whole bytes.
TablesExact ==
  /\ part = "table" => Tab!DecodesExactly /\ Tab!RefusedExactly /\ Tab!StaysInside
  /\ part = "sync" => Sync!StopsAtFlush

\* The room that deflateBound() and compressBound() ask for holds the output,
\* and compress2() and uncompress2() say what happened and report what they
\* used and wrote, whatever the pieces, but for a stream that is cut short where
\* its output fills the room (Z_BUF_ERROR) and for output with no room at all
\* (Z_OK for one byte, which is lost, Z_DATA_ERROR for more).
UtilitiesExact ==
  /\ part = "bound" => Bound!BoundHolds /\ Bound!CompressHolds
  /\ part = "uncompress" => Unc!ResultsExact
=============================================================================

--------------------------- MODULE DeflateFormat ----------------------------
(***************************************************************************)
(* What a deflate stream holds, for the modules that decode one.  A stream *)
(* is a sequence of fields, each some bits wide.  A field is a record of   *)
(* its width and of what it says; the bits that say so are abstracted      *)
(* away, but where a byte ends is not.  Lengths and distances are scaled   *)
(* down: MaxMatch is 258 and WSize up to 32768 in the code.                *)
(***************************************************************************)
EXTENDS Integers, Sequences, SequencesExt

CONSTANTS
  Bytes,        \* values of bytes
  MaxMatch,     \* longest match
  WSize,        \* size of the window
  Garbage       \* a byte nobody has written

\* What the constants must be; the modules that instantiate this one assume it.
FormatAssumption ==
  /\ Garbage \notin Bytes
  /\ MaxMatch \in Nat /\ MaxMatch >= 3
  /\ WSize \in Nat /\ WSize >= 3

None == [op |-> "none", bits |-> 0, val |-> 0, extra |-> 0]

\* The code of an entry of the length/literal table: a literal, the end of
\* the block, a length of 3 or more with extra bits to add, or nothing.
LenCodes ==
       {[op |-> "literal", bits |-> 8, val |-> b, extra |-> 0] : b \in Bytes}
  \cup {[op |-> "length", bits |-> 7, val |-> 3, extra |-> 0],
        [op |-> "length", bits |-> 15, val |-> 3, extra |-> 5]}
EndOfBlock == [op |-> "end", bits |-> 7, val |-> 0, extra |-> 0]
Invalid(n) == [op |-> "invalid", bits |-> n, val |-> 0, extra |-> 0]
Codes == LenCodes \cup {EndOfBlock, Invalid(8)}

\* The code of an entry of the distance table.
DistCodes ==
  {[op |-> "distance", bits |-> 5, val |-> 1, extra |-> 0],
   [op |-> "distance", bits |-> 15, val |-> 2, extra |-> 13],
   Invalid(5)}

\* The extra bits of a length and of a distance.
Extra(n, top) == {[op |-> "extra", bits |-> n, val |-> v, extra |-> 0] :
                    v \in IF n = 0 THEN {0} ELSE {0, top}}
LenExtra(n) == Extra(n, MaxMatch - 3)
DistExtra(n) == Extra(n, WSize - 2) \cup Extra(n, WSize - 1)

\* A block's header and the fields before its data.
Kinds == {"stored", "fixed", "dynamic"}
BlockHeaders(lasts) ==
       {[op |-> k, bits |-> 3, val |-> l, extra |-> 0] : k \in Kinds, l \in lasts}
  \cup {[op |-> "invalid", bits |-> 3, val |-> l, extra |-> 0] : l \in lasts}
StoredSizes(sizes) ==
  {[op |-> "size", bits |-> 32, val |-> n, extra |-> 0] : n \in sizes} \cup {Invalid(32)}

\* Reference: what a match of that length and distance adds to the output.
Expand(past, length, distance) ==
  FoldLeft(LAMBDA o, i : Append(o, o[Len(o) - distance + 1]), past, [i \in 1..length |-> i])

\* The last n elements of s.
Suffix(s, n) == SubSeq(s, Len(s) - n + 1, Len(s))
=============================================================================

---------------------------- MODULE DeflateBound ----------------------------
(***************************************************************************)
(* deflateBound() and compressBound() against what one call of deflate()   *)
(* with Z_FINISH writes at most: the wrapper, and block after block by     *)
(* _tr_flush_block()'s choice.  All numbers are those of the code; only    *)
(* the bits that a block's symbols take are chosen, between none and what  *)
(* the static trees need at most.                                          *)
(***************************************************************************)
EXTENDS Integers, FiniteSetsExt

CONSTANTS
  Settings,     \* parameters of deflateInit2(): records of w_bits, memLevel, level, wrap
  Heads,        \* gzip headers: the lengths of extra, name, comment, -1 for none, and hcrc
  Sizes,        \* lengths of the source
  OptLens,      \* bits that the symbols of a block take, where the trees allow it
  MaxBlocks     \* bound: blocks of a source

\* What the constants must be; the modules that instantiate this one assume it.
BoundAssumption ==
  /\ Settings \subseteq
       [w_bits : 9..15, memLevel : 1..9, level : 0..9, wrap : {0, 1, 2}, dict : BOOLEAN]
  /\ Heads \subseteq
       [extra : Nat \union {-1}, name : Nat \union {-1}, comment : Nat \union {-1}, hcrc : BOOLEAN]
  /\ Sizes \subseteq Nat /\ OptLens \subseteq Nat /\ MaxBlocks \in Nat

VARIABLES
  cfg, head, size,
  left,         \* bytes of the source that are in no block yet
  bits,         \* bits of the blocks
  done

vars == <<cfg, head, size, left, bits, done>>

lit_bufsize == 2^(cfg.memLevel + 6)
w_size == 2^cfg.w_bits
hash_bits == cfg.memLevel + 7

NoHead == [extra |-> -1, name |-> -1, comment |-> -1, hcrc |-> FALSE]

\* The bytes of the header and the trailer that deflate() writes.
Wrapper ==
  CASE cfg.wrap = 0 -> 0
    [] cfg.wrap = 1 -> 2 + 4 + (IF cfg.dict THEN 4 ELSE 0)
    [] cfg.wrap = 2 -> 10 + 8 + (IF head.extra = -1 THEN 0 ELSE 2 + head.extra)
                              + (IF head.name = -1 THEN 0 ELSE head.name + 1)
                              + (IF head.comment = -1 THEN 0 ELSE head.comment + 1)
                              + (IF head.hcrc THEN 2 ELSE 0)

---------------------------------------------------------------------------
(* The bounds.  *)

wraplen ==
  CASE cfg.wrap = 0 -> 0
    [] cfg.wrap = 1 -> 6 + (IF cfg.dict THEN 4 ELSE 0)
    [] cfg.wrap = 2 -> 18 + (IF head.extra = -1 THEN 0 ELSE 2 + head.extra)
                         + (head.name + 1) + (head.comment + 1) + (IF head.hcrc THEN 2 ELSE 0)

\* For the default settings.
Tight(n) == n + (n \div 2^12) + (n \div 2^14) + (n \div 2^25) + 13 - 6

Conservative(n) == n + ((n + 7) \div 8) + ((n + 63) \div 64) + 5

deflateBound ==
  (IF cfg.w_bits # 15 \/ hash_bits # 8 + 7 THEN Conservative(size) ELSE Tight(size)) + wraplen

compressBound == Tight(size) + 6

---------------------------------------------------------------------------
(* The blocks.  *)

Whole(b) == ((b + 7) \div 8) * 8

\* _tr_stored_block(): three bits, to the end of the byte, and the length twice.
Stored(len) == Whole(bits + 3) + 32 + 8 * len

\* _tr_flush_block(): opt_len is the smaller of the dynamic and the static trees' bits.
Chosen(len, opt_len, inWindow) ==
  IF len + 4 <= (opt_len + 3 + 7) \div 8 /\ inWindow THEN Stored(len) ELSE bits + 3 + opt_len

\* A block of literals, each of 9 bits at most in the static tree, and the end of the block, of 7.  A
\* block longer than the window may have lost its start.
Block(last) ==
  LET len == Min({left, lit_bufsize - 1})
      worst == 9 * len + 7
  IN  /\ cfg.level > 0 /\ ~done
      /\ last <=> (left < lit_bufsize - 1)
      /\ \E opt_len \in {worst} \union {o \in OptLens : o < worst}, inWindow \in BOOLEAN :
           LET to == Chosen(len, opt_len, inWindow)
           IN  /\ len <= w_size => inWindow
               /\ bits' = IF last THEN Whole(to) ELSE to
      /\ left' = left - len
      /\ done' = last
      /\ UNCHANGED <<cfg, head, size>>

\* deflate_stored(): with room for all of it the source goes out directly.
StoredBlock ==
  LET len == Min({left, 65535})
  IN  /\ cfg.level = 0 /\ ~done
      /\ bits' = Stored(len)
      /\ left' = left - len
      /\ done' = (len = left)
      /\ UNCHANGED <<cfg, head, size>>

Init ==
  /\ cfg \in Settings
  /\ head \in IF cfg.wrap = 2 THEN Heads \union {NoHead} ELSE {NoHead}
  /\ size \in Sizes /\ size < MaxBlocks * (lit_bufsize - 1)
  /\ left = size /\ bits = 0 /\ done = FALSE

Next == Block(FALSE) \/ Block(TRUE) \/ StoredBlock

Spec == Init /\ [][Next]_vars

---------------------------------------------------------------------------
(* Properties.  *)

Output == Wrapper + bits \div 8

\* deflateBound(), asked before the first call: room of that size holds all output of a single call
\* with Z_FINISH, for every kind of wrapper, block and window.
BoundHolds == done => Output <= deflateBound

\* compressBound(): room of that size is enough for compress(), at any level.
CompressHolds ==
  done /\ cfg.w_bits = 15 /\ cfg.memLevel = 8 /\ cfg.wrap = 1 /\ ~cfg.dict => Output <= compressBound
===========================================================================

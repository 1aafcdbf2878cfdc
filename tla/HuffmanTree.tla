---------------------------- MODULE HuffmanTree ----------------------------
(***************************************************************************)
(* build_tree() of zlib's trees.c: from the frequencies of the symbols of  *)
(* a block to the lengths and codes it is sent with, and to the number of  *)
(* bits this takes, by which _tr_flush_block() chooses a kind of block.    *)
(* ct_data keeps a node's frequency and later its code in one field, fc,   *)
(* and its father and later its length in another, dl.                     *)
(***************************************************************************)
EXTENDS Integers, Sequences, FiniteSetsExt, SequencesExt

CONSTANTS
  Elems,        \* elems of the tree's description
  MaxLength,    \* max_length of the tree's description
  Freqs         \* frequencies a symbol can have

\* What the constants must be; the modules that instantiate this one assume it.
TreeAssumption ==
  Elems \in Nat /\ Elems > 2 /\ MaxLength \in Nat \ {0} /\ 2^MaxLength >= Elems /\ Freqs \subseteq Nat

VARIABLES
  freq,         \* the frequencies that build_tree() is called with
  t             \* the tree, the heap and the counters, and how far it has come: at

vars == <<freq, t>>

Symbols == 0..(Elems - 1)
Nodes == 0..(2 * Elems)
HEAP_SIZE == 2 * Elems + 1

\* extra_bits of the distances' codes, and lengths like those of a static tree.
xbits(n) == IF n < 4 THEN 0 ELSE (n - 2) \div 2
stree(n) == 2 + (n % 2)

---------------------------------------------------------------------------
(* The heap of nodes, least frequent first.  *)

smaller(s, n, m) == s.fc[n] < s.fc[m] \/ (s.fc[n] = s.fc[m] /\ s.depth[n] <= s.depth[m])

\* The smallest of the two sons.
Son(s, j) == IF j < s.heap_len /\ smaller(s, s.heap[j + 1], s.heap[j]) THEN j + 1 ELSE j

\* pqdownheap(): from place k the value there moves down, then the algorithm goes on at then.
Sift(s, k, then) == [s EXCEPT !.at = "sift", !.hole = k, !.value = s.heap[k], !.then = then]

pqdownheap ==
  LET j == Son(t, 2 * t.hole)
  IN  /\ t.at = "sift"
      /\ t' = IF 2 * t.hole > t.heap_len \/ smaller(t, t.value, t.heap[j])
              THEN [t EXCEPT !.heap[t.hole] = t.value, !.at = t.then, !.hole = 0, !.value = 0]
              ELSE [t EXCEPT !.heap[t.hole] = t.heap[j], !.hole = j]
      /\ UNCHANGED freq

---------------------------------------------------------------------------
(* build_tree()  *)

Used == {n \in Symbols : freq[n] # 0}

\* The symbols that occur, in their order.
Collect ==
  LET used == SetToSortSeq(Used, <)
  IN  /\ t.at = "frequencies"
      /\ t' = [t EXCEPT !.heap_len = Len(used), !.max_code = IF used = <<>> THEN -1 ELSE used[Len(used)],
                        !.heap = [k \in DOMAIN @ |-> IF k \in 1..Len(used) THEN used[k] ELSE 0], !.at = "symbols"]
      /\ UNCHANGED freq

\* Mutant: the bit of the code that only fills up the tree stays counted.
ForcedCounted(n) ==
  [t EXCEPT !.heap_len = @ + 1, !.heap[t.heap_len + 1] = n, !.fc[n] = 1, !.max_code = Max({@, n}),
            !.static_len = @ - stree(n)]

Forced(n) ==
  [t EXCEPT !.heap_len = @ + 1, !.heap[t.heap_len + 1] = n, !.fc[n] = 1, !.max_code = Max({@, n}),
            !.opt_len = @ - 1, !.static_len = @ - stree(n)]

\* A symbol that does not occur gets a code, which will have one bit, until there are two.
Force ==
  /\ t.at = "symbols" /\ t.heap_len < 2
  /\ t' = Forced(IF t.max_code < 2 THEN t.max_code + 1 ELSE 0)
  /\ UNCHANGED freq

\* "establish sub-heaps of increasing lengths"
Heapify ==
  /\ t.at = "symbols" /\ t.heap_len >= 2
  /\ t' = [t EXCEPT !.at = "subheaps", !.next = t.heap_len \div 2]
  /\ UNCHANGED freq

SubHeap ==
  /\ t.at = "subheaps"
  /\ t' = IF t.next = 0 THEN [t EXCEPT !.at = "heap"] ELSE Sift([t EXCEPT !.next = @ - 1], t.next, "subheaps")
  /\ UNCHANGED freq

\* pqremove(): the least frequent node leaves the heap.
pqremove ==
  /\ t.at = "heap" /\ t.heap_len >= 2
  /\ t' = Sift([t EXCEPT !.next = t.heap[1], !.heap[1] = t.heap[t.heap_len], !.heap_len = @ - 1], 1, "removed")
  /\ UNCHANGED freq

\* It and the next one become the sons of a new node, which takes the place of the latter.
Combine ==
  LET n == t.next
      m == t.heap[1]
  IN  /\ t.at = "removed"
      /\ t' = Sift([t EXCEPT !.heap_max = @ - 2, !.heap[t.heap_max - 1] = n, !.heap[t.heap_max - 2] = m,
                             !.fc[t.node] = t.fc[n] + t.fc[m],
                             !.depth[t.node] = Max({t.depth[n], t.depth[m]}) + 1,
                             !.dl[n] = t.node, !.dl[m] = t.node,
                             !.heap[1] = t.node, !.node = @ + 1], 1, "heap")
      /\ UNCHANGED freq

Root ==
  /\ t.at = "heap" /\ t.heap_len < 2
  /\ t' = [t EXCEPT !.heap_max = @ - 1, !.heap[t.heap_max - 1] = t.heap[1], !.at = "tree"]
  /\ UNCHANGED freq

---------------------------------------------------------------------------
(* gen_bitlen()  *)

\* The length of a node from its father's, cut at MaxLength.
Lengthen(s, h) ==
  LET n == s.heap[h]
      bits == Min({s.dl[s.dl[n]] + 1, MaxLength})
      over == IF s.dl[s.dl[n]] + 1 > MaxLength THEN 1 ELSE 0
  IN  IF n > s.max_code THEN [s EXCEPT !.dl[n] = bits, !.overflow = @ + over]
      ELSE [s EXCEPT !.dl[n] = bits, !.overflow = @ + over, !.bl_count[bits] = @ + 1,
                     !.opt_len = @ + s.fc[n] * (bits + xbits(n)),
                     !.static_len = @ + s.fc[n] * (stree(n) + xbits(n))]

\* A leaf above moves down, and two nodes that were cut become its brothers.
MoveLeaf(bl_count) ==
  LET bits == Max({b \in 1..(MaxLength - 1) : bl_count[b] # 0})
  IN  [b \in DOMAIN bl_count |-> bl_count[b] + (IF b = bits THEN -1 ELSE 0) + (IF b = bits + 1 THEN 2 ELSE 0)
                                   - (IF b = MaxLength THEN 1 ELSE 0)]

\* The loop settles two of the nodes that were cut each time.
MakeRoom(bl_count, overflow) ==
  FoldLeft(LAMBDA counts, i : MoveLeaf(counts), bl_count, [i \in 1..((overflow + 1) \div 2) |-> i])

\* The i-th leaf in the order of frequency gets the i-th length, longest first.
LengthOf(bl_count, i) ==
  Max({b \in 1..MaxLength : FoldLeft(LAMBDA a, c : a + bl_count[c], 0, [j \in 1..(MaxLength + 1 - b) |-> b - 1 + j]) >= i})

Relengthen(s) ==
  LET counts == MakeRoom(s.bl_count, s.overflow)
      leaves == SelectSeq([i \in 1..(HEAP_SIZE - s.heap_max) |-> s.heap[HEAP_SIZE - i]], LAMBDA n : n <= s.max_code)
  IN  FoldLeft(LAMBDA a, i : [a EXCEPT !.opt_len = @ + (LengthOf(counts, i) - a.dl[leaves[i]]) * a.fc[leaves[i]],
                                       !.dl[leaves[i]] = LengthOf(counts, i)],
               [s EXCEPT !.bl_count = counts], [i \in 1..Len(leaves) |-> i])

gen_bitlen ==
  LET root == [t EXCEPT !.dl[t.heap[t.heap_max]] = 0]
      first == FoldLeft(Lengthen, root, [i \in 1..(HEAP_SIZE - 1 - t.heap_max) |-> t.heap_max + i])
  IN  /\ t.at = "tree"
      /\ t' = [(IF first.overflow = 0 THEN first ELSE Relengthen(first)) EXCEPT !.at = "lengths"]
      /\ UNCHANGED freq

---------------------------------------------------------------------------
(* gen_codes()  *)

bi_reverse(code, len) ==
  FoldLeft(LAMBDA r, i : 2 * r + ((code \div 2^(i - 1)) % 2), 0, [i \in 1..len |-> i])

\* The first code of each length.
NextCode(bl_count) ==
  FoldLeft(LAMBDA c, b : Append(c, 2 * (IF b = 1 THEN 0 ELSE c[b - 1] + bl_count[b - 1])),
           <<>>, [b \in 1..MaxLength |-> b])

gen_codes ==
  LET give(s, n) ==
        IF s.dl[n] = 0 THEN s
        ELSE [s EXCEPT !.fc[n] = bi_reverse(s.next_code[s.dl[n]], s.dl[n]), !.next_code[s.dl[n]] = @ + 1]
  IN  /\ t.at = "lengths"
      /\ t' = [FoldLeft(give, [t EXCEPT !.next_code = NextCode(t.bl_count)], [i \in 1..(t.max_code + 1) |-> i - 1])
                 EXCEPT !.at = "codes"]
      /\ UNCHANGED freq

---------------------------------------------------------------------------

Init ==
  /\ freq \in [Symbols -> Freqs]
  /\ t = [at |-> "frequencies", fc |-> [n \in Nodes |-> IF n \in Symbols THEN freq[n] ELSE 0],
          dl |-> [n \in Nodes |-> 0], depth |-> [n \in Nodes |-> 0], heap |-> [k \in 1..(HEAP_SIZE - 1) |-> 0],
          heap_len |-> 0, hole |-> 0, value |-> 0, then |-> "", next |-> 0, heap_max |-> HEAP_SIZE, max_code |-> -1, node |-> Elems,
          opt_len |-> 0, static_len |-> 0, overflow |-> 0,
          bl_count |-> [b \in 0..MaxLength |-> 0], next_code |-> <<>>]

Next == Collect \/ Force \/ Heapify \/ SubHeap \/ pqdownheap \/ pqremove \/ Combine \/ Root \/ gen_bitlen \/ gen_codes

Spec == Init /\ [][Next]_vars

---------------------------------------------------------------------------
(* Properties.  *)

Done == t.at = "codes"
Coded == {n \in 0..t.max_code : t.dl[n] # 0}
SumOver(S, f(_)) == FoldSet(LAMBDA n, a : a + f(n), 0, S)

\* Every symbol that occurs has a code, of at most MaxLength bits, at least two symbols have one, and
\* the lengths use up all codes: inflate() refuses the tables of a block whose lengths do not.
LengthsComplete ==
  Done => /\ Used \subseteq Coded /\ Cardinality(Coded) >= 2
          /\ \A n \in Coded : t.dl[n] <= MaxLength
          /\ SumOver(Coded, LAMBDA n : 2^(MaxLength - t.dl[n])) = 2^MaxLength

\* The codes are the ones a decoder derives from the lengths alone: in the order of their lengths, then
\* of the symbols, each follows the one before, and the bits are stored for sending the first one first.
CodesCanonical ==
  LET before(m, n) == t.dl[m] < t.dl[n] \/ (t.dl[m] = t.dl[n] /\ m < n)
      value(n) == SumOver({m \in Coded : before(m, n)}, LAMBDA m : 2^(t.dl[n] - t.dl[m]))
      bit(n, i) == (value(n) \div 2^(t.dl[n] - i)) % 2
  IN  Done => \A n \in Coded : t.fc[n] = SumOver(1..t.dl[n], LAMBDA i : bit(n, i) * 2^(i - 1))

\* opt_len and static_len are the bits that the symbols of the block take, although codes that only
\* fill up the tree were counted and lengths changed afterwards.
LenExact ==
  Done => /\ t.opt_len = SumOver(Used, LAMBDA n : freq[n] * (t.dl[n] + xbits(n)))
          /\ t.static_len = SumOver(Used, LAMBDA n : freq[n] * (stree(n) + xbits(n)))

\* The lengths that k symbols can have, shortest first, when they use up all codes.
Profiles(k, longest) ==
  {p \in [1..k -> 1..longest] :
     (\A i \in 1..(k - 1) : p[i] <= p[i + 1]) /\ SumOver(1..k, LAMBDA i : 2^(longest - p[i])) = 2^longest}
AllProfiles == [k \in 2..Elems |-> Profiles(k, Elems - 1)]
ShortProfiles == [k \in 2..Elems |-> Profiles(k, MaxLength)]

Cost == SumOver(Used, LAMBDA n : freq[n] * t.dl[n])

\* The least number of bits, over the given profiles, with the most frequent symbols first.
LeastCost(profiles) ==
  LET order == SetToSortSeq(Used, LAMBDA m, n : freq[m] > freq[n] \/ (freq[m] = freq[n] /\ m < n))
  IN  Min({SumOver(1..Len(order), LAMBDA i : freq[order[i]] * p[i]) : p \in profiles[Len(order)]})

\* Unless lengths had to be cut, no other code would take fewer bits.
LengthsLeast == Done /\ t.overflow = 0 /\ Cardinality(Used) >= 2 => Cost = LeastCost(AllProfiles)

\* build_tree(): a code that only fills up the tree "is 0 or 1 so it does not have extra bits".
ForcedFirst == Done => Coded \ Used \subseteq {0, 1}

\* gen_bitlen(): "the field len is set to the optimal bit length", among the codes it may use.
LengthsOptimal == Done /\ Cardinality(Used) >= 2 => Cost = LeastCost(ShortProfiles)
===========================================================================

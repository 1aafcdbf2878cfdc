------------------------------ MODULE SendTree ------------------------------
(***************************************************************************)
(* How trees.c sends the lengths of a block's codes: scan_tree() counts    *)
(* the codes of the bit length tree that send_tree() is going to use, and  *)
(* send_tree() sends the lengths as runs.  The two loops must agree to the *)
(* last code: a code that was not counted has no bits to be sent with, and *)
(* opt_len, by which the kind of the block was chosen, would be wrong.     *)
(***************************************************************************)
EXTENDS Integers, Sequences, FiniteSetsExt, SequencesExt

CONSTANTS
  Lengths,      \* lengths of codes, 0 among them
  MaxLiterals,  \* bound: codes in the literals' tree
  MaxDistances, \* bound: codes in the distances' tree
  Rep,          \* most repetitions of REP_3_6, 6 in the code
  Repz,         \* most zeros of REPZ_3_10, 10
  MaxZeros      \* most zeros of REPZ_11_138, 138

\* What the constants must be; the modules that instantiate this one assume it.
SendAssumption == 0 \in Lengths /\ Lengths \subseteq 0..15 /\ 3 < Rep /\ 3 < Repz /\ Repz < MaxZeros

VARIABLES
  trees,        \* the lengths of the literals' and of the distances' codes
  pass,         \* "scan" or "send"
  tree, n,      \* which of the trees, and the number of codes seen
  run,          \* prevlen, count, max_count, min_count
  freq,         \* bl_tree's frequencies, by scan_tree()
  sent          \* the codes of send_tree(), with their extra bits

vars == <<trees, pass, tree, n, run, freq, sent>>

Guard == -1     \* tree[max_code+1].Len = 0xffff
REP_3_6 == 16
REPZ_3_10 == 17
REPZ_11_138 == 18
Codes == Lengths \union {REP_3_6, REPZ_3_10, REPZ_11_138}

Limits(nextlen, curlen) ==
  IF nextlen = 0 THEN [max |-> MaxZeros, min |-> 3]
  ELSE IF curlen = nextlen THEN [max |-> Rep, min |-> 3]
  ELSE [max |-> Rep + 1, min |-> 4]

Start(lens) == [prevlen |-> -1, count |-> 0, limits |-> Limits(lens[1], -1)]

\* What follows a run: the one code with a count, or the codes themselves.
RunCodes(curlen, count, prevlen, min) ==
  LET one(c, x) == <<c, x>>
  IN  IF count < min THEN [i \in 1..count |-> one(curlen, 0)]
      ELSE IF curlen # 0
           THEN IF curlen # prevlen THEN <<one(curlen, 0), one(REP_3_6, count - 1 - 3)>>
                ELSE <<one(REP_3_6, count - 3)>>
      ELSE IF count <= Repz THEN <<one(REPZ_3_10, count - 3)>>
      ELSE <<one(REPZ_11_138, count - (Repz + 1))>>

\* The same run, as scan_tree() counts it.
ScanCounts(curlen, count, prevlen, min) ==
  LET add(c, k) == [freq EXCEPT ![c] = @ + k]
  IN  IF count < min THEN add(curlen, count)
      ELSE IF curlen # 0
           THEN [add(REP_3_6, 1) EXCEPT ![curlen] = IF curlen # prevlen THEN @ + 1 ELSE @]
      ELSE IF count <= Repz THEN add(REPZ_3_10, 1)
      ELSE add(REPZ_11_138, 1)

After(curlen, nextlen) == [prevlen |-> curlen, count |-> 0, limits |-> Limits(nextlen, curlen)]

\* One round of the loop of both functions.
Round ==
  LET lens == trees[tree]
      curlen == lens[n + 1]
      nextlen == IF n + 2 <= Len(lens) THEN lens[n + 2] ELSE Guard
      count == run.count + 1
  IN  /\ pass # "done" /\ n < Len(lens)
      /\ n' = n + 1
      /\ IF count < run.limits.max /\ curlen = nextlen
         THEN run' = [run EXCEPT !.count = count] /\ UNCHANGED <<freq, sent>>
         ELSE /\ run' = After(curlen, nextlen)
              /\ IF pass = "scan"
                 THEN freq' = ScanCounts(curlen, count, run.prevlen, run.limits.min) /\ UNCHANGED sent
                 ELSE sent' = sent \o RunCodes(curlen, count, run.prevlen, run.limits.min) /\ UNCHANGED freq
      /\ UNCHANGED <<trees, pass, tree>>

\* build_bl_tree() scans both trees, and send_all_trees() sends both.
NextTree ==
  /\ pass # "done" /\ n = Len(trees[tree])
  /\ n' = 0
  /\ tree' = 3 - tree
  /\ pass' = IF tree = 1 THEN pass ELSE IF pass = "scan" THEN "send" ELSE "done"
  /\ run' = Start(trees[3 - tree])
  /\ UNCHANGED <<trees, freq, sent>>

BoundedSeq1(max) == BoundedSeq(Lengths, max) \ {<<>>}

Init ==
  /\ trees \in BoundedSeq1(MaxLiterals) \X BoundedSeq1(MaxDistances)
  /\ \A i \in 1..2 : trees[i][Len(trees[i])] # 0     \* max_code is the last code in use
  /\ pass = "scan" /\ tree = 1 /\ n = 0 /\ run = Start(trees[1])
  /\ freq = [c \in Codes |-> 0] /\ sent = <<>>

Next == Round \/ NextTree

Spec == Init /\ [][Next]_vars

---------------------------------------------------------------------------
(* What inflate() makes of the codes, for both trees in one table.  *)

Expand(lens, code) ==
  LET copies(k, v) == [i \in 1..k |-> v]
  IN  CASE code[1] = REP_3_6 -> lens \o copies(3 + code[2], lens[Len(lens)])
        [] code[1] = REPZ_3_10 -> lens \o copies(3 + code[2], 0)
        [] code[1] = REPZ_11_138 -> lens \o copies(Repz + 1 + code[2], 0)
        [] OTHER -> Append(lens, code[1])

\* What is sent stands for the lengths of both trees, although the decoder keeps them in one table and
\* a repetition could go on from the first tree's last length, and every count fits its extra bits.
SentExact ==
  pass = "done" =>
    /\ FoldLeft(Expand, <<>>, sent) = trees[1] \o trees[2]
    /\ \A i \in DOMAIN sent :
         CASE sent[i][1] = REP_3_6 -> sent[i][2] \in 0..(Rep - 3)
           [] sent[i][1] = REPZ_3_10 -> sent[i][2] \in 0..(Repz - 3)
           [] sent[i][1] = REPZ_11_138 -> sent[i][2] \in 0..(MaxZeros - Repz - 1)
           [] OTHER -> TRUE

\* scan_tree() has counted each code as often as send_tree() sends it.
ScanAgrees ==
  pass = "done" => \A c \in Codes : freq[c] = Cardinality({i \in DOMAIN sent : sent[i][1] = c})
===========================================================================

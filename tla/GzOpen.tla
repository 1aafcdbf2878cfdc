------------------------------- MODULE GzOpen -------------------------------
(* zlib's gz_open(): what a mode string asks for.                          *)
EXTENDS Sequences, SequencesExt

\* A plus is refused at once; what is not known is ignored.
Char(m, c) ==
  CASE c = "r" -> [m EXCEPT !.mode = "READ"]
    [] c = "w" -> [m EXCEPT !.mode = "WRITE"]
    [] c = "a" -> [m EXCEPT !.mode = "APPEND"]
    [] c = "+" -> [m EXCEPT !.refused = TRUE]
    [] c = "T" -> [m EXCEPT !.direct = TRUE]
    [] OTHER -> m

\* The file that is opened, or none.  Reading is direct until a gzip stream
\* is met, and cannot be forced to be.
gz_open(mode) ==
  LET m == FoldLeft(Char, [mode |-> "NONE", direct |-> FALSE, refused |-> FALSE], mode)
  IN IF m.refused \/ m.mode = "NONE" \/ (m.mode = "READ" /\ m.direct) THEN [m EXCEPT !.refused = TRUE]
     ELSE [m EXCEPT !.direct = @ \/ m.mode = "READ"]
=============================================================================

----------------------------- MODULE ActionFifo -----------------------------
(***************************************************************************)
(* What the queue of completed actions promises its callers: the worker    *)
(* hands over actions one by one, the Lua thread takes everything handed   *)
(* over so far in one go and then walks what it took, oldest first.        *)
(* Nothing is lost, nothing comes twice, nothing overtakes.                *)
(*                                                                         *)
(* This is the abstract specification of waitfree_action_queue             *)
(* (database.h); module ActionQueue is shown to implement it.              *)
(***************************************************************************)
EXTENDS Naturals, Sequences

CONSTANT Nodes      \* addresses of DatabaseAction objects

VARIABLES
  sent,     \* every action handed over, in the order the pushes took effect
  taken,    \* how many of them the consumer has taken
  out       \* the actions the consumer has walked, in that order

vars == <<sent, taken, out>>

Init ==
  /\ sent = << >>
  /\ taken = 0
  /\ out = << >>

\* push takes effect.
Push(n) ==
  /\ sent' = Append(sent, n)
  /\ UNCHANGED <<taken, out>>

\* pop_all takes effect; the batch taken before has been walked to its end.
PopAll ==
  /\ Len(out) = taken
  /\ taken' = Len(sent)
  /\ UNCHANGED <<sent, out>>

\* The walk over the batch reaches its next action.
Walk ==
  /\ Len(out) < taken
  /\ out' = Append(out, sent[Len(out) + 1])
  /\ UNCHANGED <<sent, taken>>

Next ==
  \/ \E n \in Nodes : Push(n)
  \/ PopAll
  \/ Walk

Spec == Init /\ [][Next]_vars
=============================================================================

---------------------------- MODULE QueryService ----------------------------
(***************************************************************************)
(* What a database promises a script that queues queries and statements:   *)
(* they are executed one by one in the order of the calls, and each is     *)
(* then called back once, or dropped, never before it was executed.        *)
(*                                                                         *)
(* This is the abstract specification of Database, with its two threads,   *)
(* its queues and its re-entrant callbacks; Database is shown to implement *)
(* it.  The order of the callbacks is not part of the promise: a callback  *)
(* that polls is overtaken by what it dispatches.  Nor is that all that is *)
(* asked is executed: what is queued while Disconnect dispatches is not.   *)
(***************************************************************************)
EXTENDS Naturals, Sequences

VARIABLES
  asked,      \* number of actions queued; the k-th has id k
  executed,   \* ids of the actions that have been executed
  called,     \* ids of the actions called back, in that order
  dropped     \* ids of the actions that will not be called back

vars == <<asked, executed, called, dropped>>

Init ==
  /\ asked = 0
  /\ executed = {}
  /\ called = << >>
  /\ dropped = {}

\* Actions executed and neither called back nor dropped.
Pending == executed \ (dropped \cup {called[i] : i \in 1 .. Len(called)})

\* Query or Run is called.
Ask ==
  /\ asked' = asked + 1
  /\ UNCHANGED <<executed, called, dropped>>

\* The oldest action that has not been executed is.
Execute ==
  /\ \E id \in 1 .. asked : executed = 1 .. (id - 1) /\ executed' = 1 .. id
  /\ UNCHANGED <<asked, called, dropped>>

\* A callback is called.
Call(id) ==
  /\ id \in Pending
  /\ called' = Append(called, id)
  /\ UNCHANGED <<asked, executed, dropped>>

\* An action has no callback, or the Lua state is closing.
Drop(id) ==
  /\ id \in Pending
  /\ dropped' = dropped \cup {id}
  /\ UNCHANGED <<asked, executed, called>>

Next ==
  \/ Ask
  \/ Execute
  \/ \E id \in Pending : Call(id) \/ Drop(id)

Spec == Init /\ [][Next]_vars
=============================================================================

---------------------------- MODULE ActionQueue ----------------------------
(***************************************************************************)
(* waitfree_action_queue<DatabaseAction> (database.h) at the granularity   *)
(* of its atomic operations, together with the loop of                     *)
(* Database::DispatchCompletedActions that walks and deletes what pop_all  *)
(* returns.                                                                *)
(*                                                                         *)
(* The queue is an intrusive stack: head_ points at the newest action and  *)
(* every action's `next' at the one pushed before it.  push is a           *)
(* compare-and-swap loop run by a worker thread; pop_all detaches the      *)
(* whole stack with one exchange and reverses it privately.  The module is *)
(* built for x86 and x86-64 only (premake5.lua), where                     *)
(* compare_exchange_weak fails only if head_ differs from stale_head.      *)
(*                                                                         *)
(* Addresses are reused: a deleted action's address may be allocated for a *)
(* later action while a push still holds the old address as stale_head.    *)
(***************************************************************************)
EXTENDS Naturals, Sequences

CONSTANTS
  Nodes,        \* addresses an action may be allocated at
  NULL,         \* the null pointer
  Producers,    \* threads that push; a Database has one, its io thread
  MaxPushes     \* bound: pushes in one behaviour

ASSUME NullAssumption == NULL \notin Nodes
ASSUME BoundAssumption == MaxPushes \in Nat

VARIABLES
  head,         \* head_
  next,         \* the `next' field of the action at each address
  heap,         \* addresses of the actions now allocated
  pc,           \* where each producer is in push
  data,         \* push's argument, per producer
  stale,        \* push's local stale_head, per producer
  fails,        \* failed compare-and-swaps of the push under way
  cpc,          \* where the consumer is
  last,         \* pop_all's local last
  first,        \* pop_all's local first, then DispatchCompletedActions' completed
  \* History: what has happened, for the properties.
  sent,         \* actions in the order their pushes took effect
  taken,        \* how many of them pop_all has detached
  out           \* actions in the order the consumer walked them

prodVars == <<pc, data, stale, fails>>
consVars == <<cpc, last, first>>
vars == <<head, next, heap, prodVars, consVars, sent, taken, out>>

Pointers == Nodes \cup {NULL}

Init ==
  /\ head = NULL
  /\ next = [n \in Nodes |-> NULL]
  /\ heap = {}
  /\ pc = [p \in Producers |-> "idle"]
  /\ data = [p \in Producers |-> NULL]
  /\ stale = [p \in Producers |-> NULL]
  /\ fails = [p \in Producers |-> 0]
  /\ cpc = "idle"
  /\ last = NULL
  /\ first = NULL
  /\ sent = << >>
  /\ taken = 0
  /\ out = << >>

-----------------------------------------------------------------------------
(* push, run by a worker that has finished the action at address n.        *)

\* stale_head = head_.load().  A push under way counts against the bound.
PushLoad(p, n) ==
  /\ pc[p] = "idle"
  /\ n \notin heap
  /\ Len(sent) < MaxPushes
  /\ heap' = heap \cup {n}
  /\ data' = [data EXCEPT ![p] = n]
  /\ stale' = [stale EXCEPT ![p] = head]
  /\ fails' = [fails EXCEPT ![p] = 0]
  /\ pc' = [pc EXCEPT ![p] = "link"]
  /\ UNCHANGED <<head, next, consVars, sent, taken, out>>

\* data->next = stale_head.
PushLink(p) ==
  /\ pc[p] = "link"
  /\ next' = [next EXCEPT ![data[p]] = stale[p]]
  /\ pc' = [pc EXCEPT ![p] = "cas"]
  /\ UNCHANGED <<head, heap, data, stale, fails, consVars, sent, taken, out>>

\* Mutant: a plain store.
AlwaysSwaps(p) == TRUE

\* compare_exchange_weak finds what it expects.
Swaps(p) == head = stale[p]

\* Mutant: expected and desired are exchanged.
DesiredSwapped(p) == stale[p]

\* What it stores then.
Desired(p) == data[p]

\* The compare-and-swap succeeds: this is where the push takes effect.
PushSwap(p) ==
  /\ pc[p] = "cas"
  /\ Swaps(p)
  /\ head' = Desired(p)
  /\ sent' = Append(sent, head')
  /\ pc' = [pc EXCEPT ![p] = "idle"]
  /\ UNCHANGED <<next, heap, data, stale, fails, consVars, taken, out>>

\* Mutant: stale_head is passed by value.
NotReloaded(p) == stale[p]

\* What a failed exchange leaves in stale_head.
Reloaded(p) == head

\* It fails, stores the head it saw in stale_head, and the loop goes round.
PushRetry(p) ==
  /\ pc[p] = "cas"
  /\ ~Swaps(p)
  /\ stale' = [stale EXCEPT ![p] = Reloaded(p)]
  /\ fails' = [fails EXCEPT ![p] = @ + 1]
  /\ pc' = [pc EXCEPT ![p] = "link"]
  /\ UNCHANGED <<head, next, heap, data, consVars, sent, taken, out>>

-----------------------------------------------------------------------------
(* pop_all and the walk over its result, run by the Lua thread.            *)

\* Mutant: head_ is only read.
NotDetached == head

\* What pop_all_reverse leaves in head_.
Detached == NULL

\* last = pop_all_reverse(), first = 0.
Exchange ==
  /\ cpc = "idle"
  /\ last' = head
  /\ head' = Detached
  /\ first' = NULL
  /\ taken' = Len(sent)
  /\ cpc' = "reverse"
  /\ UNCHANGED <<next, heap, prodVars, sent, out>>

\* Mutant: tmp->next = 0.
LinkCut == NULL

\* What tmp->next becomes.
LinkBack == first

\* One turn of pop_all's reversal loop.
Reverse ==
  /\ cpc = "reverse"
  /\ last # NULL
  /\ last' = next[last]
  /\ next' = [next EXCEPT ![last] = LinkBack]
  /\ first' = last
  /\ UNCHANGED <<head, heap, prodVars, cpc, sent, taken, out>>

\* The loop ends and pop_all returns first.
PopReturn ==
  /\ cpc = "reverse"
  /\ last = NULL
  /\ cpc' = "walk"
  /\ UNCHANGED <<head, next, heap, prodVars, last, first, sent, taken, out>>

\* Mutant: the action is not deleted.
KeepAction == UNCHANGED heap

\* delete action.
DeleteAction == heap' = heap \ {first}

\* One turn of DispatchCompletedActions' loop: completed = action->next and
\* delete action.
Walk ==
  /\ cpc = "walk"
  /\ first # NULL
  /\ out' = Append(out, first)
  /\ first' = next[first]
  /\ DeleteAction
  /\ UNCHANGED <<head, next, prodVars, cpc, last, sent, taken>>

\* That loop ends; DispatchCompletedActions returns.
WalkEnd ==
  /\ cpc = "walk"
  /\ first = NULL
  /\ cpc' = "idle"
  /\ UNCHANGED <<head, next, heap, prodVars, last, first, sent, taken, out>>

-----------------------------------------------------------------------------
Push(p) == PushLink(p) \/ PushSwap(p) \/ PushRetry(p)
PopAll == Exchange \/ Reverse \/ PopReturn \/ Walk \/ WalkEnd

Next ==
  \/ \E p \in Producers : (\E n \in Nodes : PushLoad(p, n)) \/ Push(p)
  \/ PopAll

\* A worker in push keeps running; the server's Think hook keeps polling.
Fairness ==
  /\ \A p \in Producers : WF_vars(Push(p))
  /\ WF_vars(PopAll)

Spec == Init /\ [][Next]_vars
FairSpec == Spec /\ Fairness

-----------------------------------------------------------------------------
(* Properties.                                                             *)

\* Positions of `sent' that the consumer has not walked yet.
Unwalked == Len(out) + 1 .. Len(sent)

\* Actions another thread may read or write: in the stack, or being pushed.
Shared ==
  {sent[i] : i \in taken + 1 .. Len(sent)}
    \cup {data[p] : p \in {q \in Producers : pc[q] # "idle"}}

\* Every variable has its type.
TypeOK ==
  /\ head \in Pointers
  /\ next \in [Nodes -> Pointers]
  /\ heap \subseteq Nodes
  /\ pc \in [Producers -> {"idle", "link", "cas"}]
  /\ data \in [Producers -> Pointers]
  /\ stale \in [Producers -> Pointers]
  /\ fails \in [Producers -> Nat]
  /\ cpc \in {"idle", "reverse", "walk"}
  /\ last \in Pointers
  /\ first \in Pointers
  /\ sent \in Seq(Nodes)
  /\ taken \in Nat
  /\ out \in Seq(Nodes)

\* The consumer relinks and deletes actions without synchronisation, so
\* none of them may be reachable by a producer: what pop_all reverses and
\* what DispatchCompletedActions walks is private to the Lua thread, and
\* still allocated when it is touched.
BatchPrivate ==
  /\ cpc = "reverse" /\ last # NULL => last \in heap \ Shared
  /\ cpc = "walk" /\ first # NULL => first \in heap \ Shared

\* Every allocated action is either being pushed or still to be walked, and
\* the other way round: pop_all's reversal drops no action (a leak, and a
\* callback never called) and the walk deletes none it does not own.
HeapExact ==
  heap = {sent[i] : i \in Unwalked}
           \cup {data[p] : p \in {q \in Producers : pc[q] # "idle"}}

\* With the one producer a Database has, push is wait-free as its name
\* says: the compare-and-swap fails at most once, whatever pop_all does.
WaitFree ==
  (\A p, q \in Producers : p = q) => \A p \in Producers : fails[p] <= 1

\* The queue implements its abstract specification: the Lua thread walks the
\* actions in exactly the order their pushes took effect.
Fifo == INSTANCE ActionFifo WITH Nodes <- Nodes, sent <- sent, taken <- taken, out <- out
ImplementsFifo == Fifo!Spec

\* Every action pushed is eventually walked, so its callback is called.
EventuallyWalked ==
  \A k \in 1 .. MaxPushes : Len(sent) >= k ~> Len(out) >= k
=============================================================================

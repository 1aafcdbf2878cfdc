------------------------- MODULE ActionQueueProofs -------------------------
(***************************************************************************)
(* Proofs about the queue of completed actions, for any set of addresses,  *)
(* any set of producers and any number of pushes.                          *)
(***************************************************************************)
EXTENDS ActionQueue, TLAPS

-----------------------------------------------------------------------------
(* The inductive invariant.  `sent' numbers the actions; those up to       *)
(* Len(out) have been walked, those up to taken are the consumer's, the    *)
(* rest is the stack that head_ points at.                                 *)

\* The consumer never runs ahead of what was pushed.
Counts == Len(out) <= taken /\ taken <= Len(sent)

\* head_ is the newest action not taken, and each action of the stack points
\* at the one pushed before it.
StackLinked ==
  /\ head = IF taken = Len(sent) THEN NULL ELSE sent[Len(sent)]
  /\ \A i \in taken + 1 .. Len(sent) :
       next[sent[i]] = IF i = taken + 1 THEN NULL ELSE sent[i - 1]

\* No address is in use for two actions.
Distinct == \A i, j \in Unwalked : sent[i] = sent[j] => i = j

Allocated == \A i \in Unwalked : sent[i] \in heap

\* An action being pushed is nobody else's, and is linked before the swap.
PushOwned ==
  \A p \in Producers : pc[p] # "idle" =>
    /\ data[p] \in heap
    /\ \A i \in Unwalked : sent[i] # data[p]
    /\ \A q \in Producers : q # p /\ pc[q] # "idle" => data[q] # data[p]
    /\ pc[p] = "cas" => next[data[p]] = stale[p]

\* pop_all has reversed the actions after position k and not those up to k.
ReversedTo(k) ==
  /\ last = IF k = Len(out) THEN NULL ELSE sent[k]
  /\ first = IF k = taken THEN NULL ELSE sent[k + 1]
  /\ \A i \in Len(out) + 1 .. k :
       next[sent[i]] = IF i = Len(out) + 1 THEN NULL ELSE sent[i - 1]
  /\ \A i \in k + 1 .. taken :
       next[sent[i]] = IF i = taken THEN NULL ELSE sent[i + 1]

ConsumerAt ==
  /\ cpc = "idle" => Len(out) = taken
  /\ cpc = "reverse" => \E k \in Len(out) .. taken : ReversedTo(k)
  /\ cpc = "walk" => ReversedTo(Len(out))

IInv ==
  /\ TypeOK
  /\ Counts
  /\ StackLinked
  /\ Distinct
  /\ Allocated
  /\ PushOwned
  /\ ConsumerAt

-----------------------------------------------------------------------------
(* Every step preserves the invariant, one lemma per action.               *)

LEMMA InitIInv == Init => IInv
BY DEF Init, IInv, TypeOK, Pointers, Counts, StackLinked, Distinct,
       Allocated, PushOwned, ConsumerAt, Unwalked

LEMMA PushLoadIInv ==
  ASSUME NEW p \in Producers, NEW n \in Nodes, IInv, PushLoad(p, n)
  PROVE  IInv'
<1> USE DEF IInv, PushLoad, consVars
<1>1. TypeOK'
  BY DEF TypeOK, Pointers
<1>2. Counts' /\ StackLinked' /\ Distinct'
  BY DEF Counts, StackLinked, Distinct, Unwalked
<1>3. Allocated'
  BY DEF Allocated, Unwalked
<1>4. PushOwned'
  BY DEF PushOwned, Allocated, Unwalked, TypeOK
<1>5. ConsumerAt'
  BY DEF ConsumerAt, ReversedTo
<1> QED
  BY <1>1, <1>2, <1>3, <1>4, <1>5

\* The action being linked is in no stack and in no batch.
LEMMA PushLinkIInv ==
  ASSUME NEW p \in Producers, IInv, PushLink(p)
  PROVE  IInv'
<1> USE DEF IInv, PushLink, consVars
<1>1. data[p] \in Nodes /\ \A i \in Unwalked : sent[i] # data[p]
  BY DEF PushOwned, TypeOK
<1>2. TypeOK'
  BY <1>1 DEF TypeOK, Pointers
<1>3. Len(out) \in Nat /\ taken \in Nat /\ Len(sent) \in Nat /\ Counts
  BY DEF TypeOK
<1>4. \A i \in Unwalked : next'[sent[i]] = next[sent[i]]
  BY <1>1 DEF TypeOK, Unwalked
<1>5. StackLinked'
  BY <1>3, <1>4 DEF StackLinked, Unwalked, Counts
<1>6. PushOwned'
  BY <1>1 DEF PushOwned, TypeOK, Unwalked
<1>7. ASSUME NEW k \in Len(out) .. taken, ReversedTo(k) PROVE ReversedTo(k)'
  <2>1. \A i \in Len(out) + 1 .. taken : next'[sent[i]] = next[sent[i]]
    BY <1>3, <1>4 DEF Unwalked, Counts
  <2>2. \A i \in Len(out) + 1 .. k : i \in Len(out) + 1 .. taken
    BY <1>3
  <2>3. \A i \in k + 1 .. taken : i \in Len(out) + 1 .. taken
    BY <1>3
  <2> QED
    BY <1>7, <2>1, <2>2, <2>3 DEF ReversedTo
<1>8. ConsumerAt'
  <2>1. Len(out) \in Len(out) .. taken
    BY <1>3 DEF Counts
  <2> QED
    BY <1>7, <2>1 DEF ConsumerAt
<1> QED
  BY <1>2, <1>5, <1>6, <1>8 DEF Counts, Distinct, Allocated, Unwalked

\* The swap puts the action on top of the stack it was linked to: if an
\* address came back as head_ in the meantime, it is still the right link.
LEMMA PushSwapIInv ==
  ASSUME NEW p \in Producers, IInv, PushSwap(p)
  PROVE  IInv'
<1> USE DEF IInv, PushSwap, consVars, Swaps, Desired
<1>1. data[p] \in Nodes /\ data[p] \in heap /\ next[data[p]] = head
  BY DEF PushOwned, TypeOK
<1>2. \A i \in Unwalked : sent[i] # data[p]
  BY DEF PushOwned
<1>3. /\ Len(out) \in Nat /\ taken \in Nat /\ Len(sent) \in Nat
      /\ Len(sent') = Len(sent) + 1
      /\ sent'[Len(sent) + 1] = data[p]
      /\ \A i \in 1 .. Len(sent) : sent'[i] = sent[i] /\ sent[i] \in Nodes
  BY <1>1 DEF TypeOK
<1>4. TypeOK'
  BY <1>1 DEF TypeOK, Pointers
<1>5. Counts'
  BY <1>3 DEF Counts
<1>6. StackLinked'
  BY <1>1, <1>3 DEF StackLinked, Counts
<1>7. Distinct' /\ Allocated'
  BY <1>1, <1>2, <1>3 DEF Distinct, Allocated, Unwalked, Counts
<1>8. PushOwned'
  BY <1>1, <1>2, <1>3 DEF PushOwned, Unwalked, Counts, TypeOK
<1>9. \A k \in Len(out) .. taken : ReversedTo(k) => ReversedTo(k)'
  BY <1>3 DEF ReversedTo, Counts
<1>10. ConsumerAt'
  <2>1. Len(out) \in Len(out) .. taken
    BY <1>3 DEF Counts
  <2> QED
    BY <1>9, <2>1 DEF ConsumerAt
<1> QED
  BY <1>4, <1>5, <1>6, <1>7, <1>8, <1>10

LEMMA PushRetryIInv ==
  ASSUME NEW p \in Producers, IInv, PushRetry(p)
  PROVE  IInv'
<1> USE DEF IInv, PushRetry, consVars, Reloaded
<1>1. TypeOK'
  BY DEF TypeOK, Pointers
<1>2. Counts' /\ StackLinked' /\ Distinct' /\ Allocated'
  BY DEF Counts, StackLinked, Distinct, Allocated, Unwalked
<1>3. PushOwned'
  BY DEF PushOwned, Unwalked, TypeOK
<1>4. ConsumerAt'
  BY DEF ConsumerAt, ReversedTo
<1> QED
  BY <1>1, <1>2, <1>3, <1>4

\* The whole stack becomes the consumer's batch.
LEMMA ExchangeIInv ==
  ASSUME IInv, Exchange
  PROVE  IInv'
<1> USE DEF IInv, Exchange, prodVars, Detached
<1>1. TypeOK'
  BY DEF TypeOK, Pointers
<1>2. /\ Len(out) \in Nat /\ taken \in Nat /\ Len(sent) \in Nat
      /\ Len(out) = taken /\ taken <= Len(sent)
  BY DEF TypeOK, ConsumerAt, Counts
<1>3. Counts' /\ StackLinked'
  BY <1>2 DEF Counts, StackLinked
<1>4. Distinct' /\ Allocated' /\ PushOwned'
  BY DEF Distinct, Allocated, PushOwned, Unwalked
<1>5. ReversedTo(Len(sent))'
  BY <1>2 DEF ReversedTo, StackLinked
<1>6. ConsumerAt'
  <2>1. Len(sent) \in (Len(out) .. taken)'
    BY <1>2
  <2> QED
    BY <1>5, <2>1 DEF ConsumerAt
<1> QED
  BY <1>1, <1>3, <1>4, <1>6

\* One action moves from the part still to reverse to the part reversed.
LEMMA ReverseIInv ==
  ASSUME IInv, Reverse
  PROVE  IInv'
<1> USE DEF IInv, Reverse, prodVars, LinkBack
<1>1. TypeOK'
  BY DEF TypeOK, Pointers
<1>2. PICK k \in Len(out) .. taken : ReversedTo(k)
  BY DEF ConsumerAt
<1>3. /\ Len(out) \in Nat /\ taken \in Nat /\ Len(sent) \in Nat
      /\ k \in Nat /\ Len(out) < k /\ k <= taken /\ taken <= Len(sent)
      /\ last = sent[k] /\ last \in Nodes /\ k \in Unwalked
  BY <1>2 DEF ReversedTo, Counts, TypeOK, Pointers, Unwalked
<1>4. \A i \in Unwalked : i # k => next'[sent[i]] = next[sent[i]]
  BY <1>3 DEF Distinct, TypeOK, Unwalked
<1>5. next'[sent[k]] = first
  BY <1>3 DEF TypeOK
<1>6. StackLinked'
  BY <1>3, <1>4 DEF StackLinked, Unwalked
<1>7. PushOwned'
  BY <1>3 DEF PushOwned, Unwalked, TypeOK
<1>8. ReversedTo(k - 1)'
  <2>1. last' = IF k - 1 = Len(out) THEN NULL ELSE sent[k - 1]
    BY <1>2, <1>3 DEF ReversedTo
  <2>2. first' = sent[k] /\ k - 1 # taken /\ (k - 1) + 1 = k
    BY <1>3
  <2>3. \A i \in Len(out) + 1 .. k - 1 :
          next'[sent[i]] = IF i = Len(out) + 1 THEN NULL ELSE sent[i - 1]
    BY <1>2, <1>3, <1>4 DEF ReversedTo, Unwalked
  <2>4. \A i \in k .. taken :
          next'[sent[i]] = IF i = taken THEN NULL ELSE sent[i + 1]
    <3>1. next'[sent[k]] = IF k = taken THEN NULL ELSE sent[k + 1]
      BY <1>2, <1>5 DEF ReversedTo
    <3>2. ASSUME NEW i \in k + 1 .. taken
          PROVE  next'[sent[i]] = IF i = taken THEN NULL ELSE sent[i + 1]
      <4>1. i \in Unwalked /\ i # k
        BY <1>3 DEF Unwalked
      <4> QED
        BY <1>2, <1>4, <4>1 DEF ReversedTo
    <3>3. \A i \in k .. taken : i = k \/ i \in k + 1 .. taken
      BY <1>3
    <3> QED
      BY <3>1, <3>2, <3>3
  <2> QED
    BY <2>1, <2>2, <2>3, <2>4 DEF ReversedTo
<1>9. ConsumerAt'
  <2>1. k - 1 \in (Len(out) .. taken)'
    BY <1>3
  <2> QED
    BY <1>8, <2>1 DEF ConsumerAt
<1> QED
  BY <1>1, <1>6, <1>7, <1>9 DEF Counts, Distinct, Allocated, Unwalked

LEMMA PopReturnIInv ==
  ASSUME IInv, PopReturn
  PROVE  IInv'
<1> USE DEF IInv, PopReturn, prodVars
<1>1. TypeOK'
  BY DEF TypeOK, Pointers
<1>2. PICK k \in Len(out) .. taken : ReversedTo(k)
  BY DEF ConsumerAt
<1>3. k = Len(out)
  BY <1>2, NullAssumption DEF ReversedTo, Counts, TypeOK
<1>4. ReversedTo(Len(out))'
  BY <1>2, <1>3 DEF ReversedTo
<1>5. ConsumerAt'
  BY <1>4 DEF ConsumerAt
<1> QED
  BY <1>1, <1>5 DEF Counts, StackLinked, Distinct, Allocated, PushOwned, Unwalked

\* The oldest action of the batch is walked and deleted.
LEMMA WalkIInv ==
  ASSUME IInv, Walk
  PROVE  IInv' /\ Len(out) < taken /\ first = sent[Len(out) + 1]
<1> USE DEF IInv, Walk, prodVars, DeleteAction
<1>1. /\ Len(out) \in Nat /\ taken \in Nat /\ Len(sent) \in Nat
      /\ Len(out) < taken /\ taken <= Len(sent)
      /\ first = sent[Len(out) + 1] /\ first \in Nodes
      /\ ReversedTo(Len(out))
  BY DEF ConsumerAt, ReversedTo, Counts, TypeOK, Pointers
<1>2. TypeOK'
  BY <1>1 DEF TypeOK, Pointers
<1>3. Len(out') = Len(out) + 1
  BY <1>1 DEF TypeOK
<1>4. Counts'
  BY <1>1, <1>3 DEF Counts
<1>5. StackLinked'
  BY DEF StackLinked
<1>6. Distinct' /\ Allocated'
  BY <1>1, <1>3 DEF Distinct, Allocated, Unwalked
<1>7. PushOwned'
  BY <1>1, <1>3 DEF PushOwned, Unwalked
<1>8. ReversedTo(Len(out))'
  BY <1>1, <1>3 DEF ReversedTo
<1>9. ConsumerAt'
  BY <1>8 DEF ConsumerAt
<1> QED
  BY <1>1, <1>2, <1>4, <1>5, <1>6, <1>7, <1>9

LEMMA WalkEndIInv ==
  ASSUME IInv, WalkEnd
  PROVE  IInv'
<1> USE DEF IInv, WalkEnd, prodVars
<1>1. TypeOK'
  BY DEF TypeOK, Pointers
<1>2. Len(out) = taken
  BY NullAssumption DEF ConsumerAt, ReversedTo, Counts, TypeOK
<1>3. ConsumerAt'
  BY <1>2 DEF ConsumerAt
<1> QED
  BY <1>1, <1>3 DEF Counts, StackLinked, Distinct, Allocated, PushOwned, Unwalked

LEMMA StutterIInv ==
  ASSUME IInv, UNCHANGED vars
  PROVE  IInv'
BY DEF IInv, vars, prodVars, consVars, TypeOK, Counts, StackLinked, Distinct,
       Allocated, PushOwned, ConsumerAt, ReversedTo, Unwalked

LEMMA NextIInv ==
  ASSUME IInv, [Next]_vars
  PROVE  IInv'
BY PushLoadIInv, PushLinkIInv, PushSwapIInv, PushRetryIInv, ExchangeIInv,
   ReverseIInv, PopReturnIInv, WalkIInv, WalkEndIInv, StutterIInv
DEF Next, Push, PopAll

\* The invariant holds in every reachable state.
THEOREM Invariance == Spec => []IInv
<1>1. IInv /\ [Next]_vars => IInv'
  BY NextIInv
<1> QED
  BY InitIInv, <1>1, PTL DEF Spec

-----------------------------------------------------------------------------
(* What follows from it.                                                   *)

\* The variables of push and pop_all keep their types.
THEOREM TypeCorrect == Spec => []TypeOK
<1>1. IInv => TypeOK
  BY DEF IInv
<1> QED
  BY Invariance, <1>1, PTL

\* What pop_all relinks and DispatchCompletedActions deletes is allocated
\* and out of every producer's reach, for any number of producers.
THEOREM BatchIsPrivate == Spec => []BatchPrivate
<1>1. IInv => BatchPrivate
  <2> SUFFICES ASSUME IInv PROVE BatchPrivate
    OBVIOUS
  <2> USE DEF IInv
  <2>1. Len(out) \in Nat /\ taken \in Nat /\ Len(sent) \in Nat /\ Counts
    BY DEF TypeOK
  <2>2. ASSUME NEW k \in Len(out) + 1 .. taken PROVE sent[k] \in heap \ Shared
    <3>1. k \in Unwalked
      BY <2>1 DEF Counts, Unwalked
    <3>2. \A i \in taken + 1 .. Len(sent) : i \in Unwalked /\ i # k
      BY <2>1 DEF Counts, Unwalked
    <3> QED
      BY <3>1, <3>2 DEF Shared, Allocated, Distinct, PushOwned
  <2>3. ASSUME NEW k \in Len(out) .. taken, ReversedTo(k), last # NULL
        PROVE  last \in heap \ Shared
    <3>1. k \in Len(out) + 1 .. taken /\ last = sent[k]
      BY <2>1, <2>3 DEF ReversedTo
    <3> QED
      BY <2>2, <3>1
  <2>4. ASSUME ReversedTo(Len(out)), first # NULL
        PROVE  first \in heap \ Shared
    <3>1. Len(out) + 1 \in Len(out) + 1 .. taken /\ first = sent[Len(out) + 1]
      BY <2>1, <2>4 DEF ReversedTo, Counts
    <3> QED
      BY <2>2, <3>1
  <2> QED
    BY <2>3, <2>4 DEF BatchPrivate, ConsumerAt
<1> QED
  BY Invariance, <1>1, PTL

-----------------------------------------------------------------------------
(* HeapExact, by induction relative to the invariant.                      *)

\* The actions pushed and not walked, and those being pushed.
Pushed == {sent[i] : i \in Unwalked}
Pushing == {data[p] : p \in {q \in Producers : pc[q] # "idle"}}

LEMMA HeapExactStep ==
  ASSUME IInv, HeapExact, [Next]_vars
  PROVE  HeapExact'
<1> USE DEF IInv, HeapExact
<1>0. /\ Len(out) \in Nat /\ taken \in Nat /\ Len(sent) \in Nat
      /\ Len(out) <= taken /\ taken <= Len(sent)
  BY DEF TypeOK, Counts
<1>1. ASSUME NEW p \in Producers, NEW n \in Nodes, PushLoad(p, n) PROVE HeapExact'
  <2>1. Pushed' = Pushed
    BY <1>1 DEF PushLoad, Pushed, Unwalked
  <2>2. Pushing' = Pushing \cup {n}
    BY <1>1 DEF PushLoad, Pushing, TypeOK
  <2> QED
    BY <1>1, <2>1, <2>2 DEF PushLoad, Pushed, Pushing
<1>2. ASSUME NEW p \in Producers, PushLink(p) PROVE HeapExact'
  <2>1. Pushing' = Pushing
    BY <1>2 DEF PushLink, Pushing, TypeOK
  <2> QED
    BY <1>2, <2>1 DEF PushLink, Pushing, Unwalked
<1>3. ASSUME NEW p \in Producers, PushSwap(p) PROVE HeapExact'
  <2>1. Pushed' = Pushed \cup {data[p]}
    <3>1. data[p] \in Nodes
      BY <1>3 DEF PushSwap, PushOwned, TypeOK
    <3>2. /\ Len(sent') = Len(sent) + 1
          /\ sent'[Len(sent) + 1] = data[p]
          /\ \A i \in 1 .. Len(sent) : sent'[i] = sent[i]
      BY <1>3, <3>1 DEF PushSwap, Desired, TypeOK
    <3>3. out' = out /\ Unwalked' = Unwalked \cup {Len(sent) + 1}
      BY <1>0, <1>3, <3>2 DEF PushSwap, Unwalked
    <3>4. \A i \in Unwalked : sent'[i] = sent[i]
      BY <1>0, <3>2 DEF Unwalked
    <3> QED
      BY <3>2, <3>3, <3>4 DEF Pushed
  <2>2. Pushing' \cup {data[p]} = Pushing
    BY <1>3 DEF PushSwap, Pushing, TypeOK
  <2> QED
    BY <1>3, <2>1, <2>2 DEF PushSwap, Pushed, Pushing
<1>4. ASSUME NEW p \in Producers, PushRetry(p) PROVE HeapExact'
  <2>1. Pushing' = Pushing
    BY <1>4 DEF PushRetry, Pushing, TypeOK
  <2> QED
    BY <1>4, <2>1 DEF PushRetry, Pushing, Unwalked
<1>5. CASE Exchange \/ Reverse \/ PopReturn \/ WalkEnd \/ UNCHANGED vars
  BY <1>5 DEF Exchange, Reverse, PopReturn, WalkEnd, vars, prodVars, Unwalked
<1>6. CASE Walk
  <2>1. Len(out) < taken /\ first = sent[Len(out) + 1]
    BY <1>6, WalkIInv
  <2>2. Unwalked = Unwalked' \cup {Len(out) + 1} /\ Len(out) + 1 \notin Unwalked'
    <3>1. Len(out') = Len(out) + 1
      BY <1>6, <2>1, <1>0 DEF Walk, TypeOK
    <3> QED
      BY <1>0, <1>6, <2>1, <3>1 DEF Walk, Unwalked
  <2>3. Pushed' = Pushed \ {first}
    <3>1. \A i \in Unwalked' : sent[i] # first
      BY <2>1, <2>2 DEF Distinct
    <3> QED
      BY <1>6, <2>1, <2>2, <3>1 DEF Walk, Pushed
  <2>4. first \notin Pushing /\ Pushing' = Pushing
    BY <1>6, <2>1, <2>2 DEF Walk, prodVars, Pushing, PushOwned
  <2> QED
    BY <1>6, <2>3, <2>4 DEF Walk, DeleteAction, Pushed, Pushing
<1> QED
  BY <1>1, <1>2, <1>3, <1>4, <1>5, <1>6 DEF Next, Push, PopAll

\* The allocated actions are exactly those being pushed and those still to be
\* walked: the reversal in pop_all leaks none and no walk deletes a stranger.
THEOREM HeapIsExact == Spec => []HeapExact
<1>1. Init => HeapExact
  BY DEF Init, HeapExact, Unwalked
<1>2. IInv /\ HeapExact /\ [Next]_vars => HeapExact'
  BY HeapExactStep
<1> QED
  BY Invariance, <1>1, <1>2, PTL DEF Spec

-----------------------------------------------------------------------------
(* The abstract queue.                                                     *)

LEMMA FifoStep ==
  ASSUME IInv, [Next]_vars
  PROVE  [Fifo!Next]_(Fifo!vars)
<1> USE DEF Fifo!Next, Fifo!vars
<1>1. ASSUME NEW p \in Producers, NEW n \in Nodes, PushLoad(p, n)
      PROVE  UNCHANGED Fifo!vars
  BY <1>1 DEF PushLoad
<1>2. ASSUME NEW p \in Producers, PushLink(p) \/ PushRetry(p)
      PROVE  UNCHANGED Fifo!vars
  BY <1>2 DEF PushLink, PushRetry
<1>3. ASSUME NEW p \in Producers, PushSwap(p)
      PROVE  \E n \in Nodes : Fifo!Push(n)
  <2>1. data[p] \in Nodes
    BY <1>3 DEF PushSwap, IInv, PushOwned, TypeOK
  <2> WITNESS data[p] \in Nodes
  <2> QED
    BY <1>3 DEF PushSwap, Desired, Fifo!Push
<1>4. CASE Exchange
  BY <1>4 DEF Exchange, Fifo!PopAll, IInv, ConsumerAt
<1>5. CASE Reverse \/ PopReturn \/ WalkEnd \/ UNCHANGED vars
  BY <1>5 DEF Reverse, PopReturn, WalkEnd, vars
<1>6. CASE Walk
  <2>1. Len(out) < taken /\ first = sent[Len(out) + 1]
    BY <1>6, WalkIInv
  <2> QED
    BY <1>6, <2>1 DEF Walk, Fifo!Walk
<1> QED
  BY <1>1, <1>2, <1>3, <1>4, <1>5, <1>6 DEF Next, Push, PopAll

\* The compare-and-swap stack with its reversal is a FIFO: the Lua thread
\* walks the actions in the order their pushes took effect, none lost and
\* none twice, for any number of producers, addresses and pushes.
THEOREM QueueImplementsFifo == Spec => ImplementsFifo
<1>1. Init => Fifo!Init
  BY DEF Init, Fifo!Init
<1>2. IInv /\ [Next]_vars => [Fifo!Next]_(Fifo!vars)
  BY FifoStep
<1> QED
  BY Invariance, <1>1, <1>2, PTL DEF Spec, ImplementsFifo, Fifo!Spec

-----------------------------------------------------------------------------
(* Wait-freedom.                                                           *)

\* With one producer, head_ can only have become NULL since a push read it:
\* after one failure there is nothing left that could change it again.
OnlyEmptied ==
  \A p \in Producers : pc[p] # "idle" =>
    \/ fails[p] = 0 /\ head \in {stale[p], NULL}
    \/ fails[p] = 1 /\ head = NULL /\ stale[p] = NULL

OneProducer == \A p, q \in Producers : p = q

LEMMA WaitFreeStep ==
  ASSUME TypeOK, OneProducer, OnlyEmptied, WaitFree, [Next]_vars
  PROVE  OnlyEmptied' /\ WaitFree'
<1> USE DEF TypeOK, OneProducer, OnlyEmptied, WaitFree
<1>1. ASSUME NEW p \in Producers, NEW n \in Nodes, PushLoad(p, n)
      PROVE  OnlyEmptied' /\ WaitFree'
  BY <1>1 DEF PushLoad
<1>2. ASSUME NEW p \in Producers, PushLink(p)
      PROVE  OnlyEmptied' /\ WaitFree'
  BY <1>2 DEF PushLink
<1>3. ASSUME NEW p \in Producers, PushSwap(p)
      PROVE  OnlyEmptied' /\ WaitFree'
  BY <1>3 DEF PushSwap
<1>4. ASSUME NEW p \in Producers, PushRetry(p)
      PROVE  OnlyEmptied' /\ WaitFree'
  BY <1>4 DEF PushRetry, Swaps, Reloaded
<1>5. CASE Exchange
  BY <1>5 DEF Exchange, prodVars, Detached
<1>6. CASE Reverse \/ PopReturn \/ Walk \/ WalkEnd \/ UNCHANGED vars
  BY <1>6 DEF Reverse, PopReturn, Walk, WalkEnd, vars, prodVars
<1> QED
  BY <1>1, <1>2, <1>3, <1>4, <1>5, <1>6 DEF Next, Push, PopAll

\* A Database has one producer, its io thread: its push retries at most once.
THEOREM PushIsWaitFree == Spec => []WaitFree
<1>1. CASE OneProducer
  <2>1. Init => OnlyEmptied /\ WaitFree
    BY DEF Init, OnlyEmptied, WaitFree
  <2>2. TypeOK /\ OnlyEmptied /\ WaitFree /\ [Next]_vars
          => OnlyEmptied' /\ WaitFree'
    BY <1>1, WaitFreeStep
  <2> QED
    BY TypeCorrect, <2>1, <2>2, PTL DEF Spec
<1>2. CASE ~OneProducer
  <2>1. WaitFree
    BY <1>2 DEF OneProducer, WaitFree
  <2> QED
    BY <2>1, PTL
<1> QED
  BY <1>1, <1>2
=============================================================================

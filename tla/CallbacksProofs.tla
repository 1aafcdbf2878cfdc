--------------------------- MODULE CallbacksProofs ---------------------------
(***************************************************************************)
(* The references and the stack slots of callbacks, for any number of      *)
(* actions and whatever the callbacks queue.                               *)
(*                                                                         *)
(* The sets of the properties are taken apart: who uses a reference (Used) *)
(* is said for the database, the queue and the batch, each reference has   *)
(* one user (Once), and a slot of the registry is used, free, leaked or an *)
(* orphan, never two of these (Exclusive).                                 *)
(***************************************************************************)
EXTENDS Callbacks, TLAPS

\* Poll has a batch only in its loop, and a callback is called from it.
Polling ==
  /\ pc \in {"script", "connect"} => batch = << >>
  /\ pc = "call" => batch # << >>

\* Nothing but the callback that runs has more than one slot per callback.
Stack ==
  /\ pc \in {"connect", "loop"} => top = 1 + calls
  /\ pc = "call" => top = calls + PerCall

\* No two of the waiting actions' fields, nor one of them and the database,
\* hold the same reference.
Once ==
  /\ \A i, j \in 1 .. Len(queue), f, g \in Fields :
       Reference(queue[i], f) > 0 /\ Reference(queue[i], f) = Reference(queue[j], g)
       => i = j /\ f = g
  /\ \A i, j \in FirstWaiting .. Len(batch), f, g \in Fields :
       Reference(batch[i], f) > 0 /\ Reference(batch[i], f) = Reference(batch[j], g)
       => i = j /\ f = g
  /\ \A i \in 1 .. Len(queue), j \in FirstWaiting .. Len(batch), f, g \in Fields :
       Reference(queue[i], f) > 0 => Reference(queue[i], f) # Reference(batch[j], g)
  /\ \A i \in 1 .. Len(queue), f \in Fields :
       iCallback > 0 => Reference(queue[i], f) # iCallback
  /\ \A i \in FirstWaiting .. Len(batch), f \in Fields :
       iCallback > 0 => Reference(batch[i], f) # iCallback

Used(r) ==
  \/ r = iCallback
  \/ \E i \in 1 .. Len(queue), f \in Fields : r = Reference(queue[i], f)
  \/ \E i \in FirstWaiting .. Len(batch), f \in Fields : r = Reference(batch[i], f)

\* A slot is on the list, on which nothing is twice.
In(list, r) == \E i \in 1 .. Len(list) : list[i] = r
Distinct(list) == \A i, j \in 1 .. Len(list) : list[i] = list[j] => i = j
Free(r) == In(freeList, r)
FreeOnce == Distinct(freeList)

Exclusive ==
  \A r \in 1 .. size :
    /\ Used(r) => ~Free(r) /\ r \notin leaked \cup orphans
    /\ Free(r) => r \notin leaked \cup orphans

Accounted ==
  /\ \A r \in 1 .. size : Used(r) \/ Free(r) \/ r \in leaked \cup orphans
  /\ orphans # {} => iCallback = 0
  /\ iCallback <= size

IInv == TypeOK /\ Polling /\ Stack /\ Once /\ FreeOnce /\ Exclusive /\ Accounted

-----------------------------------------------------------------------------
(* Types.                                                                  *)

\* The actions that may wait while the registry has n slots.
Actions(n) == [cb : 1 .. n \cup {NoRef}, ref : 1 .. n \cup {NoRef}]

\* A registry that grows keeps the actions and the list.
LEMMA Grows ==
  ASSUME NEW m \in Nat, NEW n \in Nat, m <= n
  PROVE  /\ \A s \in Seq(Actions(m)) : s \in Seq(Actions(n))
         /\ \A s \in Seq(1 .. m) : s \in Seq(1 .. n)
         /\ \A S \in SUBSET (1 .. m) : S \in SUBSET (1 .. n)
<1>1. Actions(m) \subseteq Actions(n) /\ 1 .. m \subseteq 1 .. n
  BY DEF Actions
<1>2. ASSUME NEW s \in Seq(Actions(m)) PROVE s \in Seq(Actions(n))
  <2>1. s \in [1 .. Len(s) -> Actions(n)] /\ Len(s) \in Nat
    BY <1>1
  <2> QED
    BY <2>1
<1>3. ASSUME NEW s \in Seq(1 .. m) PROVE s \in Seq(1 .. n)
  <2>1. s \in [1 .. Len(s) -> 1 .. n] /\ Len(s) \in Nat
    BY <1>1
  <2> QED
    BY <2>1
<1> QED
  BY <1>1, <1>2, <1>3

\* What TypeOK says, in parts.
LEMMA TypeParts ==
  ASSUME TypeOK
  PROVE  /\ size \in Nat
         /\ freeList \in Seq(1 .. size) /\ orphans \subseteq 1 .. size
         /\ leaked \subseteq 1 .. size
         /\ iCallback \in {NoRef, 0, 1}
         /\ queue \in Seq(Actions(size)) /\ batch \in Seq(Actions(size))
         /\ queries \in 0 .. MaxQueries /\ calls \in Nat
         /\ pending \in BOOLEAN /\ connects \in BOOLEAN
         /\ pc \in {"script", "connect", "loop", "call"}
         /\ top \in Nat
  BY DEF TypeOK, Actions

\* The references that ReferenceCreate gives: the first ones of the list, then
\* new slots; they are as many as asked for, distinct, and no longer free.
LEMMA FreshRefs ==
  ASSUME TypeOK, FreeOnce, NEW n \in 0 .. 2, Created(n)
  PROVE  /\ size' \in Nat /\ size <= size'
         /\ freeList' \in Seq(1 .. size')
         /\ orphans' = orphans
         /\ \A i \in 1 .. n : Fresh(n)[i] \in 1 .. size'
         /\ \A i, j \in 1 .. n : Fresh(n)[i] = Fresh(n)[j] => i = j
         /\ \A i \in 1 .. n : Free(Fresh(n)[i]) \/ Fresh(n)[i] > size
         /\ \A r \in 1 .. size' : Free(r)' => \A i \in 1 .. n : r # Fresh(n)[i]
         /\ \A r \in 1 .. size' : Free(r)' => r \in 1 .. size /\ Free(r)
         /\ \A r \in 1 .. size' :
              \/ Free(r)'
              \/ r \in 1 .. size /\ ~Free(r)
              \/ \E i \in 1 .. n : r = Fresh(n)[i]
         /\ FreeOnce'
<1> DEFINE L == Len(freeList)
<1>1. size \in Nat /\ freeList \in Seq(1 .. size) /\ L \in Nat
  BY TypeParts
<1>2. /\ size' = IF n <= L THEN size ELSE size + n - L
      /\ freeList' = SubSeq(freeList, n + 1, L) /\ orphans' = orphans
  BY DEF Created
<1>3. size' \in Nat /\ size <= size'
  BY <1>1, <1>2
<1>4. /\ Len(freeList') = IF n <= L THEN L - n ELSE 0
      /\ \A i \in 1 .. Len(freeList') : freeList'[i] = freeList[i + n]
  BY <1>1, <1>2
<1>5. freeList' \in Seq(1 .. size')
  <2>1. freeList' \in Seq(1 .. size)
    BY <1>1, <1>2
  <2> QED
    BY <1>1, <1>3, <2>1, Grows
<1>6. \A i \in 1 .. n : Fresh(n)[i] = IF i <= L THEN freeList[i] ELSE size + i - L
  BY DEF Fresh
<1>7. \A i \in 1 .. L : freeList[i] \in 1 .. size
  BY <1>1
<1>8. \A i \in 1 .. n : Fresh(n)[i] \in 1 .. size'
  <2> TAKE i \in 1 .. n
  <2>1. CASE i <= L
    BY <1>1, <1>3, <1>6, <1>7, <2>1
  <2>2. CASE i > L
    BY <1>1, <1>2, <1>6, <2>2
  <2> QED
    BY <1>1, <2>1, <2>2
<1>9. \A i, j \in 1 .. n : Fresh(n)[i] = Fresh(n)[j] => i = j
  BY <1>1, <1>6, <1>7 DEF FreeOnce, Distinct
<1>10. \A i \in 1 .. n : Free(Fresh(n)[i]) \/ Fresh(n)[i] > size
  BY <1>1, <1>6 DEF Free, In
<1>11. ASSUME NEW r \in 1 .. size', Free(r)', NEW i \in 1 .. n PROVE r # Fresh(n)[i]
  <2>1. PICK k \in 1 .. Len(freeList') : freeList'[k] = r
    BY <1>11 DEF Free, In
  <2>2. k + n \in 1 .. L /\ freeList[k + n] = r
    BY <1>1, <1>4, <2>1
  <2>3. CASE i <= L
    BY <1>1, <1>6, <2>2, <2>3 DEF FreeOnce, Distinct
  <2>4. CASE i > L
    BY <1>1, <1>6, <1>7, <2>2, <2>4
  <2> QED
    BY <1>1, <2>3, <2>4
<1>12. ASSUME NEW r \in 1 .. size', Free(r)' PROVE r \in 1 .. size /\ Free(r)
  <2>1. PICK k \in 1 .. Len(freeList') : freeList'[k] = r
    BY <1>12 DEF Free, In
  <2>2. k + n \in 1 .. L /\ freeList[k + n] = r
    BY <1>1, <1>4, <2>1
  <2> QED
    BY <1>7, <2>2 DEF Free, In
<1>13. FreeOnce'
  BY <1>1, <1>4 DEF FreeOnce, Distinct
<1>14. ASSUME NEW r \in 1 .. size', ~Free(r)'
       PROVE  (r \in 1 .. size /\ ~Free(r)) \/ \E i \in 1 .. n : r = Fresh(n)[i]
  <2>1. CASE r > size
    <3>1. r - size + L \in 1 .. n /\ ~(r - size + L <= L)
      BY <1>1, <1>2, <1>14, <2>1
    <3> QED
      BY <1>1, <1>6, <2>1, <3>1
  <2>2. CASE r <= size /\ Free(r)
    <3>1. PICK k \in 1 .. L : freeList[k] = r
      BY <2>2 DEF Free, In
    <3>2. ASSUME k > n PROVE FALSE
      <4>1. k - n \in 1 .. Len(freeList') /\ freeList'[k - n] = freeList[k - n + n]
        BY <1>1, <1>4, <3>1, <3>2
      <4> QED
        BY <1>1, <1>14, <3>1, <4>1 DEF Free, In
    <3>3. k <= n
      BY <1>1, <3>2
    <3> QED
      BY <1>1, <1>6, <3>1, <3>3
  <2> QED
    BY <1>1, <1>14, <2>1, <2>2
<1> QED
  BY <1>2, <1>3, <1>5, <1>8, <1>9, <1>10, <1>11, <1>12, <1>13, <1>14

\* ReferenceFree of a slot puts it at the head of the list.
LEMMA AfterFreeIs ==
  ASSUME NEW n \in Nat, NEW list \in Seq(1 .. n), NEW r \in 1 .. n
  PROVE  /\ AfterFree(list, r) \in Seq(1 .. n)
         /\ Len(AfterFree(list, r)) = Len(list) + 1
         /\ AfterFree(list, r)[1] = r
         /\ \A i \in 1 .. Len(list) : AfterFree(list, r)[i + 1] = list[i]
         /\ \A i \in 2 .. Len(list) + 1 : AfterFree(list, r)[i] = list[i - 1]
<1>1. AfterFree(list, r) = <<r>> \o list
  BY DEF AfterFree
<1> QED
  BY <1>1

\* Freeing a slot that is not on the list keeps it free of repetitions, and
\* adds that slot only.
LEMMA FreeOne ==
  ASSUME NEW n \in Nat, NEW list \in Seq(1 .. n), NEW r \in 1 .. n,
         Distinct(list), ~In(list, r)
  PROVE  /\ AfterFree(list, r) \in Seq(1 .. n)
         /\ Distinct(AfterFree(list, r))
         /\ \A x : In(AfterFree(list, r), x) <=> In(list, x) \/ x = r
<1> DEFINE new == AfterFree(list, r)
           L == Len(list)
<1>1. /\ new \in Seq(1 .. n) /\ Len(new) = L + 1 /\ L \in Nat
      /\ new[1] = r
      /\ \A i \in 1 .. L : new[i + 1] = list[i]
      /\ \A i \in 2 .. L + 1 : new[i] = list[i - 1]
  <2>1. Len(list) \in Nat
    OBVIOUS
  <2>2. /\ AfterFree(list, r) \in Seq(1 .. n)
        /\ Len(AfterFree(list, r)) = Len(list) + 1
        /\ AfterFree(list, r)[1] = r
        /\ \A i \in 1 .. Len(list) : AfterFree(list, r)[i + 1] = list[i]
        /\ \A i \in 2 .. Len(list) + 1 : AfterFree(list, r)[i] = list[i - 1]
    BY AfterFreeIs
  <2> QED
    BY <2>1, <2>2, Zenon
<1> HIDE DEF new
<1>2. ASSUME NEW i \in 1 .. Len(new), NEW j \in 1 .. Len(new), new[i] = new[j]
      PROVE  i = j
  <2>1. \A k \in 2 .. L + 1 : new[k] # r
    <3> TAKE k \in 2 .. L + 1
    <3>1. k - 1 \in 1 .. L /\ new[k] = list[k - 1]
      BY <1>1
    <3> QED
      BY <3>1 DEF In
  <2>2. CASE i = 1 \/ j = 1
    BY <1>1, <1>2, <2>1, <2>2
  <2>3. CASE i # 1 /\ j # 1
    <3>1. i - 1 \in 1 .. L /\ j - 1 \in 1 .. L
      BY <1>1, <1>2, <2>3
    <3>2. list[i - 1] = list[j - 1]
      BY <1>1, <1>2, <2>3
    <3>3. i - 1 = j - 1
      BY <3>1, <3>2 DEF Distinct
    <3> QED
      BY <1>1, <1>2, <3>3
  <2> QED
    BY <2>2, <2>3
<1>3. ASSUME NEW x PROVE In(new, x) <=> In(list, x) \/ x = r
  <2>1. ASSUME In(new, x), x # r PROVE In(list, x)
    <3>1. PICK i \in 1 .. Len(new) : new[i] = x
      BY <2>1 DEF In
    <3>2. i - 1 \in 1 .. L /\ list[i - 1] = x
      BY <1>1, <2>1, <3>1
    <3> QED
      BY <3>2 DEF In
  <2>2. ASSUME In(list, x) PROVE In(new, x)
    <3>1. PICK i \in 1 .. L : list[i] = x
      BY <2>2 DEF In
    <3>2. i + 1 \in 1 .. Len(new)
      BY <1>1
    <3>3. new[i + 1] = x
      BY <1>1, <3>1
    <3> QED
      BY <3>2, <3>3 DEF In
  <2>3. In(new, r)
    <3>1. 1 \in 1 .. Len(new) /\ new[1] = r
      BY <1>1
    <3> QED
      BY <3>1 DEF In
  <2> QED
    BY <2>1, <2>2, <2>3
<1> QED
  BY <1>1, <1>2, <1>3 DEF Distinct, new

-----------------------------------------------------------------------------
(* The slots change hands.                                                 *)

\* What is no longer used is free, leaked or an orphan, and what is free or
\* lost was used or free before: then the slots stay accounted for.
LEMMA Reassigned ==
  ASSUME Exclusive, Accounted, size' = size,
         \A r \in 1 .. size :
           /\ Used(r)' => Used(r)
           /\ Used(r) => Used(r)' \/ Free(r)' \/ r \in leaked' \cup orphans'
           /\ Free(r) => Free(r)' \/ r \in orphans'
           /\ Free(r)' => Free(r) \/ (Used(r) /\ ~Used(r)')
           /\ r \in leaked \cup orphans => r \in leaked' \cup orphans'
           /\ r \in leaked' \cup orphans' =>
                \/ r \in leaked \cup orphans
                \/ Used(r) /\ ~Used(r)' /\ ~Free(r)'
                \/ Free(r) /\ ~Free(r)'
  PROVE  /\ Exclusive'
         /\ \A r \in 1 .. size' : Used(r)' \/ Free(r)' \/ r \in leaked' \cup orphans'
  BY DEF Exclusive, Accounted

\* A reference in use is a slot of the registry.
LEMMA UsedIsSlot ==
  ASSUME TypeOK, iCallback <= size, NEW r \in Int, r > 0, Used(r) PROVE r \in 1 .. size
<1>1. /\ size \in Nat /\ iCallback \in {NoRef, 0, 1}
      /\ queue \in Seq(Actions(size)) /\ batch \in Seq(Actions(size))
  BY TypeParts
<1>2. \A a \in Actions(size), f \in Fields : Reference(a, f) \in 1 .. size \cup {NoRef}
  BY DEF Actions, Fields, Reference
<1>3. \A i \in 1 .. Len(queue) : queue[i] \in Actions(size)
  BY <1>1
<1>4. \A i \in FirstWaiting .. Len(batch) : batch[i] \in Actions(size)
  BY <1>1 DEF FirstWaiting
<1> QED
  BY <1>1, <1>2, <1>3, <1>4 DEF Used, NoRef

\* lua_Query and lua_Run: the action gets slots that nobody used.
LEMMA QueryKeeps ==
  ASSUME CallbacksAssumption, IInv, NEW cb \in BOOLEAN, NEW obj \in BOOLEAN,
         lua_Query(cb, obj)
  PROVE  IInv'
<1> DEFINE n == (IF cb THEN 1 ELSE 0) + (IF obj THEN 1 ELSE 0)
           new == Fresh(n)
           a == Action(IF cb THEN new[1] ELSE NoRef, IF obj THEN new[n] ELSE NoRef)
           L == Len(queue)
<1>1. n \in 0 .. 2
  OBVIOUS
<1>2. /\ Created(n) /\ queue' = Append(queue, a) /\ queries < MaxQueries
      /\ queries' = queries + 1
      /\ UNCHANGED <<iCallback, pending, batch, pc, top, connects, calls, leaked>>
  BY DEF lua_Query
<1>3. TypeOK /\ FreeOnce /\ Once /\ Exclusive /\ Accounted
  BY DEF IInv
<1> HIDE DEF n, new, a
<1>4. /\ size' \in Nat /\ size <= size'
      /\ freeList' \in Seq(1 .. size')
      /\ orphans' = orphans
      /\ \A i \in 1 .. n : new[i] \in 1 .. size'
      /\ \A i, j \in 1 .. n : new[i] = new[j] => i = j
      /\ \A i \in 1 .. n : Free(new[i]) \/ new[i] > size
      /\ \A r \in 1 .. size' : Free(r)' => \A i \in 1 .. n : r # new[i]
      /\ \A r \in 1 .. size' : Free(r)' => r \in 1 .. size /\ Free(r)
      /\ \A r \in 1 .. size' :
           \/ Free(r)'
           \/ r \in 1 .. size /\ ~Free(r)
           \/ \E i \in 1 .. n : r = new[i]
      /\ FreeOnce'
  BY <1>1, <1>2, <1>3, FreshRefs DEF new
<1>5. /\ size \in Nat /\ queue \in Seq(Actions(size)) /\ batch \in Seq(Actions(size))
      /\ L \in Nat /\ iCallback \in {NoRef, 0, 1} /\ leaked \subseteq 1 .. size
      /\ orphans \subseteq 1 .. size
  BY <1>3, TypeParts
<1>6. /\ \A f \in Fields : Reference(a, f) = NoRef \/ \E i \in 1 .. n : Reference(a, f) = new[i]
      /\ \A f, g \in Fields : Reference(a, f) > 0 /\ Reference(a, f) = Reference(a, g) => f = g
      /\ \A i \in 1 .. n : \E f \in Fields : Reference(a, f) = new[i]
  <2>1. CASE cb /\ obj
    <3>1. n = 2 /\ a.cb = new[1] /\ a.ref = new[2]
      BY <2>1 DEF n, a, Action
    <3>2. new[1] # new[2]
      BY <1>4, <3>1
    <3> QED
      BY <3>1, <3>2 DEF Fields, Reference
  <2>2. CASE cb /\ ~obj
    <3>1. n = 1 /\ a.cb = new[1] /\ a.ref = NoRef
      BY <2>2 DEF n, a, Action
    <3> QED
      BY <1>4, <3>1 DEF Fields, Reference, NoRef
  <2>3. CASE ~cb /\ obj
    <3>1. n = 1 /\ a.cb = NoRef /\ a.ref = new[1]
      BY <2>3 DEF n, a, Action
    <3> QED
      BY <1>4, <3>1 DEF Fields, Reference, NoRef
  <2>4. CASE ~cb /\ ~obj
    <3>1. n = 0 /\ a.cb = NoRef /\ a.ref = NoRef
      BY <2>4 DEF n, a, Action
    <3> QED
      BY <3>1 DEF Fields, Reference, NoRef
  <2> QED
    BY <2>1, <2>2, <2>3, <2>4
<1>7. a \in Actions(size')
  <2>1. a.cb \in 1 .. size' \cup {NoRef} /\ a.ref \in 1 .. size' \cup {NoRef}
    BY <1>4, <1>6 DEF Fields, Reference
  <2> QED
    BY <2>1 DEF a, Action, Actions
<1>8. /\ Len(queue') = L + 1 /\ queue'[L + 1] = a
      /\ \A i \in 1 .. L : queue'[i] = queue[i]
  BY <1>2, <1>5
<1>9. FirstWaiting' = FirstWaiting
  BY <1>2 DEF FirstWaiting
<1>10. TypeOK'
  <2>1. /\ queue \in Seq(Actions(size')) /\ batch' \in Seq(Actions(size'))
        /\ leaked' \subseteq 1 .. size' /\ orphans' \subseteq 1 .. size'
    BY <1>2, <1>4, <1>5, Grows
  <2>2. queue' \in Seq(Actions(size'))
    BY <1>2, <1>7, <2>1
  <2>3. queries' \in 0 .. MaxQueries
    BY <1>2, <1>3 DEF TypeOK, CallbacksAssumption
  <2> QED
    BY <1>2, <1>3, <1>4, <2>1, <2>2, <2>3 DEF TypeOK, Actions
<1>11. \A f \in Fields : Reference(a, f) > 0 => ~Used(Reference(a, f))
  <2> SUFFICES ASSUME NEW f \in Fields, Reference(a, f) > 0, Used(Reference(a, f))
               PROVE  FALSE
    OBVIOUS
  <2>1. PICK i \in 1 .. n : Reference(a, f) = new[i]
    BY <1>6 DEF NoRef
  <2>2. new[i] \in 1 .. size
    BY <1>3, <1>4, <2>1, UsedIsSlot DEF Accounted
  <2>3. Free(new[i])
    BY <1>4, <1>5, <2>2
  <2> QED
    BY <1>3, <2>1, <2>2, <2>3 DEF Exclusive
<1>12. \A r : Used(r)' <=> Used(r) \/ \E f \in Fields : r = Reference(a, f)
  <2> TAKE r
  <2>1. (\E i \in 1 .. L + 1, f \in Fields : r = Reference(queue'[i], f)) <=>
          \/ \E i \in 1 .. L, f \in Fields : r = Reference(queue[i], f)
          \/ \E f \in Fields : r = Reference(a, f)
    BY <1>5, <1>8 DEF Reference
  <2> QED
    BY <1>2, <1>8, <1>9, <2>1 DEF Used, Reference
<1>13. Once'
  <2>1. ASSUME NEW i \in 1 .. L + 1, NEW j \in 1 .. L + 1, NEW f \in Fields, NEW g \in Fields,
               Reference(queue'[i], f) > 0, Reference(queue'[i], f) = Reference(queue'[j], g)
        PROVE  i = j /\ f = g
    <3>1. CASE i \in 1 .. L /\ j \in 1 .. L
      BY <1>3, <1>8, <2>1, <3>1 DEF Once
    <3>2. CASE i = L + 1 /\ j \in 1 .. L
      <4>1. Used(Reference(a, f))
        BY <1>8, <2>1, <3>2 DEF Used
      <4> QED
        BY <1>8, <1>11, <2>1, <3>2, <4>1
    <3>3. CASE i \in 1 .. L /\ j = L + 1
      <4>1. Used(Reference(a, g))
        BY <1>8, <2>1, <3>3 DEF Used
      <4> QED
        BY <1>8, <1>11, <2>1, <3>3, <4>1
    <3>4. CASE i = L + 1 /\ j = L + 1
      BY <1>6, <1>8, <2>1, <3>4
    <3> QED
      BY <1>5, <3>1, <3>2, <3>3, <3>4
  <2>2. ASSUME NEW i \in 1 .. L + 1, NEW j \in FirstWaiting .. Len(batch),
               NEW f \in Fields, NEW g \in Fields,
               Reference(queue'[i], f) > 0, Reference(queue'[i], f) = Reference(batch[j], g)
        PROVE  FALSE
    <3>1. CASE i \in 1 .. L
      BY <1>3, <1>8, <2>2, <3>1 DEF Once
    <3>2. CASE i = L + 1
      <4>1. Used(Reference(a, f))
        BY <1>8, <2>2, <3>2 DEF Used
      <4> QED
        BY <1>8, <1>11, <2>2, <3>2, <4>1
    <3> QED
      BY <1>5, <3>1, <3>2
  <2>3. ASSUME NEW i \in 1 .. L + 1, NEW f \in Fields, iCallback > 0,
               Reference(queue'[i], f) = iCallback
        PROVE  FALSE
    <3>1. CASE i \in 1 .. L
      BY <1>3, <1>8, <2>3, <3>1 DEF Once
    <3>2. CASE i = L + 1
      <4>1. Used(Reference(a, f))
        BY <1>8, <2>3, <3>2 DEF Used
      <4> QED
        BY <1>8, <1>11, <2>3, <3>2, <4>1
    <3> QED
      BY <1>5, <3>1, <3>2
  <2> QED
    BY <1>2, <1>3, <1>8, <1>9, <2>1, <2>2, <2>3 DEF Once
<1>14. Exclusive'
  <2> SUFFICES ASSUME NEW r \in 1 .. size'
               PROVE  /\ Used(r)' => ~Free(r)' /\ r \notin leaked \cup orphans
                      /\ Free(r)' => r \notin leaked \cup orphans
    BY <1>2, <1>4 DEF Exclusive
  <2>1. CASE Used(r)
    <3>1. r \in 1 .. size
      BY <1>3, <1>4, <2>1, UsedIsSlot DEF Accounted
    <3> QED
      BY <1>3, <1>4, <2>1, <3>1 DEF Exclusive
  <2>2. ASSUME NEW f \in Fields, r = Reference(a, f)
        PROVE  ~Free(r)' /\ r \notin leaked \cup orphans
    <3>1. PICK i \in 1 .. n : r = new[i]
      BY <1>4, <1>6, <2>2 DEF NoRef
    <3>2. Free(r) \/ r > size
      BY <1>4, <3>1
    <3> QED
      BY <1>3, <1>4, <1>5, <3>1, <3>2 DEF Exclusive
  <2>3. Free(r)' => r \notin leaked \cup orphans
    BY <1>3, <1>4 DEF Exclusive
  <2> QED
    BY <1>12, <2>1, <2>2, <2>3
<1>15. Accounted'
  <2>1. ASSUME NEW r \in 1 .. size'
        PROVE  Used(r)' \/ Free(r)' \/ r \in leaked' \cup orphans'
    <3>1. CASE r \in 1 .. size /\ ~Free(r)
      BY <1>2, <1>3, <1>4, <1>12, <3>1 DEF Accounted
    <3>2. ASSUME NEW i \in 1 .. n, r = new[i] PROVE Used(r)'
      BY <1>6, <1>12, <3>2
    <3> QED
      BY <1>4, <2>1, <3>1, <3>2
  <2>2. iCallback' <= size' /\ (orphans' # {} => iCallback' = 0)
    BY <1>2, <1>3, <1>4, <1>5 DEF Accounted, NoRef
  <2> QED
    BY <2>1, <2>2 DEF Accounted
<1>16. Polling' /\ Stack'
  BY <1>2 DEF IInv, Polling, Stack
<1> QED
  BY <1>4, <1>10, <1>13, <1>14, <1>15, <1>16 DEF IInv

\* Poll takes the queue as its batch: every action that waited still waits.
LEMMA TakenKeeps ==
  ASSUME IInv, pc \in {"script", "connect"}, pc' \in {"connect", "loop"},
         batch' = queue, queue' = << >>, iCallback' = iCallback \/ iCallback' = 0
  PROVE  /\ Once'
         /\ \A r : r # 0 /\ Used(r)' => Used(r)
         /\ \A r : Used(r) => Used(r)' \/ r = iCallback
<1>1. batch = << >> /\ FirstWaiting = 1 /\ FirstWaiting' = 1
  BY DEF IInv, Polling, FirstWaiting
<1>2. Len(queue') = 0 /\ Len(batch) = 0
  BY <1>1
<1>3. Once
  BY DEF IInv
<1>4. Once'
  BY <1>1, <1>2, <1>3 DEF Once
<1> QED
  BY <1>1, <1>2, <1>4 DEF Used

\* The batch loses its head, which does not wait any more or which the loop
\* has just triggered; the others wait as before.
LEMMA TailKeeps ==
  ASSUME IInv, pc \in {"loop", "call"}, pc' = "loop", batch # << >>,
         batch' = Tail(batch), queue' = queue, iCallback' = iCallback
  PROVE  /\ Once'
         /\ \A r : Used(r)' => Used(r)
         /\ \A r : Used(r) =>
              \/ Used(r)'
              \/ pc = "loop" /\ (r = Head(batch).cb \/ r = Head(batch).ref)
<1>1. batch \in Seq(Actions(size)) /\ Len(batch) \in Nat \ {0}
  BY TypeParts DEF IInv
<1>2. Len(batch') = Len(batch) - 1 /\ \A i \in 1 .. Len(batch') : batch'[i] = batch[i + 1]
  BY <1>1
<1>3. FirstWaiting' = 1 /\ FirstWaiting \in {1, 2} /\ (pc = "call" => FirstWaiting = 2)
  BY DEF FirstWaiting
<1>4. Once
  BY DEF IInv
<1>5. \A i \in 1 .. Len(batch') : i + 1 \in FirstWaiting .. Len(batch)
  BY <1>1, <1>2, <1>3
<1>6. Once'
  <2>1. ASSUME NEW i \in 1 .. Len(batch'), NEW j \in 1 .. Len(batch'),
               NEW f \in Fields, NEW g \in Fields,
               Reference(batch'[i], f) > 0, Reference(batch'[i], f) = Reference(batch'[j], g)
        PROVE  i = j /\ f = g
    <3>1. i + 1 = j + 1 /\ f = g
      BY <1>2, <1>4, <1>5, <2>1 DEF Once
    <3> QED
      BY <1>1, <1>2, <3>1
  <2>2. ASSUME NEW i \in 1 .. Len(queue), NEW j \in 1 .. Len(batch'),
               NEW f \in Fields, NEW g \in Fields, Reference(queue[i], f) > 0
        PROVE  Reference(queue[i], f) # Reference(batch'[j], g)
    BY <1>2, <1>4, <1>5, <2>2 DEF Once
  <2>3. ASSUME NEW i \in 1 .. Len(batch'), NEW f \in Fields, iCallback > 0
        PROVE  Reference(batch'[i], f) # iCallback
    BY <1>2, <1>4, <1>5, <2>3 DEF Once
  <2> QED
    BY <1>3, <1>4, <2>1, <2>2, <2>3 DEF Once
<1>7. ASSUME NEW r, Used(r)' PROVE Used(r)
  <2>1. CASE \E i \in 1 .. Len(batch'), f \in Fields : r = Reference(batch'[i], f)
    BY <1>2, <1>5, <2>1 DEF Used
  <2> QED
    BY <1>3, <1>7, <2>1 DEF Used
<1>8. ASSUME NEW r, Used(r)
      PROVE  Used(r)' \/ (pc = "loop" /\ (r = Head(batch).cb \/ r = Head(batch).ref))
  <2>1. ASSUME NEW i \in FirstWaiting .. Len(batch), NEW f \in Fields,
               r = Reference(batch[i], f)
        PROVE  Used(r)' \/ (pc = "loop" /\ (r = Head(batch).cb \/ r = Head(batch).ref))
    <3>1. CASE i = 1
      <4>1. pc = "loop" /\ batch[1] = Head(batch)
        BY <1>1, <1>3, <2>1, <3>1
      <4> QED
        BY <2>1, <3>1, <4>1 DEF Reference
    <3>2. CASE i # 1
      <4>1. i - 1 \in 1 .. Len(batch') /\ batch'[i - 1] = batch[i - 1 + 1]
        BY <1>1, <1>2, <1>3, <2>1, <3>2
      <4>2. r = Reference(batch'[i - 1], f)
        BY <1>1, <1>3, <2>1, <4>1
      <4> QED
        BY <1>3, <4>1, <4>2 DEF Used
    <3> QED
      BY <3>1, <3>2
  <2> QED
    BY <1>8, <2>1 DEF Used
<1> QED
  BY <1>6, <1>7, <1>8

\* A callback is entered: its action does not wait any more, and its
\* references are no one else's.
LEMMA EnteredKeeps ==
  ASSUME IInv, pc = "loop", pc' = "call", batch # << >>, Head(batch).cb > 0,
         batch' = batch, queue' = queue, iCallback' = iCallback
  PROVE  /\ Once'
         /\ \A r : Used(r)' => Used(r)
         /\ \A r : Used(r) => Used(r)' \/ r = Head(batch).cb \/ r = Head(batch).ref
         /\ \A r \in {Head(batch).cb, Head(batch).ref} : r > 0 => Used(r) /\ ~Used(r)'
         /\ Head(batch).cb # Head(batch).ref
<1>1. batch \in Seq(Actions(size)) /\ Len(batch) \in Nat \ {0}
  BY TypeParts DEF IInv
<1>2. FirstWaiting = 1 /\ FirstWaiting' = 2 /\ Head(batch) = batch[1]
  BY <1>1 DEF FirstWaiting
<1>3. Once
  BY DEF IInv
<1>4. 2 .. Len(batch) \subseteq 1 .. Len(batch) /\ 1 \in 1 .. Len(batch)
  BY <1>1
<1>5. Once'
  BY <1>2, <1>3, <1>4 DEF Once
<1>6. batch[1].cb = Reference(batch[1], "cb") /\ batch[1].ref = Reference(batch[1], "ref")
  BY DEF Reference
<1>7. {"cb", "ref"} = Fields
  BY DEF Fields
<1>8. batch[1].cb # batch[1].ref
  BY <1>2, <1>3, <1>4, <1>6, <1>7 DEF Once
<1>9. \A r : Used(r)' => Used(r)
  BY <1>2, <1>4 DEF Used
<1>10. ASSUME NEW r, Used(r) PROVE Used(r)' \/ r = batch[1].cb \/ r = batch[1].ref
  <2>1. \A i \in 1 .. Len(batch) : i = 1 \/ i \in 2 .. Len(batch)
    BY <1>1
  <2>2. \A f \in Fields : Reference(batch[1], f) \in {batch[1].cb, batch[1].ref}
    BY DEF Reference
  <2> QED
    BY <1>2, <1>10, <2>1, <2>2 DEF Used
<1>11. ASSUME NEW f \in Fields, Reference(batch[1], f) > 0
       PROVE  /\ Used(Reference(batch[1], f))
              /\ \A r : r = Reference(batch[1], f) => ~Used(r)'
  <2>1. Used(Reference(batch[1], f))
    BY <1>2, <1>4 DEF Used
  <2>2. Reference(batch[1], f) # iCallback
    BY <1>2, <1>3, <1>4, <1>11 DEF Once
  <2>3. \A i \in 1 .. Len(queue), g \in Fields : Reference(batch[1], f) # Reference(queue[i], g)
    BY <1>2, <1>3, <1>4, <1>11 DEF Once
  <2>4. \A i \in 2 .. Len(batch), g \in Fields : Reference(batch[1], f) # Reference(batch[i], g)
    BY <1>1, <1>2, <1>3, <1>4, <1>11 DEF Once
  <2> QED
    BY <1>2, <2>1, <2>2, <2>3, <2>4 DEF Used
<1>12. \A r \in {batch[1].cb, batch[1].ref} : r > 0 => Used(r) /\ ~Used(r)'
  BY <1>6, <1>7, <1>11
<1> QED
  BY <1>2, <1>5, <1>8, <1>9, <1>10, <1>12

-----------------------------------------------------------------------------
(* The steps.                                                              *)

\* The free list and the losses stay as they are, and so do the users.
LEMMA SameUse ==
  ASSUME IInv, UNCHANGED <<size, freeList, orphans, leaked, iCallback>>,
         \A r \in 1 .. size : Used(r)' <=> Used(r)
  PROVE  FreeOnce' /\ Exclusive' /\ Accounted'
<1>1. \A r : Free(r)' <=> Free(r)
  BY DEF Free
<1>2. Exclusive /\ Accounted /\ FreeOnce
  BY DEF IInv
<1>3. Exclusive' /\ \A r \in 1 .. size' : Used(r)' \/ Free(r)' \/ r \in leaked' \cup orphans'
  BY <1>1, <1>2, Reassigned
<1> QED
  BY <1>2, <1>3 DEF FreeOnce, Accounted

\* Connect: nothing is called yet.
LEMMA ConnectKeeps == ASSUME IInv, lua_Connect PROVE IInv'
<1>1. UNCHANGED <<size, freeList, orphans, iCallback, queue, batch, pc, top, queries, calls, leaked>>
  BY DEF lua_Connect, refVars
<1>2. FirstWaiting' = FirstWaiting
  BY <1>1 DEF FirstWaiting
<1>3. \A r : Used(r)' <=> Used(r)
  BY <1>1, <1>2 DEF Used
<1>4. Once' /\ Polling' /\ Stack'
  BY <1>1, <1>2 DEF IInv, Once, Polling, Stack
<1>5. TypeOK'
  BY <1>1 DEF IInv, TypeOK, lua_Connect
<1> QED
  BY <1>1, <1>3, <1>4, <1>5, SameUse DEF IInv

\* Poll starts, with the connect callback or with the batch.
LEMMA PollKeeps == ASSUME IInv, lua_Poll PROVE IInv'
<1>1. /\ pc = "script" /\ top' = 1 /\ calls' = 0 /\ pc' \in {"connect", "loop"}
      /\ UNCHANGED <<size, freeList, orphans, iCallback, pending, connects, queries, leaked>>
  BY DEF lua_Poll, refVars
<1>2. TypeOK /\ Once /\ batch = << >>
  BY <1>1 DEF IInv, Polling
<1>3. iCallback \in Int
  BY <1>2, TypeParts DEF NoRef
<1>4. CASE pending
  <2>1. pc' = "connect" /\ batch' = << >> /\ queue' = queue
    BY <1>4 DEF lua_Poll
  <2>2. FirstWaiting' = FirstWaiting
    BY <1>1, <2>1 DEF FirstWaiting
  <2>3. Once' /\ \A r : Used(r)' <=> Used(r)
    BY <1>1, <1>2, <2>1, <2>2 DEF Once, Used
  <2>4. TypeOK'
    BY <1>1, <1>2, <2>1 DEF TypeOK
  <2>5. Polling' /\ Stack'
    BY <1>1, <2>1 DEF Polling, Stack
  <2> QED
    BY <1>1, <2>3, <2>4, <2>5, SameUse DEF IInv
<1>5. CASE ~pending
  <2>1. pc' = "loop" /\ batch' = queue /\ queue' = << >>
    BY <1>5 DEF lua_Poll
  <2>2. /\ Once' /\ \A r : r # 0 /\ Used(r)' => Used(r)
        /\ \A r : Used(r) => Used(r)' \/ r = iCallback
    BY <1>1, <2>1, TakenKeeps
  <2>3. \A r \in 1 .. size : Used(r)' <=> Used(r)
    <3> TAKE r \in 1 .. size
    <3>1. r # 0
      BY <1>2, TypeParts
    <3>2. r = iCallback => Used(r)'
      BY <1>1 DEF Used
    <3> QED
      BY <2>2, <3>1, <3>2
  <2>4. TypeOK'
    BY <1>1, <1>2, <2>1 DEF TypeOK
  <2>5. Polling' /\ Stack'
    BY <1>1, <2>1 DEF Polling, Stack
  <2> QED
    BY <1>1, <2>2, <2>3, <2>4, <2>5, SameUse DEF IInv
<1> QED
  BY <1>2, <1>4, <1>5, TypeParts

\* Poll returns.
LEMMA ReturnKeeps == ASSUME IInv, PollReturns PROVE IInv'
<1>1. /\ pc = "loop" /\ pc' = "script" /\ batch = << >> /\ top' = 0
      /\ UNCHANGED <<size, freeList, orphans, iCallback, pending, queue, batch, connects,
                     queries, calls, leaked>>
  BY DEF PollReturns, refVars
<1>2. FirstWaiting' = FirstWaiting
  BY <1>1 DEF FirstWaiting
<1>3. Once' /\ \A r : Used(r)' <=> Used(r)
  BY <1>1, <1>2 DEF IInv, Once, Used
<1>4. TypeOK'
  BY <1>1 DEF IInv, TypeOK
<1>5. Polling' /\ Stack'
  BY <1>1 DEF Polling, Stack
<1> QED
  BY <1>1, <1>3, <1>4, <1>5, SameUse DEF IInv

\* A callback returns, or fails: its frame's slots go, all but one.
LEMMA PCallKeeps ==
  ASSUME CallbacksAssumption, IInv, NEW failed \in BOOLEAN, PCallReturns(failed) PROVE IInv'
<1>1. /\ pc = "call" /\ pc' = "loop" /\ batch' = Tail(batch) /\ top' = top - PerCall + 1
      /\ UNCHANGED <<size, freeList, orphans, iCallback, pending, queue, connects, queries,
                     calls, leaked>>
  BY DEF PCallReturns, LeaveTraceback, refVars
<1>2. TypeOK /\ batch # << >> /\ top = calls + PerCall
  BY <1>1 DEF IInv, Polling, Stack
<1>3. Once' /\ \A r : Used(r)' <=> Used(r)
  BY <1>1, <1>2, TailKeeps
<1>4. calls \in Nat /\ PerCall \in Nat
  BY <1>2, TypeParts DEF CallbacksAssumption
<1>5. top' = 1 + calls
  BY <1>1, <1>2, <1>4
<1>6. batch' \in Seq([cb : 1 .. size \cup {NoRef}, ref : 1 .. size \cup {NoRef}])
  BY <1>1, <1>2 DEF TypeOK
<1>7. TypeOK'
  BY <1>1, <1>2, <1>4, <1>5, <1>6 DEF TypeOK
<1>8. Polling' /\ Stack'
  BY <1>1, <1>5 DEF Polling, Stack
<1> QED
  BY <1>1, <1>3, <1>7, <1>8, SameUse DEF IInv

\* There is no connect callback: nothing is freed, or the free list is lost.
LEMMA ConnectNothingKeeps == ASSUME IInv, ConnectNothing PROVE IInv'
<1>1. /\ pc = "connect" /\ pc' = "loop" /\ iCallback <= 0 /\ pending' = FALSE
      /\ batch' = queue /\ queue' = << >>
      /\ UNCHANGED <<iCallback, top, connects, queries, calls, leaked>>
  BY DEF ConnectNothing
<1>2. TypeOK /\ Exclusive /\ Accounted /\ FreeOnce
  BY DEF IInv
<1>3. /\ Once' /\ \A r : r # 0 /\ Used(r)' => Used(r)
      /\ \A r : Used(r) => Used(r)' \/ r = iCallback
  BY <1>1, TakenKeeps
<1>4. size \in Nat /\ iCallback \in Int /\ freeList \in Seq(1 .. size) /\ orphans \subseteq 1 .. size
  BY <1>2, TypeParts DEF NoRef
<1>5. \A r \in 1 .. size : Used(r)' <=> Used(r)
  <2> TAKE r \in 1 .. size
  <2>1. r # 0 /\ r # iCallback
    BY <1>1, <1>4
  <2> QED
    BY <1>3, <2>1
<1>6. Polling' /\ Stack'
  BY <1>1 DEF IInv, Polling, Stack
<1>7. {pending', connects'} \subseteq BOOLEAN
  BY <1>1, <1>2 DEF TypeOK
<1>8. /\ << >> \in Seq(1 .. size)
       /\ << >> \in Seq([cb : 1 .. size \cup {NoRef}, ref : 1 .. size \cup {NoRef}])
  OBVIOUS
<1>9. CASE iCallback # 0
  <2>1. UNCHANGED <<size, freeList, orphans>>
    BY <1>9 DEF ConnectNothing, refVars
  <2>2. TypeOK'
    BY <1>1, <1>2, <1>7, <1>8, <2>1 DEF TypeOK
  <2> QED
    BY <1>1, <1>3, <1>5, <1>6, <2>1, <2>2, SameUse DEF IInv
<1>10. CASE iCallback = 0
  <2>1. size' = size /\ freeList' = << >> /\ orphans' = orphans \cup ToSet(freeList)
    BY <1>10 DEF ConnectNothing, Freed, AfterFree
  <2>2. \A r : r \in ToSet(freeList) <=> Free(r)
    BY <1>4 DEF ToSet, Free, In
  <2>3. \A r : ~Free(r)'
    BY <2>1 DEF Free, In
  <2>4. ToSet(freeList) \subseteq 1 .. size
    BY <1>4 DEF ToSet
  <2>5. TypeOK'
    <3>1. freeList' \in Seq(1 .. size') /\ orphans' \subseteq 1 .. size'
      BY <1>4, <1>8, <2>1, <2>4
    <3> QED
      BY <1>1, <1>2, <1>7, <1>8, <2>1, <3>1 DEF TypeOK
  <2>6. /\ Exclusive'
        /\ \A r \in 1 .. size' : Used(r)' \/ Free(r)' \/ r \in leaked' \cup orphans'
    BY <1>1, <1>2, <1>5, <2>1, <2>2, <2>3, Reassigned
  <2>7. Accounted'
    BY <1>1, <1>2, <1>10, <2>1, <2>6 DEF Accounted
  <2>8. FreeOnce'
    BY <2>1 DEF FreeOnce, Distinct
  <2> QED
    BY <1>3, <1>6, <2>5, <2>6, <2>7, <2>8 DEF IInv
<1> QED
  BY <1>9, <1>10

\* The connect callback is called: its reference is freed, and forgotten.
LEMMA ConnectCallbackKeeps == ASSUME IInv, ConnectCallback PROVE IInv'
<1>1. /\ pc = "connect" /\ pc' = "loop" /\ iCallback > 0 /\ iCallback' = 0 /\ pending' = FALSE
      /\ batch' = queue /\ queue' = << >> /\ top' = top + 1 /\ calls' = calls + 1
      /\ UNCHANGED <<connects, queries, leaked>>
  BY DEF ConnectCallback, ZeroCallback
<1>2. TypeOK /\ Exclusive /\ Accounted /\ FreeOnce /\ Once
  BY DEF IInv
<1>3. /\ Once' /\ \A r : r # 0 /\ Used(r)' => Used(r)
      /\ \A r : Used(r) => Used(r)' \/ r = iCallback
  BY <1>1, TakenKeeps
<1>4. /\ size \in Nat /\ iCallback \in 1 .. size /\ freeList \in Seq(1 .. size)
      /\ top \in Nat /\ calls \in Nat
  BY <1>1, <1>2, TypeParts DEF NoRef, Accounted
<1>5. Used(iCallback) /\ ~Free(iCallback)
  BY <1>2, <1>4 DEF Used, Exclusive
<1>6. /\ size' = size /\ orphans' = orphans
      /\ freeList' = AfterFree(freeList, iCallback)
  BY <1>1, <1>4 DEF ConnectCallback, Freed
<1>7. /\ freeList' \in Seq(1 .. size) /\ FreeOnce'
      /\ \A r : Free(r)' <=> Free(r) \/ r = iCallback
  BY <1>2, <1>4, <1>5, <1>6, FreeOne DEF Free, FreeOnce
<1>8. ~\E r \in 1 .. size : r = iCallback /\ Used(r)'
  <2> SUFFICES ASSUME NEW r \in 1 .. size, r = iCallback, Used(r)' PROVE FALSE
    OBVIOUS
  <2>1. r # iCallback' /\ Len(queue') = 0 /\ FirstWaiting' = 1
    BY <1>1, <1>4 DEF FirstWaiting
  <2>2. PICK i \in 1 .. Len(queue), f \in Fields : r = Reference(queue[i], f)
    BY <1>1, <2>1 DEF Used
  <2> QED
    BY <1>1, <1>2, <2>2 DEF Once
<1>9. \A r \in 1 .. size : r # 0
  BY <1>4
<1>10. /\ Exclusive'
       /\ \A r \in 1 .. size' : Used(r)' \/ Free(r)' \/ r \in leaked' \cup orphans'
  BY <1>1, <1>2, <1>3, <1>5, <1>6, <1>7, <1>8, <1>9, Reassigned
<1>11. Accounted'
  BY <1>1, <1>2, <1>4, <1>6, <1>10 DEF Accounted
<1>12. TypeOK'
  <2>1. {pending', connects'} \subseteq BOOLEAN
    BY <1>1, <1>2 DEF TypeOK
  <2>2. << >> \in Seq([cb : 1 .. size \cup {NoRef}, ref : 1 .. size \cup {NoRef}])
    OBVIOUS
  <2> QED
    BY <1>1, <1>2, <1>4, <1>6, <1>7, <2>1, <2>2 DEF TypeOK
<1>13. Polling' /\ Stack'
  BY <1>1, <1>4 DEF IInv, Polling, Stack
<1> QED
  BY <1>3, <1>7, <1>10, <1>11, <1>12, <1>13 DEF IInv

\* An action without a callback: the reference of its object is lost.
LEMMA TriggerNothingKeeps == ASSUME IInv, TriggerNothing PROVE IInv'
<1> DEFINE a == Head(batch)
<1>1. /\ pc = "loop" /\ batch # << >> /\ a.cb <= 0 /\ leaked' = leaked \cup ({a.ref} \ {NoRef})
      /\ batch' = Tail(batch)
      /\ UNCHANGED <<size, freeList, orphans, iCallback, pending, queue, pc, top, connects,
                     queries, calls>>
  BY DEF TriggerNothing, refVars
<1>2. TypeOK /\ Exclusive /\ Accounted /\ FreeOnce /\ Once
  BY DEF IInv
<1>3. /\ Once' /\ \A r : Used(r)' => Used(r)
      /\ \A r : Used(r) => Used(r)' \/ r = a.cb \/ r = a.ref
  BY <1>1, TailKeeps
<1>4. size \in Nat /\ batch \in Seq(Actions(size)) /\ leaked \subseteq 1 .. size
  BY <1>2, TypeParts
<1>5. a = batch[1] /\ a \in Actions(size) /\ Len(batch) \in Nat \ {0}
  BY <1>1, <1>4
<1>6. a.ref \in 1 .. size \cup {NoRef}
  BY <1>5 DEF Actions
<1>7. /\ FirstWaiting = 1 /\ FirstWaiting' = 1 /\ Len(batch') = Len(batch) - 1
      /\ \A i \in 1 .. Len(batch') : batch'[i] = batch[i + 1]
  BY <1>1, <1>4, <1>5 DEF FirstWaiting
<1>8. ASSUME NEW r \in 1 .. size, r = a.ref PROVE Used(r) /\ ~Used(r)'
  <2>1. "ref" \in Fields /\ r = Reference(batch[1], "ref") /\ r > 0
    BY <1>4, <1>5, <1>8 DEF Fields, Reference
  <2>2. 1 \in 1 .. Len(batch)
    BY <1>5
  <2>3. r # iCallback /\ \A i \in 1 .. Len(queue), g \in Fields : r # Reference(queue[i], g)
    BY <1>2, <1>7, <2>1, <2>2 DEF Once
  <2>4. ASSUME NEW i \in 1 .. Len(batch'), NEW g \in Fields PROVE r # Reference(batch'[i], g)
    <3>1. i + 1 \in 1 .. Len(batch) /\ i + 1 # 1
      BY <1>5, <1>7
    <3> QED
      BY <1>2, <1>7, <2>1, <2>2, <3>1 DEF Once
  <2> QED
    BY <1>1, <1>7, <2>1, <2>2, <2>3, <2>4 DEF Used
<1>9. \A r \in 1 .. size : r # a.cb /\ r # NoRef
  BY <1>1, <1>4, <1>5 DEF Actions, NoRef
<1>10. \A r : Free(r)' <=> Free(r)
  BY <1>1 DEF Free
<1>11. /\ Exclusive'
       /\ \A r \in 1 .. size' : Used(r)' \/ Free(r)' \/ r \in leaked' \cup orphans'
  <2>1. ASSUME NEW r \in 1 .. size
        PROVE  /\ Used(r)' => Used(r)
               /\ Used(r) => Used(r)' \/ Free(r)' \/ r \in leaked' \cup orphans'
               /\ Free(r) => Free(r)' \/ r \in orphans'
               /\ Free(r)' => Free(r) \/ (Used(r) /\ ~Used(r)')
               /\ r \in leaked \cup orphans => r \in leaked' \cup orphans'
               /\ r \in leaked' \cup orphans' =>
                    \/ r \in leaked \cup orphans
                    \/ Used(r) /\ ~Used(r)' /\ ~Free(r)'
                    \/ Free(r) /\ ~Free(r)'
    <3>1. r \in leaked' <=> r \in leaked \/ r = a.ref
      BY <1>1, <1>9
    <3>2. Used(r) => ~Free(r)
      BY <1>2 DEF Exclusive
    <3> QED
      BY <1>1, <1>3, <1>8, <1>9, <1>10, <3>1, <3>2
  <2> QED
    BY <1>1, <1>2, <2>1, Reassigned
<1>12. Accounted' /\ FreeOnce'
  BY <1>1, <1>2, <1>11 DEF Accounted, FreeOnce
<1>13. TypeOK'
  <2>1. leaked' \subseteq 1 .. size
    BY <1>1, <1>4, <1>6
  <2>2. batch' \in Seq(Actions(size))
    BY <1>1, <1>4
  <2> QED
    BY <1>1, <1>2, <2>1, <2>2 DEF TypeOK, Actions
<1>14. Polling' /\ Stack'
  BY <1>1 DEF IInv, Polling, Stack
<1> QED
  BY <1>3, <1>11, <1>12, <1>13, <1>14 DEF IInv

\* A callback is called: both of its references are freed first.
LEMMA TriggerCallbackKeeps == ASSUME CallbacksAssumption, IInv, TriggerCallback PROVE IInv'
<1> DEFINE a == Head(batch)
<1>1. /\ pc = "loop" /\ pc' = "call" /\ batch # << >> /\ a.cb > 0
      /\ freeList' = AfterFree(AfterFree(freeList, a.cb), a.ref)
      /\ top' = top + PerCall /\ calls' = calls + 1
      /\ UNCHANGED <<size, orphans, iCallback, pending, queue, batch, connects, queries, leaked>>
  BY DEF TriggerCallback, FreeReferences
<1>2. TypeOK /\ Exclusive /\ Accounted /\ FreeOnce
  BY DEF IInv
<1>3. /\ Once' /\ \A r : Used(r)' => Used(r)
      /\ \A r : Used(r) => Used(r)' \/ r = a.cb \/ r = a.ref
      /\ \A r \in {a.cb, a.ref} : r > 0 => Used(r) /\ ~Used(r)'
      /\ a.cb # a.ref
  BY <1>1, EnteredKeeps
<1>4. /\ size \in Nat /\ batch \in Seq(Actions(size)) /\ freeList \in Seq(1 .. size)
      /\ top \in Nat /\ calls \in Nat /\ PerCall \in Nat
  BY <1>2, TypeParts DEF CallbacksAssumption
<1>5. a \in Actions(size)
  BY <1>1, <1>4
<1>6. a.cb \in 1 .. size /\ a.ref \in 1 .. size \cup {NoRef}
  BY <1>1, <1>4, <1>5 DEF Actions, NoRef
<1> HIDE DEF a
<1>7. Used(a.cb) /\ ~In(freeList, a.cb)
  BY <1>1, <1>2, <1>3, <1>6 DEF Exclusive, Free
<1> DEFINE mid == AfterFree(freeList, a.cb)
<1>8. /\ mid \in Seq(1 .. size) /\ Distinct(mid)
      /\ \A x : In(mid, x) <=> In(freeList, x) \/ x = a.cb
  BY <1>2, <1>4, <1>6, <1>7, FreeOne DEF FreeOnce
<1> HIDE DEF mid
<1>9. freeList' = AfterFree(mid, a.ref)
  BY <1>1 DEF mid
<1>10. /\ freeList' \in Seq(1 .. size) /\ Distinct(freeList')
       /\ \A x \in 1 .. size : In(freeList', x) <=> In(freeList, x) \/ x = a.cb \/ x = a.ref
  <2>1. CASE a.ref = NoRef
    <3>1. freeList' = mid
      BY <1>9, <2>1 DEF AfterFree, NoRef
    <3>2. \A x \in 1 .. size : x # a.ref
      BY <1>4, <2>1 DEF NoRef
    <3> QED
      BY <1>8, <3>1, <3>2
  <2>2. CASE a.ref \in 1 .. size
    <3>1. a.ref > 0
      BY <1>4, <2>2
    <3>2. ~In(freeList, a.ref)
      BY <1>2, <1>3, <2>2, <3>1 DEF Exclusive, Free
    <3>3. ~In(mid, a.ref)
      BY <1>3, <1>8, <3>2
    <3> QED
      BY <1>4, <1>8, <1>9, <2>2, <3>3, FreeOne
  <2> QED
    BY <1>6, <2>1, <2>2
<1>11. FreeOnce' /\ \A r \in 1 .. size : Free(r)' <=> Free(r) \/ r = a.cb \/ r = a.ref
  BY <1>10 DEF FreeOnce, Free
<1>12. \A r \in 1 .. size : r > 0
  BY <1>4
<1>13. /\ Exclusive'
       /\ \A r \in 1 .. size' : Used(r)' \/ Free(r)' \/ r \in leaked' \cup orphans'
  BY <1>1, <1>2, <1>3, <1>11, <1>12, Reassigned
<1>14. Accounted'
  BY <1>1, <1>2, <1>13 DEF Accounted
<1>15. TypeOK'
  BY <1>1, <1>2, <1>4, <1>10 DEF TypeOK
<1>16. Polling' /\ Stack'
  BY <1>1, <1>4 DEF IInv, Polling, Stack
<1> QED
  BY <1>3, <1>11, <1>13, <1>14, <1>15, <1>16 DEF IInv

-----------------------------------------------------------------------------
(* The invariant, and what it says of the properties.                      *)

\* A database is made, with or without a connect callback.
LEMMA InitHolds == ASSUME CallbacksAssumption, Init PROVE IInv
<1>1. /\ iCallback \in {NoRef, 1} /\ size = (IF iCallback = 1 THEN 1 ELSE 0)
      /\ freeList = << >> /\ orphans = {} /\ queue = << >> /\ batch = << >>
      /\ pc = "script" /\ top = 0 /\ queries = 0 /\ calls = 0 /\ leaked = {}
  BY DEF Init
<1>2. size \in Nat /\ 0 \in 0 .. MaxQueries
  BY <1>1 DEF CallbacksAssumption
<1>3. TypeOK
  <2>1. {pending, connects} \subseteq BOOLEAN
    BY DEF Init
  <2>2. /\ << >> \in Seq(1 .. size)
        /\ << >> \in Seq([cb : 1 .. size \cup {NoRef}, ref : 1 .. size \cup {NoRef}])
    OBVIOUS
  <2> QED
    BY <1>1, <1>2, <2>1, <2>2 DEF TypeOK
<1>4. Len(queue) = 0 /\ Len(batch) = 0 /\ Len(freeList) = 0 /\ FirstWaiting = 1
  BY <1>1 DEF FirstWaiting
<1>5. Polling /\ Stack /\ Once /\ FreeOnce
  BY <1>1, <1>4 DEF Polling, Stack, Once, FreeOnce, Distinct
<1>6. \A r : ~Free(r)
  BY <1>4 DEF Free, In
<1>7. Exclusive /\ Accounted
  BY <1>1, <1>2, <1>6 DEF Exclusive, Accounted, Used, NoRef
<1> QED
  BY <1>3, <1>5, <1>7 DEF IInv

\* Every step keeps the invariant.
LEMMA StepKeeps == ASSUME CallbacksAssumption, IInv, [Next]_vars PROVE IInv'
<1>1. CASE UNCHANGED vars
  <2>1. UNCHANGED <<size, freeList, orphans, iCallback, pending, queue, batch, pc, top,
                    connects, queries, calls, leaked>>
    BY <1>1 DEF vars, refVars
  <2>2. FirstWaiting' = FirstWaiting
    BY <2>1 DEF FirstWaiting
  <2>3. \A r : Used(r)' <=> Used(r)
    BY <2>1, <2>2 DEF Used
  <2>4. TypeOK' /\ Polling' /\ Stack' /\ Once'
    BY <2>1, <2>2 DEF IInv, TypeOK, Polling, Stack, Once
  <2> QED
    BY <2>1, <2>3, <2>4, SameUse DEF IInv
<1>2. ASSUME NEW cb \in BOOLEAN, NEW obj \in BOOLEAN, lua_Query(cb, obj) PROVE IInv'
  BY <1>2, QueryKeeps
<1>3. ASSUME NEW failed \in BOOLEAN, PCallReturns(failed) PROVE IInv'
  BY <1>3, PCallKeeps
<1> QED
  BY <1>1, <1>2, <1>3, ConnectKeeps, PollKeeps, ConnectNothingKeeps, ConnectCallbackKeeps,
     TriggerNothingKeeps, TriggerCallbackKeeps, ReturnKeeps DEF Next

\* The owners are the database and the fields of the actions that wait.
LEMMA OwnerKinds ==
  /\ \A o \in Owners :
       \/ o = <<"database", 1, "cb">>
       \/ \E i \in 1 .. Len(queue), f \in Fields : o = <<"queue", i, f>>
       \/ \E i \in FirstWaiting .. Len(batch), f \in Fields : o = <<"batch", i, f>>
  /\ <<"database", 1, "cb">> \in Owners
  /\ \A i \in 1 .. Len(queue), f \in Fields : <<"queue", i, f>> \in Owners
  /\ \A i \in FirstWaiting .. Len(batch), f \in Fields : <<"batch", i, f>> \in Owners
  BY DEF Owners

\* What each of them holds.
LEMMA HeldIs ==
  /\ Held(<<"database", 1, "cb">>) = iCallback
  /\ \A i, f : Held(<<"queue", i, f>>) = Reference(queue[i], f)
  /\ \A i, f : Held(<<"batch", i, f>>) = Reference(batch[i], f)
  BY DEF Held

\* A slot is in use when an owner holds it.
LEMMA InUseIs == ASSUME NEW r, r # NoRef, r # 0 PROVE r \in InUse <=> Used(r)
<1>1. r \in InUse <=> \E o \in Owners : r = Held(o)
  BY DEF InUse
<1>2. ASSUME NEW o \in Owners, r = Held(o) PROVE Used(r)
  BY <1>2, OwnerKinds, HeldIs DEF Used
<1>3. ASSUME Used(r) PROVE \E o \in Owners : r = Held(o)
  BY <1>3, OwnerKinds, HeldIs DEF Used
<1> QED
  BY <1>1, <1>2, <1>3

\* The invariant is at least as strong as the properties.
LEMMA InvariantSuffices == ASSUME CallbacksAssumption, IInv PROVE ReferencesExact
<1>1. TypeOK /\ Once /\ FreeOnce /\ Exclusive /\ Accounted /\ Stack
  BY DEF IInv
<1>2. /\ size \in Nat /\ freeList \in Seq(1 .. size) /\ leaked \subseteq 1 .. size
      /\ orphans \subseteq 1 .. size /\ iCallback \in {NoRef, 0, 1}
      /\ top \in Nat /\ calls \in Nat /\ PerCall \in Nat
      /\ queue \in Seq(Actions(size)) /\ batch \in Seq(Actions(size))
  BY <1>1, TypeParts DEF CallbacksAssumption
<1>3. \A r : r \in ToSet(freeList) <=> Free(r)
  BY <1>2 DEF ToSet, Free, In
<1>4. \A r \in InUse : r \in 1 .. size /\ Used(r)
  <2> TAKE r \in InUse
  <2>1. r # NoRef /\ r # 0 /\ Used(r)
    BY InUseIs DEF InUse
  <2>2. \A a \in Actions(size), f \in Fields : Reference(a, f) \in 1 .. size \cup {NoRef}
    BY DEF Actions, Fields, Reference
  <2>3. \A i \in 1 .. Len(queue) : queue[i] \in Actions(size)
    BY <1>2
  <2>4. \A i \in FirstWaiting .. Len(batch) : batch[i] \in Actions(size)
    BY <1>2 DEF FirstWaiting
  <2>5. r = iCallback => r \in 1 .. size
    BY <1>1, <1>2, <2>1 DEF Accounted
  <2> QED
    BY <2>1, <2>2, <2>3, <2>4, <2>5 DEF Used
<1>5. OwnedOnce
  <2>1. ASSUME NEW o \in Owners, NEW p \in Owners, Held(o) > 0, Held(o) = Held(p)
        PROVE  o = p
    <3>1. CASE o = <<"database", 1, "cb">>
      <4>1. iCallback > 0 /\ Held(p) = iCallback
        BY <2>1, <3>1, HeldIs
      <4>2. ASSUME NEW i \in 1 .. Len(queue), NEW f \in Fields, p = <<"queue", i, f>>
            PROVE  FALSE
        BY <1>1, <4>1, <4>2, HeldIs DEF Once
      <4>3. ASSUME NEW i \in FirstWaiting .. Len(batch), NEW f \in Fields, p = <<"batch", i, f>>
            PROVE  FALSE
        BY <1>1, <4>1, <4>3, HeldIs DEF Once
      <4> QED
        BY <3>1, <4>2, <4>3, OwnerKinds
    <3>2. ASSUME NEW i \in 1 .. Len(queue), NEW f \in Fields, o = <<"queue", i, f>>
          PROVE  o = p
      <4>1. Reference(queue[i], f) > 0 /\ Held(p) = Reference(queue[i], f)
        BY <2>1, <3>2, HeldIs
      <4>2. CASE p = <<"database", 1, "cb">>
        BY <1>1, <3>2, <4>1, <4>2, HeldIs DEF Once
      <4>3. ASSUME NEW j \in 1 .. Len(queue), NEW g \in Fields, p = <<"queue", j, g>>
            PROVE  o = p
        BY <1>1, <3>2, <4>1, <4>3, HeldIs DEF Once
      <4>4. ASSUME NEW j \in FirstWaiting .. Len(batch), NEW g \in Fields, p = <<"batch", j, g>>
            PROVE  FALSE
        BY <1>1, <4>1, <4>4, HeldIs DEF Once
      <4> QED
        BY <4>2, <4>3, <4>4, OwnerKinds
    <3>3. ASSUME NEW i \in FirstWaiting .. Len(batch), NEW f \in Fields, o = <<"batch", i, f>>
          PROVE  o = p
      <4>1. Reference(batch[i], f) > 0 /\ Held(p) = Reference(batch[i], f)
        BY <2>1, <3>3, HeldIs
      <4>2. CASE p = <<"database", 1, "cb">>
        BY <1>1, <3>3, <4>1, <4>2, HeldIs DEF Once
      <4>3. ASSUME NEW j \in 1 .. Len(queue), NEW g \in Fields, p = <<"queue", j, g>>
            PROVE  FALSE
        BY <1>1, <4>1, <4>3, HeldIs DEF Once
      <4>4. ASSUME NEW j \in FirstWaiting .. Len(batch), NEW g \in Fields, p = <<"batch", j, g>>
            PROVE  o = p
        BY <1>1, <3>3, <4>1, <4>4, HeldIs DEF Once
      <4> QED
        BY <4>2, <4>3, <4>4, OwnerKinds
    <3> QED
      BY <3>1, <3>2, <3>3, OwnerKinds
  <2>2. IsInjective(freeList)
    BY <1>1, <1>2 DEF IsInjective, FreeOnce, Distinct
  <2>3. InUse \cap (ToSet(freeList) \cup leaked) = {}
    BY <1>1, <1>3, <1>4 DEF Exclusive
  <2> QED
    BY <2>1, <2>2, <2>3 DEF OwnedOnce
<1>6. RefsAccounted
  <2>1. ASSUME NEW r \in 1 .. size
        PROVE  r \in InUse \cup ToSet(freeList) \cup leaked \cup orphans
    <3>1. r # NoRef /\ r # 0
      BY <1>2 DEF NoRef
    <3> QED
      BY <1>1, <1>3, <3>1, InUseIs DEF Accounted
  <2>2. ToSet(freeList) \subseteq 1 .. size
    BY <1>2 DEF ToSet
  <2>3. 1 .. size = InUse \cup ToSet(freeList) \cup leaked \cup orphans
    BY <1>2, <1>4, <2>1, <2>2
  <2> QED
    BY <1>1, <2>3 DEF RefsAccounted, Accounted
<1>7. StackBounded
  <2>1. pc = "script" => top = 0
    BY <1>1 DEF TypeOK
  <2>2. pc \in {"script", "connect", "loop", "call"}
    BY <1>1, TypeParts
  <2> QED
    BY <1>1, <1>2, <2>1, <2>2 DEF StackBounded, Stack
<1> QED
  BY <1>1, <1>5, <1>6, <1>7 DEF ReferencesExact

\* However many actions are queued, by the script or from within a callback,
\* a reference has one owner or is free, every slot of the registry is
\* accounted for, and Poll's frame grows by one slot per callback.
THEOREM ReferencesAreExact == ASSUME CallbacksAssumption PROVE Spec => []ReferencesExact
<1>1. Init => IInv
  BY InitHolds
<1>2. IInv /\ [Next]_vars => IInv'
  BY StepKeeps
<1>3. IInv => ReferencesExact
  BY InvariantSuffices
<1> QED
  BY <1>1, <1>2, <1>3, PTL DEF Spec
=============================================================================

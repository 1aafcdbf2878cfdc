----------------------------- MODULE Callbacks ------------------------------
(***************************************************************************)
(* The Lua side of calling back: the references that Query and Run take    *)
(* for a callback and its argument, and the stack slots of Poll's frame    *)
(* while DispatchCompletedActions triggers one action after the other.     *)
(*                                                                         *)
(* References are numbers of a table (external, luaL_ref): a freed one     *)
(* goes on a list whose head is kept in slot 0, and is given out again     *)
(* first.                                                                  *)
(***************************************************************************)
EXTENDS Integers, Sequences, SequencesExt

CONSTANTS
  MaxQueries,   \* bound: actions queued
  PerCall       \* slots a callback needs: traceback, function, argument, tables

\* What the constants must be; the modules that instantiate this one assume it.
CallbacksAssumption ==
  /\ MaxQueries \in Nat
  /\ PerCall \in Nat \ {0, 1}

NoRef == -1

VARIABLES
  size,         \* slots of the registry in use so far
  freeList,     \* the freed slots, the next one to be given out first
  orphans,      \* slots that are on no list any more
  iCallback,    \* the database's m_iCallback
  pending,      \* its m_bIsPendingCallback
  queue,        \* completed actions: m_iCallback and m_iCallbackRef of each
  batch,        \* those that Poll has taken
  pc,           \* Lua thread: "script", "connect", "loop", "call"
  top,          \* slots on the stack of Poll's frame
  connects,     \* Connect has been called
  queries,      \* actions queued
  calls,        \* callbacks called by this Poll
  leaked        \* references no object holds any more

refVars == <<size, freeList, orphans>>
vars == <<refVars, iCallback, pending, queue, batch, pc, top, connects, queries,
          calls, leaked>>

Action(cb, ref) == [cb |-> cb, ref |-> ref]

-----------------------------------------------------------------------------
(* References (external).                                                  *)

\* The references that n calls of ReferenceCreate return.
Fresh(n) == [i \in 1 .. n |-> IF i <= Len(freeList) THEN freeList[i]
                              ELSE size + i - Len(freeList)]

Created(n) ==
  /\ freeList' = SubSeq(freeList, n + 1, Len(freeList))
  /\ size' = IF n <= Len(freeList) THEN size ELSE size + n - Len(freeList)
  /\ UNCHANGED orphans

\* The list after ReferenceFree.  A negative reference is ignored; freeing
\* slot 0 overwrites the head of the list with 0.
AfterFree(list, r) == IF r > 0 THEN <<r>> \o list ELSE IF r = 0 THEN << >> ELSE list

Freed(r) ==
  /\ freeList' = AfterFree(freeList, r)
  /\ orphans' = IF r = 0 THEN orphans \cup ToSet(freeList) ELSE orphans
  /\ UNCHANGED size

-----------------------------------------------------------------------------
(* The script.                                                             *)

Script == pc \in {"script", "call"}

\* lua_Query and lua_Run: a reference for the callback function, and one for
\* the object that goes with it, each if given.
lua_Query(cb, obj) ==
  LET n == (IF cb THEN 1 ELSE 0) + (IF obj THEN 1 ELSE 0)
      new == Fresh(n)
  IN /\ Script
     /\ queries < MaxQueries
     /\ queries' = queries + 1
     /\ Created(n)
     /\ queue' = Append(queue, Action(IF cb THEN new[1] ELSE NoRef,
                                      IF obj THEN new[n] ELSE NoRef))
     /\ UNCHANGED <<iCallback, pending, batch, pc, top, connects, calls, leaked>>

\* Database:Connect.
lua_Connect ==
  /\ Script
  /\ ~connects
  /\ connects' = TRUE
  /\ pending' = TRUE
  /\ UNCHANGED <<refVars, iCallback, queue, batch, pc, top, queries, calls, leaked>>

\* Poll: its argument is on the stack.  m_bIsPendingCallback may be anything
\* before the database connects.
lua_Poll ==
  /\ pc = "script"
  /\ top' = 1
  /\ calls' = 0
  /\ pc' = IF pending THEN "connect" ELSE "loop"
  /\ batch' = IF pending THEN << >> ELSE queue
  /\ queue' = IF pending THEN queue ELSE << >>
  /\ UNCHANGED <<refVars, iCallback, pending, connects, queries, leaked>>

-----------------------------------------------------------------------------
(* Database::TriggerCallback.                                              *)

\* There is no function to call: nothing was given, or it has been called
\* before and m_iCallback is 0, which >= 0 lets through.
ConnectNothing ==
  /\ pc = "connect"
  /\ iCallback <= 0
  /\ pending' = FALSE
  /\ IF iCallback = 0 THEN Freed(0) ELSE UNCHANGED refVars
  /\ batch' = queue
  /\ queue' = << >>
  /\ pc' = "loop"
  /\ UNCHANGED <<iCallback, top, connects, queries, calls, leaked>>

\* m_iCallback = 0.
ZeroCallback == iCallback' = 0

\* The function is called with the handle and leaves the traceback function.
ConnectCallback ==
  /\ pc = "connect"
  /\ iCallback > 0
  /\ pending' = FALSE
  /\ Freed(iCallback)
  /\ ZeroCallback
  /\ top' = top + 1
  /\ calls' = calls + 1
  /\ batch' = queue
  /\ queue' = << >>
  /\ pc' = "loop"
  /\ UNCHANGED <<connects, queries, leaked>>

-----------------------------------------------------------------------------
(* DatabaseAction::TriggerCallback.                                        *)

\* m_iCallback <= 0: nothing is called, and nothing is freed.
TriggerNothing ==
  /\ pc = "loop"
  /\ batch # << >>
  /\ Head(batch).cb <= 0
  /\ leaked' = leaked \cup ({Head(batch).ref} \ {NoRef})
  /\ batch' = Tail(batch)
  /\ UNCHANGED <<refVars, iCallback, pending, queue, pc, top, connects, queries, calls>>

\* Mutant: the callback's reference is freed in the place of the object's.
FreeCallbackTwice(a) ==
  freeList' = AfterFree(AfterFree(freeList, a.cb), a.cb) /\ UNCHANGED <<size, orphans>>

\* Both references are freed once their values are on the stack.
FreeReferences(a) ==
  freeList' = AfterFree(AfterFree(freeList, a.cb), a.ref) /\ UNCHANGED <<size, orphans>>

\* The traceback function, the callback and its arguments are pushed, and
\* PCall is entered.
TriggerCallback ==
  /\ pc = "loop"
  /\ batch # << >>
  /\ Head(batch).cb > 0
  /\ FreeReferences(Head(batch))
  /\ top' = top + PerCall
  /\ calls' = calls + 1
  /\ pc' = "call"
  /\ UNCHANGED <<iCallback, pending, queue, batch, connects, queries, leaked>>

\* PCall pops the function and its arguments; on an error ErrorNoHalt is
\* called and the message popped.  The traceback function stays.
LeaveTraceback(failed) == top' = top - PerCall + 1

PCallReturns(failed) ==
  /\ pc = "call"
  /\ LeaveTraceback(failed)
  /\ batch' = Tail(batch)
  /\ pc' = "loop"
  /\ UNCHANGED <<refVars, iCallback, pending, queue, connects, queries, calls, leaked>>

\* Poll returns, and its frame goes with all that was left on it.
PollReturns ==
  /\ pc = "loop"
  /\ batch = << >>
  /\ pc' = "script"
  /\ top' = 0
  /\ UNCHANGED <<refVars, iCallback, pending, queue, batch, connects, queries, calls, leaked>>

-----------------------------------------------------------------------------
\* A database, made with a connect callback or without.
Init ==
  /\ iCallback \in {NoRef, 1}
  /\ size = IF iCallback = 1 THEN 1 ELSE 0
  /\ freeList = << >>
  /\ orphans = {}
  /\ pending \in BOOLEAN
  /\ queue = << >>
  /\ batch = << >>
  /\ pc = "script"
  /\ top = 0
  /\ connects = FALSE
  /\ queries = 0
  /\ calls = 0
  /\ leaked = {}

Next ==
  \/ \E cb, obj \in BOOLEAN : lua_Query(cb, obj)
  \/ lua_Connect
  \/ lua_Poll
  \/ ConnectNothing \/ ConnectCallback
  \/ TriggerNothing \/ TriggerCallback
  \/ \E failed \in BOOLEAN : PCallReturns(failed)
  \/ PollReturns

Spec == Init /\ [][Next]_vars

-----------------------------------------------------------------------------
(* Properties.                                                             *)

\* Who will still use a reference: the database, or an action that waits,
\* for its callback or for the object that goes with it.
Fields == {"cb", "ref"}
FirstWaiting == IF pc = "call" THEN 2 ELSE 1

Owners ==
  {<<"database", 1, "cb">>}
  \cup {"queue"} \X (1 .. Len(queue)) \X Fields
  \cup {"batch"} \X (FirstWaiting .. Len(batch)) \X Fields

Reference(action, field) == IF field = "cb" THEN action.cb ELSE action.ref

Held(o) ==
  CASE o[1] = "database" -> iCallback
    [] o[1] = "queue" -> Reference(queue[o[2]], o[3])
    [] o[1] = "batch" -> Reference(batch[o[2]], o[3])

InUse == {Held(o) : o \in Owners} \ {NoRef, 0}

\* Every variable has its type.
TypeOK ==
  /\ size \in Nat
  /\ freeList \in Seq(1 .. size)
  /\ orphans \subseteq 1 .. size
  /\ iCallback \in {NoRef, 0, 1}
  /\ queue \in Seq([cb : 1 .. size \cup {NoRef}, ref : 1 .. size \cup {NoRef}])
  /\ batch \in Seq([cb : 1 .. size \cup {NoRef}, ref : 1 .. size \cup {NoRef}])
  /\ {pending, connects} \subseteq BOOLEAN
  /\ pc \in {"script", "connect", "loop", "call"}
  /\ top \in IF pc = "script" THEN {0} ELSE Nat \ {0}
  /\ queries \in 0 .. MaxQueries
  /\ calls \in Nat
  /\ leaked \subseteq 1 .. size

\* A reference has one owner, or is free, never both: a callback is never
\* called for another action's query, although slots are reused at once.
OwnedOnce ==
  /\ \A o, p \in Owners : Held(o) > 0 /\ Held(o) = Held(p) => o = p
  /\ IsInjective(freeList)
  /\ InUse \cap (ToSet(freeList) \cup leaked) = {}

\* A slot of the registry is in use, free, or lost in one of two ways: the
\* object of an action that had no callback, and the free list of a second
\* connect callback.
RefsAccounted ==
  /\ 1 .. size = InUse \cup ToSet(freeList) \cup leaked \cup orphans
  /\ orphans # {} => iCallback = 0

\* Poll's frame grows by the one slot that each callback leaves, failed or
\* not, over what a callback needs.
StackBounded ==
  /\ pc \in {"connect", "loop"} => top = 1 + calls
  /\ top <= calls + PerCall + 1

\* References and stack slots are all accounted for.
ReferencesExact == TypeOK /\ OwnedOnce /\ RefsAccounted /\ StackBounded
=============================================================================

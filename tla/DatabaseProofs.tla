--------------------------- MODULE DatabaseProofs ---------------------------
(***************************************************************************)
(* Proofs about one Database: any number of actions, any number of cached  *)
(* statements, any depth of re-entrant callbacks.                          *)
(*                                                                         *)
(* The first part is about the object, its threads and its handles (IInv), *)
(* the second about the actions a script queues (SInv): none is lost, they *)
(* are called back in order, and the whole implements QueryService.        *)
(***************************************************************************)
EXTENDS Database, SequenceTheorems, TLAPS

-----------------------------------------------------------------------------
(* The inductive invariant.                                                *)

Depth == 1 .. Len(stack)

\* Which place belongs to which function.  A frame in a callback still has
\* the action it is calling at the head of its batch.
ShapeOf(f) ==
  /\ f.pc = "init" => f.fn = "tmysql.Connect"
  /\ f.pc = "release" => f.fn = "Connect"
  /\ f.pc \in {"dispatch", "callback"} => f.fn \in {"Poll", "Disconnect"}
  /\ f.pc = "connectcb" => f.fn \in {"Poll", "tmysql.Connect"}
  /\ f.pc = "callback" => f.batch # << >>
  /\ f.fn = "Prepare" <=> f.pc = "await"
  /\ f.fn = "Connect" => f.pc = "release"

FrameShape == \A i \in Depth : ShapeOf(stack[i])

\* A frame that another one lies on is inside a callback.
Nested == \A i \in 1 .. Len(stack) - 1 : stack[i].pc \in {"callback", "connectcb"}

\* Frames that work on the object without calling the script are there only
\* while the object is.
FramesOwn ==
  \A i \in Depth :
    /\ stack[i].pc = "init" =>
         Len(stack) = 1 /\ handle = "none" /\ alloc /\ thread = "none"
    /\ stack[i].pc = "await" => alloc /\ connected /\ stack[i].text \in Texts
    /\ stack[i].pc = "release" => alloc /\ ~connected

Worker ==
  /\ stopped => cur = None /\ ~guard
  /\ thread # "running" => cur = None
  /\ thread = "none" => completed = << >> /\ cache = {}
  /\ connected => thread # "none"
  /\ alloc /\ ~connected => thread = "none"

\* After the object is deleted nothing can be started on it any more.
Deleted ==
  /\ handle = "live" => alloc
  /\ ~alloc =>
       /\ thread # "running"
       /\ cache = {}
       /\ completed = << >>
       /\ ~connected
       /\ stack # << >> => reentered

\* Disconnect's dispatch comes after the last push.
Disconnecting ==
  /\ \A i \in Depth :
       stack[i].fn = "Disconnect" /\ stack[i].pc # "spin" =>
         stopped /\ completed = << >>
  /\ \A i \in Depth : i # 1 /\ stack[i].fn \in {"Poll", "Disconnect"} => reentered
  /\ ~guard => ~alloc \/ \E i \in Depth : stack[i].fn = "Disconnect"

\* The io thread has taken up the handler of a Prepare and not completed it.
Creating == cur # None /\ cur.kind = "create" /\ iopc = "run"

\* While Prepare waits its handler is the last one in the io_context.
PrepareLast ==
  /\ cur # None /\ cur.kind = "create" => iopc \in {"run", "finish"}
  /\ \A i \in 1 .. Len(work) : work[i].kind = "create" =>
       i = Len(work) /\ stack # << >> /\ Top.pc = "await" /\ task = "pending"
  /\ Creating => work = << >> /\ stack # << >> /\ Top.pc = "await" /\ task = "pending"
  /\ stack # << >> /\ Top.pc = "await" =>
       IF task = "pending"
         THEN Creating \/ (work # << >> /\ work[Len(work)].kind = "create")
         ELSE work = << >> /\ (cur # None => iopc = "finish")

\* Statements are deleted only after their last run, until Lua closes.
RunsValid ==
  ~closing =>
    /\ cur # None /\ cur.kind = "stmt" => cur.text \in cache
    /\ thread # "joined" =>
         \A i \in 1 .. Len(work) : work[i].kind = "stmt" => work[i].text \in cache

Faults == FreedOnlyByReentry /\ StatementsOutliveTheirJobs

IInv ==
  /\ TypeOK
  /\ FrameShape
  /\ Nested
  /\ FramesOwn
  /\ Worker
  /\ Deleted
  /\ Disconnecting
  /\ PrepareLast
  /\ RunsValid
  /\ Faults

-----------------------------------------------------------------------------
(* The call stack.                                                         *)

\* A call adds a frame on top.
LEMMA EnterFacts ==
  ASSUME NEW f \in Frames, stack \in Seq(Frames), Enter(f)
  PROVE  /\ stack' \in Seq(Frames)
         /\ Len(stack') = Len(stack) + 1
         /\ \A i \in Depth : stack'[i] = stack[i]
         /\ stack'[Len(stack')] = f
         /\ Len(stack) \in Nat
         /\ stack' # << >>
BY DEF Enter, Depth

\* A return takes the top frame away.
LEMMA ReturnFacts ==
  ASSUME stack \in Seq(Frames), stack # << >>, Return
  PROVE  /\ stack' \in Seq(Frames)
         /\ Len(stack') = Len(stack) - 1
         /\ \A i \in 1 .. Len(stack) - 1 : stack'[i] = stack[i]
         /\ Len(stack) \in Nat \ {0}
<1>1. Len(stack) \in Nat \ {0}
  BY EmptySeq
<1> DEFINE n == Len(stack) - 1
<1>2. n \in Int /\ 1 \in Int /\ \A i \in 1 .. n : stack[i] \in Frames
  BY <1>1
<1>3. /\ SubSeq(stack, 1, n) \in Seq(Frames)
      /\ Len(SubSeq(stack, 1, n)) = IF 1 <= n THEN n - 1 + 1 ELSE 0
      /\ \A i \in 1 .. n - 1 + 1 : SubSeq(stack, 1, n)[i] = stack[1 + i - 1]
  <2> HIDE DEF n
  <2> QED
    BY <1>2, SubSeqProperties
<1>4. stack' = SubSeq(stack, 1, n)
  BY DEF Return
<1>5. (IF 1 <= n THEN n - 1 + 1 ELSE 0) = n /\ n - 1 + 1 = n /\ \A i \in 1 .. n : 1 + i - 1 = i
  <2>1. n \in Nat
    BY <1>1
  <2> HIDE DEF n
  <2> QED
    BY <2>1
<1> QED
  BY <1>1, <1>3, <1>4, <1>5

\* The top frame moves on.
LEMMA GotoFacts ==
  ASSUME NEW pc, NEW batch \in Seq(Jobs), stack \in Seq(Frames), stack # << >>,
         pc \in {"init", "connectcb", "release", "spin", "dispatch", "callback", "await"},
         Goto(pc, batch)
  PROVE  /\ stack' \in Seq(Frames)
         /\ Len(stack') = Len(stack)
         /\ \A i \in 1 .. Len(stack) - 1 : stack'[i] = stack[i]
         /\ stack'[Len(stack)] = Frame(Top.fn, pc, batch, Top.text)
         /\ Len(stack) \in Nat \ {0}
         /\ stack' # << >>
<1>1. Len(stack) \in Nat \ {0}
  BY EmptySeq
<1>2. Top \in Frames
  BY <1>1 DEF Top
<1>3. Frame(Top.fn, pc, batch, Top.text) \in Frames
  BY <1>2 DEF Frame, Frames
<1> QED
  BY <1>1, <1>3 DEF Goto

LEMMA TopType ==
  ASSUME stack \in Seq(Frames), stack # << >>
  PROVE  /\ Len(stack) \in Nat \ {0}
         /\ Len(stack) \in Depth
         /\ Top \in Frames
         /\ Top.batch \in Seq(Jobs)
<1>1. Len(stack) \in Nat \ {0}
  BY EmptySeq
<1>2. Top \in Frames
  BY <1>1 DEF Top
<1>3. Top.batch \in Seq(Jobs)
  BY <1>2 DEF Frames
<1> QED
  BY <1>1, <1>2, <1>3 DEF Depth

-----------------------------------------------------------------------------
(* The io thread.                                                          *)

\* A handler moves on: the query ran, lost the server, reconnected, or threw.
IoMove ==
  \/ IoRun \/ IoServerLost \/ IoReconnect \/ IoReconnectFails
  \/ IoReprepareThrows \/ IoStatementGone

LEMMA IoMoveIInv ==
  ASSUME IInv, IoMove
  PROVE  IInv'
<1> USE DEF IInv
<1>1. /\ UNCHANGED <<luaVars, alloc, connected, inGC, connectCB, cache, completed,
                     ioCtxVars, cur, task, histVars>>
      /\ cur # None /\ iopc \in {"run", "reconnect"}
      /\ iopc' \in {"run", "reconnect", "push"}
      /\ pendingCB' \in BOOLEAN
      /\ retried' \in BOOLEAN
      /\ cur.kind # "create" \/ iopc' = iopc
  <2>1. CASE IoRun
    BY <2>1 DEF IoRun, TypeOK, Running, connVars
  <2>2. CASE IoServerLost
    BY <2>2 DEF IoServerLost, TypeOK, Running, connVars
  <2>3. CASE IoReconnect
    BY <2>3 DEF IoReconnect, TypeOK, Running, PrepareLast
  <2>4. CASE IoReconnectFails
    BY <2>4 DEF IoReconnectFails, TypeOK, Running, connVars, PrepareLast
  <2>5. CASE IoReprepareThrows
    BY <2>5 DEF IoReprepareThrows, TypeOK, Running, connVars, CatchException
  <2>6. CASE IoStatementGone
    BY <2>6 DEF IoStatementGone, TypeOK, connVars, runVars
  <2> QED
    BY <2>1, <2>2, <2>3, <2>4, <2>5, <2>6 DEF IoMove
<1>2. fault' \in {fault, "terminate", "stmt_freed"}
  BY DEF IoMove, IoRun, IoServerLost, IoReconnect, IoReconnectFails, IoReprepareThrows,
         IoStatementGone
<1>7. TypeOK'
  BY <1>1, <1>2 DEF TypeOK, luaVars, ioCtxVars, histVars
<1>3. (FrameShape /\ Nested /\ FramesOwn /\ Worker /\ Deleted /\ Disconnecting)'
  BY <1>1 DEF FrameShape, Nested, FramesOwn, Worker, Deleted, Disconnecting,
              luaVars, ioCtxVars, histVars, Depth
<1>4. PrepareLast'
  BY <1>1 DEF PrepareLast, Creating, Top, luaVars, ioCtxVars
<1>5. RunsValid'
  BY <1>1 DEF RunsValid, luaVars, ioCtxVars
<1>6. Faults'
  <2>1. fault' = "stmt_freed" => closing
    BY DEF IoMove, IoRun, IoServerLost, IoReconnect, IoReconnectFails, IoReprepareThrows,
           IoStatementGone, RunsValid, Faults, StatementsOutliveTheirJobs
  <2>2. fault' = "db_freed" => reentered
    BY DEF IoMove, IoRun, IoServerLost, IoReconnect, IoReconnectFails, IoReprepareThrows,
           IoStatementGone, Faults, FreedOnlyByReentry
  <2> QED
    BY <1>1, <2>1, <2>2 DEF Faults, FreedOnlyByReentry, StatementsOutliveTheirJobs,
                            luaVars, histVars
<1> QED
  BY <1>3, <1>4, <1>5, <1>6, <1>7

LEMMA IoTakeIInv ==
  ASSUME IInv, IoTake
  PROVE  IInv'
<1> USE DEF IInv
<1>0. cur' \in Jobs /\ work' \in Seq(Jobs)
  BY HeadTailProperties, EmptySeq DEF IoTake, TypeOK
<1>1. /\ Len(work) \in Nat \ {0} /\ Len(work') = Len(work) - 1
      /\ cur' = work[1]
      /\ \A i \in 1 .. Len(work') : work'[i] = work[i + 1]
  BY HeadTailProperties, EmptySeq DEF IoTake, TypeOK
<1>2. /\ UNCHANGED <<luaVars, alloc, connVars, cache, completed, guard, stopped,
                     thread, task, fault, histVars>>
      /\ cur = None /\ thread = "running" /\ ~stopped
      /\ iopc' = "run"
  BY DEF IoTake
<1>3. TypeOK'
  BY <1>0, <1>2 DEF IoTake, TypeOK, luaVars, connVars, histVars
<1>4. (FrameShape /\ Nested /\ FramesOwn /\ Worker /\ Deleted /\ Disconnecting)'
  BY <1>2 DEF FrameShape, Nested, FramesOwn, Worker, Deleted, Disconnecting, Depth,
              luaVars, connVars, histVars
<1>5. PrepareLast'
  <2>1. cur'.kind = "create" => work' = << >>
    <3>1. cur'.kind = "create" => Len(work') = 0
      BY <1>1 DEF PrepareLast
    <3> QED
      BY <1>0, <3>1, EmptySeq
  <2>2. cur'.kind = "create" => stack # << >> /\ Top.pc = "await" /\ task = "pending"
    BY <1>1 DEF PrepareLast
  <2>3. \A i \in 1 .. Len(work') : work'[i].kind = "create" =>
          i = Len(work') /\ stack # << >> /\ Top.pc = "await" /\ task = "pending"
    BY <1>1 DEF PrepareLast
  <2>4. ASSUME stack # << >>, Top.pc = "await"
        PROVE  /\ task = "pending"
               /\ cur'.kind = "create" \/ work' # << >>
               /\ work' # << >> => work'[Len(work')].kind = "create"
    <3>1. work # << >>
      BY DEF IoTake
    <3>2. task = "pending" /\ work[Len(work)].kind = "create"
      BY <1>2, <2>4, <3>1 DEF PrepareLast, Creating
    <3>3. work' = << >> => Len(work) = 1
      BY <1>1
    <3>4. work' # << >> => Len(work') \in 1 .. Len(work') /\ Len(work') + 1 = Len(work)
      BY <1>1, EmptySeq
    <3> QED
      BY <1>1, <3>2, <3>3, <3>4
  <2>5. stack' = stack /\ task' = task /\ Top' = Top /\ cur' # None
    <3>1. cur' # None
      BY <1>0, NoJobAssumption
    <3> QED
      BY <1>2, <3>1 DEF Top, luaVars
  <2> QED
    BY <1>2, <2>1, <2>2, <2>3, <2>4, <2>5 DEF PrepareLast, Creating
<1>6. RunsValid'
  BY <1>1, <1>2 DEF RunsValid, luaVars
<1> QED
  BY <1>2, <1>3, <1>4, <1>5, <1>6
  DEF Faults, FreedOnlyByReentry, StatementsOutliveTheirJobs, luaVars, histVars

LEMMA IoFinishIInv ==
  ASSUME IInv, IoFinish
  PROVE  IInv'
<1> USE DEF IInv, IoFinish, OutOfWork, luaVars, connVars, histVars
<1>1. TypeOK'
  BY DEF TypeOK
<1>2. (FrameShape /\ Nested /\ FramesOwn /\ Worker /\ Deleted /\ Disconnecting)'
  BY DEF FrameShape, Nested, FramesOwn, Worker, Deleted, Disconnecting, Depth
<1>3. PrepareLast'
  BY DEF PrepareLast, Creating, Top
<1>4. RunsValid'
  BY DEF RunsValid
<1> QED
  BY <1>1, <1>2, <1>3, <1>4 DEF Faults, FreedOnlyByReentry, StatementsOutliveTheirJobs

LEMMA IoExitIInv ==
  ASSUME IInv, IoExit
  PROVE  IInv'
<1> USE DEF IInv, IoExit, luaVars, connVars, runVars, histVars
<1>1. TypeOK'
  BY DEF TypeOK
<1>2. (FrameShape /\ Nested /\ FramesOwn /\ Worker /\ Deleted /\ Disconnecting)'
  BY DEF FrameShape, Nested, FramesOwn, Worker, Deleted, Disconnecting, Depth
<1>3. PrepareLast'
  BY DEF PrepareLast, Creating, Top
<1>4. RunsValid'
  BY DEF RunsValid
<1> QED
  BY <1>1, <1>2, <1>3, <1>4 DEF Faults, FreedOnlyByReentry, StatementsOutliveTheirJobs

\* A push happens only while the io_context runs, so never after the last
\* dispatch of Disconnect.
LEMMA IoPushIInv ==
  ASSUME IInv, IoPush
  PROVE  IInv'
<1> USE DEF IInv, IoPush, PushCompleted, luaVars, connVars, ioCtxVars, histVars
<1>1. TypeOK'
  BY DEF TypeOK
<1>2. (FrameShape /\ Nested /\ FramesOwn)'
  BY DEF FrameShape, Nested, FramesOwn, Depth
<1>3. (Worker /\ Deleted /\ Disconnecting)'
  BY DEF Worker, Deleted, Disconnecting, Depth
<1>4. PrepareLast'
  BY DEF PrepareLast, Creating, Top
<1>5. RunsValid'
  BY DEF RunsValid
<1> QED
  BY <1>1, <1>2, <1>3, <1>4, <1>5
  DEF Faults, FreedOnlyByReentry, StatementsOutliveTheirJobs

LEMMA IoCreateIInv ==
  ASSUME IInv, NEW result \in {"ok", "err"}, IoCreate(result)
  PROVE  IInv'
<1> USE DEF IInv, IoCreate, CompleteTask, Running, luaVars, connVars, ioCtxVars, histVars
<1>1. TypeOK'
  BY DEF TypeOK
<1>2. (FrameShape /\ Nested /\ FramesOwn /\ Worker /\ Deleted /\ Disconnecting)'
  BY DEF FrameShape, Nested, FramesOwn, Worker, Deleted, Disconnecting, Depth
<1>3. PrepareLast'
  BY EmptySeq DEF PrepareLast, Creating, Top
<1>4. RunsValid'
  BY DEF RunsValid
<1> QED
  BY <1>1, <1>2, <1>3, <1>4 DEF Faults, FreedOnlyByReentry, StatementsOutliveTheirJobs

LEMMA IoStepIInv ==
  ASSUME IInv, IoStep
  PROVE  IInv'
BY IoMoveIInv, IoTakeIInv, IoFinishIInv, IoExitIInv, IoPushIInv, IoCreateIInv
DEF IoStep, IoMove

-----------------------------------------------------------------------------
(* Steps of the Lua thread that leave the stack alone.                     *)

LEMMA lua_ConnectIInv ==
  ASSUME IInv, lua_Connect
  PROVE  IInv'
<1> USE DEF IInv, lua_Connect, Initialize, Usable, luaVars, runVars, histVars
<1>1. TypeOK'
  BY DEF TypeOK
<1>2. alloc /\ thread = "none" /\ cur = None
  BY DEF Deleted, Worker, TypeOK
<1>3. (FrameShape /\ Nested)'
  BY DEF FrameShape, Nested, Depth
<1>4. FramesOwn'
  <2>1. \A i \in Depth : stack[i].pc # "init"
    BY DEF FramesOwn
  <2>2. \A i \in Depth : stack[i].pc # "release"
    <3>1. stack # << >> => Top.pc \in {"callback", "connectcb"}
      BY DEF Script, InCallback
    <3>2. \A i \in Depth : i = Len(stack) \/ i \in 1 .. Len(stack) - 1
      BY DEF Depth, TypeOK
    <3>3. Depth # {} => stack # << >>
      BY DEF Depth
    <3> QED
      BY <3>1, <3>2, <3>3 DEF Nested, Top
  <2> QED
    BY <2>1, <2>2 DEF FramesOwn, Depth
<1>5. (Worker /\ Deleted /\ Disconnecting)'
  BY <1>2 DEF Worker, Deleted, Disconnecting, Depth
<1>6. (PrepareLast /\ RunsValid)'
  BY <1>2 DEF PrepareLast, RunsValid, Creating, Top
<1> QED
  BY <1>1, <1>3, <1>4, <1>5, <1>6
  DEF Faults, FreedOnlyByReentry, StatementsOutliveTheirJobs

\* Query and Run append a job that is no creation; Prepare is not waiting,
\* since a script is running.
LEMMA QueueIInv ==
  ASSUME IInv, NEW job \in Jobs, Post(job), job.kind # "create",
         job.kind = "stmt" => job.text \in cache,
         stack # << >> => InCallback,
         issued' \in Nat, late' \subseteq Nat,
         UNCHANGED <<luaVars, alloc, connVars, cache, completed, guard, stopped,
                     thread, runVars, fault, called, dropped, reentered>>
  PROVE  IInv'
<1> USE DEF IInv, luaVars, connVars, runVars
<1>1. /\ work' \in Seq(Jobs) /\ Len(work) \in Nat /\ Len(work') = Len(work) + 1
      /\ \A i \in 1 .. Len(work) : work'[i] = work[i]
      /\ work'[Len(work) + 1] = job
  BY DEF Post, TypeOK
<1>2. TypeOK'
  BY <1>1 DEF TypeOK
<1>3. (FrameShape /\ Nested /\ FramesOwn /\ Worker /\ Deleted /\ Disconnecting)'
  BY DEF FrameShape, Nested, FramesOwn, Worker, Deleted, Disconnecting, Depth
<1>4. PrepareLast'
  <2>1. ~Creating /\ \A i \in 1 .. Len(work) : work[i].kind # "create"
    BY DEF PrepareLast, InCallback
  <2>2. \A i \in 1 .. Len(work') : work'[i].kind # "create"
    BY <1>1, <2>1
  <2>3. ~Creating' /\ (stack' # << >> => Top'.pc # "await")
    BY <2>1 DEF Creating, InCallback, Top
  <2> QED
    BY <2>2, <2>3 DEF PrepareLast
<1>5. RunsValid'
  BY <1>1 DEF RunsValid
<1> QED
  BY <1>2, <1>3, <1>4, <1>5 DEF Faults, FreedOnlyByReentry, StatementsOutliveTheirJobs

LEMMA lua_QueryIInv ==
  ASSUME IInv, NEW cb \in BOOLEAN, lua_Query(cb)
  PROVE  IInv'
<1>1. [kind |-> "query", id |-> NextId, text |-> None, cb |-> cb] \in Jobs
  BY DEF Jobs, NextId, IInv, TypeOK
<1>2. issued' \in Nat /\ late' \subseteq Nat
  BY DEF lua_Query, Accept, NextId, IInv, TypeOK
<1> QED
  BY <1>1, <1>2, QueueIInv DEF lua_Query, Script

LEMMA lua_RunIInv ==
  ASSUME IInv, NEW t \in Texts, NEW cb \in BOOLEAN, lua_Run(t, cb)
  PROVE  IInv'
<1>1. [kind |-> "stmt", id |-> NextId, text |-> t, cb |-> cb] \in Jobs
  BY DEF Jobs, NextId, IInv, TypeOK
<1>2. issued' \in Nat /\ late' \subseteq Nat
  BY DEF lua_Run, Accept, NextId, IInv, TypeOK
<1> QED
  BY <1>1, <1>2, QueueIInv DEF lua_Run, Script

\* Closing Lua takes the statements away, and nothing else.
LEMMA CloseIInv ==
  ASSUME IInv, Close \/ \E t \in Texts : PStatement_gc(t)
  PROVE  IInv'
<1> USE DEF IInv
<1>1. /\ UNCHANGED <<stack, handle, alloc, connVars, completed, ioCtxVars, runVars,
                     histVars>>
      /\ closing' = TRUE
      /\ cache' \subseteq cache
      /\ fault = "none" /\ fault' \in {"none", "stmt_freed"}
  BY DEF Close, PStatement_gc, luaVars, TypeOK
<1>2. TypeOK'
  BY <1>1 DEF TypeOK, connVars, ioCtxVars, runVars, histVars
<1>3. (FrameShape /\ Nested /\ FramesOwn /\ Worker /\ Deleted /\ Disconnecting)'
  BY <1>1 DEF FrameShape, Nested, FramesOwn, Worker, Deleted, Disconnecting, Depth,
              connVars, ioCtxVars, runVars, histVars
<1>4. PrepareLast'
  BY <1>1 DEF PrepareLast, Creating, Top, ioCtxVars, runVars
<1>5. (RunsValid /\ Faults)'
  BY <1>1 DEF RunsValid, Faults, FreedOnlyByReentry, StatementsOutliveTheirJobs
<1> QED
  BY <1>2, <1>3, <1>4, <1>5

\* A frame meets the deleted object: a callback below it disconnected.
LEMMA FreedIInv ==
  ASSUME IInv, DispatchFreed \/ ReleaseFaults \/ (ConnectCallbackReturns /\ ~alloc)
  PROVE  IInv'
<1> USE DEF IInv
<1>1. /\ UNCHANGED <<luaVars, alloc, connVars, cache, completed, ioCtxVars, runVars,
                     histVars>>
      /\ stack # << >>
      /\ fault' = "no_thread" \/ (fault' = "db_freed" /\ ~alloc)
  BY DEF DispatchFreed, ReleaseFaults, Releasing, ConnectCallbackReturns, At, luaVars
<1>2. TypeOK'
  BY <1>1 DEF TypeOK, luaVars, connVars, ioCtxVars, runVars, histVars
<1>3. (FrameShape /\ Nested /\ FramesOwn /\ Worker /\ Deleted /\ Disconnecting)'
  BY <1>1 DEF FrameShape, Nested, FramesOwn, Worker, Deleted, Disconnecting, Depth,
              luaVars, connVars, ioCtxVars, runVars, histVars
<1>4. (PrepareLast /\ RunsValid)'
  BY <1>1 DEF PrepareLast, RunsValid, Creating, Top, luaVars, ioCtxVars, runVars
<1>5. Faults'
  BY <1>1 DEF Deleted, Faults, FreedOnlyByReentry, StatementsOutliveTheirJobs,
              luaVars, histVars
<1> QED
  BY <1>2, <1>3, <1>4, <1>5

LEMMA StutterIInv ==
  ASSUME IInv, UNCHANGED vars
  PROVE  IInv'
BY DEF IInv, vars, luaVars, connVars, ioCtxVars, runVars, histVars, TypeOK, FrameShape,
       Nested, FramesOwn, Worker, Deleted, Disconnecting, PrepareLast, Creating, Top,
       RunsValid, Faults, FreedOnlyByReentry, StatementsOutliveTheirJobs, Depth

-----------------------------------------------------------------------------
(* Steps of the Lua thread that move the stack.                            *)

\* While a script runs, every frame is inside a callback.
LEMMA ScriptRuns ==
  ASSUME IInv, stack # << >> => InCallback
  PROVE  \A i \in Depth : stack[i].pc \in {"callback", "connectcb"}
<1>1. \A i \in Depth : i = Len(stack) \/ i \in 1 .. Len(stack) - 1
  BY DEF Depth, IInv, TypeOK
<1>2. Depth # {} => stack # << >>
  BY DEF Depth
<1> QED
  BY <1>1, <1>2 DEF IInv, Nested, InCallback, Top

\* A call from a script keeps the shape of the stack.
LEMMA EnterShape ==
  ASSUME IInv, NEW f \in Frames, Enter(f), ShapeOf(f), stack # << >> => InCallback
  PROVE  /\ stack' \in Seq(Frames)
         /\ FrameShape'
         /\ Nested'
         /\ Depth' = Depth \cup {Len(stack) + 1}
         /\ \A i \in Depth : stack'[i] = stack[i] /\ stack'[i].pc \in {"callback", "connectcb"}
         /\ stack'[Len(stack) + 1] = f
         /\ stack' # << >> /\ Top' = f
<1>1. stack \in Seq(Frames)
  BY DEF IInv, TypeOK
<1>2. /\ stack' \in Seq(Frames)
      /\ Len(stack') = Len(stack) + 1
      /\ \A i \in Depth : stack'[i] = stack[i]
      /\ stack'[Len(stack')] = f
      /\ Len(stack) \in Nat
      /\ stack' # << >>
  BY <1>1, EnterFacts
<1>3. \A i \in Depth : stack'[i].pc \in {"callback", "connectcb"}
  BY <1>2, ScriptRuns
<1>4. Depth' = Depth \cup {Len(stack) + 1}
  BY <1>2 DEF Depth
<1>5. FrameShape'
  BY <1>2, <1>4 DEF IInv, FrameShape
<1>6. Nested'
  BY <1>2, <1>3 DEF Nested, Depth
<1> QED
  BY <1>2, <1>3, <1>4, <1>5, <1>6 DEF Top

LEMMA lua_ConnectFailsIInv ==
  ASSUME IInv, lua_ConnectFails
  PROVE  IInv'
<1> DEFINE f == Frame("Connect", "release", << >>, None)
<1> USE DEF IInv
<1>1. f \in Frames /\ ShapeOf(f) /\ f.pc = "release" /\ f.fn = "Connect"
  BY EmptySeq DEF Frame, Frames, ShapeOf
<1>2. /\ Enter(f) /\ (stack # << >> => InCallback)
      /\ UNCHANGED <<handle, closing, alloc, connVars, cache, completed, ioCtxVars,
                     runVars, fault, histVars>>
  BY DEF lua_ConnectFails, Script
<1>3. alloc /\ ~connected
  BY DEF lua_ConnectFails, Usable, Deleted
<1> HIDE DEF f
<1>4. /\ stack' \in Seq(Frames) /\ FrameShape' /\ Nested'
      /\ Depth' = Depth \cup {Len(stack) + 1}
      /\ \A i \in Depth : stack'[i] = stack[i] /\ stack'[i].pc \in {"callback", "connectcb"}
      /\ stack'[Len(stack) + 1] = f
      /\ stack' # << >> /\ Top' = f
  BY <1>1, <1>2, EnterShape
<1>5. TypeOK'
  BY <1>2, <1>4 DEF TypeOK, connVars, ioCtxVars, runVars, histVars
<1>6. FramesOwn'
  BY <1>1, <1>2, <1>3, <1>4 DEF FramesOwn, connVars
<1>7. (Worker /\ Deleted)'
  BY <1>2, <1>3 DEF Worker, Deleted, connVars, ioCtxVars, runVars
<1>8. Disconnecting'
  BY <1>1, <1>2, <1>4 DEF Disconnecting, connVars, ioCtxVars, histVars
<1>9. (PrepareLast /\ RunsValid)'
  BY <1>1, <1>2, <1>4 DEF PrepareLast, RunsValid, Creating, InCallback, ioCtxVars, runVars
<1> QED
  BY <1>2, <1>4, <1>5, <1>6, <1>7, <1>8, <1>9
  DEF Faults, FreedOnlyByReentry, StatementsOutliveTheirJobs, histVars

LEMMA lua_PrepareIInv ==
  ASSUME IInv, NEW t \in Texts, lua_Prepare(t)
  PROVE  IInv'
<1> DEFINE f == Frame("Prepare", "await", << >>, t)
           job == [kind |-> "create", id |-> 0, text |-> t, cb |-> FALSE]
<1> USE DEF IInv
<1>1. f \in Frames /\ ShapeOf(f) /\ f.pc = "await" /\ f.fn = "Prepare" /\ f.text = t
  BY EmptySeq DEF Frame, Frames, ShapeOf
<1>2. /\ Enter(f) /\ (stack # << >> => InCallback)
      /\ task' = "pending"
      /\ UNCHANGED <<handle, closing, alloc, connVars, cache, completed, guard, stopped,
                     thread, cur, iopc, retried, fault, histVars>>
  BY DEF lua_Prepare, Script
<1>3. alloc /\ connected
  BY DEF lua_Prepare, UsableConnected, Deleted
<1>10. /\ work' \in Seq(Jobs) /\ Len(work) \in Nat /\ Len(work') = Len(work) + 1
       /\ \A i \in 1 .. Len(work) : work'[i] = work[i]
       /\ work'[Len(work) + 1].kind = "create"
       /\ work' # << >>
  <2>1. job \in Jobs /\ job.kind = "create"
    BY DEF Jobs
  <2>2. work' = Append(work, job) /\ work \in Seq(Jobs)
    BY DEF lua_Prepare, Post, TypeOK
  <2> HIDE DEF job
  <2> QED
    BY <2>1, <2>2
<1> HIDE DEF f
<1>4. /\ stack' \in Seq(Frames) /\ FrameShape' /\ Nested'
      /\ Depth' = Depth \cup {Len(stack) + 1}
      /\ \A i \in Depth : stack'[i] = stack[i] /\ stack'[i].pc \in {"callback", "connectcb"}
      /\ stack'[Len(stack) + 1] = f
      /\ stack' # << >> /\ Top' = f
  BY <1>1, <1>2, EnterShape
<1>5. TypeOK'
  BY <1>2, <1>4, <1>10 DEF TypeOK, connVars, histVars
<1>6. FramesOwn'
  BY <1>1, <1>2, <1>3, <1>4 DEF FramesOwn, connVars
<1>7. (Worker /\ Deleted)'
  BY <1>2, <1>3 DEF Worker, Deleted, connVars
<1>8. Disconnecting'
  BY <1>1, <1>2, <1>4 DEF Disconnecting, connVars, histVars
<1>9. PrepareLast'
  <2>1. ~Creating /\ \A i \in 1 .. Len(work) : work[i].kind # "create"
    BY <1>2 DEF PrepareLast, InCallback
  <2> QED
    BY <1>1, <1>2, <1>4, <1>10, <2>1 DEF PrepareLast, Creating
<1>11. RunsValid'
  BY <1>2, <1>10 DEF RunsValid
<1> QED
  BY <1>2, <1>4, <1>5, <1>6, <1>7, <1>8, <1>9, <1>11
  DEF Faults, FreedOnlyByReentry, StatementsOutliveTheirJobs, histVars

\* Poll enters the connect callback or its dispatch loop.
LEMMA lua_PollIInv ==
  ASSUME IInv, lua_Poll
  PROVE  IInv'
<1> USE DEF IInv
<1>1. PICK f \in Frames :
        /\ ShapeOf(f) /\ f.pc \in {"connectcb", "dispatch"} /\ f.fn = "Poll"
        /\ Enter(f)
  <2>1. ASSUME NEW pc \in {"connectcb", "dispatch"}, NEW batch \in Seq(Jobs)
        PROVE  /\ Frame("Poll", pc, batch, None) \in Frames
               /\ ShapeOf(Frame("Poll", pc, batch, None))
               /\ Frame("Poll", pc, batch, None).pc = pc
               /\ Frame("Poll", pc, batch, None).fn = "Poll"
    BY DEF Frame, Frames, ShapeOf
  <2>2. << >> \in Seq(Jobs) /\ completed \in Seq(Jobs)
    BY EmptySeq DEF TypeOK
  <2>3. \/ Enter(Frame("Poll", "connectcb", << >>, None))
        \/ Enter(Frame("Poll", "dispatch", completed, None))
    BY DEF lua_Poll
  <2> QED
    BY <2>1, <2>2, <2>3
<1>0. (stack # << >> => InCallback /\ reentered') /\ (reentered => reentered')
  BY DEF lua_Poll, Script
<1>2. /\ (stack # << >> => InCallback)
      /\ pendingCB' \in BOOLEAN /\ reentered' \in BOOLEAN
      /\ completed' \in {completed, << >>}
      /\ connectCB' \in {connectCB, "zero"}
      /\ UNCHANGED <<handle, closing, alloc, connected, inGC, cache, ioCtxVars, runVars,
                     fault, issued, called, dropped, late>>
  BY DEF lua_Poll, Script, PopAll, TypeOK
<1>3. alloc
  BY DEF lua_Poll, Usable, Deleted
<1>4. /\ stack' \in Seq(Frames) /\ FrameShape' /\ Nested'
      /\ Depth' = Depth \cup {Len(stack) + 1}
      /\ \A i \in Depth : stack'[i] = stack[i] /\ stack'[i].pc \in {"callback", "connectcb"}
      /\ stack'[Len(stack) + 1] = f
      /\ stack' # << >> /\ Top' = f
  BY <1>1, <1>2, EnterShape
<1>5. TypeOK'
  <2>1. completed' \in Seq(Jobs)
    BY <1>2, EmptySeq DEF TypeOK
  <2> QED
    BY <1>2, <1>4, <2>1 DEF TypeOK, ioCtxVars, runVars
<1>6. FramesOwn'
  BY <1>1, <1>2, <1>3, <1>4 DEF FramesOwn
<1>7. (Worker /\ Deleted)'
  BY <1>2, <1>3 DEF Worker, Deleted, ioCtxVars, runVars
<1>8. Disconnecting'
  <2>1. stack = << >> => Len(stack) + 1 = 1
    OBVIOUS
  <2> QED
    BY <1>0, <1>1, <1>2, <1>4, <2>1 DEF Disconnecting, ioCtxVars
<1>9. (PrepareLast /\ RunsValid)'
  BY <1>1, <1>2, <1>4 DEF PrepareLast, RunsValid, Creating, InCallback, ioCtxVars, runVars
<1> QED
  BY <1>0, <1>2, <1>4, <1>5, <1>6, <1>7, <1>8, <1>9
  DEF Faults, FreedOnlyByReentry, StatementsOutliveTheirJobs

\* Disconnect starts, from a script or from the finaliser.
LEMMA DisconnectIInv ==
  ASSUME IInv, lua_Disconnect \/ Database_gc
  PROVE  IInv'
<1> DEFINE f == Frame("Disconnect", "spin", << >>, None)
<1> USE DEF IInv
<1>1. f \in Frames /\ ShapeOf(f) /\ f.pc = "spin" /\ f.fn = "Disconnect"
  BY EmptySeq DEF Frame, Frames, ShapeOf
<1>0. /\ (stack # << >> => InCallback /\ reentered') /\ (reentered => reentered')
      /\ ResetGuard
  <2>1. CASE lua_Disconnect
    BY <2>1 DEF lua_Disconnect, Disconnect, Script
  <2>2. CASE Database_gc
    BY <2>2 DEF Database_gc, Disconnect, histVars
  <2> QED
    BY <2>1, <2>2
<1>2. /\ Enter(f) /\ (stack # << >> => InCallback)
      /\ inGC' \in BOOLEAN /\ reentered' \in BOOLEAN
      /\ UNCHANGED <<handle, closing, alloc, connected, pendingCB, connectCB, cache,
                     completed, thread, work, runVars, fault, issued, called, dropped, late>>
  <2>1. CASE lua_Disconnect
    BY <2>1 DEF lua_Disconnect, Disconnect, KeepStatements, Script, TypeOK, connVars
  <2>2. CASE Database_gc
    BY <2>2 DEF Database_gc, Disconnect, TypeOK, histVars
  <2> QED
    BY <2>1, <2>2
<1>3. alloc
  BY DEF lua_Disconnect, Database_gc, Usable, UsableConnected, Deleted
<1> HIDE DEF f
<1>4. /\ stack' \in Seq(Frames) /\ FrameShape' /\ Nested'
      /\ Depth' = Depth \cup {Len(stack) + 1}
      /\ \A i \in Depth : stack'[i] = stack[i] /\ stack'[i].pc \in {"callback", "connectcb"}
      /\ stack'[Len(stack) + 1] = f
      /\ stack' # << >> /\ Top' = f
  BY <1>1, <1>2, EnterShape
<1>5. guard' \in BOOLEAN /\ stopped' \in BOOLEAN
  BY <1>0 DEF ResetGuard, TypeOK
<1>6. ~guard' /\ (stopped => stopped') /\ (stopped' => cur = None)
  BY <1>0 DEF ResetGuard, Worker, TypeOK
<1>7. TypeOK'
  BY <1>2, <1>4, <1>5 DEF TypeOK, runVars
<1>8. FramesOwn'
  BY <1>1, <1>2, <1>3, <1>4 DEF FramesOwn
<1>9. (Worker /\ Deleted)'
  BY <1>2, <1>3, <1>6 DEF Worker, Deleted, runVars
<1>10. Disconnecting'
  <2>1. stack = << >> => Len(stack) + 1 = 1
    OBVIOUS
  <2> QED
    BY <1>0, <1>1, <1>2, <1>4, <1>6, <2>1 DEF Disconnecting
<1>11. (PrepareLast /\ RunsValid)'
  BY <1>1, <1>2, <1>4 DEF PrepareLast, RunsValid, Creating, InCallback, runVars
<1> QED
  BY <1>0, <1>2, <1>4, <1>7, <1>8, <1>9, <1>10, <1>11
  DEF Faults, FreedOnlyByReentry, StatementsOutliveTheirJobs

\* The top frame moves on and keeps the shape of the stack.
LEMMA GotoShape ==
  ASSUME IInv, stack # << >>, NEW pc, NEW batch \in Seq(Jobs),
         pc \in {"connectcb", "dispatch", "callback"},
         Goto(pc, batch), ShapeOf(Frame(Top.fn, pc, batch, Top.text))
  PROVE  /\ stack' \in Seq(Frames)
         /\ FrameShape'
         /\ Nested'
         /\ Depth' = Depth /\ Len(stack) \in Depth
         /\ \A i \in Depth : stack'[i].fn = stack[i].fn
         /\ \A i \in Depth : i # Len(stack) => stack'[i] = stack[i]
         /\ \A i \in Depth : stack'[i].pc \in {"connectcb", "dispatch", "callback"}
         /\ stack' # << >> /\ Top'.pc # "await"
<1> DEFINE f == Frame(Top.fn, pc, batch, Top.text)
<1>1. stack \in Seq(Frames)
  BY DEF IInv, TypeOK
<1>2. /\ stack' \in Seq(Frames)
      /\ Len(stack') = Len(stack)
      /\ \A i \in 1 .. Len(stack) - 1 : stack'[i] = stack[i]
      /\ stack'[Len(stack)] = f
      /\ Len(stack) \in Nat \ {0}
      /\ stack' # << >>
  BY <1>1, GotoFacts
<1>3. f.fn = stack[Len(stack)].fn /\ f.pc = pc
  BY DEF Frame, Top
<1> HIDE DEF f
<1>4. Depth' = Depth /\ Depth = 1 .. Len(stack) - 1 \cup {Len(stack)}
  BY <1>2 DEF Depth
<1>5. ShapeOf(f)
  BY DEF f
<1> QED
  BY <1>2, <1>3, <1>4, <1>5 DEF IInv, FrameShape, Nested, Top

\* Moving on within a dispatch: a callback is entered or left, an action
\* dropped.
Dispatching == TriggerCallback \/ CallbackReturns \/ DropAction

LEMMA DispatchingIInv ==
  ASSUME IInv, Dispatching
  PROVE  IInv'
<1> USE DEF IInv
<1>0. /\ stack # << >> /\ stack \in Seq(Frames)
      /\ Top.pc \in {"dispatch", "callback"} /\ Top.fn \in {"Poll", "Disconnect"}
  BY DEF Dispatching, TriggerCallback, CallbackReturns, DropAction, At, TypeOK
<1>1. /\ Top \in Frames /\ Top.batch \in Seq(Jobs) /\ Top.batch # << >>
      /\ Head(Top.batch) \in Jobs /\ Tail(Top.batch) \in Seq(Jobs)
  <2>1. Top \in Frames /\ Top.batch \in Seq(Jobs) /\ Len(stack) \in Depth
    BY <1>0, TopType
  <2>2. Top.batch # << >>
    BY <2>1 DEF Dispatching, TriggerCallback, CallbackReturns, DropAction, At, FrameShape,
                ShapeOf, Top
  <2> QED
    BY <2>1, <2>2, HeadTailProperties
<1>2. /\ UNCHANGED <<handle, closing, alloc, connVars, cache, completed, ioCtxVars,
                     runVars, fault, issued, reentered, late>>
      /\ called' \in Seq(Nat) /\ dropped' \subseteq Nat
  <2>1. Head(Top.batch).id \in Nat
    BY <1>1 DEF Jobs
  <2>2. called \in Seq(Nat) /\ dropped \subseteq Nat
    BY DEF TypeOK
  <2>3. CASE TriggerCallback
    BY <2>1, <2>2, <2>3 DEF TriggerCallback
  <2>4. CASE CallbackReturns
    BY <2>2, <2>4 DEF CallbackReturns, histVars
  <2>5. CASE DropAction
    BY <2>1, <2>2, <2>5 DEF DropAction
  <2> QED
    BY <2>3, <2>4, <2>5 DEF Dispatching
<1>3. PICK pc \in {"dispatch", "callback"}, batch \in Seq(Jobs) :
        Goto(pc, batch) /\ (pc = "callback" => batch # << >>)
  BY <1>1 DEF Dispatching, TriggerCallback, CallbackReturns, DropAction
<1>4. ShapeOf(Frame(Top.fn, pc, batch, Top.text))
  BY <1>0, <1>3 DEF ShapeOf, Frame
<1>5. /\ stack' \in Seq(Frames) /\ FrameShape' /\ Nested'
      /\ Depth' = Depth /\ Len(stack) \in Depth
      /\ \A i \in Depth : stack'[i].fn = stack[i].fn
      /\ \A i \in Depth : i # Len(stack) => stack'[i] = stack[i]
      /\ \A i \in Depth : stack'[i].pc \in {"connectcb", "dispatch", "callback"}
      /\ stack' # << >> /\ Top'.pc # "await"
  BY <1>0, <1>3, <1>4, GotoShape
<1>6. TypeOK'
  BY <1>2, <1>5 DEF TypeOK, connVars, ioCtxVars, runVars
<1>7. (FramesOwn /\ Worker /\ Deleted)'
  BY <1>0, <1>2, <1>5 DEF FramesOwn, Worker, Deleted, connVars, ioCtxVars, runVars
<1>8. Disconnecting'
  <2>1. stack[Len(stack)].pc # "spin"
    BY <1>0 DEF Top
  <2> QED
    BY <1>2, <1>5, <2>1 DEF Disconnecting, ioCtxVars
<1>9. (PrepareLast /\ RunsValid)'
  <2>1. ~Creating /\ \A i \in 1 .. Len(work) : work[i].kind # "create"
    BY <1>0 DEF PrepareLast
  <2> QED
    BY <1>2, <1>5, <2>1 DEF PrepareLast, RunsValid, Creating, ioCtxVars, runVars
<1> QED
  BY <1>2, <1>5, <1>6, <1>7, <1>8, <1>9
  DEF Faults, FreedOnlyByReentry, StatementsOutliveTheirJobs

\* Disconnect's wait is over: the io_context has stopped, so what is taken
\* now is all there will ever be.
LEMMA DisconnectDrainedIInv ==
  ASSUME IInv, DisconnectDrained
  PROVE  IInv'
<1> USE DEF IInv
<1>0. /\ stack # << >> /\ Top.pc = "spin" /\ Top.fn = "Disconnect"
      /\ Goto("dispatch", completed) /\ completed' = << >> /\ completed \in Seq(Jobs)
      /\ stopped
      /\ UNCHANGED <<handle, closing, alloc, connVars, cache, ioCtxVars, runVars, fault,
                     histVars>>
  BY DEF DisconnectDrained, At, SpinOver, PopAll, TypeOK
<1>1. ShapeOf(Frame(Top.fn, "dispatch", completed, Top.text))
  BY <1>0 DEF ShapeOf, Frame
<1>5. /\ stack' \in Seq(Frames) /\ FrameShape' /\ Nested'
      /\ Depth' = Depth /\ Len(stack) \in Depth
      /\ \A i \in Depth : stack'[i].fn = stack[i].fn
      /\ \A i \in Depth : i # Len(stack) => stack'[i] = stack[i]
      /\ \A i \in Depth : stack'[i].pc \in {"connectcb", "dispatch", "callback"}
      /\ stack' # << >> /\ Top'.pc # "await"
  BY <1>0, <1>1, GotoShape
<1>6. TypeOK'
  <2>1. completed' \in Seq(Jobs)
    BY <1>0, EmptySeq
  <2> QED
    BY <1>0, <1>5, <2>1 DEF TypeOK, connVars, ioCtxVars, runVars, histVars
<1>7. (FramesOwn /\ Worker /\ Deleted)'
  BY <1>0, <1>5 DEF FramesOwn, Worker, Deleted, connVars, ioCtxVars, runVars, histVars
<1>8. Disconnecting'
  BY <1>0, <1>5 DEF Disconnecting, ioCtxVars, histVars
<1>9. (PrepareLast /\ RunsValid)'
  <2>1. ~Creating /\ \A i \in 1 .. Len(work) : work[i].kind # "create"
    BY <1>0 DEF PrepareLast
  <2> QED
    BY <1>0, <1>5, <2>1 DEF PrepareLast, RunsValid, Creating, ioCtxVars, runVars
<1> QED
  BY <1>0, <1>5, <1>6, <1>7, <1>8, <1>9
  DEF Faults, FreedOnlyByReentry, StatementsOutliveTheirJobs, histVars

\* A return leaves frames that are all inside a callback.
LEMMA ReturnShape ==
  ASSUME IInv, stack # << >>, Return
  PROVE  /\ stack' \in Seq(Frames)
         /\ FrameShape'
         /\ Nested'
         /\ Depth' = 1 .. Len(stack) - 1
         /\ Depth = Depth' \cup {Len(stack)}
         /\ \A i \in Depth' : stack'[i] = stack[i] /\ stack'[i].pc \in {"callback", "connectcb"}
         /\ stack' # << >> => Len(stack) # 1 /\ Top'.pc \in {"callback", "connectcb"}
<1>1. stack \in Seq(Frames)
  BY DEF IInv, TypeOK
<1>2. /\ stack' \in Seq(Frames)
      /\ Len(stack') = Len(stack) - 1
      /\ \A i \in 1 .. Len(stack) - 1 : stack'[i] = stack[i]
      /\ Len(stack) \in Nat \ {0}
  BY <1>1, ReturnFacts
<1>3. Depth' = 1 .. Len(stack) - 1 /\ Depth = Depth' \cup {Len(stack)}
  BY <1>2 DEF Depth
<1>4. \A i \in Depth' : stack'[i].pc \in {"callback", "connectcb"}
  BY <1>2, <1>3 DEF IInv, Nested
<1>5. FrameShape' /\ Nested'
  BY <1>2, <1>3, <1>4 DEF IInv, FrameShape, Nested, Depth
<1>6. stack' # << >> => Len(stack') \in Depth' /\ Len(stack) # 1
  BY <1>2, EmptySeq DEF Depth
<1> QED
  BY <1>2, <1>3, <1>4, <1>5, <1>6 DEF Top

\* The waiting Prepare returns; the object is there and the io thread is done.
LEMMA PrepareReturnsIInv ==
  ASSUME IInv, PrepareReturns
  PROVE  IInv'
<1> USE DEF IInv
<1>0. /\ stack # << >> /\ Top.fn = "Prepare" /\ Top.pc = "await" /\ task # "pending"
      /\ Return /\ task' = "idle"
      /\ cache' \in {cache, cache \cup {Top.text}}
      /\ UNCHANGED <<handle, closing, alloc, connVars, completed, ioCtxVars, cur, iopc,
                     retried, fault, histVars>>
  BY DEF PrepareReturns, At
<1>1. Top \in Frames /\ Len(stack) \in Depth /\ stack \in Seq(Frames)
  BY <1>0, TopType DEF TypeOK
<1>2. alloc /\ connected
  BY <1>0, <1>1 DEF FramesOwn, Top
<1>3. work = << >> /\ (cur # None => iopc = "finish") /\ ~Creating
  BY <1>0 DEF PrepareLast, Creating
<1>4. /\ stack' \in Seq(Frames) /\ FrameShape' /\ Nested'
      /\ Depth = Depth' \cup {Len(stack)}
      /\ \A i \in Depth' : stack'[i] = stack[i] /\ stack'[i].pc \in {"callback", "connectcb"}
      /\ stack' # << >> => Top'.pc \in {"callback", "connectcb"}
  BY <1>0, ReturnShape
<1>5. TypeOK'
  <2>1. cache' \subseteq Texts
    <3>1. Top.text \in Texts \cup {None}
      BY <1>1 DEF Frames
    <3>2. Top.text \in Texts
      BY <1>0, <1>1, <3>1 DEF FramesOwn, Top
    <3> QED
      BY <1>0, <3>2 DEF TypeOK
  <2> QED
    BY <1>0, <1>4, <2>1 DEF TypeOK, connVars, ioCtxVars, histVars
<1>6. (FramesOwn /\ Worker /\ Deleted)'
  BY <1>0, <1>2, <1>4 DEF FramesOwn, Worker, Deleted, connVars, ioCtxVars, histVars
<1>7. Disconnecting'
  BY <1>0, <1>2, <1>4 DEF Disconnecting, Top, ioCtxVars, histVars
<1>8. (PrepareLast /\ RunsValid)'
  BY <1>0, <1>3, <1>4, EmptySeq DEF PrepareLast, RunsValid, Creating, ioCtxVars
<1> QED
  BY <1>0, <1>4, <1>5, <1>6, <1>7, <1>8
  DEF Faults, FreedOnlyByReentry, StatementsOutliveTheirJobs, histVars

LEMMA PollReturnsIInv ==
  ASSUME IInv, PollReturns
  PROVE  IInv'
<1> USE DEF IInv
<1>0. /\ stack # << >> /\ Top.fn = "Poll" /\ Top.pc = "dispatch" /\ Return
      /\ UNCHANGED <<handle, closing, alloc, connVars, cache, completed, ioCtxVars,
                     runVars, fault, histVars>>
  BY DEF PollReturns, At
<1>4. /\ stack' \in Seq(Frames) /\ FrameShape' /\ Nested'
      /\ Depth = Depth' \cup {Len(stack)}
      /\ \A i \in Depth' : stack'[i] = stack[i] /\ stack'[i].pc \in {"callback", "connectcb"}
      /\ stack' # << >> => Top'.pc \in {"callback", "connectcb"}
  BY <1>0, ReturnShape
<1>5. TypeOK'
  BY <1>0, <1>4 DEF TypeOK, connVars, ioCtxVars, runVars, histVars
<1>6. (FramesOwn /\ Worker /\ Deleted)'
  BY <1>0, <1>4 DEF FramesOwn, Worker, Deleted, connVars, ioCtxVars, runVars, histVars
<1>7. Disconnecting'
  BY <1>0, <1>4 DEF Disconnecting, Top, ioCtxVars, histVars
<1>8. (PrepareLast /\ RunsValid)'
  <2>1. ~Creating /\ \A i \in 1 .. Len(work) : work[i].kind # "create"
    BY <1>0 DEF PrepareLast
  <2> QED
    BY <1>0, <1>4, <2>1 DEF PrepareLast, RunsValid, Creating, ioCtxVars, runVars
<1> QED
  BY <1>0, <1>4, <1>5, <1>6, <1>7, <1>8
  DEF Faults, FreedOnlyByReentry, StatementsOutliveTheirJobs, histVars

-----------------------------------------------------------------------------
(* Connecting and deleting.                                                *)

\* tmysql.Connect has just created the object: it is the only frame, and
\* there is nothing on the object yet.
LEMMA Connecting ==
  ASSUME IInv, At({"tmysql.Connect"}, "init")
  PROVE  /\ stack # << >> /\ Top.fn = "tmysql.Connect" /\ Top.pc = "init"
         /\ Len(stack) = 1 /\ Depth = {1} /\ handle = "none" /\ alloc /\ thread = "none"
         /\ guard /\ ~stopped /\ cur = None /\ completed = << >> /\ cache = {}
         /\ \A i \in 1 .. Len(work) : work[i].kind # "create"
<1> USE DEF IInv
<1>1. stack # << >> /\ Top.fn = "tmysql.Connect" /\ Top.pc = "init"
  BY DEF At
<1>2. Len(stack) \in Depth
  BY <1>1, TopType DEF TypeOK
<1>3. Len(stack) = 1 /\ handle = "none" /\ alloc /\ thread = "none"
  BY <1>1, <1>2 DEF FramesOwn, Top
<1>4. Depth = {1}
  BY <1>3 DEF Depth
<1>5. guard
  BY <1>1, <1>3, <1>4 DEF Disconnecting, Top
<1>6. \A i \in 1 .. Len(work) : work[i].kind # "create"
  BY <1>1 DEF PrepareLast
<1> QED
  BY <1>1, <1>3, <1>4, <1>5, <1>6 DEF Worker

LEMMA TmysqlConnectIInv ==
  ASSUME IInv, TmysqlConnect
  PROVE  IInv'
<1> USE DEF IInv
<1>0. /\ stack # << >> /\ Top.fn = "tmysql.Connect" /\ Top.pc = "init"
      /\ Len(stack) = 1 /\ Depth = {1} /\ alloc /\ thread = "none"
      /\ guard /\ ~stopped /\ cur = None /\ completed = << >> /\ cache = {}
      /\ \A i \in 1 .. Len(work) : work[i].kind # "create"
  BY Connecting DEF TmysqlConnect
<1>1. /\ thread' = "running" /\ connected' /\ handle' = "live"
      /\ UNCHANGED <<closing, alloc, inGC, cache, completed, guard, stopped, work,
                     runVars, fault, histVars>>
  BY DEF TmysqlConnect, Initialize
<1>2. connected' \in BOOLEAN /\ pendingCB' \in BOOLEAN
      /\ connectCB' \in {"absent", "held", "zero"}
  BY DEF TmysqlConnect, Initialize, TypeOK
<1>3. /\ stack' \in Seq(Frames) /\ FrameShape' /\ Nested'
      /\ \A i \in Depth' : /\ i = 1 /\ stack'[i].fn = "tmysql.Connect"
                           /\ stack'[i].pc \in {"connectcb", "dispatch", "callback"}
      /\ stack' # << >> => Top'.pc # "await"
  <2>1. CASE Goto("connectcb", << >>)
    <3>1. << >> \in Seq(Jobs)
      BY EmptySeq
    <3>2. ShapeOf(Frame(Top.fn, "connectcb", << >>, Top.text))
      BY <1>0 DEF ShapeOf, Frame
    <3>3. /\ stack' \in Seq(Frames) /\ FrameShape' /\ Nested'
          /\ Depth' = Depth
          /\ \A i \in Depth : stack'[i].fn = stack[i].fn
          /\ \A i \in Depth : stack'[i].pc \in {"connectcb", "dispatch", "callback"}
          /\ Top'.pc # "await"
      BY <1>0, <2>1, <3>1, <3>2, GotoShape
    <3> QED
      BY <1>0, <3>3 DEF Top
  <2>2. CASE Return
    <3>1. /\ stack' \in Seq(Frames) /\ FrameShape' /\ Nested'
          /\ Depth' = 1 .. Len(stack) - 1
          /\ stack' # << >> => Len(stack) # 1
      BY <1>0, <2>2, ReturnShape
    <3> QED
      BY <1>0, <3>1
  <2> QED
    BY <2>1, <2>2 DEF TmysqlConnect
<1>4. TypeOK'
  BY <1>1, <1>2, <1>3 DEF TypeOK, runVars, histVars
<1>5. FramesOwn'
  BY <1>3 DEF FramesOwn
<1>6. (Worker /\ Deleted)'
  BY <1>0, <1>1 DEF Worker, Deleted, runVars
<1>7. Disconnecting'
  BY <1>0, <1>1, <1>3 DEF Disconnecting
<1>8. (PrepareLast /\ RunsValid)'
  BY <1>0, <1>1, <1>3 DEF PrepareLast, RunsValid, Creating, runVars
<1> QED
  BY <1>1, <1>3, <1>4, <1>5, <1>6, <1>7, <1>8
  DEF Faults, FreedOnlyByReentry, StatementsOutliveTheirJobs, histVars

\* A connect that fails deletes an object no handle and no thread points at.
LEMMA TmysqlConnectFailsIInv ==
  ASSUME IInv, TmysqlConnectFails
  PROVE  IInv'
<1> USE DEF IInv
<1>0. /\ stack # << >> /\ Len(stack) = 1 /\ Depth = {1}
      /\ handle = "none" /\ alloc /\ thread = "none"
      /\ guard /\ ~stopped /\ cur = None /\ completed = << >> /\ cache = {}
      /\ \A i \in 1 .. Len(work) : work[i].kind # "create"
  BY Connecting DEF TmysqlConnectFails
<1>1. /\ ~alloc' /\ Return
      /\ UNCHANGED <<handle, closing, connVars, cache, completed, ioCtxVars, runVars,
                     fault, histVars>>
  BY DEF TmysqlConnectFails, ReturnError
<1>2. alloc' \in BOOLEAN
  BY DEF TmysqlConnectFails
<1>3. stack' \in Seq(Frames) /\ FrameShape' /\ Nested' /\ stack' = << >> /\ Depth' = {}
  <2>1. /\ stack' \in Seq(Frames) /\ FrameShape' /\ Nested'
        /\ Depth' = 1 .. Len(stack) - 1
        /\ stack' # << >> => Len(stack) # 1
    BY <1>0, <1>1, ReturnShape
  <2> QED
    BY <1>0, <2>1
<1>4. TypeOK'
  BY <1>1, <1>2, <1>3 DEF TypeOK, connVars, ioCtxVars, runVars, histVars
<1>5. ~connected
  BY <1>0 DEF Worker
<1>6. (FramesOwn /\ Worker /\ Deleted /\ Disconnecting)'
  BY <1>0, <1>1, <1>3, <1>5
  DEF FramesOwn, Worker, Deleted, Disconnecting, connVars, ioCtxVars, runVars
<1>7. (PrepareLast /\ RunsValid)'
  BY <1>0, <1>1, <1>3 DEF PrepareLast, RunsValid, Creating, ioCtxVars, runVars
<1> QED
  BY <1>1, <1>3, <1>4, <1>6, <1>7
  DEF Faults, FreedOnlyByReentry, StatementsOutliveTheirJobs, histVars

\* Poll goes on to its dispatch after the connect callback.
LEMMA PollConnectedIInv ==
  ASSUME IInv, ConnectCallbackReturns, alloc, Top.fn = "Poll"
  PROVE  IInv'
<1> USE DEF IInv
<1>0. /\ stack # << >> /\ Top.pc = "connectcb"
      /\ Goto("dispatch", completed) /\ completed' = << >> /\ completed \in Seq(Jobs)
      /\ UNCHANGED <<handle, closing, alloc, connVars, cache, ioCtxVars, runVars, fault,
                     histVars>>
  BY DEF ConnectCallbackReturns, At, PopAll, TypeOK
<1>1. ShapeOf(Frame(Top.fn, "dispatch", completed, Top.text))
  BY DEF ShapeOf, Frame
<1>2. /\ stack' \in Seq(Frames) /\ FrameShape' /\ Nested'
      /\ Depth' = Depth /\ Len(stack) \in Depth
      /\ \A i \in Depth : stack'[i].fn = stack[i].fn
      /\ \A i \in Depth : i # Len(stack) => stack'[i] = stack[i]
      /\ \A i \in Depth : stack'[i].pc \in {"connectcb", "dispatch", "callback"}
      /\ stack' # << >> /\ Top'.pc # "await"
  BY <1>0, <1>1, GotoShape
<1>3. TypeOK'
  <2>1. completed' \in Seq(Jobs)
    BY <1>0, EmptySeq
  <2> QED
    BY <1>0, <1>2, <2>1 DEF TypeOK, connVars, ioCtxVars, runVars, histVars
<1>4. (FramesOwn /\ Worker /\ Deleted)'
  BY <1>0, <1>2 DEF FramesOwn, Worker, Deleted, connVars, ioCtxVars, runVars, histVars
<1>5. Disconnecting'
  BY <1>0, <1>2 DEF Disconnecting, Top, ioCtxVars, histVars
<1>6. (PrepareLast /\ RunsValid)'
  <2>1. ~Creating /\ \A i \in 1 .. Len(work) : work[i].kind # "create"
    BY <1>0 DEF PrepareLast
  <2> QED
    BY <1>0, <1>2, <2>1 DEF PrepareLast, RunsValid, Creating, ioCtxVars, runVars
<1> QED
  BY <1>0, <1>2, <1>3, <1>4, <1>5, <1>6
  DEF Faults, FreedOnlyByReentry, StatementsOutliveTheirJobs, histVars

\* tmysql.Connect returns the handle after the connect callback.
LEMMA TmysqlConnectedIInv ==
  ASSUME IInv, ConnectCallbackReturns, alloc, Top.fn # "Poll"
  PROVE  IInv'
<1> USE DEF IInv
<1>0. /\ stack # << >> /\ Top.fn = "tmysql.Connect" /\ Top.pc = "connectcb" /\ Return
      /\ UNCHANGED <<handle, closing, alloc, connVars, cache, completed, ioCtxVars,
                     runVars, fault, histVars>>
  BY DEF ConnectCallbackReturns, At
<1>1. /\ stack' \in Seq(Frames) /\ FrameShape' /\ Nested'
      /\ Depth = Depth' \cup {Len(stack)}
      /\ \A i \in Depth' : stack'[i] = stack[i] /\ stack'[i].pc \in {"callback", "connectcb"}
      /\ stack' # << >> => Top'.pc \in {"callback", "connectcb"}
  BY <1>0, ReturnShape
<1>2. TypeOK'
  BY <1>0, <1>1 DEF TypeOK, connVars, ioCtxVars, runVars, histVars
<1>3. (FramesOwn /\ Worker /\ Deleted)'
  BY <1>0, <1>1 DEF FramesOwn, Worker, Deleted, connVars, ioCtxVars, runVars, histVars
<1>4. Disconnecting'
  BY <1>0, <1>1 DEF Disconnecting, Top, ioCtxVars, histVars
<1>5. (PrepareLast /\ RunsValid)'
  <2>1. ~Creating /\ \A i \in 1 .. Len(work) : work[i].kind # "create"
    BY <1>0 DEF PrepareLast
  <2> QED
    BY <1>0, <1>1, <2>1 DEF PrepareLast, RunsValid, Creating, ioCtxVars, runVars
<1> QED
  BY <1>0, <1>1, <1>2, <1>3, <1>4, <1>5
  DEF Faults, FreedOnlyByReentry, StatementsOutliveTheirJobs, histVars

\* The object is deleted at the end of a Disconnect: the io_context stopped
\* before the batch was taken, so nothing was pushed since and no handler is
\* running; frames below this one mean that a callback disconnected.
LEMMA ReleaseIInv ==
  ASSUME IInv, Release
  PROVE  IInv'
<1> USE DEF IInv
<1>1. /\ stack # << >> /\ Len(stack) \in Depth /\ Len(stack) \in Nat
      /\ alloc /\ thread = "exited"
      /\ Return /\ thread' = "joined" /\ cache' = {} /\ handle' = "null"
      /\ work' = << >> /\ work' \in Seq(Jobs) /\ Len(work') = 0
      /\ UNCHANGED <<closing, inGC, pendingCB, connectCB, completed, guard, stopped,
                     runVars, fault, histVars>>
  <2>1. stack # << >>
    BY DEF Release, Releasing, At
  <2> QED
    BY <2>1, TopType DEF Release, JoinThread, NullifyReference, TypeOK
<1>2. ~alloc' /\ ~connected'
  BY DEF Release
<1>3. alloc' \in BOOLEAN /\ connected' \in BOOLEAN
  BY DEF Release
<1>4. Top.fn = "Disconnect" /\ Top.pc = "dispatch"
  <2>1. Top.pc # "release"
    BY <1>1 DEF FramesOwn, Worker, Top
  <2> QED
    BY <2>1 DEF Release, Releasing, At
<1>5. stopped /\ completed = << >> /\ cur = None
  BY <1>1, <1>4 DEF Disconnecting, Worker, Top
<1>6. /\ stack' \in Seq(Frames) /\ FrameShape' /\ Nested'
      /\ Depth = Depth' \cup {Len(stack)}
      /\ \A i \in Depth' : stack'[i] = stack[i] /\ stack'[i].pc \in {"callback", "connectcb"}
      /\ stack' # << >> => Len(stack) # 1 /\ Top'.pc \in {"callback", "connectcb"}
  BY <1>1, ReturnShape
<1>7. stack' # << >> => reentered
  BY <1>1, <1>4, <1>6 DEF Disconnecting, Top
<1>8. TypeOK'
  BY <1>1, <1>3, <1>6 DEF TypeOK, runVars, histVars
<1>9. (FramesOwn /\ Worker /\ Deleted)'
  BY <1>1, <1>2, <1>5, <1>6, <1>7 DEF FramesOwn, Worker, Deleted, runVars, histVars
<1>10. Disconnecting'
  BY <1>1, <1>2, <1>6 DEF Disconnecting, histVars
<1>11. (PrepareLast /\ RunsValid)'
  <2>1. \A i \in 1 .. Len(work') : FALSE
    BY <1>1
  <2> QED
    BY <1>1, <1>5, <1>6, <2>1 DEF PrepareLast, RunsValid, Creating, runVars
<1> QED
  BY <1>1, <1>6, <1>8, <1>9, <1>10, <1>11
  DEF Faults, FreedOnlyByReentry, StatementsOutliveTheirJobs, histVars

-----------------------------------------------------------------------------
(* Together.                                                               *)

LEMMA InitIInv ==
  ASSUME Init
  PROVE  IInv
<1> DEFINE f == Frame("tmysql.Connect", "init", << >>, None)
<1>1. f \in Frames /\ f.fn = "tmysql.Connect" /\ f.pc = "init"
  BY EmptySeq DEF Frame, Frames
<1> HIDE DEF f
<1>2. /\ stack \in Seq(Frames) /\ Nested
      /\ \A i \in Depth : Len(stack) = 1 /\ stack[i] = f /\ handle = "none"
      /\ stack # << >> => Top = f
  <2>1. CASE stack = << >>
    BY <2>1, EmptySeq DEF Depth, Nested
  <2>2. CASE stack = <<f>>
    BY <1>1, <2>2 DEF Depth, Nested, Top, Init, f
  <2> QED
    BY <2>1, <2>2 DEF Init, f
<1>3. TypeOK
  <2>1. << >> \in Seq(Jobs) /\ << >> \in Seq(Nat)
    BY EmptySeq
  <2>2. handle \in {"none", "live", "null"}
    BY DEF Init
  <2> QED
    BY <1>2, <2>1, <2>2 DEF Init, TypeOK
<1>4. FrameShape
  BY <1>1, <1>2 DEF FrameShape, ShapeOf
<1>5. FramesOwn /\ Disconnecting
  BY <1>1, <1>2 DEF Init, FramesOwn, Disconnecting
<1>6. Worker /\ Deleted
  BY DEF Init, Worker, Deleted
<1>7. PrepareLast
  BY <1>1, <1>2 DEF Init, PrepareLast, Creating
<1>8. RunsValid /\ Faults
  BY DEF Init, RunsValid, Faults, FreedOnlyByReentry, StatementsOutliveTheirJobs
<1> QED
  BY <1>2, <1>3, <1>4, <1>5, <1>6, <1>7, <1>8 DEF IInv

LEMMA NextIInv ==
  ASSUME IInv, [Next]_vars
  PROVE  IInv'
<1>1. CASE ScriptCalls
  BY <1>1, lua_ConnectIInv, lua_ConnectFailsIInv, lua_QueryIInv, lua_RunIInv,
     lua_PrepareIInv, lua_PollIInv, DisconnectIInv
  DEF ScriptCalls
<1>2. CASE ScriptReturns
  BY <1>2, DispatchingIInv, FreedIInv, PollConnectedIInv, TmysqlConnectedIInv
  DEF ScriptReturns, Dispatching
<1>3. CASE ModuleStep
  BY <1>3, TmysqlConnectIInv, TmysqlConnectFailsIInv, PrepareReturnsIInv, FreedIInv,
     DispatchingIInv, PollReturnsIInv, DisconnectDrainedIInv, ReleaseIInv
  DEF ModuleStep, Dispatching
<1>4. CASE Finalise
  BY <1>4, CloseIInv, DisconnectIInv DEF Finalise
<1>5. CASE IoStep
  BY <1>5, IoStepIInv
<1>6. CASE Halted \/ UNCHANGED vars
  BY <1>6, StutterIInv DEF Halted
<1> QED
  BY <1>1, <1>2, <1>3, <1>4, <1>5, <1>6 DEF Next

\* The inductive invariant holds of every reachable state of the two
\* threads, for any number of queued actions, texts and nested callbacks.
THEOREM Invariance == Spec => []IInv
<1>1. Init => IInv
  BY InitIInv
<1>2. IInv /\ [Next]_vars => IInv'
  BY NextIInv
<1> QED
  BY <1>1, <1>2, PTL DEF Spec

\* Every member of the Database and every frame on the Lua thread's stack
\* keeps its type through every handler.
THEOREM TypeCorrect == Spec => []TypeOK
<1>1. IInv => TypeOK
  BY DEF IInv
<1> QED
  BY <1>1, Invariance, PTL

\* Disconnect deletes the Database only when its io thread has left
\* io_context.run(), so no handler ever runs on a deleted `this'.
THEOREM WorkerIsOutlived == Spec => []WorkerOutlived
<1>1. IInv => WorkerOutlived
  BY DEF IInv, WorkerOutlived, Deleted, Worker
<1> QED
  BY <1>1, Invariance, PTL

\* Disconnect's dispatch takes all that was ever pushed: nothing completed is
\* left on m_completedActions when the object is deleted.
THEOREM DeletedDrained == Spec => []DrainedAtDelete
<1>1. IInv => DrainedAtDelete
  BY DEF IInv, DrainedAtDelete, Deleted
<1> QED
  BY <1>1, Invariance, PTL

\* NullifyReference is called on every path that deletes the object, so a
\* script's handle that is not NULL points at a live Database.
THEOREM HandlesAreInvalidated == Spec => []HandlesInvalidated
<1>1. IInv => HandlesInvalidated
  BY DEF IInv, HandlesInvalidated, Deleted
<1> QED
  BY <1>1, Invariance, PTL

\* lua_Prepare inserts into m_preparedStatements, without a lock, only while
\* the io thread has no handler left that could iterate over it.
THEOREM InsertsAlone == Spec => []PrepareInsertsAlone
<1>1. IInv => PrepareInsertsAlone
  BY DEF IInv, PrepareInsertsAlone, PrepareLast, At
<1> QED
  BY <1>1, Invariance, PTL

\* A frame of Poll, Disconnect or tmysql.Connect uses the deleted object only
\* if some callback called Poll or Disconnect.
THEOREM FreedByReentry == Spec => []FreedOnlyByReentry
<1>1. IInv => FreedOnlyByReentry
  BY DEF IInv, Faults
<1> QED
  BY <1>1, Invariance, PTL

\* The io thread meets a deleted PStatement only after the Lua state has
\* begun to close: Disconnect itself never deletes one that is still needed.
THEOREM StatementsOutlive == Spec => []StatementsOutliveTheirJobs
<1>1. IInv => StatementsOutliveTheirJobs
  BY DEF IInv, Faults
<1> QED
  BY <1>1, Invariance, PTL

\* lua_Prepare's spin on task.completed can be left without an io thread to
\* end it only below a Disconnect that is dispatching callbacks.
THEOREM HangsOnlyInDisconnect == Spec => []HungOnlyInDisconnect
<1>1. ASSUME IInv, Hung
      PROVE  InDisconnect
  <2>1. stack # << >> /\ Top.pc = "await" /\ stopped
    BY <1>1 DEF Hung, At
  <2>2. Len(stack) \in Depth
    BY <1>1, <2>1, TopType DEF IInv, TypeOK
  <2>3. alloc /\ ~guard
    BY <1>1, <2>1, <2>2 DEF IInv, FramesOwn, Worker, Top
  <2> QED
    BY <1>1, <2>3 DEF IInv, Disconnecting, InDisconnect, Depth
<1>2. IInv => HungOnlyInDisconnect
  BY <1>1 DEF HungOnlyInDisconnect
<1> QED
  BY <1>2, Invariance, PTL

-----------------------------------------------------------------------------
(* What becomes of the actions.                                            *)
(*                                                                         *)
(* Actions are numbered as they are queued, and the queues hold intervals: *)
(* io_context the newest numbers, up to `issued'; m_completedActions the   *)
(* ones below; the batches, outermost first, what has been popped and not  *)
(* yet dispatched.                                                         *)

\* The handler of a Prepare waits in io_context, behind all the others.
Creates == IF work # << >> /\ work[Len(work)].kind = "create" THEN 1 ELSE 0

\* The io thread is executing an action.
InHand == cur # None /\ iopc # "finish" /\ cur.kind # "create"

\* How many actions the io thread has taken up, has executed and pushed, and
\* how many have been popped from m_completedActions.  Once the object is
\* deleted the late actions are the ones that were not taken up.
Started ==
  IF alloc
    THEN issued - (Len(work) - Creates)
    ELSE CHOOSE n \in 0 .. issued : late = n + 1 .. issued
Done == Started - (IF InHand THEN 1 ELSE 0)
Popped == Done - Len(completed)

\* What waits in io_context and on m_completedActions, by number.
Numbered ==
  /\ Popped \in Nat
  /\ Started \in 0 .. issued
  /\ \A i \in 1 .. Len(work) :
       work[i].id = IF work[i].kind = "create" THEN 0 ELSE Started + i
  /\ cur # None /\ cur.kind = "create" => cur.id = 0
  /\ InHand => cur.id = Started
  /\ \A i \in 1 .. Len(completed) : completed[i].id = Popped + i

\* Where frame f's batch holds actions not yet dispatched.
Ready(f) == {p \in 1 .. Len(f.batch) : f.pc = "callback" => p # 1}

\* Batches hold what has been popped, oldest first, the outer frames' before
\* the inner ones'.
Batches ==
  /\ \A i \in Depth :
       /\ stack[i].batch # << >> => stack[i].pc \in {"dispatch", "callback"}
       /\ \A p \in 1 .. Len(stack[i].batch) : stack[i].batch[p].id \in 1 .. Popped
       /\ \A p, q \in 1 .. Len(stack[i].batch) :
            p < q => stack[i].batch[p].id < stack[i].batch[q].id
  /\ \A i, j \in Depth : i < j =>
       \A p \in 1 .. Len(stack[i].batch), q \in 1 .. Len(stack[j].batch) :
         stack[i].batch[p].id < stack[j].batch[q].id

\* What has been popped is ready in exactly one batch, or gone.
Dispatched ==
  /\ Gone \subseteq 1 .. Popped
  /\ \A i \in Depth : \A p \in Ready(stack[i]) : stack[i].batch[p].id \notin Gone
  /\ \A k \in 1 .. Popped : k \notin Gone =>
       \E i \in Depth : \E p \in Ready(stack[i]) : stack[i].batch[p].id = k

\* Without re-entry everything called is older than everything ready.
InOrder ==
  ~reentered =>
    /\ \A i, j \in 1 .. Len(called) : i < j => called[i] < called[j]
    /\ \A n \in 1 .. Len(called) : \A i \in Depth : \A p \in Ready(stack[i]) :
         called[n] < stack[i].batch[p].id

Held == Batches /\ Dispatched /\ InOrder

\* What is queued once the io_context has stopped is late, and nothing else;
\* the handlers that wait go when the object does.
Lateness ==
  /\ thread = "none" \/ ~alloc => work = << >>
  /\ late = IF stopped \/ ~alloc THEN Started + 1 .. issued ELSE {}

SInv == Numbered /\ Held /\ Lateness

-----------------------------------------------------------------------------
(* The numbers.                                                            *)

\* Fewer actions have been executed than taken up, and so on down.
LEMMA Counts ==
  ASSUME IInv, Numbered
  PROVE  /\ Len(work) \in Nat /\ Len(completed) \in Nat /\ issued \in Nat
         /\ Creates \in {0, 1} /\ Creates <= Len(work)
         /\ Started \in Nat /\ Done \in Nat /\ Popped \in Nat
         /\ Popped <= Done /\ Done <= Started /\ Started <= issued
         /\ alloc => Started = issued - (Len(work) - Creates)
         /\ Done = IF InHand THEN Started - 1 ELSE Started
         /\ Done = Popped + Len(completed)
<1>1. Len(work) \in Nat /\ Len(completed) \in Nat /\ issued \in Nat
  BY DEF IInv, TypeOK
<1>2. work # << >> => Len(work) > 0
  BY <1>1, EmptySeq DEF IInv, TypeOK
<1>3. Creates \in {0, 1} /\ Creates <= Len(work)
  BY <1>1, <1>2 DEF Creates
<1>4. Popped \in Nat /\ Started \in 0 .. issued
  BY DEF Numbered
<1>5. alloc => Started = issued - (Len(work) - Creates)
  BY DEF Started
<1> QED
  BY <1>1, <1>3, <1>4, <1>5 DEF Popped, Done

\* Only the last handler in io_context can be the one of a Prepare.
LEMMA OneCreation ==
  ASSUME IInv, NEW i \in 1 .. Len(work)
  PROVE  /\ work[i].kind = "create" => i = Len(work) /\ Creates = 1
         /\ work[i].kind # "create" => i \in 1 .. Len(work) - Creates
<1>1. Len(work) \in Nat /\ work # << >>
  BY DEF IInv, TypeOK
<1> QED
  BY <1>1 DEF IInv, PrepareLast, Creates

\* The io thread works only while the object exists.
LEMMA AllocWhileRunning ==
  ASSUME IInv, cur # None \/ thread = "running" \/ connected \/ cache # {}
  PROVE  alloc
BY DEF IInv, Deleted, Worker

\* Steps that leave the queues alone.
LEMMA SameNumbers ==
  ASSUME Numbered, UNCHANGED <<work, cur, iopc, completed, issued, alloc, late>>
  PROVE  Numbered' /\ Popped' = Popped /\ Done' = Done /\ Started' = Started
<1>1. Started' = Started /\ (InHand' <=> InHand)
  BY DEF Started, Creates, InHand
<1>2. Done' = Done
  BY <1>1 DEF Done
<1>3. Popped' = Popped
  BY <1>2 DEF Popped
<1> QED
  BY <1>1, <1>2, <1>3 DEF Numbered

\* A handler moves on.
LEMMA IoMoveNumbers ==
  ASSUME IInv, Numbered, IoMove
  PROVE  /\ Numbered' /\ Popped' = Popped /\ Done' = Done /\ issued' = issued
         /\ Started' = Started
<1>1. /\ UNCHANGED <<work, cur, completed, issued, alloc, late>>
      /\ cur # None /\ iopc # "finish" /\ iopc' # "finish"
  BY DEF IoMove, IoRun, IoServerLost, IoReconnect, IoReconnectFails, IoReprepareThrows,
         IoStatementGone, Running, CatchException, ioCtxVars, runVars, histVars
<1>2. Started' = Started /\ (InHand' <=> InHand)
  BY <1>1 DEF Started, Creates, InHand
<1>3. Done' = Done
  BY <1>2 DEF Done
<1>4. Popped' = Popped
  BY <1>1, <1>3 DEF Popped
<1> QED
  BY <1>1, <1>2, <1>3, <1>4 DEF Numbered

\* The io thread takes up the oldest handler.
LEMMA IoTakeNumbers ==
  ASSUME IInv, Numbered, IoTake
  PROVE  Numbered' /\ Popped' = Popped /\ Done' = Done /\ issued' = issued
<1>0. alloc /\ alloc'
  BY AllocWhileRunning DEF IoTake
<1>1. /\ Len(work) \in Nat \ {0} /\ Len(work') = Len(work) - 1
      /\ cur' = work[1] /\ cur' \in Jobs
      /\ \A i \in 1 .. Len(work') : work'[i] = work[i + 1]
      /\ work' \in Seq(Jobs)
  BY HeadTailProperties, EmptySeq DEF IoTake, IInv, TypeOK
<1>2. /\ UNCHANGED <<completed, issued>>
      /\ cur = None /\ cur' # None /\ iopc' = "run" /\ issued \in Nat
  BY <1>1, NoJobAssumption DEF IoTake, histVars, IInv, TypeOK
<1>3. /\ ~InHand /\ Done = Started
      /\ InHand' <=> cur'.kind # "create"
  BY <1>2, Counts DEF InHand
<1>4. CASE cur'.kind = "create"
  <2>1. Len(work) = 1 /\ Creates = 1
    BY <1>1, <1>4, OneCreation
  <2>2. work' = << >>
    BY <1>1, <2>1, EmptySeq
  <2>3. Started' = Started /\ Done' = Done
    BY <1>0, <1>1, <1>2, <1>3, <1>4, <2>1, <2>2 DEF Started, Creates, Done
  <2>4. Popped' = Popped /\ cur'.id = 0
    BY <1>1, <1>2, <1>4, <2>3 DEF Popped, Numbered
  <2> QED
    BY <1>1, <1>2, <1>3, <1>4, <2>1, <2>3, <2>4 DEF Numbered
<1>5. CASE cur'.kind # "create"
  <2>1. Creates' = Creates
    <3>1. CASE Len(work) = 1
      <4>1. work' = << >>
        BY <1>1, <3>1, EmptySeq
      <4> QED
        BY <1>1, <1>5, <3>1, <4>1 DEF Creates
    <3>2. CASE Len(work) # 1
      <4>1. work # << >> /\ work' # << >> /\ work'[Len(work')] = work[Len(work)]
        BY <1>1, <3>2, EmptySeq
      <4> QED
        BY <4>1 DEF Creates
    <3> QED
      BY <3>1, <3>2
  <2>0. Len(work) - Creates >= 1
    <3>1. 1 \in 1 .. Len(work) /\ work[1].kind # "create"
      BY <1>1, <1>5
    <3> QED
      BY <1>1, <3>1, OneCreation, Counts
  <2>2. Started' = Started + 1 /\ Done' = Done /\ Started' <= issued
    BY <1>0, <1>1, <1>2, <1>3, <1>5, <2>0, <2>1, Counts DEF Started, Done
  <2>3. Popped' = Popped
    BY <1>2, <2>2 DEF Popped
  <2>4. cur'.id = Started'
    BY <1>1, <1>5, <2>2 DEF Numbered
  <2>5. ASSUME NEW i \in 1 .. Len(work')
        PROVE  work'[i].id = IF work'[i].kind = "create" THEN 0 ELSE Started' + i
    <3>1. i + 1 \in 1 .. Len(work) /\ work'[i] = work[i + 1]
      BY <1>1
    <3>2. Started + (i + 1) = Started' + i
      BY <2>2, Counts
    <3> QED
      BY <3>1, <3>2 DEF Numbered
  <2> QED
    BY <1>2, <1>5, <2>2, <2>3, <2>4, <2>5, Counts DEF Numbered
<1> QED
  BY <1>2, <1>4, <1>5

\* The handler returns: what it executed has been pushed.
LEMMA IoFinishNumbers ==
  ASSUME IInv, Numbered, IoFinish
  PROVE  /\ Numbered' /\ Popped' = Popped /\ Done' = Done /\ issued' = issued
         /\ Started' = Started
<1>1. /\ UNCHANGED <<work, completed, issued, alloc, late>>
      /\ ~InHand /\ ~InHand' /\ cur' = None
  BY DEF IoFinish, InHand, histVars
<1>2. Started' = Started
  BY <1>1 DEF Started, Creates
<1>3. Done' = Done
  BY <1>1, <1>2 DEF Done
<1>4. Popped' = Popped
  BY <1>1, <1>3 DEF Popped
<1> QED
  BY <1>1, <1>2, <1>3, <1>4 DEF Numbered

\* The push moves the action in hand to the end of m_completedActions.
LEMMA IoPushNumbers ==
  ASSUME IInv, Numbered, IoPush
  PROVE  /\ Numbered' /\ Popped' = Popped /\ Done' = Done + 1 /\ issued' = issued
         /\ Done + 1 <= issued /\ Started' = Started
<1>1. /\ UNCHANGED <<work, cur, issued, alloc, late>>
      /\ InHand /\ ~InHand' /\ completed' = Append(completed, cur)
  BY DEF IoPush, PushCompleted, InHand, ioCtxVars, histVars, IInv, PrepareLast
<1>2. Started' = Started
  BY <1>1 DEF Started, Creates
<1>3. Done' = Done + 1 /\ Done' = Started
  BY <1>1, <1>2, Counts DEF Done
<1>4. /\ Len(completed) \in Nat /\ Len(completed') = Len(completed) + 1
      /\ \A i \in 1 .. Len(completed) : completed'[i] = completed[i]
      /\ completed'[Len(completed) + 1] = cur
  BY <1>1 DEF IInv, TypeOK
<1>5. Popped' = Popped
  <2>1. Done \in Nat
    BY Counts
  <2>2. Popped' = Done' - Len(completed')
    BY DEF Popped
  <2> QED
    BY <1>3, <1>4, <2>1, <2>2 DEF Popped
<1>6. \A i \in 1 .. Len(completed') : completed'[i].id = Popped' + i
  <2>1. cur.id = Popped + (Len(completed) + 1)
    BY <1>1, <1>3, Counts DEF Numbered
  <2>2. \A i \in 1 .. Len(completed') : i \in 1 .. Len(completed) \/ i = Len(completed) + 1
    BY <1>4
  <2> QED
    BY <1>4, <1>5, <2>1, <2>2 DEF Numbered
<1>7. Done + 1 <= issued
  BY <1>1, Counts
<1> QED
  BY <1>1, <1>2, <1>3, <1>5, <1>6, <1>7 DEF Numbered

LEMMA IoCreateNumbers ==
  ASSUME IInv, Numbered, NEW result, IoCreate(result)
  PROVE  /\ Numbered' /\ Popped' = Popped /\ Done' = Done /\ issued' = issued
         /\ Started' = Started
<1>1. /\ UNCHANGED <<work, cur, completed, issued, alloc, late>>
      /\ ~InHand /\ ~InHand'
  BY DEF IoCreate, Running, InHand, ioCtxVars, histVars
<1>2. Started' = Started
  BY <1>1 DEF Started, Creates
<1>3. Done' = Done
  BY <1>1, <1>2 DEF Done
<1>4. Popped' = Popped
  BY <1>1, <1>3 DEF Popped
<1> QED
  BY <1>1, <1>2, <1>3, <1>4 DEF Numbered

\* No handler of a Prepare waits while a script runs.
LEMMA NoCreation ==
  ASSUME IInv, stack # << >> => InCallback
  PROVE  Creates = 0
<1>1. ASSUME work # << >>
      PROVE  Len(work) \in 1 .. Len(work)
  BY <1>1, EmptySeq DEF IInv, TypeOK
<1> QED
  BY <1>1 DEF IInv, PrepareLast, InCallback, Creates

\* Query and Run queue the next number behind all the others.
LEMMA QueueNumbers ==
  ASSUME IInv, Numbered, NEW job \in Jobs, Post(job), job.kind # "create",
         job.id = NextId, issued' = NextId, stack # << >> => InCallback,
         alloc, UNCHANGED <<completed, cur, iopc, alloc>>
  PROVE  Numbered' /\ Popped' = Popped /\ Done' = Done /\ Started' = Started
<1>1. /\ Len(work) \in Nat /\ Len(work') = Len(work) + 1
      /\ \A i \in 1 .. Len(work) : work'[i] = work[i]
      /\ work'[Len(work) + 1] = job
  BY DEF Post, IInv, TypeOK
<1>2. Creates = 0 /\ Creates' = 0
  <2>1. Creates' = 0
    BY <1>1 DEF Creates
  <2> QED
    BY <2>1, NoCreation
<1>3. Started' = Started /\ (InHand' <=> InHand)
  BY <1>1, <1>2, Counts DEF Started, NextId, InHand
<1>4. Done' = Done
  BY <1>3 DEF Done
<1>5. Popped' = Popped
  BY <1>4 DEF Popped
<1>6. \A i \in 1 .. Len(work') :
        work'[i].id = IF work'[i].kind = "create" THEN 0 ELSE Started' + i
  <2>1. NextId = Started + (Len(work) + 1)
    BY <1>2, Counts DEF NextId
  <2>2. \A i \in 1 .. Len(work') : i \in 1 .. Len(work) \/ i = Len(work) + 1
    BY <1>1
  <2>3. \A i \in 1 .. Len(work) :
          work[i].id = IF work[i].kind = "create" THEN 0 ELSE Started + i
    BY DEF Numbered
  <2> QED
    BY <1>1, <1>3, <2>1, <2>2, <2>3
<1>7. Started' \in 0 .. issued'
  BY <1>3, Counts DEF NextId
<1> QED
  BY <1>3, <1>4, <1>5, <1>6, <1>7 DEF Numbered

\* Prepare queues a handler that is no action.
LEMMA PrepareNumbers ==
  ASSUME IInv, Numbered, NEW t \in Texts, lua_Prepare(t)
  PROVE  /\ Numbered' /\ Popped' = Popped /\ Done' = Done /\ issued' = issued
         /\ Started' = Started
<1>0. alloc /\ alloc'
  BY DEF lua_Prepare, UsableConnected, IInv, Deleted
<1> DEFINE job == [kind |-> "create", id |-> 0, text |-> t, cb |-> FALSE]
<1>1. /\ UNCHANGED <<completed, cur, iopc, issued>>
      /\ stack # << >> => InCallback
      /\ work' = Append(work, job)
      /\ job.kind = "create" /\ job.id = 0 /\ job \in Jobs
  BY DEF lua_Prepare, Script, Post, histVars, Jobs
<1> HIDE DEF job
<1>2. /\ Len(work) \in Nat /\ Len(work') = Len(work) + 1
      /\ \A i \in 1 .. Len(work) : work'[i] = work[i]
      /\ work'[Len(work) + 1] = job /\ work' # << >>
  <2>1. work \in Seq(Jobs) /\ job \in Jobs /\ work' = Append(work, job)
    BY <1>1 DEF IInv, TypeOK
  <2> QED
    BY <2>1
<1>3. Creates = 0 /\ Creates' = 1
  <2>1. Creates' = 1
    BY <1>1, <1>2 DEF Creates
  <2> QED
    BY <1>1, <2>1, NoCreation
<1>4. Started' = Started /\ (InHand' <=> InHand)
  BY <1>0, <1>1, <1>2, <1>3, Counts DEF Started, InHand
<1>5. Done' = Done
  BY <1>4 DEF Done
<1>6. Popped' = Popped
  BY <1>1, <1>5 DEF Popped
<1>7. \A i \in 1 .. Len(work') :
        work'[i].id = IF work'[i].kind = "create" THEN 0 ELSE Started' + i
  BY <1>1, <1>2, <1>4 DEF Numbered
<1> QED
  BY <1>1, <1>4, <1>5, <1>6, <1>7 DEF Numbered

\* Popping takes all that has been executed.
LEMMA PopNumbers ==
  ASSUME IInv, Numbered, PopAll, UNCHANGED <<work, cur, iopc, issued, alloc, late>>
  PROVE  Numbered' /\ Popped' = Done /\ Done' = Done /\ Started' = Started
<1>1. Started' = Started /\ (InHand' <=> InHand)
  BY DEF Started, Creates, InHand
<1>2. Done' = Done
  BY <1>1 DEF Done
<1>3. completed' = << >> /\ Len(completed') = 0
  BY DEF PopAll
<1>4. Popped' = Done /\ Done \in Nat
  BY <1>2, <1>3, Counts DEF Popped
<1> QED
  BY <1>1, <1>2, <1>3, <1>4 DEF Numbered

-----------------------------------------------------------------------------
(* The late actions.                                                       *)

\* Steps that queue nothing and neither stop nor delete the io_context.
LEMMA KeptLate ==
  ASSUME Lateness, Started' = Started, thread' = "none" => thread = "none",
         UNCHANGED <<work, alloc, late, issued, stopped>>
  PROVE  Lateness'
BY DEF Lateness

\* The io_context stops only when no handler waits.
LEMMA StopsLate ==
  ASSUME IInv, Numbered, Lateness, Started' = Started, alloc,
         UNCHANGED <<work, alloc, late, issued, thread>>,
         stopped' = stopped \/ (stopped' = TRUE /\ work = << >>)
  PROVE  Lateness'
<1>1. CASE stopped' = stopped \/ stopped
  BY <1>1 DEF Lateness
<1>2. CASE ~stopped /\ stopped' = TRUE /\ work = << >>
  <2>1. Started = issued
    BY <1>2, Counts DEF Creates
  <2>2. Started' + 1 .. issued' = {}
    BY <2>1, Counts
  <2> QED
    BY <1>2, <2>2 DEF Lateness
<1> QED
  BY <1>1, <1>2

\* While a script runs the io_context has stopped exactly if a Disconnect is
\* in progress: below the script it is dispatching, past its wait.
LEMMA StoppedInDisconnect ==
  ASSUME IInv, alloc, stack # << >> => InCallback
  PROVE  InDisconnect <=> stopped
<1>1. stopped => InDisconnect
  BY DEF IInv, Worker, Disconnecting, InDisconnect, Depth
<1>2. ASSUME NEW i \in 1 .. Len(stack), stack[i].fn = "Disconnect"
      PROVE  stopped
  <2>1. stack # << >> /\ Len(stack) \in Nat
    BY DEF IInv, TypeOK
  <2>2. stack[i].pc \in {"callback", "connectcb"}
    <3>1. CASE i = Len(stack)
      BY <2>1, <3>1 DEF InCallback, Top
    <3>2. CASE i # Len(stack)
      <4>1. i \in 1 .. Len(stack) - 1
        BY <2>1, <3>2
      <4> QED
        BY <4>1 DEF IInv, Nested
    <3> QED
      BY <3>1, <3>2
  <2> QED
    BY <1>2, <2>2 DEF IInv, Disconnecting, Depth
<1> QED
  BY <1>1, <1>2 DEF InDisconnect

\* Query and Run queue an action late once the io_context has stopped.
LEMMA QueueLate ==
  ASSUME IInv, Numbered, Lateness, Started' = Started, Accept, alloc, thread # "none",
         stack # << >> => InCallback, UNCHANGED <<alloc, stopped, thread>>
  PROVE  Lateness'
<1>1. issued \in Nat /\ Started \in 0 .. issued /\ issued' = issued + 1
  BY Counts DEF Accept, NextId
<1>2. late' = IF stopped THEN late \cup {issued + 1} ELSE late
  BY StoppedInDisconnect DEF Accept, NextId
<1>3. Started + 1 .. issued + 1 = (Started + 1 .. issued) \cup {issued + 1}
  BY <1>1
<1> QED
  BY <1>1, <1>2, <1>3 DEF Lateness

\* The object is deleted, and the handlers that wait with it: all of them are
\* late.
LEMMA DeletedLate ==
  ASSUME IInv, Numbered, Lateness, alloc, ~alloc', work' = << >>, cur = None,
         stopped \/ work = << >>,
         UNCHANGED <<cur, iopc, completed, issued, late, stopped>>
  PROVE  /\ Numbered' /\ Lateness'
         /\ Popped' = Popped /\ Done' = Done /\ Started' = Started
<1>1. /\ issued \in Nat /\ Started \in 0 .. issued
      /\ late = Started + 1 .. issued
  <2>1. issued \in Nat /\ Started \in 0 .. issued
    BY Counts
  <2>2. CASE stopped
    BY <2>1, <2>2 DEF Lateness
  <2>3. CASE ~stopped
    <3>1. Started = issued
      BY <2>3, Counts DEF Creates
    <3>2. Started + 1 .. issued = {} /\ late = {}
      BY <2>1, <2>3, <3>1 DEF Lateness
    <3> QED
      BY <2>1, <3>2
  <2> QED
    BY <2>2, <2>3
<1>2. ASSUME NEW n \in 0 .. issued, late = n + 1 .. issued
      PROVE  n = Started
  <2>1. CASE n < Started
    <3>1. n + 1 \in n + 1 .. issued /\ n + 1 \notin Started + 1 .. issued
      BY <1>1, <2>1
    <3> QED
      BY <1>1, <1>2, <3>1
  <2>2. CASE n > Started
    <3>1. Started + 1 \notin n + 1 .. issued /\ Started + 1 \in Started + 1 .. issued
      BY <1>1, <2>2
    <3> QED
      BY <1>1, <1>2, <3>1
  <2> QED
    BY <1>1, <2>1, <2>2
<1>3. Started' = Started
  <2>1. Started' = CHOOSE n \in 0 .. issued : late = n + 1 .. issued
    BY DEF Started
  <2> QED
    BY <1>1, <1>2, <2>1
<1>4. Done' = Done
  <2>1. InHand' <=> InHand
    BY DEF InHand
  <2> QED
    BY <1>3, <2>1 DEF Done
<1>5. Popped' = Popped
  BY <1>4 DEF Popped
<1>6. Len(work') = 0
  OBVIOUS
<1>7. Numbered'
  <2>1. /\ Popped' \in Nat /\ Started' \in 0 .. issued'
        /\ InHand' => cur'.id = Started'
        /\ cur' # None /\ cur'.kind = "create" => cur'.id = 0
        /\ \A i \in 1 .. Len(completed') : completed'[i].id = Popped' + i
    BY <1>1, <1>3, <1>5 DEF Numbered, InHand
  <2>2. \A i \in 1 .. Len(work') : FALSE
    BY <1>6
  <2> QED
    BY <2>1, <2>2 DEF Numbered
<1>8. Lateness'
  BY <1>1, <1>3 DEF Lateness
<1> QED
  BY <1>3, <1>4, <1>5, <1>7, <1>8

-----------------------------------------------------------------------------
(* The batches.                                                            *)

\* Frames come and go with empty batches.
LEMMA KeptHeld ==
  ASSUME Held, Popped' = Popped, UNCHANGED <<called, dropped>>, reentered => reentered',
         \A i \in Depth : stack[i].batch = << >> \/ (i \in Depth' /\ stack'[i] = stack[i]),
         \A i \in Depth' : stack'[i].batch = << >> \/ (i \in Depth /\ stack'[i] = stack[i])
  PROVE  Held'
<1>1. Gone' = Gone
  BY DEF Gone
<1>2. \A i \in Depth' : stack'[i].batch = << >> => 1 .. Len(stack'[i].batch) = {}
  BY Z3
<1>3. Batches'
  <2>1. ASSUME NEW i \in Depth'
        PROVE  /\ stack'[i].batch # << >> => stack'[i].pc \in {"dispatch", "callback"}
               /\ \A p \in 1 .. Len(stack'[i].batch) : stack'[i].batch[p].id \in 1 .. Popped
               /\ \A p, q \in 1 .. Len(stack'[i].batch) :
                    p < q => stack'[i].batch[p].id < stack'[i].batch[q].id
    BY <1>2, <2>1 DEF Held, Batches
  <2>2. ASSUME NEW i \in Depth', NEW j \in Depth', i < j,
               NEW p \in 1 .. Len(stack'[i].batch), NEW q \in 1 .. Len(stack'[j].batch)
        PROVE  stack'[i].batch[p].id < stack'[j].batch[q].id
    BY <1>2, <2>2 DEF Held, Batches
  <2> QED
    BY <2>1, <2>2 DEF Batches
<1>4. \A i \in Depth' : \A p \in Ready(stack'[i]) :
        i \in Depth /\ p \in Ready(stack[i]) /\ stack'[i] = stack[i]
  BY <1>2 DEF Ready
<1>5. \A i \in Depth : \A p \in Ready(stack[i]) :
        i \in Depth' /\ p \in Ready(stack'[i]) /\ stack'[i] = stack[i]
  BY DEF Ready
<1>6. Dispatched'
  <2>1. Dispatched
    BY DEF Held
  <2>2. \A i \in Depth' : \A p \in Ready(stack'[i]) : stack'[i].batch[p].id \notin Gone'
    BY <1>1, <1>4, <2>1 DEF Dispatched
  <2>3. \A k \in 1 .. Popped' : k \notin Gone' =>
          \E i \in Depth' : \E p \in Ready(stack'[i]) : stack'[i].batch[p].id = k
    BY <1>1, <1>5, <2>1 DEF Dispatched
  <2> QED
    BY <1>1, <2>1, <2>2, <2>3 DEF Dispatched
<1>7. InOrder'
  BY <1>4 DEF Held, InOrder
<1> QED
  BY <1>3, <1>6, <1>7 DEF Held

\* A frame takes what is on m_completedActions for its batch.
LEMMA FilledHeld ==
  ASSUME IInv, Numbered, Held, Popped' = Done, UNCHANGED <<called, dropped>>,
         reentered => reentered',
         NEW n \in Depth', stack'[n].pc = "dispatch", stack'[n].batch = completed,
         \A i \in Depth : stack[i].batch = << >> \/ (i \in Depth' /\ i # n),
         \A i \in Depth' : i = n \/ (i \in Depth /\ i < n /\ stack'[i] = stack[i])
  PROVE  Held'
<1>1. Gone' = Gone
  BY DEF Gone
<1>2. /\ Popped \in Nat /\ Done \in Nat /\ Popped' = Popped + Len(completed)
      /\ Len(completed) \in Nat
  BY Counts
<1>3. \A p \in 1 .. Len(completed) :
        stack'[n].batch[p].id = Popped + p
  BY DEF Numbered
<1>4. Depth \subseteq Nat /\ Depth' \subseteq Nat
  BY DEF Depth
<1>5. \A i \in Depth : \A p \in 1 .. Len(stack[i].batch) : stack[i].batch[p].id \in 1 .. Popped
  BY DEF Held, Batches
<1>6. Batches'
  <2>1. ASSUME NEW i \in Depth'
        PROVE  /\ stack'[i].batch # << >> => stack'[i].pc \in {"dispatch", "callback"}
               /\ \A p \in 1 .. Len(stack'[i].batch) : stack'[i].batch[p].id \in 1 .. Popped'
               /\ \A p, q \in 1 .. Len(stack'[i].batch) :
                    p < q => stack'[i].batch[p].id < stack'[i].batch[q].id
    <3>1. CASE i = n
      <4>1. stack'[i].batch = completed /\ stack'[i].pc = "dispatch"
        BY <3>1
      <4>2. \A p \in 1 .. Len(completed) : completed[p].id = Popped + p
        BY DEF Numbered
      <4> QED
        BY <1>2, <4>1, <4>2
    <3>2. CASE i # n
      <4>1. i \in Depth /\ stack'[i] = stack[i]
        BY <3>2
      <4>2. 1 .. Popped \subseteq 1 .. Popped'
        BY <1>2
      <4> QED
        BY <4>1, <4>2 DEF Held, Batches
    <3> QED
      BY <3>1, <3>2
  <2>2. ASSUME NEW i \in Depth', NEW j \in Depth', i < j,
               NEW p \in 1 .. Len(stack'[i].batch), NEW q \in 1 .. Len(stack'[j].batch)
        PROVE  stack'[i].batch[p].id < stack'[j].batch[q].id
    <3>0. i \in Nat /\ j \in Nat /\ n \in Nat /\ (j = n \/ j < n)
      BY <1>4
    <3>1. i # n /\ i \in Depth /\ stack'[i] = stack[i]
      <4>1. i # n
        BY <2>2, <3>0
      <4> QED
        BY <4>1
    <3>2. CASE j = n
      <4>1. stack'[i].batch[p].id \in 1 .. Popped
        BY <1>5, <3>1
      <4>2. stack'[j].batch[q].id = Popped + q /\ q \in 1 .. Len(completed)
        BY <1>3, <3>2
      <4>3. \A m, k \in Nat : k \in 1 .. m /\ q \in Nat \ {0} => k < m + q
        OBVIOUS
      <4>4. /\ stack'[i].batch[p].id \in Nat /\ Popped \in Nat
            /\ q \in Nat \ {0}
        BY <1>2, <4>1, <4>2
      <4> QED
        BY <4>1, <4>2, <4>3, <4>4, Zenon
    <3>3. CASE j # n
      BY <2>2, <3>1, <3>3 DEF Held, Batches
    <3> QED
      BY <3>2, <3>3
  <2> QED
    BY <2>1, <2>2 DEF Batches
<1>7. /\ Gone \subseteq 1 .. Popped
      /\ \A i \in Depth : \A p \in Ready(stack[i]) : stack[i].batch[p].id \notin Gone
      /\ \A k \in 1 .. Popped : k \notin Gone =>
           \E i \in Depth : \E p \in Ready(stack[i]) : stack[i].batch[p].id = k
  BY DEF Held, Dispatched
<1>8. Ready(stack'[n]) = 1 .. Len(completed)
  BY DEF Ready
<1>9. \A i \in Depth' : i # n => i \in Depth /\ stack'[i] = stack[i]
  OBVIOUS
<1>10. \A i \in Depth : \A p \in Ready(stack[i]) :
         i \in Depth' /\ i # n /\ stack'[i] = stack[i] /\ p \in Ready(stack'[i])
  BY DEF Ready
<1>11. Dispatched'
  <2>1. Gone' \subseteq 1 .. Popped'
    BY <1>1, <1>2, <1>7
  <2>2. ASSUME NEW i \in Depth', NEW p \in Ready(stack'[i])
        PROVE  stack'[i].batch[p].id \notin Gone'
    <3>1. CASE i = n
      <4>1. stack'[i].batch[p].id = Popped + p /\ p \in 1 .. Len(completed)
        BY <1>3, <1>8, <3>1
      <4> QED
        BY <1>1, <1>2, <1>7, <4>1
    <3>2. CASE i # n
      BY <1>1, <1>7, <1>9, <3>2
    <3> QED
      BY <3>1, <3>2
  <2>3. ASSUME NEW k \in 1 .. Popped', k \notin Gone'
        PROVE  \E i \in Depth' : \E p \in Ready(stack'[i]) : stack'[i].batch[p].id = k
    <3>1. CASE k \in 1 .. Popped
      <4>1. PICK i \in Depth : \E p \in Ready(stack[i]) : stack[i].batch[p].id = k
        BY <1>1, <1>7, <2>3, <3>1
      <4>2. PICK p \in Ready(stack[i]) : stack[i].batch[p].id = k
        BY <4>1
      <4>3. i \in Depth' /\ stack'[i] = stack[i] /\ p \in Ready(stack'[i])
        BY <1>10
      <4> QED
        BY <4>2, <4>3
    <3>2. CASE k \notin 1 .. Popped
      <4>1. k - Popped \in 1 .. Len(completed) /\ Popped + (k - Popped) = k
        BY <1>2, <3>2
      <4> QED
        BY <1>3, <1>8, <4>1
    <3> QED
      BY <3>1, <3>2
  <2> QED
    BY <2>1, <2>2, <2>3 DEF Dispatched
<1>12. InOrder'
  <2>1. ASSUME ~reentered', NEW m \in 1 .. Len(called), NEW i \in Depth', NEW p \in Ready(stack'[i])
        PROVE  called[m] < stack'[i].batch[p].id
    <3>1. CASE i = n
      <4>1. called[m] \in 1 .. Popped
        BY <1>7 DEF Gone
      <4>2. stack'[i].batch[p].id = Popped + p /\ p \in 1 .. Len(completed)
        BY <1>3, <1>8, <3>1
      <4> QED
        BY <1>2, <4>1, <4>2
    <3>2. CASE i # n
      BY <1>9, <2>1, <3>2 DEF Held, InOrder
    <3> QED
      BY <3>1, <3>2
  <2> QED
    BY <2>1 DEF Held, InOrder
<1> QED
  BY <1>6, <1>11, <1>12 DEF Held

\* The dispatch loop moves the top frame only.
LEMMA DispatchFacts ==
  ASSUME IInv, Dispatching
  PROVE  /\ Len(stack) \in Depth /\ Depth' = Depth /\ Depth \subseteq Nat
         /\ \A i \in Depth : i # Len(stack) => i < Len(stack) /\ stack'[i] = stack[i]
         /\ Top = stack[Len(stack)] /\ Top.fn \in {"Poll", "Disconnect"}
         /\ Top.batch \in Seq(Jobs) /\ Len(Top.batch) \in Nat \ {0}
         /\ Head(Top.batch) = Top.batch[1]
         /\ Tail(Top.batch) \in Seq(Jobs)
         /\ Len(Tail(Top.batch)) = Len(Top.batch) - 1
         /\ \A p \in 1 .. Len(Top.batch) - 1 : Tail(Top.batch)[p] = Top.batch[p + 1]
         /\ UNCHANGED <<work, cur, iopc, completed, issued, reentered>>
         /\ TriggerCallback => /\ stack'[Len(stack)].batch = Top.batch
                               /\ stack'[Len(stack)].pc = "callback"
         /\ ~TriggerCallback => /\ stack'[Len(stack)].batch = Tail(Top.batch)
                                /\ stack'[Len(stack)].pc = "dispatch"
<1>1. /\ stack # << >> /\ stack \in Seq(Frames) /\ Top.fn \in {"Poll", "Disconnect"}
      /\ UNCHANGED <<work, cur, iopc, completed, issued, reentered>>
  BY DEF Dispatching, TriggerCallback, CallbackReturns, DropAction, At, IInv, TypeOK,
         ioCtxVars, runVars, histVars
<1>2. /\ Len(stack) \in Nat \ {0} /\ Len(stack) \in Depth
      /\ Top \in Frames /\ Top.batch \in Seq(Jobs)
  BY <1>1, TopType
<1>3. Top.batch # << >>
  BY <1>2 DEF Dispatching, TriggerCallback, CallbackReturns, DropAction, At, IInv, FrameShape,
              ShapeOf, Top
<1>4. /\ Len(Top.batch) \in Nat \ {0}
      /\ Head(Top.batch) = Top.batch[1]
      /\ Tail(Top.batch) \in Seq(Jobs)
      /\ Len(Tail(Top.batch)) = Len(Top.batch) - 1
      /\ \A p \in 1 .. Len(Top.batch) - 1 : Tail(Top.batch)[p] = Top.batch[p + 1]
  BY <1>2, <1>3, HeadTailProperties, EmptySeq
<1>5. CASE TriggerCallback
  <2>1. Goto("callback", Top.batch)
    BY <1>5 DEF TriggerCallback
  <2>2. /\ Len(stack') = Len(stack)
        /\ \A i \in 1 .. Len(stack) - 1 : stack'[i] = stack[i]
        /\ stack'[Len(stack)] = Frame(Top.fn, "callback", Top.batch, Top.text)
    BY <1>1, <1>2, <2>1, GotoFacts
  <2> QED
    BY <1>1, <1>2, <1>4, <1>5, <2>2 DEF Depth, Frame, Top
<1>6. CASE ~TriggerCallback
  <2>1. Goto("dispatch", Tail(Top.batch))
    BY <1>6 DEF Dispatching, CallbackReturns, DropAction
  <2>2. /\ Len(stack') = Len(stack)
        /\ \A i \in 1 .. Len(stack) - 1 : stack'[i] = stack[i]
        /\ stack'[Len(stack)] = Frame(Top.fn, "dispatch", Tail(Top.batch), Top.text)
    BY <1>1, <1>2, <1>4, <2>1, GotoFacts
  <2> QED
    BY <1>1, <1>2, <1>4, <1>6, <2>2 DEF Depth, Frame, Top
<1> QED
  BY <1>5, <1>6

\* What becomes of the actions that are not at the top's head.
LEMMA DispatchBatches ==
  ASSUME IInv, Held, Dispatching, Popped' = Popped
  PROVE  Batches'
<1> DEFINE n == Len(stack)
<1>1. \A i \in Depth : i # n => stack'[i] = stack[i]
  BY DispatchFacts
<1>2. PICK d \in {0, 1} :
        /\ Len(stack'[n].batch) = Len(stack[n].batch) - d
        /\ \A p \in 1 .. Len(stack'[n].batch) :
             p + d \in 1 .. Len(stack[n].batch) /\ stack'[n].batch[p] = stack[n].batch[p + d]
  <2>1. CASE TriggerCallback
    <3>1. stack'[n].batch = stack[n].batch /\ Len(stack[n].batch) \in Nat
      BY <2>1, DispatchFacts
    <3> QED
      BY <3>1
  <2>2. CASE ~TriggerCallback
    <3>1. /\ stack'[n].batch = Tail(stack[n].batch) /\ Len(stack[n].batch) \in Nat \ {0}
          /\ Len(Tail(stack[n].batch)) = Len(stack[n].batch) - 1
          /\ \A p \in 1 .. Len(stack[n].batch) - 1 :
               Tail(stack[n].batch)[p] = stack[n].batch[p + 1]
      BY <2>2, DispatchFacts
    <3> QED
      BY <3>1
  <2> QED
    BY <2>1, <2>2
<1>3. n \in Depth /\ Depth' = Depth /\ Depth \subseteq Nat /\ Len(stack[n].batch) \in Nat
  BY DispatchFacts
<1>4. stack'[n].pc \in {"dispatch", "callback"}
  BY DispatchFacts
<1> HIDE DEF n
<1>5. ASSUME NEW i \in Depth
      PROVE  /\ stack'[i].batch # << >> => stack'[i].pc \in {"dispatch", "callback"}
             /\ \A p \in 1 .. Len(stack'[i].batch) : stack'[i].batch[p].id \in 1 .. Popped
             /\ \A p, q \in 1 .. Len(stack'[i].batch) :
                  p < q => stack'[i].batch[p].id < stack'[i].batch[q].id
  <2>1. CASE i = n
    <3>1. /\ \A p \in 1 .. Len(stack[n].batch) : stack[n].batch[p].id \in 1 .. Popped
          /\ \A p, q \in 1 .. Len(stack[n].batch) :
               p < q => stack[n].batch[p].id < stack[n].batch[q].id
      BY <1>3 DEF Held, Batches
    <3>2. \A p \in 1 .. Len(stack'[n].batch) : stack'[n].batch[p].id \in 1 .. Popped
      BY <1>2, <3>1
    <3>3. ASSUME NEW p \in 1 .. Len(stack'[n].batch), NEW q \in 1 .. Len(stack'[n].batch),
                 p < q
          PROVE  stack'[n].batch[p].id < stack'[n].batch[q].id
      <4>1. p + d < q + d
        BY <3>3
      <4> QED
        BY <1>2, <3>1, <4>1
    <3> QED
      BY <1>4, <2>1, <3>2, <3>3
  <2>2. CASE i # n
    BY <1>1, <2>2 DEF Held, Batches
  <2> QED
    BY <2>1, <2>2
<1>6. \A i \in Depth : \A p \in 1 .. Len(stack'[i].batch) :
        \E q \in 1 .. Len(stack[i].batch) : stack'[i].batch[p] = stack[i].batch[q]
  BY <1>1, <1>2
<1>7. ASSUME NEW i \in Depth, NEW j \in Depth, i < j,
             NEW p \in 1 .. Len(stack'[i].batch), NEW q \in 1 .. Len(stack'[j].batch)
      PROVE  stack'[i].batch[p].id < stack'[j].batch[q].id
  <2>1. PICK r \in 1 .. Len(stack[i].batch) : stack'[i].batch[p] = stack[i].batch[r]
    BY <1>6
  <2>2. PICK s \in 1 .. Len(stack[j].batch) : stack'[j].batch[q] = stack[j].batch[s]
    BY <1>6
  <2> QED
    BY <1>7, <2>1, <2>2 DEF Held, Batches
<1> QED
  BY <1>3, <1>5, <1>7 DEF Batches

\* The head of the dispatching batch is executed, and neither called back nor
\* dropped so far.
LEMMA HeadPending ==
  ASSUME IInv, Held, TriggerCallback \/ DropAction
  PROVE  /\ Top.pc = "dispatch" /\ 1 \in Ready(Top)
         /\ Head(Top.batch).id \in 1 .. Popped /\ Head(Top.batch).id \notin Gone
<1>1. /\ Len(stack) \in Depth /\ Top = stack[Len(stack)]
      /\ Len(Top.batch) \in Nat \ {0} /\ Head(Top.batch) = Top.batch[1]
  BY DispatchFacts DEF Dispatching
<1>2. Top.pc = "dispatch"
  BY DEF TriggerCallback, DropAction, At
<1>3. 1 \in 1 .. Len(Top.batch) /\ 1 \in Ready(Top)
  BY <1>1, <1>2 DEF Ready
<1> QED
  BY <1>1, <1>2, <1>3 DEF Held, Batches, Dispatched

\* What is ready after a step of the dispatch loop was ready before, and is
\* not the action just dispatched; nothing else stops being ready.
LEMMA DispatchReady ==
  ASSUME IInv, Numbered, Held, Dispatching
  PROVE  /\ \A i \in Depth : \A p \in Ready(stack'[i]) :
              /\ \E q \in Ready(stack[i]) : stack'[i].batch[p] = stack[i].batch[q]
              /\ Top.pc = "dispatch" => stack'[i].batch[p].id # Head(Top.batch).id
         /\ \A i \in Depth : \A q \in Ready(stack[i]) :
              \/ \E p \in Ready(stack'[i]) : stack'[i].batch[p] = stack[i].batch[q]
              \/ Top.pc = "dispatch" /\ stack[i].batch[q] = Head(Top.batch)
<1> DEFINE n == Len(stack)
<1> DEFINE b == stack[n].batch
<1>1. /\ n \in Depth /\ Depth \subseteq Nat
      /\ \A i \in Depth : i # n => i < n /\ stack'[i] = stack[i]
      /\ Top = stack[n] /\ Len(b) \in Nat \ {0} /\ Head(b) = b[1]
  BY DispatchFacts
<1>2. /\ TriggerCallback => stack'[n].batch = b /\ stack'[n].pc = "callback"
      /\ ~TriggerCallback =>
           /\ stack'[n].pc = "dispatch"
           /\ Len(stack'[n].batch) = Len(b) - 1
           /\ \A p \in 1 .. Len(b) - 1 : stack'[n].batch[p] = b[p + 1]
  BY DispatchFacts
<1>3. Top.pc = "dispatch" \/ (Top.pc = "callback" /\ ~TriggerCallback)
  BY DEF Dispatching, TriggerCallback, CallbackReturns, DropAction, At
<1> HIDE DEF n
<1>4. /\ \A p, q \in 1 .. Len(b) : p < q => b[p].id < b[q].id
      /\ \A p \in 1 .. Len(b) : b[p].id \in Nat
      /\ \A i \in Depth : i < n => \A p \in 1 .. Len(stack[i].batch), q \in 1 .. Len(b) :
           stack[i].batch[p].id < b[q].id
      /\ \A i \in Depth : \A p \in 1 .. Len(stack[i].batch) : stack[i].batch[p].id \in Nat
  <2>1. \A i \in Depth : \A p \in 1 .. Len(stack[i].batch) : stack[i].batch[p].id \in Nat
    <3>1. 1 .. Popped \subseteq Nat
      BY Counts
    <3>2. \A i \in Depth : \A p \in 1 .. Len(stack[i].batch) :
            stack[i].batch[p].id \in 1 .. Popped
      BY DEF Held, Batches
    <3> QED
      BY <3>1, <3>2
  <2> QED
    BY <1>1, <2>1 DEF Held, Batches
<1>5. 1 \in 1 .. Len(b) /\ \A p \in 1 .. Len(b) : p # 1 => b[p].id # b[1].id
  BY <1>1, <1>4
<1>6. \A i \in Depth : i # n => Ready(stack'[i]) = Ready(stack[i]) /\ stack'[i] = stack[i]
  BY <1>1
<1>7. \A i \in Depth : i # n => \A p \in Ready(stack[i]) : stack[i].batch[p].id # b[1].id
  <2>1. ASSUME NEW i \in Depth, i # n, NEW p \in Ready(stack[i])
        PROVE  stack[i].batch[p].id # b[1].id
    <3>1. p \in 1 .. Len(stack[i].batch) /\ i < n
      BY <1>1, <2>1 DEF Ready
    <3>2. /\ stack[i].batch[p].id < b[1].id
          /\ stack[i].batch[p].id \in Nat /\ b[1].id \in Nat
      BY <1>4, <1>5, <3>1
    <3> QED
      BY <3>2
  <2> QED
    BY <2>1
<1>8. ASSUME NEW p \in Ready(stack'[n])
      PROVE  \E q \in Ready(stack[n]) : q # 1 /\ stack'[n].batch[p] = b[q]
  <2>1. CASE TriggerCallback
    BY <1>1, <1>2, <1>3, <1>8, <2>1 DEF Ready
  <2>2. CASE ~TriggerCallback
    <3>1. p \in 1 .. Len(b) - 1
      BY <1>2, <1>8, <2>2 DEF Ready
    <3>2. p + 1 \in 1 .. Len(b) /\ p + 1 # 1
      BY <1>1, <3>1
    <3>3. p + 1 \in Ready(stack[n])
      BY <3>2 DEF Ready
    <3> QED
      BY <1>2, <2>2, <3>1, <3>2, <3>3
  <2> QED
    BY <2>1, <2>2
<1>9. ASSUME NEW q \in Ready(stack[n]), q # 1
      PROVE  \E p \in Ready(stack'[n]) : stack'[n].batch[p] = b[q]
  <2>1. CASE TriggerCallback
    BY <1>1, <1>2, <1>3, <1>9, <2>1 DEF Ready
  <2>2. CASE ~TriggerCallback
    <3>1. q \in 1 .. Len(b)
      BY DEF Ready
    <3>2. q - 1 \in 1 .. Len(b) - 1 /\ (q - 1) + 1 = q
      BY <1>1, <1>9, <3>1
    <3>3. q - 1 \in Ready(stack'[n])
      BY <1>2, <2>2, <3>2 DEF Ready
    <3> QED
      BY <1>2, <2>2, <3>2, <3>3
  <2> QED
    BY <2>1, <2>2
<1>10. ASSUME NEW i \in Depth, NEW p \in Ready(stack'[i])
       PROVE  /\ \E q \in Ready(stack[i]) : stack'[i].batch[p] = stack[i].batch[q]
              /\ Top.pc = "dispatch" => stack'[i].batch[p].id # Head(Top.batch).id
  <2>1. CASE i = n
    <3>1. PICK q \in Ready(stack[n]) : q # 1 /\ stack'[n].batch[p] = b[q]
      BY <1>8, <2>1
    <3> QED
      BY <1>1, <1>5, <2>1, <3>1 DEF Ready
  <2>2. CASE i # n
    BY <1>1, <1>6, <1>7, <2>2
  <2> QED
    BY <2>1, <2>2
<1>11. ASSUME NEW i \in Depth, NEW q \in Ready(stack[i])
       PROVE  \/ \E p \in Ready(stack'[i]) : stack'[i].batch[p] = stack[i].batch[q]
              \/ Top.pc = "dispatch" /\ stack[i].batch[q] = Head(Top.batch)
  <2>1. CASE i = n /\ q # 1
    BY <1>9, <2>1
  <2>2. CASE i = n /\ q = 1
    BY <1>1, <1>3, <2>2 DEF Ready
  <2>3. CASE i # n
    BY <1>6, <2>3
  <2> QED
    BY <2>1, <2>2, <2>3
<1> QED
  BY <1>10, <1>11

\* A callback's action is gone when the callback is entered, a dropped one
\* when it is deleted.
LEMMA DispatchGone ==
  ASSUME IInv, Dispatching
  PROVE  Gone' = IF Top.pc = "dispatch" THEN Gone \cup {Head(Top.batch).id} ELSE Gone
<1>1. called \in Seq(Nat) /\ Len(called) \in Nat
  BY DEF IInv, TypeOK
<1>2. CASE TriggerCallback
  <2>1. Head(Top.batch).id \in Nat
    <3>1. /\ Top.batch \in Seq(Jobs) /\ Len(Top.batch) \in Nat \ {0}
          /\ Head(Top.batch) = Top.batch[1]
      BY DispatchFacts
    <3>2. Top.batch[1] \in Jobs
      BY <3>1
    <3> QED
      BY <3>1, <3>2 DEF Jobs
  <2>2. /\ called' = Append(called, Head(Top.batch).id) /\ dropped' = dropped
        /\ Top.pc = "dispatch"
    BY <1>2 DEF TriggerCallback, At
  <2>3. /\ Len(called') = Len(called) + 1 /\ called'[Len(called) + 1] = Head(Top.batch).id
        /\ \A i \in 1 .. Len(called) : called'[i] = called[i]
    BY <1>1, <2>1, <2>2
  <2>4. 1 .. Len(called') = 1 .. Len(called) \cup {Len(called) + 1}
    BY <1>1, <2>3
  <2>5. {called'[i] : i \in 1 .. Len(called')} =
          {called[i] : i \in 1 .. Len(called)} \cup {Head(Top.batch).id}
    BY <2>3, <2>4
  <2> QED
    BY <2>2, <2>5 DEF Gone
<1>3. CASE DropAction
  <2>1. /\ dropped' = dropped \cup {Head(Top.batch).id} /\ called' = called
        /\ Top.pc = "dispatch"
    BY <1>3 DEF DropAction, At
  <2> QED
    BY <2>1 DEF Gone
<1>4. CASE CallbackReturns
  <2>1. UNCHANGED <<called, dropped>> /\ Top.pc = "callback"
    BY <1>4 DEF CallbackReturns, At, histVars
  <2> QED
    BY <2>1 DEF Gone
<1> QED
  BY <1>2, <1>3, <1>4 DEF Dispatching

LEMMA DispatchingHeld ==
  ASSUME IInv, Numbered, Held, Dispatching, Popped' = Popped
  PROVE  Held'
<1>1. Batches'
  BY DispatchBatches
<1>2. Depth' = Depth /\ Popped \in Nat
  BY DispatchFacts, Counts
<1>3. /\ Gone \subseteq 1 .. Popped
      /\ \A i \in Depth : \A p \in Ready(stack[i]) : stack[i].batch[p].id \notin Gone
      /\ \A k \in 1 .. Popped : k \notin Gone =>
           \E i \in Depth : \E p \in Ready(stack[i]) : stack[i].batch[p].id = k
  BY DEF Held, Dispatched
<1>4. /\ Gone' = IF Top.pc = "dispatch" THEN Gone \cup {Head(Top.batch).id} ELSE Gone
      /\ Top.pc = "dispatch" => Head(Top.batch).id \in 1 .. Popped
  <2>1. Top.pc = "dispatch" => TriggerCallback \/ DropAction
    BY DEF Dispatching, CallbackReturns, At
  <2> QED
    BY <2>1, DispatchGone, HeadPending
<1>5. Dispatched'
  <2>1. Gone' \subseteq 1 .. Popped
    BY <1>3, <1>4
  <2>2. ASSUME NEW i \in Depth, NEW p \in Ready(stack'[i])
        PROVE  stack'[i].batch[p].id \notin Gone'
    <3>1. /\ \E q \in Ready(stack[i]) : stack'[i].batch[p] = stack[i].batch[q]
          /\ Top.pc = "dispatch" => stack'[i].batch[p].id # Head(Top.batch).id
      BY DispatchReady
    <3> QED
      BY <1>3, <1>4, <3>1
  <2>3. ASSUME NEW k \in 1 .. Popped, k \notin Gone'
        PROVE  \E i \in Depth : \E p \in Ready(stack'[i]) : stack'[i].batch[p].id = k
    <3>1. PICK i \in Depth : \E q \in Ready(stack[i]) : stack[i].batch[q].id = k
      BY <1>3, <1>4, <2>3
    <3>2. PICK q \in Ready(stack[i]) : stack[i].batch[q].id = k
      BY <3>1
    <3>3. \/ \E p \in Ready(stack'[i]) : stack'[i].batch[p] = stack[i].batch[q]
          \/ Top.pc = "dispatch" /\ stack[i].batch[q] = Head(Top.batch)
      BY DispatchReady
    <3> QED
      BY <1>4, <2>3, <3>2, <3>3
  <2> QED
    BY <1>2, <2>1, <2>2, <2>3 DEF Dispatched
<1>6. InOrder'
  <2> SUFFICES ASSUME ~reentered'
               PROVE  /\ \A i, j \in 1 .. Len(called') : i < j => called'[i] < called'[j]
                      /\ \A m \in 1 .. Len(called') : \A i \in Depth : \A p \in Ready(stack'[i]) :
                           called'[m] < stack'[i].batch[p].id
    BY <1>2 DEF InOrder
  <2>1. /\ \A i, j \in 1 .. Len(called) : i < j => called[i] < called[j]
        /\ \A m \in 1 .. Len(called) : \A i \in Depth : \A p \in Ready(stack[i]) :
             called[m] < stack[i].batch[p].id
    BY DispatchFacts DEF Held, InOrder
  <2>2. \A m \in 1 .. Len(called) : \A i \in Depth : \A p \in Ready(stack'[i]) :
          called[m] < stack'[i].batch[p].id
    BY <2>1, DispatchReady
  <2>3. CASE ~TriggerCallback
    <3>1. called' = called
      BY <2>3 DEF Dispatching, CallbackReturns, DropAction, histVars
    <3> QED
      BY <2>1, <2>2, <3>1
  <2>4. CASE TriggerCallback
    <3> DEFINE h == Head(Top.batch).id
    <3>1. /\ Len(stack) = 1 /\ Depth = {1} /\ Top = stack[1]
          /\ Len(Top.batch) \in Nat \ {0} /\ Head(Top.batch) = Top.batch[1]
          /\ stack'[1].batch = Top.batch /\ stack'[1].pc = "callback"
      <4>1. Len(stack) \in Depth /\ Top.fn \in {"Poll", "Disconnect"} /\ ~reentered
        BY DispatchFacts
      <4>2. Len(stack) = 1
        BY <4>1, DispatchFacts DEF IInv, Disconnecting
      <4> QED
        BY <2>4, <4>2, DispatchFacts DEF Depth
    <3>2. h \in Nat /\ called \in Seq(Nat) /\ called' = Append(called, h)
      BY <2>4, HeadPending, <1>2 DEF TriggerCallback, IInv, TypeOK
    <3>3. 1 \in Ready(stack[1]) /\ stack[1].batch[1].id = h
      BY <2>4, <3>1, HeadPending
    <3>4. \A p \in Ready(stack'[1]) : h < stack'[1].batch[p].id
      <4>1. \A p \in Ready(stack'[1]) : p \in 1 .. Len(Top.batch) /\ p # 1
        BY <3>1 DEF Ready
      <4>2. \A p, q \in 1 .. Len(stack[1].batch) :
              p < q => stack[1].batch[p].id < stack[1].batch[q].id
        BY <3>1 DEF Held, Batches
      <4>3. 1 \in 1 .. Len(Top.batch) /\ \A p \in Ready(stack'[1]) : 1 < p
        BY <3>1, <4>1
      <4> QED
        BY <3>1, <4>1, <4>2, <4>3
    <3> HIDE DEF h
    <3>5. /\ Len(called) \in Nat /\ Len(called') = Len(called) + 1
          /\ called'[Len(called) + 1] = h
          /\ \A i \in 1 .. Len(called) : called'[i] = called[i] /\ called[i] < h
      BY <2>1, <3>1, <3>2, <3>3
    <3>6. \A m \in 1 .. Len(called') : m \in 1 .. Len(called) \/ m = Len(called) + 1
      BY <3>5
    <3>7. \A i, j \in 1 .. Len(called') : i < j =>
            i \in 1 .. Len(called) /\ (j \in 1 .. Len(called) \/ j = Len(called) + 1)
      BY <3>5
    <3>8. \A i, j \in 1 .. Len(called') : i < j => called'[i] < called'[j]
      BY <2>1, <3>5, <3>7
    <3> QED
      BY <2>2, <3>1, <3>4, <3>5, <3>6, <3>8
  <2> QED
    BY <2>3, <2>4
<1> QED
  BY <1>1, <1>5, <1>6 DEF Held

-----------------------------------------------------------------------------
(* Frames that come, go and fill.                                          *)

LEMMA StackKeptHeld ==
  ASSUME Held, Popped' = Popped, UNCHANGED <<stack, called, dropped>>,
         reentered => reentered'
  PROVE  Held'
BY KeptHeld DEF Depth

LEMMA EnterHeld ==
  ASSUME IInv, Held, NEW f \in Frames, Enter(f), f.batch = << >>,
         Popped' = Popped, UNCHANGED <<called, dropped>>, reentered => reentered'
  PROVE  Held'
<1>1. stack \in Seq(Frames)
  BY DEF IInv, TypeOK
<1>2. /\ Len(stack') = Len(stack) + 1 /\ Len(stack) \in Nat
      /\ \A i \in Depth : stack'[i] = stack[i]
      /\ stack'[Len(stack')] = f
  BY <1>1, EnterFacts
<1>3. \A i \in Depth' : i \in Depth \/ i = Len(stack')
  BY <1>2 DEF Depth
<1>4. Depth \subseteq Depth'
  BY <1>2 DEF Depth
<1> QED
  BY <1>2, <1>3, <1>4, KeptHeld

LEMMA ReturnHeld ==
  ASSUME IInv, Held, stack # << >>, Return, Top.batch = << >>,
         Popped' = Popped, UNCHANGED <<called, dropped>>, reentered => reentered'
  PROVE  Held'
<1>1. stack \in Seq(Frames)
  BY DEF IInv, TypeOK
<1>2. /\ Len(stack') = Len(stack) - 1 /\ Len(stack) \in Nat \ {0}
      /\ \A i \in 1 .. Len(stack) - 1 : stack'[i] = stack[i]
  BY <1>1, ReturnFacts
<1>3. Depth' = 1 .. Len(stack) - 1 /\ \A i \in Depth : i \in Depth' \/ i = Len(stack)
  BY <1>2 DEF Depth
<1>4. Depth' \subseteq Depth
  BY <1>2, <1>3 DEF Depth
<1> QED
  BY <1>2, <1>3, <1>4, KeptHeld DEF Top

\* Goto on a frame without a batch: nothing is put in it.
LEMMA GotoHeld ==
  ASSUME IInv, Held, stack # << >>, Top.batch = << >>, Goto("connectcb", << >>),
         Popped' = Popped, UNCHANGED <<called, dropped>>, reentered => reentered'
  PROVE  Held'
<1>1. stack \in Seq(Frames) /\ << >> \in Seq(Jobs)
  BY DEF IInv, TypeOK
<1>2. /\ Len(stack') = Len(stack) /\ Len(stack) \in Nat \ {0}
      /\ \A i \in 1 .. Len(stack) - 1 : stack'[i] = stack[i]
      /\ stack'[Len(stack)] = Frame(Top.fn, "connectcb", << >>, Top.text)
  BY <1>1, GotoFacts
<1>3. stack'[Len(stack)].batch = << >>
  BY <1>2 DEF Frame
<1>4. Depth' = Depth /\ \A i \in Depth : i \in 1 .. Len(stack) - 1 \/ i = Len(stack)
  BY <1>2 DEF Depth
<1> QED
  BY <1>2, <1>3, <1>4, KeptHeld DEF Top

\* A new frame with the popped actions.
LEMMA EnterFilledHeld ==
  ASSUME IInv, Numbered, Held, Enter(Frame("Poll", "dispatch", completed, None)),
         Popped' = Done, UNCHANGED <<called, dropped>>, reentered => reentered'
  PROVE  Held'
<1> DEFINE f == Frame("Poll", "dispatch", completed, None)
<1>1. stack \in Seq(Frames) /\ completed \in Seq(Jobs)
  BY DEF IInv, TypeOK
<1>2. f \in Frames /\ f.batch = completed /\ f.pc = "dispatch"
  BY <1>1 DEF Frame, Frames
<1> HIDE DEF f
<1>3. /\ Len(stack') = Len(stack) + 1 /\ Len(stack) \in Nat
      /\ \A i \in Depth : stack'[i] = stack[i]
      /\ stack'[Len(stack')] = f
  BY <1>1, <1>2, EnterFacts DEF f
<1> DEFINE n == Len(stack')
<1>4. /\ n \in Depth'
      /\ \A i \in Depth' : i = n \/ (i \in Depth /\ i < n)
      /\ \A i \in Depth : i \in Depth' /\ i # n
  BY <1>3 DEF Depth
<1>5. stack'[n].pc = "dispatch" /\ stack'[n].batch = completed
  BY <1>2, <1>3
<1> HIDE DEF n
<1> QED
  BY <1>3, <1>4, <1>5, FilledHeld

\* The frame on top, empty so far, takes the popped actions.
LEMMA GotoFilledHeld ==
  ASSUME IInv, Numbered, Held, stack # << >>, Top.batch = << >>,
         Goto("dispatch", completed),
         Popped' = Done, UNCHANGED <<called, dropped>>, reentered => reentered'
  PROVE  Held'
<1>1. stack \in Seq(Frames) /\ completed \in Seq(Jobs)
  BY DEF IInv, TypeOK
<1>2. /\ Len(stack') = Len(stack) /\ Len(stack) \in Nat \ {0}
      /\ \A i \in 1 .. Len(stack) - 1 : stack'[i] = stack[i]
      /\ stack'[Len(stack)] = Frame(Top.fn, "dispatch", completed, Top.text)
  BY <1>1, GotoFacts
<1> DEFINE n == Len(stack)
<1>3. stack'[n].pc = "dispatch" /\ stack'[n].batch = completed /\ stack[n].batch = << >>
  BY <1>2 DEF Frame, Top
<1>4. /\ n \in Depth' /\ Depth' = Depth
      /\ \A i \in Depth' : i = n \/ (i < n /\ stack'[i] = stack[i])
  BY <1>2 DEF Depth
<1> HIDE DEF n
<1> QED
  BY <1>3, <1>4, FilledHeld

\* Outside a dispatch loop a frame has no batch.
LEMMA EmptyTop ==
  ASSUME IInv, Held, stack # << >>, Top.pc \notin {"dispatch", "callback"}
  PROVE  Top.batch = << >>
<1>1. Len(stack) \in Depth
  BY TopType DEF IInv, TypeOK
<1> QED
  BY <1>1 DEF Held, Batches, Top

-----------------------------------------------------------------------------
(* Every step preserves the invariant.                                     *)

LEMMA IoStepSInv ==
  ASSUME IInv, SInv, IoStep
  PROVE  /\ SInv' /\ Popped' = Popped /\ issued' = issued
         /\ IF IoPush THEN Done' = Done + 1 /\ Done + 1 <= issued ELSE Done' = Done
         /\ UNCHANGED <<called, dropped>>
<1>1. Numbered /\ Held /\ Lateness
  BY DEF SInv
<1>2. UNCHANGED <<stack, called, dropped, reentered>>
  BY DEF IoStep, IoTake, IoFinish, IoExit, IoStatementGone, IoRun, IoServerLost, IoReconnect,
         IoReconnectFails, IoReprepareThrows, IoPush, IoCreate, luaVars, histVars
<1>3. CASE IoPush
  <2>1. Lateness'
    BY <1>1, <1>3, IoPushNumbers, KeptLate DEF IoPush, ioCtxVars, histVars
  <2> QED
    BY <1>1, <1>2, <1>3, <2>1, IoPushNumbers, StackKeptHeld DEF SInv
<1>4. CASE ~IoPush
  <2>1. Numbered' /\ Popped' = Popped /\ Done' = Done /\ issued' = issued
    <3>1. CASE IoExit
      <4>1. UNCHANGED <<work, cur, iopc, completed, issued, alloc, late>>
        BY <3>1 DEF IoExit, runVars, histVars
      <4> QED
        BY <1>1, <4>1, SameNumbers
    <3>2. CASE IoMove
      BY <1>1, <3>2, IoMoveNumbers
    <3> QED
      BY <1>1, <1>4, <3>1, <3>2, IoTakeNumbers, IoFinishNumbers, IoCreateNumbers
      DEF IoStep, IoMove
  <2>2. Lateness'
    <3>1. CASE IoExit
      <4>1. Started' = Started
        BY <1>1, <3>1, SameNumbers DEF IoExit, runVars, histVars
      <4> QED
        BY <1>1, <3>1, <4>1, KeptLate DEF IoExit, histVars
    <3>2. CASE IoMove
      <4>1. UNCHANGED <<work, alloc, late, issued, stopped, thread>>
        BY <3>2 DEF IoMove, IoRun, IoServerLost, IoReconnect, IoReconnectFails,
                    IoReprepareThrows, IoStatementGone, ioCtxVars, histVars
      <4> QED
        BY <1>1, <3>2, <4>1, IoMoveNumbers, KeptLate
    <3>3. CASE IoTake
      <4>1. alloc
        BY <3>3, AllocWhileRunning DEF IoTake
      <4> QED
        BY <1>1, <3>3, <4>1 DEF IoTake, Lateness, histVars
    <3>4. CASE IoFinish
      <4>1. alloc
        BY <3>4, AllocWhileRunning DEF IoFinish
      <4>2. /\ UNCHANGED <<work, alloc, late, issued, thread>>
            /\ stopped' = stopped \/ (stopped' = TRUE /\ work = << >>)
        BY <3>4 DEF IoFinish, OutOfWork, histVars, IInv, TypeOK
      <4> QED
        BY <1>1, <3>4, <4>1, <4>2, IoFinishNumbers, StopsLate
    <3>5. ASSUME NEW result \in {"ok", "err"}, IoCreate(result)
          PROVE  Lateness'
      BY <1>1, <3>5, IoCreateNumbers, KeptLate DEF IoCreate, ioCtxVars, histVars
    <3> QED
      BY <1>4, <3>1, <3>2, <3>3, <3>4, <3>5 DEF IoStep, IoMove
  <2> QED
    BY <1>1, <1>2, <1>4, <2>1, <2>2, StackKeptHeld DEF SInv
<1> QED
  BY <1>3, <1>4

\* What a step of the Lua thread other than Query, Run, Call and Drop leaves
\* alone, seen from QueryService.
Quiet == Done' = Done /\ UNCHANGED <<issued, called, dropped>>

LEMMA QuerySInv ==
  ASSUME IInv, SInv,
         \/ \E cb \in BOOLEAN : lua_Query(cb)
         \/ \E t \in Texts, cb \in BOOLEAN : lua_Run(t, cb)
  PROVE  SInv' /\ issued' = issued + 1 /\ Done' = Done /\ UNCHANGED <<called, dropped>>
<1>1. Numbered /\ Held /\ Lateness
  BY DEF SInv
<1>2. PICK job \in Jobs : Post(job) /\ job.kind # "create" /\ job.id = NextId
  <2>1. NextId \in Nat
    BY DEF IInv, TypeOK, NextId
  <2>2. \A cb \in BOOLEAN : \A t \in Texts :
          /\ [kind |-> "query", id |-> NextId, text |-> None, cb |-> cb] \in Jobs
          /\ [kind |-> "stmt", id |-> NextId, text |-> t, cb |-> cb] \in Jobs
    BY <2>1 DEF Jobs
  <2>3. \A cb \in BOOLEAN : [kind |-> "query", id |-> NextId, text |-> None, cb |-> cb] \in Jobs
    BY <2>1 DEF Jobs
  <2> QED
    BY <2>2, <2>3 DEF lua_Query, lua_Run
<1>3. /\ Accept /\ issued' = NextId /\ (stack # << >> => InCallback)
      /\ UNCHANGED <<completed, cur, iopc, stack, alloc, stopped, thread,
                     called, dropped, reentered>>
  BY DEF lua_Query, lua_Run, Accept, Script, luaVars, runVars
<1>6. alloc /\ thread # "none"
  <2>1. connected \/ cache # {}
    BY DEF lua_Query, lua_Run, UsableConnected
  <2> QED
    BY <2>1, AllocWhileRunning DEF IInv, Worker
<1>4. Numbered' /\ Popped' = Popped /\ Done' = Done /\ Started' = Started
  BY <1>1, <1>2, <1>3, <1>6, QueueNumbers
<1>5. Held' /\ Lateness'
  BY <1>1, <1>3, <1>4, <1>6, StackKeptHeld, QueueLate
<1> QED
  BY <1>3, <1>4, <1>5 DEF SInv, NextId

LEMMA PrepareSInv ==
  ASSUME IInv, SInv, NEW t \in Texts, lua_Prepare(t)
  PROVE  SInv' /\ Quiet
<1> DEFINE f == Frame("Prepare", "await", << >>, t)
<1>1. f \in Frames /\ f.batch = << >>
  BY DEF Frame, Frames
<1>2. Enter(f) /\ UNCHANGED <<called, dropped, reentered>>
  BY DEF lua_Prepare, histVars
<1> HIDE DEF f
<1>3. /\ Numbered' /\ Popped' = Popped /\ Done' = Done /\ issued' = issued
      /\ Started' = Started
  BY PrepareNumbers DEF SInv
<1>4. Held'
  BY <1>1, <1>2, <1>3, EnterHeld DEF SInv
<1>5. Lateness'
  <2>1. connected /\ UNCHANGED <<alloc, late, issued, stopped, thread>>
    BY DEF lua_Prepare, UsableConnected, histVars
  <2>2. alloc /\ thread # "none"
    BY <2>1, AllocWhileRunning DEF IInv, Worker
  <2> QED
    BY <1>3, <2>1, <2>2 DEF SInv, Lateness
<1> QED
  BY <1>2, <1>3, <1>4, <1>5 DEF SInv, Quiet

\* Poll, while the connect callback is pending or not.
LEMMA PollSInv ==
  ASSUME IInv, SInv, lua_Poll
  PROVE  SInv' /\ Quiet
<1>1. /\ UNCHANGED <<work, cur, iopc, issued, called, dropped, alloc, late, stopped, thread>>
      /\ reentered => reentered'
  BY DEF lua_Poll, ioCtxVars, runVars
<1>2. CASE pendingCB /\ connectCB = "held"
  <2> DEFINE f == Frame("Poll", "connectcb", << >>, None)
  <2>1. f \in Frames /\ f.batch = << >>
    BY DEF Frame, Frames
  <2>2. Enter(f) /\ completed' = completed
    BY <1>2 DEF lua_Poll
  <2> HIDE DEF f
  <2>3. Numbered' /\ Popped' = Popped /\ Done' = Done /\ Started' = Started
    BY <1>1, <2>2, SameNumbers DEF SInv
  <2> QED
    BY <1>1, <2>1, <2>2, <2>3, EnterHeld, KeptLate DEF SInv, Quiet
<1>3. CASE ~(pendingCB /\ connectCB = "held")
  <2>1. Enter(Frame("Poll", "dispatch", completed, None)) /\ PopAll
    BY <1>3 DEF lua_Poll
  <2>2. Numbered' /\ Popped' = Done /\ Done' = Done /\ Started' = Started
    BY <1>1, <2>1, PopNumbers DEF SInv
  <2> QED
    BY <1>1, <2>1, <2>2, EnterFilledHeld, KeptLate DEF SInv, Quiet
<1> QED
  BY <1>2, <1>3

\* Frames entered without a batch: Disconnect, and a failed Connect.
LEMMA EnteringSInv ==
  ASSUME IInv, SInv, lua_ConnectFails \/ lua_Disconnect \/ Database_gc
  PROVE  SInv' /\ Quiet
<1>1. /\ UNCHANGED <<work, cur, iopc, completed, issued, called, dropped, alloc, late, thread>>
      /\ reentered => reentered'
      /\ alloc
      /\ stopped' = stopped \/ (stopped' = TRUE /\ work = << >>)
  <2>1. CASE lua_ConnectFails
    BY <2>1 DEF lua_ConnectFails, ioCtxVars, runVars, histVars, Usable, IInv, Deleted
  <2>2. CASE lua_Disconnect
    BY <2>2 DEF lua_Disconnect, Disconnect, ResetGuard, runVars, UsableConnected, IInv,
                Deleted, TypeOK
  <2>3. CASE Database_gc
    BY <2>3 DEF Database_gc, Disconnect, ResetGuard, runVars, histVars, IInv,
                Deleted, TypeOK
  <2> QED
    BY <2>1, <2>2, <2>3
<1>2. PICK f \in Frames : Enter(f) /\ f.batch = << >>
  <2>1. /\ Frame("Connect", "release", << >>, None) \in Frames
        /\ Frame("Connect", "release", << >>, None).batch = << >>
        /\ Frame("Disconnect", "spin", << >>, None) \in Frames
        /\ Frame("Disconnect", "spin", << >>, None).batch = << >>
    BY DEF Frame, Frames
  <2> QED
    BY <2>1 DEF lua_ConnectFails, lua_Disconnect, Database_gc, Disconnect
<1>3. Numbered' /\ Popped' = Popped /\ Done' = Done /\ Started' = Started
  BY <1>1, SameNumbers DEF SInv
<1>4. Lateness'
  BY <1>1, <1>3, StopsLate DEF SInv
<1> QED
  BY <1>1, <1>2, <1>3, <1>4, EnterHeld DEF SInv, Quiet

\* Steps that leave the stack and the queues alone.
LEMMA StillSInv ==
  ASSUME IInv, SInv,
         \/ lua_Connect \/ Close \/ (\E t \in Texts : PStatement_gc(t))
         \/ DispatchFreed \/ ReleaseFaults \/ (ConnectCallbackReturns /\ ~alloc)
         \/ UNCHANGED vars
  PROVE  SInv' /\ Quiet
<1>1. /\ UNCHANGED <<stack, work, cur, iopc, completed, issued, called, dropped, reentered,
                     alloc, late, stopped>>
      /\ thread' = "none" => thread = "none"
  BY DEF lua_Connect, Initialize, Close, PStatement_gc, DispatchFreed, ReleaseFaults,
         ConnectCallbackReturns, vars, luaVars, ioCtxVars, runVars, histVars
<1>2. Numbered' /\ Popped' = Popped /\ Done' = Done /\ Started' = Started
  BY <1>1, SameNumbers DEF SInv
<1> QED
  BY <1>1, <1>2, StackKeptHeld, KeptLate DEF SInv, Quiet

\* A frame whose batch is empty returns.
LEMMA ReturningSInv ==
  ASSUME IInv, SInv,
         \/ PrepareReturns \/ PollReturns \/ Release \/ TmysqlConnectFails
         \/ ConnectCallbackReturns /\ alloc /\ Top.fn # "Poll"
         \/ TmysqlConnect /\ connectCB # "held"
  PROVE  SInv' /\ Quiet
<1>1. /\ UNCHANGED <<cur, iopc, completed, issued, late, stopped, called, dropped, reentered>>
      /\ Return /\ stack # << >>
  BY DEF PrepareReturns, PollReturns, Release, Releasing, TmysqlConnectFails, ReturnError,
         ConnectCallbackReturns, TmysqlConnect, At, ioCtxVars, runVars, histVars
<1>2. Top.batch = << >> \/ Top.pc \in {"await", "release", "init", "connectcb"}
  BY DEF PrepareReturns, PollReturns, Release, Releasing, TmysqlConnectFails,
         ConnectCallbackReturns, TmysqlConnect, At
<1>3. Top.batch = << >>
  BY <1>1, <1>2, EmptyTop DEF SInv
<1>4. Numbered' /\ Popped' = Popped /\ Done' = Done /\ Lateness'
  <2>1. CASE ~(Release \/ TmysqlConnectFails)
    <3>1. UNCHANGED <<work, alloc>> /\ (thread' = "none" => thread = "none")
      BY <2>1 DEF PrepareReturns, PollReturns, ConnectCallbackReturns, TmysqlConnect,
                  Initialize, ioCtxVars
    <3> QED
      BY <1>1, <3>1, SameNumbers, KeptLate DEF SInv
  <2>2. CASE Release
    <3>1. Len(stack) \in Depth
      BY <1>1, TopType DEF IInv, TypeOK
    <3>2. alloc /\ ~alloc' /\ work' = << >> /\ thread = "exited"
      BY <2>2 DEF Release, JoinThread
    <3>3. stopped /\ cur = None
      <4>1. Top.pc # "release"
        BY <3>1, <3>2 DEF IInv, FramesOwn, Worker, Top
      <4>2. Top.fn = "Disconnect" /\ Top.pc = "dispatch"
        BY <2>2, <4>1 DEF Release, Releasing, At
      <4> QED
        BY <3>1, <3>2, <4>2 DEF IInv, Disconnecting, Worker, Top
    <3> QED
      BY <1>1, <3>2, <3>3, DeletedLate DEF SInv
  <2>3. CASE TmysqlConnectFails
    <3>1. Len(stack) \in Depth
      BY <1>1, TopType DEF IInv, TypeOK
    <3>2. ~alloc' /\ work' = work /\ Top.pc = "init"
      BY <2>3 DEF TmysqlConnectFails, At, ioCtxVars
    <3>3. alloc /\ thread = "none" /\ cur = None
      BY <3>1, <3>2 DEF IInv, FramesOwn, Worker, Top
    <3>4. work = << >>
      BY <3>3 DEF SInv, Lateness
    <3> QED
      BY <1>1, <3>2, <3>3, <3>4, DeletedLate DEF SInv
  <2> QED
    BY <2>1, <2>2, <2>3
<1> QED
  BY <1>1, <1>3, <1>4, ReturnHeld DEF SInv, Quiet

\* The wait of Disconnect or the connect callback of Poll is over.
LEMMA FillingSInv ==
  ASSUME IInv, SInv,
         DisconnectDrained \/ (ConnectCallbackReturns /\ alloc /\ Top.fn = "Poll")
  PROVE  SInv' /\ Quiet
<1>1. /\ UNCHANGED <<work, cur, iopc, issued, called, dropped, reentered, alloc, late,
                     stopped, thread>>
      /\ stack # << >> /\ Top.pc \in {"spin", "connectcb"}
      /\ Goto("dispatch", completed) /\ PopAll
  BY DEF DisconnectDrained, ConnectCallbackReturns, At, ioCtxVars, runVars, histVars
<1>2. Top.batch = << >>
  BY <1>1, EmptyTop DEF SInv
<1>3. Numbered' /\ Popped' = Done /\ Done' = Done /\ Started' = Started
  BY <1>1, PopNumbers DEF SInv
<1> QED
  BY <1>1, <1>2, <1>3, GotoFilledHeld, KeptLate DEF SInv, Quiet

LEMMA CallingConnectSInv ==
  ASSUME IInv, SInv, TmysqlConnect, connectCB = "held"
  PROVE  SInv' /\ Quiet
<1>1. /\ UNCHANGED <<work, cur, iopc, completed, issued, called, dropped, reentered,
                     alloc, late, stopped>>
      /\ thread' # "none"
      /\ stack # << >> /\ Top.pc = "init" /\ Goto("connectcb", << >>)
  BY DEF TmysqlConnect, Initialize, At, runVars, histVars
<1>2. Top.batch = << >>
  BY <1>1, EmptyTop DEF SInv
<1>3. Numbered' /\ Popped' = Popped /\ Done' = Done /\ Started' = Started
  BY <1>1, SameNumbers DEF SInv
<1> QED
  BY <1>1, <1>2, <1>3, GotoHeld, KeptLate DEF SInv, Quiet

LEMMA DispatchingSInv ==
  ASSUME IInv, SInv, Dispatching
  PROVE  SInv' /\ Done' = Done /\ issued' = issued
<1>1. UNCHANGED <<work, cur, iopc, completed, issued, alloc, late, stopped, thread>>
  BY DispatchFacts DEF Dispatching, TriggerCallback, CallbackReturns, DropAction, ioCtxVars,
                       histVars
<1>2. Numbered' /\ Popped' = Popped /\ Done' = Done /\ Started' = Started
  BY <1>1, SameNumbers DEF SInv
<1> QED
  BY <1>1, <1>2, DispatchingHeld, KeptLate DEF SInv

\* A step of the two threads is a step of QueryService's, or none.
LEMMA StepSInv ==
  ASSUME IInv, SInv, [Next]_vars
  PROVE  /\ SInv'
         /\ \/ Quiet
            \/ issued' = issued + 1 /\ Done' = Done /\ UNCHANGED <<called, dropped>>
            \/ /\ Done' = Done + 1 /\ Done + 1 <= issued
               /\ UNCHANGED <<issued, called, dropped>>
            \/ (TriggerCallback \/ DropAction) /\ Done' = Done /\ issued' = issued
<1>1. CASE ScriptCalls
  BY <1>1, StillSInv, EnteringSInv, QuerySInv, PrepareSInv, PollSInv DEF ScriptCalls
<1>2. CASE ScriptReturns
  <2>1. CASE CallbackReturns
    BY <2>1, DispatchingSInv DEF Dispatching, CallbackReturns, histVars, Quiet
  <2>2. CASE ConnectCallbackReturns
    BY <2>2, StillSInv, ReturningSInv, FillingSInv
  <2> QED
    BY <1>2, <2>1, <2>2 DEF ScriptReturns
<1>3. CASE ModuleStep
  <2>1. CASE TmysqlConnect
    BY <2>1, ReturningSInv, CallingConnectSInv
  <2>2. CASE TriggerCallback \/ DropAction
    BY <2>2, DispatchingSInv DEF Dispatching
  <2> QED
    BY <1>3, <2>1, <2>2, ReturningSInv, FillingSInv, StillSInv DEF ModuleStep
<1>4. CASE Finalise
  BY <1>4, StillSInv, EnteringSInv DEF Finalise
<1>5. CASE IoStep
  BY <1>5, IoStepSInv DEF Quiet
<1>6. CASE Halted \/ UNCHANGED vars
  BY <1>6, StillSInv DEF Halted
<1> QED
  BY <1>1, <1>2, <1>3, <1>4, <1>5, <1>6 DEF Next

LEMMA InitSInv ==
  ASSUME Init
  PROVE  SInv /\ Done = 0 /\ issued = 0 /\ called = << >> /\ dropped = {}
<1>1. /\ work = << >> /\ completed = << >> /\ called = << >> /\ dropped = {}
      /\ issued = 0 /\ cur = None /\ Len(work) = 0 /\ Len(completed) = 0 /\ Len(called) = 0
  BY DEF Init
<1>2. Started = 0 /\ Done = 0 /\ Popped = 0 /\ alloc
  <2>0. alloc
    BY DEF Init
  <2>1. Creates = 0 /\ ~InHand
    BY <1>1 DEF Creates, InHand
  <2>2. Started = 0 - (0 - 0) /\ Done = Started - 0 /\ Popped = Done - 0
    BY <1>1, <2>1, <2>0, Zenon DEF Started, Done, Popped
  <2> QED
    BY <2>0, <2>2
<1>3. Numbered
  BY <1>1, <1>2 DEF Numbered, InHand
<1>4. \A i \in Depth : stack[i].batch = << >>
  <2>1. CASE stack = << >>
    BY <2>1 DEF Depth
  <2>2. CASE stack = <<Frame("tmysql.Connect", "init", << >>, None)>>
    BY <2>2 DEF Depth, Frame
  <2> QED
    BY <2>1, <2>2 DEF Init
<1>5. \A i \in Depth : 1 .. Len(stack[i].batch) = {} /\ Ready(stack[i]) = {}
  BY <1>4 DEF Ready
<1>6. Gone = {} /\ 1 .. Popped = {}
  BY <1>1, <1>2 DEF Gone
<1>7. Batches
  BY <1>4, <1>5 DEF Batches
<1>8. Dispatched /\ InOrder
  BY <1>1, <1>5, <1>6 DEF Dispatched, InOrder
<1>9. Lateness
  BY <1>1, <1>2 DEF Init, Lateness
<1> QED
  BY <1>1, <1>2, <1>3, <1>7, <1>8, <1>9 DEF SInv, Held

\* Actions, queues and batches stay numbered and ordered as the module's head
\* says, in every reachable state.
THEOREM ServiceInvariance == Spec => [](IInv /\ SInv)
<1>1. Init => IInv /\ SInv
  BY InitIInv, InitSInv
<1>2. (IInv /\ SInv) /\ [Next]_vars => (IInv /\ SInv)'
  BY NextIInv, StepSInv
<1> QED
  BY <1>1, <1>2, PTL DEF Spec

-----------------------------------------------------------------------------
(* What follows for the script.                                            *)

\* What has not been executed waits in io_context, is being executed, or was
\* queued late and is gone with the object.
LEMMA NotExecuted ==
  ASSUME IInv, SInv, NEW x \in 1 .. issued, x \notin 1 .. Done
  PROVE  x \in Waiting \cup Executing \/ (x \in late /\ ~alloc)
<1>1. Numbered /\ Lateness
  BY DEF SInv
<1>2. CASE x <= Started
  <2>1. InHand /\ x = Started
    BY <1>1, <1>2, Counts
  <2> QED
    BY <1>1, <2>1 DEF Numbered, InHand, Executing
<1>3. CASE x > Started /\ alloc
  <2> DEFINE i == x - Started
  <2>1. i \in 1 .. Len(work) /\ Started + i = x /\ i <= Len(work) - Creates
    <3>1. /\ Started \in Nat /\ issued \in Nat /\ Len(work) \in Nat /\ Creates \in {0, 1}
          /\ Started = issued - (Len(work) - Creates)
      BY <1>1, <1>3, Counts
    <3> QED
      BY <1>3, <3>1
  <2> HIDE DEF i
  <2>2. work[i].kind # "create"
    BY <1>1, <2>1, OneCreation, Counts
  <2>3. work[i].id = x
    BY <1>1, <2>1, <2>2 DEF Numbered
  <2> QED
    BY <2>1, <2>3 DEF Waiting, Ids
<1>4. CASE x > Started /\ ~alloc
  <2>1. Started + 1 <= x /\ x \in Started + 1 .. issued
    BY <1>1, <1>4, Counts
  <2> QED
    BY <1>1, <1>4, <2>1 DEF Lateness
<1> QED
  BY <1>1, <1>2, <1>3, <1>4, Counts

\* The executed actions are the first ones.
LEMMA ExecutedFirst ==
  ASSUME IInv, SInv
  PROVE  1 .. issued \ (Waiting \cup Executing \cup late) = 1 .. Done
<1>1. Numbered /\ Lateness
  BY DEF SInv
<1>2. ASSUME NEW x \in 1 .. Done
      PROVE  x \in 1 .. issued /\ x \notin Waiting /\ x \notin Executing /\ x \notin late
  <2>1. x \in 1 .. issued /\ x <= Started /\ x > 0 /\ x \in Nat
    BY <1>1, Counts
  <2>2. \A i \in 1 .. Len(work) : work[i].id # x
    <3>1. ASSUME NEW i \in 1 .. Len(work)
          PROVE  work[i].id # x
      <4>1. work[i].id = IF work[i].kind = "create" THEN 0 ELSE Started + i
        BY <1>1 DEF Numbered
      <4> QED
        BY <1>1, <2>1, <4>1, Counts
    <3> QED
      BY <3>1
  <2>3. x \notin Executing
    <3>1. cur # None /\ iopc # "finish" /\ cur.kind = "create" => cur.id = 0
      BY <1>1 DEF Numbered
    <3>2. cur # None /\ iopc # "finish" /\ cur.kind # "create" =>
            cur.id = Started /\ Done = Started - 1
      BY <1>1, Counts DEF Numbered, InHand
    <3> QED
      BY <1>1, <2>1, <3>1, <3>2, Counts DEF Executing
  <2>4. x \notin late
    BY <1>1, <2>1, Counts DEF Lateness
  <2> QED
    BY <2>1, <2>2, <2>3, <2>4 DEF Waiting, Ids
<1> QED
  BY <1>2, NotExecuted

LEMMA ExecutedAlways ==
  IInv /\ SInv => 1 .. issued \ (Waiting \cup Executing \cup late) = 1 .. Done
BY ExecutedFirst

\* What is ready in a frame is what it has not dispatched.
LEMMA ReadyUndispatched ==
  ASSUME IInv, NEW i \in Depth, NEW p \in Ready(stack[i])
  PROVE  stack[i].batch[p].id \in Ids(Undispatched(stack[i]))
<1> DEFINE b == stack[i].batch
<1>1. stack[i] \in Frames
  BY DEF IInv, TypeOK, Depth
<1>2. b \in Seq(Jobs) /\ Len(b) \in Nat /\ p \in 1 .. Len(b)
  BY <1>1 DEF Frames, Ready
<1>3. \E q \in 1 .. Len(Undispatched(stack[i])) : Undispatched(stack[i])[q] = b[p]
  <2>1. CASE stack[i].pc = "callback"
    <3>1. p # 1 /\ Undispatched(stack[i]) = Tail(b)
      BY <2>1 DEF Ready, Undispatched
    <3>2. b # << >>
      BY <1>2
    <3>3. /\ Len(Tail(b)) = Len(b) - 1
          /\ \A q \in 1 .. Len(b) - 1 : Tail(b)[q] = b[q + 1]
      BY <1>2, <3>2, HeadTailProperties
    <3>4. p - 1 \in 1 .. Len(b) - 1 /\ (p - 1) + 1 = p
      BY <1>2, <3>1
    <3> QED
      BY <3>1, <3>3, <3>4
  <2>2. CASE stack[i].pc # "callback"
    BY <1>2, <2>2 DEF Undispatched
  <2> QED
    BY <2>1, <2>2
<1> QED
  BY <1>3 DEF Ids

\* No accepted Query or Run is lost between asio's queue, m_completedActions
\* and the batches of nested dispatches, whatever the callbacks call; except
\* what is queued below Disconnect's dispatch, in an io_context that runs
\* nothing any more and is deleted with the object.
THEOREM NoActionLost == Spec => []NoneLost
<1>1. ASSUME IInv, SInv, NEW x \in 1 .. issued
      PROVE  \/ x \in Waiting \cup Executing \cup Finished \cup Batched \cup Gone
             \/ x \in late /\ ~alloc
  <2>0. Numbered /\ Dispatched
    BY <1>1 DEF SInv, Held
  <2>1. CASE x \notin 1 .. Done
    BY <1>1, <2>1, NotExecuted
  <2>2. CASE x \in 1 .. Done /\ x \notin 1 .. Popped
    <3>1. x - Popped \in 1 .. Len(completed) /\ Popped + (x - Popped) = x
      BY <1>1, <2>0, <2>2, Counts
    <3>2. completed[x - Popped].id = x
      BY <2>0, <3>1 DEF Numbered
    <3> QED
      BY <3>1, <3>2 DEF Finished, Ids
  <2>3. CASE x \in 1 .. Popped
    <3>1. x \in Gone \/ \E i \in Depth : \E p \in Ready(stack[i]) : stack[i].batch[p].id = x
      BY <2>0, <2>3 DEF Dispatched
    <3> QED
      BY <1>1, <3>1, ReadyUndispatched DEF Batched, Depth
  <2> QED
    BY <2>1, <2>2, <2>3
<1>2. IInv /\ SInv => NoneLost
  BY <1>1 DEF NoneLost
<1> QED
  BY <1>2, ServiceInvariance, PTL

\* What is older than the head of the innermost batch is gone or waits in the
\* batch of an outer frame.
LEMMA OlderThanHead ==
  ASSUME IInv, SInv, stack # << >>, Top.pc = "dispatch", Top.batch # << >>,
         NEW a \in 1 .. Head(Top.batch).id - 1, a \notin Gone
  PROVE  HeldBelow(a)
<1>1. /\ Batches /\ Dispatched /\ Popped \in Nat
      /\ Len(stack) \in Depth /\ Len(stack) \in Nat /\ Top = stack[Len(stack)]
  BY TopType DEF SInv, Held, Numbered, IInv, TypeOK, Top
<1>2. Top.batch \in Seq(Jobs) /\ Len(Top.batch) \in Nat /\ 1 \in 1 .. Len(Top.batch)
  <2>1. Top.batch \in Seq(Jobs)
    BY TopType DEF IInv, TypeOK
  <2> QED
    BY <2>1, EmptySeq
<1>3. Head(Top.batch) = Top.batch[1] /\ Top.batch[1].id \in 1 .. Popped
  BY <1>1, <1>2 DEF Batches
<1>4. a \in 1 .. Popped /\ a < Top.batch[1].id
  BY <1>1, <1>3
<1>5. PICK i \in Depth : \E p \in Ready(stack[i]) : stack[i].batch[p].id = a
  BY <1>1, <1>4 DEF Dispatched
<1>6. PICK p \in Ready(stack[i]) : stack[i].batch[p].id = a
  BY <1>5
<1>7. i # Len(stack)
  <2>1. ASSUME i = Len(stack)
        PROVE  FALSE
    <3>1. p \in 1 .. Len(Top.batch) /\ Top.batch[p].id = a
      BY <1>1, <1>6, <2>1 DEF Ready
    <3>2. p = 1 \/ 1 < p
      BY <1>2, <3>1
    <3>3. 1 < p => Top.batch[1].id < Top.batch[p].id
      BY <1>1, <1>2, <3>1 DEF Batches
    <3> QED
      BY <1>3, <1>4, <3>1, <3>2, <3>3
  <2> QED
    BY <2>1
<1>8. i \in 1 .. Len(stack) - 1
  BY <1>1, <1>7 DEF Depth
<1>9. a \in Ids(Undispatched(stack[i]))
  BY <1>6, ReadyUndispatched
<1> QED
  BY <1>8, <1>9 DEF HeldBelow

\* Callbacks come in the order in which Query and Run were called, and an
\* action is overtaken only by what a callback of its own batch dispatches.
THEOREM CallsInOrder == Spec => []CalledInOrder
<1>1. ASSUME IInv, SInv, At({"Poll", "Disconnect"}, "dispatch"), Top.batch # << >>,
             NEW a \in 1 .. Head(Top.batch).id - 1
      PROVE  a \in Gone \/ HeldBelow(a)
  BY <1>1, OlderThanHead DEF At
<1>2. IInv /\ SInv => CalledInOrder
  BY <1>1 DEF SInv, Held, InOrder, CalledInOrder
<1> QED
  BY <1>2, ServiceInvariance, PTL

LEMMA ServiceStep ==
  ASSUME IInv, SInv, [Next]_vars
  PROVE  [Service!Next]_(Service!vars)
<1> DEFINE executed == 1 .. issued \ (Waiting \cup Executing \cup late)
<1>1. executed = 1 .. Done /\ executed' = 1 .. Done' /\ Done \in Nat
  <2>1. IInv' /\ SInv'
    BY NextIInv, StepSInv
  <2>2. (IInv /\ SInv => 1 .. issued \ (Waiting \cup Executing \cup late) = 1 .. Done)'
    BY ExecutedAlways, PTL
  <2>3. executed' = 1 .. Done'
    BY <2>1, <2>2
  <2> QED
    BY <2>3, ExecutedFirst, Counts DEF SInv
<1>2. CASE Quiet
  BY <1>1, <1>2 DEF Quiet, Service!vars
<1>3. CASE issued' = issued + 1 /\ Done' = Done /\ UNCHANGED <<called, dropped>>
  BY <1>1, <1>3 DEF Service!Next, Service!Ask
<1>4. CASE Done' = Done + 1 /\ Done + 1 <= issued /\ UNCHANGED <<issued, called, dropped>>
  <2>1. Done + 1 \in 1 .. issued /\ (Done + 1) - 1 = Done
    BY <1>1, <1>4, Counts DEF SInv
  <2> QED
    BY <1>1, <1>4, <2>1 DEF Service!Next, Service!Execute
<1>5. CASE (TriggerCallback \/ DropAction) /\ Done' = Done /\ issued' = issued
  <2> DEFINE id == Head(Top.batch).id
  <2>1. id \in 1 .. Popped /\ id \notin Gone
    BY <1>5, HeadPending DEF SInv
  <2>2. id \in 1 .. Done
    BY <2>1, Counts DEF SInv
  <2>3. id \in Service!Pending
    BY <1>1, <2>1, <2>2 DEF Service!Pending, Gone
  <2>4. Service!Call(id) \/ Service!Drop(id)
    <3>1. CASE TriggerCallback
      BY <1>1, <1>5, <2>3, <3>1 DEF TriggerCallback, Service!Call
    <3>2. CASE DropAction
      BY <1>1, <1>5, <2>3, <3>2 DEF DropAction, Service!Drop
    <3> QED
      BY <1>5, <3>1, <3>2
  <2> QED
    BY <2>3, <2>4 DEF Service!Next
<1> QED
  BY <1>2, <1>3, <1>4, <1>5, StepSInv

\* The two threads with their queues, batches and re-entrant callbacks
\* implement QueryService: actions are executed one by one in the order of
\* the calls, then called back or dropped once, and nothing else is.
THEOREM DatabaseImplementsService == Spec => ImplementsService
<1>1. Init => Service!Init
  <2>1. ASSUME Init
        PROVE  Service!Init
    <3>1. issued = 0 /\ called = << >> /\ dropped = {}
      BY <2>1, InitSInv
    <3>2. 1 .. issued \ (Waiting \cup Executing \cup late) = {}
      BY <3>1
    <3> QED
      BY <3>1, <3>2 DEF Service!Init
  <2> QED
    BY <2>1
<1>2. IInv /\ SInv /\ [Next]_vars => [Service!Next]_(Service!vars)
  BY ServiceStep
<1> QED
  BY ServiceInvariance, <1>1, <1>2, PTL DEF Spec, ImplementsService, Service!Spec
=============================================================================

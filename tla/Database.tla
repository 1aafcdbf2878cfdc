------------------------------ MODULE Database ------------------------------
(***************************************************************************)
(* One tmysql Database from its creation to its deletion: the Lua (game)   *)
(* thread that runs scripts and calls back into them, and the database's   *)
(* io thread that runs queries through an asio::io_context.                *)
(*                                                                         *)
(* The Lua thread is re-entrant: while DispatchCompletedActions or         *)
(* TriggerCallback is calling a script function, that function may call    *)
(* the module again.  `stack' holds the module's C++ frames that are in    *)
(* progress; a script runs when the stack is empty or when the frame on    *)
(* top is inside a callback.                                               *)
(*                                                                         *)
(* What an action does on the MySQL connection is abstracted to what the   *)
(* rest of the system can see of it: it may lose the server and reconnect  *)
(* once, and it always ends in one push on m_completedActions.  That queue *)
(* is taken as the FIFO that ActionQueue is shown to implement.            *)
(*                                                                         *)
(* `fault' records the first undefined behaviour or std::terminate; the    *)
(* model stops there, since nothing can be said about what follows.        *)
(***************************************************************************)
EXTENDS Naturals, Sequences

CONSTANTS
  Texts,         \* query texts the script prepares, the cache's keys
  None,          \* no job, no text
  CallbackOps,   \* the methods the script's callbacks call
  MaxActions,    \* bound: actions queued in one behaviour
  MaxDepth       \* bound: frames on the stack

ASSUME NoneAssumption == None \notin Texts
ASSUME OpsAssumption ==
  CallbackOps \subseteq {"Connect", "Query", "Run", "Prepare", "Poll", "Disconnect"}
ASSUME BoundAssumption == MaxActions \in Nat /\ MaxDepth \in Nat

VARIABLES
  \* Lua thread
  stack,       \* module frames in progress, innermost last
  handle,      \* the Lua userdata: "none" yet, "live", or "null"ed
  closing,     \* the Lua state is being closed (map change, shutdown)
  \* members of the Database object
  alloc,       \* the object exists
  connected,   \* m_bIsConnected
  inGC,        \* m_bIsInGC
  pendingCB,   \* m_bIsPendingCallback, written by both threads
  connectCB,   \* m_iCallback: "absent" (-1), "held", or "zero" once freed
  cache,       \* keys of m_preparedStatements; their PStatements exist
  completed,   \* m_completedActions, oldest first
  guard,       \* io_work still counts as work
  stopped,     \* io_context.stopped()
  thread,      \* io_thread: "none", "running", "exited", "joined"
  work,        \* handlers posted to io_context and not started
  \* io thread
  cur,         \* the handler being run
  iopc,        \* where it is
  retried,     \* its local hasRetried
  task,        \* the statementCreateWaiter: "idle", "pending", "ok", "err"
  \* outcome and history
  fault,       \* "none", or the first undefined behaviour
  issued,      \* number of actions queued
  called,      \* ids of the actions whose callback was called, in order
  dropped,     \* ids of the actions deleted without a call
  reentered,   \* a callback called Poll or Disconnect
  late         \* ids of the actions queued by what Disconnect dispatches

luaVars == <<stack, handle, closing>>
connVars == <<connected, inGC, pendingCB, connectCB>>
ioCtxVars == <<guard, stopped, thread, work>>
runVars == <<cur, iopc, retried, task>>
histVars == <<issued, called, dropped, reentered, late>>
vars == <<luaVars, alloc, connVars, cache, completed, ioCtxVars, runVars,
          fault, histVars>>

\* A handler posted to io_context: a query, the run of a statement, or the
\* creation of a statement.  cb: the script passed a callback function.
Jobs ==
  [kind : {"query", "stmt", "create"}, id : Nat,
   text : Texts \cup {None}, cb : BOOLEAN]

ASSUME NoJobAssumption == None \notin Jobs

Frames ==
  [fn : {"tmysql.Connect", "Connect", "Poll", "Disconnect", "Prepare"},
   pc : {"init", "connectcb", "release", "spin", "dispatch", "callback", "await"},
   batch : Seq(Jobs), text : Texts \cup {None}]

Frame(fn, pc, batch, text) ==
  [fn |-> fn, pc |-> pc, batch |-> batch, text |-> text]

-----------------------------------------------------------------------------
(* The call stack of the Lua thread.                                       *)

Top == stack[Len(stack)]
Enter(f) == stack' = Append(stack, f)
Return == stack' = SubSeq(stack, 1, Len(stack) - 1)
Goto(pc, batch) ==
  stack' = [stack EXCEPT ![Len(stack)] = Frame(Top.fn, pc, batch, Top.text)]

\* The module is running, in frame `fn' at `pc'.
At(fns, pc) ==
  /\ fault = "none"
  /\ stack # << >>
  /\ Top.fn \in fns
  /\ Top.pc = pc

InCallback == stack # << >> /\ Top.pc \in {"callback", "connectcb"}

\* A script is running and calls method op.
Script(op) ==
  /\ fault = "none"
  /\ ~closing
  /\ Len(stack) < MaxDepth
  /\ stack # << >> => InCallback /\ op \in CallbackOps

\* getDatabaseFromStack: a NULL handle, and where the method asks for it a
\* disconnected database, raises a Lua error and nothing else happens.
Usable == handle = "live"
UsableConnected == handle = "live" /\ connected

-----------------------------------------------------------------------------
(* asio::io_context (external): outstanding work is the guard, the handler *)
(* that runs and the handlers that wait; when none is left it stops.       *)

\* Mutant: the handler jumps the queue.
PostFirst(job) == work' = <<job>> \o work

\* asio::post.
Post(job) == work' = Append(work, job)

\* Mutant: the work guard is kept.
KeepGuard == UNCHANGED <<guard, stopped>>

\* io_work.reset().
ResetGuard ==
  /\ guard' = FALSE
  /\ stopped' = (stopped \/ (guard /\ work = << >> /\ cur = None))

\* io_context.run() starts the oldest handler.
IoTake ==
  /\ fault = "none"
  /\ thread = "running"
  /\ ~stopped
  /\ cur = None
  /\ work # << >>
  /\ cur' = Head(work)
  /\ work' = Tail(work)
  /\ iopc' = "run"
  /\ retried' = FALSE
  /\ UNCHANGED <<luaVars, alloc, connVars, cache, completed, guard, stopped,
                 thread, task, fault, histVars>>

\* Mutant: the io_context has no work guard.
OutOfWorkUnguarded == work = << >>

\* No work is outstanding once the running handler has returned.
OutOfWork == ~guard /\ work = << >>

\* The handler has returned; the io_context stops if it was the last work.
IoFinish ==
  /\ fault = "none"
  /\ cur # None
  /\ iopc = "finish"
  /\ cur' = None
  /\ stopped' = (stopped \/ OutOfWork)
  /\ UNCHANGED <<luaVars, alloc, connVars, cache, completed, guard, thread,
                 work, iopc, retried, task, fault, histVars>>

\* io_context.run() returns and the thread's function ends.
IoExit ==
  /\ fault = "none"
  /\ thread = "running"
  /\ stopped
  /\ cur = None
  /\ thread' = "exited"
  /\ UNCHANGED <<luaVars, alloc, connVars, cache, completed, guard, stopped,
                 work, runVars, fault, histVars>>

-----------------------------------------------------------------------------
(* RunQuery, RunStatement and CreateStatement, on the io thread.           *)

\* The handler is at pc and the PStatement it was bound to still exists.
Running(pc) ==
  /\ fault = "none"
  /\ cur # None
  /\ iopc = pc
  /\ cur.kind = "stmt" => cur.text \in cache

\* PStatement::Execute runs on a PStatement that has been deleted.
IoStatementGone ==
  /\ fault = "none"
  /\ cur # None
  /\ iopc \in {"run", "reconnect"}
  /\ cur.kind = "stmt"
  /\ cur.text \notin cache
  /\ fault' = "stmt_freed"
  /\ UNCHANGED <<luaVars, alloc, connVars, cache, completed, ioCtxVars,
                 runVars, histVars>>

\* The query succeeds, or fails for good: its results are stored.  (A
\* statement the server has forgotten is prepared again first; if that
\* throws, RunStatement's catch stores the error.)
IoRun ==
  /\ Running("run")
  /\ cur.kind # "create"
  /\ iopc' = "push"
  /\ UNCHANGED <<luaVars, alloc, connVars, cache, completed, ioCtxVars, cur,
                 retried, task, fault, histVars>>

\* The first loss of the server: Connect(err, true) is called.
IoServerLost ==
  /\ Running("run")
  /\ cur.kind # "create"
  /\ ~retried
  /\ retried' = TRUE
  /\ iopc' = "reconnect"
  /\ UNCHANGED <<luaVars, alloc, connVars, cache, completed, ioCtxVars, cur,
                 task, fault, histVars>>

\* Connect succeeds: every cached statement is prepared again and
\* m_bIsPendingCallback is overwritten with !isReconnect.
IoReconnect ==
  /\ Running("reconnect")
  /\ pendingCB' = FALSE
  /\ iopc' = "run"
  /\ UNCHANGED <<luaVars, alloc, connected, inGC, connectCB, cache, completed,
                 ioCtxVars, cur, retried, task, fault, histVars>>

\* Connect returns false: the query's own error is its result.
IoReconnectFails ==
  /\ Running("reconnect")
  /\ iopc' = "push"
  /\ UNCHANGED <<luaVars, alloc, connVars, cache, completed, ioCtxVars, cur,
                 retried, task, fault, histVars>>

\* Mutant: the action is not pushed after an exception.
CatchAndReturn == iopc' = "finish"

\* RunStatement's catch: an error result, then on to the push.
CatchException == iopc' = "push"

\* A cached statement cannot be prepared again: Prepare throws through
\* Connect.  RunStatement catches it; RunQuery does not, and the exception
\* leaves the thread's function.
IoReprepareThrows ==
  /\ Running("reconnect")
  /\ cache # {}
  /\ IF cur.kind = "stmt"
       THEN CatchException /\ UNCHANGED fault
       ELSE fault' = "terminate" /\ UNCHANGED iopc
  /\ UNCHANGED <<luaVars, alloc, connVars, cache, completed, ioCtxVars, cur,
                 retried, task, histVars>>

\* Mutant: the batch is not reversed (pop_all_reverse).
PushNewestFirst == completed' = <<cur>> \o completed

\* m_completedActions.push.
PushCompleted == completed' = Append(completed, cur)

IoPush ==
  /\ fault = "none"
  /\ cur # None
  /\ iopc = "push"
  /\ PushCompleted
  /\ iopc' = "finish"
  /\ UNCHANGED <<luaVars, alloc, connVars, cache, ioCtxVars, cur, retried,
                 task, fault, histVars>>

\* Mutant: the exception path forgets task->completed.
CompleteOnSuccess(result) == task' = IF result = "ok" THEN result ELSE task

CompleteTask(result) == task' = result

\* CreateStatement: the statement is prepared, or Prepare throws; either way
\* the waiter is completed.
IoCreate(result) ==
  /\ Running("run")
  /\ cur.kind = "create"
  /\ CompleteTask(result)
  /\ iopc' = "finish"
  /\ UNCHANGED <<luaVars, alloc, connVars, cache, completed, ioCtxVars, cur,
                 retried, fault, histVars>>

IoStep ==
  \/ IoTake \/ IoFinish \/ IoExit
  \/ IoStatementGone \/ IoRun \/ IoServerLost
  \/ IoReconnect \/ IoReconnectFails \/ IoReprepareThrows \/ IoPush
  \/ \E result \in {"ok", "err"} : IoCreate(result)

-----------------------------------------------------------------------------
(* Connecting.                                                             *)

\* Initialize succeeds: Connect(error) sets m_bIsPendingCallback, then the
\* io thread is started.
Initialize ==
  /\ thread' = "running"
  /\ connected' = TRUE

\* tmysql.Connect after createDatabase: the connect callback is called at
\* once, or there is none and the handle is returned.
TmysqlConnect ==
  /\ At({"tmysql.Connect"}, "init")
  /\ Initialize
  /\ pendingCB' = FALSE
  /\ handle' = "live"
  /\ IF connectCB = "held"
       THEN connectCB' = "zero" /\ Goto("connectcb", << >>)
       ELSE Return /\ UNCHANGED connectCB
  /\ UNCHANGED <<closing, alloc, inGC, cache, completed, guard, stopped, work,
                 runVars, fault, histVars>>

\* Mutant: no return after the failure.
FallThrough == Goto("connectcb", << >>)

\* return 2: false and the error.
ReturnError == Return

\* Initialize fails: the object is deleted before Lua ever saw it.
TmysqlConnectFails ==
  /\ At({"tmysql.Connect"}, "init")
  /\ alloc' = FALSE
  /\ ReturnError
  /\ UNCHANGED <<handle, closing, connVars, cache, completed, ioCtxVars,
                 runVars, fault, histVars>>

\* Database:Connect on a database made by tmysql.Create.
lua_Connect ==
  /\ Script("Connect")
  /\ Usable
  /\ ~connected
  /\ Initialize
  /\ pendingCB' = TRUE
  /\ UNCHANGED <<luaVars, alloc, inGC, connectCB, cache, completed, guard,
                 stopped, work, runVars, fault, histVars>>

\* It fails: Release is called on the object and the object deleted.
lua_ConnectFails ==
  /\ Script("Connect")
  /\ Usable
  /\ ~connected
  /\ Enter(Frame("Connect", "release", << >>, None))
  /\ UNCHANGED <<handle, closing, alloc, connVars, cache, completed, ioCtxVars,
                 runVars, fault, histVars>>

-----------------------------------------------------------------------------
(* Queueing work.                                                          *)

NextId == issued + 1

\* Disconnect is in progress below the script that runs.
InDisconnect == \E i \in 1 .. Len(stack) : stack[i].fn = "Disconnect"

\* The next action is accepted.
Accept ==
  /\ issued < MaxActions
  /\ issued' = NextId
  /\ late' = IF InDisconnect THEN late \cup {NextId} ELSE late

lua_Query(cb) ==
  /\ Script("Query")
  /\ UsableConnected
  /\ Post([kind |-> "query", id |-> NextId, text |-> None, cb |-> cb])
  /\ Accept
  /\ UNCHANGED <<luaVars, alloc, connVars, cache, completed, guard, stopped,
                 thread, runVars, fault, called, dropped, reentered>>

\* PreparedStatement:Run; the statement's handle is NULL once it is deleted.
lua_Run(t, cb) ==
  /\ Script("Run")
  /\ t \in cache
  /\ Post([kind |-> "stmt", id |-> NextId, text |-> t, cb |-> cb])
  /\ Accept
  /\ UNCHANGED <<luaVars, alloc, connVars, cache, completed, guard, stopped,
                 thread, runVars, fault, called, dropped, reentered>>

\* Database:Prepare of a text that is not cached: CreateStatement is posted
\* and the Lua thread spins on task.completed.  (A cached text only returns
\* the handle again.)
lua_Prepare(t) ==
  /\ Script("Prepare")
  /\ UsableConnected
  /\ t \notin cache
  /\ Post([kind |-> "create", id |-> 0, text |-> t, cb |-> FALSE])
  /\ task' = "pending"
  /\ Enter(Frame("Prepare", "await", << >>, t))
  /\ UNCHANGED <<handle, closing, alloc, connVars, cache, completed, guard,
                 stopped, thread, cur, iopc, retried, fault, histVars>>

\* The wait is over: the statement is cached, or nil and the error returned.
PrepareReturns ==
  /\ At({"Prepare"}, "await")
  /\ task # "pending"
  /\ cache' = IF task = "ok" THEN cache \cup {Top.text} ELSE cache
  /\ task' = "idle"
  /\ Return
  /\ UNCHANGED <<handle, closing, alloc, connVars, completed, ioCtxVars, cur,
                 iopc, retried, fault, histVars>>

-----------------------------------------------------------------------------
(* Polling and dispatching callbacks.                                      *)

\* GetCompletedActions empties the queue into the frame's batch.
PopAll == completed' = << >>

\* Database:Poll.  A pending connect callback goes first; m_iCallback is
\* freed and set to 0, which TriggerCallback would take for a reference
\* again, but what it pushes then is not a function.
lua_Poll ==
  /\ Script("Poll")
  /\ Usable
  /\ pendingCB' = FALSE
  /\ reentered' = (reentered \/ InCallback)
  /\ IF pendingCB /\ connectCB = "held"
       THEN /\ connectCB' = "zero"
            /\ Enter(Frame("Poll", "connectcb", << >>, None))
            /\ UNCHANGED completed
       ELSE /\ Enter(Frame("Poll", "dispatch", completed, None))
            /\ PopAll
            /\ UNCHANGED connectCB
  /\ UNCHANGED <<handle, closing, alloc, connected, inGC, cache, ioCtxVars,
                 runVars, fault, issued, called, dropped, late>>

\* The connect callback returns: Poll goes on to dispatch, tmysql.Connect to
\* push the handle.  Both use the object.
ConnectCallbackReturns ==
  /\ At({"Poll", "tmysql.Connect"}, "connectcb")
  /\ IF ~alloc
       THEN fault' = "db_freed" /\ UNCHANGED <<stack, completed>>
       ELSE /\ IF Top.fn = "Poll"
                 THEN Goto("dispatch", completed) /\ PopAll
                 ELSE Return /\ UNCHANGED completed
            /\ UNCHANGED fault
  /\ UNCHANGED <<handle, closing, alloc, connVars, cache, ioCtxVars, runVars,
                 histVars>>

\* The dispatch loop with an action left reads m_bIsInGC of this object.
DispatchFreed ==
  /\ At({"Poll", "Disconnect"}, "dispatch")
  /\ Top.batch # << >>
  /\ ~alloc
  /\ fault' = "db_freed"
  /\ UNCHANGED <<luaVars, alloc, connVars, cache, completed, ioCtxVars,
                 runVars, histVars>>

\* TriggerCallback on the next action: the script's callback is entered.
TriggerCallback ==
  /\ At({"Poll", "Disconnect"}, "dispatch")
  /\ Top.batch # << >>
  /\ alloc
  /\ ~inGC
  /\ Head(Top.batch).cb
  /\ called' = Append(called, Head(Top.batch).id)
  /\ Goto("callback", Top.batch)
  /\ UNCHANGED <<handle, closing, alloc, connVars, cache, completed,
                 ioCtxVars, runVars, fault, issued, dropped, reentered, late>>

\* The callback returns; completed = action->next and delete action.
CallbackReturns ==
  /\ At({"Poll", "Disconnect"}, "callback")
  /\ Goto("dispatch", Tail(Top.batch))
  /\ UNCHANGED <<handle, closing, alloc, connVars, cache, completed,
                 ioCtxVars, runVars, fault, histVars>>

\* An action without a callback, or any action during gc, is just deleted.
DropAction ==
  /\ At({"Poll", "Disconnect"}, "dispatch")
  /\ Top.batch # << >>
  /\ alloc
  /\ inGC \/ ~Head(Top.batch).cb
  /\ dropped' = dropped \cup {Head(Top.batch).id}
  /\ Goto("dispatch", Tail(Top.batch))
  /\ UNCHANGED <<handle, closing, alloc, connVars, cache, completed,
                 ioCtxVars, runVars, fault, issued, called, reentered, late>>

PollReturns ==
  /\ At({"Poll"}, "dispatch")
  /\ Top.batch = << >>
  /\ Return
  /\ UNCHANGED <<handle, closing, alloc, connVars, cache, completed,
                 ioCtxVars, runVars, fault, histVars>>

-----------------------------------------------------------------------------
(* Disconnecting.                                                          *)

\* Disconnect starts: io_work.reset().
Disconnect ==
  /\ ResetGuard
  /\ Enter(Frame("Disconnect", "spin", << >>, None))

\* Mutant: the statements are released before the queue is drained.
ReleaseStatementsFirst == cache' = {}

\* Disconnect leaves the statements alone until the io thread is joined.
KeepStatements == UNCHANGED cache

lua_Disconnect ==
  /\ Script("Disconnect")
  /\ UsableConnected
  /\ Disconnect
  /\ KeepStatements
  /\ reentered' = (reentered \/ InCallback)
  /\ UNCHANGED <<handle, closing, alloc, connVars, completed, thread, work,
                  runVars, fault, issued, called, dropped, late>>

\* Mutant: no wait for the queue to drain.
NoSpin == TRUE

\* while (!io_context.stopped());
SpinOver == stopped

\* The wait is over and DispatchCompletedActions begins.
DisconnectDrained ==
  /\ At({"Disconnect"}, "spin")
  /\ SpinOver
  /\ Goto("dispatch", completed)
  /\ PopAll
  /\ UNCHANGED <<handle, closing, alloc, connVars, cache, ioCtxVars, runVars,
                 fault, histVars>>

\* Release is about to run: after Disconnect's dispatch, or when
\* Database:Connect has failed.
Releasing ==
  \/ At({"Disconnect"}, "dispatch") /\ Top.batch = << >>
  \/ At({"Connect"}, "release")

\* Release on an object already deleted, or with no io thread to join.
ReleaseFaults ==
  /\ Releasing
  /\ ~alloc \/ thread = "none"
  /\ fault' = IF ~alloc THEN "db_freed" ELSE "no_thread"
  /\ UNCHANGED <<luaVars, alloc, connVars, cache, completed, ioCtxVars,
                 runVars, histVars>>

\* Mutants: the thread is not waited for; it is detached.
SkipJoin == UNCHANGED thread
DetachThread == thread' = "detached"

\* io_thread->join().
JoinThread == thread = "exited" /\ thread' = "joined"

\* Mutant: the Lua handle keeps the pointer.
KeepReference == UNCHANGED handle

\* NullifyReference.
NullifyReference == handle' = "null"

\* Release: join the io thread, delete every cached statement and NULL its
\* handle, close the connection, NULL the handle; then delete this, and with
\* it the io_context and the handlers it still holds.
Release ==
  /\ Releasing
  /\ alloc
  /\ thread # "none"
  /\ JoinThread
  /\ cache' = {}
  /\ connected' = FALSE
  /\ NullifyReference
  /\ alloc' = FALSE
  /\ work' = << >>
  /\ Return
  /\ UNCHANGED <<closing, inGC, pendingCB, connectCB, completed, guard,
                 stopped, runVars, fault, histVars>>

-----------------------------------------------------------------------------
(* The Lua state is closed: every userdata is finalised, newest first, so  *)
(* the statements before the database they were prepared on.               *)

Close ==
  /\ fault = "none"
  /\ stack = << >>
  /\ ~closing
  /\ closing' = TRUE
  /\ UNCHANGED <<stack, handle, alloc, connVars, cache, completed, ioCtxVars,
                 runVars, fault, histVars>>

\* PStatement's __gc: DeregisterStatement and Release, with no regard for
\* the io thread.  Erasing from m_preparedStatements while Connect iterates
\* over it leaves that loop on a deleted statement.
PStatement_gc(t) ==
  /\ fault = "none"
  /\ closing
  /\ stack = << >>
  /\ t \in cache
  /\ cache' = cache \ {t}
  /\ fault' = IF cur # None /\ iopc = "reconnect" THEN "stmt_freed" ELSE fault
  /\ UNCHANGED <<luaVars, alloc, connVars, completed, ioCtxVars, runVars,
                 histVars>>

\* Database's __gc: m_bIsInGC and Disconnect, connected or not.
Database_gc ==
  /\ fault = "none"
  /\ closing
  /\ stack = << >>
  /\ cache = {}
  /\ handle = "live"
  /\ inGC' = TRUE
  /\ Disconnect
  /\ UNCHANGED <<handle, closing, alloc, connected, pendingCB, connectCB,
                 cache, completed, thread, work, runVars, fault, histVars>>

-----------------------------------------------------------------------------
\* createDatabase has returned: to tmysql.Create, and the script has the
\* handle, or to tmysql.Connect, which goes on.  The constructor does not
\* initialise m_bIsPendingCallback.
Init ==
  /\ stack \in {<< >>, <<Frame("tmysql.Connect", "init", << >>, None)>>}
  /\ handle = IF stack = << >> THEN "live" ELSE "none"
  /\ closing = FALSE
  /\ alloc = TRUE
  /\ connected = FALSE
  /\ inGC = FALSE
  /\ pendingCB \in BOOLEAN
  /\ connectCB \in {"absent", "held"}
  /\ cache = {}
  /\ completed = << >>
  /\ guard = TRUE
  /\ stopped = FALSE
  /\ thread = "none"
  /\ work = << >>
  /\ cur = None
  /\ iopc = "finish"
  /\ retried = FALSE
  /\ task = "idle"
  /\ fault = "none"
  /\ issued = 0
  /\ called = << >>
  /\ dropped = {}
  /\ reentered = FALSE
  /\ late = {}

\* The Lua thread spins in Prepare on a task no io thread will run.
Hung == At({"Prepare"}, "await") /\ task = "pending" /\ stopped

\* Nothing is left to do: the process is gone, hangs, or has closed Lua.
Halted ==
  /\ \/ fault # "none"
     \/ Hung
     \/ closing /\ stack = << >> /\ handle # "live"
  /\ UNCHANGED vars

\* Steps of the module itself on the Lua thread.
ModuleStep ==
  \/ TmysqlConnect \/ TmysqlConnectFails
  \/ PrepareReturns
  \/ DispatchFreed \/ TriggerCallback \/ DropAction \/ PollReturns
  \/ DisconnectDrained \/ ReleaseFaults \/ Release

\* A callback of the script ends.
ScriptReturns == CallbackReturns \/ ConnectCallbackReturns

\* Calls the script makes, from the top level or from a callback.
ScriptCalls ==
  \/ lua_Connect \/ lua_ConnectFails
  \/ \E cb \in BOOLEAN : lua_Query(cb)
  \/ \E t \in Texts, cb \in BOOLEAN : lua_Run(t, cb)
  \/ \E t \in Texts : lua_Prepare(t)
  \/ lua_Poll
  \/ lua_Disconnect

Finalise == Close \/ Database_gc \/ \E t \in Texts : PStatement_gc(t)

Next == ScriptCalls \/ ScriptReturns \/ ModuleStep \/ Finalise \/ IoStep \/ Halted

Spec == Init /\ [][Next]_vars

\* The io thread and the module's own loops keep running (the operating
\* system schedules both threads; MySQL calls return, if only with an
\* error); a callback returns; the server's Think hook polls every tick.
Fairness ==
  /\ WF_vars(IoStep)
  /\ WF_vars(ModuleStep)
  /\ SF_vars(ScriptReturns)
  /\ SF_vars(stack = << >> /\ lua_Poll)

FairSpec == Spec /\ Fairness

-----------------------------------------------------------------------------
(* Where an action is, from lua_Query to the end of its callback.          *)

Ids(jobs) == {jobs[i].id : i \in 1 .. Len(jobs)}

\* In a callback, the head of the batch is the action whose callback runs.
Undispatched(f) == IF f.pc = "callback" THEN Tail(f.batch) ELSE f.batch

Waiting == Ids(work)
Executing == IF cur # None /\ iopc # "finish" THEN {cur.id} ELSE {}
Finished == Ids(completed)
Batched == UNION {Ids(Undispatched(stack[i])) : i \in 1 .. Len(stack)}
Gone == {called[i] : i \in 1 .. Len(called)} \cup dropped

-----------------------------------------------------------------------------
(* Properties.                                                             *)

\* Every variable has its type.
TypeOK ==
  /\ stack \in Seq(Frames)
  /\ handle \in {"none", "live", "null"}
  /\ closing \in BOOLEAN
  /\ alloc \in BOOLEAN
  /\ connected \in BOOLEAN
  /\ inGC \in BOOLEAN
  /\ pendingCB \in BOOLEAN
  /\ connectCB \in {"absent", "held", "zero"}
  /\ cache \subseteq Texts
  /\ completed \in Seq(Jobs)
  /\ guard \in BOOLEAN
  /\ stopped \in BOOLEAN
  /\ thread \in {"none", "running", "exited", "joined"}
  /\ work \in Seq(Jobs)
  /\ cur \in Jobs \cup {None}
  /\ iopc \in {"run", "reconnect", "push", "finish"}
  /\ retried \in BOOLEAN
  /\ task \in {"idle", "pending", "ok", "err"}
  /\ fault \in {"none", "db_freed", "stmt_freed", "no_thread", "terminate"}
  /\ issued \in Nat
  /\ called \in Seq(Nat)
  /\ dropped \subseteq Nat
  /\ reentered \in BOOLEAN
  /\ late \subseteq Nat

\* The io thread works on `this' without owning it: Disconnect may delete
\* the object only when no handler runs or can start any more.
WorkerOutlived == ~alloc => cur = None /\ thread # "running"

\* When Disconnect deletes the object, nothing the io thread completed is
\* left on m_completedActions, to be leaked with its callback uncalled.
DrainedAtDelete == ~alloc => completed = << >>

\* A handle that is not NULL points at a live object, at every moment a
\* script can use it: inside callbacks, and after a failed connect.
HandlesInvalidated == handle = "live" => alloc

\* lua_Prepare inserts into m_preparedStatements on the Lua thread while the
\* io thread iterates over the same map when it reconnects.  No lock guards
\* it: it is safe because, when the wait ends, the io thread is past its
\* last handler.
PrepareInsertsAlone ==
  At({"Prepare"}, "await") /\ task # "pending" =>
    /\ work = << >>
    /\ cur # None => iopc = "finish"

\* No action is lost on its way through io_context, the completed queue and
\* the batches of nested dispatches: each is somewhere, or called, or
\* deliberately dropped.  One kind only is lost: what a callback queues that
\* Disconnect dispatches is destroyed with the object (PendingCallbacksCalled).
NoneLost ==
  \A a \in 1 .. issued :
    \/ a \in Waiting \cup Executing \cup Finished \cup Batched \cup Gone
    \/ a \in late /\ ~alloc

\* An outer frame's batch holds action a: the one that is dispatched now was
\* popped by a callback of that batch.
HeldBelow(a) ==
  \E i \in 1 .. Len(stack) - 1 : a \in Ids(Undispatched(stack[i]))

\* Callbacks come in the order of the Query and Run calls.  An action is
\* overtaken only by what a callback that polls or disconnects dispatches,
\* and only while it waits in the batch of that callback.
CalledInOrder ==
  /\ ~reentered => \A i, j \in 1 .. Len(called) : i < j => called[i] < called[j]
  /\ At({"Poll", "Disconnect"}, "dispatch") /\ Top.batch # << >> =>
       \A a \in 1 .. Head(Top.batch).id - 1 : a \in Gone \/ HeldBelow(a)

\* Seen from the script, the two threads with their queues, batches and nested
\* dispatches are the service of QueryService: executed in the order of the
\* calls, and called back or dropped once, after that.  What is queued late
\* never is executed.
Service == INSTANCE QueryService WITH
  asked <- issued,
  executed <- 1 .. issued \ (Waiting \cup Executing \cup late),
  called <- called,
  dropped <- dropped
ImplementsService == Service!Spec

\* The object is used after its deletion only if a callback called Poll or
\* Disconnect: without re-entry every frame ends before the object does.
FreedOnlyByReentry == fault = "db_freed" => reentered

\* The io thread meets a deleted statement only while the Lua state closes:
\* Disconnect deletes statements when the io thread has been joined.
StatementsOutliveTheirJobs == fault = "stmt_freed" => closing

\* Prepare waits for ever only when called from a callback that Disconnect
\* dispatches, after the io_context has stopped.
HungOnlyInDisconnect ==
  Hung => InDisconnect

\* Every queued action is eventually called or dropped, as long as the
\* script keeps polling, and also if it disconnects; what is queued late is
\* not, and nothing is after a fault, a hang or the closing of Lua.
EventuallyDispatched ==
  \A a \in 1 .. MaxActions :
    issued >= a ~> (a \in Gone \cup late \/ fault # "none" \/ closing \/ Hung)

\* Disconnect does not lock the game up: its spin on io_context.stopped()
\* ends, the callbacks it dispatches end, and the object is deleted.
DisconnectEnds ==
  At({"Disconnect"}, "spin") ~> (~alloc \/ fault # "none" \/ Hung)

\* Prepare's spin on task.completed ends.
PrepareEnds ==
  At({"Prepare"}, "await") ~> (~At({"Prepare"}, "await") \/ Hung)

-----------------------------------------------------------------------------
(* What the documentation and the comments say of the code.                *)

\* README: Disconnect "calls all pending callbacks immediately".  So when it
\* has called those it popped and goes on to delete the object, no callback of
\* an accepted action is left in the io_context that is deleted with it.
PendingCallbacksCalled ==
  At({"Disconnect"}, "dispatch") /\ Top.batch = << >> =>
    \A i \in 1 .. Len(work) : ~work[i].cb

\* README: the same of Disconnect called in a callback: the callbacks that
\* wait in the batch of a dispatch loop below it are not left to a loop whose
\* object is deleted.
NoUseOfDeletedDatabase ==
  At({"Poll", "Disconnect"}, "dispatch") /\ Top.batch # << >> => alloc

\* README: "Fixed instances of lockups/crashes on map change".
NoUseOfDeletedStatement == fault # "stmt_freed"

\* README: "local status, error = Database:Connect()": a failure is reported
\* to the script.
ConnectFailureReported == fault # "no_thread"

\* README: a failed query has status false and "error = the error string".
QueryFailureReported == fault # "terminate"

\* database.cpp, lua_Prepare: "we will post this and wait out the existing
\* queue instead".
PrepareWaitsOutTheQueue == ~Hung

\* README: tmysql.Connect and tmysql.Create take a "Function ConnectCallback"
\* which Poll calls once connected: until then it stays pending.
ConnectCallbackPending ==
  connectCB = "held" /\ connected /\ alloc => pendingCB

\* README: the same "Function ConnectCallback", of a database that has
\* connected.
ConnectCallbackAfterConnect ==
  At({"Poll", "tmysql.Connect"}, "connectcb") => thread # "none"
=============================================================================

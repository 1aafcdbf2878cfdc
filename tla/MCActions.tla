----------------------------- MODULE MCActions ------------------------------
(***************************************************************************)
(* What surrounds the two threads of Database, for TLC: the connection and *)
(* what is done on it, the table of databases, and the way of arguments    *)
(* and results. A behaviour belongs to one component; the components are   *)
(* modelled apart because they meet only in the calls that Database        *)
(* orders. Variables of the same name are shared by the components that    *)
(* have them, and Off in the others. A component with proofs of its own is *)
(* instantiated through its module of proofs, which extends it;            *)
(* ActionsProofs brings them together.                                     *)
(***************************************************************************)
EXTENDS Integers, Sequences

CONSTANTS
  NumStmts, MaxJobs, MaxResults,        \* Executor
  MaxLosses,                            \* Executor, Connection
  Options, CharSets, Default, Unset,    \* Connection
  Addrs, MaxMade,                       \* Registry
  Null,                                 \* Registry, ResultTable
  MaxQueries, PerCall,                  \* Callbacks
  Names, Texts, MaxCols, MaxRows,       \* ResultTable
  MaxArgs                               \* Binds

VARIABLES
  part,         \* the component, and its instance, that the behaviour belongs to
  link, losses,   \* Executor, Connection
  open, nextId, stmt, cached, connErr, kind, hasRetried,
  hasRetriedStatement, errorno, qErr, walk, timer, results, pushed, jobs,
  applied, answerLost, cutShort, crossed, wrong, dead,   \* Executor
  pc,   \* Executor, Callbacks, ResultTable, Binds
  binds,   \* Executor, Binds
  phase, inited, options, charset, saved, io, lua, asked, escaped,
  intruded, refused,   \* Connection
  made, m_databases, alive, connected, iLuaRef, callbacks, points, refs,
  lost, failed, closing, fault,   \* Registry
  size, freeList, orphans, iCallback, pending, queue, batch, top,
  connects, queries, calls, leaked,   \* Callbacks
  isStatement, useNumbers, columns, sent, error, rowCount, colCount,
  m_rows, nulls, rowsPointer, fetched, row, c, data, freed,   \* ResultTable
  numArgs, args, buffers, deletes, sentAs   \* Binds

executorVars == <<open, nextId, stmt, cached, connErr, kind, hasRetried,
  hasRetriedStatement, errorno, qErr, walk, timer, results, pushed, jobs, applied,
  answerLost, cutShort, crossed, wrong, dead>>
connectionVars == <<phase, inited, options, charset, saved, io, lua, asked, escaped,
  intruded, refused>>
registryVars == <<made, m_databases, alive, connected, iLuaRef, callbacks, points,
  refs, lost, failed, closing, fault>>
callbacksVars == <<size, freeList, orphans, iCallback, pending, queue, batch, top,
  connects, queries, calls, leaked>>
resultTableVars == <<isStatement, useNumbers, columns, sent, error, rowCount,
  colCount, m_rows, nulls, rowsPointer, fetched, row, c, data, freed>>
bindsVars == <<numArgs, args, buffers, deletes, sentAs>>
vars == <<part, link, losses, executorVars, pc, binds, connectionVars, registryVars,
  callbacksVars, resultTableVars, bindsVars>>

\* What a component has no use for.
Off == "off"
executorOff == open = Off /\ nextId = Off /\ stmt = Off /\ cached = Off /\
  connErr = Off /\ kind = Off /\ hasRetried = Off /\ hasRetriedStatement = Off /\
  errorno = Off /\ qErr = Off /\ walk = Off /\ timer = Off /\ results = Off /\
  pushed = Off /\ jobs = Off /\ applied = Off /\ answerLost = Off /\ cutShort = Off /\
  crossed = Off /\ wrong = Off /\ dead = Off
connectionOff == phase = Off /\ inited = Off /\ options = Off /\ charset = Off /\
  saved = Off /\ io = Off /\ lua = Off /\ asked = Off /\ escaped = Off /\
  intruded = Off /\ refused = Off
registryOff == made = Off /\ m_databases = Off /\ alive = Off /\ connected = Off /\
  iLuaRef = Off /\ callbacks = Off /\ points = Off /\ refs = Off /\ lost = Off /\
  failed = Off /\ closing = Off /\ fault = Off
callbacksOff == size = Off /\ freeList = Off /\ orphans = Off /\ iCallback = Off /\
  pending = Off /\ queue = Off /\ batch = Off /\ top = Off /\ connects = Off /\
  queries = Off /\ calls = Off /\ leaked = Off
resultTableOff == isStatement = Off /\ useNumbers = Off /\ columns = Off /\
  sent = Off /\ error = Off /\ rowCount = Off /\ colCount = Off /\ m_rows = Off /\
  nulls = Off /\ rowsPointer = Off /\ fetched = Off /\ row = Off /\ c = Off /\
  data = Off /\ freed = Off
bindsOff == numArgs = Off /\ args = Off /\ buffers = Off /\ deletes = Off /\
  sentAs = Off

-----------------------------------------------------------------------------
Exec == INSTANCE ExecutorProofs

Conn == INSTANCE Connection

Reg == INSTANCE RegistryProofs

Lua == INSTANCE CallbacksProofs

Res == INSTANCE ResultTableProofs

Bind == INSTANCE Binds

ASSUME ComponentsAssumption ==
  /\ Exec!ExecutorAssumption
  /\ Conn!ConnectionAssumption
  /\ Reg!RegistryAssumption
  /\ Lua!CallbacksAssumption
  /\ Res!ResultAssumption
  /\ Bind!BindsAssumption

-----------------------------------------------------------------------------
Init ==
  \/ part = "executor" /\ Exec!Init /\ connectionOff /\ registryOff /\ callbacksOff /\
     resultTableOff /\ bindsOff
  \/ part = "connection" /\ Conn!Init /\ executorOff /\ pc = Off /\ binds = Off /\
     registryOff /\ callbacksOff /\ resultTableOff /\ bindsOff
  \/ part = "registry" /\ Reg!Init /\ link = Off /\ losses = Off /\ executorOff /\
     pc = Off /\ binds = Off /\ connectionOff /\ callbacksOff /\ resultTableOff /\
     bindsOff
  \/ part = "callbacks" /\ Lua!Init /\ link = Off /\ losses = Off /\ executorOff /\
     binds = Off /\ connectionOff /\ registryOff /\ resultTableOff /\ bindsOff
  \/ part = "result" /\ Res!Init /\ link = Off /\ losses = Off /\ executorOff /\
     binds = Off /\ connectionOff /\ registryOff /\ callbacksOff /\ bindsOff
  \/ part = "binds" /\ Bind!Init /\ link = Off /\ losses = Off /\ executorOff /\
     connectionOff /\ registryOff /\ callbacksOff /\ resultTableOff

NotExecutor == <<part, connectionVars, registryVars, callbacksVars, resultTableVars,
  bindsVars>>
NotConnection == <<part, executorVars, pc, binds, registryVars, callbacksVars,
  resultTableVars, bindsVars>>
NotRegistry == <<part, link, losses, executorVars, pc, binds, connectionVars,
  callbacksVars, resultTableVars, bindsVars>>
NotCallbacks == <<part, link, losses, executorVars, binds, connectionVars,
  registryVars, resultTableVars, bindsVars>>
NotResultTable == <<part, link, losses, executorVars, binds, connectionVars,
  registryVars, callbacksVars, bindsVars>>
NotBinds == <<part, link, losses, executorVars, connectionVars, registryVars,
  callbacksVars, resultTableVars>>

ExecNext == part = "executor" /\ Exec!Next /\ UNCHANGED NotExecutor
ConnNext == part = "connection" /\ Conn!Next /\ UNCHANGED NotConnection
RegNext == part = "registry" /\ Reg!Next /\ UNCHANGED NotRegistry
LuaNext == part = "callbacks" /\ Lua!Next /\ UNCHANGED NotCallbacks
ResNext == part = "result" /\ Res!Next /\ UNCHANGED NotResultTable
BindNext == part = "binds" /\ Bind!Next /\ UNCHANGED NotBinds

\* The jobs of these components come to an end.
Over == part \in {"executor", "connection", "registry"} /\ UNCHANGED vars

Next == ExecNext \/ ConnNext \/ RegNext \/ LuaNext \/ ResNext \/ BindNext \/ Over
Spec == Init /\ [][Next]_vars

-----------------------------------------------------------------------------
(* Properties.                                                              *)

\* What a callback is told of an action is what was done: success means that it
\* was carried out, a failure of what was carried out that an answer was lost;
\* it takes effect at most twice, and only when the answer to the first attempt
\* was lost; an error keeps its own text over a reconnect.
ReportedAsDone ==
  part = "executor" => Exec!ReportedAsDone

\* A reconnect prepares the statements again: another text than asked for is
\* run only after a reconnect that did not finish its loop, and error 1243 is
\* reported only then or when the loop closed the statement by another one's
\* old number.
StatementsRestored ==
  part = "executor" => Exec!StatementsRestored

\* Every command runs in the character set that was asked for last, in the
\* session and over reconnects, and Escape goes by the one the server uses,
\* unless the two threads met on the connection or a session refused it.
CharSetKept ==
  part = "connection" => Conn!CharSetKept

\* tmysql.GetTable finds every live database; a database has one handle, whose
\* references are exact also when an address is used again, and an entry
\* dangles only after a failed connect.
HandlesExact ==
  part = "registry" => Reg!HandlesExact

\* The callbacks and arguments that wait are in slots of the registry with one
\* owner each, none is lost but in the two ways that the code has, and the Lua
\* stack grows by one slot per callback of a batch.
ReferencesExact ==
  part = "callbacks" => Lua!ReferencesExact

\* The table that a callback gets is the result set, by either constructor and
\* when fetches fail, but for the two ways the code has to lose rows without an
\* error: of a result set that the client could not store there is none, and
\* behind a value that was cut they are blank.  Only arrays that exist are read
\* and deleted.
DataFaithful ==
  part = "result" => Res!DataFaithful /\ Res!ArraysOnly

\* Each buffer of the arguments is deleted once, whichever argument is refused
\* and unless Execute throws, and but for the blobs as what it was allocated; a
\* string with a zero byte reaches the server whole.
BuffersFreed ==
  /\ part = "binds" => Bind!BuffersFreed
  /\ part = "executor" => Exec!BindsDeleted
=============================================================================

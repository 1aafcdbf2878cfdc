------------------------------ MODULE Executor ------------------------------
(***************************************************************************)
(* What a handler of the io thread does on the MySQL connection: RunQuery, *)
(* RunStatement and PStatement::Execute with their retries, Connect(err,   *)
(* true) with the loop that prepares every cached statement again, and     *)
(* what the action then carries to its callback.                           *)
(*                                                                         *)
(* The server (external) numbers the statements of a session 1, 2, ...     *)
(* and knows a statement by its number only; a new session knows none.     *)
(* The connection may be lost at any time, before or after the server has  *)
(* carried out the command it was given.                                   *)
(***************************************************************************)
EXTENDS Naturals, Sequences

CONSTANTS
  NumStmts,     \* prepared texts, numbered in the order of the map's keys
  MaxJobs,      \* bound: actions run in one behaviour
  MaxLosses,    \* bound: times the connection is lost
  MaxResults    \* bound: result sets of one query; its failures get one more

\* What the constants must be; the modules that instantiate this one assume it.
ExecutorAssumption ==
  /\ NumStmts \in Nat \ {0}
  /\ MaxJobs \in Nat
  /\ MaxLosses \in Nat
  /\ MaxResults \in Nat \ {0}

Stmts == 1 .. NumStmts
Query == 0                  \* the kind of a plain query; a run of s has kind s
Kinds == {Query} \cup Stmts

VARIABLES
  \* the server's session
  link,         \* the connection: "up", "lost"
  open,         \* the session's statements: pairs of number and text
  nextId,       \* the next number
  losses,       \* times the connection was lost
  \* client side
  stmt,         \* m_stmt of each cached text
  cached,       \* m_preparedStatements
  connErr,      \* the text mysql_error(m_MySQL) points at
  \* the handler
  pc,
  kind,         \* what is run
  hasRetried,
  hasRetriedStatement,
  errorno,      \* the local of the same name
  qErr,         \* RunQuery's copy of the text
  walk,         \* Connect's position in m_preparedStatements
  \* the action
  timer,        \* "off", "started", "stopped"
  binds,        \* "none", "live", "deleted"
  results,      \* m_pResults
  pushed,       \* actions that wait for Poll
  \* history
  jobs,         \* actions started
  applied,      \* times the server carried out the running action
  answerLost,   \* it did so once and the answer was lost
  cutShort,     \* a reconnect gave a new session and did not finish the loop
  crossed,      \* it closed the running statement by another's old number
  wrong,        \* the server ran another text than the statement's
  dead          \* an exception has left the thread's function

server == <<link, open, nextId, losses>>
client == <<stmt, cached>>
locals == <<kind, hasRetried, hasRetriedStatement>>
action == <<timer, binds, results>>
history == <<jobs, answerLost, cutShort, crossed, wrong>>
vars == <<server, client, connErr, pc, locals, errorno, qErr, walk, action,
          pushed, history, applied, dead>>

Codes == {"none", "lost", "unknown", "noprep", "server", "connect"}

\* m_stmt: prepared or only initialised, its number, which of the objects it
\* has been, and the text mysql_stmt_error points at.
Statement(ok, id, gen, err) == [ok |-> ok, id |-> id, gen |-> gen, err |-> err]

\* Where the m_strError of a result points.
Text(buf, gen, code) == [buf |-> buf, gen |-> gen, code |-> code]

\* A Result: its m_iError and m_strError, and whether all its rows were read.
Result(err, text, whole) == [err |-> err, text |-> text, whole |-> whole]

Busy == ~dead /\ pc # "idle"
At(place) == ~dead /\ pc = place
Goto(place) == pc' = place

-----------------------------------------------------------------------------
(* The server (external).                                                  *)

NewSession ==
  /\ link' = "up"
  /\ open' = {}
  /\ nextId' = 1
  /\ UNCHANGED losses

Lose == link' = "lost" /\ losses' = losses + 1 /\ UNCHANGED <<open, nextId>>

\* The server has a statement of that number.
Known(s) == \E t \in Stmts : <<stmt[s].id, t>> \in open

\* What mysql_real_query or mysql_stmt_execute can return, and the number of
\* times the server then carried the command out.
Answers ==
  IF link = "lost" THEN {<<"lost", 0>>}
  ELSE IF kind # Query /\ ~stmt[kind].ok THEN {<<"noprep", 0>>}
  ELSE IF kind # Query /\ ~Known(kind) THEN {<<"unknown", 0>>}
  ELSE {<<"none", 1>>, <<"server", 0>>}
       \cup IF losses < MaxLosses THEN {<<"lost", 0>>, <<"lost", 1>>} ELSE {}

\* The connection is lost while no command is on it (wait_timeout, restart).
ServerDrops ==
  /\ ~dead
  /\ link = "up"
  /\ losses < MaxLosses
  /\ Lose
  /\ UNCHANGED <<client, connErr, pc, locals, errorno, qErr, walk, action,
                 pushed, history, applied, dead>>

-----------------------------------------------------------------------------
(* PStatement::Prepare.                                                    *)

\* mysql_stmt_close sends the old number, whatever session it is from.
Closed(s) ==
  IF link = "up" /\ stmt[s].ok THEN {p \in open : p[1] # stmt[s].id} ELSE open

\* The new m_stmt: prepared, or only initialised when Prepare throws.
NewStatement(s, code) ==
  stmt' = [stmt EXCEPT ![s] =
             Statement(code = "none", IF code = "none" THEN nextId ELSE 0, @.gen + 1, code)]

Prepare(s, code) ==
  /\ code \in IF link = "up" THEN {"none", "server"} ELSE {"lost"}
  /\ open' = IF code = "none" THEN Closed(s) \cup {<<nextId, s>>} ELSE Closed(s)
  /\ nextId' = IF code = "none" THEN nextId + 1 ELSE nextId
  /\ connErr' = code
  /\ UNCHANGED <<link, losses>>

Reinitialise(s, code) == Prepare(s, code) /\ NewStatement(s, code)

\* CreateStatement, for a text that lua_Prepare did not find.  An object whose
\* constructor throws is gone.
CreateStatement(s, code) ==
  /\ At("idle")
  /\ s \notin cached
  /\ Prepare(s, code)
  /\ IF code = "none"
       THEN NewStatement(s, code) /\ cached' = cached \cup {s}
       ELSE UNCHANGED client
  /\ UNCHANGED <<pc, locals, errorno, qErr, walk, action, pushed, history,
                 applied, dead>>

-----------------------------------------------------------------------------
(* An action is run.                                                       *)

\* The handler starts: the timer is started.
Start(k) ==
  /\ At("idle")
  /\ k \in {Query} \cup cached
  /\ jobs < MaxJobs
  /\ jobs' = jobs + 1
  /\ kind' = k
  /\ hasRetried' = FALSE
  /\ hasRetriedStatement' = FALSE
  /\ timer' = "started"
  /\ binds' = IF k = Query THEN "none" ELSE "live"
  /\ results' = << >>
  /\ applied' = 0
  /\ answerLost' = FALSE
  /\ crossed' = FALSE
  /\ Goto("send")
  /\ UNCHANGED <<server, client, connErr, errorno, qErr, walk, pushed,
                 cutShort, wrong, dead>>

\* The reconnect is tried once.
RetryConnection(code) == code = "lost" /\ ~hasRetried

\* Error 1243: the statement is prepared again, once.
RetryStatement(code) == kind # Query /\ code = "unknown" /\ ~hasRetriedStatement

\* Mutant: a failure that is not retried is not looked at.
IgnoreFailure(code) ==
  Goto(IF RetryConnection(code) THEN "connect"
       ELSE IF RetryStatement(code) THEN "prepare" ELSE "store")

\* Mutant: sent again at once, and for ever.
SendAgain(code) ==
  Goto(CASE code = "none" -> "store"
         [] code = "lost" -> "send"
         [] RetryStatement(code) -> "prepare"
         [] OTHER -> "fail")

\* On to the results, to a retry, or to the failure.
AfterAttempt(code) ==
  Goto(CASE code = "none" -> "store"
         [] RetryConnection(code) -> "connect"
         [] RetryStatement(code) -> "prepare"
         [] OTHER -> "fail")

\* mysql_real_query or mysql_stmt_execute: the code and the text of its error
\* are taken before anything else is done on the connection.
Attempt(answer) ==
  LET code == answer[1]
      times == answer[2]
  IN /\ At("send")
     /\ answer \in Answers
     /\ errorno' = code
     /\ connErr' = code
     /\ qErr' = IF kind = Query THEN code ELSE qErr
     /\ stmt' = IF kind = Query THEN stmt ELSE [stmt EXCEPT ![kind].err = code]
     /\ applied' = applied + times
     /\ answerLost' = (answerLost \/ (code = "lost" /\ times = 1))
     /\ wrong' = (wrong \/ (kind # Query /\ times = 1 /\ <<stmt[kind].id, kind>> \notin open))
     /\ IF code = "lost" /\ link = "up" THEN Lose ELSE UNCHANGED server
     /\ hasRetried' = (hasRetried \/ code = "lost")
     /\ AfterAttempt(code)
     /\ UNCHANGED <<cached, kind, hasRetriedStatement, walk, action, pushed,
                    jobs, cutShort, crossed, dead>>

\* Prepare for error 1243, then again from the start.
PrepareAgain ==
  /\ At("prepare")
  /\ Reinitialise(kind, "none")
  /\ hasRetriedStatement' = TRUE
  /\ Goto("send")
  /\ UNCHANGED <<cached, kind, hasRetried, errorno, qErr, walk, action, pushed,
                 history, applied, dead>>

-----------------------------------------------------------------------------
(* Database::Connect(err, true).                                           *)

\* mysql_real_connect fails: on to the query's own error.
ConnectFails ==
  /\ At("connect")
  /\ connErr' = "connect"
  /\ Goto("fail")
  /\ UNCHANGED <<server, client, locals, errorno, qErr, walk, action, pushed,
                 history, applied, dead>>

\* SetCharacterSet fails on the new connection: Connect returns false.
CharacterSetFails ==
  /\ At("connect")
  /\ NewSession
  /\ connErr' = "server"
  /\ cutShort' = TRUE
  /\ Goto("fail")
  /\ UNCHANGED <<client, locals, errorno, qErr, walk, action, pushed, jobs,
                 answerLost, crossed, wrong, applied, dead>>

\* Mutant: only the last of the cached statements is prepared again.
SkipStatements == walk' = NumStmts

\* The loop over m_preparedStatements starts.
FirstStatement == walk' = 1

Connected ==
  /\ At("connect")
  /\ NewSession
  /\ connErr' = "none"
  /\ FirstStatement
  /\ Goto("reprepare")
  /\ UNCHANGED <<client, locals, errorno, qErr, action, pushed, history, applied,
                 dead>>

\* The loop has another turn.
MoreStatements == walk < NumStmts

\* The server knows the running statement by its number.
RunningOpen == kind # Query /\ <<stmt[kind].id, kind>> \in open

\* The next statement of the loop, or the end of it and the retry.  Its old
\* number may by now be the new one of a statement before it.
Reprepare ==
  /\ At("reprepare")
  /\ \/ /\ walk \in cached
        /\ Reinitialise(walk, "none")
     \/ /\ walk \notin cached
        /\ UNCHANGED <<server, stmt, connErr>>
  /\ walk' = walk + 1
  /\ Goto(IF MoreStatements THEN "reprepare" ELSE "send")
  /\ UNCHANGED <<cached, locals, errorno, qErr, action, pushed, jobs, answerLost,
                 cutShort, wrong, applied, dead>>
  /\ crossed' = (crossed \/ (RunningOpen /\ ~RunningOpen'))

\* Prepare throws, through Connect or not.  RunStatement catches it; nothing
\* in RunQuery does.
PrepareThrows(code) ==
  /\ code # "none"
  /\ \/ At("prepare") /\ Reinitialise(kind, code)
     \/ At("reprepare") /\ walk \in cached /\ Reinitialise(walk, code)
  /\ cutShort' = (cutShort \/ pc = "reprepare")
  /\ IF kind = Query THEN dead' = TRUE /\ UNCHANGED pc ELSE Goto("catch") /\ UNCHANGED dead
  /\ UNCHANGED <<cached, locals, errorno, qErr, walk, action, pushed, jobs,
                 answerLost, crossed, wrong, applied>>

-----------------------------------------------------------------------------
(* Results.                                                                *)

\* m_strError points into qErr, or into the statement's buffer.
FailureText ==
  IF kind = Query THEN Text("local", 0, qErr)
  ELSE Text("stmt", stmt[kind].gen, stmt[kind].err)

\* deleteBinds, where there are any.
DeleteBinds == binds' = IF kind = Query THEN "none" ELSE "deleted"

\* The attempt has failed for good.
Fail ==
  /\ At("fail")
  /\ timer' = "stopped"
  /\ results' = <<Result(errorno, FailureText, FALSE)>>
  /\ DeleteBinds
  /\ Goto("push")
  /\ UNCHANGED <<server, client, connErr, locals, errorno, qErr, walk, pushed,
                 history, applied, dead>>

\* RunStatement's catch: the result points into the exception.
Catch ==
  /\ At("catch")
  /\ results' = Append(results, Result(connErr, Text("what", 0, connErr), FALSE))
  /\ Goto("push")
  /\ UNCHANGED <<server, client, connErr, locals, errorno, qErr, walk, timer,
                 binds, pushed, history, applied, dead>>

\* A Result is made of what is on the connection.  Result(MYSQL*) takes the
\* error before it reads the rows; for a statement the rows are read first.
Store(whole) ==
  LET err == IF whole THEN "none" ELSE "lost"
  IN /\ At("store")
     /\ timer' = "stopped"
     /\ IF whole THEN link = "up" ELSE link = "lost" \/ losses < MaxLosses
     /\ results' = Append(results,
                     IF kind = Query
                       THEN Result(connErr, Text("conn", 0, connErr), whole)
                       ELSE Result(err, Text("stmt", stmt[kind].gen, err), whole))
     /\ stmt' = IF kind = Query THEN stmt ELSE [stmt EXCEPT ![kind].err = err]
     /\ connErr' = err
     /\ answerLost' = (answerLost \/ ~whole)
     /\ IF whole \/ link = "lost" THEN UNCHANGED server ELSE Lose
     /\ Goto("next")
     /\ UNCHANGED <<cached, locals, errorno, qErr, walk, binds, pushed, jobs,
                    cutShort, crossed, wrong, applied, dead>>

\* mysql_next_result returns -1: no more results.
NoMoreResults(place) ==
  /\ At(place)
  /\ DeleteBinds
  /\ Goto("push")
  /\ UNCHANGED <<server, client, connErr, locals, errorno, qErr, walk, timer,
                 results, pushed, history, applied, dead>>

\* Its error, or none, is now that of the connection or of the statement.
NextError(code) ==
  /\ connErr' = code
  /\ stmt' = IF kind = Query THEN stmt ELSE [stmt EXCEPT ![kind].err = code]

\* It returns 0, and there is another result.
NextResult ==
  /\ At("next")
  /\ link = "up"
  /\ Len(results) < MaxResults
  /\ NextError("none")
  /\ Goto("store")
  /\ UNCHANGED <<server, cached, locals, errorno, qErr, walk, action, pushed, history,
                 applied, dead>>

\* It returns a positive status, for an error of the server or for a link that
\* is lost; only -1 ends the loop, and its next turn makes a Result of the
\* error.
NextFails(code) ==
  /\ At("next")
  /\ Len(results) <= MaxResults
  /\ \/ code = "server" /\ link = "up" /\ UNCHANGED server
     \/ code = "lost" /\ link = "lost" /\ UNCHANGED server
     \/ code = "lost" /\ link = "up" /\ losses < MaxLosses /\ Lose
  /\ NextError(code)
  /\ results' = Append(results,
       Result(code, IF kind = Query THEN Text("conn", 0, code)
                    ELSE Text("stmt", stmt[kind].gen, code), TRUE))
  /\ UNCHANGED <<pc, cached, locals, errorno, qErr, walk, timer, binds, pushed,
                 history, applied, dead>>

\* On a lost link it goes on failing: "spin" stands for the turns, and the
\* results, past the bound.
KeepsFailing ==
  /\ At("next")
  /\ Len(results) > MaxResults
  /\ link = "lost"
  /\ NextError("lost")
  /\ Goto("spin")
  /\ UNCHANGED <<server, cached, locals, errorno, qErr, walk, action, pushed, history,
                 applied, dead>>

\* m_completedActions.push.
Push ==
  /\ At("push")
  /\ pushed' = Append(pushed, [kind |-> kind, results |-> results, timer |-> timer])
  /\ Goto("idle")
  /\ UNCHANGED <<server, client, connErr, locals, errorno, qErr, walk, action,
                 history, applied, dead>>

\* Poll reads the results of the oldest action and deletes it.
Poll ==
  /\ pushed # << >>
  /\ pushed' = Tail(pushed)
  /\ UNCHANGED <<server, client, connErr, pc, locals, errorno, qErr, walk, action,
                 history, applied, dead>>

-----------------------------------------------------------------------------
\* The database has just connected; nothing is prepared.
Init ==
  /\ link = "up"
  /\ open = {}
  /\ nextId = 1
  /\ losses = 0
  /\ stmt = [s \in Stmts |-> Statement(FALSE, 0, 0, "none")]
  /\ cached = {}
  /\ connErr = "none"
  /\ pc = "idle"
  /\ kind = Query
  /\ hasRetried = FALSE
  /\ hasRetriedStatement = FALSE
  /\ errorno = "none"
  /\ qErr = "none"
  /\ walk = 1
  /\ timer = "off"
  /\ binds = "none"
  /\ results = << >>
  /\ pushed = << >>
  /\ jobs = 0
  /\ applied = 0
  /\ answerLost = FALSE
  /\ cutShort = FALSE
  /\ crossed = FALSE
  /\ wrong = FALSE
  /\ dead = FALSE

\* The handler goes on.
HandlerStep ==
  \/ \E answer \in Answers : Attempt(answer)
  \/ PrepareAgain \/ ConnectFails \/ CharacterSetFails \/ Connected \/ Reprepare
  \/ \E code \in Codes : PrepareThrows(code)
  \/ Fail \/ Catch
  \/ \E whole \in BOOLEAN : Store(whole)
  \/ NoMoreResults("next") \/ NextResult \/ KeepsFailing
  \/ \E code \in {"server", "lost"} : NextFails(code)
  \/ Push

Next ==
  \/ \E s \in Stmts, code \in Codes : CreateStatement(s, code)
  \/ \E k \in Kinds : Start(k)
  \/ HandlerStep
  \/ NoMoreResults("spin")
  \/ ServerDrops
  \/ Poll

Spec == Init /\ [][Next]_vars

\* The io thread is scheduled, and calls into the connector return; that on a
\* lost link one of them returns -1 in the end is not assumed.
LiveSpec == Spec /\ WF_vars(HandlerStep)

-----------------------------------------------------------------------------
(* Properties.                                                             *)

\* Every variable has its type.
TypeOK ==
  /\ link \in {"up", "lost"}
  /\ open \subseteq Nat \X Stmts
  /\ nextId \in Nat
  /\ losses \in Nat
  /\ stmt \in [Stmts -> [ok : BOOLEAN, id : Nat, gen : Nat, err : Codes]]
  /\ cached \subseteq Stmts
  /\ connErr \in Codes
  /\ pc \in {"idle", "send", "connect", "reprepare", "prepare", "fail", "catch",
            "store", "next", "spin", "push"}
  /\ kind \in Kinds
  /\ hasRetried \in BOOLEAN
  /\ hasRetriedStatement \in BOOLEAN
  /\ errorno \in Codes
  /\ qErr \in Codes
  /\ walk \in 1 .. NumStmts + 1
  /\ timer \in {"off", "started", "stopped"}
  /\ binds \in {"none", "live", "deleted"}
  /\ results \in Seq([err : Codes, text : [buf : {"local", "conn", "stmt", "what"},
                                        gen : Nat, code : Codes], whole : BOOLEAN])
  /\ jobs \in Nat
  /\ applied \in Nat
  /\ {answerLost, cutShort, crossed, wrong, dead} \subseteq BOOLEAN

\* A query that changes data takes effect at most twice, and twice only when
\* the answer to the first attempt was lost and the reconnect succeeded.
AtMostTwice ==
  /\ applied <= 2
  /\ applied = 2 => answerLost /\ hasRetried

\* What the callback is told of its first result agrees with what the server
\* did: success means the query was carried out, and a failure of a query
\* that was carried out means that an answer was lost.
StatusAsDone ==
  pc = "push" =>
    /\ results # << >>
    /\ results[1].err = "none" => applied >= 1
    /\ results[1].err # "none" /\ applied >= 1 => answerLost

\* RunQuery's comment: mysql_error "would grab the wrong error string if the
\* database attempted a reconnect".  The text stored with an error number is
\* the text of that error, also after a reconnect that failed.
ErrorIsOwn ==
  \A i \in 1 .. Len(results) : results[i].text.code = results[i].err

\* A new session gives statements their numbers anew, so that the number of
\* one that was not prepared again may stand for another text.  The server
\* runs the wrong text only if a reconnect did not finish its loop.
WrongOnlyIfCutShort == wrong => cutShort

\* The parameters of a statement are there at every attempt, and deleted when
\* the action is done, unless Prepare threw past deleteBinds.
BindsDeleted ==
  /\ At("send") /\ kind # Query => binds = "live"
  /\ pc = "push" /\ kind # Query =>
       binds = "deleted" \/ results[Len(results)].text.buf = "what"

\* The retries of Execute recover from a server that does not know the
\* statement: the callback is told error 1243 only after a reconnect that did
\* not finish its loop, or one whose loop, going by the numbers of the old
\* session, closed the running statement after it was prepared.
UnknownOnlyIfClosed ==
  \A i \in 1 .. Len(results) : results[i].err = "unknown" => cutShort \/ crossed

\* What the callback is told is what was done.
ReportedAsDone == TypeOK /\ AtMostTwice /\ StatusAsDone /\ ErrorIsOwn

\* A reconnect restores the statements for the attempts that follow.
StatementsRestored == WrongOnlyIfCutShort /\ UnknownOnlyIfClosed

\* The action that was started is pushed, or the process is gone.
Ended == pc = "idle" \/ dead

\* Or the loop over its results turns without an end, with the link lost.
Spinning == pc = "spin" /\ link = "lost"

-----------------------------------------------------------------------------
(* What the documentation says.                                            *)

\* The text is still there when the callback reads it.
Intact(k, text) ==
  CASE text.buf = "stmt" -> stmt[k].gen = text.gen /\ stmt[k].err = text.code
    [] text.buf = "conn" -> connErr = text.code
    [] OTHER -> FALSE

\* README: "error = the error string".
ErrorTextIntact ==
  \A i \in 1 .. Len(pushed) : \A j \in 1 .. Len(pushed[i].results) :
    LET r == pushed[i].results[j] IN r.err # "none" => Intact(pushed[i].kind, r.text)

\* README: "status = true/false": true means that the result is all there.
StatusTellsFailure ==
  \A i \in 1 .. Len(results) : results[i].err = "none" => results[i].whole

\* README: "error = the error string" when the status is false: a callback is
\* told of a failure, so every action that is started comes to its callback.
CallbackComes == ~Ended ~> Ended

\* README: "time = time elapsed since creating the query and receiving the
\* callback": at least, the clock was stopped.
TimeMeasured == \A i \in 1 .. Len(pushed) : pushed[i].timer = "stopped"
=============================================================================

--------------------------- MODULE ExecutorProofs ---------------------------
(***************************************************************************)
(* What is told to a callback and what was done, for any number of cached  *)
(* statements, actions, losses of the connection and result sets.          *)
(*                                                                         *)
(* What the runs check at the end of an action says nothing of the places  *)
(* before it.  The inductive invariant says for every place of the handler *)
(* what was done so far (Progress), what the locals hold of it (Errors),   *)
(* what the results made so far tell (Told), who has the parameters        *)
(* (Parameters), and, for the server, which statements the session and the *)
(* cache agree on (Session).                                               *)
(***************************************************************************)
EXTENDS Executor, TLAPS

\* Places before an attempt: the action may still be sent.
Sending == {"send", "connect", "reprepare", "prepare"}

\* Places with results, before and after them.
Without == Sending \cup {"fail", "catch"}
With == {"next", "spin", "push"}

\* Only statements that are cached are run and prepared again, and results
\* are made only after the attempts.
Places ==
  /\ kind \in {Query} \cup cached
  /\ pc = "reprepare" => walk <= NumStmts
  /\ pc \in {"prepare", "catch"} => kind # Query
  /\ pc \in Without => results = << >>
  /\ pc \in With => results # << >>

\* How often the server has carried out the action: an attempt that is still
\* to come is the second one only after the first one's answer was lost.
Progress ==
  /\ AtMostTwice
  /\ pc \in Sending => applied <= 1 /\ (applied = 1 => answerLost /\ hasRetried)
  /\ pc \in {"fail", "catch"} => (applied >= 1 => answerLost)
  /\ pc \in {"store", "next", "spin"} => applied >= 1

\* The error of the last attempt is where the result takes it from.
Errors ==
  /\ pc = "connect" => errorno = "lost"
  /\ pc \in {"connect", "fail"} => errorno # "none" /\ FailureText.code = errorno
  /\ pc = "store" => connErr = "none"
  /\ pc = "catch" => connErr \in {"server", "lost"}

\* The results that were made tell what was done.
Told ==
  /\ results # << >> =>
       /\ results[1].err = "none" => applied >= 1
       /\ results[1].err # "none" /\ applied >= 1 => answerLost
  /\ ErrorIsOwn
  /\ UnknownOnlyIfClosed
  /\ pc = "fail" /\ errorno = "unknown" => cutShort \/ crossed

\* The parameters are live up to the last place that could send them.
Parameters ==
  kind # Query =>
    /\ pc \in Without \cup {"store", "next", "spin"} => binds = "live"
    /\ pc = "push" => binds = "deleted" \/ results[Len(results)].text.buf = "what"

\* The loop of a reconnect has come past s.
Restored(s) == pc = "reprepare" => s < walk

\* A prepared statement has a number of the session, which no other text has.
Numbered(s) ==
  stmt[s].ok =>
    /\ stmt[s].id < nextId
    /\ \A t \in Stmts : <<stmt[s].id, t>> \in open => t = s

\* The running statement was prepared for error 1243 and not closed since.
Recovered ==
  /\ hasRetriedStatement
  /\ kind # Query
  /\ pc = "send" \/ (pc = "reprepare" /\ kind < walk)
  => stmt[kind].ok /\ <<stmt[kind].id, kind>> \in open

\* Unless a reconnect was cut short, the cache and the session agree.
Session ==
  /\ \A n \in Nat, t \in Stmts : <<n, t>> \in open => n < nextId
  /\ ~cutShort => \A s \in cached : Restored(s) => Numbered(s)
  /\ wrong => cutShort
  /\ ~cutShort /\ ~crossed => Recovered

IInv == TypeOK /\ Places /\ Progress /\ Errors /\ Told /\ Parameters /\ Session

-----------------------------------------------------------------------------
(* Types.                                                                  *)

\* What an answer tells: a command that was carried out and not answered was
\* lost, and only a number that the session has is carried out.
LEMMA AnswerCases ==
  ASSUME NEW answer \in Answers
  PROVE  /\ answer[1] \in Codes
         /\ answer[2] \in {0, 1}
         /\ answer[1] = "none" => answer[2] = 1
         /\ answer[2] = 1 => answer[1] \in {"none", "lost"}
         /\ answer[2] = 1 /\ kind # Query => stmt[kind].ok /\ Known(kind)
         /\ answer[1] = "unknown" => kind # Query /\ stmt[kind].ok /\ ~Known(kind)
  BY DEF Answers, Codes

\* Prepare keeps the types of the session.
LEMMA PrepareTypes ==
  ASSUME ExecutorAssumption, TypeOK, NEW s \in Stmts, NEW code, Prepare(s, code)
  PROVE  /\ open' \subseteq Nat \X Stmts
         /\ nextId' \in Nat
         /\ connErr' \in Codes
         /\ link' = link /\ losses' = losses
<1>1. Closed(s) \subseteq Nat \X Stmts
  BY DEF Closed, TypeOK
<1>2. <<nextId, s>> \in Nat \X Stmts
  BY DEF TypeOK
<1> QED
  BY <1>1, <1>2 DEF Prepare, TypeOK, Codes

\* ... and of the m_stmt it replaces.
LEMMA NewStatementTypes ==
  ASSUME TypeOK, NEW s \in Stmts, NEW code \in Codes, NewStatement(s, code)
  PROVE  stmt' \in [Stmts -> [ok : BOOLEAN, id : Nat, gen : Nat, err : Codes]]
  BY DEF NewStatement, Statement, TypeOK

\* A call on a statement leaves its error in it.
LEMMA ErrTypes ==
  ASSUME TypeOK, NEW s \in Stmts, NEW code \in Codes
  PROVE  [stmt EXCEPT ![s].err = code] \in
           [Stmts -> [ok : BOOLEAN, id : Nat, gen : Nat, err : Codes]]
  BY DEF TypeOK

\* AddResult keeps the type of m_pResults.
LEMMA ResultTypes ==
  ASSUME TypeOK, NEW r \in [err : Codes, text : [buf : {"local", "conn", "stmt", "what"},
                                         gen : Nat, code : Codes], whole : BOOLEAN]
  PROVE  Append(results, r) \in
           Seq([err : Codes, text : [buf : {"local", "conn", "stmt", "what"},
                                     gen : Nat, code : Codes], whole : BOOLEAN])
  BY DEF TypeOK

\* CreateStatement keeps the types.
LEMMA TypesCreate ==
  ASSUME ExecutorAssumption, TypeOK, NEW s \in Stmts, NEW code \in Codes,
         CreateStatement(s, code)
  PROVE  TypeOK'
<1>1. Prepare(s, code)
  BY DEF CreateStatement
<1>2. stmt' \in [Stmts -> [ok : BOOLEAN, id : Nat, gen : Nat, err : Codes]]
  BY NewStatementTypes DEF CreateStatement, client, TypeOK
<1>3. cached' \subseteq Stmts
  BY DEF CreateStatement, client, TypeOK
<1>4. /\ open' \subseteq Nat \X Stmts
      /\ nextId' \in Nat
      /\ connErr' \in Codes
      /\ link' = link /\ losses' = losses
  BY <1>1, PrepareTypes
<1>5. {answerLost', cutShort', crossed', wrong', dead'} \subseteq BOOLEAN
  BY DEF CreateStatement, TypeOK, history
<1> QED
  BY <1>2, <1>3, <1>4, <1>5 DEF CreateStatement, TypeOK, locals, action, history

\* The start of an action keeps the types.
LEMMA TypesStart ==
  ASSUME ExecutorAssumption, TypeOK, NEW k \in Kinds, Start(k)
  PROVE  TypeOK'
<1>1. {answerLost', cutShort', crossed', wrong', dead'} \subseteq BOOLEAN
  BY DEF Start, TypeOK
<1>2. jobs' \in Nat
  BY DEF Start, TypeOK
<1>3. results' \in Seq([err : Codes, text : [buf : {"local", "conn", "stmt", "what"},
                                     gen : Nat, code : Codes], whole : BOOLEAN])
  BY DEF Start
<1>4. kind' \in Kinds /\ pc' = "send" /\ timer' = "started" /\ binds' \in {"none", "live"}
  BY DEF Start, Goto
<1>5. applied' \in Nat /\ hasRetried' \in BOOLEAN /\ hasRetriedStatement' \in BOOLEAN
  BY DEF Start
<1> QED
  BY <1>1, <1>2, <1>3, <1>4, <1>5 DEF Start, TypeOK, server, client

\* An attempt keeps the types.
LEMMA TypesAttempt ==
  ASSUME ExecutorAssumption, TypeOK, NEW answer \in Answers, Attempt(answer)
  PROVE  TypeOK'
<1>1. answer[1] \in Codes /\ answer[2] \in {0, 1}
  BY AnswerCases
<1>2. stmt' \in [Stmts -> [ok : BOOLEAN, id : Nat, gen : Nat, err : Codes]]
  BY <1>1, ErrTypes DEF Attempt, TypeOK, Kinds, Query
<1>3. link' \in {"up", "lost"} /\ losses' \in Nat /\ open' = open /\ nextId' = nextId
  BY DEF Attempt, Lose, TypeOK, server
<1>4. pc' \in {"store", "connect", "prepare", "fail"}
  BY DEF Attempt, AfterAttempt, Goto
<1>5. {answerLost', cutShort', crossed', wrong', dead'} \subseteq BOOLEAN
  BY DEF Attempt, TypeOK
<1>6. applied' \in Nat
  BY <1>1 DEF Attempt, TypeOK
<1>7. hasRetried' \in BOOLEAN /\ {qErr', errorno', connErr'} \subseteq Codes
  BY <1>1 DEF Attempt, TypeOK
<1> QED
  BY <1>2, <1>3, <1>4, <1>5, <1>6, <1>7 DEF Attempt, TypeOK, action

\* A turn of the loop of Connect keeps the types, and walks on within the map.
LEMMA TypesReprepare ==
  ASSUME ExecutorAssumption, TypeOK, Places, Reprepare
  PROVE  TypeOK'
<1>1. /\ open' \subseteq Nat \X Stmts
      /\ nextId' \in Nat
      /\ connErr' \in Codes
      /\ link' = link /\ losses' = losses
  BY PrepareTypes DEF Reprepare, Reinitialise, TypeOK, server
<1>2. stmt' \in [Stmts -> [ok : BOOLEAN, id : Nat, gen : Nat, err : Codes]]
  BY NewStatementTypes DEF Reprepare, Reinitialise, TypeOK, Codes
<1>3. walk' \in 1 .. NumStmts + 1 /\ pc' \in {"reprepare", "send"}
  BY DEF Reprepare, At, Places, TypeOK, MoreStatements, Goto, ExecutorAssumption
<1>4. {answerLost', cutShort', crossed', wrong', dead'} \subseteq BOOLEAN
  BY DEF Reprepare, TypeOK
<1> QED
  BY <1>1, <1>2, <1>3, <1>4 DEF Reprepare, TypeOK, locals, action

\* An exception of Prepare keeps the types.
LEMMA TypesThrows ==
  ASSUME ExecutorAssumption, TypeOK, Places, NEW code \in Codes, PrepareThrows(code)
  PROVE  TypeOK'
<1>1. PICK s \in Stmts : Reinitialise(s, code)
  BY DEF PrepareThrows, At, Places, TypeOK, Kinds
<1>2. stmt' \in [Stmts -> [ok : BOOLEAN, id : Nat, gen : Nat, err : Codes]]
  BY <1>1, NewStatementTypes DEF Reinitialise
<1>3. pc' \in {pc, "catch"}
  BY DEF PrepareThrows, Goto
<1>4. {answerLost', cutShort', crossed', wrong', dead'} \subseteq BOOLEAN
  BY DEF PrepareThrows, TypeOK
<1>5. Prepare(s, code)
  BY <1>1 DEF Reinitialise
<1>6. /\ open' \subseteq Nat \X Stmts
      /\ nextId' \in Nat
      /\ connErr' \in Codes
      /\ link' = link /\ losses' = losses
  BY <1>5, PrepareTypes
<1> QED
  BY <1>2, <1>3, <1>4, <1>6 DEF PrepareThrows, TypeOK, locals, action

\* The making of a result keeps the types.
LEMMA TypesStore ==
  ASSUME ExecutorAssumption, TypeOK, NEW whole \in BOOLEAN, Store(whole)
  PROVE  TypeOK'
<1> DEFINE err == IF whole THEN "none" ELSE "lost"
<1>1. err \in Codes
  BY DEF Codes
<1>2. stmt' \in [Stmts -> [ok : BOOLEAN, id : Nat, gen : Nat, err : Codes]]
  BY <1>1, ErrTypes DEF Store, TypeOK, Kinds, Query
<1>3. results' \in Seq([err : Codes, text : [buf : {"local", "conn", "stmt", "what"},
                                     gen : Nat, code : Codes], whole : BOOLEAN])
  <2>1. CASE kind = Query
    BY <2>1, ResultTypes DEF Store, Result, Text, TypeOK
  <2>2. CASE kind # Query
    <3>1. stmt[kind].gen \in Nat
      BY <2>2 DEF TypeOK, Kinds
    <3> QED
      BY <1>1, <2>2, <3>1, ResultTypes DEF Store, Result, Text
  <2> QED
    BY <2>1, <2>2
<1>4. link' \in {"up", "lost"} /\ losses' \in Nat /\ open' = open /\ nextId' = nextId
  BY DEF Store, Lose, TypeOK, server
<1>5. {answerLost', cutShort', crossed', wrong', dead'} \subseteq BOOLEAN
  BY DEF Store, TypeOK
<1> QED
  BY <1>1, <1>2, <1>3, <1>4, <1>5 DEF Store, Goto, TypeOK, locals

\* mysql_next_result keeps the types, when there is another result or the link
\* stays lost.
LEMMA TypesNext ==
  ASSUME ExecutorAssumption, TypeOK, NextResult \/ KeepsFailing PROVE TypeOK'
<1>1. {"none", "lost"} \subseteq Codes
  BY DEF Codes
<1>2. stmt' \in [Stmts -> [ok : BOOLEAN, id : Nat, gen : Nat, err : Codes]]
  <2>1. ASSUME NEW code \in Codes, NextError(code)
        PROVE  stmt' \in [Stmts -> [ok : BOOLEAN, id : Nat, gen : Nat, err : Codes]]
    BY <2>1, ErrTypes DEF NextError, TypeOK, Kinds, Query
  <2> QED
    BY <1>1, <2>1 DEF NextResult, KeepsFailing
<1> QED
  BY <1>1, <1>2
  DEF NextResult, KeepsFailing, NextError, Goto, TypeOK, server, locals, action, history

\* It keeps them when it fails.
LEMMA TypesFails ==
  ASSUME ExecutorAssumption, TypeOK, NEW code \in {"server", "lost"}, NextFails(code)
  PROVE  TypeOK'
<1>1. code \in Codes
  BY DEF Codes
<1>2. stmt' \in [Stmts -> [ok : BOOLEAN, id : Nat, gen : Nat, err : Codes]]
  BY <1>1, ErrTypes DEF NextFails, NextError, TypeOK, Kinds, Query
<1>3. results' \in Seq([err : Codes, text : [buf : {"local", "conn", "stmt", "what"},
                                     gen : Nat, code : Codes], whole : BOOLEAN])
  <2>1. CASE kind = Query
    BY <1>1, <2>1, ResultTypes DEF NextFails, Result, Text
  <2>2. CASE kind # Query
    <3>1. stmt[kind].gen \in Nat
      BY <2>2 DEF TypeOK, Kinds
    <3> QED
      BY <1>1, <2>2, <3>1, ResultTypes DEF NextFails, Result, Text
  <2> QED
    BY <2>1, <2>2
<1>4. link' \in {"up", "lost"} /\ losses' \in Nat /\ open' = open /\ nextId' = nextId
  BY DEF NextFails, Lose, TypeOK, server
<1> QED
  BY <1>1, <1>2, <1>3, <1>4 DEF NextFails, NextError, TypeOK, locals, history

\* The Prepare after error 1243 keeps the types.
LEMMA TypesPrepareAgain ==
  ASSUME ExecutorAssumption, TypeOK, Places, PrepareAgain
  PROVE  TypeOK'
<1>1. kind \in Stmts
  BY DEF PrepareAgain, At, Places, TypeOK, Kinds
<1>2. Prepare(kind, "none") /\ NewStatement(kind, "none") /\ "none" \in Codes
  BY DEF PrepareAgain, Reinitialise, Codes
<1>3. stmt' \in [Stmts -> [ok : BOOLEAN, id : Nat, gen : Nat, err : Codes]]
  BY <1>1, <1>2, NewStatementTypes
<1>4. /\ open' \subseteq Nat \X Stmts
      /\ nextId' \in Nat
      /\ connErr' \in Codes
      /\ link' = link /\ losses' = losses
  BY <1>1, <1>2, PrepareTypes
<1>5. {answerLost', cutShort', crossed', wrong', dead'} \subseteq BOOLEAN
  BY DEF PrepareAgain, TypeOK, history
<1> QED
  BY <1>3, <1>4, <1>5 DEF PrepareAgain, Goto, TypeOK, action, history

\* The result of a failure keeps the types.
LEMMA TypesFail ==
  ASSUME TypeOK, Fail
  PROVE  TypeOK'
<1> DEFINE TextType == [buf : {"local", "conn", "stmt", "what"}, gen : Nat, code : Codes]
<1>1. FailureText \in TextType
  <2>1. CASE kind = Query
    BY <2>1 DEF FailureText, Text, TypeOK
  <2>2. CASE kind # Query
    <3>1. stmt[kind].gen \in Nat /\ stmt[kind].err \in Codes
      BY <2>2 DEF TypeOK, Kinds
    <3> QED
      BY <2>2, <3>1 DEF FailureText, Text
  <2> QED
    BY <2>1, <2>2
<1>2. Result(errorno, FailureText, FALSE) \in [err : Codes, text : TextType, whole : BOOLEAN]
  BY <1>1 DEF Result, TypeOK
<1>3. results' \in Seq([err : Codes, text : TextType, whole : BOOLEAN])
  <2> DEFINE Results == [err : Codes, text : TextType, whole : BOOLEAN]
             r == Result(errorno, FailureText, FALSE)
  <2>1. results' = <<r>> /\ r \in Results
    BY <1>2 DEF Fail
  <2> HIDE DEF Results, r
  <2>2. <<r>> \in Seq(Results)
    BY <2>1
  <2>3. results' \in Seq(Results)
    BY <2>1, <2>2
  <2> QED
    BY <2>3 DEF Results
<1>4. binds' \in {"none", "deleted"}
  BY DEF Fail, DeleteBinds
<1> QED
  BY <1>3, <1>4 DEF Fail, Goto, TypeOK, server, client, locals, history

\* Every step keeps the types.
LEMMA TypesKept ==
  ASSUME ExecutorAssumption, TypeOK, Places, Next PROVE TypeOK'
<1> USE DEF TypeOK, Codes, Stmts, Kinds, Query, ExecutorAssumption, Places, Without,
            Sending, At, Goto, server, client, locals, action, history
<1>1. CASE \E s \in Stmts, code \in Codes : CreateStatement(s, code)
  BY <1>1, TypesCreate
<1>2. CASE \E k \in Kinds : Start(k)
  BY <1>2, TypesStart
<1>3. CASE \E answer \in Answers : Attempt(answer)
  BY <1>3, TypesAttempt
<1>4. CASE PrepareAgain
  BY <1>4, TypesPrepareAgain
<1>5. CASE ConnectFails
  BY <1>5 DEF ConnectFails
<1>6. CASE CharacterSetFails
  BY <1>6 DEF CharacterSetFails, NewSession
<1>7. CASE Connected
  BY <1>7 DEF Connected, NewSession, FirstStatement
<1>8. CASE Reprepare
  BY <1>8, TypesReprepare
<1>9. CASE \E code \in Codes : PrepareThrows(code)
  BY <1>9, TypesThrows
<1>10. CASE Fail
  BY <1>10, TypesFail
<1>11. CASE Catch
  BY <1>11, ResultTypes DEF Catch, Text, Result
<1>12. CASE \E whole \in BOOLEAN : Store(whole)
  BY <1>12, TypesStore
<1>13. CASE NoMoreResults("next") \/ NoMoreResults("spin")
  <2>1. \A place : NoMoreResults(place) => TypeOK'
    BY DEF NoMoreResults, DeleteBinds
  <2> QED
    BY <1>13, <2>1
<1>14. CASE NextResult \/ KeepsFailing
  BY <1>14, TypesNext
<1>18. CASE \E code \in {"server", "lost"} : NextFails(code)
  BY <1>18, TypesFails
<1>15. CASE Push
  BY <1>15 DEF Push
<1>16. CASE ServerDrops
  BY <1>16 DEF ServerDrops, Lose
<1>17. CASE Poll
  BY <1>17 DEF Poll
<1> QED
  BY <1>1, <1>2, <1>3, <1>4, <1>5, <1>6, <1>7, <1>8, <1>9, <1>10, <1>11, <1>12, <1>13,
     <1>14, <1>15, <1>16, <1>17, <1>18 DEF Next, HandlerStep

-----------------------------------------------------------------------------
(* What was done, and what is told of it.                                  *)

\* A result added to any is a result.
LEMMA AppendSome == ASSUME TypeOK, NEW r PROVE Append(results, r) # << >>
<1>1. Len(Append(results, r)) = Len(results) + 1 /\ Len(results) \in Nat
  BY DEF TypeOK
<1> QED
  BY <1>1

\* Every step keeps to the order of the handler's places.
LEMMA PlacesKept ==
  ASSUME ExecutorAssumption, TypeOK, Places, Next PROVE Places'
<1> USE DEF Places, Without, Sending, With, ExecutorAssumption, TypeOK, Stmts, Kinds,
            Query, At, Goto, server, client, locals, action, history
<1>1. CASE \E s \in Stmts, code \in Codes : CreateStatement(s, code)
  BY <1>1 DEF CreateStatement, Prepare, Closed, NewStatement, Statement
<1>2. CASE \E k \in Kinds : Start(k)
  BY <1>2 DEF Start
<1>3. CASE \E answer \in Answers : Attempt(answer)
  BY <1>3 DEF Attempt, AfterAttempt, RetryConnection, RetryStatement, Answers, Known,
         Lose
<1>4. CASE PrepareAgain
  BY <1>4 DEF PrepareAgain, Reinitialise, Prepare, Closed, NewStatement, Statement
<1>5. CASE ConnectFails
  BY <1>5 DEF ConnectFails
<1>6. CASE CharacterSetFails
  BY <1>6 DEF CharacterSetFails, NewSession
<1>7. CASE Connected
  BY <1>7 DEF Connected, NewSession, FirstStatement
<1>8. CASE Reprepare
  BY <1>8 DEF Reprepare, MoreStatements, RunningOpen, Reinitialise, Prepare, Closed,
         NewStatement, Statement
<1>9. CASE \E code \in Codes : PrepareThrows(code)
  BY <1>9 DEF PrepareThrows, Reinitialise, Prepare, Closed, NewStatement, Statement
<1>10. CASE Fail
  BY <1>10 DEF Fail, FailureText, Text, Result, DeleteBinds
<1>11. CASE Catch
  BY <1>11, AppendSome DEF Catch
<1>12. CASE \E whole \in BOOLEAN : Store(whole)
  BY <1>12 DEF Store, Text, Result, Lose
<1>13. CASE NoMoreResults("next") \/ NoMoreResults("spin")
  BY <1>13 DEF NoMoreResults, DeleteBinds
<1>14. CASE NextResult \/ KeepsFailing
  BY <1>14 DEF NextResult, KeepsFailing, NextError
<1>18. CASE \E code \in {"server", "lost"} : NextFails(code)
  BY <1>18, AppendSome DEF NextFails, NextError, Lose
<1>15. CASE Push
  BY <1>15 DEF Push
<1>16. CASE ServerDrops
  BY <1>16 DEF ServerDrops, Lose
<1>17. CASE Poll
  BY <1>17 DEF Poll
<1> QED
  BY <1>1, <1>2, <1>3, <1>4, <1>5, <1>6, <1>7, <1>8, <1>9, <1>10, <1>11, <1>12, <1>13,
     <1>14, <1>15, <1>16, <1>17, <1>18 DEF Next, HandlerStep

\* An attempt: the second one is made only after the answer to the first was
\* lost, and there is no third.
LEMMA ProgressAttempt ==
  ASSUME ExecutorAssumption, TypeOK, Progress, NEW answer \in Answers, Attempt(answer)
  PROVE  Progress'
<1>1. /\ answer[2] \in {0, 1}
      /\ answer[1] = "none" => answer[2] = 1
      /\ answer[2] = 1 => answer[1] \in {"none", "lost"}
  BY AnswerCases
<1>2. applied \in Nat /\ applied <= 1 /\ (applied = 1 => answerLost /\ hasRetried)
  BY DEF Attempt, At, Progress, Sending, TypeOK
<1>3. applied' = applied + answer[2]
  BY DEF Attempt
<1>4. /\ answerLost => answerLost'
      /\ answer[1] = "lost" /\ answer[2] = 1 => answerLost'
      /\ hasRetried => hasRetried'
      /\ answer[1] = "lost" => hasRetried'
  BY Zenon DEF Attempt
<1>5. pc' = CASE answer[1] = "none" -> "store"
             [] answer[1] = "lost" /\ ~hasRetried -> "connect"
             [] RetryStatement(answer[1]) -> "prepare"
             [] OTHER -> "fail"
  BY DEF Attempt, AfterAttempt, RetryConnection, Goto
<1>6. CASE answer[1] = "none"
  <2>1. pc' = "store" /\ applied' = applied + 1
    BY <1>1, <1>3, <1>5, <1>6 DEF RetryStatement
  <2> QED
    BY <1>2, <1>4, <2>1 DEF Progress, AtMostTwice, Sending
<1>7. CASE answer[1] = "lost"
  <2>1. pc' = IF hasRetried THEN "fail" ELSE "connect"
    BY <1>5, <1>7 DEF RetryStatement
  <2>2. applied' >= 1 => answerLost'
    BY <1>1, <1>2, <1>3, <1>4, <1>7
  <2>3. applied' <= 2 /\ (~hasRetried => applied' <= 1)
    BY <1>1, <1>2, <1>3
  <2> QED
    BY <1>4, <1>7, <2>1, <2>2, <2>3 DEF Progress, AtMostTwice, Sending
<1>8. CASE answer[1] \notin {"none", "lost"}
  <2>1. applied' = applied /\ pc' \in {"prepare", "fail"}
    BY <1>1, <1>2, <1>3, <1>5, <1>8
  <2> QED
    BY <1>2, <1>4, <2>1 DEF Progress, AtMostTwice, Sending
<1> QED
  BY <1>6, <1>7, <1>8

\* Every step keeps the count of what the server carried out.
LEMMA ProgressKept ==
  ASSUME ExecutorAssumption, TypeOK, Places, Progress, Next PROVE Progress'
<1> USE DEF Progress, AtMostTwice, Sending, TypeOK, At, Goto, server, client, locals,
            action, history
<1>1. CASE \E s \in Stmts, code \in Codes : CreateStatement(s, code)
  BY <1>1 DEF CreateStatement, Prepare, Closed, NewStatement, Statement
<1>2. CASE \E k \in Kinds : Start(k)
  BY <1>2 DEF Start
<1>3. CASE \E answer \in Answers : Attempt(answer)
  BY <1>3, ProgressAttempt
<1>4. CASE PrepareAgain
  BY <1>4 DEF PrepareAgain, Reinitialise, Prepare, Closed, NewStatement, Statement
<1>5. CASE ConnectFails
  BY <1>5 DEF ConnectFails
<1>6. CASE CharacterSetFails
  BY <1>6 DEF CharacterSetFails, NewSession
<1>7. CASE Connected
  BY <1>7 DEF Connected, NewSession, FirstStatement
<1>8. CASE Reprepare
  BY <1>8 DEF Reprepare, MoreStatements, RunningOpen, Reinitialise, Prepare, Closed,
         NewStatement, Statement
<1>9. CASE \E code \in Codes : PrepareThrows(code)
  BY <1>9 DEF PrepareThrows, Reinitialise, Prepare, Closed, NewStatement, Statement
<1>10. CASE Fail
  BY <1>10 DEF Fail, FailureText, Text, Result, DeleteBinds
<1>11. CASE Catch
  BY <1>11 DEF Catch, Text, Result
<1>12. CASE \E whole \in BOOLEAN : Store(whole)
  BY <1>12 DEF Store, Text, Result, Lose
<1>13. CASE NoMoreResults("next") \/ NoMoreResults("spin")
  BY <1>13 DEF NoMoreResults, DeleteBinds
<1>14. CASE NextResult \/ KeepsFailing
  BY <1>14 DEF NextResult, KeepsFailing, NextError
<1>18. CASE \E code \in {"server", "lost"} : NextFails(code)
  BY <1>18 DEF NextFails, NextError, Text, Result, Lose
<1>15. CASE Push
  BY <1>15 DEF Push
<1>16. CASE ServerDrops
  BY <1>16 DEF ServerDrops, Lose
<1>17. CASE Poll
  BY <1>17 DEF Poll
<1> QED
  BY <1>1, <1>2, <1>3, <1>4, <1>5, <1>6, <1>7, <1>8, <1>9, <1>10, <1>11, <1>12, <1>13,
     <1>14, <1>15, <1>16, <1>17, <1>18 DEF Next, HandlerStep

\* Every step keeps the error of the last attempt where the result will take
\* it from: a reconnect, even one that fails, does not touch it.
LEMMA ErrorsKept ==
  ASSUME ExecutorAssumption, TypeOK, Places, Errors, Next PROVE Errors'
<1> USE DEF Errors, FailureText, Text, Places, TypeOK, Codes, Stmts, Kinds, Query, At,
            Goto, server, client, locals, action, history
<1>1. CASE \E s \in Stmts, code \in Codes : CreateStatement(s, code)
  BY <1>1 DEF CreateStatement, Prepare, Closed, NewStatement, Statement
<1>2. CASE \E k \in Kinds : Start(k)
  BY <1>2 DEF Start
<1>3. CASE \E answer \in Answers : Attempt(answer)
  BY <1>3 DEF Attempt, AfterAttempt, RetryConnection, RetryStatement, Answers, Known,
         Lose
<1>4. CASE PrepareAgain
  BY <1>4 DEF PrepareAgain, Reinitialise, Prepare, Closed, NewStatement, Statement
<1>5. CASE ConnectFails
  BY <1>5 DEF ConnectFails
<1>6. CASE CharacterSetFails
  BY <1>6 DEF CharacterSetFails, NewSession
<1>7. CASE Connected
  BY <1>7 DEF Connected, NewSession, FirstStatement
<1>8. CASE Reprepare
  BY <1>8 DEF Reprepare, MoreStatements, RunningOpen, Reinitialise, Prepare, Closed,
         NewStatement, Statement
<1>9. CASE \E code \in Codes : PrepareThrows(code)
  BY <1>9 DEF PrepareThrows, Reinitialise, Prepare, Closed, NewStatement, Statement
<1>10. CASE Fail
  BY <1>10 DEF Fail, FailureText, Text, Result, DeleteBinds
<1>11. CASE Catch
  BY <1>11 DEF Catch, Text, Result
<1>12. CASE \E whole \in BOOLEAN : Store(whole)
  BY <1>12 DEF Store, Text, Result, Lose
<1>13. CASE NoMoreResults("next") \/ NoMoreResults("spin")
  BY <1>13 DEF NoMoreResults, DeleteBinds
<1>14. CASE NextResult \/ KeepsFailing
  BY <1>14 DEF NextResult, KeepsFailing, NextError
<1>18. CASE \E code \in {"server", "lost"} : NextFails(code)
  BY <1>18 DEF NextFails, NextError, Text, Result, Lose
<1>15. CASE Push
  BY <1>15 DEF Push
<1>16. CASE ServerDrops
  BY <1>16 DEF ServerDrops, Lose
<1>17. CASE Poll
  BY <1>17 DEF Poll
<1> QED
  BY <1>1, <1>2, <1>3, <1>4, <1>5, <1>6, <1>7, <1>8, <1>9, <1>10, <1>11, <1>12, <1>13,
     <1>14, <1>15, <1>16, <1>17, <1>18 DEF Next, HandlerStep

\* Every step keeps the parameters, or deletes them at the end.
LEMMA ParametersKept ==
  ASSUME ExecutorAssumption, TypeOK, Places, Parameters, Next PROVE Parameters'
<1> USE DEF Parameters, Places, Without, Sending, With, TypeOK, Codes, Stmts, Kinds,
            Query, At, Goto, server, client, locals, action, history
<1>1. CASE \E s \in Stmts, code \in Codes : CreateStatement(s, code)
  BY <1>1 DEF CreateStatement, Prepare, Closed, NewStatement, Statement
<1>2. CASE \E k \in Kinds : Start(k)
  BY <1>2 DEF Start
<1>3. CASE \E answer \in Answers : Attempt(answer)
  BY <1>3 DEF Attempt, AfterAttempt, RetryConnection, RetryStatement, Answers, Known,
         Lose
<1>4. CASE PrepareAgain
  BY <1>4 DEF PrepareAgain, Reinitialise, Prepare, Closed, NewStatement, Statement
<1>5. CASE ConnectFails
  BY <1>5 DEF ConnectFails
<1>6. CASE CharacterSetFails
  BY <1>6 DEF CharacterSetFails, NewSession
<1>7. CASE Connected
  BY <1>7 DEF Connected, NewSession, FirstStatement
<1>8. CASE Reprepare
  BY <1>8 DEF Reprepare, MoreStatements, RunningOpen, Reinitialise, Prepare, Closed,
         NewStatement, Statement
<1>9. CASE \E code \in Codes : PrepareThrows(code)
  BY <1>9 DEF PrepareThrows, Reinitialise, Prepare, Closed, NewStatement, Statement
<1>10. CASE Fail
  BY <1>10 DEF Fail, FailureText, Text, Result, DeleteBinds
<1>11. CASE Catch
  BY <1>11 DEF Catch, Text, Result
<1>12. CASE \E whole \in BOOLEAN : Store(whole)
  BY <1>12 DEF Store, Text, Result, Lose
<1>13. CASE NoMoreResults("next") \/ NoMoreResults("spin")
  BY <1>13 DEF NoMoreResults, DeleteBinds
<1>14. CASE NextResult \/ KeepsFailing
  BY <1>14 DEF NextResult, KeepsFailing, NextError
<1>18. CASE \E code \in {"server", "lost"} : NextFails(code)
  BY <1>18 DEF NextFails, NextError, Text, Result, Lose
<1>15. CASE Push
  BY <1>15 DEF Push
<1>16. CASE ServerDrops
  BY <1>16 DEF ServerDrops, Lose
<1>17. CASE Poll
  BY <1>17 DEF Poll
<1> QED
  BY <1>1, <1>2, <1>3, <1>4, <1>5, <1>6, <1>7, <1>8, <1>9, <1>10, <1>11, <1>12, <1>13,
     <1>14, <1>15, <1>16, <1>17, <1>18 DEF Next, HandlerStep

-----------------------------------------------------------------------------
(* The session and the cache.                                              *)

\* A number that Prepare gives is new in the session, and closing adds none.
LEMMA PrepareNumbers ==
  ASSUME TypeOK, NEW s \in Stmts, NEW code, Prepare(s, code),
         \A n \in Nat, t \in Stmts : <<n, t>> \in open => n < nextId
  PROVE  /\ nextId' >= nextId
         /\ \A n \in Nat, t \in Stmts : <<n, t>> \in open' => n < nextId'
         /\ \A n \in Nat, t \in Stmts :
              <<n, t>> \in open' => <<n, t>> \in open \/ (n = nextId /\ t = s)
         /\ code = "none" => <<nextId, s>> \in open' /\ nextId' = nextId + 1
<1>1. nextId \in Nat
  BY DEF TypeOK
<1>2. Closed(s) \subseteq open
  BY DEF Closed
<1>3. CASE code = "none"
  <2>1. open' = Closed(s) \cup {<<nextId, s>>} /\ nextId' = nextId + 1
    BY <1>3 DEF Prepare
  <2> QED
    BY <1>1, <1>2, <2>1
<1>4. CASE code # "none"
  <2>1. open' = Closed(s) /\ nextId' = nextId
    BY <1>4 DEF Prepare
  <2> QED
    BY <1>1, <1>2, <1>4, <2>1
<1> QED
  BY <1>3, <1>4

\* Preparing s leaves the number of another statement its own: it may be
\* closed, but stands for no other text.
LEMMA OtherNumbered ==
  ASSUME TypeOK, NEW s \in Stmts, NEW code, Prepare(s, code),
         \A n \in Nat, t \in Stmts : <<n, t>> \in open => n < nextId,
         NEW u \in Stmts, u # s, stmt'[u] = stmt[u], Numbered(u)
  PROVE  Numbered(u)'
<1>1. stmt[u].id \in Nat /\ nextId \in Nat /\ nextId' \in Nat
  BY DEF TypeOK, Prepare
<1>2. /\ nextId' >= nextId
      /\ \A n \in Nat, t \in Stmts :
           <<n, t>> \in open' => <<n, t>> \in open \/ (n = nextId /\ t = s)
  BY PrepareNumbers
<1>3. SUFFICES ASSUME stmt[u].ok
               PROVE  /\ stmt[u].id < nextId'
                      /\ \A t \in Stmts : <<stmt[u].id, t>> \in open' => t = u
  BY DEF Numbered
<1>4. stmt[u].id < nextId /\ \A t \in Stmts : <<stmt[u].id, t>> \in open => t = u
  BY <1>3 DEF Numbered
<1> QED
  BY <1>1, <1>2, <1>4

\* ... and s has a number of its own, or none.
LEMMA NewNumbered ==
  ASSUME TypeOK, NEW s \in Stmts, NEW code, Prepare(s, code), NewStatement(s, code),
         \A n \in Nat, t \in Stmts : <<n, t>> \in open => n < nextId
  PROVE  Numbered(s)'
<1>1. nextId \in Nat
  BY DEF TypeOK
<1>2. stmt'[s].ok = (code = "none") /\ (code = "none" => stmt'[s].id = nextId)
  BY DEF NewStatement, Statement, TypeOK
<1>3. CASE code = "none"
  <2>1. /\ \A n \in Nat, t \in Stmts :
              <<n, t>> \in open' => <<n, t>> \in open \/ (n = nextId /\ t = s)
        /\ nextId' = nextId + 1
    BY <1>3, PrepareNumbers
  <2> QED
    BY <1>1, <1>2, <1>3, <2>1 DEF Numbered
<1>4. CASE code # "none"
  BY <1>2, <1>4 DEF Numbered
<1> QED
  BY <1>3, <1>4

\* CreateStatement: a new statement does not disturb those of the session.
LEMMA SessionCreate ==
  ASSUME ExecutorAssumption, TypeOK, Places, Session,
         NEW s \in Stmts, NEW code \in Codes, CreateStatement(s, code)
  PROVE  Session'
<1>1. Prepare(s, code) /\ pc = "idle" /\ pc' = "idle" /\ s \notin cached
  BY DEF CreateStatement, At
<1>2. \A n \in Nat, t \in Stmts : <<n, t>> \in open => n < nextId
  BY DEF Session
<1>3. \A n \in Nat, t \in Stmts : <<n, t>> \in open' => n < nextId'
  BY <1>1, <1>2, PrepareNumbers
<1>4. cutShort' = cutShort /\ wrong' = wrong
  BY DEF CreateStatement, history
<1>5. ASSUME ~cutShort, NEW u \in cached' PROVE Numbered(u)'
  <2>1. CASE u \in cached
    <3>1. Numbered(u) /\ u \in Stmts /\ u # s
      BY <1>1, <1>5, <2>1 DEF Session, Restored, TypeOK
    <3>2. stmt'[u] = stmt[u]
      BY <3>1 DEF CreateStatement, NewStatement, client, TypeOK
    <3> QED
      BY <1>1, <1>2, <3>1, <3>2, OtherNumbered
  <2>2. CASE u \notin cached
    <3>1. u = s /\ NewStatement(s, code)
      BY <1>5, <2>2 DEF CreateStatement, client
    <3> QED
      BY <1>1, <1>2, <3>1, NewNumbered
  <2> QED
    BY <2>1, <2>2
<1>6. Recovered'
  BY <1>1 DEF Recovered
<1> QED
  BY <1>3, <1>4, <1>5, <1>6 DEF Session

\* An attempt runs the text that was asked for, unless a reconnect was cut
\* short: the number it sends stands for no other one.
LEMMA SessionAttempt ==
  ASSUME ExecutorAssumption, TypeOK, Places, Session, NEW answer \in Answers,
         Attempt(answer)
  PROVE  Session'
<1>1. /\ pc = "send" /\ pc' \notin {"send", "reprepare"}
      /\ open' = open /\ nextId' = nextId /\ cached' = cached /\ cutShort' = cutShort
  BY DEF Attempt, At, AfterAttempt, Goto, Lose, server
<1>2. \A u \in Stmts : stmt'[u].ok = stmt[u].ok /\ stmt'[u].id = stmt[u].id
  BY DEF Attempt, TypeOK
<1>3. ~cutShort => \A u \in cached : Numbered(u)
  BY <1>1 DEF Session, Restored
<1>4. ~cutShort' => \A u \in cached' : Numbered(u)'
  BY <1>1, <1>2, <1>3 DEF Numbered, TypeOK
<1>5. wrong' => cutShort
  <2> SUFFICES ASSUME wrong', ~wrong, ~cutShort PROVE FALSE
    BY DEF Session
  <2>1. kind # Query /\ answer[2] = 1 /\ <<stmt[kind].id, kind>> \notin open
    BY DEF Attempt
  <2>2. stmt[kind].ok /\ Known(kind)
    BY <2>1, AnswerCases
  <2>3. kind \in cached /\ Numbered(kind)
    BY <1>3, <2>1 DEF Places
  <2> QED
    BY <2>1, <2>2, <2>3 DEF Known, Numbered
<1>6. Recovered'
  BY <1>1 DEF Recovered
<1> QED
  BY <1>1, <1>4, <1>5, <1>6 DEF Session

\* The preparing for error 1243: the server then knows the statement.
LEMMA SessionAgain ==
  ASSUME ExecutorAssumption, TypeOK, Places, Session, PrepareAgain
  PROVE  Session'
<1>1. /\ Prepare(kind, "none") /\ NewStatement(kind, "none")
      /\ pc = "prepare" /\ pc' = "send" /\ kind' = kind /\ kind \in Stmts
      /\ cached' = cached /\ cutShort' = cutShort /\ wrong' = wrong
  BY DEF PrepareAgain, Reinitialise, At, Goto, Places, TypeOK, Kinds, history
<1>2. \A n \in Nat, t \in Stmts : <<n, t>> \in open => n < nextId
  BY DEF Session
<1>3. \A n \in Nat, t \in Stmts : <<n, t>> \in open' => n < nextId'
  BY <1>1, <1>2, PrepareNumbers
<1>4. ASSUME ~cutShort, NEW u \in cached PROVE Numbered(u)'
  <2>1. Numbered(u) /\ u \in Stmts
    BY <1>1, <1>4 DEF Session, Restored, TypeOK
  <2>2. CASE u # kind
    <3>1. stmt'[u] = stmt[u]
      BY <1>1, <2>1, <2>2 DEF NewStatement, TypeOK
    <3> QED
      BY <1>1, <1>2, <2>1, <2>2, <3>1, OtherNumbered
  <2>3. CASE u = kind
    BY <1>1, <1>2, <2>3, NewNumbered
  <2> QED
    BY <2>2, <2>3
<1>5. stmt'[kind].ok /\ stmt'[kind].id = nextId
  BY <1>1 DEF NewStatement, Statement, TypeOK
<1>6. <<nextId, kind>> \in open'
  BY <1>1, <1>2, PrepareNumbers
<1>7. Recovered'
  BY <1>1, <1>5, <1>6 DEF Recovered
<1> QED
  BY <1>1, <1>3, <1>4, <1>7 DEF Session

\* An exception of Prepare cuts the loop short, or leaves the statement
\* unprepared and the others as they were.
LEMMA SessionThrows ==
  ASSUME ExecutorAssumption, TypeOK, Places, Session,
         NEW code \in Codes, PrepareThrows(code)
  PROVE  Session'
<1>1. PICK s \in Stmts : Prepare(s, code) /\ NewStatement(s, code)
  BY DEF PrepareThrows, Reinitialise, At, Places, TypeOK, Kinds
<1>2. \A n \in Nat, t \in Stmts : <<n, t>> \in open => n < nextId
  BY DEF Session
<1>3. \A n \in Nat, t \in Stmts : <<n, t>> \in open' => n < nextId'
  BY <1>1, <1>2, PrepareNumbers
<1>4. cached' = cached /\ wrong' = wrong
  BY DEF PrepareThrows
<1>5. CASE pc = "reprepare"
  <2>1. cutShort'
    BY <1>5 DEF PrepareThrows
  <2> QED
    BY <1>3, <2>1 DEF Session
<1>6. CASE pc # "reprepare"
  <2>1. pc' = "catch" /\ (cutShort => cutShort') /\ (cutShort' => cutShort)
    BY <1>6 DEF PrepareThrows, At, Goto, Places
  <2>2. ASSUME ~cutShort', NEW u \in cached PROVE Numbered(u)'
    <3>1. Numbered(u) /\ u \in Stmts
      BY <1>6, <2>1, <2>2 DEF Session, Restored, TypeOK
    <3>2. CASE u # s
      <4>1. stmt'[u] = stmt[u]
        BY <1>1, <3>1, <3>2 DEF NewStatement, TypeOK
      <4> QED
        BY <1>1, <1>2, <3>1, <3>2, <4>1, OtherNumbered
    <3>3. CASE u = s
      BY <1>1, <1>2, <3>3, NewNumbered
    <3> QED
      BY <3>2, <3>3
  <2>3. Recovered'
    BY <2>1 DEF Recovered
  <2>4. wrong' => cutShort'
    BY <1>4, <2>1 DEF Session
  <2> QED
    BY <1>3, <1>4, <2>2, <2>3, <2>4 DEF Session
<1> QED
  BY <1>5, <1>6

\* A turn of the loop: one statement more agrees with the new session, and
\* the running one stays open, or was closed by the old number of another.
LEMMA SessionReprepare ==
  ASSUME ExecutorAssumption, TypeOK, Places, Session, Reprepare
  PROVE  Session'
<1>1. /\ pc = "reprepare" /\ walk \in Stmts /\ walk' = walk + 1
      /\ pc' = IF walk < NumStmts THEN "reprepare" ELSE "send"
      /\ kind' = kind /\ cached' = cached /\ cutShort' = cutShort /\ wrong' = wrong
      /\ hasRetriedStatement' = hasRetriedStatement
  BY DEF Reprepare, MoreStatements, At, Goto, Places, TypeOK, Stmts,
         ExecutorAssumption, locals
<1>2. \A n \in Nat, t \in Stmts : <<n, t>> \in open => n < nextId
  BY DEF Session
<1>3. CASE walk \notin cached
  <2>1. open' = open /\ nextId' = nextId /\ stmt' = stmt
    BY <1>3 DEF Reprepare, server
  <2>2. ASSUME ~cutShort, NEW u \in cached, Restored(u)' PROVE Numbered(u)'
    <3>1. u \in Stmts /\ u # walk /\ Restored(u)
      BY <1>1, <1>3, <2>2 DEF Restored, TypeOK, Stmts, ExecutorAssumption
    <3> QED
      BY <2>1, <2>2, <3>1 DEF Session, Numbered
  <2>3. ASSUME ~cutShort, ~crossed' PROVE Recovered'
    <3>1. ~crossed
      BY <2>3 DEF Reprepare
    <3>2. kind # Query => kind \in Stmts /\ kind # walk
      BY <1>3 DEF Places, TypeOK
    <3>3. Recovered
      BY <2>3, <3>1 DEF Session
    <3> QED
      BY <1>1, <2>1, <3>2, <3>3 DEF Recovered, Stmts, ExecutorAssumption
  <2> QED
    BY <1>1, <1>2, <2>1, <2>2, <2>3 DEF Session
<1>4. CASE walk \in cached
  <2>1. Prepare(walk, "none") /\ NewStatement(walk, "none")
    BY <1>4 DEF Reprepare, Reinitialise
  <2>2. \A n \in Nat, t \in Stmts : <<n, t>> \in open' => n < nextId'
    BY <1>1, <1>2, <2>1, PrepareNumbers
  <2>3. ASSUME ~cutShort, NEW u \in cached, Restored(u)' PROVE Numbered(u)'
    <3>1. CASE u = walk
      BY <1>1, <1>2, <2>1, <3>1, NewNumbered
    <3>2. CASE u # walk
      <4>1. u \in Stmts /\ Restored(u)
        BY <1>1, <2>3, <3>2 DEF Restored, TypeOK, Stmts, ExecutorAssumption
      <4>2. Numbered(u)
        BY <2>3, <4>1 DEF Session
      <4>3. stmt'[u] = stmt[u]
        BY <2>1, <3>2, <4>1 DEF NewStatement, TypeOK
      <4> QED
        BY <1>1, <1>2, <2>1, <3>2, <4>1, <4>2, <4>3, OtherNumbered
    <3> QED
      BY <3>1, <3>2
  <2>4. ASSUME ~cutShort, ~crossed' PROVE Recovered'
    <3>1. ~crossed
      BY <2>4 DEF Reprepare
    <3>2. ~(RunningOpen /\ ~RunningOpen')
      BY <2>4 DEF Reprepare
    <3>3. SUFFICES ASSUME hasRetriedStatement, kind # Query,
                          pc' = "send" \/ (pc' = "reprepare" /\ kind < walk + 1)
                   PROVE  stmt'[kind].ok /\ <<stmt'[kind].id, kind>> \in open'
      BY <1>1 DEF Recovered
    <3>4. kind \in Stmts
      BY <3>3 DEF Places, TypeOK
    <3>5. CASE kind = walk
      <4>1. stmt'[walk].ok /\ stmt'[walk].id = nextId
        BY <1>1, <2>1 DEF NewStatement, Statement, TypeOK
      <4>2. <<nextId, walk>> \in open'
        BY <1>1, <1>2, <2>1, PrepareNumbers
      <4> QED
        BY <3>5, <4>1, <4>2
    <3>6. CASE kind # walk
      <4>1. kind < walk
        BY <1>1, <3>3, <3>4, <3>6 DEF Stmts, ExecutorAssumption
      <4>2. stmt[kind].ok /\ <<stmt[kind].id, kind>> \in open
        BY <1>1, <2>4, <3>1, <3>3, <4>1 DEF Session, Recovered
      <4>3. stmt'[kind] = stmt[kind]
        BY <2>1, <3>4, <3>6 DEF NewStatement, TypeOK
      <4>4. RunningOpen'
        BY <3>2, <3>3, <4>2 DEF RunningOpen
      <4> QED
        BY <1>1, <4>2, <4>3, <4>4 DEF RunningOpen
    <3> QED
      BY <3>5, <3>6
  <2> QED
    BY <1>1, <2>2, <2>3, <2>4 DEF Session
<1> QED
  BY <1>3, <1>4

\* What sends and prepares nothing leaves the session and the cache agreed.
LEMMA SessionFrame ==
  ASSUME TypeOK, Session, pc # "reprepare", pc' \notin {"send", "reprepare"},
         open' = open, nextId' = nextId, cached' = cached,
         cutShort' = cutShort, wrong' = wrong,
         \A u \in Stmts : stmt'[u].ok = stmt[u].ok /\ stmt'[u].id = stmt[u].id
  PROVE  Session'
<1>1. ~cutShort => \A u \in cached : Numbered(u)
  BY DEF Session, Restored
<1>2. ~cutShort' => \A u \in cached' : Numbered(u)'
  BY <1>1 DEF Numbered, TypeOK
<1>3. Recovered'
  BY DEF Recovered
<1> QED
  BY <1>2, <1>3 DEF Session

\* Every step keeps the agreement of the cache and the session.
LEMMA SessionKept ==
  ASSUME ExecutorAssumption, TypeOK, Places, Session, Next PROVE Session'
<1> USE DEF Session, Restored, Numbered, Recovered, Places, TypeOK, Stmts, Kinds, Query,
            At, Goto, server, client, locals, action, history
<1>1. CASE \E s \in Stmts, code \in Codes : CreateStatement(s, code)
  BY <1>1, SessionCreate
<1>2. CASE \E k \in Kinds : Start(k)
  BY <1>2 DEF Start
<1>3. CASE \E answer \in Answers : Attempt(answer)
  BY <1>3, SessionAttempt
<1>4. CASE PrepareAgain
  BY <1>4, SessionAgain
<1>5. CASE ConnectFails
  BY <1>5 DEF ConnectFails
<1>6. CASE CharacterSetFails
  BY <1>6 DEF CharacterSetFails, NewSession
<1>7. CASE Connected
  BY <1>7 DEF Connected, NewSession, FirstStatement
<1>8. CASE Reprepare
  BY <1>8, SessionReprepare
<1>9. CASE \E code \in Codes : PrepareThrows(code)
  BY <1>9, SessionThrows
<1>10. CASE Fail
  BY <1>10, SessionFrame DEF Fail
<1>11. CASE Catch
  BY <1>11, SessionFrame DEF Catch
<1>12. CASE \E whole \in BOOLEAN : Store(whole)
  <2>1. \A u \in Stmts : stmt'[u].ok = stmt[u].ok /\ stmt'[u].id = stmt[u].id
    BY <1>12 DEF Store
  <2> QED
    BY <1>12, <2>1, SessionFrame DEF Store, Lose
<1>13. CASE NoMoreResults("next") \/ NoMoreResults("spin")
  BY <1>13, SessionFrame DEF NoMoreResults
<1>14. CASE NextResult \/ KeepsFailing
  <2>1. \A u \in Stmts : stmt'[u].ok = stmt[u].ok /\ stmt'[u].id = stmt[u].id
    <3>1. PICK code : NextError(code)
      BY <1>14 DEF NextResult, KeepsFailing
    <3> QED
      BY <3>1 DEF NextError
  <2> QED
    BY <1>14, <2>1, SessionFrame DEF NextResult, KeepsFailing
<1>18. CASE \E code \in {"server", "lost"} : NextFails(code)
  <2>1. \A u \in Stmts : stmt'[u].ok = stmt[u].ok /\ stmt'[u].id = stmt[u].id
    <3>1. PICK code : NextError(code)
      BY <1>18 DEF NextFails
    <3> QED
      BY <3>1 DEF NextError
  <2> QED
    BY <1>18, <2>1, SessionFrame DEF NextFails, Lose
<1>15. CASE Push
  BY <1>15 DEF Push
<1>16. CASE ServerDrops
  BY <1>16 DEF ServerDrops, Lose
<1>17. CASE Poll
  BY <1>17 DEF Poll
<1> QED
  BY <1>1, <1>2, <1>3, <1>4, <1>5, <1>6, <1>7, <1>8, <1>9, <1>10, <1>11, <1>12, <1>13,
     <1>14, <1>15, <1>16, <1>17, <1>18 DEF Next, HandlerStep

\* Error 1243 is final only when the statement was prepared for it before:
\* the server would know it, had nothing closed it.
LEMMA ToldAttempt ==
  ASSUME ExecutorAssumption, TypeOK, Places, Session, Told, NEW answer \in Answers,
         Attempt(answer)
  PROVE  Told'
<1>1. /\ pc = "send" /\ results = << >> /\ results' = << >>
      /\ cutShort' = cutShort /\ crossed' = crossed /\ errorno' = answer[1]
  BY DEF Attempt, At, Places, Without, Sending, action
<1>2. ASSUME pc' = "fail", answer[1] = "unknown", ~cutShort, ~crossed PROVE FALSE
  <2>1. kind # Query /\ stmt[kind].ok /\ ~Known(kind)
    BY <1>2, AnswerCases
  <2>2. hasRetriedStatement
    BY <1>2, <2>1 DEF Attempt, AfterAttempt, RetryConnection, RetryStatement, Goto
  <2>3. <<stmt[kind].id, kind>> \in open
    BY <1>1, <1>2, <2>1, <2>2 DEF Session, Recovered
  <2> QED
    BY <2>1, <2>3 DEF Known, TypeOK, Kinds
<1>3. ErrorIsOwn' /\ UnknownOnlyIfClosed'
  BY <1>1 DEF ErrorIsOwn, UnknownOnlyIfClosed
<1>4. pc' = "fail" /\ errorno' = "unknown" => cutShort' \/ crossed'
  BY <1>1, <1>2
<1> QED
  BY <1>1, <1>3, <1>4 DEF Told

\* A further result keeps what the first one tells.
LEMMA AppendTold ==
  ASSUME TypeOK, Told, NEW r, results' = Append(results, r), pc' # "fail",
         r.text.code = r.err, r.err # "unknown",
         r.err = "none" => applied >= 1,
         r.err # "none" /\ applied >= 1 /\ results = << >> => answerLost',
         answerLost => answerLost', cutShort => cutShort', crossed => crossed',
         applied' = applied
  PROVE  Told'
<1>1. /\ Len(results) \in Nat /\ Len(results') = Len(results) + 1
      /\ \A i \in 1 .. Len(results) : results'[i] = results[i]
      /\ results'[Len(results) + 1] = r
  BY DEF TypeOK
<1>2. results' # << >>
  BY <1>1
<1>3. ErrorIsOwn'
  BY <1>1 DEF ErrorIsOwn, Told
<1>4. UnknownOnlyIfClosed'
  BY <1>1 DEF UnknownOnlyIfClosed, Told
<1>5. CASE results = << >>
  <2>1. results'[1] = r
    BY <1>1, <1>5
  <2> QED
    BY <1>2, <1>3, <1>4, <1>5, <2>1 DEF Told
<1>6. CASE results # << >>
  <2>1. results'[1] = results[1]
    BY <1>1, <1>6 DEF TypeOK
  <2> QED
    BY <1>2, <1>3, <1>4, <1>6, <2>1 DEF Told
<1> QED
  BY <1>5, <1>6

\* The result of what is on the connection tells what was done.
LEMMA ToldStore ==
  ASSUME ExecutorAssumption, TypeOK, Places, Progress, Errors, Told,
         NEW whole \in BOOLEAN, Store(whole)
  PROVE  Told'
<1> DEFINE err == IF whole THEN "none" ELSE "lost"
           r == IF kind = Query
                  THEN Result(connErr, Text("conn", 0, connErr), whole)
                  ELSE Result(err, Text("stmt", stmt[kind].gen, err), whole)
<1>1. results' = Append(results, r) /\ pc' = "next" /\ applied' = applied
  BY DEF Store, Goto
<1>2. connErr = "none" /\ applied >= 1
  BY DEF Store, At, Errors, Progress
<1>3. r.text.code = r.err /\ r.err # "unknown" /\ (r.err # "none" => ~whole)
  BY <1>2 DEF Result, Text
<1>4. /\ answerLost => answerLost'
      /\ ~whole => answerLost'
      /\ cutShort' = cutShort /\ crossed' = crossed
  BY DEF Store
<1> QED
  BY <1>1, <1>2, <1>3, <1>4, AppendTold

\* A failure after the first result changes nothing of what that tells.
LEMMA ToldFails ==
  ASSUME ExecutorAssumption, TypeOK, Places, Told,
         NEW code \in {"server", "lost"}, NextFails(code)
  PROVE  Told'
<1> DEFINE r == Result(code, IF kind = Query THEN Text("conn", 0, code)
                              ELSE Text("stmt", stmt[kind].gen, code), TRUE)
<1>1. /\ pc = "next" /\ results # << >> /\ pc' = "next"
      /\ applied' = applied /\ answerLost' = answerLost
      /\ cutShort' = cutShort /\ crossed' = crossed
  BY DEF NextFails, At, Places, With, history
<1>2. results' = Append(results, r)
  BY DEF NextFails
<1>3. r.text.code = r.err /\ r.err \in {"server", "lost"}
  BY DEF Result, Text
<1> QED
  BY <1>1, <1>2, <1>3, AppendTold

\* Every step keeps what the results tell.
LEMMA ToldKept ==
  ASSUME ExecutorAssumption, TypeOK, Places, Progress, Errors, Session, Told, Next
  PROVE  Told'
<1> USE DEF Told, ErrorIsOwn, UnknownOnlyIfClosed, Places, Without, Sending, With,
            Progress, Errors, TypeOK, Codes, Kinds, Query, FailureText, At, Goto,
            server, client, locals, action, history
<1>1. CASE \E s \in Stmts, code \in Codes : CreateStatement(s, code)
  BY <1>1 DEF CreateStatement, Prepare, Closed, NewStatement, Statement
<1>2. CASE \E k \in Kinds : Start(k)
  BY <1>2 DEF Start
<1>3. CASE \E answer \in Answers : Attempt(answer)
  BY <1>3, ToldAttempt
<1>4. CASE PrepareAgain
  BY <1>4 DEF PrepareAgain, Reinitialise, Prepare, Closed, NewStatement, Statement
<1>5. CASE ConnectFails
  BY <1>5 DEF ConnectFails
<1>6. CASE CharacterSetFails
  BY <1>6 DEF CharacterSetFails, NewSession
<1>7. CASE Connected
  BY <1>7 DEF Connected, NewSession, FirstStatement
<1>8. CASE Reprepare
  BY <1>8 DEF Reprepare, MoreStatements, RunningOpen, Reinitialise, Prepare, Closed,
         NewStatement, Statement
<1>9. CASE \E code \in Codes : PrepareThrows(code)
  BY <1>9 DEF PrepareThrows, Reinitialise, Prepare, Closed, NewStatement, Statement
<1>10. CASE Fail
  BY <1>10 DEF Fail, FailureText, Text, Result, DeleteBinds
<1>11. CASE Catch
  BY <1>11 DEF Catch, Text, Result
<1>12. CASE \E whole \in BOOLEAN : Store(whole)
  BY <1>12, ToldStore
<1>13. CASE NoMoreResults("next") \/ NoMoreResults("spin")
  BY <1>13 DEF NoMoreResults, DeleteBinds
<1>14. CASE NextResult \/ KeepsFailing
  BY <1>14 DEF NextResult, KeepsFailing, NextError
<1>18. CASE \E code \in {"server", "lost"} : NextFails(code)
  BY <1>18, ToldFails
<1>15. CASE Push
  BY <1>15 DEF Push
<1>16. CASE ServerDrops
  BY <1>16 DEF ServerDrops, Lose
<1>17. CASE Poll
  BY <1>17 DEF Poll
<1> QED
  BY <1>1, <1>2, <1>3, <1>4, <1>5, <1>6, <1>7, <1>8, <1>9, <1>10, <1>11, <1>12, <1>13,
     <1>14, <1>15, <1>16, <1>17, <1>18 DEF Next, HandlerStep

-----------------------------------------------------------------------------
(* The theorems.                                                           *)

\* A database that has just connected: nothing is prepared or run.
LEMMA InitKeeps == ASSUME ExecutorAssumption, Init PROVE IInv
<1>1. TypeOK
  <2>1. stmt \in [Stmts -> [ok : BOOLEAN, id : Nat, gen : Nat, err : Codes]]
    BY DEF Init, Statement, Codes
  <2>2. walk \in 1 .. NumStmts + 1 /\ kind \in Kinds
    BY DEF Init, ExecutorAssumption, Kinds
  <2>3. {answerLost, cutShort, crossed, wrong, dead} \subseteq BOOLEAN
    BY DEF Init
  <2>4. results \in Seq([err : Codes, text : [buf : {"local", "conn", "stmt", "what"},
                                      gen : Nat, code : Codes], whole : BOOLEAN])
    BY DEF Init
  <2>5. open \subseteq Nat \X Stmts /\ cached \subseteq Stmts
    BY DEF Init
  <2> QED
    BY <2>1, <2>2, <2>3, <2>4, <2>5 DEF Init, TypeOK, Codes
<1>2. Places /\ Progress /\ Errors
  BY DEF Init, Places, Without, With, Sending, Progress, AtMostTwice, Errors
<1>3. Told /\ Parameters
  BY DEF Init, Told, ErrorIsOwn, UnknownOnlyIfClosed, Parameters, Without, Sending
<1>4. Session
  BY DEF Init, Session, Recovered
<1> QED
  BY <1>1, <1>2, <1>3, <1>4 DEF IInv

\* Every step keeps the invariant.
LEMMA StepKeeps == ASSUME ExecutorAssumption, IInv, [Next]_vars PROVE IInv'
<1>1. CASE Next
  BY <1>1, TypesKept, PlacesKept, ProgressKept, ErrorsKept, ToldKept, ParametersKept,
     SessionKept DEF IInv
<1>2. CASE UNCHANGED vars
  <2> USE <1>2 DEF vars, server, client, locals, action, history
  <2>1. TypeOK' /\ Places' /\ Progress'
    BY DEF IInv, TypeOK, Places, Progress, AtMostTwice
  <2>2. Errors' /\ Told' /\ Parameters'
    BY DEF IInv, Errors, FailureText, Told, ErrorIsOwn, UnknownOnlyIfClosed, Parameters
  <2>3. Session'
    BY DEF IInv, Session, Restored, Numbered, Recovered
  <2> QED
    BY <2>1, <2>2, <2>3 DEF IInv
<1> QED
  BY <1>1, <1>2

\* The invariant is at least as strong as the properties.
LEMMA InvariantSuffices ==
  ASSUME IInv PROVE ReportedAsDone /\ StatementsRestored /\ BindsDeleted
<1>1. ReportedAsDone
  BY DEF IInv, Places, With, Progress, Told, ReportedAsDone, StatusAsDone
<1>2. StatementsRestored
  BY DEF IInv, Session, Told, StatementsRestored, WrongOnlyIfCutShort
<1>3. BindsDeleted
  BY DEF IInv, Parameters, Without, Sending, BindsDeleted, At
<1> QED
  BY <1>1, <1>2, <1>3

\* The invariant of the handler, for any number of statements and losses.
THEOREM ExecutorInvariance == ASSUME ExecutorAssumption PROVE Spec => []IInv
<1>1. Init => IInv
  BY InitKeeps
<1>2. IInv /\ [Next]_vars => IInv'
  BY StepKeeps
<1> QED
  BY <1>1, <1>2, PTL DEF Spec

\* RunQuery, RunStatement and Execute: the callback is told success only of
\* what the server has carried out, and a failure of what was carried out
\* only if an answer was lost; nothing is carried out more than twice, nor
\* twice unless the first answer was lost and the connection restored; and an
\* error has its own text, whatever the reconnect said in between.
THEOREM CallbacksToldWhatWasDone ==
  ASSUME ExecutorAssumption PROVE Spec => []ReportedAsDone
<1>1. IInv => ReportedAsDone
  BY InvariantSuffices
<1> QED
  BY <1>1, ExecutorInvariance, PTL

\* Connect(err, true): after a reconnect that finished its loop no statement
\* runs another's text, and error 1243 reaches a callback only if the loop
\* was cut short or closed the running statement by another's old number.
THEOREM ReconnectRestores ==
  ASSUME ExecutorAssumption PROVE Spec => []StatementsRestored
<1>1. IInv => StatementsRestored
  BY InvariantSuffices
<1> QED
  BY <1>1, ExecutorInvariance, PTL

\* Execute: every attempt has the parameters, and at the end they are deleted
\* unless Prepare threw past deleteBinds.
THEOREM ParametersDeleted == ASSUME ExecutorAssumption PROVE Spec => []BindsDeleted
<1>1. IInv => BindsDeleted
  BY InvariantSuffices
<1> QED
  BY <1>1, ExecutorInvariance, PTL
=============================================================================

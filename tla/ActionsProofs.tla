---------------------------- MODULE ActionsProofs ----------------------------
(***************************************************************************)
(* The properties of MCActions for every value of its constants.  What a   *)
(* component keeps was proved of the component; here a behaviour belongs   *)
(* to one of several, and the invariant says of each component that its    *)
(* own one holds where the behaviour is its own.  The proofs about the     *)
(* connection and the parameters are short, and here.                      *)
(***************************************************************************)
EXTENDS MCActions, TLAPS

-----------------------------------------------------------------------------
(* The character set of a connection over losses, reconnects and calls of  *)
(* both threads, for any options, character sets and number of losses.     *)
(*                                                                         *)
(* That a command is sent in the right character set is not inductive:     *)
(* what holds between commands is the invariant Kept, of which the order   *)
(* of Connect (connect, then set the saved character set, then send again) *)
(* leaves one gap, between the connect and the setting, that only a thread *)
(* that intrudes can see.                                                  *)

\* The character set a new session must be brought to.
Expected == IF saved = Unset THEN Default ELSE saved

\* Before Connect there is no session to set a character set in.
NothingBefore ==
  phase = "created" => io = "idle" /\ lua = Unset /\ saved = Unset /\ escaped = Unset

\* Connect sets a character set in the new session only if one was saved.
SavedIsSet == io = "charset" => saved # Unset

\* The session has the saved character set, except between the connect and
\* the setting; Escape has gone by it; and the Lua thread is in no call while
\* the io thread is.
Kept ==
  /\ io # "charset" => charset = Expected
  /\ escaped \in {Unset, Expected}
  /\ io # "idle" => lua = Unset

ConnInv == Conn!TypeOK /\ NothingBefore /\ SavedIsSet /\ (intruded \/ refused \/ Kept)

\* The constructor leaves a database without a session: the invariant holds
\* of it.
LEMMA ConnInit == ASSUME Conn!ConnectionAssumption, Conn!Init PROVE ConnInv
<1>1. /\ phase = "created" /\ inited = FALSE /\ io = "idle" /\ link = "up"
      /\ options = {} /\ asked = {} /\ intruded = FALSE /\ refused = FALSE
      /\ charset = Default /\ saved = Unset /\ lua = Unset /\ escaped = Unset
      /\ losses = 0
  BY DEF Conn!Init
<1>2. losses \in 0 .. MaxLosses
  BY <1>1 DEF Conn!ConnectionAssumption
<1>3. inited = (phase # "created")
  BY <1>1
<1>4. Conn!TypeOK
  BY <1>1, <1>2, <1>3, Zenon DEF Conn!TypeOK
<1>5. NothingBefore /\ SavedIsSet /\ Kept
  BY <1>1 DEF NothingBefore, SavedIsSet, Kept, Expected
<1> QED
  BY <1>4, <1>5 DEF ConnInv

\* A step of the Lua thread keeps the types: SetOption, Initialize,
\* SetCharacterSet, Escape, the getters and Disconnect.
LEMMA LuaTypes ==
  ASSUME Conn!ConnectionAssumption, Conn!TypeOK, Conn!LuaStep PROVE Conn!TypeOK'
<1>1. CASE \E o \in Options : Conn!SetOption(o)
  BY <1>1 DEF Conn!ConnectionAssumption, Conn!TypeOK, Conn!Busy, Conn!SetOption,
     Conn!Intrude
<1>2. CASE Conn!Initialize
  BY <1>2 DEF Conn!ConnectionAssumption, Conn!TypeOK, Conn!Busy, Conn!Initialize,
     Conn!MysqlInit
<1>3. CASE Conn!InitializeFails
  BY <1>3 DEF Conn!ConnectionAssumption, Conn!TypeOK, Conn!Busy, Conn!InitializeFails,
     Conn!MysqlInit
<1>4. CASE \E cs \in CharSets : Conn!SetCharacterSet(cs)
  BY <1>4 DEF Conn!ConnectionAssumption, Conn!TypeOK, Conn!Busy, Conn!SetCharacterSet,
     Conn!Connected, Conn!Intrude
<1>5. CASE \E ok \in BOOLEAN : Conn!SetCharacterSetReturns(ok)
  BY <1>5 DEF Conn!ConnectionAssumption, Conn!TypeOK, Conn!Busy,
     Conn!SetCharacterSetReturns, Conn!SaveCharSet, Conn!Intrude
<1>6. CASE Conn!Escape
  BY <1>6 DEF Conn!ConnectionAssumption, Conn!TypeOK, Conn!Busy, Conn!Escape,
     Conn!EscapeByCharSet, Conn!Connected, Conn!Intrude
<1>7. CASE Conn!Getter
  BY <1>7 DEF Conn!ConnectionAssumption, Conn!TypeOK, Conn!Busy, Conn!Getter,
     Conn!Connected, Conn!Intrude
<1>8. CASE Conn!Disconnect
  BY <1>8 DEF Conn!ConnectionAssumption, Conn!TypeOK, Conn!Busy, Conn!Disconnect,
     Conn!Connected
<1> QED
  BY <1>1, <1>2, <1>3, <1>4, <1>5, <1>6, <1>7, <1>8 DEF Conn!LuaStep

\* A step of the io thread keeps the types; the losses are within their bound.
LEMMA IoTypes ==
  ASSUME Conn!ConnectionAssumption, Conn!TypeOK, SavedIsSet, Conn!IoStep PROVE Conn!TypeOK'
<1>1. CASE Conn!Command
  BY <1>1 DEF Conn!ConnectionAssumption, Conn!TypeOK, Conn!Command
<1>2. CASE Conn!Answer
  BY <1>2 DEF Conn!ConnectionAssumption, Conn!TypeOK, Conn!Answer
<1>3. CASE Conn!ServerLost
  BY <1>3 DEF Conn!ConnectionAssumption, Conn!TypeOK, Conn!ServerLost
<1>4. CASE Conn!Reconnect
  BY <1>4 DEF Conn!ConnectionAssumption, Conn!TypeOK, Conn!Reconnect
<1>5. CASE Conn!ReconnectFails
  BY <1>5 DEF Conn!ConnectionAssumption, Conn!TypeOK, Conn!ReconnectFails
<1>6. CASE Conn!ReapplyCharSet
  BY <1>6 DEF SavedIsSet, Conn!TypeOK, Conn!ReapplyCharSet, Conn!ApplyCharSet
<1>7. CASE Conn!ReapplyFails
  BY <1>7 DEF Conn!ConnectionAssumption, Conn!TypeOK, Conn!ReapplyFails
<1> QED
  BY <1>1, <1>2, <1>3, <1>4, <1>5, <1>6, <1>7 DEF Conn!IoStep

\* Nothing is set or sent before Connect has succeeded.
LEMMA BeforeKept ==
  ASSUME Conn!ConnectionAssumption, Conn!TypeOK, NothingBefore, Conn!Next PROVE NothingBefore'
  BY DEF Conn!ConnectionAssumption, Conn!TypeOK, NothingBefore, Conn!Next, Conn!LuaStep,
     Conn!IoStep, Conn!SetOption, Conn!Initialize, Conn!InitializeFails, Conn!MysqlInit,
     Conn!SetCharacterSet, Conn!SetCharacterSetReturns, Conn!SaveCharSet, Conn!Escape,
     Conn!EscapeByCharSet, Conn!Getter, Conn!Disconnect, Conn!Command, Conn!Answer,
     Conn!ServerLost, Conn!Reconnect, Conn!ReconnectFails, Conn!ReapplyCharSet,
     Conn!ApplyCharSet, Conn!ReapplyFails, Conn!Sending, Conn!Connected

\* The saved character set is replaced, never forgotten.
LEMMA SavedStays ==
  ASSUME Conn!ConnectionAssumption, Conn!TypeOK, SavedIsSet, Conn!Next PROVE SavedIsSet'
  BY DEF Conn!ConnectionAssumption, Conn!TypeOK, SavedIsSet, Conn!Next, Conn!LuaStep,
     Conn!IoStep, Conn!SetOption, Conn!Initialize, Conn!InitializeFails,
     Conn!SetCharacterSet, Conn!SetCharacterSetReturns, Conn!SaveCharSet, Conn!Escape,
     Conn!Getter, Conn!Disconnect, Conn!Command, Conn!Answer, Conn!ServerLost,
     Conn!Reconnect, Conn!ReconnectFails, Conn!ReapplyCharSet, Conn!ReapplyFails

\* Once the threads have met, or a session has refused its character set, the
\* history says so for ever.
LEMMA ExcuseStays ==
  ASSUME Conn!TypeOK, Conn!Next, intruded \/ refused PROVE intruded' \/ refused'
  BY DEF Conn!TypeOK, Conn!Next, Conn!LuaStep, Conn!IoStep, Conn!SetOption, Conn!Initialize,
     Conn!InitializeFails, Conn!SetCharacterSet, Conn!SetCharacterSetReturns, Conn!Escape,
     Conn!Getter, Conn!Disconnect, Conn!Intrude, Conn!Command, Conn!Answer, Conn!ServerLost,
     Conn!Reconnect, Conn!ReconnectFails, Conn!ReapplyCharSet, Conn!ReapplyFails

\* A step of the Lua thread keeps the character set, or meets the io thread in
\* a call: one step per call of the script.
LEMMA LuaKept ==
  ASSUME Conn!ConnectionAssumption, Conn!TypeOK, NothingBefore, Kept, Conn!LuaStep
  PROVE  intruded' \/ refused' \/ Kept'
<1>1. CASE \E o \in Options : Conn!SetOption(o)
  BY <1>1 DEF Conn!SetOption, Conn!Intrude, Conn!Busy, Kept, Expected
<1>2. CASE Conn!Initialize
  BY <1>2 DEF Conn!Initialize, NothingBefore, Kept, Expected
<1>3. CASE Conn!InitializeFails
  BY <1>3 DEF Conn!InitializeFails, Kept, Expected
<1>4. CASE \E cs \in CharSets : Conn!SetCharacterSet(cs)
  BY <1>4 DEF Conn!SetCharacterSet, Conn!Intrude, Conn!Busy, Kept, Expected
<1>5. CASE \E ok \in BOOLEAN : Conn!SetCharacterSetReturns(ok)
  BY <1>5 DEF Conn!SetCharacterSetReturns, Conn!SaveCharSet, Conn!Intrude, Conn!Busy, Kept,
     Expected
<1>6. CASE Conn!Escape
  BY <1>6 DEF Conn!Escape, Conn!EscapeByCharSet, Conn!Intrude, Conn!Busy, Kept, Expected
<1>7. CASE Conn!Getter
  BY <1>7 DEF Conn!Getter, Kept, Expected
<1>8. CASE Conn!Disconnect
  BY <1>8 DEF Conn!Disconnect, Kept, Expected
<1> QED
  BY <1>1, <1>2, <1>3, <1>4, <1>5, <1>6, <1>7, <1>8 DEF Conn!LuaStep

\* A step of the io thread keeps the character set: the loop of losses and
\* reconnects comes back to the saved one, or the session has refused it.
LEMMA IoKept ==
  ASSUME Conn!ConnectionAssumption, Conn!TypeOK, SavedIsSet, Kept, Conn!IoStep
  PROVE  intruded' \/ refused' \/ Kept'
<1>1. CASE Conn!Command
  BY <1>1 DEF Conn!Command, Kept, Expected
<1>2. CASE Conn!Answer
  BY <1>2 DEF Conn!Answer, Conn!Sending, Kept, Expected
<1>3. CASE Conn!ServerLost
  BY <1>3 DEF Conn!ServerLost, Kept, Expected
<1>4. CASE Conn!Reconnect
  BY <1>4 DEF Conn!Reconnect, Kept, Expected
<1>5. CASE Conn!ReconnectFails
  BY <1>5 DEF Conn!ReconnectFails, Kept, Expected
<1>6. CASE Conn!ReapplyCharSet
  BY <1>6 DEF Conn!ReapplyCharSet, Conn!ApplyCharSet, SavedIsSet, Kept, Expected
<1>7. CASE Conn!ReapplyFails
  BY <1>7 DEF Conn!ReapplyFails
<1> QED
  BY <1>1, <1>2, <1>3, <1>4, <1>5, <1>6, <1>7 DEF Conn!IoStep

\* The invariant implies what a run checks of every state.
LEMMA KeptSuffices == ConnInv => Conn!CharSetKept
  BY DEF ConnInv, Conn!TypeOK, Kept, Expected, Conn!CharSetKept, Conn!CommandCharSet,
     Conn!EscapeMatches, Conn!Sending

\* Every step keeps the invariant.
LEMMA ConnStep == ASSUME Conn!ConnectionAssumption, ConnInv, [Conn!Next]_(Conn!vars) PROVE ConnInv'
<1>1. CASE Conn!Next
  <2>1. Conn!TypeOK'
    BY <1>1, LuaTypes, IoTypes DEF ConnInv, Conn!Next
  <2>2. NothingBefore'
    BY <1>1, BeforeKept DEF ConnInv
  <2>3. SavedIsSet'
    BY <1>1, SavedStays DEF ConnInv
  <2>4. (intruded \/ refused \/ Kept)'
    BY <1>1, ExcuseStays, LuaKept, IoKept DEF ConnInv, Conn!Next
  <2> QED
    BY <2>1, <2>2, <2>3, <2>4 DEF ConnInv
<1>2. CASE UNCHANGED Conn!vars
  BY <1>2 DEF ConnInv, Conn!TypeOK, NothingBefore, SavedIsSet, Kept, Expected, Conn!vars
<1> QED
  BY <1>1, <1>2

-----------------------------------------------------------------------------
(* The parameters of a statement from lua_Run to deleteBinds, for any      *)
(* number of parameters and arguments.                                     *)
(*                                                                         *)
(* The invariant says of each bind what it was made of (Filled), when it   *)
(* may have become a blob (Typed), and how it was deleted (Deletions): the *)
(* three arrays of a call grow together, and only the refused argument and *)
(* the end of Execute delete.                                              *)

\* Execute has looked at the strings.
Executed == {"attempt", "threw", "deleted"}

\* The arrays have the same length, and as many binds as parameters from the
\* queueing on.
Lengths ==
  /\ numArgs \in Nat
  /\ args \in Seq(Bind!Args)
  /\ binds \in Seq({"STRING", "BIT", "DOUBLE", "NULL", "BLOB"})
  /\ buffers \in Seq({"array", "object", "none"})
  /\ deletes \in Seq({"array", "object", "none"})
  /\ Len(buffers) = Len(binds)
  /\ Len(deletes) = Len(binds)
  /\ Len(binds) <= Len(args)
  /\ Len(binds) <= numArgs
  /\ pc \in {"run", "bind", "queued", "attempt", "threw", "thrown", "deleted"}
  /\ pc = "run" => binds = << >>
  /\ pc \in {"bind", "queued"} => numArgs <= Len(args)
  /\ pc \in {"queued"} \cup Executed => Len(binds) = numArgs

\* Each buffer was allocated for an argument of an allowed type.
Filled ==
  \A i \in 1 .. Len(binds) :
    args[i] # "other" /\ buffers[i] = Bind!Buffer(Bind!BufferType(args[i]))

\* buffer_type is the one of the argument, or BLOB for a string: for every
\* string with a zero byte once Execute has looked.
Typed ==
  \A i \in 1 .. Len(binds) :
    /\ \/ binds[i] = Bind!BufferType(args[i])
       \/ binds[i] = "BLOB" /\ Bind!BufferType(args[i]) = "STRING"
    /\ pc \in Executed /\ args[i] = "binary" => binds[i] = "BLOB"

\* Nothing is deleted before the end, and then everything.
Deletions ==
  \A i \in 1 .. Len(binds) :
    deletes[i] = IF pc \in {"thrown", "deleted"} THEN Bind!DeleteAs(binds[i]) ELSE "none"

\* What was sent is what the binds are.
Sent == sentAs = << >> \/ (pc \in Executed /\ sentAs = binds)

BindInv == Lengths /\ Filled /\ Typed /\ Deletions /\ Sent

\* A call starts without binds.
LEMMA BindInit == ASSUME Bind!BindsAssumption, Bind!Init PROVE BindInv
<1>1. numArgs \in Nat
  BY DEF Bind!Init, Bind!BindsAssumption
<1>2. args \in Seq(Bind!Args)
  <2>1. PICK m \in 0 .. MaxArgs : args \in [1 .. m -> Bind!Args]
    BY DEF Bind!Init, Bind!BoundedSeq, Bind!SeqOf
  <2> QED
    BY <2>1 DEF Bind!BindsAssumption
<1>3. binds = << >> /\ buffers = << >> /\ deletes = << >> /\ sentAs = << >> /\ pc = "run"
  BY DEF Bind!Init
<1>4. Lengths
  BY <1>1, <1>2, <1>3 DEF Lengths, Executed
<1> QED
  BY <1>3, <1>4 DEF BindInv, Filled, Typed, Deletions, Sent

\* A step that changes only pc, and none of what it tells of the binds.
LEMMA MoveKeeps ==
  ASSUME BindInv, UNCHANGED <<numArgs, args, binds, buffers, deletes, sentAs>>,
         \/ pc = "run" /\ pc' = "thrown"
         \/ pc = "run" /\ pc' = "bind" /\ numArgs <= Len(args)
         \/ pc = "bind" /\ pc' = "queued" /\ Len(binds) = numArgs
         \/ pc = "attempt" /\ pc' = "threw"
         \/ pc' = pc
  PROVE  BindInv'
<1>1. Lengths'
  BY DEF BindInv, Lengths, Executed
<1>2. Filled' /\ Typed' /\ Sent'
  BY DEF BindInv, Lengths, Executed, Filled, Typed, Sent
<1>3. Deletions'
  BY DEF BindInv, Lengths, Deletions
<1> QED
  BY <1>1, <1>2, <1>3 DEF BindInv

\* lua_Run binds an argument: the three arrays grow by what belongs to it.
LEMMA BindKeeps == ASSUME BindInv, Bind!Bind PROVE BindInv'
<1> DEFINE n == Len(binds) + 1
           arg == args[n]
<1>1. /\ pc = "bind" /\ pc' = "bind" /\ arg # "other" /\ n <= numArgs /\ n <= Len(args)
      /\ binds' = Append(binds, Bind!BufferType(arg))
      /\ buffers' = Append(buffers, Bind!Buffer(Bind!BufferType(arg)))
      /\ deletes' = Append(deletes, "none")
      /\ numArgs' = numArgs /\ args' = args /\ sentAs' = sentAs
  BY DEF Bind!Bind, BindInv, Lengths
<1>2. arg \in Bind!Args /\ n \in 1 .. Len(args)
  BY <1>1 DEF BindInv, Lengths
<1>3. /\ Bind!BufferType(arg) \in {"STRING", "BIT", "DOUBLE", "NULL"}
      /\ Bind!Buffer(Bind!BufferType(arg)) \in {"array", "object", "none"}
  BY <1>1, <1>2 DEF Bind!Args, Bind!BufferType, Bind!Buffer
<1>4. /\ Len(binds') = n /\ Len(buffers') = n /\ Len(deletes') = n
      /\ \A i \in 1 .. Len(binds) :
           binds'[i] = binds[i] /\ buffers'[i] = buffers[i] /\ deletes'[i] = deletes[i]
      /\ binds'[n] = Bind!BufferType(arg)
      /\ buffers'[n] = Bind!Buffer(Bind!BufferType(arg))
      /\ deletes'[n] = "none"
  BY <1>1, <1>3 DEF BindInv, Lengths
<1>5. Lengths'
  BY <1>1, <1>3, <1>4 DEF BindInv, Lengths, Executed
<1>6. Filled'
  BY <1>1, <1>4 DEF BindInv, Lengths, Filled
<1>7. Typed'
  BY <1>1, <1>4 DEF BindInv, Lengths, Typed, Executed
<1>8. Deletions'
  BY <1>1, <1>4 DEF BindInv, Lengths, Deletions
<1>9. Sent'
  BY <1>1 DEF BindInv, Sent, Executed
<1> QED
  BY <1>5, <1>6, <1>7, <1>8, <1>9 DEF BindInv

\* deleteBinds of all binds, for a refused argument and at the end.
LEMMA DeleteKeeps ==
  ASSUME BindInv, Bind!DeleteBinds(Len(binds)),
         UNCHANGED <<numArgs, args, binds, buffers, sentAs>>,
         \/ pc = "bind" /\ pc' = "thrown"
         \/ pc = "attempt" /\ pc' = "deleted"
  PROVE  BindInv'
<1>1. Len(deletes) = Len(binds) /\ Len(binds) \in Nat
  BY DEF BindInv, Lengths
<1>2. deletes' = [i \in 1 .. Len(binds) |-> Bind!DeleteAs(binds[i])]
  BY <1>1 DEF Bind!DeleteBinds
<1>3. \A i \in 1 .. Len(binds) : Bind!DeleteAs(binds[i]) \in {"array", "object", "none"}
  BY DEF Bind!DeleteAs
<1>4. deletes' \in Seq({"array", "object", "none"}) /\ Len(deletes') = Len(binds)
  BY <1>1, <1>2, <1>3
<1>5. Lengths'
  BY <1>4 DEF BindInv, Lengths, Executed
<1>6. Filled' /\ Typed' /\ Sent'
  BY DEF BindInv, Filled, Typed, Sent, Executed
<1>7. Deletions'
  BY <1>1, <1>2 DEF Deletions
<1> QED
  BY <1>5, <1>6, <1>7 DEF BindInv

\* Execute looks at the strings: one with a zero byte becomes a blob.
LEMMA ExecuteKeeps ==
  ASSUME BindInv, NEW unlucky \in SUBSET (1 .. numArgs), Bind!Execute(unlucky) PROVE BindInv'
<1>1. /\ pc = "queued" /\ pc' = "attempt" /\ binds' = Bind!Blobs(unlucky)
      /\ UNCHANGED <<numArgs, args, buffers, deletes, sentAs>>
  BY DEF Bind!Execute
<1>2. Len(binds) \in Nat
  BY DEF BindInv, Lengths
<1>3. \A i \in 1 .. Len(binds) :
        binds'[i] = IF binds[i] = "STRING" /\ (args[i] = "binary" \/ i \in unlucky)
                      THEN "BLOB" ELSE binds[i]
  BY <1>1 DEF Bind!Blobs
<1>4. /\ binds' \in Seq({"STRING", "BIT", "DOUBLE", "NULL", "BLOB"})
      /\ Len(binds') = Len(binds)
  BY <1>1, <1>2 DEF Bind!Blobs, BindInv, Lengths
<1>5. Lengths'
  BY <1>1, <1>4 DEF BindInv, Lengths, Executed
<1>6. Filled'
  BY <1>1, <1>4 DEF BindInv, Filled
<1>7. Typed'
  <2> SUFFICES ASSUME NEW i \in 1 .. Len(binds)
               PROVE  /\ \/ binds'[i] = Bind!BufferType(args[i])
                         \/ binds'[i] = "BLOB" /\ Bind!BufferType(args[i]) = "STRING"
                      /\ args[i] = "binary" => binds'[i] = "BLOB"
    BY <1>1, <1>4 DEF Typed
  <2>1. \/ binds[i] = Bind!BufferType(args[i])
        \/ binds[i] = "BLOB" /\ Bind!BufferType(args[i]) = "STRING"
    BY DEF BindInv, Typed
  <2>2. args[i] = "binary" => Bind!BufferType(args[i]) = "STRING"
    BY DEF Bind!BufferType
  <2> QED
    BY <1>3, <2>1, <2>2
<1>8. Deletions'
  BY <1>1, <1>4 DEF BindInv, Deletions
<1>9. Sent'
  BY <1>1 DEF BindInv, Sent, Executed
<1> QED
  BY <1>5, <1>6, <1>7, <1>8, <1>9 DEF BindInv

\* An attempt sends the binds as they are.
LEMMA AttemptKeeps == ASSUME BindInv, Bind!Attempt PROVE BindInv'
<1>1. Lengths' /\ Filled' /\ Typed' /\ Deletions'
  BY DEF BindInv, Bind!Attempt, Lengths, Filled, Typed, Deletions
<1>2. Sent'
  BY DEF Bind!Attempt, Sent, Executed
<1> QED
  BY <1>1, <1>2 DEF BindInv

\* Every step keeps the invariant.
LEMMA BindStep == ASSUME Bind!BindsAssumption, BindInv, [Bind!Next]_(Bind!vars) PROVE BindInv'
<1>1. CASE Bind!NotEnough
  BY <1>1, MoveKeeps DEF Bind!NotEnough
<1>2. CASE Bind!Enough
  BY <1>2, MoveKeeps DEF Bind!Enough, BindInv, Lengths
<1>3. CASE Bind!Bind
  BY <1>3, BindKeeps
<1>4. CASE Bind!BindRefused
  BY <1>4, DeleteKeeps DEF Bind!BindRefused
<1>5. CASE Bind!Queue
  BY <1>5, MoveKeeps DEF Bind!Queue
<1>6. CASE \E unlucky \in SUBSET (1 .. numArgs) : Bind!Execute(unlucky)
  BY <1>6, ExecuteKeeps
<1>7. CASE Bind!Attempt
  BY <1>7, AttemptKeeps
<1>8. CASE Bind!Done
  BY <1>8, DeleteKeeps DEF Bind!Done, BindInv, Lengths, Executed
<1>9. CASE Bind!Throws
  BY <1>9, MoveKeeps DEF Bind!Throws
<1>10. CASE Bind!Stop \/ UNCHANGED Bind!vars
  BY <1>10, MoveKeeps DEF Bind!Stop, Bind!vars
<1> QED
  BY <1>1, <1>2, <1>3, <1>4, <1>5, <1>6, <1>7, <1>8, <1>9, <1>10 DEF Bind!Next

\* The invariant is at least as strong as the properties.
LEMMA FreedSuffices == ASSUME BindInv PROVE Bind!BuffersFreed
<1>1. Len(buffers) = Len(binds)
  BY DEF BindInv, Lengths
<1>2. ASSUME NEW i \in 1 .. Len(binds)
      PROVE  /\ buffers[i] # "none" => Bind!DeleteAs(binds[i]) # "none"
             /\ Bind!DeleteAs(binds[i]) # "none" =>
                  Bind!DeleteAs(binds[i]) = buffers[i] \/ binds[i] = "BLOB"
  <2>1. /\ args[i] \in Bind!Args /\ args[i] # "other"
        /\ buffers[i] = Bind!Buffer(Bind!BufferType(args[i]))
    BY DEF BindInv, Lengths, Filled
  <2>2. \/ binds[i] = Bind!BufferType(args[i])
        \/ binds[i] = "BLOB" /\ Bind!BufferType(args[i]) = "STRING"
    BY DEF BindInv, Typed
  <2> QED
    BY <2>1, <2>2 DEF Bind!Args, Bind!BufferType, Bind!Buffer, Bind!DeleteAs
<1>3. Bind!AllDeleted /\ Bind!DeletedAsAllocated
  BY <1>1, <1>2 DEF Bind!AllDeleted, Bind!DeletedAsAllocated, BindInv, Deletions
<1>4. Bind!ZeroByteKept
  BY DEF Bind!ZeroByteKept, BindInv, Sent, Typed
<1> QED
  BY <1>3, <1>4 DEF Bind!BuffersFreed

-----------------------------------------------------------------------------
(* All components.                                                         *)

\* The inductive invariant.
CInv ==
  /\ part = "executor" => Exec!IInv
  /\ part = "connection" => ConnInv
  /\ part = "registry" => Reg!IInv
  /\ part = "callbacks" => Lua!IInv
  /\ part = "result" => Res!IInv
  /\ part = "binds" => BindInv

\* A behaviour begins as one of its component does.
LEMMA InitHolds == Init => CInv
<1> SUFFICES ASSUME Init PROVE CInv
  OBVIOUS
<1>1. part = "executor" => Exec!Init
  BY DEF Init
<1>2. part = "connection" => Conn!Init
  BY DEF Init
<1>3. part = "registry" => Reg!Init
  BY DEF Init
<1>4. part = "callbacks" => Lua!Init
  BY DEF Init
<1>5. part = "result" => Res!Init
  BY DEF Init
<1>6. part = "binds" => Bind!Init
  BY DEF Init
<1> QED
  BY <1>1, <1>2, <1>3, <1>4, <1>5, <1>6, ComponentsAssumption, Exec!InitKeeps, ConnInit,
     Reg!InitIInv, Lua!InitHolds, Res!InitHolds, BindInit DEF CInv

\* A step is one of the component to which the behaviour belongs, or none.
LEMMA OwnSteps ==
  ASSUME [Next]_vars
  PROVE  /\ part' = part
         /\ part = "executor" => [Exec!Next]_(Exec!vars)
         /\ part = "connection" => [Conn!Next]_(Conn!vars)
         /\ part = "registry" => [Reg!Next]_(Reg!vars)
         /\ part = "callbacks" => [Lua!Next]_(Lua!vars)
         /\ part = "result" => [Res!Next]_(Res!vars)
         /\ part = "binds" => [Bind!Next]_(Bind!vars)
<1>1. CASE UNCHANGED vars
  <2>1. UNCHANGED part /\ UNCHANGED Exec!vars
    BY <1>1 DEF vars, executorVars, Exec!vars, Exec!server, Exec!client, Exec!locals,
               Exec!action, Exec!history
  <2>2. UNCHANGED Conn!vars
    BY <1>1 DEF vars, connectionVars, Conn!vars
  <2>3. UNCHANGED Reg!vars
    BY <1>1 DEF vars, registryVars, Reg!vars
  <2>4. UNCHANGED Lua!vars
    BY <1>1 DEF vars, callbacksVars, Lua!vars, Lua!refVars
  <2>5. UNCHANGED Res!vars
    BY <1>1 DEF vars, resultTableVars, Res!vars, Res!input, Res!result
  <2>6. UNCHANGED Bind!vars
    BY <1>1 DEF vars, bindsVars, Bind!vars
  <2> QED
    BY <2>1, <2>2, <2>3, <2>4, <2>5, <2>6
<1>2. CASE ExecNext
  BY <1>2 DEF ExecNext, NotExecutor
<1>3. CASE ConnNext
  BY <1>3 DEF ConnNext, NotConnection
<1>4. CASE RegNext
  BY <1>4 DEF RegNext, NotRegistry
<1>5. CASE LuaNext
  BY <1>5 DEF LuaNext, NotCallbacks
<1>6. CASE ResNext
  BY <1>6 DEF ResNext, NotResultTable
<1>7. CASE BindNext
  BY <1>7 DEF BindNext, NotBinds
<1> QED
  BY <1>1, <1>2, <1>3, <1>4, <1>5, <1>6, <1>7 DEF Next, Over

\* Every step keeps what the components keep.
LEMMA StepKeeps == CInv /\ [Next]_vars => CInv'
<1> SUFFICES ASSUME CInv, [Next]_vars PROVE CInv'
  OBVIOUS
<1>1. part = "executor" => Exec!IInv'
  BY ComponentsAssumption, OwnSteps, Exec!StepKeeps DEF CInv
<1>2. part = "connection" => ConnInv'
  BY ComponentsAssumption, OwnSteps, ConnStep DEF CInv
<1>3. part = "registry" => Reg!IInv'
  BY ComponentsAssumption, OwnSteps, Reg!NextIInv DEF CInv
<1>4. part = "callbacks" => Lua!IInv'
  BY ComponentsAssumption, OwnSteps, Lua!StepKeeps DEF CInv
<1>5. part = "result" => Res!IInv'
  BY ComponentsAssumption, OwnSteps, Res!StepKeeps DEF CInv
<1>6. part = "binds" => BindInv'
  BY ComponentsAssumption, OwnSteps, BindStep DEF CInv
<1> QED
  BY <1>1, <1>2, <1>3, <1>4, <1>5, <1>6, OwnSteps DEF CInv

\* So each component keeps its invariant in the behaviours that are its own.
LEMMA Invariance == Spec => []CInv
  BY InitHolds, StepKeeps, PTL DEF Spec

-----------------------------------------------------------------------------
\* RunQuery, RunStatement and Execute, for any number of statements, actions,
\* losses and result sets: a callback is told what was done.
THEOREM ActionsReported == Spec => []ReportedAsDone
<1>1. CInv => ReportedAsDone
  BY Exec!InvariantSuffices DEF CInv, ReportedAsDone
<1> QED
  BY <1>1, Invariance, PTL

\* Connect(err, true) restores the statements, for any number of them, unless
\* its loop was cut short; error 1243 is reported only then or when the loop
\* has closed the running statement by another's old number.
THEOREM ReconnectRestoresStatements == Spec => []StatementsRestored
<1>1. CInv => StatementsRestored
  BY Exec!InvariantSuffices DEF CInv, StatementsRestored
<1> QED
  BY <1>1, Invariance, PTL

\* SetCharacterSet, Escape and the retries of RunQuery and Execute, for any
\* character sets, over any number of losses and reconnects.
THEOREM CharSetStays == Spec => []CharSetKept
<1>1. CInv => CharSetKept
  BY KeptSuffices, ComponentsAssumption DEF CInv, CharSetKept
<1> QED
  BY <1>1, Invariance, PTL

\* PushHandle, NullifyReference and m_databases, for any number of databases
\* at any addresses.
THEOREM HandlesStayExact == Spec => []HandlesExact
<1>1. CInv => HandlesExact
  BY DEF CInv, HandlesExact, Reg!IInv
<1> QED
  BY <1>1, Invariance, PTL

\* The two TriggerCallbacks and DispatchCompletedActions, for any number of
\* actions and whatever their callbacks queue.
THEOREM ReferencesStayExact == Spec => []ReferencesExact
<1>1. CInv => ReferencesExact
  BY Lua!InvariantSuffices, ComponentsAssumption DEF CInv, ReferencesExact
<1> QED
  BY <1>1, Invariance, PTL

\* The two constructors of Result, PopulateLuaTable and ~Result, for result
\* sets of any size, with any names that repeat and any NULLs, and wherever the
\* fetches end: with the status true, all rows are there, each as it was sent,
\* unless the client could not store the result set or a value was cut.
THEOREM TablesStayFaithful == Spec => []DataFaithful
<1>1. CInv => DataFaithful
  BY Res!InvariantSuffices, ComponentsAssumption DEF CInv, DataFaithful
<1> QED
  BY <1>1, Invariance, PTL

\* lua_Run, Execute and deleteBinds, for every list of arguments: on every
\* path that Prepare does not throw out of each buffer is deleted, whichever
\* argument was refused; it is deleted as it was allocated, but for strings
\* that were made blobs; and a string with a zero byte is sent whole.
THEOREM BuffersStayOwned == Spec => []BuffersFreed
<1>1. CInv => BuffersFreed
  BY Exec!InvariantSuffices, FreedSuffices DEF CInv, BuffersFreed
<1> QED
  BY <1>1, Invariance, PTL
==============================================================================

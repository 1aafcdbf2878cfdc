------------------------------- MODULE Binds --------------------------------
(***************************************************************************)
(* The parameters of PreparedStatement:Run: lua_Run allocates a MYSQL_BIND *)
(* and a buffer for each argument, PStatement::Execute looks at the        *)
(* strings again, and deleteBinds frees everything when the statement has  *)
(* been executed or an argument has a type that is not allowed.            *)
(***************************************************************************)
EXTENDS Naturals, Sequences, SequencesExt

CONSTANT MaxArgs        \* bound: parameters of the statement

\* What the constants must be; the modules that instantiate this one assume it.
BindsAssumption == MaxArgs \in Nat

\* Arguments: a string without and with a zero byte, a boolean, a number, nil,
\* and anything else.
Args == {"text", "binary", "bool", "number", "nil", "other"}

VARIABLES
  numArgs,      \* m_numArgs
  args,         \* the arguments of the call
  pc,           \* "run", "bind", "queued", "attempt", "threw", "thrown", "deleted"
  binds,        \* what buffer_type was set to, of each bind filled
  buffers,      \* the buffers allocated: "array" (new[]) or "object" (new)
  deletes,      \* how each was deleted, "none" until then
  sentAs        \* what the server is told of each parameter

vars == <<numArgs, args, pc, binds, buffers, deletes, sentAs>>

-----------------------------------------------------------------------------
(* lua_Run.                                                                *)

\* LUA->Top() < m_numArgs + 1.
NotEnough ==
  /\ pc = "run"
  /\ Len(args) < numArgs
  /\ pc' = "thrown"
  /\ UNCHANGED <<numArgs, args, binds, buffers, deletes, sentAs>>

Enough ==
  /\ pc = "run"
  /\ Len(args) >= numArgs
  /\ pc' = "bind"
  /\ UNCHANGED <<numArgs, args, binds, buffers, deletes, sentAs>>

\* buffer_type and buffer for an argument that is allowed.
BufferType(arg) ==
  CASE arg \in {"text", "binary"} -> "STRING"
    [] arg = "bool" -> "BIT"
    [] arg = "number" -> "DOUBLE"
    [] arg = "nil" -> "NULL"

Buffer(type) ==
  CASE type = "STRING" -> "array"
    [] type = "NULL" -> "none"
    [] OTHER -> "object"

\* The next parameter is bound.
Bind ==
  LET arg == args[Len(binds) + 1]
  IN /\ pc = "bind"
     /\ Len(binds) < numArgs
     /\ arg # "other"
     /\ binds' = Append(binds, BufferType(arg))
     /\ buffers' = Append(buffers, Buffer(BufferType(arg)))
     /\ deletes' = Append(deletes, "none")
     /\ UNCHANGED <<numArgs, args, pc, sentAs>>

\* deleteBinds, for one bind: by what buffer_type is by then.
DeleteAs(type) ==
  CASE type = "NULL" -> "none"
    [] type = "STRING" -> "array"
    [] OTHER -> "object"

\* Mutant: one bind too few.
DeleteButLast(n) ==
  deletes' = [i \in 1 .. Len(deletes) |-> IF i < n THEN DeleteAs(binds[i]) ELSE deletes[i]]

\* deleteBinds(binds, n).
DeleteBinds(n) ==
  deletes' = [i \in 1 .. Len(deletes) |-> IF i <= n THEN DeleteAs(binds[i]) ELSE deletes[i]]

\* An argument of another type: what was bound is deleted, then ThrowError.
BindRefused ==
  /\ pc = "bind"
  /\ Len(binds) < numArgs
  /\ args[Len(binds) + 1] = "other"
  /\ DeleteBinds(Len(binds))
  /\ pc' = "thrown"
  /\ UNCHANGED <<numArgs, args, binds, buffers, sentAs>>

\* QueueStatement.
Queue ==
  /\ pc = "bind"
  /\ Len(binds) = numArgs
  /\ pc' = "queued"
  /\ UNCHANGED <<numArgs, args, binds, buffers, deletes, sentAs>>

-----------------------------------------------------------------------------
(* Execute.                                                                *)

\* strlen of a buffer that holds no terminator: for a text it goes on behind
\* the buffer, and what it finds there decides.
Blobs(unlucky) ==
  [i \in 1 .. Len(binds) |->
    IF binds[i] = "STRING" /\ (args[i] = "binary" \/ i \in unlucky) THEN "BLOB" ELSE binds[i]]

Execute(unlucky) ==
  /\ pc = "queued"
  /\ binds' = Blobs(unlucky)
  /\ pc' = "attempt"
  /\ UNCHANGED <<numArgs, args, buffers, deletes, sentAs>>

\* mysql_stmt_bind_param and mysql_stmt_execute; a retry does it again.
Attempt ==
  /\ pc = "attempt"
  /\ sentAs' = binds
  /\ UNCHANGED <<numArgs, args, pc, binds, buffers, deletes>>

\* The statement was executed, or failed for good.
Done ==
  /\ pc = "attempt"
  /\ sentAs # << >> \/ numArgs = 0
  /\ DeleteBinds(numArgs)
  /\ pc' = "deleted"
  /\ UNCHANGED <<numArgs, args, binds, buffers, sentAs>>

\* Prepare throws, past deleteBinds.
Throws ==
  /\ pc = "attempt"
  /\ sentAs # << >> \/ numArgs = 0
  /\ pc' = "threw"
  /\ UNCHANGED <<numArgs, args, binds, buffers, deletes, sentAs>>

Stop == pc \in {"thrown", "threw", "deleted"} /\ UNCHANGED vars

-----------------------------------------------------------------------------
Init ==
  /\ numArgs \in 0 .. MaxArgs
  /\ args \in BoundedSeq(Args, MaxArgs)
  /\ pc = "run"
  /\ binds = << >>
  /\ buffers = << >>
  /\ deletes = << >>
  /\ sentAs = << >>

Next ==
  \/ NotEnough \/ Enough \/ Bind \/ BindRefused \/ Queue
  \/ \E unlucky \in SUBSET (1 .. numArgs) : Execute(unlucky)
  \/ Attempt \/ Done \/ Throws \/ Stop

Spec == Init /\ [][Next]_vars

-----------------------------------------------------------------------------
(* Properties.                                                             *)

\* On every path but the exception of Prepare each buffer is deleted once.
AllDeleted ==
  pc \in {"deleted", "thrown"} =>
    \A i \in 1 .. Len(buffers) : buffers[i] # "none" => deletes[i] # "none"

\* The value is deleted as it was allocated, unless the string was turned into
\* a blob in between: deleteBinds then deletes an array as an object.
DeletedAsAllocated ==
  \A i \in 1 .. Len(buffers) :
    deletes[i] # "none" => deletes[i] = buffers[i] \/ binds[i] = "BLOB"

\* A string with a zero byte is never sent as text, which would end there.
ZeroByteKept ==
  \A i \in 1 .. Len(sentAs) : args[i] = "binary" => sentAs[i] = "BLOB"

\* The buffers of a call are sent as they should be, and freed.
BuffersFreed == AllDeleted /\ DeletedAsAllocated /\ ZeroByteKept
=============================================================================

\* What surrounds the two threads of a database.
SPECIFICATION Spec
CONSTANTS
  \* Three statements, so that the number that one of them had in the lost session is
  \* another's in the new one; two losses, so that a reconnect is lost again and a later
  \* action meets what it left.
  NumStmts = 3
  MaxJobs = 2
  MaxResults = 2
  MaxLosses = 2
  \* Two character sets, so that a reconnect can meet an older one than the last.
  Options = {o1, o2}
  CharSets = {c1, c2}
  Default = Default
  Unset = Unset
  \* Two addresses for four databases, so that addresses are used again, also where a
  \* stale pointer was left behind.
  Addrs = {a1, a2}
  MaxMade = 4
  Null = Null
  \* Four actions, so that a callback queues one with the slots just freed while another
  \* waits in the batch.
  MaxQueries = 4
  PerCall = 11
  \* Two names for up to three columns, so that a name repeats with another one in
  \* between; two rows, so that the second fetch can fail.
  Names = {n1, n2}
  Texts = {x}
  MaxCols = 3
  MaxRows = 2
  \* Three parameters, so that a refused one has others before and after it.
  MaxArgs = 3
INVARIANTS
  ReportedAsDone
  StatementsRestored
  CharSetKept
  HandlesExact
  ReferencesExact
  DataFaithful
  BuffersFreed

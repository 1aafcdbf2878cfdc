\* Callbacks may call every method.  Three actions, so that a batch can hold
\* one action while a nested dispatch takes another and a third still runs;
\* three frames, so that a callback of a callback calls the module.
SPECIFICATION Spec
CONSTANTS
  None = None
  Texts = {t1, t2}
  CallbackOps = {"Connect", "Query", "Run", "Prepare", "Poll", "Disconnect"}
  MaxActions = 3
  MaxDepth = 3
SYMMETRY Symmetry
INVARIANTS
  TypeOK
  WorkerOutlived
  DrainedAtDelete
  HandlesInvalidated
  PrepareInsertsAlone
  NoneLost
  CalledInOrder
  FreedOnlyByReentry
  StatementsOutliveTheirJobs
  HungOnlyInDisconnect
PROPERTY ImplementsService

\* A callback disconnects its own database.
SPECIFICATION Spec
CONSTANTS
  None = None
  Texts = {t1}
  CallbackOps = {"Connect", "Query", "Run", "Prepare", "Poll", "Disconnect"}
  MaxActions = 2
  MaxDepth = 3
INVARIANT NoUseOfDeletedDatabase

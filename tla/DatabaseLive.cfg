\* Two actions, so that one can wait for the other; three frames, so that a
\* callback of a callback calls the module.
SPECIFICATION FairSpec
CONSTANTS
  None = None
  Texts = {t1}
  CallbackOps = {"Connect", "Query", "Run", "Prepare", "Poll", "Disconnect"}
  MaxActions = 2
  MaxDepth = 3
PROPERTIES
  EventuallyDispatched
  DisconnectEnds
  PrepareEnds

\* The configuration a Database has: its io thread is the only producer.
SPECIFICATION FairSpec
CONSTANTS
  NULL = NULL
  Nodes = {n1, n2, n3}
  Producers = {io}
  MaxPushes = 4
INVARIANT WaitFree
PROPERTY EventuallyWalked

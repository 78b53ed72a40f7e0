SPECIFICATION EdgesSpec
CONSTANTS
  MaxOutages = 2
  MaxLosses = 2
  Threads <- MCThreads
  MaxUploads = 2
  MaxIds = 4
  MaxErrors = 2
  Width = 4
  MaxHeader = 40
  Streams <- MCStreams
  Files <- MCFiles
  Hosts <- MCHosts
INVARIANTS OneAttemptASecond ChildrenAccounted WholeRequests AssertionsHold ServesAsConfigured
PROPERTIES RedisHeals InDoubtIsLast TransactionsAreWhole UploadsEnd
CHECK_DEADLOCK FALSE

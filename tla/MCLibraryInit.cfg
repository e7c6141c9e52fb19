SPECIFICATION FairSpec
CONSTANTS
  Threads = {t1, t2}
  NoThread = NoThread
  CallerContexts = {app}
  LibraryContext = library
  NoContext = NoContext
  DriverFails = TRUE
INVARIANTS
  AvailableIsComplete
  HandlesShareContext
PROPERTIES
  DecodeDecidesOnce
  EncodeDecidesOnce
  SettledIsFinal
  EveryCallReturns

CONSTANTS
  NoThread = NoThread
  Clients = {main, c1}
  Main = main
  Worker = worker
  Messages = {m1, m2}
  Streams = 2
  QueueCapacity = 2
SPECIFICATION FairSpec
INVARIANTS WrittenInOrder CountersBalance ShutdownDrains FlushCovers
CHECK_DEADLOCK FALSE
PROPERTIES MessagesWritten FlushReturns

CONSTANTS
  Workers = {m, w}
  Main = m
  talker = talker
  visitor = visitor
  Clients <- MCClients
  NoClient = none
  MaxFailures = 1
  MaxStops = 1
  BufferSize = 2
  MaxBytes <- MCMaxBytes
SPECIFICATION FairSpec
INVARIANTS OneAccept EchoesInOrder
PROPERTIES ClientsAreAccepted StopEndsRun
CHECK_DEADLOCK FALSE

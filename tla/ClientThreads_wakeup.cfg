CONSTANTS
  p1 = p1
  p2 = p2
  Writer = Writer
  NoPort = NoPort
  Transfer <- MCTransfer1
  MaxOps = 1
  MaxQueue = 1
SPECIFICATION LiveSpec
PROPERTY SleeperIsWoken
CHECK_DEADLOCK FALSE

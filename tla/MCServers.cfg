SPECIFICATION Spec
INVARIANT EchoesIntact
INVARIANT ZombiesAreMissedSignals
INVARIANT ToldStaysTrue
PROPERTY ServersReturn
CONSTANTS
  Many = {a, b, c}
  Few = {a, b}
  Counting = {a}
  Hasty = {a}
  Lines = 1
  ForkLine = 1
  ForkBuf = 1
  ForkRoom = 1
  StoreLine = 3
  StoreBuf = 2
  StoreRoom = 2
  PipeRoom = 3
  SelectLine = 3
  SelectBuf = 1
  SelectRoom = 2
  MaxLines = 4
  Block = 2
  MaxFile = 4
CHECK_DEADLOCK FALSE

SPECIFICATION Spec
CONSTANTS
  Clock = 14
  Cyclic = {"arp", "dns"}
  Tcp = "tcp"
  Interval <- MCInterval
  NumSysTimeout = 3
  MaxLag = 2
  Word = 32
  Start = 4
  HeapSize = 9
  Sizes = {0, 1, 2, 3}
  n1 = n1
  n2 = n2
  MAX_FILES = 3
  MAX_FILE_SIZE = 3
  ShortNames <- KernelShort
  LongNames <- KernelLong
  Strings = {"s", "t"}
  Lengths = {0, 2, 3}
  Reload = 171
  Hz = 2
  MaxElapsed = 400
  Chars = {"a", "b"}
  max = 4
  Fifo = 2
  Size = 6
  Bytes = {0, 1}
  Inputs <- KernelInputs
  BufSize = 16
  RamSize = 5
  Image = {1, 2}
  Junk = 9
INVARIANTS
  BlocksSound  MemmoveCorrect StaticsReady ListSound
PROPERTIES StoreImplemented LineAsShown 
CHECK_DEADLOCK FALSE

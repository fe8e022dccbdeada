SPECIFICATION RingSpec
CONSTANTS
  ByteMod = 4
  RingSize = 11
  BlkSize = 2
  BlkNum = 2
  Message <- MCMessage
INVARIANTS
  RingInv
PROPERTIES
  FirstInFirstOut

CONSTANTS
  a = a
  b = b
  Bytes <- MCBytes
  Zero = z
  CheapPrepend = 1
  InitialSize = 2
  ExtraSize = 3
  Blocks <- MCBlocks
  MaxReadable = 3
SPECIFICATION Spec
INVARIANTS IndicesOrdered
PROPERTIES ImplementsByteQueue

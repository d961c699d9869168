CONSTANTS
  Cap = 3
  Modulus = 9
  Byte = {0, 1}
  Zero = 0
  Chunks <- MCChunks
SPECIFICATION Spec
INVARIANT
  PeeksReadTheFront
PROPERTY
  ImplementsByteQueue

CONSTANTS
  Writer = w
  Readers = {c}
  Byte = {0, 1}
  Chunks <- MCChunks
  MaxLen = 3
SPECIFICATION Spec
INVARIANT IInv
PROPERTY AtomicSpec

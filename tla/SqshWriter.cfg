CONSTANTS
  Byte = {0, 1}
  BlockSize = 3
  Deflate <- MCDeflate
  Inflate <- MCInflate
  Checksum <- MCChecksum
  Checksums = {0, 1, 2, 3}
  Inputs <- Archives
  Modes <- AllModes
  QueueBound = 3
  Faults = {}
SPECIFICATION FairSpec
INVARIANT IInv
INVARIANT NothingLost
INVARIANT OwnBytesLast
INVARIANT Reproducible
PROPERTY PublishedStays
PROPERTY EventuallyDone

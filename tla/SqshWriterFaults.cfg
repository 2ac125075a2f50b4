CONSTANTS
  Byte = {0, 1}
  BlockSize = 3
  Deflate <- MCDeflate
  Inflate <- MCInflate
  Checksum <- MCChecksum
  Checksums = {0, 1, 2, 3}
  Inputs <- FewArchives
  Modes <- AllModes
  QueueBound = 3
  Faults = {"archive", "compress", "write"}
SPECIFICATION FairSpec
INVARIANT ImageInv
INVARIANT FragmentNumbering
INVARIANT AwaitedIsPending
INVARIANT Reproducible
PROPERTY PublishedStays
PROPERTY EndsOrWaitsInVain
CHECK_DEADLOCK FALSE

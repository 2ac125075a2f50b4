CONSTANTS
  Byte = {0, 1}
  BlockSize = 4
  Deflate <- MCDeflate
  Inflate <- MCInflate
  Open <- MCOpen
  Fragments <- MCFragments
  Ids <- MCIds
  EntrySize <- MCEntrySize
  IndexSize = 2
  SuperSize = 3
  PadSize = 8
  Starts <- MCStarts
SPECIFICATION Spec
INVARIANT IInv
INVARIANT TablesReadable
INVARIANT NothingOverlaps

CONSTANTS
  Byte = {0, 1}
  BlockSize = 4
  Deflate <- MCDeflate
  Inflate <- MCInflate
  Records <- MCRecords
  MaxPuts = 5
SPECIFICATION FairSpec
INVARIANT IInv
INVARIANT AddressesResolve
INVARIANT ChunksAreBytes
INVARIANT AddressIsPlace
PROPERTY PutReturns

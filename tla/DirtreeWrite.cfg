CONSTANTS
  Names <- MCNames
  Empty = ""
  Paths <- MCPaths
  Metas <- MCMetas
  DefaultMeta <- MCDefaultMeta
  Archives <- MCArchives
  Strip = 0
  Data <- MCData
  NameRank <- MCNameRank
  NameSize <- MCNameSize
  MaxName = 4
  Word = 8
  MetaBlockSize = 6
  BlockAt <- MCBlockAt
  HeaderLen = 2
  EntryLen = 1
  InodeLen <- MCInodeLen
  ExtraLen <- MCExtraLen
SPECIFICATION Spec
INVARIANT TypeOK
INVARIANT EntriesResolve
INVARIANT OwnersFound
INVARIANT ImageIsTree
PROPERTY ProgramEnds

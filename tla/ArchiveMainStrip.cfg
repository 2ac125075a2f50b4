CONSTANTS
  Names = {"", "a", "b", "c", "r"}
  Empty = ""
  Paths <- MCPaths
  Metas = {0, 1, 2, 3, 4, 5, 6, 7, 8, 9, 10, 11, 12}
  DefaultMeta = 0
  Archives <- MCArchives
  Strip = 1
  Data = {1, 2, 3, 4, 5, 6, 7, 8, 9, 10, 11, 12}
SPECIFICATION MainSpec
INVARIANT StripsDirectories

CONSTANTS
  Files <- MCFiles
  LaterFiles <- MCLaterFiles
  Names = {1, 2, 3}
  Number <- MCNumber
  Dirs <- MCDirs
  NodeSets <- MCNodeSets
  Guesses = {4, 5}
  MaxPorts = 3
  MaxChanges = 1
  Ids = {3, 11, 12, 130, 258, 400}
  Buffers = {0, 1, 2, 3, 4, 12, 13, 600}
  SizeT = 1000000
SPECIFICATION FairSpec
INVARIANTS ConfigAsDocumented ListIsComplete OwnNode IdIsWhole
PROPERTY CallsReturn

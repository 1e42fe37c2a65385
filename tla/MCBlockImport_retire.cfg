\* Whether bootstrap.dat is renamed only after every record in it was loaded.
CONSTANTS
  MessageStart <- MCMessageStart
  BlockBody <- MCBlockBody
  Chunks <- MCChunks
  BufSize = 5
  ReadFloor = 3
  SizeBytes = 1
  MaxBlockSize = 3
  PosBits = 5
  Blocks = {4, 5, 6}
  Invalid = {5}
  Preloaded = {4}
  MaxChunks = 3
  NoRecord = NoRecord
  MaxStarts = 1
  LoadBlockFiles <- MCNoLoadBlockFiles
SPECIFICATION Spec

INVARIANT BootstrapRetiredOnlyWhenImported

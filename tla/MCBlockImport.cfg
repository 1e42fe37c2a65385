\* Files of up to four pieces; nPos wide enough for any of them.
CONSTANTS
  MessageStart <- MCMessageStart
  BlockBody <- MCBlockBody
  Chunks <- MCChunks
  BufSize = 5
  ReadFloor = 3
  SizeBytes = 1
  MaxBlockSize = 3
  PosBits = 5
  Blocks = {4, 5, 6}
  Invalid = {5}
  Preloaded = {4}
  MaxChunks = 4
  NoRecord = NoRecord
  MaxStarts = 2
  LoadBlockFiles <- MCLoadBlockFiles
SPECIFICATION Spec
INVARIANT TypeOK
INVARIANT ImportComplete
PROPERTY ImportTerminates ImportRefinesSpec

SPECIFICATION HexSpec
CONSTANTS
  NumBlocks = 2
  BlockSize = 3
  SecuritySize = 1
  QueueSize = 5
  Unreadable = Unreadable
  Lines <- MCLines
  MaxLines = 7
INVARIANTS
  HexTypeOK
  ImageIsOfFile
  EndMeansWhole
  GoodFileAccepted
PROPERTY
  LoadIsOpen

SPECIFICATION DriverSpec
CONSTANTS
  Size = 2
  Bytes = {0, 1}
  MaxTransfer = 3
INVARIANTS
  DriverTypeOK
  NoLostWakeup
  TransmitterArmed
PROPERTIES
  QueuesAreFifo
  WriteReturns

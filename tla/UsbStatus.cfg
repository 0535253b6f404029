SPECIFICATION FairSpec
CONSTANTS
  Models = {"FTDI"}
  BaudRate = 460800
  Depth = 2
  MaxTransfer = 2
  MaxOpens = 2
  MaxIn = 2
  MaxOut = 3
CHECK_DEADLOCK FALSE
PROPERTY ReadsGoOn

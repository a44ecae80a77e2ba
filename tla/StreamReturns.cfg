SPECIFICATION StreamFairSpec
CONSTANTS
  p1 = p1
  p2 = p2
  f1 = f1
  f2 = f2
  f3 = f3
  f4 = f4
  y1 = y1
  y2 = y2
  Message = {f1, f2, y1}
  TypeOf <- Types
  PacketSize <- Sizes
  TimeOf <- NoTimes
  m_iMaxDataSize = 8
  MaxTimeSize = 8
  IntMax = 2047
  MaxEpoch = 1
  ConvergeCount = 0
CHECK_DEADLOCK FALSE
PROPERTY
  PlayerReturns

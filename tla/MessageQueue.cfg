SPECIFICATION FairSpec
CONSTANTS
  p1 = p1
  p2 = p2
  p3 = p3
  p4 = p4
  o1 = o1
  Message = {p1, p2, p3, p4, o1}
  TypeOf <- Types
  PacketSize <- Sizes
  TimeOf <- Times
  DemuxOrder <- Reading
  m_iMaxDataSize = 128
  MaxTimeSize = 8
  IntMax = 2047
INVARIANTS
  LevelsExact
  NoLostWakeup
  DeliveryOrder
PROPERTY
  AbortEndsGet

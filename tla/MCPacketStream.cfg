CONSTANTS
  None = None
  Packet <- MCPacket
  Chunk = {3}
  WrongByte = {0, 3, 99, 255}
  WrongAt = {1, 2, 3, 4, 5, 6}
  MaxPackets = 2
SPECIFICATION Spec
CHECK_DEADLOCK FALSE
INVARIANTS TypeOK InOrder NeedExact DecodesWhatIsEncoded AllReceived

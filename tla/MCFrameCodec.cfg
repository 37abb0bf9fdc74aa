\* A frame that was sent or received is the end of a behaviour.
SPECIFICATION CodecSpec
CONSTANTS
  Bytes <- SomeBytes
  FrameNrs <- SomeFrameNrs
  MaxPayload = 3
INVARIANTS
  UnreadIsUntouched
  OneEnd
  ChecksumCloses
  SentIsStuffed
  ReceiveInverts
CHECK_DEADLOCK FALSE

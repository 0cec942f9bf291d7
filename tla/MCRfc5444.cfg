CONSTANTS
  AddrLen = 8
  MsgType = 10
  Originator <- MCOriginator
  HopLimit = 2
  Prefix <- MCPrefix
  Required <- MCRequired
  MessageTlv <- MCMessageTlv
  AddressTlv <- MCAddressTlv
  HasPktSeqno = TRUE
  PacketTlvs <- MCPacketTlvs
  PacketSize = 88
  MsgSize = 46
  AddrTlvSize = 3
  Consumers <- MCConsumers
  Verdict <- MCVerdict
  Cut = {0, 1, 6, 12, 30, 45}
  MaxMessages = 1
  MaxAddresses = 3
  MaxItems = 4
SPECIFICATION Spec
INVARIANTS ReassembledAsAsked PacketsFit ForwardedIntact OnlyWholeMessages ConsumerSeesItsTlvs DropsReachTheLater
CHECK_DEADLOCK FALSE

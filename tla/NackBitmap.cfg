CONSTANTS
  RTP_SEQ_MOD = 64
  MAX_DROPOUT = 8
  MAX_MISORDER = 3
  NACK_RETRY_MAX = 0
  NACK_LIST_MAX = 5
  BITMAP_LEN = 16
  first_ = 10
  MaxPackets = 5
  PerTick = 3
  MaxLate = 1
SPECIFICATION Spec
INVARIANT NackAsksForTheList

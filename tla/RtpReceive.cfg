CONSTANTS
  RTP_SEQ_MOD = 18
  MAX_DROPOUT = 3
  MAX_MISORDER = 2
  NACK_RETRY_MAX = 1
  NACK_LIST_MAX = 1
  BITMAP_LEN = 2
  first_ = 15
  MaxPackets = 15
  PerTick = 2
  MaxLate = 2
SPECIFICATION FairSpec
INVARIANTS NackListIsExact HighestIsExact
PROPERTY ListDrains

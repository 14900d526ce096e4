CONSTANTS
  RTP_SEQ_MOD = 7
  RTP_BUFFER_MAX = 3
  MaxNumber = 15
SPECIFICATION SendSpec
INVARIANTS  FirstIsBuffered

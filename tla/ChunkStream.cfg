CONSTANTS
  Csids = {c1, c2}
  LongCsids = {c2}
  CHUNK_DEF_SIZE = 2
  g_config_chunk_size = 3
  PeerSizes = {1}
  Lengths = {1, 2, 3}
  Deltas = {1, 2}
  ExtLimit = 2
  EXT_TS_LEN = 2
  TsWrap = 3
  MaxMessages = 3
  MaxWire = 0
SPECIFICATION Spec
INVARIANTS InSync DataIntact TimestampsExact NoMessageIsStuck

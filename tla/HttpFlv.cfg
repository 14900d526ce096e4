CONSTANTS
  Keys = {"a"}
  Writers = {r1, r2}
  MetadataWriters = {}
  min_gop_ = 1
  GopCountWrap = 8
  try_max_ = 0
  MediaKinds = {"metadata", "audio_hdr", "key", "inter"}
  MaxPackets = 2
SPECIFICATION FairSpec
INVARIANTS RegisteredWriterIsLive ResponseHasSession
PROPERTIES ImplementsLiveStream BrokenPlayerIsFreed AnsweredSessionIsFreed

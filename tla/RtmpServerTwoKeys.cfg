CONSTANTS
  Sessions = {s1, s2}
  Writers = {s1, s2}
  MetadataWriters = {s1, s2}
  Names = {"a", "b"}
  Keys = {"a", "b", ""}
  min_gop_ = 1
  GopCountWrap = 2
  try_max_ = 0
  MediaKinds = {"key"}
  MaxPackets = 1
SPECIFICATION FairSpec
INVARIANTS WriterHasSession PlayerIsRegistered PublisherFlagIsBacked NoOrphanStream
PROPERTIES StalledSessionIsReaped

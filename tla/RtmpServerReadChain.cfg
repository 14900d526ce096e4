CONSTANTS
  Sessions = {s1}
  Writers = {s1}
  MetadataWriters = {s1}
  Names = {"a"}
  Keys = {"a", ""}
  min_gop_ = 1
  GopCountWrap = 8
  try_max_ = 1
  MediaKinds = {"key"}
  MaxPackets = 1
SPECIFICATION Spec
INVARIANT ReadIsOutstanding

CONSTANTS
  Sessions = {s1, s2}
  Writers = {s1, s2}
  MetadataWriters = {s1, s2}
  Names = {"a"}
  Keys = {"a", ""}
  min_gop_ = 1
  GopCountWrap = 8
  try_max_ = 0
  MediaKinds = {"video_hdr", "key", "inter"}
  MaxPackets = 3
SYMMETRY SessionSymmetry
SPECIFICATION Spec
INVARIANTS RelayIsSuffix HeadersAreCurrent StartsAtKeyFrame
PROPERTY NoBareFrame

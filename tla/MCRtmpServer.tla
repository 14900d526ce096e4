---------------------------- MODULE MCRtmpServer ----------------------------
(* Instances of RtmpServer for TLC. *)
EXTENDS RtmpServer, TLC

SessionSymmetry == Permutations(Sessions)
=============================================================================

-------------------------- MODULE MCWebrtcSession ---------------------------
EXTENDS WebrtcSession, TLC

CONSTANTS p1, p2, a1, a2

(* The second peer changes its address, as one that changes networks does. *)
TwoPeers == (p1 :> {a1}) @@ (p2 :> {a1, a2})
=============================================================================

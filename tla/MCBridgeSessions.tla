-------------------------- MODULE MCBridgeSessions --------------------------
(* Instances of BridgeSessions for TLC.                                    *)
EXTENDS BridgeSessions, TLC

Symmetry == Permutations(Conns)
=============================================================================

---------------------------- MODULE MCBridgeHealth ----------------------------
(* One camera. *)
EXTENDS BridgeHealth, TLC

CONSTANTS a, a1, p1

MCKeyOf  == a1 :> a
MCAddrOf == a1 :> p1

MCRegistries == {{a1}}
=============================================================================

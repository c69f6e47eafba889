--------------------------- MODULE MCSnapshotCache ---------------------------
(* Two cameras, a warmed one and one people ask for, which a reload        *)
(* removes and another brings back.                                        *)
EXTENDS SnapshotCache, TLC

CONSTANTS a, b, r1, r2

MCAsks  == r1 :> b @@ r2 :> b
MCLists == {[names |-> {a, b}, warm |-> {b}], [names |-> {a}, warm |-> {}]}
=============================================================================

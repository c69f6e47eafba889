---------------------------- MODULE MCSupervision ----------------------------
(* Two cameras, a and c; a2 is a with new credentials on the same address. *)
(* A reload keeps c and removes or changes a.                              *)
EXTENDS Supervision, TLC

CONSTANTS a, c, a1, a2, c1, p1, p2

MCKeyOf  == a1 :> a @@ a2 :> a @@ c1 :> c
MCAddrOf == a1 :> p1 @@ a2 :> p1 @@ c1 :> p2

MCInitial    == {a1, c1}
MCRegistries == {{c1}, {a2, c1}}
=============================================================================

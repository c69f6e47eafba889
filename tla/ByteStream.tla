----------------------------- MODULE ByteStream -----------------------------
(***************************************************************************)
(* What a session promises in one direction: a stream of bytes.  What is   *)
(* given at one end comes out at the other in its order, without a gap and *)
(* in whatever pieces, never before it was given and never taken back.     *)
(***************************************************************************)
EXTENDS Integers, Sequences

CONSTANT Message    \* all there is to give

VARIABLES
    given,          \* of the message, at the one end ...
    delivered       \* ... and at the other

vars == <<given, delivered>>

Init == given = <<>> /\ delivered = <<>>

(* More of whole than part is. *)
Longer(part, whole) == {SubSeq(whole, 1, n) : n \in Len(part) + 1..Len(whole)}

Give ==
    /\ given' \in Longer(given, Message)
    /\ UNCHANGED delivered

Deliver ==
    /\ delivered' \in Longer(delivered, given)
    /\ UNCHANGED given

Next == Give \/ Deliver

Spec == Init /\ [][Next]_vars
=============================================================================

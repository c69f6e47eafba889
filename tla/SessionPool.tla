----------------------------- MODULE SessionPool -----------------------------
(***************************************************************************)
(* What a bridge promises the clients of one camera, whatever happens to   *)
(* their dials: a bounded pool that turns a client away only when it is    *)
(* full, lets each client in at most once, and shuts only when it is empty *)
(* and then stays empty.  MaxSessions = 0 stands for an unbounded pool.    *)
(***************************************************************************)
EXTENDS Integers, FiniteSets

CONSTANTS Clients, MaxSessions

VARIABLES
    phase,   \* outside, inside or gone
    shut     \* Serve has returned

vars == <<phase, shut>>

Inside == {c \in Clients : phase[c] = "inside"}
Full   == MaxSessions # 0 /\ Cardinality(Inside) >= MaxSessions

Init ==
    /\ phase = [c \in Clients |-> "outside"]
    /\ shut = FALSE

Enter(c) ==
    /\ ~shut /\ phase[c] = "outside" /\ ~Full
    /\ phase' = [phase EXCEPT ![c] = "inside"]
    /\ UNCHANGED shut

TurnAway(c) ==
    /\ ~shut /\ phase[c] = "outside" /\ Full
    /\ phase' = [phase EXCEPT ![c] = "gone"]
    /\ UNCHANGED shut

Leave(c) ==
    /\ phase[c] = "inside"
    /\ phase' = [phase EXCEPT ![c] = "gone"]
    /\ UNCHANGED shut

Shut ==
    /\ ~shut /\ Inside = {}
    /\ shut' = TRUE
    /\ UNCHANGED phase

Next == (\E c \in Clients : Enter(c) \/ TurnAway(c) \/ Leave(c)) \/ Shut

Spec == Init /\ [][Next]_vars

=============================================================================

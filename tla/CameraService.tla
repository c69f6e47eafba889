---------------------------- MODULE CameraService ----------------------------
(***************************************************************************)
(* What the supervisor promises the owner of the cameras: every camera of  *)
(* the registry is looked after, by one supervisor, from the moment it is  *)
(* taken on until it leaves the registry or the service closes, whatever   *)
(* happens to its bridge in between.  A change of the registry ends only   *)
(* when every camera is looked after but those that could not be taken on. *)
(***************************************************************************)
CONSTANTS Cameras, NameOf, Registries, Initial

VARIABLES
    wanted,     \* the registry that is in force, or that is being taken over
    failed,     \* cameras of it that could not be taken on
    tended,     \* cameras that are looked after
    changing,   \* the service is on the way to its registry
    closing     \* it is told to stop, or could not start

vars == <<wanted, failed, tended, changing, closing>>

Init ==
    /\ wanted = Initial /\ failed = {} /\ tended = {}
    /\ changing = TRUE /\ closing = FALSE

(* The old credentials of a camera are given up before the new are used. *)
TakeOn(d) ==
    /\ changing
    /\ d \in wanted \ (tended \cup failed)
    /\ \A e \in tended : NameOf[e] # NameOf[d]
    /\ tended' = tended \cup {d}
    /\ UNCHANGED <<wanted, failed, changing, closing>>

CannotTakeOn(d) ==
    /\ changing
    /\ d \in wanted \ (tended \cup failed)
    /\ failed' = failed \cup {d}
    /\ UNCHANGED <<wanted, tended, changing, closing>>

GiveUp(d) ==
    /\ d \in tended
    /\ closing \/ d \notin wanted
    /\ tended' = tended \ {d}
    /\ UNCHANGED <<wanted, failed, changing, closing>>

Change(reg) ==
    /\ ~changing
    /\ wanted' = reg /\ failed' = {} /\ changing' = TRUE
    /\ UNCHANGED <<tended, closing>>

Changed ==
    /\ changing
    /\ closing \/ tended = wanted \ failed
    /\ changing' = FALSE
    /\ UNCHANGED <<wanted, failed, tended, closing>>

Close ==
    /\ ~closing
    /\ closing' = TRUE
    /\ UNCHANGED <<wanted, failed, tended, changing>>

(* The start is abandoned. *)
Abandon ==
    /\ changing
    /\ changing' = FALSE /\ closing' = TRUE
    /\ UNCHANGED <<wanted, failed, tended>>

Next ==
    \/ \E d \in Cameras : TakeOn(d) \/ CannotTakeOn(d) \/ GiveUp(d)
    \/ \E reg \in Registries : Change(reg)
    \/ Changed \/ Close \/ Abandon

Spec == Init /\ [][Next]_vars
=============================================================================

------------------------------- MODULE Setup -------------------------------
(* cmd/vm65-setup up to the list of cameras: a run restores the account    *)
(* and, when that needs a person, serves the pairing page until a code has *)
(* been verified, and restores again.  Runs follow one another and may be  *)
(* killed anywhere; the state file is all that outlives them.              *)
EXTENDS AccountPairing

CONSTANT Modes      \* the flags of a run that may occur

ASSUME ModesAssumption ==
    Modes \subseteq [requestCode : BOOLEAN, otpCode : BOOLEAN, pairUI : BOOLEAN]

VARIABLES
    phase,      \* "off", "restoring", "page" or "again"
    pairUI      \* -pair-ui is given

vars == <<phase, pairUI, accountVars>>

TypeOK ==
    /\ phase \in {"off", "restoring", "page", "again"}
    /\ pairUI \in BOOLEAN
    /\ AccountTypeOK

Init == phase = "off" /\ pairUI = FALSE /\ AccountInit

(* main, run *)
Start ==
    /\ phase = "off"
    /\ \E mode \in Modes :
          /\ auto' = mode.requestCode
          /\ otp' = mode.otpCode
          /\ pairUI' = mode.pairUI
    /\ phase' = "restoring" /\ returned' = "none" /\ verified' = FALSE
    /\ UNCHANGED <<disk, heldVars, old, serverVars, misread>>

(* The process ends with whatever its handlers had under way. *)
Ends ==
    /\ phase' = "off"
    /\ Hold("none", "free", Empty) /\ misread' = {}
    /\ UNCHANGED <<pairUI, disk, auto, otp, returned, verified, old, serverVars>>

(* restoreCameras *)
Restores ==
    /\ phase \in {"restoring", "again"} /\ returned = "none"
    /\ Restore
    /\ UNCHANGED <<phase, pairUI>>

(* loadCameras: only the first attempt leads to the page. *)
NeedsPage == phase = "restoring" /\ returned = "required" /\ pairUI

OpenPage ==
    /\ NeedsPage
    /\ phase' = "page" /\ returned' = "none"
    /\ UNCHANGED <<pairUI, disk, heldVars, auto, otp, verified, old, serverVars, misread>>

Return ==
    /\ phase \in {"restoring", "again"} /\ returned # "none" /\ ~NeedsPage
    /\ Ends

(* Two people, or two tabs, may be at it; a handler that waits for the     *)
(* provider goes on while the run restores again.                          *)
HandleCode ==
    /\ phase \in {"page", "again"}
    /\ \E email \in Emails : RequestCode(email)
    /\ UNCHANGED <<phase, pairUI>>

HandleVerify ==
    /\ phase \in {"page", "again"}
    /\ SubmitCode
    /\ UNCHANGED <<phase, pairUI>>

(* OnPaired *)
Paired ==
    /\ phase = "page" /\ verified
    /\ phase' = "again"
    /\ UNCHANGED <<pairUI, accountVars>>

(* A signal, a crash, the end of the container. *)
Killed == phase # "off" /\ Ends

Next ==
    \/ Start \/ Restores \/ OpenPage \/ Return
    \/ HandleCode \/ HandleVerify \/ Paired \/ Killed
    \/ ProviderStep /\ UNCHANGED <<phase, pairUI>>
    \/ \E c \in Codes : Age(c) /\ UNCHANGED <<phase, pairUI>>
    \/ \E s \in Sessions, token \in Tokens :
          ServerForgets(s, token) /\ UNCHANGED <<phase, pairUI>>

Spec == Init /\ [][Next]_vars

---------------------------------------------------------------------------
(* A session is the account: losing one that still works costs its owner a *)
(* new code by email.  The state file gives a session up only for a new    *)
(* one, or when the account server has answered each of its tokens with a  *)
(* rejection, or with what validateSessionResponse reads as one: whatever  *)
(* is lost, late or unintelligible otherwise, and wherever a run is killed, *)
(* costs no session (Devices: "Only an explicit rejection says anything    *)
(* about this token"; restore: "The stored session is gone").              *)
SessionKept ==
    [][ /\ disk.session # None
        /\ disk'.session = None
        => accepted[disk.session] \subseteq misread ]_vars

(* The page is up only over an account without a session: what it shows as *)
(* paired (PairingStatus.Paired) has been verified while it was up.        *)
PageMeansUnpaired == phase = "page" /\ ~verified => ~Status.paired

---------------------------------------------------------------------------
(* A person who keeps asking for codes and entering them, a mail and an    *)
(* account server that answer now and then, a disk that is not always      *)
(* full.  Every exchange has a deadline (writeRead), and Go's mutex lets   *)
(* everybody in who waits for it.                                          *)
Fairness ==
    /\ WF_vars(NoAnswer /\ UNCHANGED <<phase, pairUI>>)
    /\ SF_vars(HandleCode) /\ SF_vars(HandleVerify)
    /\ SF_vars(CodeSent /\ UNCHANGED <<phase, pairUI>>)
    /\ SF_vars(LoginArrives /\ UNCHANGED <<phase, pairUI>>)
    /\ SF_vars(SessionSaved /\ UNCHANGED <<phase, pairUI>>)
    /\ SF_vars(StateSaved /\ UNCHANGED <<phase, pairUI>>)
    /\ WF_vars(Paired)

FairSpec == Spec /\ Fairness

(* The page is never for ever in front of the cameras: whatever was lost   *)
(* before - a code that aged, a session that the server issued and the run *)
(* never heard of - the person at the page gets past it (SubmitCode,       *)
(* RequestCode: "it always requests").                                     *)
PairingCompletes == []<>(phase # "page")
=============================================================================

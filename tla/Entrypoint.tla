----------------------------- MODULE Entrypoint -----------------------------
(* run.sh: the loop that waits for the bridge, the media server and the    *)
(* refresh timer, its signals, and the two processes as far as they read   *)
(* what the setup command wrote.  When it ends, the Supervisor starts it   *)
(* again over the same files.                                              *)
EXTENDS CameraRegistry

CONSTANT FailuresMax    \* MEDIA_FAILURES_MAX

ASSUME FailuresAssumption == FailuresMax \in Nat

VARIABLES
    sh,         \* where run.sh is
    requested,  \* REFRESH_REQUESTED, or a USR1 whose trap has yet to run
    hash,       \* GO2RTC_CFG_HASH
    failures,   \* MEDIA_FAILURES
    bridge,     \* "off", "starting" (without a handler for SIGHUP) or "up"
    serving,    \* the registry the bridge has loaded
    hup,        \* a SIGHUP waits for watchForReload
    media,      \* the media server: "off" or "up"
    streams,    \* the configuration it has loaded
    applied     \* the last refresh was complete

shVars == <<sh, requested, hash, failures, applied>>
bridgeVars == <<bridge, serving, hup>>
mediaVars == <<media, streams>>
vars == <<setupVars, shVars, bridgeVars, mediaVars>>

TypeOK ==
    /\ RegistryTypeOK
    /\ sh \in {"off", "first", "arm", "wait", "backoff", "refresh", "apply"}
    /\ requested \in BOOLEAN /\ applied \in BOOLEAN /\ hup \in BOOLEAN
    /\ failures \in 0..FailuresMax
    /\ bridge \in {"off", "starting", "up"} /\ media \in {"off", "up"}
    /\ hash \in Files /\ serving \in Files /\ streams \in Files

Init ==
    /\ RegistryInit
    /\ sh = "off" /\ requested = FALSE /\ hash = NoCameras /\ failures = 0
    /\ bridge = "off" /\ serving = NoCameras /\ hup = FALSE
    /\ media = "off" /\ streams = NoCameras /\ applied = FALSE

(* exit, with shutdown_children; also the container's end. *)
Exit ==
    /\ sh' = "off" /\ requested' = FALSE /\ hash' = NoCameras /\ failures' = 0
    /\ bridge' = "off" /\ serving' = NoCameras /\ hup' = FALSE
    /\ media' = "off" /\ streams' = NoCameras /\ applied' = FALSE
    /\ SetupOver
    /\ UNCHANGED <<registry, config>>

Terminated == sh # "off" /\ Exit

(* load_credentials true *)
Begin ==
    /\ sh = "off" /\ SetupStarts
    /\ sh' = "first"
    /\ UNCHANGED <<requested, hash, failures, applied, bridgeVars, mediaVars>>

(* The ports the bridge listens on read as busy. *)
Busy == {serving[c].port : c \in DOMAIN serving}

SetupStep ==
    /\ CamerasListed \/ WriteRegistry \/ \E c \in Cameras : Place(c, Busy)
    /\ UNCHANGED <<shVars, bridgeVars, mediaVars>>

StartMedia(file) == media' = "up" /\ streams' = file

(* The bridge's reading of the registry; one without a camera would be an  *)
(* error, but the setup command writes none.                               *)
LoadCredentialSet == registry # NoCameras /\ serving' = registry

(* The first setup is done: hash, bridge, media server. *)
Launch ==
    /\ sh = "first" /\ WriteConfig
    /\ sh' = "arm" /\ hash' = Built /\ applied' = TRUE
    /\ bridge' = "starting" /\ LoadCredentialSet /\ UNCHANGED hup
    /\ StartMedia(Built)
    /\ UNCHANGED <<requested, failures>>

FirstFails == sh = "first" /\ setup # "off" /\ Exit

(* sleep &; REFRESH_PID=$! *)
Arm ==
    /\ sh = "arm"
    /\ sh' = "wait"
    /\ UNCHANGED <<setupVars, requested, hash, failures, applied, bridgeVars, mediaVars>>

(* Mutant: the note stays. *)
RequestKept == requested

(* REFRESH_REQUESTED=false *)
RequestTaken == FALSE

(* The trap of USR1 cuts only the wait short: while anything else runs, it *)
(* leaves a note.                                                          *)
RefreshRequest ==
    \/ /\ sh = "wait" /\ SetupStarts
       /\ sh' = "refresh" /\ requested' = RequestTaken
    \/ /\ sh # "wait"
       /\ requested' = TRUE
       /\ UNCHANGED <<sh, setupVars>>

(* The bridge signals its parent, which is run.sh. *)
RefreshCredentials == sh # "off" /\ RefreshRequest

(* The refresh button of the page that the bridge serves. *)
HandleCredentialRefresh ==
    /\ bridge # "off" /\ RefreshCredentials
    /\ UNCHANGED <<hash, failures, applied, bridgeVars, mediaVars>>

(* go2rtc, asked over its API, starts itself again in the same process, so *)
(* that run.sh does not notice, and reads whatever configuration is there. *)
MediaRestarts == media = "up" /\ StartMedia(config)

(* The page's button for it. *)
HandleMediaRestart ==
    /\ bridge # "off" /\ MediaRestarts
    /\ UNCHANGED <<setupVars, shVars, bridgeVars>>

TimerFires ==
    /\ sh = "wait" /\ SetupStarts
    /\ sh' = "refresh" /\ requested' = RequestTaken
    /\ UNCHANGED <<hash, failures, applied, bridgeVars, mediaVars>>

(* wait -n reports the bridge ... *)
BridgeGone == sh = "wait" /\ bridge = "off" /\ Exit

(* ... or the media server, which may have run for a minute. *)
MediaGone ==
    /\ sh = "wait" /\ media = "off"
    /\ \E past \in {0, failures} :
          \/ past = FailuresMax /\ Exit
          \/ /\ past < FailuresMax
             /\ failures' = past + 1 /\ sh' = "backoff"
             /\ UNCHANGED <<setupVars, requested, hash, applied, bridgeVars, mediaVars>>

RestartMedia ==
    /\ sh = "backoff"
    /\ StartMedia(config)
    /\ sh' = "arm"
    /\ UNCHANGED <<setupVars, requested, hash, failures, applied, bridgeVars>>

Refreshed ==
    /\ sh = "refresh" /\ WriteConfig
    /\ sh' = "apply"
    /\ UNCHANGED <<requested, hash, failures, applied, bridgeVars, mediaVars>>

RefreshFails ==
    /\ sh = "refresh" /\ SetupFails
    /\ sh' = "arm" /\ applied' = FALSE
    /\ UNCHANGED <<requested, hash, failures, bridgeVars, mediaVars>>

(* SIGHUP to a bridge that has no handler for it yet ends it. *)
SendHup ==
    IF bridge = "starting"
    THEN bridge' = "off" /\ serving' = NoCameras /\ UNCHANGED hup
    ELSE hup' = (bridge = "up") /\ UNCHANGED <<bridge, serving>>

(* Mutant: only a change of the cameras restarts the media server. *)
CamerasDiffer == DOMAIN config # DOMAIN hash

ConfigChanged == config # hash

ApplyCredentials ==
    /\ sh = "apply"
    /\ SendHup
    /\ IF ConfigChanged THEN hash' = config /\ StartMedia(config)
       ELSE UNCHANGED <<hash, mediaVars>>
    /\ sh' = "arm" /\ applied' = TRUE
    /\ UNCHANGED <<setupVars, requested, failures>>

(* The bridge: run up to signal.Notify, watchForReload, and its end. *)
BridgeUp ==
    /\ bridge = "starting"
    /\ bridge' = "up"
    /\ UNCHANGED <<setupVars, shVars, serving, hup, mediaVars>>

BridgeReloads ==
    /\ bridge = "up" /\ hup
    /\ hup' = FALSE /\ LoadCredentialSet
    /\ UNCHANGED <<setupVars, shVars, bridge, mediaVars>>

BridgeDies ==
    /\ bridge # "off"
    /\ bridge' = "off" /\ serving' = NoCameras /\ hup' = FALSE
    /\ UNCHANGED <<setupVars, shVars, mediaVars>>

MediaDies ==
    /\ media = "up"
    /\ media' = "off" /\ streams' = NoCameras
    /\ UNCHANGED <<setupVars, shVars, bridgeVars>>

Next ==
    \/ Begin \/ SetupStep \/ Launch \/ FirstFails \/ Terminated
    \/ Arm \/ HandleCredentialRefresh \/ TimerFires \/ BridgeGone \/ MediaGone \/ RestartMedia
    \/ Refreshed \/ RefreshFails \/ ApplyCredentials
    \/ BridgeUp \/ BridgeReloads \/ BridgeDies \/ MediaDies \/ HandleMediaRestart

Spec == Init /\ [][Next]_vars

---------------------------------------------------------------------------
(* Once a complete refresh has been applied, and the bridge has taken its  *)
(* signal, the bridge listens where the media server looks for it, for the *)
(* same cameras with the same tokens (apply_credentials).                  *)
InStep ==
    applied /\ sh \in {"arm", "wait", "backoff"} /\ bridge # "off" /\ ~hup
        => /\ serving = registry
           /\ media = "up" => streams = registry

---------------------------------------------------------------------------
(* Commands end and timers elapse; a refresh, which waits for no person,   *)
(* has a deadline for every exchange.                                      *)
RefreshStep == sh = "refresh" /\ (SetupStep \/ Refreshed \/ RefreshFails)

Fairness ==
    /\ WF_vars(RefreshStep) /\ WF_vars(Arm) /\ WF_vars(TimerFires)
    /\ WF_vars(BridgeGone) /\ WF_vars(MediaGone) /\ WF_vars(RestartMedia)
    /\ WF_vars(ApplyCredentials)

FairSpec == Spec /\ Fairness

(* A press of the refresh button that came at a bad moment is served when  *)
(* the timer elapses, unless the media server keeps failing before it:     *)
(* every restart of it starts a new timer (run.sh's loop).                 *)
RequestServed == []<>~requested \/ []<>(media = "off")
=============================================================================

-------------------------- MODULE EntrypointProofs --------------------------
(***************************************************************************)
(* Theorems about CameraRegistry and Entrypoint, for every set of cameras, *)
(* names, tokens and ports, and every way the two servers may fail.        *)
(***************************************************************************)
EXTENDS Entrypoint, FiniteSetTheorems, WellFoundedInduction, TLAPS

USE CamerasAssumption, PortsAssumption, NamesAssumption, FailuresAssumption

---------------------------------------------------------------------------
(* What Build has placed so far is free of conflicts and agrees with what  *)
(* the registry file recorded; what is written is what it has placed.      *)
Placement ==
    /\ \A c, d \in DOMAIN ports : c # d => ports[c] # ports[d]
    /\ \A c, d \in DOMAIN names : c # d => names[c] # names[d]
    /\ \A c \in DOMAIN ports \cap DOMAIN registry : ports[c] = registry[c].port
    /\ DOMAIN names \subseteq DOMAIN ports
    /\ setup \in {"placing", "registry"} => listed \cap DOMAIN registry \subseteq DOMAIN ports
    /\ setup \in {"registry", "config"} => DOMAIN ports = listed /\ DOMAIN names = listed
    /\ setup = "config" => registry = Built

RegistryInv == RegistryTypeOK /\ Placement /\ DistinctPlaces

(* The empty file is one. *)
LEMMA NoCamerasType == NoCameras \in Files /\ DOMAIN NoCameras = {}
<1>1. NoCameras \in [{} -> Entries] /\ {} \in SUBSET Cameras
  BY DEF NoCameras
<1> QED BY <1>1 DEF Files, NoCameras

(* A file maps some cameras to entries. *)
LEMMA FileType ==
    ASSUME NEW f \in Files
    PROVE  /\ DOMAIN f \subseteq Cameras
           /\ \A c \in DOMAIN f : f[c] \in Entries /\ f[c].port \in Ports
BY DEF Files, Entries

(* A finished Build is a file, which has the ports and names it placed.    *)
LEMMA BuiltType ==
    ASSUME RegistryTypeOK, DOMAIN ports = listed, DOMAIN names = listed
    PROVE  /\ Built \in Files /\ DOMAIN Built = listed
           /\ \A c \in listed : Built[c].port = ports[c] /\ Built[c].name = names[c]
<1>1. \A c \in listed : [port |-> ports[c], name |-> names[c], secret |-> secret] \in Entries
  BY DEF RegistryTypeOK, Entries
<1>2. Built \in [listed -> Entries]
  BY <1>1 DEF Built
<1>3. listed \in SUBSET Cameras
  BY DEF RegistryTypeOK
<1> QED BY <1>2, <1>3 DEF Files, Built

(* The end of a run leaves nothing of Build behind. *)
LEMMA OverInv ==
    ASSUME SetupOver, registry' \in Files, config' \in Files, DistinctPlaces', secret \in Secrets
    PROVE  RegistryInv'
<1>1. ports' = NoCameras /\ names' = NoCameras /\ listed' = {} /\ setup' = "off" /\ secret' = secret
  BY DEF SetupOver
<1>2. DOMAIN ports' = {} /\ DOMAIN names' = {}
  BY <1>1, NoCamerasType
<1> QED BY <1>1, <1>2 DEF RegistryInv, RegistryTypeOK, Placement

(* The account's list: recorded addresses are claimed first. *)
LEMMA ListedInv == ASSUME RegistryInv, CamerasListed PROVE RegistryInv'
<1> PICK cams \in DeviceLists, s \in Secrets :
        /\ listed' = cams /\ secret' = s
        /\ ports' = [c \in Recorded(cams) |-> registry[c].port]
        /\ names' = NoCameras
  BY DEF CamerasListed, DeviceLists
<1>1. UNCHANGED <<registry, config>> /\ setup' = "placing"
  BY DEF CamerasListed
<1>2. DOMAIN ports' = cams \cap DOMAIN registry /\ DOMAIN names' = {}
  BY NoCamerasType DEF Recorded
<1>3. \A c \in DOMAIN ports' : ports'[c] = registry[c].port /\ c \in DOMAIN registry
  BY DEF Recorded
<1>4. registry \in Files
  BY DEF RegistryInv, RegistryTypeOK
<1>5. \A c \in DOMAIN ports' : ports'[c] \in Ports
  BY <1>3, <1>4, FileType
<1>6. RegistryTypeOK'
  BY <1>1, <1>2, <1>5 DEF RegistryInv, RegistryTypeOK, DeviceLists
<1>7. \A c, d \in DOMAIN ports' : c # d => ports'[c] # ports'[d]
  BY <1>3 DEF RegistryInv, DistinctPlaces
<1>8. DistinctPlaces'
  BY <1>1 DEF RegistryInv, DistinctPlaces
<1> QED BY <1>1, <1>2, <1>3, <1>6, <1>7, <1>8 DEF RegistryInv, Placement

(* One camera more: its port and its name are new. *)
LEMMA PlaceInv ==
    ASSUME RegistryInv, NEW c, NEW busy, Place(c, busy) PROVE RegistryInv'
<1> USE DEF RegistryInv, RegistryTypeOK
<1>1. /\ setup = "placing" /\ c \in listed \ DOMAIN names
      /\ UNCHANGED <<registry, config, listed, secret>>
      /\ setup' = IF listed = DOMAIN names \cup {c} THEN "registry" ELSE "placing"
  BY DEF Place, Turn
<1>2. /\ DOMAIN ports' = DOMAIN ports \cup {c}
      /\ \A d \in DOMAIN ports : ports'[d] = ports[d]
      /\ c \notin DOMAIN ports =>
            ports'[c] \in Ports /\ \A d \in DOMAIN ports : ports'[c] # ports[d]
  <2>1. CASE c \in DOMAIN ports
    BY <2>1 DEF Place
  <2>2. CASE c \notin DOMAIN ports
    <3> PICK p \in FreePort(c, busy) : ports' = With(ports, c, p)
      BY <2>2 DEF Place
    <3>1. p \in Ports /\ \A d \in DOMAIN ports : p # ports[d]
      BY DEF FreePort, Values
    <3> QED BY <2>2, <3>1 DEF With
  <2> QED BY <2>1, <2>2
<1>3. /\ DOMAIN names' = DOMAIN names \cup {c}
      /\ \A d \in DOMAIN names : names'[d] = names[d] /\ names'[c] # names[d]
      /\ names'[c] \in Seq(Nat)
  <2>1. Cardinality(DOMAIN names) \in Nat
    BY FS_Subset, FS_CardinalityType
  <2> PICK k \in 1..(Cardinality(DOMAIN names) + 1) :
        NewName(c, k) /\ names' = With(names, c, Suffixed(c, k))
    BY DEF Place
  <2>2. Suffixed(c, k) \in Seq(Nat)
    BY <1>1, <2>1 DEF Suffixed
  <2>3. \A d \in DOMAIN names : Suffixed(c, k) # names[d]
    BY DEF NewName, Values
  <2>4. names' = [x \in DOMAIN names \cup {c} |-> IF x = c THEN Suffixed(c, k) ELSE names[x]]
    BY DEF With
  <2> QED BY <1>1, <2>2, <2>3, <2>4
<1>4. RegistryTypeOK'
  <2>1. /\ registry' \in Files /\ config' \in Files /\ listed' \subseteq Cameras
        /\ secret' \in Secrets
        /\ setup' \in {"off", "account", "placing", "registry", "config"}
    BY <1>1
  <2>2. DOMAIN ports' \subseteq listed' /\ \A d \in DOMAIN ports' : ports'[d] \in Ports
    BY <1>1, <1>2
  <2>3. DOMAIN names' \subseteq listed' /\ \A d \in DOMAIN names' : names'[d] \in Seq(Nat)
    BY <1>1, <1>3
  <2> QED BY <2>1, <2>2, <2>3
<1>5. \A d, e \in DOMAIN ports' : d # e => ports'[d] # ports'[e]
  BY <1>2 DEF Placement
<1>6. \A d, e \in DOMAIN names' : d # e => names'[d] # names'[e]
  BY <1>3 DEF Placement
<1>7. \A d \in DOMAIN ports' \cap DOMAIN registry' : ports'[d] = registry'[d].port
  BY <1>1, <1>2 DEF Placement
<1>8. /\ DOMAIN names' \subseteq DOMAIN ports'
      /\ listed' \cap DOMAIN registry' \subseteq DOMAIN ports'
  BY <1>1, <1>2, <1>3 DEF Placement
<1>9. setup' \in {"registry", "config"} => DOMAIN ports' = listed' /\ DOMAIN names' = listed'
  BY <1>1, <1>3, <1>4, <1>8
<1>10. setup' # "config" /\ DistinctPlaces'
  BY <1>1 DEF DistinctPlaces
<1> QED BY <1>4, <1>5, <1>6, <1>7, <1>8, <1>9, <1>10 DEF Placement

(* The registry is replaced by what Build has placed, which kept every     *)
(* address that was recorded.                                              *)
LEMMA WriteInv ==
    ASSUME RegistryInv, WriteRegistry
    PROVE  /\ RegistryInv'
           /\ \A c \in DOMAIN registry \cap DOMAIN registry' :
                 registry'[c].port = registry[c].port
<1>1. DOMAIN ports = listed /\ DOMAIN names = listed /\ setup = "registry"
  BY DEF RegistryInv, Placement, WriteRegistry
<1>2. /\ registry' = Built /\ setup' = "config"
      /\ UNCHANGED <<config, listed, secret, ports, names>>
  BY DEF WriteRegistry, buildVars
<1>3. /\ Built \in Files /\ DOMAIN Built = listed
      /\ \A c \in listed : Built[c].port = ports[c] /\ Built[c].name = names[c]
  BY <1>1, BuiltType DEF RegistryInv
<1>4. Built' = Built
  BY <1>2 DEF Built
<1>5. RegistryTypeOK'
  BY <1>2, <1>3 DEF RegistryInv, RegistryTypeOK
<1>6. DistinctPlaces'
  BY <1>1, <1>2, <1>3 DEF DistinctPlaces, RegistryInv, Placement
<1>7. Placement'
  BY <1>1, <1>2, <1>3, <1>4 DEF RegistryInv, Placement
<1>8. \A c \in DOMAIN registry \cap DOMAIN registry' : registry'[c].port = registry[c].port
  BY <1>1, <1>2, <1>3 DEF RegistryInv, Placement
<1> QED BY <1>5, <1>6, <1>7, <1>8 DEF RegistryInv

(* The last file, and the end without it. *)
LEMMA ConfigInv == ASSUME RegistryInv, WriteConfig PROVE RegistryInv' /\ config' = registry
<1>1. registry = Built /\ registry \in Files /\ secret \in Secrets
  BY DEF RegistryInv, RegistryTypeOK, Placement, WriteConfig
<1>2. SetupOver /\ config' = registry /\ registry' = registry
  BY <1>1 DEF WriteConfig
<1>3. DistinctPlaces'
  BY <1>2 DEF RegistryInv, DistinctPlaces
<1> QED BY <1>1, <1>2, <1>3, OverInv

(* The run ends with the files as they are. *)
LEMMA KeptFilesInv ==
    ASSUME RegistryInv, SetupOver, UNCHANGED <<registry, config>> PROVE RegistryInv'
<1>1. registry' \in Files /\ config' \in Files /\ secret \in Secrets /\ DistinctPlaces'
  BY DEF RegistryInv, RegistryTypeOK, DistinctPlaces
<1> QED BY <1>1, OverInv

(* A run begins. *)
LEMMA StartsInv == ASSUME RegistryInv, SetupStarts PROVE RegistryInv'
<1>1. setup' = "account" /\ UNCHANGED <<registry, config, listed, secret, ports, names>>
  BY DEF SetupStarts, buildVars
<1> QED BY <1>1 DEF RegistryInv, RegistryTypeOK, Placement, DistinctPlaces

(* Nothing of it changes. *)
LEMMA SameInv == ASSUME RegistryInv, UNCHANGED setupVars PROVE RegistryInv'
<1>1. UNCHANGED <<registry, config, setup, listed, secret, ports, names>>
  BY DEF setupVars, buildVars
<1> QED BY <1>1 DEF RegistryInv, RegistryTypeOK, Placement, DistinctPlaces, Built

---------------------------------------------------------------------------
(* What run.sh knows of the files: its hash is that of the configuration   *)
(* except between a complete setup and apply_credentials, and the media    *)
(* server runs on what was hashed, or has read the file since.             *)
Shell ==
    /\ sh \in {"first", "refresh"} <=> setup # "off"
    /\ sh \in {"off", "first"} => bridge = "off" /\ media = "off"
    /\ sh \in {"arm", "wait", "backoff", "refresh"} => hash = config
    /\ sh = "apply" => config = registry
    /\ media = "up" => streams = hash \/ streams = config
    /\ applied /\ sh \in {"arm", "wait", "backoff"} => config = registry
    /\ bridge # "up" => ~hup

Inv == TypeOK /\ RegistryInv /\ Shell /\ InStep

(* Every variable but those of the setup command. *)
RestType ==
    /\ sh \in {"off", "first", "arm", "wait", "backoff", "refresh", "apply"}
    /\ requested \in BOOLEAN /\ applied \in BOOLEAN /\ hup \in BOOLEAN
    /\ failures \in 0..FailuresMax
    /\ bridge \in {"off", "starting", "up"} /\ media \in {"off", "up"}
    /\ hash \in Files /\ serving \in Files /\ streams \in Files

(* The invariant in its parts. *)
LEMMA InvParts ==
    /\ Inv <=> RegistryInv /\ RestType /\ Shell /\ InStep
    /\ Inv' <=> RegistryInv' /\ RestType' /\ Shell' /\ InStep'
BY DEF Inv, TypeOK, RegistryInv, RestType

(* The invariant at the start. *)
LEMMA InitInv == Init => Inv
<1> SUFFICES ASSUME Init PROVE Inv
  OBVIOUS
<1>1. RegistryInv
  <2>1. /\ registry = NoCameras /\ config = NoCameras /\ setup = "off" /\ listed = {}
        /\ secret \in Secrets /\ ports = NoCameras /\ names = NoCameras
    BY DEF Init, RegistryInit
  <2> QED BY <2>1, NoCamerasType DEF RegistryInv, RegistryTypeOK, Placement, DistinctPlaces
<1>2. RestType
  <2>1. requested \in BOOLEAN /\ applied \in BOOLEAN /\ hup \in BOOLEAN
    BY DEF Init
  <2>2. hash \in Files /\ serving \in Files /\ streams \in Files
    BY NoCamerasType DEF Init
  <2> QED BY <2>1, <2>2 DEF Init, RestType
<1>3. Shell
  BY DEF Init, RegistryInit, Shell
<1>4. InStep
  BY DEF Init, InStep
<1> QED BY <1>1, <1>2, <1>3, <1>4, InvParts

(* The end of the add-on. *)
LEMMA ExitInv == ASSUME Inv, Exit PROVE Inv'
<1>1. RegistryInv'
  BY KeptFilesInv DEF Inv, Exit
<1>2. setup' = "off"
  BY DEF Exit, SetupOver
<1>3. RestType'
  <2>1. requested' \in BOOLEAN /\ applied' \in BOOLEAN /\ hup' \in BOOLEAN
    BY DEF Exit
  <2>2. hash' \in Files /\ serving' \in Files /\ streams' \in Files
    BY NoCamerasType DEF Exit
  <2> QED BY <2>1, <2>2 DEF Exit, RestType
<1>4. Shell' /\ InStep'
  BY <1>2 DEF Exit, Shell, InStep
<1> QED BY <1>1, <1>3, <1>4, InvParts

(* The steps of the setup command keep its part of the invariant. *)
LEMMA SetupStepInv ==
    ASSUME RegistryInv, SetupStep
    PROVE  RegistryInv' /\ setup # "off" /\ setup' # "off" /\ UNCHANGED config
<1>1. CASE CamerasListed
  <2>1. setup = "account" /\ setup' = "placing" /\ UNCHANGED config
    BY <1>1 DEF CamerasListed
  <2> QED BY <1>1, <2>1, ListedInv
<1>2. CASE WriteRegistry
  <2>1. setup = "registry" /\ setup' = "config" /\ UNCHANGED config
    BY <1>2 DEF WriteRegistry
  <2> QED BY <1>2, <2>1, WriteInv
<1>3. ASSUME NEW c \in Cameras, Place(c, Busy)
      PROVE  RegistryInv' /\ setup # "off" /\ setup' # "off" /\ UNCHANGED config
  <2>1. setup = "placing" /\ setup' \in {"registry", "placing"} /\ UNCHANGED config
    BY <1>3 DEF Place, Turn
  <2> QED BY <1>3, <2>1, PlaceInv
<1> QED BY <1>1, <1>2, <1>3 DEF SetupStep

(* While a complete refresh is awaited, the registry is what it was.       *)
LEMMA SetupStepRest == ASSUME Inv, SetupStep PROVE Inv'
<1>1. RegistryInv' /\ setup # "off" /\ setup' # "off" /\ UNCHANGED config
  BY InvParts, SetupStepInv
<1>2. UNCHANGED <<sh, requested, hash, failures, applied, bridge, serving, hup, media, streams>>
  BY DEF SetupStep, shVars, bridgeVars, mediaVars
<1>3. sh \in {"first", "refresh"} /\ RestType /\ Shell
  BY <1>1, InvParts DEF Shell
<1>4. RestType'
  BY <1>2, <1>3 DEF RestType
<1>5. Shell'
  BY <1>1, <1>2, <1>3 DEF Shell
<1>6. InStep'
  BY <1>2, <1>3 DEF InStep
<1> QED BY <1>1, <1>4, <1>5, <1>6, InvParts

(* The first setup is complete. *)
LEMMA LaunchInv == ASSUME Inv, Launch PROVE Inv'
<1>1. RegistryInv' /\ config' = registry
  BY InvParts, ConfigInv DEF Launch
<1>2. config' = Built /\ setup' = "off" /\ registry' = registry
  BY DEF Launch, WriteConfig, SetupOver
<1>3. /\ sh' = "arm" /\ hash' = registry /\ applied' = TRUE
      /\ bridge' = "starting" /\ serving' = registry /\ hup' = hup
      /\ media' = "up" /\ streams' = registry
      /\ requested' = requested /\ failures' = failures
  BY <1>1, <1>2 DEF Launch, StartMedia, LoadCredentialSet
<1>4. registry \in Files
  BY InvParts DEF RegistryInv, RegistryTypeOK
<1>5. RestType'
  BY <1>3, <1>4, InvParts DEF RestType
<1>6. ~hup
  BY InvParts DEF Launch, Shell
<1>7. Shell' /\ InStep'
  BY <1>1, <1>2, <1>3, <1>6 DEF Shell, InStep
<1> QED BY <1>1, <1>5, <1>7, InvParts

(* Where run.sh starts the setup command. *)
LEMMA SetupBegins ==
    ASSUME Inv, SetupStarts, UNCHANGED <<hash, failures, applied, bridge, serving, hup, media, streams>>,
           \/ sh = "off" /\ sh' = "first" /\ requested' = requested
           \/ sh = "wait" /\ sh' = "refresh" /\ requested' = RequestTaken
    PROVE  Inv'
<1>1. RegistryInv'
  BY InvParts, StartsInv
<1>2. setup' = "account" /\ UNCHANGED <<registry, config>>
  BY DEF SetupStarts
<1>3. RestType'
  BY InvParts DEF RestType, RequestTaken
<1>4. Shell'
  BY <1>2, InvParts DEF Shell
<1>5. InStep'
  BY DEF InStep
<1> QED BY <1>1, <1>3, <1>4, <1>5, InvParts

(* A refresh that is complete, and one that is not. *)
LEMMA RefreshedInv == ASSUME Inv, Refreshed PROVE Inv'
<1>1. RegistryInv' /\ config' = registry
  BY InvParts, ConfigInv DEF Refreshed
<1>2. setup' = "off" /\ registry' = registry
  BY DEF Refreshed, WriteConfig, SetupOver
<1>3. /\ sh = "refresh" /\ sh' = "apply"
      /\ UNCHANGED <<requested, hash, failures, applied, bridge, serving, hup, media, streams>>
  BY DEF Refreshed, bridgeVars, mediaVars
<1>4. RestType'
  BY <1>3, InvParts DEF RestType
<1>5. Shell' /\ InStep'
  BY <1>1, <1>2, <1>3, InvParts DEF Shell, InStep
<1> QED BY <1>1, <1>4, <1>5, InvParts

LEMMA RefreshFailsInv == ASSUME Inv, RefreshFails PROVE Inv'
<1>1. RegistryInv' /\ setup' = "off" /\ UNCHANGED <<registry, config>>
  BY InvParts, KeptFilesInv DEF RefreshFails, SetupFails, SetupOver
<1>2. /\ sh = "refresh" /\ sh' = "arm" /\ applied' = FALSE
      /\ UNCHANGED <<requested, hash, failures, bridge, serving, hup, media, streams>>
  BY DEF RefreshFails, bridgeVars, mediaVars
<1>3. RestType'
  BY <1>2, InvParts DEF RestType
<1>4. Shell' /\ InStep'
  BY <1>1, <1>2, InvParts DEF Shell, InStep
<1> QED BY <1>1, <1>3, <1>4, InvParts

(* apply_credentials: the bridge is gone or has a signal to take, and the  *)
(* media server runs on what the registry says.                            *)
LEMMA ApplyInv == ASSUME Inv, ApplyCredentials PROVE Inv'
<1>1. /\ UNCHANGED <<registry, config, setup>> /\ UNCHANGED setupVars
      /\ sh = "apply" /\ sh' = "arm" /\ applied' = TRUE
      /\ UNCHANGED <<requested, failures>>
  BY DEF ApplyCredentials, setupVars
<1>2. RegistryInv' /\ RegistryInv
  BY <1>1, InvParts, SameInv
<1>3. /\ bridge' \in {"off", "starting", "up"} /\ serving' \in Files /\ hup' \in BOOLEAN
      /\ bridge' # "up" => ~hup'
      /\ bridge' = "off" \/ hup'
  <2>1. CASE bridge = "starting"
    BY <2>1, NoCamerasType, InvParts DEF ApplyCredentials, SendHup, RestType, Shell
  <2>2. CASE bridge # "starting"
    <3>1. hup' = (bridge = "up") /\ UNCHANGED <<bridge, serving>>
      BY <2>2 DEF ApplyCredentials, SendHup
    <3>2. bridge \in {"off", "up"} /\ serving \in Files
      BY <2>2, InvParts DEF RestType
    <3>3. CASE bridge = "off"
      BY <3>1, <3>2, <3>3
    <3>4. CASE bridge = "up"
      BY <3>1, <3>2, <3>4
    <3> QED BY <3>2, <3>3, <3>4
  <2> QED BY <2>1, <2>2
<1>4. config = registry /\ config \in Files
  BY <1>1, <1>2, InvParts DEF Shell, RegistryInv, RegistryTypeOK
<1>5. /\ hash' = config /\ media' \in {"off", "up"} /\ streams' \in Files
      /\ media' = "up" => streams' = config
  <2>1. CASE config # hash
    BY <1>4, <2>1 DEF ApplyCredentials, ConfigChanged, StartMedia
  <2>2. CASE config = hash
    BY <2>2, InvParts DEF ApplyCredentials, ConfigChanged, mediaVars, RestType, Shell
  <2> QED BY <2>1, <2>2
<1>6. RestType'
  BY <1>1, <1>3, <1>4, <1>5, InvParts DEF RestType
<1>7. setup' = "off"
  BY <1>1, InvParts DEF Shell
<1>8. Shell' /\ InStep'
  BY <1>1, <1>3, <1>4, <1>5, <1>7 DEF Shell, InStep
<1> QED BY <1>2, <1>6, <1>8, InvParts

(* Steps that leave the setup command alone. *)
LEMMA OthersInv ==
    ASSUME Inv, UNCHANGED setupVars, RestType', Shell', InStep' PROVE Inv'
BY InvParts, SameInv

(* run.sh's own turns. *)
LEMMA LoopInv == ASSUME Inv, Arm \/ MediaGone \/ RestartMedia PROVE Inv'
<1>1. CASE Arm
  <2>1. /\ UNCHANGED setupVars /\ UNCHANGED <<registry, config, setup>>
        /\ sh = "arm" /\ sh' = "wait"
        /\ UNCHANGED <<requested, hash, failures, applied, bridge, serving, hup, media, streams>>
    BY <1>1 DEF Arm, setupVars, bridgeVars, mediaVars
  <2>2. RestType' /\ Shell' /\ InStep'
    BY <2>1, InvParts DEF RestType, Shell, InStep
  <2> QED BY <2>1, <2>2, OthersInv
<1>2. CASE MediaGone
  <2> PICK past \in {0, failures} :
        \/ past = FailuresMax /\ Exit
        \/ /\ past < FailuresMax
           /\ failures' = past + 1 /\ sh' = "backoff"
           /\ UNCHANGED <<setupVars, requested, hash, applied, bridgeVars, mediaVars>>
    BY <1>2 DEF MediaGone
  <2>1. CASE Exit
    BY <2>1, ExitInv
  <2>2. CASE /\ past < FailuresMax
             /\ failures' = past + 1 /\ sh' = "backoff"
             /\ UNCHANGED <<setupVars, requested, hash, applied, bridgeVars, mediaVars>>
    <3>1. /\ UNCHANGED setupVars /\ UNCHANGED <<registry, config, setup>>
          /\ sh = "wait" /\ sh' = "backoff"
          /\ UNCHANGED <<requested, hash, applied, bridge, serving, hup, media, streams>>
      BY <1>2, <2>2 DEF MediaGone, setupVars, bridgeVars, mediaVars
    <3>2. failures' \in 0..FailuresMax
      BY <2>2, InvParts DEF RestType
    <3>3. RestType' /\ Shell' /\ InStep'
      BY <3>1, <3>2, InvParts DEF RestType, Shell, InStep
    <3> QED BY <3>1, <3>3, OthersInv
  <2> QED BY <2>1, <2>2
<1>3. CASE RestartMedia
  <2>1. /\ UNCHANGED setupVars /\ UNCHANGED <<registry, config, setup>>
        /\ sh = "backoff" /\ sh' = "arm" /\ media' = "up" /\ streams' = config
        /\ UNCHANGED <<requested, hash, failures, applied, bridge, serving, hup>>
    BY <1>3 DEF RestartMedia, StartMedia, setupVars, bridgeVars
  <2>2. config \in Files
    BY InvParts DEF RegistryInv, RegistryTypeOK
  <2>3. RestType'
    BY <2>1, <2>2, InvParts DEF RestType
  <2>4. Shell' /\ InStep'
    BY <2>1, InvParts DEF Shell, InStep
  <2> QED BY <2>1, <2>3, <2>4, OthersInv
<1> QED BY <1>1, <1>2, <1>3

(* The two servers. *)
LEMMA ServersInv ==
    ASSUME Inv, BridgeUp \/ BridgeReloads \/ BridgeDies \/ MediaDies PROVE Inv'
<1>1. /\ UNCHANGED setupVars /\ UNCHANGED <<registry, config, setup>>
      /\ UNCHANGED <<sh, requested, hash, failures, applied>>
  BY DEF BridgeUp, BridgeReloads, BridgeDies, MediaDies, setupVars, shVars
<1>2. RestType'
  <2>1. registry \in Files
    BY InvParts DEF RegistryInv, RegistryTypeOK
  <2>2. /\ bridge' \in {"off", "starting", "up"} /\ hup' \in BOOLEAN /\ media' \in {"off", "up"}
        /\ serving' \in Files /\ streams' \in Files
    BY <2>1, NoCamerasType, InvParts
    DEF BridgeUp, BridgeReloads, LoadCredentialSet, BridgeDies, MediaDies, RestType, bridgeVars, mediaVars
  <2> QED BY <1>1, <2>2, InvParts DEF RestType
<1>3. Shell' /\ InStep'
  <2>1. CASE BridgeUp \/ BridgeReloads
    BY <1>1, <2>1, InvParts DEF BridgeUp, BridgeReloads, LoadCredentialSet, Shell, InStep, mediaVars
  <2>2. CASE BridgeDies \/ MediaDies
    BY <1>1, <2>2, InvParts DEF BridgeDies, MediaDies, Shell, InStep, bridgeVars, mediaVars
  <2> QED BY <2>1, <2>2
<1> QED BY <1>1, <1>2, <1>3, OthersInv

(* A media server that restarts itself reads what the last setup wrote. *)
LEMMA MediaRestartInv == ASSUME Inv, HandleMediaRestart PROVE Inv'
<1>1. /\ UNCHANGED setupVars /\ UNCHANGED <<registry, config, setup>>
      /\ UNCHANGED <<sh, requested, hash, failures, applied, bridge, serving, hup>>
      /\ media = "up" /\ media' = "up" /\ streams' = config
  BY DEF HandleMediaRestart, MediaRestarts, StartMedia, setupVars, shVars, bridgeVars
<1>2. config \in Files
  BY InvParts DEF RegistryInv, RegistryTypeOK
<1>3. RestType'
  BY <1>1, <1>2, InvParts DEF RestType
<1>4. Shell' /\ InStep'
  BY <1>1, InvParts DEF Shell, InStep
<1> QED BY <1>1, <1>3, <1>4, OthersInv

(* A press outside the wait only leaves its note. *)
LEMMA RequestInv == ASSUME Inv, HandleCredentialRefresh PROVE Inv'
<1>1. UNCHANGED <<hash, failures, applied, bridge, serving, hup, media, streams>>
  BY DEF HandleCredentialRefresh, bridgeVars, mediaVars
<1>2. CASE sh = "wait" /\ SetupStarts /\ sh' = "refresh" /\ requested' = RequestTaken
  BY <1>1, <1>2, SetupBegins
<1>3. CASE requested' = TRUE /\ UNCHANGED <<sh, setupVars>>
  <2>1. UNCHANGED <<registry, config, setup>>
    BY <1>3 DEF setupVars
  <2>2. RestType' /\ Shell' /\ InStep'
    BY <1>1, <1>3, <2>1, InvParts DEF RestType, Shell, InStep
  <2> QED BY <1>3, <2>2, OthersInv
<1> QED BY <1>2, <1>3 DEF HandleCredentialRefresh, RefreshCredentials, RefreshRequest

(* Every step keeps the invariant. *)
LEMMA StepInv == ASSUME Inv, [Next]_vars PROVE Inv'
<1>1. CASE Begin
  BY <1>1, SetupBegins DEF Begin, bridgeVars, mediaVars
<1>2. CASE SetupStep
  BY <1>2, SetupStepRest
<1>3. CASE Launch
  BY <1>3, LaunchInv
<1>4. CASE FirstFails \/ Terminated \/ BridgeGone
  BY <1>4, ExitInv DEF FirstFails, Terminated, BridgeGone
<1>5. CASE Arm \/ MediaGone \/ RestartMedia
  BY <1>5, LoopInv
<1>6. CASE HandleCredentialRefresh
  BY <1>6, RequestInv
<1>7. CASE TimerFires
  BY <1>7, SetupBegins DEF TimerFires, bridgeVars, mediaVars
<1>8. CASE Refreshed \/ RefreshFails
  BY <1>8, RefreshedInv, RefreshFailsInv
<1>9. CASE ApplyCredentials
  BY <1>9, ApplyInv
<1>10. CASE BridgeUp \/ BridgeReloads \/ BridgeDies \/ MediaDies
  BY <1>10, ServersInv
<1>11. CASE HandleMediaRestart
  BY <1>11, MediaRestartInv
<1>12. CASE UNCHANGED vars
  <2>1. /\ UNCHANGED setupVars /\ UNCHANGED <<registry, config, setup>>
        /\ UNCHANGED <<sh, requested, hash, failures, applied>>
        /\ UNCHANGED <<bridge, serving, hup, media, streams>>
    BY <1>12 DEF vars, setupVars, shVars, bridgeVars, mediaVars
  <2>2. RestType' /\ Shell' /\ InStep'
    BY <2>1, InvParts DEF RestType, Shell, InStep
  <2> QED BY <2>1, <2>2, OthersInv
<1> QED BY <1>1, <1>2, <1>3, <1>4, <1>5, <1>6, <1>7, <1>8, <1>9, <1>10, <1>11, <1>12 DEF Next

(* The strengthened invariant holds always. *)
LEMMA Invariant == Spec => []Inv
BY InitInv, StepInv, PTL DEF Spec

---------------------------------------------------------------------------
(* The state of the setup command, its files, run.sh and the servers is    *)
(* always of its type (run.sh, app.Build).                                 *)
THEOREM TypeCorrect == Spec => []TypeOK
<1>1. Inv => TypeOK
  BY DEF Inv
<1> QED BY <1>1, Invariant, PTL

(* No two cameras ever share a port or a name (Build).                     *)
THEOREM PlacesDistinct == Spec => []DistinctPlaces
<1>1. Inv => DistinctPlaces
  BY DEF Inv, RegistryInv
<1> QED BY <1>1, Invariant, PTL

(* After a complete refresh, bridge and media server run on the same       *)
(* files (apply_credentials).                                              *)
THEOREM ServersInStep == Spec => []InStep
<1>1. Inv => InStep
  BY DEF Inv
<1> QED BY <1>1, Invariant, PTL

(* Whatever the account lists and wherever a run is cut short, a camera    *)
(* that is recorded twice in a row keeps its port (BuildOptions).          *)
THEOREM AddressesKept == Spec => AddressKept
<1>1. Inv /\ [Next]_vars =>
        [\A c \in DOMAIN registry \cap DOMAIN registry' :
            registry'[c].port = registry[c].port]_registry
  <2> SUFFICES ASSUME Inv, Next, registry' # registry
               PROVE  \A c \in DOMAIN registry \cap DOMAIN registry' :
                         registry'[c].port = registry[c].port
    BY DEF vars, setupVars
  <2>1. SetupStep
    BY DEF Next, Begin, Launch, FirstFails, Terminated, Arm, HandleCredentialRefresh, RefreshCredentials,
        RefreshRequest, TimerFires, HandleMediaRestart, BridgeGone, MediaGone, RestartMedia, Refreshed, RefreshFails, ApplyCredentials,
        BridgeUp, BridgeReloads, BridgeDies, MediaDies, Exit, SetupStarts, WriteConfig,
        SetupFails, setupVars
  <2>2. WriteRegistry
    BY <2>1 DEF SetupStep, CamerasListed, Place
  <2> QED BY <2>2, WriteInv, InvParts
<1> QED BY <1>1, Invariant, PTL DEF Spec, AddressKept
---------------------------------------------------------------------------
(* Suffixes make different names of one base. *)
LEMMA SuffixesDiffer ==
    ASSUME NEW c \in Cameras, NEW j \in Nat \ {0}, NEW k \in Nat \ {0},
           Suffixed(c, j) = Suffixed(c, k)
    PROVE  j = k
<1> DEFINE b == BaseName[c]
<1>1. b \in Seq(Nat)
  OBVIOUS
<1> HIDE DEF b
<1>2. \A i \in Nat : /\ Len(Append(b, i)) = Len(b) + 1
                     /\ Append(b, i)[Len(b) + 1] = i
  BY <1>1
<1>3. Len(b) \in Nat
  BY <1>1
<1>4. CASE j = 1 /\ k # 1
  <2>1. b = Append(b, k)
    BY <1>4 DEF Suffixed, b
  <2> QED BY <1>2, <1>3, <2>1
<1>5. CASE j # 1 /\ k = 1
  <2>1. b = Append(b, j)
    BY <1>5 DEF Suffixed, b
  <2> QED BY <1>2, <1>3, <2>1
<1>6. CASE j # 1 /\ k # 1
  <2>1. Append(b, j) = Append(b, k)
    BY <1>6 DEF Suffixed, b
  <2> QED BY <1>2, <2>1
<1> QED BY <1>4, <1>5, <1>6

(* Of one suffix more than there are names one is free, and so is the      *)
(* first that is.                                                          *)
LEMMA SuffixFree ==
    ASSUME RegistryTypeOK, NEW c \in Cameras
    PROVE  \E k \in 1..(Cardinality(DOMAIN names) + 1) : NewName(c, k)
<1> DEFINE n == Cardinality(DOMAIN names)
           Free == {k \in 1..(n + 1) : Suffixed(c, k) \notin Values(names)}
<1>1. IsFiniteSet(DOMAIN names)
  BY FS_Subset DEF RegistryTypeOK
<1>2. n \in Nat
  BY <1>1, FS_CardinalityType
<1> HIDE DEF n
<1>3. Free # {}
  <2> SUFFICES ASSUME Free = {} PROVE FALSE
    OBVIOUS
  <2>1. \A k \in 1..(n + 1) : \E d \in DOMAIN names : names[d] = Suffixed(c, k)
    BY DEF Values
  <2> DEFINE owner == [k \in 1..(n + 1) |-> CHOOSE d \in DOMAIN names : names[d] = Suffixed(c, k)]
  <2>2. owner \in [1..(n + 1) -> DOMAIN names] /\ \A k \in 1..(n + 1) : names[owner[k]] = Suffixed(c, k)
    BY <2>1
  <2>3. IsFiniteSet(1..(n + 1)) /\ Cardinality(1..(n + 1)) = n + 1
    BY <1>2, FS_Interval
  <2> HIDE DEF owner
  <2> DEFINE suffixes == 1..(n + 1)
             placed == DOMAIN names
  <2>4. PICK j, k \in 1..(n + 1) : j # k /\ owner[j] = owner[k]
    <3>1. /\ IsFiniteSet(suffixes) /\ IsFiniteSet(placed)
          /\ Cardinality(placed) < Cardinality(suffixes) /\ owner \in [suffixes -> placed]
      <4>1. Cardinality(placed) = n
        BY DEF n
      <4> QED BY <1>1, <1>2, <2>2, <2>3, <4>1
    <3> HIDE DEF suffixes, placed
    <3>2. \E j, k \in suffixes : j # k /\ owner[j] = owner[k]
      BY <3>1, FS_PigeonHole
    <3> QED BY <3>2 DEF suffixes
  <2>5. Suffixed(c, j) = Suffixed(c, k)
    BY <2>2, <2>4
  <2> QED BY <1>2, <2>4, <2>5, SuffixesDiffer
<1>4. Free \subseteq Nat
  BY <1>2
<1>5. PICK k \in Free : \A j \in Free : <<j, k>> \notin OpToRel(<, Nat)
  BY <1>3, <1>4, NatLessThanWellFounded, WFMin
<1>6. ASSUME NEW j \in 1..(k - 1) PROVE Suffixed(c, j) \in Values(names)
  <2>0. k \in 1..(n + 1)
    BY <1>5
  <2>1. j \in 1..(n + 1) /\ j \in Nat /\ k \in Nat /\ j < k
    BY <1>2, <2>0
  <2>2. j \notin Free
    BY <1>5, <2>1 DEF OpToRel
  <2> QED BY <2>1, <2>2
<1> QED BY <1>5, <1>6 DEF NewName, n

(* Build's search for a name ends, after as many suffixes as there are     *)
(* names at most: the bound of Place loses no behaviour (Build).           *)
THEOREM NameIsFound ==
    Spec => [](\A c \in Cameras : \E k \in 1..(Cardinality(DOMAIN names) + 1) : NewName(c, k))
<1>1. Inv => \A c \in Cameras : \E k \in 1..(Cardinality(DOMAIN names) + 1) : NewName(c, k)
  BY SuffixFree DEF Inv, RegistryInv
<1> QED BY <1>1, Invariant, PTL
=============================================================================

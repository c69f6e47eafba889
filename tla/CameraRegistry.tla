--------------------------- MODULE CameraRegistry ---------------------------
(* app.Build as the setup command calls it, and the files it writes from   *)
(* it: the registry, which the bridge reads, and the media server's        *)
(* configuration.  Build places one camera after the other; each file is   *)
(* replaced as a whole, and the run may end between any two steps.         *)
EXTENDS Naturals, Sequences, FiniteSets

CONSTANTS
    Cameras,        \* numbered in the order of their UDIDs
    Base, MaxPort,  \* BridgeListenBase's port and 65535
    Gap,            \* 999
    BaseName,       \* streamName of a camera's name, as a sequence of words
    Alias,          \* LegacyAlias, the name of the first camera's stream
    Secrets         \* what the account may give a camera as its token

ASSUME CamerasAssumption == Cameras \subseteq Nat /\ IsFiniteSet(Cameras)
ASSUME PortsAssumption == Base \in Nat /\ MaxPort \in Nat /\ Gap \in Nat
ASSUME NamesAssumption == BaseName \in [Cameras -> Seq(Nat)] /\ Alias \in Seq(Nat)

Ports == Base..MaxPort
Entries == [port : Ports, name : Seq(Nat), secret : Secrets]
Files == UNION {[cams -> Entries] : cams \in SUBSET Cameras}
NoCameras == [c \in {} |-> c]

VARIABLES
    registry,   \* the registry file
    config,     \* the media server's configuration
    setup,      \* "off", "account", "placing", "registry" or "config"
    listed,     \* the cameras and ...
    secret,     \* ... the token that the account gave this run
    ports,      \* Build's addresses, those of an earlier run first
    names       \* Build's usedNames

buildVars == <<listed, secret, ports, names>>
setupVars == <<registry, config, setup, buildVars>>

RegistryTypeOK ==
    /\ registry \in Files /\ config \in Files
    /\ setup \in {"off", "account", "placing", "registry", "config"}
    /\ listed \subseteq Cameras
    /\ secret \in Secrets
    /\ DOMAIN ports \subseteq listed /\ DOMAIN names \subseteq listed
    /\ \A c \in DOMAIN ports : ports[c] \in Ports
    /\ \A c \in DOMAIN names : names[c] \in Seq(Nat)

RegistryInit ==
    /\ registry = NoCameras /\ config = NoCameras
    /\ setup = "off"
    /\ listed = {} /\ secret \in Secrets
    /\ ports = NoCameras /\ names = NoCameras

With(f, c, v) == [x \in DOMAIN f \cup {c} |-> IF x = c THEN v ELSE f[x]]
Values(f) == {f[c] : c \in DOMAIN f}

---------------------------------------------------------------------------

SetupOver ==
    /\ setup' = "off"
    /\ listed' = {} /\ ports' = NoCameras /\ names' = NoCameras
    /\ UNCHANGED secret

SetupStarts ==
    /\ setup = "off"
    /\ setup' = "account"
    /\ UNCHANGED <<registry, config, buildVars>>

(* Mutant: addresses are allocated afresh. *)
Afresh(cams) == {}

Recorded(cams) == cams \cap DOMAIN registry

(* The cameras that ParseDeviceList may find in the account's answer; an   *)
(* answer without one ends the run.                                        *)
DeviceLists == SUBSET Cameras \ {{}}

(* "Addresses an earlier run recorded are claimed first" *)
CamerasListed ==
    /\ setup = "account"
    /\ \E cams \in DeviceLists, s \in Secrets :
          /\ listed' = cams /\ secret' = s
          /\ ports' = [c \in Recorded(cams) |-> registry[c].port]
          /\ names' = NoCameras
    /\ setup' = "placing"
    /\ UNCHANGED <<registry, config>>

(* The camera whose turn it is. *)
Turn(c) ==
    /\ setup = "placing" /\ c \in listed \ DOMAIN names
    /\ \A d \in listed \ DOMAIN names : c <= d

Wanted(c) ==
    LET index == Cardinality(DOMAIN names)
    IN  IF index = 0 THEN Base ELSE Base + Gap + index

(* Mutant: only the system is asked. *)
UnboundPort(c, busy) == {p \in Ports : p >= Wanted(c) /\ p \notin busy}

(* A camera without an address gets a port that no camera of the registry  *)
(* has; the running bridge's ports are busy, and so may be any other.      *)
FreePort(c, busy) ==
    {p \in Ports : p >= Wanted(c) /\ p \notin Values(ports) \cup busy}

Suffixed(c, k) == IF k = 1 THEN BaseName[c] ELSE Append(BaseName[c], k)

(* The first suffix that makes the name new. *)
NewName(c, k) ==
    /\ Suffixed(c, k) \notin Values(names)
    /\ \A j \in 1..(k - 1) : Suffixed(c, j) \in Values(names)

Place(c, busy) ==
    /\ Turn(c)
    /\ IF c \in DOMAIN ports THEN UNCHANGED ports
       ELSE \E p \in FreePort(c, busy) : ports' = With(ports, c, p)
    /\ \E k \in 1..(Cardinality(DOMAIN names) + 1) :
          NewName(c, k) /\ names' = With(names, c, Suffixed(c, k))
    /\ setup' = IF listed = DOMAIN names \cup {c} THEN "registry" ELSE "placing"
    /\ UNCHANGED <<registry, config, listed, secret>>

Built == [c \in listed |-> [port |-> ports[c], name |-> names[c], secret |-> secret]]

WriteRegistry ==
    /\ setup = "registry"
    /\ registry' = Built
    /\ setup' = "config"
    /\ UNCHANGED <<config, buildVars>>

WriteConfig ==
    /\ setup = "config"
    /\ config' = Built
    /\ SetupOver
    /\ UNCHANGED registry

(* An error, or the end of the process. *)
SetupFails ==
    /\ setup # "off"
    /\ SetupOver
    /\ UNCHANGED <<registry, config>>

---------------------------------------------------------------------------
(* The streams of the configuration, without their MJPEG companions: each  *)
(* camera in turn puts itself under its name, the first one under the      *)
(* alias too.                                                              *)
First(c) == \A d \in DOMAIN config : c <= d

StreamNames(c) == {config[c].name} \cup (IF First(c) THEN {Alias} ELSE {})

(* The camera behind a name is the last that has put itself there. *)
Plays(name, c) ==
    /\ name \in StreamNames(c)
    /\ \A d \in DOMAIN config : name \in StreamNames(d) => d <= c

(* The name the bridge hands out for a camera. *)
PublishedName(c) == IF First(c) THEN Alias ELSE config[c].name

---------------------------------------------------------------------------
(* No two cameras share a socket, or a stream of the media server and with *)
(* it a snapshot URL and a card on the page (Build).                       *)
DistinctPlaces ==
    \A c, d \in DOMAIN registry : c # d =>
        /\ registry[c].port # registry[d].port
        /\ registry[c].name # registry[d].name

(* "nothing that already has an address ever moves" (BuildOptions).        *)
AddressKept ==
    [][ \A c \in DOMAIN registry \cap DOMAIN registry' :
            registry'[c].port = registry[c].port ]_registry

(* Under the name that is published for a camera the media server plays    *)
(* this camera (README.md: "The first stream remains `vm65`").             *)
PlaysOwnCamera == \A c \in DOMAIN config : Plays(PublishedName(c), c)
=============================================================================

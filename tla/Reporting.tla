------------------------------ MODULE Reporting ------------------------------
(* How the bridge process reports its cameras to Home Assistant: cmd/       *)
(* vm65-bridge starts discovery and the temperature link, attaches the one  *)
(* to the other, follows reloads and mirrors the availability of bridges.   *)
EXTENDS Temperature

CONSTANTS
    Registries,     \* what startup and reloads load: sets of descriptors
    Controlled,     \* the descriptors temperatureCameras passes on
    Main, Mirror,   \* the goroutines of run and watchForReload, and of the mirror
    MaxReloads,     \* bounds the reloads
    MaxConnects,    \* bounds the broker's connections
    MaxLosses,      \* bounds the messages that do not arrive
    MaxTicks        \* bounds the rounds of the mirror

KeysOf(descs) == {KeyOf[d] : d \in descs}

ASSUME ReportingAssumption ==
    /\ Callers = Workers \cup {Main, Mirror}
    /\ Main # Mirror /\ {Main, Mirror} \cap Workers = {} /\ Handlers \cap Callers = {}
    /\ Controlled \subseteq Descs
    /\ Registries \subseteq SUBSET Descs
    /\ \A r \in Registries : r # {} /\ \A d, e \in r : KeyOf[d] = KeyOf[e] => d = e
    /\ {MaxReloads, MaxConnects, MaxLosses, MaxTicks} \subseteq Nat

VARIABLES
    main,           \* where startup or the reload is
    registry,       \* the cameras of the process
    work,           \* the cameras it has still to go through
    replay,         \* the readings setSink has still to replay
    published,      \* discoveryPublisher.published
    mirrored,       \* the availability the mirror has still to pass on
    reloads, connects, losses, ticks

mainVars == <<main, registry, work, replay, published>>
counters == <<reloads, connects, losses, ticks>>
vars == <<discoveryVars, workerVars, storeVars, mainVars, mirrored, counters>>

MainPhases == {"starting", "publishing", "replaying", "idle"}

TypeOK ==
    /\ DiscoveryTypeOK /\ TemperatureTypeOK
    /\ main \in MainPhases
    /\ registry \in Registries
    /\ work \subseteq Keys
    /\ replay = [supported |-> replay.supported, readings |-> replay.readings]
    /\ replay.readings \subseteq Keys /\ IsFlags(replay.supported)
    /\ published \subseteq Keys
    /\ IsFlags(mirrored)
    /\ reloads \in 0..MaxReloads /\ connects \in 0..MaxConnects
    /\ losses \in 0..MaxLosses /\ ticks \in 0..MaxTicks

(* Startup reconciles the workers before it starts discovery, and publishes *)
(* once the client has connected.                                           *)
Init ==
    /\ DiscoveryInit
    /\ workers = [k \in {} |-> CHOOSE w \in Workers : TRUE]
    /\ desc = [w \in Workers |-> CHOOSE d \in Descs : TRUE]
    /\ phase = [w \in Workers |-> "ended"]
    /\ cancelled = {}
    /\ report = [w \in Workers |-> "none"] /\ stage = [w \in Workers |-> "none"]
    /\ storeSupported = [k \in {} |-> FALSE] /\ readings = {} /\ attached = FALSE
    /\ registry \in Registries
    /\ main = "starting" /\ work = KeysOf(registry)
    /\ replay = [supported |-> [k \in {} |-> FALSE], readings |-> {}]
    /\ published = {} /\ mirrored = [k \in {} |-> FALSE]
    /\ reloads = 0 /\ connects = 0 /\ losses = 0 /\ ticks = 0

---------------------------------------------------------------------------
(* discoveryPublisher.publish, setSink and watchForReload.                 *)

otherVars == <<workerVars, mirrored, counters>>

PublishOne == \E k \in work :
    /\ main = "publishing"
    /\ Upsert(Main, k)
    /\ work' = work \ {k}
    /\ UNCHANGED <<main, registry, replay, published, storeVars, otherVars>>

(* Mutant: a registry with a new camera leaves no time to retire others. *)
DepartedIfNothingNew == IF KeysOf(registry) \subseteq published THEN published \ KeysOf(registry) ELSE {}

Departed == published \ KeysOf(registry)

RetireOne == \E k \in Departed :
    /\ main = "publishing" /\ work = {}
    /\ Remove(Main, k)
    /\ published' = published \ {k}
    /\ UNCHANGED <<main, registry, work, replay, storeVars, otherVars>>

Published ==
    /\ main = "publishing" /\ work = {} /\ Departed = {} /\ Idle(Main)
    /\ published' = KeysOf(registry)

(* Mutant: what the store already knows is not replayed. *)
NoReplay == [supported |-> [k \in {} |-> FALSE], readings |-> {}]

Known == [supported |-> storeSupported, readings |-> readings]

(* setSink takes its copies in the critical section that sets the sink. *)
Attach ==
    /\ Published /\ ~attached
    /\ attached' = TRUE
    /\ replay' = Known
    /\ main' = "replaying"
    /\ UNCHANGED <<storeSupported, readings, registry, work, discoveryVars, otherVars>>

ReplayCapability == \E k \in DOMAIN replay.supported :
    /\ main = "replaying"
    /\ SetTemperatureSupported(Main, k, replay.supported[k])
    /\ replay' = [replay EXCEPT !.supported = Without(@, k)]
    /\ UNCHANGED <<main, registry, work, published, storeVars, otherVars>>

ReplayReading == \E k \in replay.readings :
    /\ main = "replaying" /\ DOMAIN replay.supported = {}
    /\ PublishTemperature(Main, k)
    /\ replay' = [replay EXCEPT !.readings = @ \ {k}]
    /\ UNCHANGED <<main, registry, work, published, storeVars, otherVars>>

Replayed ==
    /\ main = "replaying" /\ DOMAIN replay.supported = {} /\ replay.readings = {} /\ Idle(Main)
    /\ main' = "idle"
    /\ UNCHANGED <<registry, work, replay, published, discoveryVars, storeVars, otherVars>>

(* Runtime.Reload is module Supervision; here it is done. *)
Reload ==
    /\ main = "idle" /\ reloads < MaxReloads
    /\ registry' \in Registries
    /\ main' = "publishing" /\ work' = KeysOf(registry')
    /\ reloads' = reloads + 1
    /\ UNCHANGED <<replay, published, discoveryVars, storeVars, workerVars, mirrored,
                   connects, losses, ticks>>

Reloaded ==
    /\ Published /\ attached
    /\ Reconcile(registry \cap Controlled)
    /\ main' = "idle"
    /\ UNCHANGED <<registry, work, replay, discoveryVars, storeVars, mirrored, counters>>

(* run starts the temperature link before it starts discovery. *)
Startup ==
    /\ main = "starting"
    /\ Reconcile(registry \cap Controlled)
    /\ main' = "publishing"
    /\ UNCHANGED <<registry, work, replay, published, discoveryVars, storeVars, mirrored, counters>>

MainStep ==
    \/ Startup \/ PublishOne \/ RetireOne
    \/ Attach \/ ReplayCapability \/ ReplayReading \/ Replayed
    \/ Reload \/ Reloaded

---------------------------------------------------------------------------
(* mirrorStateToMQTT: CameraAvailability may find any of the supervisors,  *)
(* in the middle of a reload, serving or not; finding none does nothing.   *)

MirrorTick ==
    /\ attached /\ main # "replaying"
    /\ ticks < MaxTicks /\ ticks' = ticks + 1
    /\ Idle(Mirror) /\ DOMAIN mirrored = {}
    /\ \E ids \in SUBSET KeysOf(registry) \ {{}} : mirrored' \in [ids -> BOOLEAN]
    /\ UNCHANGED <<discoveryVars, workerVars, storeVars, mainVars,
                   reloads, connects, losses>>

MirrorOne == \E k \in DOMAIN mirrored :
    /\ SetCameraAvailable(Mirror, k, mirrored[k])
    /\ mirrored' = Without(mirrored, k)
    /\ UNCHANGED <<workerVars, storeVars, mainVars, counters>>

(* The broker. *)
Connect(h) ==
    /\ main # "starting" /\ connects < MaxConnects
    /\ OnConnect(h)
    /\ connects' = connects + 1
    /\ UNCHANGED <<workerVars, storeVars, mainVars, mirrored, reloads, losses, ticks>>

Disconnect ==
    /\ ConnectionLost
    /\ UNCHANGED <<workerVars, storeVars, mainVars, mirrored, counters>>

SenderStep(g) ==
    /\ \/ (PublishCamera(g) \/ Publish(g)) /\ UNCHANGED losses
       \/ PublishFails(g) /\ losses < MaxLosses /\ losses' = losses + 1
    /\ UNCHANGED <<workerVars, storeVars, mainVars, mirrored, reloads, connects, ticks>>

Work(w) == WorkerStep(w) /\ UNCHANGED <<mainVars, mirrored, counters>>

Next ==
    \/ MainStep
    \/ MirrorTick \/ MirrorOne
    \/ Disconnect \/ \E h \in Handlers : Connect(h)
    \/ \E g \in Senders : SenderStep(g)
    \/ \E w \in Workers : Work(w)

Spec == Init /\ [][Next]_vars

(* Goroutines are scheduled, and what they do in the network ends by its    *)
(* deadline.  Nothing is assumed of the broker's connection or of signals.  *)
FairSpec ==
    /\ Spec
    /\ WF_vars(MainStep) /\ WF_vars(MirrorOne)
    /\ \A g \in Senders : WF_vars(SenderStep(g))
    /\ \A w \in Workers : WF_vars(Work(w))

---------------------------------------------------------------------------
(* Properties.                                                             *)

(* No change of a registered camera is forgotten on its way to the broker:  *)
(* while connected, each retained topic says what the service knows, unless *)
(* a message about it is on its way, or the last one was lost or overtaken. *)
RetainedCurrent == connected =>
    \A k \in cameras, t \in Topics :
        retained[k][t] = Wanted(k, t) \/ Pending(k, t) \/ <<k, t>> \in astray

(* What is composed for publication is true when it is composed.            *)
MessagesTrue ==
    [][\A g \in Senders : \A m \in todo'[g] \ todo[g] :
          m.key \in cameras' => m.value = Wanted(m.key, m.topic)']_vars

(* A worker that reports after its camera left the registry leaves nothing  *)
(* behind in the service (the comment in SetTemperatureAvailable).          *)
NoTemperatureLeftBehind == DOMAIN supported \cup DOMAIN controlUp \subseteq cameras

(* Between reloads the service and the publisher have the registry's        *)
(* cameras, whichever messages were lost.                                   *)
ServiceFollowsRegistry ==
    main = "idle" => cameras = KeysOf(registry) /\ published = KeysOf(registry)

(* Whoever is not cancelled is the one worker of its camera: Reconcile      *)
(* neither loses a worker nor leaves it running beside its successor.       *)
UncancelledIsCurrent == \A w \in Workers :
    (phase[w] # "ended" /\ w \notin cancelled) <=> Current(w)

(* Between reloads the temperature link serves the cameras of the registry, *)
(* with their present credentials, and misses none that has a sensor.       *)
WorkersFollowRegistry == main = "idle" =>
    /\ \A k \in DOMAIN workers : desc[workers[k]] \in registry \cap Controlled
    /\ \A d \in registry \cap Controlled : KeyOf[d] \in Capable => KeyOf[d] \in DOMAIN workers

(* A worker that reads temperatures is known to the service as a sensor,    *)
(* also when it asked for the capability before the service was attached.   *)
PolledIsSupported ==
    attached /\ main # "replaying" =>
        \A w \in Workers :
            /\ Current(w) /\ phase[w] \in {"polling", "waiting"} /\ report[w] # "supported"
            /\ KeyOfWorker(w) \in cameras
            => Holds(supported, KeyOfWorker(w))

(* A replaced worker ends. *)
ReplacedWorkersEnd == \A w \in Workers : w \in cancelled ~> phase[w] = "ended"

(* A camera whose link fails for good is shown without a temperature in the *)
(* end, although replaced workers may still report: every attempt of the    *)
(* current one says so again.                                               *)
ReadingOf(k) == \E w \in Workers : KeyOfWorker(w) = k /\ Reads(w)
ReadingEnds == \A k \in Keys :
    <>[](k \in DOMAIN workers) /\ <>[][~ReadingOf(k)]_vars
        => <>[](k \notin readings /\ ~Holds(controlUp, k))
=============================================================================

------------------------------ MODULE Discovery ------------------------------
(* The MQTT discovery service of internal/mqttdiscovery: what it knows of   *)
(* each camera, under its lock, and the retained messages it publishes      *)
(* outside of it, against a broker that comes and goes.                     *)
EXTENDS Naturals

CONSTANTS
    Keys,       \* camera identifiers
    Handlers,   \* goroutines in which the MQTT client calls onConnect
    Callers     \* goroutines that call the service

Senders == Handlers \cup Callers

(* The topics of one camera.  "entity" stands for the discovery messages of *)
(* its link, image and camera entities, "temperature" for the one of its    *)
(* temperature entity together with temperature_availability.               *)
Topics == {"entity", "availability", "temperature"}
Values == {"none", "config", "online", "offline"}
Messages == [key : Keys, topic : Topics, value : Values]

IsFlags(f) == DOMAIN f \subseteq Keys /\ f \in [DOMAIN f -> BOOLEAN]

VARIABLES
    cameras, available, supported, controlUp, connected,    \* Service
    todo,       \* of each goroutine, the messages it is about to publish
    queue,      \* of each goroutine, the cameras it is about to publish
    retained,   \* what the broker has retained, by camera and topic
    astray      \* of registered cameras, the topics whose last message
                \* was lost, or late

serviceVars == <<cameras, available, supported, controlUp, connected>>
brokerVars  == <<retained, astray>>
discoveryVars == <<serviceVars, todo, queue, brokerVars>>

DiscoveryTypeOK ==
    /\ cameras \subseteq Keys
    /\ cameras \subseteq DOMAIN available
    /\ IsFlags(available) /\ IsFlags(supported) /\ IsFlags(controlUp)
    /\ connected \in BOOLEAN
    /\ todo \in [Senders -> SUBSET Messages]
    /\ queue \in [Senders -> SUBSET Keys]
    /\ retained \in [Keys -> [Topics -> Values]]
    /\ astray \subseteq Keys \X Topics

DiscoveryInit ==
    /\ cameras = {} /\ connected = FALSE
    /\ available = [k \in {} |-> FALSE]
    /\ supported = [k \in {} |-> FALSE]
    /\ controlUp = [k \in {} |-> FALSE]
    /\ todo = [g \in Senders |-> {}]
    /\ queue = [g \in Senders |-> {}]
    /\ retained = [k \in Keys |-> [t \in Topics |-> "none"]]
    /\ astray = {}

(* Go maps of booleans: a missing entry reads as FALSE. *)
Holds(f, k)   == k \in DOMAIN f /\ f[k]
Put(f, k, v)  == [id \in DOMAIN f \cup {k} |-> IF id = k THEN v ELSE f[id]]
Without(f, k) == [id \in DOMAIN f \ {k} |-> f[id]]

Idle(g) == todo[g] = {} /\ queue[g] = {}

Payload(up) == IF up THEN "online" ELSE "offline"
Message(k, t, v) == [key |-> k, topic |-> t, value |-> v]

---------------------------------------------------------------------------
(* What is published.                                                      *)

TemperatureEntity(k, supports, up) ==
    {Message(k, "temperature", IF supports THEN Payload(up) ELSE "none")}

(* Mutant: a camera is announced available, whatever was reported of it. *)
OnlineMessages(k) ==
    {Message(k, "entity", "config"), Message(k, "availability", "online")}
        \cup TemperatureEntity(k, Holds(supported, k), Holds(controlUp, k))

CameraMessages(k) ==
    {Message(k, "entity", "config"), Message(k, "availability", Payload(Holds(available, k)))}
        \cup TemperatureEntity(k, Holds(supported, k), Holds(controlUp, k))

(* publishCamera reads the state of its camera under a lock of its own. *)
PublishCamera(g) ==
    /\ todo[g] = {}
    /\ \E k \in queue[g] :
          /\ queue' = [queue EXCEPT ![g] = @ \ {k}]
          /\ todo' = [todo EXCEPT ![g] = CameraMessages(k)]
    /\ UNCHANGED <<serviceVars, brokerVars>>

(* What the broker ought to retain of a registered camera. *)
Wanted(k, t) ==
    CASE t = "entity"       -> "config"
      [] t = "availability" -> Payload(Holds(available, k))
      [] t = "temperature"  -> IF Holds(supported, k) THEN Payload(Holds(controlUp, k)) ELSE "none"

Position == [entity |-> 1, availability |-> 2, temperature |-> 3]

IsNext(g, m) == m \in todo[g] /\ \A n \in todo[g] : Position[m.topic] <= Position[n.topic]

(* The broker takes a message, which may by now say what no longer holds. *)
Publish(g) == \E m \in todo[g] :
    /\ IsNext(g, m)
    /\ todo' = [todo EXCEPT ![g] = @ \ {m}]
    /\ retained' = [retained EXCEPT ![m.key][m.topic] = m.value]
    /\ astray' = IF m.key \in cameras /\ m.value # Wanted(m.key, m.topic)
                 THEN astray \cup {<<m.key, m.topic>>} ELSE astray \ {<<m.key, m.topic>>}
    /\ UNCHANGED <<serviceVars, queue>>

(* The client is offline, or the deadline passes: nobody tries again. *)
PublishFails(g) == \E m \in todo[g] :
    /\ IsNext(g, m)
    /\ todo' = [todo EXCEPT ![g] = @ \ {m}]
    /\ astray' = IF m.key \in cameras THEN astray \cup {<<m.key, m.topic>>} ELSE astray
    /\ UNCHANGED <<serviceVars, queue, retained>>

---------------------------------------------------------------------------
(* The operations, each its critical section and what it then publishes.   *)

Send(g, msgs) == todo' = [todo EXCEPT ![g] = IF connected THEN msgs ELSE {}]

WithAvailability(k) == IF k \in DOMAIN available THEN available ELSE Put(available, k, TRUE)

Upsert(g, k) ==
    /\ Idle(g)
    /\ cameras' = cameras \cup {k}
    /\ available' = WithAvailability(k)
    /\ queue' = [queue EXCEPT ![g] = IF connected THEN {k} ELSE {}]
    /\ UNCHANGED <<supported, controlUp, connected, todo, brokerVars>>

(* Mutant: only the first value is published. *)
KnownValue(f, k, v) == k \in DOMAIN f

SameValue(f, k, v) == k \in DOMAIN f /\ f[k] = v

SetCameraAvailable(g, k, up) ==
    /\ Idle(g)
    /\ available' = Put(available, k, up)
    /\ Send(g, IF SameValue(available, k, up) THEN {}
               ELSE {Message(k, "availability", Payload(up))})
    /\ UNCHANGED <<cameras, supported, controlUp, connected, queue, brokerVars>>

(* An error for a camera that is not registered, and nothing changes. *)
SetTemperatureSupported(g, k, supports) ==
    /\ Idle(g)
    /\ IF k \in cameras
       THEN /\ supported' = Put(supported, k, supports)
            /\ controlUp' = IF supports THEN controlUp ELSE Without(controlUp, k)
            /\ Send(g, TemperatureEntity(k, supports, Holds(controlUp', k)))
       ELSE UNCHANGED <<supported, controlUp, todo>>
    /\ UNCHANGED <<cameras, available, connected, queue, brokerVars>>

(* Mutant: whatever is reported is recorded. *)
RecordedAlways(k, up) == Put(controlUp, k, up)

(* Only registered cameras are recorded. *)
Recorded(k, up) == IF k \in cameras THEN Put(controlUp, k, up) ELSE controlUp

SetTemperatureAvailable(g, k, up) ==
    /\ Idle(g)
    /\ controlUp' = Recorded(k, up)
    /\ Send(g, IF k \notin cameras \/ ~Holds(supported, k) \/ SameValue(controlUp, k, up) THEN {}
               ELSE {Message(k, "temperature", Payload(up))})
    /\ UNCHANGED <<cameras, available, supported, connected, queue, brokerVars>>

PublishTemperature(g, k) ==
    /\ Idle(g)
    /\ controlUp' = Recorded(k, TRUE)
    /\ Send(g, IF k \notin cameras \/ ~Holds(supported, k) THEN {}
               ELSE {Message(k, "temperature", "online")})
    /\ UNCHANGED <<cameras, available, supported, connected, queue, brokerVars>>

(* The retained availability is not retired, only the entities. *)
Remove(g, k) ==
    /\ Idle(g)
    /\ cameras' = cameras \ {k}
    /\ available' = Without(available, k)
    /\ supported' = Without(supported, k)
    /\ controlUp' = Without(controlUp, k)
    /\ Send(g, {Message(k, t, "none") : t \in {"entity", "temperature"}})
    /\ astray' = {lost \in astray : lost[1] # k}
    /\ UNCHANGED <<connected, queue, retained>>

(* onConnect publishes the cameras registered at that moment. *)
OnConnect(h) ==
    /\ Idle(h)
    /\ connected' = TRUE
    /\ queue' = [queue EXCEPT ![h] = cameras]
    /\ UNCHANGED <<cameras, available, supported, controlUp, todo, brokerVars>>

ConnectionLost ==
    /\ connected
    /\ connected' = FALSE
    /\ UNCHANGED <<cameras, available, supported, controlUp, todo, queue, brokerVars>>

---------------------------------------------------------------------------

Pending(k, t) == \E g \in Senders :
    k \in queue[g] \/ \E m \in todo[g] : m.key = k /\ m.topic = t
=============================================================================

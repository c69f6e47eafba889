--------------------------- MODULE ReportingProofs ---------------------------
(* Theorems about Reporting, for any cameras, credentials, registries,     *)
(* workers, handlers and bounds.                                           *)
EXTENDS Reporting, TLAPS

---------------------------------------------------------------------------
(* Maps of flags.                                                          *)

(* Setting an entry. *)
LEMMA PutFacts ==
    ASSUME NEW f, NEW k, NEW v
    PROVE  /\ DOMAIN Put(f, k, v) = DOMAIN f \cup {k}
           /\ Put(f, k, v)[k] = v
           /\ \A l \in DOMAIN f : l # k => Put(f, k, v)[l] = f[l]
           /\ Holds(Put(f, k, v), k) = v \/ v \notin BOOLEAN
           /\ \A l : l # k => Holds(Put(f, k, v), l) = Holds(f, l)
BY DEF Put, Holds

(* Deleting an entry. *)
LEMMA WithoutFacts ==
    ASSUME NEW f, NEW k
    PROVE  /\ DOMAIN Without(f, k) = DOMAIN f \ {k}
           /\ \A l \in DOMAIN f : l # k => Without(f, k)[l] = f[l]
           /\ ~Holds(Without(f, k), k)
           /\ \A l : l # k => Holds(Without(f, k), l) = Holds(f, l)
BY DEF Without, Holds

(* An entry of another camera is left alone. *)
LEMMA PutOther ==
    ASSUME NEW f, NEW k, NEW v, NEW l, l # k
    PROVE  Holds(Put(f, k, v), l) = Holds(f, l)
BY DEF Put, Holds

LEMMA WithoutOther ==
    ASSUME NEW f, NEW k, NEW l, l # k
    PROVE  Holds(Without(f, k), l) = Holds(f, l)
BY DEF Without, Holds

(* Both keep a map of flags one. *)
LEMMA PutFlags ==
    ASSUME NEW f, IsFlags(f), NEW k \in Keys, NEW v \in BOOLEAN
    PROVE  IsFlags(Put(f, k, v))
BY DEF IsFlags, Put

LEMMA WithoutFlags ==
    ASSUME NEW f, IsFlags(f), NEW k
    PROVE  IsFlags(Without(f, k))
BY DEF IsFlags, Without

(* A lookup is a Boolean. *)
LEMMA HoldsType ==
    ASSUME NEW f, IsFlags(f), NEW k
    PROVE  Holds(f, k) \in BOOLEAN
BY DEF IsFlags, Holds

---------------------------------------------------------------------------
(* The steps of the discovery service, whoever takes them.                 *)

Operation(g, k) ==
    \/ Upsert(g, k)
    \/ \E up \in BOOLEAN : SetCameraAvailable(g, k, up)
    \/ \E supports \in BOOLEAN : SetTemperatureSupported(g, k, supports)
    \/ SetTemperatureAvailable(g, k, FALSE)
    \/ PublishTemperature(g, k)
    \/ Remove(g, k)

Sending(g) == PublishCamera(g) \/ Publish(g) \/ PublishFails(g)

DiscoveryNext ==
    \/ UNCHANGED discoveryVars
    \/ ConnectionLost
    \/ \E h \in Handlers : OnConnect(h)
    \/ \E g \in Senders : Sending(g)
    \/ \E g \in Senders, k \in Keys : Operation(g, k)

(* What is published of a camera are messages. *)
LEMMA MessageTypes ==
    ASSUME DiscoveryTypeOK, NEW k \in Keys
    PROVE  /\ CameraMessages(k) \subseteq Messages
           /\ \A supports, up \in BOOLEAN : TemperatureEntity(k, supports, up) \subseteq Messages
           /\ \A up \in BOOLEAN : Message(k, "availability", Payload(up)) \in Messages
           /\ \A up \in BOOLEAN : Message(k, "temperature", Payload(up)) \in Messages
           /\ {Message(k, t, "none") : t \in {"entity", "temperature"}} \subseteq Messages
<1>1. \A t \in Topics, v \in Values : Message(k, t, v) \in Messages
  BY DEF Message, Messages
<1>2. \A up \in BOOLEAN : Payload(up) \in Values
  BY DEF Payload, Values
<1>3. {"entity", "availability", "temperature"} \subseteq Topics /\ {"config", "none"} \subseteq Values
  BY DEF Topics, Values
<1>4. \A supports, up \in BOOLEAN : TemperatureEntity(k, supports, up) \subseteq Messages
  BY <1>1, <1>2, <1>3 DEF TemperatureEntity
<1>5. /\ Holds(available, k) \in BOOLEAN /\ Holds(supported, k) \in BOOLEAN
      /\ Holds(controlUp, k) \in BOOLEAN
  BY HoldsType DEF DiscoveryTypeOK
<1>6. CameraMessages(k) \subseteq Messages
  BY <1>1, <1>2, <1>3, <1>4, <1>5 DEF CameraMessages
<1> QED BY <1>1, <1>2, <1>3, <1>4, <1>6

(* What Send hands over. *)
LEMMA SendType ==
    ASSUME DiscoveryTypeOK, NEW g \in Senders, NEW msgs \in SUBSET Messages, Send(g, msgs)
    PROVE  todo' \in [Senders -> SUBSET Messages]
BY DEF Send, DiscoveryTypeOK

(* Upsert and the availability of cameras keep the types. *)
LEMMA UpsertType ==
    ASSUME DiscoveryTypeOK, NEW g \in Senders, NEW k \in Keys, Upsert(g, k)
    PROVE  DiscoveryTypeOK'
<1>1. IsFlags(available') /\ DOMAIN available' = DOMAIN available \cup {k}
  <2>1. IsFlags(available) /\ available' = WithAvailability(k)
    BY DEF Upsert, DiscoveryTypeOK
  <2>2. CASE k \in DOMAIN available
    BY <2>1, <2>2 DEF WithAvailability
  <2>3. CASE k \notin DOMAIN available
    <3>1. available' = Put(available, k, TRUE)
      BY <2>1, <2>3 DEF WithAvailability
    <3>2. IsFlags(Put(available, k, TRUE))
      BY <2>1, PutFlags
    <3> QED BY <3>1, <3>2, PutFacts
  <2> QED BY <2>2, <2>3
<1>2. queue' \in [Senders -> SUBSET Keys]
  BY DEF Upsert, DiscoveryTypeOK
<1> QED BY <1>1, <1>2 DEF Upsert, DiscoveryTypeOK, brokerVars, IsFlags

LEMMA AvailableType ==
    ASSUME DiscoveryTypeOK, NEW g \in Senders, NEW k \in Keys, NEW up \in BOOLEAN,
           SetCameraAvailable(g, k, up)
    PROVE  DiscoveryTypeOK'
<1>1. IsFlags(available') /\ DOMAIN available' = DOMAIN available \cup {k}
  BY PutFlags, PutFacts DEF SetCameraAvailable, DiscoveryTypeOK
<1>2. todo' \in [Senders -> SUBSET Messages]
  BY SendType, MessageTypes DEF SetCameraAvailable
<1> QED BY <1>1, <1>2 DEF SetCameraAvailable, DiscoveryTypeOK, brokerVars, IsFlags

(* So do the temperature operations. *)
LEMMA SupportedType ==
    ASSUME DiscoveryTypeOK, NEW g \in Senders, NEW k \in Keys, NEW supports \in BOOLEAN,
           SetTemperatureSupported(g, k, supports)
    PROVE  DiscoveryTypeOK'
<1>1. IsFlags(supported') /\ IsFlags(controlUp')
  BY PutFlags, WithoutFlags DEF SetTemperatureSupported, DiscoveryTypeOK
<1>2. Holds(controlUp', k) \in BOOLEAN
  BY <1>1, HoldsType
<1>3. todo' \in [Senders -> SUBSET Messages]
  BY <1>2, SendType, MessageTypes DEF SetTemperatureSupported, DiscoveryTypeOK
<1> QED BY <1>1, <1>3 DEF SetTemperatureSupported, DiscoveryTypeOK, brokerVars, IsFlags

LEMMA ReadingType ==
    ASSUME DiscoveryTypeOK, NEW g \in Senders, NEW k \in Keys,
           SetTemperatureAvailable(g, k, FALSE) \/ PublishTemperature(g, k)
    PROVE  DiscoveryTypeOK'
<1>1. IsFlags(controlUp')
  BY PutFlags DEF SetTemperatureAvailable, PublishTemperature, Recorded, DiscoveryTypeOK
<1>2. {} \in SUBSET Messages /\ {Message(k, "temperature", Payload(FALSE))} \in SUBSET Messages
      /\ {Message(k, "temperature", "online")} \in SUBSET Messages
  BY MessageTypes DEF Payload
<1>3. todo' \in [Senders -> SUBSET Messages]
  BY <1>2, SendType DEF SetTemperatureAvailable, PublishTemperature
<1> QED BY <1>1, <1>3 DEF SetTemperatureAvailable, PublishTemperature, DiscoveryTypeOK, brokerVars, IsFlags

LEMMA RemoveType ==
    ASSUME DiscoveryTypeOK, NEW g \in Senders, NEW k \in Keys, Remove(g, k)
    PROVE  DiscoveryTypeOK'
<1>1. IsFlags(available') /\ IsFlags(supported') /\ IsFlags(controlUp')
  BY WithoutFlags DEF Remove, DiscoveryTypeOK
<1>2. todo' \in [Senders -> SUBSET Messages]
  BY SendType, MessageTypes DEF Remove
<1>3. cameras' \subseteq DOMAIN available'
  BY DEF Remove, Without, DiscoveryTypeOK
<1> QED BY <1>1, <1>2, <1>3 DEF Remove, DiscoveryTypeOK, IsFlags

(* And the steps of a goroutine that publishes. *)
LEMMA SendingType ==
    ASSUME DiscoveryTypeOK, NEW g \in Senders, Sending(g)
    PROVE  DiscoveryTypeOK'
<1>1. CASE PublishCamera(g)
  <2>1. PICK k \in queue[g] : /\ queue' = [queue EXCEPT ![g] = @ \ {k}]
                              /\ todo' = [todo EXCEPT ![g] = CameraMessages(k)]
    BY <1>1 DEF PublishCamera
  <2>2. CameraMessages(k) \subseteq Messages
    BY MessageTypes DEF DiscoveryTypeOK
  <2> QED BY <1>1, <2>1, <2>2 DEF PublishCamera, DiscoveryTypeOK, serviceVars, brokerVars, IsFlags
<1>2. CASE Publish(g)
  <2>1. PICK m \in todo[g] :
           /\ todo' = [todo EXCEPT ![g] = @ \ {m}]
           /\ retained' = [retained EXCEPT ![m.key][m.topic] = m.value]
           /\ astray' \subseteq astray \cup {<<m.key, m.topic>>}
    BY <1>2 DEF Publish
  <2>2. m.key \in Keys /\ m.topic \in Topics /\ m.value \in Values
    BY DEF DiscoveryTypeOK, Messages
  <2> QED BY <1>2, <2>1, <2>2 DEF Publish, DiscoveryTypeOK, serviceVars, IsFlags
<1>3. CASE PublishFails(g)
  <2>1. PICK m \in todo[g] :
           /\ todo' = [todo EXCEPT ![g] = @ \ {m}]
           /\ astray' \subseteq astray \cup {<<m.key, m.topic>>}
    BY <1>3 DEF PublishFails
  <2>2. m.key \in Keys /\ m.topic \in Topics
    BY DEF DiscoveryTypeOK, Messages
  <2> QED BY <1>3, <2>1, <2>2 DEF PublishFails, DiscoveryTypeOK, serviceVars, IsFlags
<1> QED BY <1>1, <1>2, <1>3 DEF Sending

(* Every step of the service keeps its types. *)
LEMMA DiscoveryTypes ==
    ASSUME DiscoveryTypeOK, DiscoveryNext
    PROVE  DiscoveryTypeOK'
<1>1. CASE UNCHANGED discoveryVars
  BY <1>1 DEF DiscoveryTypeOK, discoveryVars, serviceVars, brokerVars, IsFlags
<1>2. CASE ConnectionLost
  BY <1>2 DEF ConnectionLost, DiscoveryTypeOK, brokerVars, IsFlags
<1>3. CASE \E h \in Handlers : OnConnect(h)
  BY <1>3 DEF OnConnect, DiscoveryTypeOK, brokerVars, IsFlags, Senders
<1>4. CASE \E g \in Senders : Sending(g)
  BY <1>4, SendingType
<1>5. CASE \E g \in Senders, k \in Keys : Operation(g, k)
  BY <1>5, UpsertType, AvailableType, SupportedType, ReadingType, RemoveType DEF Operation
<1> QED BY <1>1, <1>2, <1>3, <1>4, <1>5 DEF DiscoveryNext

---------------------------------------------------------------------------
(* What ought to be retained, and what is on its way.                      *)

(* Wanted is a function of three lookups. *)
LEMMA WantedSame ==
    ASSUME NEW k, NEW t,
           Holds(available, k)' = Holds(available, k),
           Holds(supported, k)' = Holds(supported, k),
           Holds(controlUp, k)' = Holds(controlUp, k)
    PROVE  Wanted(k, t)' = Wanted(k, t)
BY DEF Wanted

(* An operation on one camera leaves the others alone. *)
LEMMA OthersAlone ==
    ASSUME DiscoveryTypeOK, NEW g \in Senders, NEW k \in Keys, Operation(g, k), NEW l, l # k, NEW t
    PROVE  /\ Wanted(l, t)' = Wanted(l, t)
           /\ l \in cameras' <=> l \in cameras
<1>1. CASE Upsert(g, k)
  <2>1. available' = available \/ available' = Put(available, k, TRUE)
    BY <1>1 DEF Upsert, WithAvailability
  <2>2. Holds(available', l) = Holds(available, l)
    <3>1. Holds(Put(available, k, TRUE), l) = Holds(available, l)
      BY DEF Put, Holds
    <3> QED BY <2>1, <3>1
  <2> QED BY <1>1, <2>2, WantedSame DEF Upsert
<1>2. CASE \E up \in BOOLEAN : SetCameraAvailable(g, k, up)
  <2>1. Holds(available', l) = Holds(available, l)
    <3>1. PICK up \in BOOLEAN : available' = Put(available, k, up)
      BY <1>2 DEF SetCameraAvailable
    <3>2. Holds(Put(available, k, up), l) = Holds(available, l)
      BY PutOther
    <3> QED BY <3>1, <3>2
  <2> QED BY <1>2, <2>1, WantedSame DEF SetCameraAvailable
<1>3. CASE \E supports \in BOOLEAN : SetTemperatureSupported(g, k, supports)
  <2>1. PICK supports \in BOOLEAN : SetTemperatureSupported(g, k, supports)
    BY <1>3
  <2>2. /\ supported' = supported \/ supported' = Put(supported, k, supports)
        /\ controlUp' = controlUp \/ controlUp' = Without(controlUp, k)
    BY <2>1 DEF SetTemperatureSupported
  <2>3. Holds(supported', l) = Holds(supported, l) /\ Holds(controlUp', l) = Holds(controlUp, l)
    <3>1. /\ Holds(Put(supported, k, supports), l) = Holds(supported, l)
          /\ Holds(Without(controlUp, k), l) = Holds(controlUp, l)
      BY PutOther, WithoutOther
    <3>2. Holds(supported', l) = Holds(supported, l)
      BY <2>2, <3>1
    <3>3. Holds(controlUp', l) = Holds(controlUp, l)
      BY <2>2, <3>1
    <3> QED BY <3>2, <3>3
  <2> QED BY <2>1, <2>3, WantedSame DEF SetTemperatureSupported
<1>4. CASE SetTemperatureAvailable(g, k, FALSE) \/ PublishTemperature(g, k)
  <2>1. \/ controlUp' = controlUp
        \/ controlUp' = Put(controlUp, k, FALSE)
        \/ controlUp' = Put(controlUp, k, TRUE)
    BY <1>4 DEF SetTemperatureAvailable, PublishTemperature, Recorded
  <2>2. Holds(controlUp', l) = Holds(controlUp, l)
    <3>1. /\ Holds(Put(controlUp, k, FALSE), l) = Holds(controlUp, l)
          /\ Holds(Put(controlUp, k, TRUE), l) = Holds(controlUp, l)
      BY DEF Put, Holds
    <3> QED BY <2>1, <3>1
  <2> QED BY <1>4, <2>2, WantedSame DEF SetTemperatureAvailable, PublishTemperature
<1>5. CASE Remove(g, k)
  <2>1. /\ Holds(available', l) = Holds(available, l) /\ Holds(supported', l) = Holds(supported, l)
        /\ Holds(controlUp', l) = Holds(controlUp, l)
    BY <1>5, WithoutFacts DEF Remove
  <2> QED BY <1>5, <2>1, WantedSame DEF Remove
<1> QED BY <1>1, <1>2, <1>3, <1>4, <1>5 DEF Operation

(* It has nothing of its own on its way, so that nothing is lost by it. *)
LEMMA OperationSends ==
    ASSUME DiscoveryTypeOK, NEW g \in Senders, NEW k \in Keys, Operation(g, k), NEW l, NEW t
    PROVE  /\ Idle(g) /\ UNCHANGED <<connected, retained>>
           /\ astray' = astray \/ Remove(g, k)
           /\ \A h \in Senders \ {g} : todo'[h] = todo[h] /\ queue'[h] = queue[h]
           /\ Pending(l, t) => Pending(l, t)'
<1>1. Idle(g) /\ UNCHANGED <<connected, retained>> /\ (astray' = astray \/ Remove(g, k))
  BY DEF Operation, Upsert, SetCameraAvailable, SetTemperatureSupported, SetTemperatureAvailable,
         PublishTemperature, Remove, brokerVars
<1>2. \A h \in Senders \ {g} : todo'[h] = todo[h] /\ queue'[h] = queue[h]
  BY DEF Operation, Upsert, SetCameraAvailable, SetTemperatureSupported, SetTemperatureAvailable,
         PublishTemperature, Remove, Send, DiscoveryTypeOK
<1>3. Pending(l, t) => Pending(l, t)'
  BY <1>1, <1>2 DEF Pending, Idle
<1> QED BY <1>1, <1>2, <1>3

(* What Send hands over is on its way. *)
LEMMA SentPending ==
    ASSUME DiscoveryTypeOK, NEW g \in Senders, NEW msgs, Send(g, msgs), connected,
           NEW m \in msgs
    PROVE  Pending(m.key, m.topic)'
BY DEF Send, Pending, DiscoveryTypeOK

(* An operation tells the broker what it changes about its camera. *)
LEMMA OperationTells ==
    ASSUME DiscoveryTypeOK, NEW g \in Senders, NEW k \in Keys, Operation(g, k),
           NEW t \in Topics, k \in cameras', connected
    PROVE  (k \in cameras /\ Wanted(k, t)' = Wanted(k, t)) \/ Pending(k, t)'
<1>1. CASE Upsert(g, k)
  <2>1. k \in queue'[g]
    BY <1>1 DEF Upsert, DiscoveryTypeOK
  <2> QED BY <2>1 DEF Pending
<1>2. CASE \E up \in BOOLEAN : SetCameraAvailable(g, k, up)
  <2>1. PICK up \in BOOLEAN : SetCameraAvailable(g, k, up)
    BY <1>2
  <2>2. CASE SameValue(available, k, up)
    <3>1. Holds(available', k) = Holds(available, k)
      BY <2>1, <2>2, PutFacts DEF SetCameraAvailable, SameValue, Holds
    <3> QED BY <2>1, <3>1, WantedSame DEF SetCameraAvailable
  <2>3. CASE ~SameValue(available, k, up) /\ t = "availability"
    <3> DEFINE m == Message(k, "availability", Payload(up))
    <3>1. Send(g, {m})
      BY <2>1, <2>3 DEF SetCameraAvailable
    <3>2. m.key = k /\ m.topic = t
      BY <2>3 DEF Message
    <3> QED BY <3>1, <3>2, SentPending
  <2>4. CASE t # "availability"
    BY <2>1, <2>4 DEF SetCameraAvailable, Wanted, Topics
  <2> QED BY <2>2, <2>3, <2>4
<1>3. CASE \E supports \in BOOLEAN : SetTemperatureSupported(g, k, supports)
  <2>1. PICK supports \in BOOLEAN : SetTemperatureSupported(g, k, supports)
    BY <1>3
  <2>2. k \in cameras
    BY <2>1 DEF SetTemperatureSupported
  <2>3. CASE t = "temperature"
    <3> DEFINE m == Message(k, "temperature", IF supports THEN Payload(Holds(controlUp', k)) ELSE "none")
    <3>1. Send(g, {m})
      BY <2>1, <2>2 DEF SetTemperatureSupported, TemperatureEntity
    <3>2. m.key = k /\ m.topic = t
      BY <2>3 DEF Message
    <3> QED BY <3>1, <3>2, SentPending
  <2>4. CASE t # "temperature"
    BY <2>1, <2>2, <2>4 DEF SetTemperatureSupported, Wanted, Topics
  <2> QED BY <2>3, <2>4
<1>4. CASE SetTemperatureAvailable(g, k, FALSE)
  <2>1. k \in cameras /\ controlUp' = Put(controlUp, k, FALSE)
    BY <1>4 DEF SetTemperatureAvailable, Recorded
  <2>2. CASE t # "temperature" \/ ~Holds(supported, k)
    BY <1>4, <2>1, <2>2 DEF SetTemperatureAvailable, Wanted, Topics
  <2>3. CASE SameValue(controlUp, k, FALSE)
    <3>1. Holds(controlUp', k) = Holds(controlUp, k)
      BY <2>1, <2>3, PutFacts DEF SameValue, Holds
    <3> QED BY <1>4, <2>1, <3>1, WantedSame DEF SetTemperatureAvailable
  <2>4. CASE t = "temperature" /\ Holds(supported, k) /\ ~SameValue(controlUp, k, FALSE)
    <3> DEFINE m == Message(k, "temperature", Payload(FALSE))
    <3>1. Send(g, {m})
      BY <1>4, <2>1, <2>4 DEF SetTemperatureAvailable
    <3>2. m.key = k /\ m.topic = t
      BY <2>4 DEF Message
    <3> QED BY <3>1, <3>2, SentPending
  <2> QED BY <2>2, <2>3, <2>4
<1>5. CASE PublishTemperature(g, k)
  <2>1. k \in cameras
    BY <1>5 DEF PublishTemperature
  <2>2. CASE t # "temperature" \/ ~Holds(supported, k)
    BY <1>5, <2>1, <2>2 DEF PublishTemperature, Wanted, Topics
  <2>3. CASE t = "temperature" /\ Holds(supported, k)
    <3> DEFINE m == Message(k, "temperature", "online")
    <3>1. Send(g, {m})
      BY <1>5, <2>1, <2>3 DEF PublishTemperature
    <3>2. m.key = k /\ m.topic = t
      BY <2>3 DEF Message
    <3> QED BY <3>1, <3>2, SentPending
  <2> QED BY <2>2, <2>3
<1>6. CASE Remove(g, k)
  BY <1>6 DEF Remove
<1> QED BY <1>1, <1>2, <1>3, <1>4, <1>5, <1>6 DEF Operation

(* An operation forgets nothing. *)
LEMMA OperationRetained ==
    ASSUME DiscoveryTypeOK, RetainedCurrent, NEW g \in Senders, NEW k \in Keys, Operation(g, k)
    PROVE  RetainedCurrent'
<1> SUFFICES ASSUME connected', NEW l \in cameras', NEW t \in Topics
             PROVE  retained'[l][t] = Wanted(l, t)' \/ Pending(l, t)' \/ <<l, t>> \in astray'
  BY DEF RetainedCurrent
<1>1. connected /\ retained' = retained /\ (Pending(l, t) => Pending(l, t)')
  BY OperationSends
<1>2. <<l, t>> \in astray => <<l, t>> \in astray'
  <2>1. CASE Remove(g, k)
    BY <2>1 DEF Remove
  <2> QED BY <2>1, OperationSends
<1>3. (l \in cameras /\ Wanted(l, t)' = Wanted(l, t)) \/ Pending(l, t)'
  <2>1. CASE l = k
    BY <1>1, <2>1, OperationTells
  <2>2. CASE l # k
    BY <2>2, OthersAlone
  <2> QED BY <2>1, <2>2
<1> QED BY <1>1, <1>2, <1>3 DEF RetainedCurrent

(* publishCamera has a message on each topic. *)
LEMMA AllTopics ==
    ASSUME NEW k, NEW t \in Topics
    PROVE  \E m \in CameraMessages(k) : m.key = k /\ m.topic = t
BY DEF CameraMessages, TemperatureEntity, Message, Topics

(* Publishing forgets nothing either. *)
LEMMA SendingRetained ==
    ASSUME DiscoveryTypeOK, RetainedCurrent, NEW g \in Senders, Sending(g)
    PROVE  RetainedCurrent'
<1> SUFFICES ASSUME connected', NEW l \in cameras', NEW t \in Topics
             PROVE  retained'[l][t] = Wanted(l, t)' \/ Pending(l, t)' \/ <<l, t>> \in astray'
  BY DEF RetainedCurrent
<1>1. UNCHANGED serviceVars
  BY DEF Sending, PublishCamera, Publish, PublishFails
<1>2. /\ l \in cameras /\ Wanted(l, t)' = Wanted(l, t)
      /\ retained[l][t] = Wanted(l, t) \/ Pending(l, t) \/ <<l, t>> \in astray
  BY <1>1, WantedSame DEF serviceVars, RetainedCurrent
<1>3. CASE PublishCamera(g)
  <2>1. PICK k \in queue[g] : /\ queue' = [queue EXCEPT ![g] = @ \ {k}]
                              /\ todo' = [todo EXCEPT ![g] = CameraMessages(k)]
    BY <1>3 DEF PublishCamera
  <2>2. todo'[g] = CameraMessages(k) /\ queue'[g] = queue[g] \ {k} /\ todo[g] = {}
    BY <1>3, <2>1 DEF PublishCamera, DiscoveryTypeOK
  <2>3. \A h \in Senders \ {g} : todo'[h] = todo[h] /\ queue'[h] = queue[h]
    BY <2>1 DEF DiscoveryTypeOK
  <2>4. CASE l = k
    BY <2>2, <2>4, AllTopics DEF Pending
  <2>5. CASE l # k
    <3>1. Pending(l, t) => Pending(l, t)'
      BY <2>2, <2>3, <2>5 DEF Pending
    <3> QED BY <1>2, <1>3, <3>1 DEF PublishCamera, brokerVars
  <2> QED BY <2>4, <2>5
<1>4. CASE Publish(g)
  <2>1. PICK m \in todo[g] :
           /\ todo' = [todo EXCEPT ![g] = @ \ {m}]
           /\ retained' = [retained EXCEPT ![m.key][m.topic] = m.value]
           /\ astray' = IF m.key \in cameras /\ m.value # Wanted(m.key, m.topic)
                        THEN astray \cup {<<m.key, m.topic>>} ELSE astray \ {<<m.key, m.topic>>}
    BY <1>4 DEF Publish
  <2>2. m.key \in Keys /\ m.topic \in Topics /\ queue' = queue
    BY <1>4 DEF DiscoveryTypeOK, Messages, Publish
  <2>3. todo'[g] = todo[g] \ {m} /\ \A h \in Senders \ {g} : todo'[h] = todo[h]
    BY <2>1 DEF DiscoveryTypeOK
  <2>4. CASE m.key = l /\ m.topic = t
    <3>1. retained'[l][t] = m.value
      BY <2>1, <2>2, <2>4 DEF DiscoveryTypeOK
    <3> QED BY <1>2, <2>1, <2>4, <3>1
  <2>5. CASE ~(m.key = l /\ m.topic = t)
    <3>1. Pending(l, t) => Pending(l, t)'
      BY <2>2, <2>3, <2>5 DEF Pending
    <3>2. l \in Keys
      BY <1>2 DEF DiscoveryTypeOK
    <3>3. retained'[l][t] = retained[l][t]
      BY <2>1, <2>2, <2>5, <3>2 DEF DiscoveryTypeOK
    <3>4. <<l, t>> \in astray => <<l, t>> \in astray'
      BY <2>1, <2>5
    <3> QED BY <1>2, <3>1, <3>3, <3>4
  <2> QED BY <2>4, <2>5
<1>5. CASE PublishFails(g)
  <2>1. PICK m \in todo[g] :
           /\ todo' = [todo EXCEPT ![g] = @ \ {m}]
           /\ astray' = IF m.key \in cameras THEN astray \cup {<<m.key, m.topic>>} ELSE astray
    BY <1>5 DEF PublishFails
  <2>2. todo'[g] = todo[g] \ {m} /\ \A h \in Senders \ {g} : todo'[h] = todo[h]
    BY <2>1 DEF DiscoveryTypeOK
  <2>3. queue' = queue /\ retained' = retained
    BY <1>5 DEF PublishFails
  <2>4. CASE m.key = l /\ m.topic = t
    BY <1>2, <2>1, <2>4
  <2>5. CASE ~(m.key = l /\ m.topic = t)
    <3>1. Pending(l, t) => Pending(l, t)'
      BY <2>2, <2>3, <2>5 DEF Pending
    <3> QED BY <1>2, <2>1, <2>3, <3>1
  <2> QED BY <2>4, <2>5
<1> QED BY <1>3, <1>4, <1>5 DEF Sending

(* No step of the service forgets anything. *)
LEMMA NothingForgotten ==
    ASSUME DiscoveryTypeOK, RetainedCurrent, DiscoveryNext
    PROVE  RetainedCurrent'
<1>1. CASE UNCHANGED discoveryVars
  BY <1>1 DEF discoveryVars, serviceVars, brokerVars, RetainedCurrent, Wanted, Pending
<1>2. CASE ConnectionLost
  BY <1>2 DEF ConnectionLost, RetainedCurrent
<1>3. CASE \E h \in Handlers : OnConnect(h)
  <2>1. PICK h \in Handlers : OnConnect(h)
    BY <1>3
  <2>2. h \in Senders /\ queue'[h] = cameras'
    BY <2>1 DEF OnConnect, DiscoveryTypeOK, Senders
  <2> QED BY <2>2 DEF RetainedCurrent, Pending
<1>4. CASE \E g \in Senders : Sending(g)
  BY <1>4, SendingRetained
<1>5. CASE \E g \in Senders, k \in Keys : Operation(g, k)
  BY <1>5, OperationRetained
<1> QED BY <1>1, <1>2, <1>3, <1>4, <1>5 DEF DiscoveryNext

---------------------------------------------------------------------------
(* The process takes the steps of the service, and no others.              *)

(* The goroutines of the process publish. *)
LEMMA Publishers ==
    /\ Main \in Senders /\ Mirror \in Senders
    /\ \A w \in Workers : w \in Senders
BY ReportingAssumption DEF Senders

(* The loop of a worker touches the service only where it passes a report on. *)
LEMMA WorkerSteps ==
    ASSUME TypeOK, NEW w \in Workers, WorkerStep(w)
    PROVE  UNCHANGED discoveryVars \/ \E k \in Keys : Operation(w, k)
<1>1. CASE PassOn(w)
  <2>1. KeyOfWorker(w) \in Keys
    BY WorkersAssumption DEF TypeOK, TemperatureTypeOK, KeyOfWorker
  <2>2. Operation(w, KeyOfWorker(w))
    BY <1>1 DEF PassOn, Operation
  <2> QED BY <2>1, <2>2
<1>2. CASE StoreReport(w)
  BY <1>2 DEF StoreReport
<1>3. CASE ~PassOn(w) /\ ~StoreReport(w)
  BY <1>3 DEF WorkerStep, Begin, Connects, LinkFails, Supports, LacksSensor, Reads, PollAgain,
              Retry, StopWaiting, Retire, Step
<1> QED BY <1>1, <1>2, <1>3

(* Neither do startup and the reloads elsewhere. *)
LEMMA MainSteps ==
    ASSUME TypeOK, MainStep
    PROVE  UNCHANGED discoveryVars \/ \E k \in Keys : Operation(Main, k)
<1>1. CASE PublishOne
  <2>1. PICK k \in work : Upsert(Main, k)
    BY <1>1 DEF PublishOne
  <2>2. k \in Keys
    BY DEF TypeOK
  <2> QED BY <2>1, <2>2 DEF Operation
<1>2. CASE RetireOne
  <2>1. PICK k \in Departed : Remove(Main, k)
    BY <1>2 DEF RetireOne
  <2>2. k \in Keys
    BY DEF TypeOK, Departed
  <2> QED BY <2>1, <2>2 DEF Operation
<1>3. CASE ReplayCapability
  <2>1. PICK k \in DOMAIN replay.supported :
           SetTemperatureSupported(Main, k, replay.supported[k])
    BY <1>3 DEF ReplayCapability
  <2>2. k \in Keys /\ replay.supported[k] \in BOOLEAN
    BY DEF TypeOK, IsFlags
  <2> QED BY <2>1, <2>2 DEF Operation
<1>4. CASE ReplayReading
  <2>1. PICK k \in replay.readings : PublishTemperature(Main, k)
    BY <1>4 DEF ReplayReading
  <2>2. k \in Keys
    BY DEF TypeOK
  <2> QED BY <2>1, <2>2 DEF Operation
<1>5. CASE Startup \/ Attach \/ Replayed \/ Reload \/ Reloaded
  BY <1>5 DEF Startup, Attach, Replayed, Reload, Reloaded
<1> QED BY <1>1, <1>2, <1>3, <1>4, <1>5 DEF MainStep

(* Every step of the process is one of the service, or leaves it alone. *)
LEMMA Steps ==
    ASSUME TypeOK, [Next]_vars
    PROVE  DiscoveryNext
<1>1. CASE UNCHANGED vars
  BY <1>1 DEF vars, DiscoveryNext
<1>2. CASE MainStep
  BY <1>2, MainSteps, Publishers DEF DiscoveryNext
<1>3. CASE MirrorTick
  BY <1>3 DEF MirrorTick, DiscoveryNext
<1>4. CASE MirrorOne
  <2>1. PICK k \in DOMAIN mirrored : SetCameraAvailable(Mirror, k, mirrored[k])
    BY <1>4 DEF MirrorOne
  <2>2. k \in Keys /\ mirrored[k] \in BOOLEAN
    BY DEF TypeOK, IsFlags
  <2>3. Operation(Mirror, k)
    BY <2>1, <2>2 DEF Operation
  <2> QED BY <2>2, <2>3, Publishers DEF DiscoveryNext
<1>5. CASE Disconnect
  BY <1>5 DEF Disconnect, DiscoveryNext
<1>6. CASE \E h \in Handlers : Connect(h)
  BY <1>6 DEF Connect, DiscoveryNext
<1>7. CASE \E g \in Senders : SenderStep(g)
  BY <1>7 DEF SenderStep, Sending, DiscoveryNext
<1>8. CASE \E w \in Workers : Work(w)
  BY <1>8, WorkerSteps, Publishers DEF Work, DiscoveryNext
<1> QED BY <1>1, <1>2, <1>3, <1>4, <1>5, <1>6, <1>7, <1>8 DEF Next

---------------------------------------------------------------------------
(* Types.                                                                  *)

(* What Reconcile does: whom it keeps, starts and cancels. *)
Reconciled(descs, start) ==
    /\ DOMAIN workers' = Kept(descs) \cup Starting(descs)
    /\ \A k \in Kept(descs) : workers'[k] = workers[k]
    /\ \A k \in Starting(descs) :
          /\ workers'[k] = start[k]
          /\ start[k] \notin cancelled' \/ start[k] \in {workers[l] : l \in DOMAIN workers \ Kept(descs)}
          /\ desc'[start[k]] \in descs /\ KeyOf[desc'[start[k]]] = k
          /\ phase'[start[k]] = "start"
    /\ cancelled' \subseteq cancelled \cup {workers[k] : k \in DOMAIN workers \ Kept(descs)}
    /\ \A k \in DOMAIN workers \ Kept(descs) : workers[k] \in cancelled'
    /\ \A w \in Workers : (\A k \in Starting(descs) : start[k] # w) =>
          /\ desc'[w] = desc[w] /\ phase'[w] = phase[w]
          /\ w \in cancelled => w \in cancelled'
    /\ desc' \in [Workers -> Descs]
    /\ phase' \in [Workers -> Phases]
    /\ UNCHANGED <<report, stage>>

LEMMA ReconcileFacts ==
    ASSUME TypeOK, NEW descs \in SUBSET Descs, Reconcile(descs)
    PROVE  \E start \in [Starting(descs) -> Free] : Reconciled(descs, start)
<1> DEFINE started(start) == {start[k] : k \in Starting(descs)}
           keyOf(start, w) == CHOOSE k \in Starting(descs) : start[k] = w
<1>1. PICK start \in [Starting(descs) -> Free] :
        /\ Injective(start)
        /\ workers' = [k \in Kept(descs) \cup Starting(descs) |->
                          IF k \in Kept(descs) THEN workers[k] ELSE start[k]]
        /\ cancelled' = (cancelled \ started(start)) \cup {workers[k] : k \in DOMAIN workers \ Kept(descs)}
        /\ desc' = [w \in Workers |-> IF w \in started(start) THEN DescOf(descs, keyOf(start, w)) ELSE desc[w]]
        /\ phase' = [w \in Workers |-> IF w \in started(start) THEN "start" ELSE phase[w]]
        /\ UNCHANGED <<report, stage>>
  BY DEF Reconcile
<1>2. \A k \in Starting(descs) : k \notin Kept(descs) /\ DescOf(descs, k) \in descs /\ KeyOf[DescOf(descs, k)] = k
  BY DEF Starting, DescOf
<1>3. \A k \in Starting(descs) : start[k] \in Workers /\ start[k] \in started(start)
  BY DEF Free
<1>4. \A w \in started(start) : keyOf(start, w) \in Starting(descs) /\ start[keyOf(start, w)] = w
  OBVIOUS
<1>5. \A k \in Starting(descs) : keyOf(start, start[k]) = k
  BY <1>1, <1>3, <1>4 DEF Injective
<1>6. \A k \in Starting(descs) : desc'[start[k]] = DescOf(descs, k) /\ phase'[start[k]] = "start"
  BY <1>1, <1>3, <1>5
<1>7. desc' \in [Workers -> Descs]
  <2>1. \A w \in Workers : w \in started(start) => DescOf(descs, keyOf(start, w)) \in Descs
    BY <1>2, <1>4
  <2> QED BY <1>1, <2>1 DEF TypeOK, TemperatureTypeOK
<1>8. phase' \in [Workers -> Phases]
  BY <1>1 DEF TypeOK, TemperatureTypeOK, Phases
<1>9. \A w \in Workers : (\A k \in Starting(descs) : start[k] # w) => w \notin started(start)
  OBVIOUS
<1>10. \A k \in DOMAIN workers \ Kept(descs) : workers[k] \in cancelled'
  BY <1>1
<1>11. DOMAIN workers' = Kept(descs) \cup Starting(descs) /\ \A k \in Kept(descs) : workers'[k] = workers[k]
  BY <1>1
<1>12. \A k \in Starting(descs) : workers'[k] = start[k]
  BY <1>1, <1>2
<1>13. \A w \in Workers : (\A k \in Starting(descs) : start[k] # w) =>
          desc'[w] = desc[w] /\ phase'[w] = phase[w] /\ (w \in cancelled => w \in cancelled')
  BY <1>1, <1>9
<1>14. \A k \in Starting(descs) :
          start[k] \notin cancelled' \/ start[k] \in {workers[l] : l \in DOMAIN workers \ Kept(descs)}
  BY <1>1, <1>3
<1>15. cancelled' \subseteq cancelled \cup {workers[k] : k \in DOMAIN workers \ Kept(descs)}
  BY <1>1
<1>16. \A k \in Starting(descs) :
          desc'[start[k]] \in descs /\ KeyOf[desc'[start[k]]] = k /\ phase'[start[k]] = "start"
  BY <1>2, <1>6
<1>17. UNCHANGED <<report, stage>>
  BY <1>1
<1>18. Reconciled(descs, start)
  BY <1>7, <1>8, <1>10, <1>11, <1>12, <1>13, <1>14, <1>15, <1>16, <1>17 DEF Reconciled
<1> QED BY <1>18

(* Reconcile keeps the types of the workers. *)
LEMMA ReconcileType ==
    ASSUME TypeOK, NEW descs \in SUBSET Descs, Reconcile(descs), UNCHANGED storeVars
    PROVE  TemperatureTypeOK'
<1>1. PICK start \in [Starting(descs) -> Free] : Reconciled(descs, start)
  BY ReconcileFacts
<1>2. Kept(descs) \subseteq DOMAIN workers /\ Starting(descs) \subseteq Keys /\ Free \subseteq Workers
  BY WorkersAssumption DEF Kept, Starting, Free
<1>3. \A k \in DOMAIN workers : k \in Keys /\ workers[k] \in Workers
  BY DEF TypeOK, TemperatureTypeOK
<1>4. DOMAIN workers' \subseteq Keys /\ cancelled' \subseteq Workers
  BY <1>1, <1>2, <1>3 DEF Reconciled, TypeOK, TemperatureTypeOK
<1>5. workers' \in [DOMAIN workers' -> Workers]
  <2>1. \A k \in DOMAIN workers' : workers'[k] \in Workers
    BY <1>1, <1>2, <1>3 DEF Reconciled
  <2>2. workers' = [k \in DOMAIN workers' |-> workers'[k]]
    BY DEF Reconcile
  <2> QED BY <2>1, <2>2
<1> QED BY <1>1, <1>4, <1>5 DEF Reconciled, TypeOK, TemperatureTypeOK, storeVars, IsFlags

(* A worker's loop keeps them too. *)
LEMMA WorkerType ==
    ASSUME TypeOK, NEW w \in Workers, WorkerStep(w)
    PROVE  TemperatureTypeOK'
<1> USE DEF TypeOK, TemperatureTypeOK
<1>1. KeyOfWorker(w) \in Keys
  BY WorkersAssumption DEF KeyOfWorker
<1>2. CASE StoreReport(w)
  <2>1. IsFlags(storeSupported')
    BY <1>1, <1>2, PutFlags DEF StoreReport
  <2>2. readings' \subseteq Keys
    BY <1>1, <1>2 DEF StoreReport
  <2>3. report' \in [Workers -> Reports] /\ stage' \in [Workers -> Stages]
    BY <1>2 DEF StoreReport, Reported, Reports, Stages
  <2> QED BY <1>2, <2>1, <2>2, <2>3 DEF StoreReport
<1>3. CASE PassOn(w)
  BY <1>3 DEF PassOn, Reported, Reports, Stages, storeVars, IsFlags
<1>4. CASE Retire(w)
  <2>1. workers' = workers \/ workers' = Without(workers, KeyOfWorker(w))
    BY <1>4 DEF Retire
  <2>2. DOMAIN workers' \subseteq Keys /\ workers' \in [DOMAIN workers' -> Workers]
    BY <2>1 DEF Without
  <2> QED BY <1>4, <2>2 DEF Retire, Step, Report, Phases, Reports, Stages, storeVars, IsFlags
<1>5. CASE \/ Begin(w) \/ Connects(w) \/ LinkFails(w) \/ Supports(w) \/ LacksSensor(w)
           \/ Reads(w) \/ PollAgain(w) \/ Retry(w) \/ StopWaiting(w)
  <2>1. UNCHANGED <<workers, desc, cancelled, storeVars>>
    BY <1>5 DEF Begin, Connects, LinkFails, Supports, LacksSensor, Reads, PollAgain, Retry,
                StopWaiting, Step
  <2>2. phase' \in [Workers -> Phases]
    BY <1>5 DEF Begin, Connects, LinkFails, Supports, LacksSensor, Reads, PollAgain, Retry,
                StopWaiting, Step, Phases
  <2>3. report' \in [Workers -> Reports] /\ stage' \in [Workers -> Stages]
    BY <1>5 DEF Begin, Connects, LinkFails, Supports, LacksSensor, Reads, PollAgain, Retry,
                StopWaiting, Report, NoReport, Reports, Stages
  <2> QED BY <2>1, <2>2, <2>3 DEF storeVars, IsFlags
<1> QED BY <1>2, <1>3, <1>4, <1>5 DEF WorkerStep

(* The variables of the process itself. *)
ProcessTypeOK ==
    /\ main \in MainPhases /\ registry \in Registries
    /\ work \subseteq Keys /\ published \subseteq Keys
    /\ replay = [supported |-> replay.supported, readings |-> replay.readings]
    /\ replay.readings \subseteq Keys /\ IsFlags(replay.supported)
    /\ IsFlags(mirrored)
    /\ reloads \in 0..MaxReloads /\ connects \in 0..MaxConnects
    /\ losses \in 0..MaxLosses /\ ticks \in 0..MaxTicks

LEMMA ProcessAlone ==
    ASSUME ProcessTypeOK, UNCHANGED <<mainVars, mirrored, counters>>
    PROVE  ProcessTypeOK'
BY DEF ProcessTypeOK, mainVars, counters, IsFlags

(* Startup, reloads and the attachment. *)
LEMMA MainType ==
    ASSUME TypeOK, MainStep
    PROVE  TemperatureTypeOK' /\ ProcessTypeOK'
<1> USE DEF TypeOK, ProcessTypeOK, MainPhases
<1>1. registry \cap Controlled \in SUBSET Descs
  BY ReportingAssumption
<1>2. CASE Startup
  <2>1. TemperatureTypeOK'
    BY <1>1, <1>2, ReconcileType DEF Startup
  <2> QED BY <1>2, <2>1 DEF Startup, counters, IsFlags
<1>3. CASE Reloaded
  <2>1. TemperatureTypeOK'
    BY <1>1, <1>3, ReconcileType DEF Reloaded
  <2>2. published' \subseteq Keys
    BY <1>3, WorkersAssumption, ReportingAssumption DEF Reloaded, Published, KeysOf
  <2> QED BY <1>3, <2>1, <2>2 DEF Reloaded, counters, IsFlags
<1>4. CASE PublishOne \/ RetireOne
  BY <1>4 DEF PublishOne, RetireOne, otherVars, workerVars, storeVars, counters,
              TemperatureTypeOK, IsFlags
<1>5. CASE Attach
  <2>1. published' \subseteq Keys
    BY <1>5, WorkersAssumption, ReportingAssumption DEF Attach, Published, KeysOf
  <2>2. replay' = [supported |-> storeSupported, readings |-> readings]
    BY <1>5 DEF Attach, Known
  <2>3. /\ replay' = [supported |-> replay'.supported, readings |-> replay'.readings]
        /\ replay'.readings \subseteq Keys /\ IsFlags(replay'.supported)
    BY <2>2 DEF TemperatureTypeOK
  <2>4. TemperatureTypeOK'
    BY <1>5 DEF Attach, otherVars, workerVars, TemperatureTypeOK, IsFlags
  <2> QED BY <1>5, <2>1, <2>3, <2>4 DEF Attach, otherVars, counters, IsFlags
<1>6. CASE ReplayCapability \/ ReplayReading
  <2>1. TemperatureTypeOK'
    BY <1>6 DEF ReplayCapability, ReplayReading, otherVars, workerVars, storeVars,
                TemperatureTypeOK, IsFlags
  <2>2. /\ replay' = [supported |-> replay'.supported, readings |-> replay'.readings]
        /\ replay'.readings \subseteq Keys /\ IsFlags(replay'.supported)
    <3>1. CASE ReplayCapability
      <4>1. PICK k : replay' = [replay EXCEPT !.supported = Without(@, k)]
        BY <3>1 DEF ReplayCapability
      <4>2. replay' = [supported |-> Without(replay.supported, k), readings |-> replay.readings]
        BY <4>1
      <4> QED BY <4>2, WithoutFlags
    <3>2. CASE ReplayReading
      <4>1. PICK k : replay' = [replay EXCEPT !.readings = @ \ {k}]
        BY <3>2 DEF ReplayReading
      <4>2. replay' = [supported |-> replay.supported, readings |-> replay.readings \ {k}]
        BY <4>1
      <4> QED BY <4>2
    <3> QED BY <1>6, <3>1, <3>2
  <2> QED BY <1>6, <2>1, <2>2 DEF ReplayCapability, ReplayReading, otherVars, counters, IsFlags
<1>7. CASE Replayed
  BY <1>7 DEF Replayed, otherVars, workerVars, storeVars, counters, TemperatureTypeOK, IsFlags
<1>8. CASE Reload
  <2>1. KeysOf(registry') \subseteq Keys
    BY <1>8, WorkersAssumption, ReportingAssumption DEF Reload, KeysOf
  <2> QED BY <1>8, <2>1, ReportingAssumption DEF Reload, workerVars, storeVars, TemperatureTypeOK, IsFlags
<1> QED BY <1>2, <1>3, <1>4, <1>5, <1>6, <1>7, <1>8 DEF MainStep

(* Every step keeps the types. *)
LEMMA TypeStep ==
    ASSUME TypeOK, [Next]_vars
    PROVE  TypeOK'
<1>1. DiscoveryTypeOK'
  BY Steps, DiscoveryTypes DEF TypeOK
<1>2. TemperatureTypeOK' /\ ProcessTypeOK'
  <2>1. ProcessTypeOK /\ TemperatureTypeOK
    BY DEF TypeOK, ProcessTypeOK
  <2>2. ASSUME UNCHANGED <<workerVars, storeVars>> PROVE TemperatureTypeOK'
    BY <2>1, <2>2 DEF workerVars, storeVars, TemperatureTypeOK, IsFlags
  <2>3. CASE UNCHANGED vars
    BY <2>1, <2>2, <2>3, ProcessAlone DEF vars
  <2>4. CASE MainStep
    BY <2>4, MainType
  <2>5. CASE MirrorTick
    <3>1. IsFlags(mirrored')
      <4>1. PICK ids \in SUBSET KeysOf(registry) : mirrored' \in [ids -> BOOLEAN]
        BY <2>5 DEF MirrorTick
      <4>2. KeysOf(registry) \subseteq Keys
        BY WorkersAssumption, ReportingAssumption DEF KeysOf, TypeOK
      <4> QED BY <4>1, <4>2 DEF IsFlags
    <3>2. ticks' \in 0..MaxTicks
      BY <2>1, <2>5, ReportingAssumption DEF MirrorTick, ProcessTypeOK
    <3> QED BY <2>1, <2>2, <2>5, <3>1, <3>2 DEF MirrorTick, mainVars, ProcessTypeOK, IsFlags
  <2>6. CASE MirrorOne
    <3>1. IsFlags(mirrored')
      BY <2>1, <2>6, WithoutFlags DEF MirrorOne, ProcessTypeOK
    <3> QED BY <2>1, <2>2, <2>6, <3>1 DEF MirrorOne, mainVars, counters, ProcessTypeOK, IsFlags
  <2>7. CASE Disconnect
    BY <2>1, <2>2, <2>7, ProcessAlone DEF Disconnect
  <2>8. CASE \E h \in Handlers : Connect(h)
    BY <2>1, <2>2, <2>8, ReportingAssumption DEF Connect, mainVars, ProcessTypeOK, IsFlags
  <2>9. CASE \E g \in Senders : SenderStep(g)
    BY <2>1, <2>2, <2>9, ReportingAssumption DEF SenderStep, mainVars, ProcessTypeOK, IsFlags
  <2>10. CASE \E w \in Workers : Work(w)
    BY <2>1, <2>10, WorkerType, ProcessAlone DEF Work
  <2> QED BY <2>3, <2>4, <2>5, <2>6, <2>7, <2>8, <2>9, <2>10 DEF Next
<1> QED BY <1>1, <1>2 DEF TypeOK, ProcessTypeOK

LEMMA InitType == Init => TypeOK
<1> SUFFICES ASSUME Init PROVE TypeOK
  OBVIOUS
<1>1. DiscoveryTypeOK
  BY DEF Init, DiscoveryInit, DiscoveryTypeOK, IsFlags, Values
<1>2. KeysOf(registry) \subseteq Keys
  BY WorkersAssumption, ReportingAssumption DEF Init, KeysOf
<1>3. \E d \in Descs : TRUE
  BY ReportingAssumption DEF Init
<1>4. desc \in [Workers -> Descs]
  BY <1>3 DEF Init
<1>5. workers = [k \in {} |-> workers[k]] /\ DOMAIN workers = {}
  BY DEF Init
<1>6. TemperatureTypeOK
  BY <1>4, <1>5 DEF Init, TemperatureTypeOK, Phases, Reports, Stages, IsFlags
<1> QED BY <1>1, <1>2, <1>6, ReportingAssumption DEF Init, TypeOK, MainPhases, IsFlags

(* The variables of the service, the temperature link and the process have *)
(* their types.                                                            *)
THEOREM TypeCorrect == Spec => []TypeOK
<1>1. Init => TypeOK
  BY InitType
<1>2. TypeOK /\ [Next]_vars => TypeOK'
  BY TypeStep
<1> QED BY <1>1, <1>2, PTL DEF Spec

---------------------------------------------------------------------------
(* What the service knows, and what it says.                               *)

(* A registered camera is recorded, and a record goes with its camera. *)
LEMMA OperationLeavesNothing ==
    ASSUME NoTemperatureLeftBehind, NEW g, NEW k, Operation(g, k)
    PROVE  NoTemperatureLeftBehind'
<1>1. CASE Upsert(g, k) \/ \E up \in BOOLEAN : SetCameraAvailable(g, k, up)
  BY <1>1 DEF Upsert, SetCameraAvailable, NoTemperatureLeftBehind
<1>2. CASE \E supports \in BOOLEAN : SetTemperatureSupported(g, k, supports)
  <2>1. PICK supports \in BOOLEAN : SetTemperatureSupported(g, k, supports)
    BY <1>2
  <2>2. CASE k \in cameras
    <3>1. DOMAIN supported' = DOMAIN supported \cup {k}
      BY <2>1, <2>2 DEF SetTemperatureSupported, Put
    <3>2. DOMAIN controlUp' \subseteq DOMAIN controlUp
      BY <2>1, <2>2 DEF SetTemperatureSupported, Without
    <3> QED BY <2>1, <2>2, <3>1, <3>2 DEF SetTemperatureSupported, NoTemperatureLeftBehind
  <2>3. CASE k \notin cameras
    BY <2>1, <2>3 DEF SetTemperatureSupported, NoTemperatureLeftBehind
  <2> QED BY <2>2, <2>3
<1>3. CASE SetTemperatureAvailable(g, k, FALSE) \/ PublishTemperature(g, k)
  <2>1. DOMAIN controlUp' \subseteq DOMAIN controlUp \cup ({k} \cap cameras)
    BY <1>3 DEF SetTemperatureAvailable, PublishTemperature, Recorded, Put
  <2> QED BY <1>3, <2>1 DEF SetTemperatureAvailable, PublishTemperature, NoTemperatureLeftBehind
<1>4. CASE Remove(g, k)
  BY <1>4 DEF Remove, Without, NoTemperatureLeftBehind
<1> QED BY <1>1, <1>2, <1>3, <1>4 DEF Operation

LEMMA NothingLeftBehind ==
    ASSUME NoTemperatureLeftBehind, DiscoveryNext
    PROVE  NoTemperatureLeftBehind'
<1>1. CASE UNCHANGED <<cameras, supported, controlUp>>
  BY <1>1 DEF NoTemperatureLeftBehind
<1>2. CASE \E g \in Senders, k \in Keys : Operation(g, k)
  BY <1>2, OperationLeavesNothing
<1>3. CASE UNCHANGED discoveryVars
  BY <1>1, <1>3 DEF discoveryVars, serviceVars
<1>4. CASE ConnectionLost
  BY <1>1, <1>4 DEF ConnectionLost
<1>5. CASE \E h \in Handlers : OnConnect(h)
  BY <1>1, <1>5 DEF OnConnect
<1>6. CASE \E g \in Senders : Sending(g)
  BY <1>1, <1>6 DEF Sending, PublishCamera, Publish, PublishFails, serviceVars
<1> QED BY <1>2, <1>3, <1>4, <1>5, <1>6 DEF DiscoveryNext

(* What an operation hands over is true of its camera, if that remains. *)
LEMMA OperationTrue ==
    ASSUME DiscoveryTypeOK, NEW g \in Senders, NEW k \in Keys, Operation(g, k),
           NEW m \in todo'[g], k \in cameras'
    PROVE  m.key = k /\ m.value = Wanted(k, m.topic)'
<1>1. ASSUME NEW msgs, Send(g, msgs) PROVE m \in msgs
  BY <1>1 DEF Send, DiscoveryTypeOK
<1>2. CASE Upsert(g, k)
  BY <1>2 DEF Upsert, Idle
<1>3. CASE \E up \in BOOLEAN : SetCameraAvailable(g, k, up)
  <2>1. PICK up \in BOOLEAN : SetCameraAvailable(g, k, up)
    BY <1>3
  <2>2. m = Message(k, "availability", Payload(up))
    BY <1>1, <2>1 DEF SetCameraAvailable
  <2>3. Payload(Holds(available', k)) = Payload(up)
    BY <2>1 DEF SetCameraAvailable, Put, Holds, Payload
  <2> QED BY <2>2, <2>3 DEF Message, Wanted
<1>4. CASE \E supports \in BOOLEAN : SetTemperatureSupported(g, k, supports)
  <2>1. PICK supports \in BOOLEAN : SetTemperatureSupported(g, k, supports)
    BY <1>4
  <2>2. k \in cameras
    BY <2>1 DEF SetTemperatureSupported
  <2>3. m \in TemperatureEntity(k, supports, Holds(controlUp', k))
    BY <1>1, <2>1, <2>2 DEF SetTemperatureSupported
  <2>4. Holds(supported', k) <=> supports
    BY <2>1, <2>2 DEF SetTemperatureSupported, Put, Holds
  <2> QED BY <2>3, <2>4 DEF TemperatureEntity, Message, Wanted
<1>5. CASE SetTemperatureAvailable(g, k, FALSE)
  <2>1. controlUp' = Put(controlUp, k, FALSE) /\ supported' = supported
    BY <1>5 DEF SetTemperatureAvailable, Recorded
  <2>2. m = Message(k, "temperature", Payload(FALSE)) /\ Holds(supported, k)
    BY <1>1, <1>5 DEF SetTemperatureAvailable
  <2>3. ~Holds(controlUp', k)
    BY <2>1 DEF Put, Holds
  <2> QED BY <2>1, <2>2, <2>3 DEF Message, Wanted, Payload
<1>6. CASE PublishTemperature(g, k)
  <2>1. controlUp' = Put(controlUp, k, TRUE) /\ supported' = supported
    BY <1>6 DEF PublishTemperature, Recorded
  <2>2. m = Message(k, "temperature", "online") /\ Holds(supported, k)
    BY <1>1, <1>6 DEF PublishTemperature
  <2>3. Holds(controlUp', k)
    BY <2>1 DEF Put, Holds
  <2> QED BY <2>1, <2>2, <2>3 DEF Message, Wanted, Payload
<1>7. CASE Remove(g, k)
  BY <1>7 DEF Remove
<1> QED BY <1>2, <1>3, <1>4, <1>5, <1>6, <1>7 DEF Operation

(* The copy that publishCamera takes is true of its camera. *)
LEMMA CopyTrue ==
    ASSUME NEW k, NEW m \in CameraMessages(k)
    PROVE  m.key = k /\ m.value = Wanted(k, m.topic)
BY DEF CameraMessages, TemperatureEntity, Message, Wanted

(* What an operation hands over is about its camera. *)
LEMMA OperationKey ==
    ASSUME DiscoveryTypeOK, NEW g \in Senders, NEW k \in Keys, Operation(g, k), NEW m \in todo'[g]
    PROVE  m.key = k
<1>1. ASSUME NEW msgs, Send(g, msgs) PROVE m \in msgs
  BY <1>1 DEF Send, DiscoveryTypeOK
<1>2. CASE Remove(g, k)
  <2>1. m \in {Message(k, t, "none") : t \in {"entity", "temperature"}}
    BY <1>1, <1>2 DEF Remove
  <2> QED BY <2>1 DEF Message
<1>3. CASE k \in cameras'
  BY <1>3, OperationTrue
<1>4. CASE k \notin cameras' /\ ~Remove(g, k)
  <2>1. CASE \E up \in BOOLEAN : SetCameraAvailable(g, k, up)
    <3>1. PICK up \in BOOLEAN : SetCameraAvailable(g, k, up)
      BY <2>1
    <3>2. m = Message(k, "availability", Payload(up))
      BY <1>1, <3>1 DEF SetCameraAvailable
    <3> QED BY <3>2 DEF Message
  <2>2. CASE \/ Upsert(g, k) \/ \E supports \in BOOLEAN : SetTemperatureSupported(g, k, supports)
             \/ SetTemperatureAvailable(g, k, FALSE) \/ PublishTemperature(g, k)
    <3>1. \/ Upsert(g, k)
          \/ todo' = todo /\ Idle(g)
          \/ Send(g, {})
      BY <1>4, <2>2 DEF SetTemperatureSupported, SetTemperatureAvailable, PublishTemperature
    <3> QED BY <1>1, <1>4, <3>1 DEF Upsert, Idle
  <2> QED BY <1>4, <2>1, <2>2 DEF Operation
<1> QED BY <1>2, <1>3, <1>4

(* MessagesTrue, of one step of the service. *)
LEMMA TrueStep ==
    ASSUME DiscoveryTypeOK, DiscoveryNext, NEW g \in Senders, NEW m \in todo'[g] \ todo[g],
           m.key \in cameras'
    PROVE  m.value = Wanted(m.key, m.topic)'
<1>1. CASE todo' = todo
  BY <1>1
<1>2. CASE UNCHANGED discoveryVars \/ ConnectionLost \/ \E h \in Handlers : OnConnect(h)
  BY <1>1, <1>2 DEF discoveryVars, ConnectionLost, OnConnect
<1>3. CASE \E h \in Senders : Sending(h)
  <2>1. PICK h \in Senders : Sending(h)
    BY <1>3
  <2>2. UNCHANGED serviceVars
    BY <2>1 DEF Sending, PublishCamera, Publish, PublishFails
  <2>3. CASE PublishCamera(h)
    <3>1. PICK k \in queue[h] : todo' = [todo EXCEPT ![h] = CameraMessages(k)]
      BY <2>3 DEF PublishCamera
    <3>2. m \in CameraMessages(k)
      BY <3>1 DEF DiscoveryTypeOK
    <3>3. m.key = k /\ m.value = Wanted(k, m.topic)
      BY <3>2, CopyTrue
    <3> QED BY <2>2, <3>3, WantedSame DEF serviceVars
  <2>4. CASE Publish(h) \/ PublishFails(h)
    <3>1. PICK n : todo' = [todo EXCEPT ![h] = @ \ {n}]
      BY <2>4 DEF Publish, PublishFails
    <3> QED BY <3>1 DEF DiscoveryTypeOK
  <2> QED BY <2>1, <2>3, <2>4 DEF Sending
<1>4. CASE \E h \in Senders, k \in Keys : Operation(h, k)
  <2>1. PICK h \in Senders, k \in Keys : Operation(h, k)
    BY <1>4
  <2>2. h = g
    BY <2>1, OperationSends
  <2>3. m.key = k
    BY <2>1, <2>2, OperationKey
  <2> QED BY <2>1, <2>2, <2>3, OperationTrue
<1> QED BY <1>2, <1>3, <1>4 DEF DiscoveryNext

(* The theorems of the service, for the process that uses it. *)
ServiceInv == TypeOK /\ RetainedCurrent /\ NoTemperatureLeftBehind

LEMMA ServiceInvariant == Spec => []ServiceInv
<1>1. Init => ServiceInv
  <2> SUFFICES ASSUME Init PROVE ServiceInv
    OBVIOUS
  <2>1. RetainedCurrent /\ NoTemperatureLeftBehind
    BY DEF Init, DiscoveryInit, RetainedCurrent, NoTemperatureLeftBehind
  <2> QED BY <2>1, InitType DEF ServiceInv
<1>2. ServiceInv /\ [Next]_vars => ServiceInv'
  <2> SUFFICES ASSUME ServiceInv, [Next]_vars PROVE ServiceInv'
    OBVIOUS
  <2>1. TypeOK /\ DiscoveryTypeOK /\ RetainedCurrent /\ NoTemperatureLeftBehind
    BY DEF ServiceInv, TypeOK
  <2>2. TypeOK'
    BY <2>1, TypeStep
  <2>3. RetainedCurrent' /\ NoTemperatureLeftBehind'
    BY <2>1, Steps, NothingForgotten, NothingLeftBehind
  <2> QED BY <2>2, <2>3 DEF ServiceInv
<1> QED BY <1>1, <1>2, PTL DEF Spec

(* While connected, what the broker retains of a registered camera is what *)
(* the service knows of it, but for what is on its way, lost or overtaken. *)
THEOREM RetainedIsCurrent == Spec => []RetainedCurrent
<1>1. ServiceInv => RetainedCurrent
  BY DEF ServiceInv
<1> QED BY <1>1, ServiceInvariant, PTL

(* Nothing of a temperature is kept for a camera that is not registered.   *)
THEOREM NoneLeftBehind == Spec => []NoTemperatureLeftBehind
<1>1. ServiceInv => NoTemperatureLeftBehind
  BY DEF ServiceInv
<1> QED BY <1>1, ServiceInvariant, PTL

(* Messages are true of registered cameras when they are composed.         *)
THEOREM TrueMessages == Spec => MessagesTrue
<1>1. ASSUME ServiceInv, [Next]_vars
      PROVE  [\A g \in Senders : \A m \in todo'[g] \ todo[g] :
                 m.key \in cameras' => m.value = Wanted(m.key, m.topic)']_vars
  <2>1. TypeOK /\ DiscoveryTypeOK /\ DiscoveryNext
    BY <1>1, Steps DEF ServiceInv, TypeOK
  <2> QED BY <2>1, TrueStep
<1> QED BY <1>1, ServiceInvariant, PTL DEF Spec, MessagesTrue

---------------------------------------------------------------------------
(* Startup and reloads bring the registry to the service.                  *)

(* What holds in between: the service has what was published before, and   *)
(* what of the registry has been gone through.                             *)
Following ==
    /\ main = "starting" =>
          cameras = {} /\ published = {} /\ work = KeysOf(registry) /\ ~attached
    /\ main = "publishing" =>
          work \subseteq KeysOf(registry) /\ cameras = published \cup (KeysOf(registry) \ work)
    /\ main \in {"replaying", "idle"} =>
          cameras = KeysOf(registry) /\ published = KeysOf(registry) /\ attached

(* Only the goroutine of startup and reloads registers and removes. *)
LEMMA OthersFollow ==
    ASSUME [Next]_vars, ~MainStep
    PROVE  UNCHANGED <<cameras, main, registry, work, published, attached>>
<1>1. CASE UNCHANGED vars
  BY <1>1 DEF vars, discoveryVars, serviceVars, mainVars, storeVars
<1>2. CASE MirrorTick \/ MirrorOne
  BY <1>2 DEF MirrorTick, MirrorOne, SetCameraAvailable, discoveryVars, serviceVars, mainVars, storeVars
<1>3. CASE Disconnect \/ \E h \in Handlers : Connect(h)
  BY <1>3 DEF Disconnect, ConnectionLost, Connect, OnConnect, mainVars, storeVars
<1>4. CASE \E g \in Senders : SenderStep(g)
  BY <1>4 DEF SenderStep, PublishCamera, Publish, PublishFails, serviceVars, mainVars, storeVars
<1>5. CASE \E w \in Workers : Work(w)
  <2>1. PICK w \in Workers : WorkerStep(w) /\ UNCHANGED mainVars
    BY <1>5 DEF Work
  <2>2. CASE StoreReport(w)
    BY <2>1, <2>2 DEF StoreReport, mainVars, discoveryVars, serviceVars
  <2>3. CASE PassOn(w)
    BY <2>1, <2>3 DEF PassOn, SetTemperatureSupported, SetTemperatureAvailable,
                      PublishTemperature, mainVars, storeVars
  <2>4. CASE ~StoreReport(w) /\ ~PassOn(w)
    BY <2>1, <2>4 DEF WorkerStep, Begin, Connects, LinkFails, Supports, LacksSensor, Reads,
                      PollAgain, Retry, StopWaiting, Retire, Step, mainVars, storeVars,
                      discoveryVars, serviceVars
  <2> QED BY <2>2, <2>3, <2>4
<1> QED BY <1>1, <1>2, <1>3, <1>4, <1>5 DEF Next

LEMMA FollowingStep ==
    ASSUME Following, [Next]_vars
    PROVE  Following'
<1> USE DEF Following
<1>1. CASE ~MainStep
  <2>1. KeysOf(registry)' = KeysOf(registry)
    BY <1>1, OthersFollow DEF KeysOf
  <2> QED BY <1>1, <2>1, OthersFollow
<1>2. CASE Startup
  BY <1>2 DEF Startup, discoveryVars, serviceVars, storeVars, KeysOf
<1>3. CASE PublishOne
  BY <1>3 DEF PublishOne, Upsert, storeVars, KeysOf
<1>4. CASE RetireOne
  BY <1>4 DEF RetireOne, Remove, Departed, storeVars, KeysOf
<1>5. CASE Attach
  BY <1>5 DEF Attach, Published, Departed, discoveryVars, serviceVars, KeysOf
<1>6. CASE ReplayCapability \/ ReplayReading
  BY <1>6 DEF ReplayCapability, ReplayReading, SetTemperatureSupported, PublishTemperature,
              storeVars, KeysOf
<1>7. CASE Replayed
  BY <1>7 DEF Replayed, discoveryVars, serviceVars, storeVars, KeysOf
<1>8. CASE Reload
  BY <1>8 DEF Reload, discoveryVars, serviceVars, storeVars, KeysOf
<1>9. CASE Reloaded
  BY <1>9 DEF Reloaded, Published, Departed, discoveryVars, serviceVars, storeVars, KeysOf
<1> QED BY <1>1, <1>2, <1>3, <1>4, <1>5, <1>6, <1>7, <1>8, <1>9 DEF MainStep

(* Between reloads the service and the publisher have the registry's       *)
(* cameras.                                                                *)
THEOREM RegistryFollowed == Spec => []ServiceFollowsRegistry
<1>1. Init => Following
  BY DEF Init, DiscoveryInit, Following
<1>2. Following /\ [Next]_vars => Following'
  BY FollowingStep
<1>3. Following => ServiceFollowsRegistry
  BY DEF Following, ServiceFollowsRegistry
<1> QED BY <1>1, <1>2, <1>3, PTL DEF Spec

---------------------------------------------------------------------------
(* The workers.                                                            *)

(* The registered workers, and nobody else, are not cancelled. *)
OneWorker ==
    /\ \A k \in DOMAIN workers :
          /\ KeyOf[desc[workers[k]]] = k
          /\ phase[workers[k]] # "ended" /\ workers[k] \notin cancelled
    /\ \A w \in Workers : phase[w] # "ended" /\ w \notin cancelled => Current(w)

(* A worker gives up of its own accord only where there is no sensor. *)
OnlySensorless == \A w \in Workers :
    phase[w] = "ending" /\ w \notin cancelled => KeyOfWorker(w) \notin Capable

Serves(descs) ==
    /\ \A k \in DOMAIN workers : desc[workers[k]] \in descs
    /\ \A d \in descs : KeyOf[d] \in Capable => KeyOf[d] \in DOMAIN workers

WorkersInv == OneWorker /\ OnlySensorless

(* A worker's own steps. *)
LEMMA WorkerKeeps ==
    ASSUME TypeOK, WorkersInv, NEW w \in Workers, WorkerStep(w)
    PROVE  WorkersInv' /\ \A descs : Serves(descs) => Serves(descs)'
<1> USE DEF WorkersInv
<1>1. desc' = desc /\ cancelled' = cancelled
  BY DEF WorkerStep, StoreReport, PassOn, Begin, Connects, LinkFails, Supports, LacksSensor,
         Reads, PollAgain, Retry, StopWaiting, Retire, Step
<1>2. \A v \in Workers : KeyOfWorker(v)' = KeyOfWorker(v)
  BY <1>1 DEF KeyOfWorker
<1>3. phase \in [Workers -> Phases]
  BY DEF TypeOK, TemperatureTypeOK
<1>4. CASE StoreReport(w) \/ PassOn(w)
  <2>1. UNCHANGED <<workers, phase>>
    BY <1>4 DEF StoreReport, PassOn
  <2> QED BY <1>1, <1>2, <2>1 DEF OneWorker, OnlySensorless, Serves, Current
<1>5. CASE Retire(w)
  <2>1. phase[w] = "ending" /\ phase' = [phase EXCEPT ![w] = "ended"]
    BY <1>5 DEF Retire, Step
  <2>2. CASE Current(w)
    <3>1. workers' = Without(workers, KeyOfWorker(w))
      BY <1>5, <2>2 DEF Retire
    <3>2. DOMAIN workers' = DOMAIN workers \ {KeyOfWorker(w)}
          /\ \A k \in DOMAIN workers' : workers'[k] = workers[k]
      BY <3>1 DEF Without
    <3>3. KeyOfWorker(w) \notin Capable
      BY <2>1, <2>2 DEF OneWorker, OnlySensorless, Current
    <3>4. \A k \in DOMAIN workers' : workers[k] # w
      BY <2>2, <3>2 DEF OneWorker, KeyOfWorker
    <3>5. \A v \in Workers : phase'[v] # "ended" => v # w /\ phase'[v] = phase[v]
      BY <1>3, <2>1
    <3>6. \A k \in DOMAIN workers' : phase'[workers[k]] # "ended"
      BY <1>3, <2>1, <3>2, <3>4 DEF OneWorker, TypeOK, TemperatureTypeOK
    <3>7. \A v \in Workers : v # w /\ Current(v) => KeyOfWorker(v) # KeyOfWorker(w)
      BY <2>2 DEF Current
    <3>8. OneWorker'
      BY <1>1, <1>2, <3>2, <3>5, <3>6, <3>7 DEF OneWorker, Current
    <3>9. OnlySensorless'
      BY <1>1, <1>2, <1>3, <2>1 DEF OnlySensorless
    <3>10. \A descs : Serves(descs) => Serves(descs)'
      BY <1>1, <3>2, <3>3 DEF Serves
    <3> QED BY <3>8, <3>9, <3>10
  <2>3. CASE ~Current(w)
    <3>1. workers' = workers
      BY <1>5, <2>3 DEF Retire
    <3>2. \A k \in DOMAIN workers : workers[k] # w
      BY <2>3 DEF Current, OneWorker, KeyOfWorker
    <3> QED BY <1>1, <1>2, <1>3, <2>1, <3>1, <3>2 DEF OneWorker, OnlySensorless, Serves, Current,
                                                      TypeOK, TemperatureTypeOK
  <2> QED BY <2>2, <2>3
<1>6. CASE \/ Begin(w) \/ Connects(w) \/ LinkFails(w) \/ Supports(w) \/ LacksSensor(w)
           \/ Reads(w) \/ PollAgain(w) \/ Retry(w) \/ StopWaiting(w)
  <2>1. workers' = workers
    BY <1>6 DEF Begin, Connects, LinkFails, Supports, LacksSensor, Reads, PollAgain, Retry, StopWaiting
  <2>2. phase[w] # "ended" /\ \E to \in Phases \ {"ended"} : phase' = [phase EXCEPT ![w] = to]
    BY <1>6 DEF Begin, Connects, LinkFails, Supports, LacksSensor, Reads, PollAgain, Retry,
                StopWaiting, Step, Phases
  <2>3. phase'[w] = "ending" => KeyOfWorker(w) \notin Capable \/ w \in cancelled
    BY <1>3, <1>6 DEF Begin, Connects, LinkFails, Supports, LacksSensor, Reads, PollAgain, Retry,
                StopWaiting, Step
  <2>4. \A v \in Workers : (phase'[v] # "ended" <=> phase[v] # "ended") /\ (v # w => phase'[v] = phase[v])
    BY <1>3, <2>2
  <2>5. \A k \in DOMAIN workers : workers[k] \in Workers
    BY DEF TypeOK, TemperatureTypeOK
  <2>6. OneWorker'
    BY <1>1, <1>2, <2>1, <2>4, <2>5 DEF OneWorker, Current
  <2>7. OnlySensorless'
    BY <1>1, <1>2, <2>3, <2>4 DEF OnlySensorless
  <2> QED BY <1>1, <2>1, <2>6, <2>7 DEF Serves
<1> QED BY <1>4, <1>5, <1>6 DEF WorkerStep

(* Reconcile: whoever it keeps or starts is registered and not cancelled,  *)
(* whoever it drops is cancelled.                                          *)
LEMMA ReconcileKeeps ==
    ASSUME TypeOK, WorkersInv, NEW descs \in SUBSET Descs, Reconcile(descs)
    PROVE  WorkersInv' /\ Serves(descs)'
<1> USE DEF WorkersInv
<1>1. PICK start \in [Starting(descs) -> Free] : Reconciled(descs, start)
  BY ReconcileFacts
<1>2. \A k \in DOMAIN workers : workers[k] \in Workers
  BY DEF TypeOK, TemperatureTypeOK
<1>3. \A k \in Starting(descs) : start[k] \in Workers /\ phase[start[k]] = "ended"
  BY DEF Free
<1>4. Kept(descs) \subseteq DOMAIN workers /\ Kept(descs) \cap Starting(descs) = {}
  BY DEF Kept, Starting
<1>5. \A k \in DOMAIN workers : \A l \in Starting(descs) : start[l] # workers[k]
  BY <1>3 DEF OneWorker
<1>6. \A k \in DOMAIN workers : desc'[workers[k]] = desc[workers[k]] /\ phase'[workers[k]] = phase[workers[k]]
  BY <1>1, <1>2, <1>5 DEF Reconciled
<1>7. \A k, l \in DOMAIN workers : workers[k] = workers[l] => k = l
  BY DEF OneWorker
<1>8. \A k \in Kept(descs) : workers[k] \notin cancelled'
  BY <1>1, <1>4, <1>7 DEF Reconciled, OneWorker
<1>9. \A k \in Starting(descs) : start[k] \notin cancelled'
  BY <1>1, <1>5 DEF Reconciled
<1>10. \A k \in Kept(descs) : workers'[k] = workers[k] /\ KeyOf[desc'[workers[k]]] = k
                              /\ phase'[workers[k]] # "ended" /\ desc'[workers[k]] \in descs
  BY <1>1, <1>4, <1>6 DEF Reconciled, OneWorker, Kept
<1>11. \A k \in Starting(descs) : workers'[k] = start[k] /\ KeyOf[desc'[start[k]]] = k
                              /\ phase'[start[k]] = "start" /\ desc'[start[k]] \in descs
  BY <1>1 DEF Reconciled
<1>12. DOMAIN workers' = Kept(descs) \cup Starting(descs)
  BY <1>1 DEF Reconciled
<1>13. \A k \in DOMAIN workers' :
          /\ KeyOf[desc'[workers'[k]]] = k
          /\ phase'[workers'[k]] # "ended" /\ workers'[k] \notin cancelled'
          /\ desc'[workers'[k]] \in descs
  BY <1>8, <1>9, <1>10, <1>11, <1>12
<1>14. ASSUME NEW w \in Workers, \A k \in Starting(descs) : start[k] # w, w \notin cancelled'
       PROVE  /\ desc'[w] = desc[w] /\ phase'[w] = phase[w] /\ w \notin cancelled
  BY <1>1, <1>14 DEF Reconciled
<1>15. ASSUME NEW w \in Workers, phase'[w] # "ended", w \notin cancelled'
       PROVE  Current(w)'
  <2>1. CASE \E k \in Starting(descs) : start[k] = w
    <3>1. PICK k \in Starting(descs) : start[k] = w
      BY <2>1
    <3> QED BY <1>11, <1>12, <3>1 DEF Current, KeyOfWorker
  <2>2. CASE \A k \in Starting(descs) : start[k] # w
    <3>1. desc'[w] = desc[w] /\ Current(w)
      BY <1>14, <1>15, <2>2 DEF OneWorker
    <3>2. KeyOfWorker(w) \in Kept(descs)
      BY <1>1, <1>15, <3>1 DEF Reconciled, Current
    <3>3. KeyOfWorker(w)' = KeyOfWorker(w)
      BY <3>1 DEF KeyOfWorker
    <3> QED BY <1>10, <1>12, <3>1, <3>2, <3>3 DEF Current
  <2> QED BY <2>1, <2>2
<1>16. OneWorker'
  BY <1>13, <1>15 DEF OneWorker
<1>17. ASSUME NEW w \in Workers, phase'[w] = "ending", w \notin cancelled'
       PROVE  KeyOfWorker(w)' \notin Capable
  <2>1. \A k \in Starting(descs) : start[k] # w
    BY <1>11, <1>17
  <2> QED BY <1>14, <1>17, <2>1 DEF OnlySensorless, KeyOfWorker
<1>18. OnlySensorless'
  BY <1>17 DEF OnlySensorless
<1>19. \A d \in descs : KeyOf[d] \in DOMAIN workers'
  BY <1>12 DEF Starting
<1>20. Serves(descs)'
  BY <1>13, <1>19 DEF Serves
<1> QED BY <1>16, <1>18, <1>20

(* Between Reconcile and the next Reload the workers serve the registry.   *)
Serving ==
    /\ Following
    /\ main \in {"replaying", "idle"} \/ (main = "publishing" /\ ~attached)
          => Serves(registry \cap Controlled)

LinkInv == TypeOK /\ WorkersInv /\ Serving

LEMMA LinkStep ==
    ASSUME LinkInv, [Next]_vars
    PROVE  LinkInv'
<1> USE DEF LinkInv
<1>1. TypeOK' /\ Following'
  BY TypeStep, FollowingStep DEF Serving
<1>2. registry \cap Controlled \in SUBSET Descs
  BY ReportingAssumption
<1>3. ASSUME UNCHANGED workerVars
      PROVE  WorkersInv' /\ \A descs : Serves(descs) => Serves(descs)'
  BY <1>3 DEF workerVars, WorkersInv, OneWorker, OnlySensorless, Serves, Current, KeyOfWorker
<1>4. CASE Startup
  <2>1. WorkersInv' /\ Serves(registry \cap Controlled)'
    BY <1>2, <1>4, ReconcileKeeps DEF Startup
  <2> QED BY <1>1, <1>4, <2>1 DEF Startup, Serving
<1>5. CASE Reloaded
  <2>1. WorkersInv' /\ Serves(registry \cap Controlled)'
    BY <1>2, <1>5, ReconcileKeeps DEF Reloaded
  <2> QED BY <1>1, <1>5, <2>1 DEF Reloaded, Serving
<1>6. CASE Reload
  <2>1. main = "idle" /\ attached' = attached /\ main' = "publishing" /\ UNCHANGED workerVars
    BY <1>6 DEF Reload, storeVars
  <2> QED BY <1>1, <1>3, <2>1 DEF Serving, Following
<1>7. CASE PublishOne \/ RetireOne \/ ReplayCapability \/ ReplayReading \/ Replayed
  <2>1. UNCHANGED <<workerVars, attached, registry>>
    BY <1>7 DEF PublishOne, RetireOne, ReplayCapability, ReplayReading, Replayed, otherVars, storeVars
  <2>2. main' = main \/ (main = "replaying" /\ main' = "idle")
    BY <1>7 DEF PublishOne, RetireOne, ReplayCapability, ReplayReading, Replayed
  <2>3. Serves(registry \cap Controlled) => Serves(registry \cap Controlled)'
    BY <2>1 DEF Serves, workerVars
  <2> QED BY <1>1, <1>3, <2>1, <2>2, <2>3 DEF Serving
<1>8. CASE Attach
  <2>1. main = "publishing" /\ ~attached /\ UNCHANGED <<workerVars, registry>>
    BY <1>8 DEF Attach, Published, otherVars
  <2>2. Serves(registry \cap Controlled)'
    BY <2>1 DEF Serving, Serves, workerVars
  <2> QED BY <1>1, <1>3, <2>1, <2>2 DEF Serving
<1>9. CASE ~MainStep
  <2>1. UNCHANGED <<main, registry, attached>>
    BY <1>9, OthersFollow
  <2>2. WorkersInv' /\ \A descs : Serves(descs) => Serves(descs)'
    <3>1. CASE UNCHANGED vars
      BY <1>3, <3>1 DEF vars
    <3>2. CASE \E w \in Workers : Work(w)
      <4>1. PICK w \in Workers : WorkerStep(w)
        BY <3>2 DEF Work
      <4> QED BY <4>1, WorkerKeeps
    <3>3. CASE \/ MirrorTick \/ MirrorOne \/ Disconnect
               \/ \E h \in Handlers : Connect(h)
               \/ \E g \in Senders : SenderStep(g)
      <4>1. UNCHANGED workerVars
        BY <3>3 DEF MirrorTick, MirrorOne, Disconnect, Connect, SenderStep
      <4> QED BY <1>3, <4>1
    <3> QED BY <1>9, <3>1, <3>2, <3>3 DEF Next
  <2>3. Serves(registry \cap Controlled) => Serves(registry \cap Controlled)'
    BY <2>1, <2>2 DEF Serves
  <2> QED BY <1>1, <2>1, <2>2, <2>3 DEF Serving
<1> QED BY <1>4, <1>5, <1>6, <1>7, <1>8, <1>9 DEF MainStep

LEMMA LinkInvariant == Spec => []LinkInv
<1>1. Init => LinkInv
  <2> SUFFICES ASSUME Init PROVE LinkInv
    OBVIOUS
  <2>1. Following /\ main = "starting"
    BY DEF Init, DiscoveryInit, Following
  <2>2. WorkersInv
    BY DEF Init, WorkersInv, OneWorker, OnlySensorless
  <2> QED BY <2>1, <2>2, InitType DEF LinkInv, Serving
<1>2. LinkInv /\ [Next]_vars => LinkInv'
  BY LinkStep
<1> QED BY <1>1, <1>2, PTL DEF Spec

(* Whoever is not cancelled is the one worker of its camera. *)
THEOREM OneWorkerEach == Spec => []UncancelledIsCurrent
<1>1. LinkInv => UncancelledIsCurrent
  <2> SUFFICES ASSUME LinkInv, NEW w \in Workers
               PROVE  (phase[w] # "ended" /\ w \notin cancelled) <=> Current(w)
    BY DEF UncancelledIsCurrent
  <2>1. OneWorker
    BY DEF LinkInv, WorkersInv
  <2> QED BY <2>1 DEF OneWorker, Current
<1> QED BY <1>1, LinkInvariant, PTL

(* Between reloads the workers have the cameras of the registry, with      *)
(* their present credentials, and miss none that has a sensor.             *)
THEOREM RegistryServed == Spec => []WorkersFollowRegistry
<1>1. LinkInv => WorkersFollowRegistry
  BY DEF LinkInv, Serving, Serves, WorkersFollowRegistry
<1> QED BY <1>1, LinkInvariant, PTL

---------------------------------------------------------------------------
(* What is known of sensors.                                               *)

Truthful(f) == \A k \in DOMAIN f : f[k] <=> k \in Capable

(* Whatever says that a camera has a sensor, or that it has none, is right. *)
ReportsTrue ==
    /\ Truthful(storeSupported) /\ Truthful(supported) /\ Truthful(replay.supported)
    /\ \A w \in Workers :
          /\ stage[w] = "none" => report[w] = "none"
          /\ report[w] = "supported" => KeyOfWorker(w) \in Capable
          /\ report[w] = "unsupported" => KeyOfWorker(w) \notin Capable
          /\ phase[w] \in {"polling", "waiting"} => KeyOfWorker(w) \in Capable

Polls(w) == Current(w) /\ phase[w] \in {"polling", "waiting"}

(* The store knows of a worker that polls, or is about to be told. *)
StoreKnows == \A w \in Workers :
    Polls(w) => \/ KeyOfWorker(w) \in DOMAIN storeSupported
                \/ report[w] = "supported" /\ stage[w] = "checked"

(* Once attached the service knows too, or is about to be told, if not by  *)
(* the worker itself then by the replay.                                   *)
ServiceKnows == \A w \in Workers :
    attached /\ Polls(w) /\ KeyOfWorker(w) \in cameras =>
        \/ KeyOfWorker(w) \in DOMAIN supported
        \/ report[w] = "supported"
        \/ KeyOfWorker(w) \in DOMAIN replay.supported

(* A camera of the registry is registered before it has a worker. *)
PublishedFirst ==
    /\ attached => DOMAIN workers \cap KeysOf(registry) \subseteq cameras
    /\ main # "replaying" => DOMAIN replay.supported = {}

SensorInv == ReportsTrue /\ StoreKnows /\ ServiceKnows /\ PublishedFirst

(* Setting and deleting entries. *)
LEMMA PutTruthful ==
    ASSUME NEW f, Truthful(f), NEW k, NEW v, v <=> k \in Capable
    PROVE  Truthful(Put(f, k, v))
BY DEF Truthful, Put

LEMMA WithoutTruthful ==
    ASSUME NEW f, Truthful(f), NEW k
    PROVE  Truthful(Without(f, k))
BY DEF Truthful, Without

(* A report that ends: the service has been told. *)
LEMMA PassOnKnows ==
    ASSUME TypeOK, SensorInv, NEW w \in Workers, PassOn(w), UNCHANGED mainVars
    PROVE  SensorInv'
<1> USE DEF SensorInv
<1> DEFINE k == KeyOfWorker(w)
<1>1. /\ UNCHANGED <<workers, desc, cancelled, phase, storeSupported, attached, cameras>>
      /\ report' = [report EXCEPT ![w] = "none"] /\ stage' = [stage EXCEPT ![w] = "none"]
      /\ stage[w] = "stored"
  BY DEF PassOn, Reported, storeVars, SetTemperatureSupported, SetTemperatureAvailable, PublishTemperature
<1>2. /\ report \in [Workers -> Reports] /\ stage \in [Workers -> Stages]
  BY DEF TypeOK, TemperatureTypeOK
<1>3. \A v \in Workers : KeyOfWorker(v)' = KeyOfWorker(v) /\ (Polls(v)' <=> Polls(v))
  BY <1>1 DEF KeyOfWorker, Polls, Current
<1>4. \A v \in Workers \ {w} : report'[v] = report[v] /\ stage'[v] = stage[v]
  BY <1>1, <1>2
<1>5. report'[w] = "none" /\ stage'[w] = "none"
  BY <1>1, <1>2
<1>6. Truthful(supported)' /\ DOMAIN supported \subseteq DOMAIN supported'
      /\ (report[w] = "supported" /\ k \in cameras => k \in DOMAIN supported')
  <2>1. CASE report[w] = "supported"
    <3>1. SetTemperatureSupported(w, k, TRUE) /\ k \in Capable
      BY <2>1 DEF PassOn, ReportsTrue
    <3>2. supported' = Put(supported, k, TRUE) \/ (supported' = supported /\ k \notin cameras)
      BY <3>1 DEF SetTemperatureSupported
    <3>3. Truthful(Put(supported, k, TRUE))
      BY <3>1 DEF ReportsTrue, Truthful, Put
    <3> QED BY <3>2, <3>3 DEF ReportsTrue, Truthful, Put
  <2>2. CASE report[w] = "unsupported"
    <3>1. SetTemperatureSupported(w, k, FALSE) /\ k \notin Capable
      BY <2>2 DEF PassOn, ReportsTrue
    <3>2. supported' = Put(supported, k, FALSE) \/ supported' = supported
      BY <3>1 DEF SetTemperatureSupported
    <3>3. Truthful(Put(supported, k, FALSE))
      BY <3>1 DEF ReportsTrue, Truthful, Put
    <3> QED BY <2>2, <3>2, <3>3 DEF ReportsTrue, Truthful, Put
  <2>3. CASE report[w] \notin {"supported", "unsupported"}
    <3>1. supported' = supported
      BY <2>3 DEF PassOn, SetTemperatureAvailable, PublishTemperature
    <3> QED BY <2>3, <3>1 DEF ReportsTrue, Truthful
  <2> QED BY <2>1, <2>2, <2>3
<1>7. registry' = registry /\ replay' = replay /\ main' = main
  BY DEF mainVars
<1>8. ReportsTrue'
  <2>1. Truthful(storeSupported)' /\ Truthful(replay.supported)'
    BY <1>1, <1>7 DEF ReportsTrue, Truthful
  <2> QED BY <1>1, <1>3, <1>4, <1>5, <1>6, <2>1 DEF ReportsTrue
<1>9. StoreKnows'
  BY <1>1, <1>3, <1>4 DEF StoreKnows
<1>10. ServiceKnows'
  BY <1>1, <1>3, <1>4, <1>6, <1>7 DEF ServiceKnows
<1>11. PublishedFirst'
  BY <1>1, <1>7 DEF PublishedFirst, KeysOf
<1> QED BY <1>8, <1>9, <1>10, <1>11

(* A report that reaches the store. *)
LEMMA StoreReportKnows ==
    ASSUME TypeOK, SensorInv, NEW w \in Workers, StoreReport(w), UNCHANGED mainVars
    PROVE  SensorInv'
<1> USE DEF SensorInv
<1> DEFINE k == KeyOfWorker(w)
<1>1. /\ UNCHANGED <<workers, desc, cancelled, phase, attached, cameras, supported>>
      /\ stage[w] = "checked"
  BY DEF StoreReport, discoveryVars, serviceVars
<1>2. report \in [Workers -> Reports] /\ stage \in [Workers -> Stages]
  BY DEF TypeOK, TemperatureTypeOK
<1>3. \A v \in Workers : KeyOfWorker(v)' = KeyOfWorker(v) /\ (Polls(v)' <=> Polls(v))
  BY <1>1 DEF KeyOfWorker, Polls, Current
<1>4. \A v \in Workers \ {w} : report'[v] = report[v] /\ stage'[v] = stage[v]
  BY <1>2 DEF StoreReport, Reported
<1>5. \/ attached /\ report'[w] = report[w] /\ stage'[w] = "stored"
      \/ ~attached /\ report'[w] = "none" /\ stage'[w] = "none"
  BY <1>2 DEF StoreReport, Reported, TypeOK, TemperatureTypeOK
<1>6. Truthful(storeSupported)' /\ DOMAIN storeSupported \subseteq DOMAIN storeSupported'
      /\ (report[w] = "supported" => k \in DOMAIN storeSupported')
  <2>1. CASE report[w] = "supported"
    <3>1. storeSupported' = Put(storeSupported, k, TRUE) /\ k \in Capable
      BY <2>1 DEF StoreReport, ReportsTrue
    <3> QED BY <3>1 DEF ReportsTrue, Truthful, Put
  <2>2. CASE report[w] = "unsupported"
    <3>1. storeSupported' = Put(storeSupported, k, FALSE) /\ k \notin Capable
      BY <2>2 DEF StoreReport, ReportsTrue
    <3> QED BY <2>2, <3>1 DEF ReportsTrue, Truthful, Put
  <2>3. CASE report[w] \notin {"supported", "unsupported"}
    <3>1. storeSupported' = storeSupported
      BY <2>3 DEF StoreReport
    <3> QED BY <2>3, <3>1 DEF ReportsTrue, Truthful
  <2> QED BY <2>1, <2>2, <2>3
<1>7. registry' = registry /\ replay' = replay /\ main' = main
  BY DEF mainVars
<1>8. ReportsTrue'
  <2>1. Truthful(supported)' /\ Truthful(replay.supported)'
    BY <1>1, <1>7 DEF ReportsTrue, Truthful
  <2> QED BY <1>1, <1>3, <1>4, <1>5, <1>6, <2>1 DEF ReportsTrue
<1>9. StoreKnows'
  BY <1>1, <1>3, <1>4, <1>6 DEF StoreKnows
<1>10. ServiceKnows'
  BY <1>1, <1>3, <1>4, <1>5, <1>7 DEF ServiceKnows
<1>11. PublishedFirst'
  BY <1>1, <1>7 DEF PublishedFirst, KeysOf
<1> QED BY <1>8, <1>9, <1>10, <1>11

(* The loop of a worker. *)
LoopStep(w) ==
    \/ Begin(w) \/ Connects(w) \/ LinkFails(w) \/ Supports(w) \/ LacksSensor(w)
    \/ Reads(w) \/ PollAgain(w) \/ Retry(w) \/ StopWaiting(w) \/ Retire(w)

LEMMA LoopKnows ==
    ASSUME TypeOK, SensorInv, NEW w \in Workers, LoopStep(w), UNCHANGED mainVars
    PROVE  SensorInv'
<1> USE DEF SensorInv
<1>1. /\ UNCHANGED <<desc, cancelled, storeSupported, attached, cameras, supported>>
      /\ stage[w] = "none"
  BY DEF LoopStep, Begin, Connects, LinkFails, Supports, LacksSensor, Reads, PollAgain, Retry,
         StopWaiting, Retire, Step, Ready, storeVars, discoveryVars, serviceVars
<1>2. /\ report \in [Workers -> Reports] /\ stage \in [Workers -> Stages]
      /\ phase \in [Workers -> Phases]
  BY DEF TypeOK, TemperatureTypeOK
<1>3. \A v \in Workers : KeyOfWorker(v)' = KeyOfWorker(v)
  BY <1>1 DEF KeyOfWorker
<1>4. \A v \in Workers \ {w} : report'[v] = report[v] /\ stage'[v] = stage[v] /\ phase'[v] = phase[v]
  BY <1>2 DEF LoopStep, Begin, Connects, LinkFails, Supports, LacksSensor, Reads, PollAgain, Retry,
              StopWaiting, Retire, Step, Report, NoReport
<1>5. DOMAIN workers' \subseteq DOMAIN workers /\ \A k \in DOMAIN workers' : workers'[k] = workers[k]
  <2>1. CASE Retire(w)
    BY <2>1 DEF Retire, Without
  <2>2. CASE ~Retire(w)
    <3>1. workers' = workers
      BY <2>2 DEF LoopStep, Begin, Connects, LinkFails, Supports, LacksSensor, Reads, PollAgain, Retry,
                  StopWaiting
    <3> QED BY <3>1
  <2> QED BY <2>1, <2>2
<1>6. \A v \in Workers : Current(v)' => Current(v)
  BY <1>3, <1>5 DEF Current
<1>7. CASE Supports(w)
  <2>1. /\ KeyOfWorker(w) \in Capable
        /\ phase'[w] = "polling" /\ report'[w] \in {"supported", "none"}
        /\ stage'[w] = "none" => report'[w] = "none"
        /\ Current(w) => report'[w] = "supported" /\ stage'[w] = "checked"
    BY <1>2, <1>7 DEF Supports, Step, Report
  <2> QED BY <1>1, <1>3, <1>4, <1>5, <1>6, <2>1 DEF
            mainVars, ReportsTrue, Truthful, StoreKnows, ServiceKnows, PublishedFirst, Polls, KeysOf
<1>8. CASE ~Supports(w)
  <2>1. phase'[w] \in {"polling", "waiting"} => phase[w] \in {"polling", "waiting"}
    BY <1>2, <1>8 DEF LoopStep, Begin, Connects, LinkFails, LacksSensor, Reads, PollAgain, Retry,
                StopWaiting, Retire, Step
  <2>2. report'[w] # "supported" /\ (report'[w] = "unsupported" => KeyOfWorker(w) \notin Capable)
    <3>1. report[w] = "none"
      BY <1>1 DEF ReportsTrue
    <3> QED BY <1>2, <1>8, <3>1 DEF LoopStep, Begin, Connects, LinkFails, LacksSensor, Reads,
                PollAgain, Retry, StopWaiting, Retire, Report, NoReport
  <2>3. stage'[w] = "none" => report'[w] = "none"
    <3>1. report[w] = "none"
      BY <1>1 DEF ReportsTrue
    <3> QED BY <1>2, <1>8, <3>1 DEF LoopStep, Begin, Connects, LinkFails, LacksSensor, Reads,
                PollAgain, Retry, StopWaiting, Retire, Report, NoReport
  <2>4. report[w] = "none"
    BY <1>1 DEF ReportsTrue
  <2>5. ReportsTrue'
    BY <1>1, <1>3, <1>4, <2>1, <2>2, <2>3 DEF mainVars, ReportsTrue, Truthful
  <2>6. StoreKnows' /\ ServiceKnows'
    BY <1>1, <1>3, <1>4, <1>6, <2>1, <2>4 DEF mainVars, StoreKnows, ServiceKnows, Polls
  <2>7. PublishedFirst'
    BY <1>1, <1>5 DEF mainVars, PublishedFirst, KeysOf
  <2> QED BY <2>5, <2>6, <2>7
<1> QED BY <1>7, <1>8

(* Reconcile changes no worker that polls, but to cancel it. *)
LEMMA ReconcileKnows ==
    ASSUME LinkInv, SensorInv, NEW descs \in SUBSET Descs, Reconcile(descs),
           UNCHANGED <<discoveryVars, storeVars, replay, registry>>
    PROVE  ReportsTrue' /\ StoreKnows' /\ ServiceKnows'
<1> USE DEF SensorInv
<1>1. PICK start \in [Starting(descs) -> Free] : Reconciled(descs, start)
  BY ReconcileFacts DEF LinkInv
<1>2. UNCHANGED <<report, stage, storeSupported, supported, cameras, attached, replay>>
  BY <1>1 DEF Reconciled, discoveryVars, serviceVars, storeVars
<1>3. \A k \in Starting(descs) : stage[start[k]] = "none" /\ phase'[start[k]] = "start"
  BY <1>1 DEF Reconciled, Free, Ready
<1>4. \A w \in Workers : (\A k \in Starting(descs) : start[k] # w) =>
         KeyOfWorker(w)' = KeyOfWorker(w) /\ phase'[w] = phase[w]
  BY <1>1 DEF Reconciled, KeyOfWorker
<1>5. ASSUME NEW w \in Workers, Polls(w)'
      PROVE  Polls(w) /\ KeyOfWorker(w)' = KeyOfWorker(w)
  <2>1. \A k \in Starting(descs) : start[k] # w
    BY <1>3, <1>5 DEF Polls
  <2>2. KeyOfWorker(w)' = KeyOfWorker(w) /\ phase'[w] = phase[w]
    BY <1>4, <2>1
  <2>3. KeyOfWorker(w) \in DOMAIN workers' /\ workers'[KeyOfWorker(w)] = w
    BY <1>5, <2>2 DEF Polls, Current
  <2>4. KeyOfWorker(w) \in Kept(descs)
    BY <1>1, <2>1, <2>3 DEF Reconciled
  <2>5. Current(w)
    BY <1>1, <2>3, <2>4 DEF Reconciled, Current, Kept
  <2> QED BY <1>5, <2>2, <2>5 DEF Polls
<1>6. ReportsTrue'
  <2>1. Truthful(storeSupported)' /\ Truthful(supported)' /\ Truthful(replay.supported)'
    BY <1>2 DEF ReportsTrue, Truthful
  <2>2. ASSUME NEW w \in Workers
        PROVE  /\ stage[w] = "none" => report[w] = "none"
               /\ report[w] = "supported" => KeyOfWorker(w)' \in Capable
               /\ report[w] = "unsupported" => KeyOfWorker(w)' \notin Capable
               /\ phase'[w] \in {"polling", "waiting"} => KeyOfWorker(w)' \in Capable
    <3>1. CASE \E k \in Starting(descs) : start[k] = w
      <4>1. stage[w] = "none" /\ phase'[w] = "start"
        BY <1>3, <3>1
      <4>2. report[w] = "none"
        BY <4>1 DEF ReportsTrue
      <4> QED BY <4>1, <4>2
    <3>2. CASE \A k \in Starting(descs) : start[k] # w
      BY <1>4, <3>2 DEF ReportsTrue
    <3> QED BY <3>1, <3>2
  <2> QED BY <1>2, <2>1, <2>2 DEF ReportsTrue
<1>7. StoreKnows'
  BY <1>2, <1>5 DEF StoreKnows
<1>8. ServiceKnows'
  BY <1>2, <1>5 DEF ServiceKnows
<1> QED BY <1>6, <1>7, <1>8

(* The steps that leave workers and store alone. *)
LEMMA ElsewhereKnows ==
    ASSUME SensorInv, UNCHANGED <<workerVars, storeVars>>
    PROVE  /\ \A w \in Workers : KeyOfWorker(w)' = KeyOfWorker(w) /\ (Polls(w)' <=> Polls(w))
           /\ UNCHANGED <<workers, report, stage, storeSupported, attached>>
           /\ StoreKnows'
           /\ Truthful(supported)' /\ Truthful(replay.supported)' => ReportsTrue'
           /\ UNCHANGED <<cameras, supported, replay, registry, main>> => SensorInv'
<1> USE DEF SensorInv
<1>1. UNCHANGED <<workers, desc, phase, report, stage, storeSupported, attached>>
  BY DEF workerVars, storeVars
<1>2. \A w \in Workers : KeyOfWorker(w)' = KeyOfWorker(w) /\ (Polls(w)' <=> Polls(w))
  BY <1>1 DEF KeyOfWorker, Polls, Current
<1>3. StoreKnows'
  BY <1>1, <1>2 DEF StoreKnows
<1>4. Truthful(supported)' /\ Truthful(replay.supported)' => ReportsTrue'
  BY <1>1, <1>2 DEF ReportsTrue, Truthful
<1>5. ASSUME UNCHANGED <<cameras, supported, replay, registry, main>>
      PROVE  SensorInv'
  <2>1. ReportsTrue'
    BY <1>4, <1>5 DEF ReportsTrue, Truthful
  <2>2. ServiceKnows'
    BY <1>1, <1>2, <1>5 DEF ServiceKnows
  <2>3. PublishedFirst'
    BY <1>1, <1>5 DEF PublishedFirst, KeysOf
  <2> QED BY <1>3, <2>1, <2>2, <2>3
<1> QED BY <1>1, <1>2, <1>3, <1>4, <1>5

(* Startup and reloads. *)
LEMMA MainKnows ==
    ASSUME LinkInv, LinkInv', SensorInv, MainStep
    PROVE  SensorInv'
<1> USE DEF SensorInv
<1>1. TypeOK /\ Following /\ Following' /\ registry \cap Controlled \in SUBSET Descs
  BY ReportingAssumption DEF LinkInv, Serving
<1>2. CASE Startup
  <2>1. ReportsTrue' /\ StoreKnows' /\ ServiceKnows'
    BY <1>1, <1>2, ReconcileKnows DEF Startup
  <2>2. PublishedFirst'
    BY <1>1, <1>2 DEF Startup, Following, PublishedFirst, storeVars
  <2> QED BY <2>1, <2>2
<1>3. CASE Reloaded
  <2>1. ReportsTrue' /\ StoreKnows' /\ ServiceKnows'
    BY <1>1, <1>3, ReconcileKnows DEF Reloaded
  <2>2. PublishedFirst'
    BY <1>1, <1>3 DEF Reloaded, Published, Following, PublishedFirst
  <2> QED BY <2>1, <2>2
<1>4. CASE PublishOne
  <2>1. PICK k \in work : Upsert(Main, k)
    BY <1>4 DEF PublishOne
  <2>2. /\ UNCHANGED <<workerVars, storeVars, supported, registry, replay, main>>
        /\ cameras' = cameras \cup {k} /\ main = "publishing"
    BY <1>4, <2>1 DEF PublishOne, otherVars, Upsert
  <2>3. k \in KeysOf(registry)
    BY <1>1, <2>2 DEF Following
  <2>4. ServiceKnows'
    <3> SUFFICES ASSUME NEW w \in Workers, attached, Polls(w), KeyOfWorker(w) = k
                 PROVE  k \in cameras
      BY <2>2, ElsewhereKnows DEF ServiceKnows
    <3> QED BY <2>3 DEF Polls, Current, PublishedFirst
  <2>5. ReportsTrue'
    BY <2>2, ElsewhereKnows DEF ReportsTrue, Truthful
  <2>6. PublishedFirst'
    BY <2>2, ElsewhereKnows DEF PublishedFirst, KeysOf
  <2> QED BY <2>2, <2>4, <2>5, <2>6, ElsewhereKnows
<1>5. CASE RetireOne
  <2>1. PICK k \in Departed : Remove(Main, k)
    BY <1>5 DEF RetireOne
  <2>2. /\ UNCHANGED <<workerVars, storeVars, registry, replay, main>>
        /\ cameras' = cameras \ {k} /\ supported' = Without(supported, k)
    BY <1>5, <2>1 DEF RetireOne, otherVars, Remove
  <2>3. k \notin KeysOf(registry)
    BY DEF Departed
  <2>4. Truthful(supported)' /\ DOMAIN supported' = DOMAIN supported \ {k}
    BY <2>2 DEF ReportsTrue, Truthful, Without
  <2>5. ReportsTrue'
    BY <2>2, <2>4, ElsewhereKnows DEF ReportsTrue, Truthful
  <2>6. ServiceKnows'
    BY <2>2, <2>4, ElsewhereKnows DEF ServiceKnows
  <2>7. PublishedFirst'
    BY <2>2, <2>3, ElsewhereKnows DEF PublishedFirst, KeysOf
  <2> QED BY <2>2, <2>5, <2>6, <2>7, ElsewhereKnows
<1>6. CASE Attach
  <2>1. /\ UNCHANGED <<workerVars, storeSupported, supported, cameras, registry>>
        /\ attached' /\ main' = "replaying" /\ replay'.supported = storeSupported
    BY <1>6 DEF Attach, Known, otherVars, discoveryVars, serviceVars
  <2>2. \A w \in Workers : KeyOfWorker(w)' = KeyOfWorker(w) /\ (Polls(w)' <=> Polls(w))
    BY <2>1 DEF workerVars, KeyOfWorker, Polls, Current
  <2>3. UNCHANGED <<workers, phase, report, stage>>
    BY <2>1 DEF workerVars
  <2>4. ReportsTrue'
    BY <2>1, <2>2, <2>3 DEF ReportsTrue, Truthful
  <2>5. StoreKnows' /\ ServiceKnows'
    BY <2>1, <2>2, <2>3 DEF StoreKnows, ServiceKnows
  <2>6. PublishedFirst'
    BY <1>1, <2>1 DEF Following, PublishedFirst
  <2> QED BY <2>4, <2>5, <2>6
<1>7. CASE ReplayCapability
  <2>1. PICK k \in DOMAIN replay.supported :
           /\ SetTemperatureSupported(Main, k, replay.supported[k])
           /\ replay' = [replay EXCEPT !.supported = Without(@, k)]
    BY <1>7 DEF ReplayCapability
  <2>2. UNCHANGED <<workerVars, storeVars, registry, main, cameras>> /\ main = "replaying"
    BY <1>7, <2>1 DEF ReplayCapability, otherVars, SetTemperatureSupported
  <2>3. replay'.supported = Without(replay.supported, k)
    BY <1>1, <2>1 DEF TypeOK
  <2>4. /\ Truthful(replay.supported)'
        /\ DOMAIN replay'.supported = DOMAIN replay.supported \ {k}
    BY <2>3 DEF ReportsTrue, Truthful, Without
  <2>5. \/ supported' = Put(supported, k, replay.supported[k])
        \/ supported' = supported /\ k \notin cameras
    BY <2>1 DEF SetTemperatureSupported
  <2>6. /\ Truthful(supported)' /\ DOMAIN supported \subseteq DOMAIN supported'
        /\ k \in cameras => k \in DOMAIN supported'
    <3>1. replay.supported[k] <=> k \in Capable
      BY DEF ReportsTrue, Truthful
    <3> QED BY <2>5, <3>1 DEF ReportsTrue, Truthful, Put
  <2>7. ReportsTrue'
    BY <2>2, <2>4, <2>6, ElsewhereKnows
  <2>8. ServiceKnows'
    BY <2>2, <2>4, <2>6, ElsewhereKnows DEF ServiceKnows
  <2>9. PublishedFirst'
    BY <2>2, ElsewhereKnows DEF PublishedFirst, KeysOf
  <2> QED BY <2>2, <2>7, <2>8, <2>9, ElsewhereKnows
<1>8. CASE ReplayReading \/ Replayed
  <2>1. UNCHANGED <<workerVars, storeVars, registry, cameras, supported>>
    BY <1>8 DEF ReplayReading, Replayed, PublishTemperature, otherVars, discoveryVars, serviceVars
  <2>2. replay'.supported = replay.supported
    BY <1>1, <1>8 DEF ReplayReading, Replayed, TypeOK
  <2>3. main' = main \/ DOMAIN replay.supported = {}
    BY <1>8 DEF ReplayReading, Replayed
  <2>4. ReportsTrue'
    BY <2>1, <2>2, ElsewhereKnows DEF ReportsTrue, Truthful
  <2>5. ServiceKnows'
    BY <2>1, <2>2, ElsewhereKnows DEF ServiceKnows
  <2>6. PublishedFirst'
    BY <2>1, <2>2, <2>3, ElsewhereKnows DEF PublishedFirst, KeysOf
  <2> QED BY <2>1, <2>4, <2>5, <2>6, ElsewhereKnows
<1>9. CASE Reload
  <2>1. /\ UNCHANGED <<workerVars, storeVars, replay, cameras, supported>>
        /\ main = "idle" /\ main' = "publishing"
    BY <1>9 DEF Reload, discoveryVars, serviceVars
  <2>2. DOMAIN workers \subseteq cameras
    <3>1. \A k \in DOMAIN workers : k = KeyOf[desc[workers[k]]] /\ desc[workers[k]] \in registry
      BY <2>1 DEF LinkInv, WorkersInv, OneWorker, Serving, Serves
    <3>2. DOMAIN workers \subseteq KeysOf(registry)
      BY <3>1 DEF KeysOf
    <3> QED BY <1>1, <2>1, <3>2 DEF Following
  <2>3. ReportsTrue'
    BY <2>1, ElsewhereKnows DEF ReportsTrue, Truthful
  <2>4. ServiceKnows'
    BY <2>1, ElsewhereKnows DEF ServiceKnows
  <2>5. PublishedFirst'
    BY <2>1, <2>2, ElsewhereKnows DEF PublishedFirst
  <2> QED BY <2>1, <2>3, <2>4, <2>5, ElsewhereKnows
<1> QED BY <1>2, <1>3, <1>4, <1>5, <1>6, <1>7, <1>8, <1>9 DEF MainStep

(* Everyone else. *)
LEMMA SensorStep ==
    ASSUME LinkInv, LinkInv', SensorInv, [Next]_vars
    PROVE  SensorInv'
<1> USE DEF SensorInv
<1>1. CASE MainStep
  BY <1>1, MainKnows
<1>2. CASE \E w \in Workers : Work(w)
  <2>1. PICK w \in Workers : WorkerStep(w) /\ UNCHANGED mainVars
    BY <1>2 DEF Work
  <2>2. TypeOK
    BY DEF LinkInv
  <2> QED BY <2>1, <2>2, PassOnKnows, StoreReportKnows, LoopKnows DEF WorkerStep, LoopStep
<1>3. CASE UNCHANGED vars
  BY <1>3, ElsewhereKnows DEF vars, discoveryVars, serviceVars, mainVars
<1>4. CASE MirrorTick \/ MirrorOne
  BY <1>4, ElsewhereKnows DEF MirrorTick, MirrorOne, SetCameraAvailable, discoveryVars, serviceVars, mainVars
<1>5. CASE Disconnect \/ \E h \in Handlers : Connect(h)
  BY <1>5, ElsewhereKnows DEF Disconnect, ConnectionLost, Connect, OnConnect, mainVars
<1>6. CASE \E g \in Senders : SenderStep(g)
  BY <1>6, ElsewhereKnows DEF SenderStep, PublishCamera, Publish, PublishFails, serviceVars, mainVars
<1> QED BY <1>1, <1>2, <1>3, <1>4, <1>5, <1>6 DEF Next

(* A worker that reads temperatures is known to the service as a sensor.   *)
THEOREM PolledIsKnown == Spec => []PolledIsSupported
<1>1. Init => LinkInv /\ SensorInv
  <2> SUFFICES ASSUME Init PROVE LinkInv /\ SensorInv
    OBVIOUS
  <2>1. LinkInv
    <3>1. Following /\ main = "starting"
      BY DEF Init, DiscoveryInit, Following
    <3>2. WorkersInv
      BY DEF Init, WorkersInv, OneWorker, OnlySensorless
    <3> QED BY <3>1, <3>2, InitType DEF LinkInv, Serving
  <2>2. SensorInv
    BY DEF Init, DiscoveryInit, SensorInv, ReportsTrue, Truthful, StoreKnows, ServiceKnows,
           PublishedFirst, Polls
  <2> QED BY <2>1, <2>2
<1>2. LinkInv /\ SensorInv /\ [Next]_vars => (LinkInv /\ SensorInv)'
  BY LinkStep, SensorStep
<1>3. LinkInv /\ SensorInv => PolledIsSupported
  <2> SUFFICES ASSUME SensorInv, attached, main # "replaying", NEW w \in Workers, Polls(w),
                      report[w] # "supported", KeyOfWorker(w) \in cameras
               PROVE  Holds(supported, KeyOfWorker(w))
    BY DEF PolledIsSupported, Polls
  <2>1. KeyOfWorker(w) \in DOMAIN supported
    BY DEF SensorInv, ServiceKnows, PublishedFirst
  <2>2. KeyOfWorker(w) \in Capable
    BY DEF SensorInv, ReportsTrue, Polls
  <2>3. supported[KeyOfWorker(w)]
    BY <2>1, <2>2 DEF SensorInv, ReportsTrue, Truthful
  <2> QED BY <2>1, <2>3 DEF Holds
<1> QED BY <1>1, <1>2, <1>3, PTL DEF Spec
=============================================================================

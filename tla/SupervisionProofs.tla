-------------------------- MODULE SupervisionProofs --------------------------
(***************************************************************************)
(* Theorems about Supervision, for every set of cameras, registries and    *)
(* supervisors.                                                            *)
(***************************************************************************)
EXTENDS Supervision, FiniteSetTheorems, TLAPS

USE DescriptorsAssumption, SupsAssumption, BoundsAssumption, FiniteAssumption

(* What may hold the socket of an address. *)
Holders == Owners \cup {"foreign", Nobody}

(* A descriptor has an address, and a key if it is a camera's. *)
LEMMA AddrType == ASSUME NEW d \in Descriptors
                  PROVE  AddrOf[d] \in Addrs /\ KeyOf[d] \in Keys
BY DEF Addrs

(* Binding a camera's address and closing a server's socket keep the table *)
(* of sockets typed.                                                       *)
LEMMA BindType ==
    ASSUME holder \in [Addrs -> Holders], NEW d, NEW who \in Owners,
           Bind(d, who)
    PROVE  holder' \in [Addrs -> Holders]
BY DEF Bind, Holders

(* The same of a server that closes its socket.                            *)
LEMMA CloseType ==
    ASSUME holder \in [Addrs -> Holders], NEW s, CloseSocket(s)
    PROVE  holder' \in [Addrs -> Holders]
BY DEF CloseSocket, Holders

(* The same of closeServer, which may find no server to close.             *)
LEMMA CloseServerType ==
    ASSUME holder \in [Addrs -> Holders], NEW s, CloseServer(s)
    PROVE  holder' \in [Addrs -> Holders]
BY CloseType DEF CloseServer

(* The registered cameras are finitely many. *)
LEMMA RegisteredType ==
    ASSUME NEW m PROVE Registered(m) \in Nat
<1>1. {k \in Keys : m[k] # Nobody} \subseteq Keys
  OBVIOUS
<1> QED BY <1>1, FS_Subset, FS_CardinalityType DEF Registered

(* The initial state is well typed: New's maps are empty. *)
LEMMA InitTypeOK == Init => TypeOK
<1> SUFFICES ASSUME Init PROVE TypeOK
  OBVIOUS
<1>1. /\ run \in RunPhases /\ todo \subseteq Descriptors
      /\ runBound \in Descriptors \cup {Nobody} /\ toStop \subseteq Sups
      /\ total \in Int /\ serving \in Int
  BY DEF Init, RunPhases
<1>2. ctxDone \in BOOLEAN /\ stopping \in BOOLEAN
  BY DEF Init
<1>3. cameras \in [Keys -> Sups \cup {Nobody}]
  BY DEF Init
<1>4. registry \subseteq Descriptors
  <2>1. Initial \in Registries \cup {Initial}
    OBVIOUS
  <2> QED BY <2>1 DEF Init
<1>5. /\ pc \in [Sups -> SupPhases]
      /\ camera \in [Sups -> Descriptors \cup {Nobody}]
      /\ cancelled \subseteq Sups /\ server \subseteq Sups
      /\ backoff \in [Sups -> 1..BackoffMax]
  BY DEF Init, SupPhases, Live
<1>6. holder \in [Addrs -> Owners \cup {"foreign", Nobody}]
  BY DEF Init
<1>7. /\ reload \in {"idle", "stopping", "starting", "publishing"}
      /\ target \subseteq Descriptors /\ obsolete \subseteq Sups
      /\ waited \in [{"run", "reload"} -> SUBSET Sups]
      /\ wanted \subseteq Descriptors
      /\ reloadBound \in Descriptors \cup {Nobody}
      /\ failed \subseteq Descriptors /\ reloads \in 0..MaxReloads
  BY DEF Init
<1>8. early \in BOOLEAN
  BY DEF Init
<1> QED BY <1>1, <1>2, <1>3, <1>4, <1>5, <1>6, <1>7, <1>8 DEF TypeOK

(* Every action keeps the types. *)
LEMMA StepTypeOK == TypeOK /\ [Next]_vars => TypeOK'
<1> SUFFICES ASSUME TypeOK, [Next]_vars PROVE TypeOK'
  OBVIOUS
<1> USE DEF TypeOK, Owners, SupPhases, Live, RunPhases, Holders, runVars,
      mapVars, supVars, reloadVars
<1>1. ASSUME RunStep PROVE TypeOK'
  <2>1. CASE RunBegins BY <2>1 DEF RunBegins
  <2>2. CASE RunStarted BY <2>2 DEF RunStarted
  <2>3. CASE RunStops BY <2>3 DEF RunStops, StopAll, Supervised
  <2>4. CASE StoppedAll BY <2>4 DEF StoppedAll
  <2>5. ASSUME NEW d \in Descriptors, RunBinds(d) PROVE TypeOK'
    BY <2>5, BindType DEF RunBinds, CanBind
  <2>6. ASSUME NEW d \in Descriptors, RunBindFails(d) PROVE TypeOK'
    BY <2>6 DEF RunBindFails, StopAll, Supervised
  <2>7. ASSUME NEW s \in Sups, RunAdds(s) PROVE TypeOK'
    BY <2>7, BindType, AddrType, RegisteredType DEF RunAdds, Add
  <2>8. ASSUME NEW s \in Sups, StopOne(s) PROVE TypeOK'
    BY <2>8, CloseServerType DEF StopOne, Retire
  <2>9. CASE RunPublished BY <2>9 DEF RunPublished
  <2> QED BY <1>1, <2>1, <2>2, <2>3, <2>4, <2>5, <2>6, <2>7, <2>8, <2>9
         DEF RunStep
<1>2. ASSUME ReloadStep PROVE TypeOK'
  <2>1. CASE ReloadStopped BY <2>1 DEF ReloadStopped
  <2>2. CASE ReloadEnds BY <2>2 DEF ReloadEnds
  <2>3. ASSUME NEW d \in Descriptors, ReloadBinds(d) PROVE TypeOK'
    BY <2>3, BindType DEF ReloadBinds, CanBind
  <2>4. ASSUME NEW s \in Sups, ReloadCancels(s) PROVE TypeOK'
    BY <2>4, CloseServerType DEF ReloadCancels, Retire
  <2>5. ASSUME NEW s \in Sups, ReloadRemoves(s) PROVE TypeOK'
    BY <2>5, RegisteredType DEF ReloadRemoves
  <2>6. ASSUME NEW s \in Sups, ReloadAdds(s) PROVE TypeOK'
    BY <2>6, BindType, AddrType, RegisteredType DEF ReloadAdds, Add
  <2>7. CASE ReloadPublished BY <2>7 DEF ReloadPublished
  <2> QED BY <1>2, <2>1, <2>2, <2>3, <2>4, <2>5, <2>6, <2>7
         DEF ReloadStep
<1>3. ASSUME NEW s \in Sups, Supervise(s) PROVE TypeOK'
  <2>1. CASE EnterServe(s) BY <2>1 DEF EnterServe, Step
  <2>2. CASE AfterServe(s)
    <3>1. pc' \in [Sups -> SupPhases]
      BY <2>2 DEF AfterServe, Step
    <3>2. backoff' \in [Sups -> 1..BackoffMax]
      <4>1. 1 \in 1..BackoffMax
        OBVIOUS
      <4> QED BY <2>2, <4>1 DEF AfterServe
    <3>3. holder' \in [Addrs -> Holders]
      BY <2>2, CloseType DEF AfterServe, CloseAfterServe
    <3> QED BY <2>2, <3>1, <3>2, <3>3 DEF AfterServe
  <2>3. CASE SleepOver(s) BY <2>3 DEF SleepOver, Step, nextBackoff
  <2>4. CASE SleepCut(s) BY <2>4 DEF SleepCut, Step
  <2>5. CASE Rebind(s) BY <2>5, BindType DEF Rebind, Step, CanBind
  <2>6. CASE RebindFails(s) BY <2>6 DEF RebindFails, Step
  <2>7. CASE SetServer(s) BY <2>7 DEF SetServer, Step
  <2>8. CASE SupPublished(s) BY <2>8 DEF SupPublished, Step
  <2> QED BY <1>3, <2>1, <2>2, <2>3, <2>4, <2>5, <2>6, <2>7, <2>8
         DEF Supervise
<1>4. ASSUME NEW s \in Sups, ServeReturns(s) PROVE TypeOK'
  BY <1>4, CloseType DEF ServeReturns, Step
<1>5. ASSUME NEW reg \in Registries, ReloadBegins(reg) PROVE TypeOK'
  BY <1>5 DEF ReloadBegins, Obsolete, Supervised
<1>6. ASSUME NEW k \in Keys, RestartCamera(k) PROVE TypeOK'
  BY <1>6, CloseType DEF RestartCamera
<1>7. CASE CancelContext BY <1>7 DEF CancelContext
<1>8. ASSUME NEW a \in Addrs, ForeignPort(a) PROVE TypeOK'
  <2>1. holder' \in [Addrs -> Holders]
    BY <1>8 DEF ForeignPort
  <2> QED BY <1>8, <2>1 DEF ForeignPort
<1>9. CASE UNCHANGED vars BY <1>9 DEF vars
<1> QED BY <1>1, <1>2, <1>3, <1>4, <1>5, <1>6, <1>7, <1>8, <1>9 DEF Next

(* Every state of the supervisor is of the declared types. *)
THEOREM TypeCorrect == Spec => []TypeOK
BY InitTypeOK, StepTypeOK, PTL DEF Spec

---------------------------------------------------------------------------
(* Who holds which socket.  A supervisor between its servers holds none,   *)
(* a socket that is bound and not yet a supervisor's stays with who bound  *)
(* it, and Run is past stopAll only when everyone it stopped has ended.    *)
SocketInv ==
    /\ \A s \in Sups :
          pc[s] \in {"free", "sleeping", "restarting", "done"} =>
              \A a \in Addrs : holder[a] # s
    /\ run \in {"lastPublish", "returned", "failed"} => AllDone(waited["run"])
    /\ runBound # Nobody => holder[AddrOf[runBound]] = "run"
    /\ reloadBound # Nobody => holder[AddrOf[reloadBound]] = "reload"

(* No supervisor exists at first. *)
LEMMA InitSocketInv == Init => SocketInv
BY DEF Init, SocketInv

(* AfterServe closes the socket before the supervisor sleeps or ends, and  *)
(* stopAll returns to Run when everyone it waits for is done.              *)
LEMMA StepSocketInv == TypeOK /\ SocketInv /\ [Next]_vars => SocketInv'
<1> SUFFICES ASSUME TypeOK, SocketInv, [Next]_vars PROVE SocketInv'
  OBVIOUS
<1> USE DEF TypeOK, SocketInv, Owners, AllDone, Ended, runVars,
      mapVars, supVars, reloadVars
<1>0. /\ \A s \in Sups \cup {Nobody} : s # "run" /\ s # "reload"
      /\ runBound # Nobody => AddrOf[runBound] \in Addrs
      /\ reloadBound # Nobody => AddrOf[reloadBound] \in Addrs
  BY AddrType
<1>1. ASSUME RunStep PROVE SocketInv'
  <2>1. CASE RunBegins BY <2>1 DEF RunBegins
  <2>2. CASE RunStarted BY <2>2 DEF RunStarted
  <2>3. CASE RunStops BY <2>3 DEF RunStops, StopAll
  <2>4. CASE StoppedAll BY <2>4 DEF StoppedAll
  <2>5. ASSUME NEW d \in Descriptors, RunBinds(d) PROVE SocketInv'
    BY <1>0, <2>5, AddrType DEF RunBinds, CanBind, Bind
  <2>6. ASSUME NEW d \in Descriptors, RunBindFails(d) PROVE SocketInv'
    BY <2>6 DEF RunBindFails, StopAll
  <2>7. ASSUME NEW s \in Sups, RunAdds(s) PROVE SocketInv'
    BY <1>0, <2>7 DEF RunAdds, Add, Bind
  <2>8. ASSUME NEW s \in Sups, StopOne(s) PROVE SocketInv'
    BY <1>0, <2>8 DEF StopOne, Retire, CloseServer, CloseSocket
  <2>9. CASE RunPublished BY <2>9 DEF RunPublished
  <2> QED BY <1>1, <2>1, <2>2, <2>3, <2>4, <2>5, <2>6, <2>7, <2>8, <2>9
         DEF RunStep
<1>2. ASSUME ReloadStep PROVE SocketInv'
  <2>1. CASE ReloadStopped BY <2>1 DEF ReloadStopped
  <2>2. CASE ReloadEnds BY <2>2 DEF ReloadEnds
  <2>3. ASSUME NEW d \in Descriptors, ReloadBinds(d) PROVE SocketInv'
    BY <1>0, <2>3, AddrType DEF ReloadBinds, CanBind, Bind
  <2>4. ASSUME NEW s \in Sups, ReloadCancels(s) PROVE SocketInv'
    BY <1>0, <2>4 DEF ReloadCancels, Retire, CloseServer, CloseSocket
  <2>5. ASSUME NEW s \in Sups, ReloadRemoves(s) PROVE SocketInv'
    BY <2>5 DEF ReloadRemoves
  <2>6. ASSUME NEW s \in Sups, ReloadAdds(s) PROVE SocketInv'
    BY <1>0, <2>6 DEF ReloadAdds, Add, Bind
  <2>7. CASE ReloadPublished BY <2>7 DEF ReloadPublished
  <2> QED BY <1>2, <2>1, <2>2, <2>3, <2>4, <2>5, <2>6, <2>7
         DEF ReloadStep
<1>3. ASSUME NEW s \in Sups, Supervise(s) PROVE SocketInv'
  <2>1. CASE EnterServe(s) BY <2>1 DEF EnterServe, Step
  <2>2. CASE AfterServe(s)
    BY <1>0, <2>2 DEF AfterServe, Step, CloseAfterServe, CloseSocket
  <2>3. CASE SleepOver(s) BY <2>3 DEF SleepOver, Step
  <2>4. CASE SleepCut(s) BY <2>4 DEF SleepCut, Step
  <2>5. CASE Rebind(s) BY <1>0, <2>5 DEF Rebind, Step, CanBind, Bind
  <2>6. CASE RebindFails(s) BY <2>6 DEF RebindFails, Step
  <2>7. CASE SetServer(s) BY <2>7 DEF SetServer, Step
  <2>8. CASE SupPublished(s) BY <2>8 DEF SupPublished, Step
  <2> QED BY <1>3, <2>1, <2>2, <2>3, <2>4, <2>5, <2>6, <2>7, <2>8
         DEF Supervise
<1>4. ASSUME NEW s \in Sups, ServeReturns(s) PROVE SocketInv'
  BY <1>0, <1>4 DEF ServeReturns, Step, CloseSocket
<1>5. ASSUME NEW reg \in Registries, ReloadBegins(reg) PROVE SocketInv'
  BY <1>5 DEF ReloadBegins, MayReload
<1>6. ASSUME NEW k \in Keys, RestartCamera(k) PROVE SocketInv'
  BY <1>0, <1>6 DEF RestartCamera, CloseSocket
<1>7. CASE CancelContext BY <1>7 DEF CancelContext
<1>8. ASSUME NEW a \in Addrs, ForeignPort(a) PROVE SocketInv'
  BY <1>0, <1>8 DEF ForeignPort
<1>9. CASE UNCHANGED vars BY <1>9 DEF vars
<1> QED BY <1>1, <1>2, <1>3, <1>4, <1>5, <1>6, <1>7, <1>8, <1>9 DEF Next

(* A supervisor that does not serve has no socket, and Run is past stopAll *)
(* only over supervisors that have ended.                                  *)
THEOREM SocketsHeldInService == Spec => []SocketInv
BY TypeCorrect, InitSocketInv, StepSocketInv, PTL DEF Spec

(* When Run returns, every supervisor its stopAll found has ended and its  *)
(* socket is closed (app.go, stopAll and supervise).                       *)
THEOREM RunStopsClean == Spec => []StoppedClean
<1>1. TypeOK /\ SocketInv => StoppedClean
  <2> SUFFICES ASSUME TypeOK, SocketInv PROVE StoppedClean
    OBVIOUS
  <2>1. waited["run"] \subseteq Sups
    BY DEF TypeOK
  <2> QED BY <2>1 DEF SocketInv, StoppedClean, AllDone, Ended
<1> QED BY <1>1, TypeCorrect, SocketsHeldInService, PTL

---------------------------------------------------------------------------
(* A reload that came while Run was starting stays on record. *)
LEMMA EarlyStays == early /\ [Next]_vars => early'
<1> SUFFICES ASSUME early, [Next]_vars PROVE early'
  OBVIOUS
<1> USE DEF reloadVars
<1>1. CASE RunStep
  BY <1>1 DEF RunStep, RunBegins, RunStarted, RunStops, StoppedAll, RunBinds, RunBindFails,
     RunAdds, StopOne, RunPublished
<1>2. CASE ReloadStep
  BY <1>2 DEF ReloadStep, ReloadStopped, ReloadEnds, ReloadBinds, ReloadCancels,
     ReloadRemoves, ReloadAdds, ReloadPublished
<1>3. ASSUME NEW s \in Sups, Supervise(s) \/ ServeReturns(s) PROVE early'
  BY <1>3 DEF Supervise, ServeReturns, EnterServe, AfterServe, SleepOver, SleepCut, Rebind,
     RebindFails, SetServer, SupPublished
<1>4. ASSUME NEW reg \in Registries, ReloadBegins(reg) PROVE early'
  BY <1>4 DEF ReloadBegins
<1>5. CASE \/ \E k \in Keys : RestartCamera(k)
           \/ CancelContext \/ (\E a \in Addrs : ForeignPort(a)) \/ UNCHANGED vars
  BY <1>5 DEF RestartCamera, CancelContext, ForeignPort, vars
<1> QED BY <1>1, <1>2, <1>3, <1>4, <1>5 DEF Next

---------------------------------------------------------------------------
(* What add has put into the map and what Run and Reload still have to     *)
(* start.                                                                  *)
Pending(bound, rest) == rest \cup ({bound} \ {Nobody})
ToStart  == Pending(runBound, todo)
ToReload == Pending(reloadBound, wanted)

MapInv ==
    /\ \A s \in Sups : pc[s] # "free" => camera[s] \in Descriptors
    /\ \A k \in Keys : cameras[k] # Nobody =>
          pc[cameras[k]] # "free" /\ KeyOf[camera[cameras[k]]] = k
    /\ \A s \in Sups : pc[s] \in Live => cameras[KeyOf[camera[s]]] = s

StartInv ==
    /\ run \in {"init", "starting", "publishing"} => reload = "idle"
    /\ run = "init" =>
          /\ runBound = Nobody /\ DistinctKeys(registry)
          /\ \A k \in Keys : cameras[k] = Nobody
    /\ run = "starting" =>
          /\ runBound \notin todo /\ DistinctKeys(ToStart)
          /\ \A d \in ToStart : cameras[KeyOf[d]] = Nobody

Replaced == obsolete \cup waited["reload"]

ReloadInv ==
    /\ reload # "starting" => reloadBound = Nobody
    /\ reload # "stopping" => Replaced = {}
    /\ reload \in {"stopping", "starting"} =>
          /\ reloadBound \notin wanted /\ DistinctKeys(ToReload)
          /\ \A d \in ToReload : cameras[KeyOf[d]] \in Replaced \cup {Nobody}

CameraInv == MapInv /\ StartInv /\ ReloadInv


(* At first no camera is supervised and Run has started none. *)
LEMMA InitCameraInv == Init => CameraInv
<1> SUFFICES ASSUME Init PROVE CameraInv
  OBVIOUS
<1>1. Initial \in Registries \cup {Initial}
  OBVIOUS
<1>2. DistinctKeys(Initial)
  BY <1>1
<1> QED BY <1>2 DEF Init, CameraInv, MapInv, StartInv, ReloadInv, Replaced, Live

(* Run and Reload start a camera only when no other supervisor has its     *)
(* key: Run because nobody else works yet, Reload because it has waited    *)
(* for the supervisor it replaces.                                         *)
LEMMA StepCameraInv ==
    ~early' /\ TypeOK /\ CameraInv /\ [Next]_vars => CameraInv'
<1> SUFFICES ASSUME ~early', TypeOK, CameraInv, [Next]_vars
             PROVE  CameraInv'
  OBVIOUS
<1> USE DEF TypeOK, CameraInv, MapInv, StartInv, ReloadInv, Replaced,
      ToStart, ToReload, Pending, Owners, Live, runVars, mapVars, supVars,
      reloadVars
<1>1. ASSUME RunStep PROVE CameraInv'
  <2>1. CASE RunBegins BY <2>1, AddrType DEF RunBegins, DistinctKeys
  <2>2. CASE RunStarted BY <2>2 DEF RunStarted
  <2>3. CASE RunStops BY <2>3 DEF RunStops, StopAll
  <2>4. CASE StoppedAll BY <2>4 DEF StoppedAll, AllDone
  <2>5. ASSUME NEW d \in Descriptors, RunBinds(d) PROVE CameraInv'
    BY <2>5, AddrType DEF RunBinds, CanBind, DistinctKeys
  <2>6. ASSUME NEW d \in Descriptors, RunBindFails(d) PROVE CameraInv'
    BY <2>6 DEF RunBindFails, StopAll
  <2>7. ASSUME NEW s \in Sups, RunAdds(s) PROVE CameraInv'
    BY <2>7, AddrType DEF RunAdds, Add, DistinctKeys
  <2>8. ASSUME NEW s \in Sups, StopOne(s) PROVE CameraInv'
    BY <2>8 DEF StopOne, Retire
  <2>9. CASE RunPublished BY <2>9 DEF RunPublished
  <2> QED BY <1>1, <2>1, <2>2, <2>3, <2>4, <2>5, <2>6, <2>7, <2>8, <2>9
         DEF RunStep
<1>2. ASSUME ReloadStep PROVE CameraInv'
  <2>1. CASE ReloadStopped BY <2>1 DEF ReloadStopped
  <2>2. CASE ReloadEnds BY <2>2 DEF ReloadEnds
  <2>3. ASSUME NEW d \in Descriptors, ReloadBinds(d) PROVE CameraInv'
    BY <2>3, AddrType DEF ReloadBinds, CanBind, DistinctKeys
  <2>4. ASSUME NEW s \in Sups, ReloadCancels(s) PROVE CameraInv'
    BY <2>4 DEF ReloadCancels, Retire
  <2>5. ASSUME NEW s \in Sups, ReloadRemoves(s) PROVE CameraInv'
    BY <2>5, AddrType DEF ReloadRemoves, Ended
  <2>6. ASSUME NEW s \in Sups, ReloadAdds(s) PROVE CameraInv'
    <3>1. reloadBound \in Descriptors /\ cameras[KeyOf[reloadBound]] = Nobody
      BY <2>6 DEF ReloadAdds
    <3>2. \A d \in wanted : KeyOf[d] # KeyOf[reloadBound]
      BY <2>6 DEF ReloadAdds, DistinctKeys
    <3>3. MapInv'
      BY <2>6, <3>1, AddrType DEF ReloadAdds, Add
    <3>4. StartInv'
      BY <2>6 DEF ReloadAdds, Add
    <3>5. ReloadInv'
      BY <2>6, <3>1, <3>2, AddrType DEF ReloadAdds, Add, DistinctKeys
    <3> QED BY <3>3, <3>4, <3>5
  <2>7. CASE ReloadPublished BY <2>7 DEF ReloadPublished
  <2> QED BY <1>2, <2>1, <2>2, <2>3, <2>4, <2>5, <2>6, <2>7
         DEF ReloadStep
<1>3. ASSUME NEW s \in Sups, Supervise(s) PROVE CameraInv'
  <2>1. CASE EnterServe(s) BY <2>1 DEF EnterServe, Step
  <2>2. CASE AfterServe(s) BY <2>2 DEF AfterServe, Step
  <2>3. CASE SleepOver(s) BY <2>3 DEF SleepOver, Step
  <2>4. CASE SleepCut(s) BY <2>4 DEF SleepCut, Step
  <2>5. CASE Rebind(s)
    <3>1. MapInv'
      BY <2>5 DEF Rebind, Step
    <3>2. StartInv'
      BY <2>5 DEF Rebind, Step
    <3>3. ReloadInv'
      BY <2>5 DEF Rebind, Step
    <3> QED BY <3>1, <3>2, <3>3
  <2>6. CASE RebindFails(s) BY <2>6 DEF RebindFails, Step
  <2>7. CASE SetServer(s) BY <2>7 DEF SetServer, Step
  <2>8. CASE SupPublished(s)
    <3>1. MapInv'
      BY <2>8 DEF SupPublished, Step
    <3>2. StartInv' /\ ReloadInv'
      BY <2>8 DEF SupPublished, Step
    <3> QED BY <3>1, <3>2
  <2> QED BY <1>3, <2>1, <2>2, <2>3, <2>4, <2>5, <2>6, <2>7, <2>8
         DEF Supervise
<1>4. ASSUME NEW s \in Sups, ServeReturns(s) PROVE CameraInv'
  BY <1>4 DEF ServeReturns, Step
<1>5. ASSUME NEW reg \in Registries, ReloadBegins(reg) PROVE CameraInv'
  <2>1. run \notin {"init", "starting", "publishing"} /\ reload = "idle"
    BY <1>5 DEF ReloadBegins, MayReload, Starting
  <2>2. MapInv' /\ StartInv'
    BY <1>5, <2>1 DEF ReloadBegins
  <2>3. ReloadInv'
    BY <1>5, <2>1, AddrType DEF ReloadBegins, DistinctKeys, Obsolete, Supervised
  <2> QED BY <2>2, <2>3
<1>6. ASSUME NEW k \in Keys, RestartCamera(k) PROVE CameraInv'
  BY <1>6 DEF RestartCamera
<1>7. CASE CancelContext BY <1>7 DEF CancelContext
<1>8. ASSUME NEW a \in Addrs, ForeignPort(a) PROVE CameraInv'
  BY <1>8 DEF ForeignPort
<1>9. CASE UNCHANGED vars BY <1>9 DEF vars
<1> QED BY <1>1, <1>2, <1>3, <1>4, <1>5, <1>6, <1>7, <1>8, <1>9 DEF Next

(* As long as no reload has come while Run was starting its cameras, every *)
(* supervisor at work is the one the map has for its camera, and what is   *)
(* still to start is in nobody's hands.                                    *)
THEOREM CamerasAccounted == Spec => [](early \/ CameraInv)
<1>1. TypeOK /\ (early \/ CameraInv) /\ [Next]_vars => (early \/ CameraInv)'
  BY EarlyStays, StepCameraInv
<1> QED BY <1>1, TypeCorrect, InitCameraInv, PTL DEF Spec

(* Two supervisors at work are never of one camera, unless a reload came   *)
(* while Run was starting its cameras (app.go, Run, Reload, add, remove).  *)
THEOREM OneSupervisor == Spec => []OneSupervisorPerCamera
<1>1. (early \/ CameraInv) => OneSupervisorPerCamera
  BY DEF CameraInv, MapInv, OneSupervisorPerCamera, LiveSups
<1> QED BY <1>1, CamerasAccounted, PTL

---------------------------------------------------------------------------
(* What a reload stops, whenever it comes.                                 *)

(* The map has supervisors that add started, each under its camera's key,  *)
(* and a reload is left with nothing to wait for.                          *)
BookInv ==
    /\ \A k \in Keys : cameras[k] # Nobody => pc[cameras[k]] # "free"
    /\ reload # "stopping" => Replaced = {}

(* What Reload stops is neither new nor wanted any more. *)
KeepInv == BookInv /\ \A s \in Replaced : pc[s] # "free" /\ camera[s] \notin target

(* The initial state: no reload has come. *)
LEMMA InitKeepInv == Init => KeepInv
BY DEF Init, KeepInv, BookInv, Replaced

(* A reload stops only supervisors that its registry does not want, and a  *)
(* supervisor keeps its camera.                                            *)
LEMMA StepKeepInv ==
    TypeOK /\ KeepInv /\ [Next]_vars => KeepInv'
<1> SUFFICES ASSUME TypeOK, KeepInv, [Next]_vars PROVE KeepInv'
  OBVIOUS
<1> USE DEF TypeOK, KeepInv, BookInv, Replaced, Owners, runVars, mapVars, supVars,
      reloadVars
<1>1. ASSUME RunStep PROVE KeepInv'
  <2>1. CASE RunBegins BY <2>1 DEF RunBegins
  <2>2. CASE RunStarted BY <2>2 DEF RunStarted
  <2>3. CASE RunStops BY <2>3 DEF RunStops, StopAll
  <2>4. CASE StoppedAll BY <2>4 DEF StoppedAll
  <2>5. ASSUME NEW d \in Descriptors, RunBinds(d) PROVE KeepInv'
    BY <2>5 DEF RunBinds, CanBind
  <2>6. ASSUME NEW d \in Descriptors, RunBindFails(d) PROVE KeepInv'
    BY <2>6 DEF RunBindFails, StopAll
  <2>7. ASSUME NEW s \in Sups, RunAdds(s) PROVE KeepInv'
    BY <2>7 DEF RunAdds, Add
  <2>8. ASSUME NEW s \in Sups, StopOne(s) PROVE KeepInv'
    BY <2>8 DEF StopOne, Retire
  <2>9. CASE RunPublished BY <2>9 DEF RunPublished
  <2> QED BY <1>1, <2>1, <2>2, <2>3, <2>4, <2>5, <2>6, <2>7, <2>8, <2>9
         DEF RunStep
<1>2. ASSUME ReloadStep PROVE KeepInv'
  <2>1. CASE ReloadStopped BY <2>1 DEF ReloadStopped
  <2>2. CASE ReloadEnds BY <2>2 DEF ReloadEnds
  <2>3. ASSUME NEW d \in Descriptors, ReloadBinds(d) PROVE KeepInv'
    BY <2>3 DEF ReloadBinds, CanBind
  <2>4. ASSUME NEW s \in Sups, ReloadCancels(s) PROVE KeepInv'
    BY <2>4 DEF ReloadCancels, Retire
  <2>5. ASSUME NEW s \in Sups, ReloadRemoves(s) PROVE KeepInv'
    BY <2>5 DEF ReloadRemoves
  <2>6. ASSUME NEW s \in Sups, ReloadAdds(s) PROVE KeepInv'
    BY <2>6 DEF ReloadAdds, Add
  <2>7. CASE ReloadPublished BY <2>7 DEF ReloadPublished
  <2> QED BY <1>2, <2>1, <2>2, <2>3, <2>4, <2>5, <2>6, <2>7
         DEF ReloadStep
<1>3. ASSUME NEW s \in Sups, Supervise(s) PROVE KeepInv'
  <2>1. CASE EnterServe(s) BY <2>1 DEF EnterServe, Step
  <2>2. CASE AfterServe(s) BY <2>2 DEF AfterServe, Step
  <2>3. CASE SleepOver(s) BY <2>3 DEF SleepOver, Step
  <2>4. CASE SleepCut(s) BY <2>4 DEF SleepCut, Step
  <2>5. CASE Rebind(s) BY <2>5 DEF Rebind, Step, CanBind
  <2>6. CASE RebindFails(s) BY <2>6 DEF RebindFails, Step
  <2>7. CASE SetServer(s) BY <2>7 DEF SetServer, Step
  <2>8. CASE SupPublished(s) BY <2>8 DEF SupPublished, Step
  <2> QED BY <1>3, <2>1, <2>2, <2>3, <2>4, <2>5, <2>6, <2>7, <2>8
         DEF Supervise
<1>4. ASSUME NEW s \in Sups, ServeReturns(s) PROVE KeepInv'
  BY <1>4 DEF ServeReturns, Step
<1>5. ASSUME NEW reg \in Registries, ReloadBegins(reg) PROVE KeepInv'
  BY <1>5 DEF ReloadBegins, Obsolete, Supervised
<1>6. ASSUME NEW k \in Keys, RestartCamera(k) PROVE KeepInv'
  BY <1>6 DEF RestartCamera
<1>7. CASE CancelContext BY <1>7 DEF CancelContext
<1>8. ASSUME NEW a \in Addrs, ForeignPort(a) PROVE KeepInv'
  BY <1>8 DEF ForeignPort
<1>9. CASE UNCHANGED vars BY <1>9 DEF vars
<1> QED BY <1>1, <1>2, <1>3, <1>4, <1>5, <1>6, <1>7, <1>8, <1>9 DEF Next

(* KeepInv holds of every reload, also one that comes while Run starts.    *)
THEOREM ReplacedUnwanted == Spec => []KeepInv
BY StepKeepInv, TypeCorrect, InitKeepInv, PTL DEF Spec

(* A reload leaves the cameras it keeps alone, whenever it comes: their    *)
(* context is cancelled by shutdown only, and no step of the reload closes *)
(* or takes a socket of theirs (app.go, Reload).                           *)
THEOREM KeptCameras == Spec => ReloadKeepsCameras
<1> DEFINE Untouched(s) == \A a \in Addrs : holder'[a] = s <=> holder[a] = s
           Kept == \A s \in LiveSups : reload # "idle" /\ camera[s] \in target =>
                     /\ s \in cancelled' \ cancelled => run \in {"stopping", "aborting"}
                     /\ ReloadStep => Untouched(s)
<1>1. TypeOK /\ KeepInv /\ SocketInv /\ [Next]_vars => Kept
  <2> SUFFICES ASSUME TypeOK, KeepInv, SocketInv, [Next]_vars,
                      NEW s \in LiveSups, camera[s] \in target
               PROVE  /\ s \in cancelled' \ cancelled => run \in {"stopping", "aborting"}
                      /\ ReloadStep => Untouched(s)
    OBVIOUS
  <2> USE DEF supVars, runVars
  <2>0. s \in Sups /\ pc[s] # "free" /\ s \notin {Nobody, "reload"}
    BY DEF LiveSups, Live
  <2>1. ASSUME RunStep PROVE s \in cancelled' \ cancelled => run \in {"stopping", "aborting"}
    BY <2>1 DEF RunStep, RunBegins, RunStarted, RunStops, StoppedAll, RunBinds,
       RunBindFails, RunAdds, Add, StopOne, RunPublished
  <2>2. ASSUME ReloadStep PROVE s \notin cancelled' \ cancelled /\ Untouched(s)
    <3>1. ASSUME NEW t \in Sups, ReloadCancels(t)
          PROVE  s \notin cancelled' \ cancelled /\ Untouched(s)
      <4>1. t # s
        BY <3>1 DEF ReloadCancels, KeepInv, Replaced
      <4>2. Untouched(s)
        BY <2>0, <3>1, <4>1 DEF ReloadCancels, Retire, CloseServer, CloseSocket
      <4> QED BY <3>1, <4>1, <4>2 DEF ReloadCancels, Retire
    <3>2. ASSUME NEW t \in Sups, ReloadAdds(t)
          PROVE  s \notin cancelled' \ cancelled /\ Untouched(s)
      <4>1. t # s /\ holder[AddrOf[reloadBound]] # s
        BY <2>0, <3>2 DEF ReloadAdds, Add, SocketInv
      <4>2. Untouched(s)
        BY <3>2, <4>1 DEF ReloadAdds, Add, Bind, TypeOK
      <4> QED BY <3>2, <4>2 DEF ReloadAdds, Add
    <3>3. ASSUME NEW d \in Descriptors, ReloadBinds(d)
          PROVE  s \notin cancelled' \ cancelled /\ Untouched(s)
      <4>1. Untouched(s)
        BY <2>0, <3>3 DEF ReloadBinds, CanBind, Bind, TypeOK
      <4> QED BY <3>3, <4>1 DEF ReloadBinds
    <3>4. ASSUME \/ ReloadStopped \/ ReloadEnds \/ ReloadPublished
                 \/ \E t \in Sups : ReloadRemoves(t)
          PROVE  s \notin cancelled' \ cancelled /\ Untouched(s)
      BY <3>4 DEF ReloadStopped, ReloadEnds, ReloadRemoves, ReloadPublished
    <3> QED BY <2>2, <3>1, <3>2, <3>3, <3>4 DEF ReloadStep
  <2>3. ASSUME NEW t \in Sups, Supervise(t) \/ ServeReturns(t)
        PROVE  UNCHANGED cancelled
    BY <2>3 DEF Supervise, ServeReturns, EnterServe, AfterServe, SleepOver,
       SleepCut, Rebind, RebindFails, SetServer, SupPublished
  <2>4. ASSUME \/ \E reg \in Registries : ReloadBegins(reg)
               \/ \E k \in Keys : RestartCamera(k)
               \/ CancelContext \/ (\E a \in Addrs : ForeignPort(a)) \/ UNCHANGED vars
        PROVE  UNCHANGED cancelled
    BY <2>4 DEF ReloadBegins, RestartCamera, CancelContext, ForeignPort, vars
  <2> QED BY <2>1, <2>2, <2>3, <2>4 DEF Next
<1> QED BY <1>1, TypeCorrect, ReplacedUnwanted, SocketsHeldInService, PTL
         DEF Spec, ReloadKeepsCameras

---------------------------------------------------------------------------
(* What is supervised and what is still missing, camera by camera.         *)
IsSupervised(d) ==
    cameras[KeyOf[d]] # Nobody /\ camera[cameras[KeyOf[d]]] = d

StartedInv ==
    /\ run \in {"init", "starting", "publishing"} => failed = {}
    /\ run = "starting" =>
          /\ ToStart \subseteq registry
          /\ \A d \in Descriptors : IsSupervised(d) <=> d \in registry \ ToStart
    /\ run \in {"publishing", "running"} /\ reload = "idle" =>
          \A d \in Descriptors : IsSupervised(d) <=> d \in registry \ failed

ReloadedInv == reload # "idle" =>
    /\ failed \cap ToReload = {} /\ ToReload \subseteq target
    /\ reload = "publishing" => ToReload = {} /\ registry = target
    /\ \A d \in Descriptors :
          d \in target \ (ToReload \cup failed) <=>
             IsSupervised(d) /\ cameras[KeyOf[d]] \notin Replaced

(* Nothing is supervised and no reload has failed at first. *)
LEMMA InitReconciling == Init => StartedInv /\ ReloadedInv
BY DEF Init, StartedInv, ReloadedInv

(* Run's startup moves cameras from todo to the map, a reload moves those  *)
(* it lacks from wanted to the map or to its failures and takes those it   *)
(* stopped out of the map.                                                 *)
LEMMA StepReconciling ==
    ~early' /\ TypeOK /\ CameraInv /\ KeepInv /\ StartedInv
    /\ ReloadedInv /\ [Next]_vars => StartedInv' /\ ReloadedInv'
<1> DEFINE Inv == StartedInv /\ ReloadedInv
<1> USE DEF TypeOK, StartedInv, ReloadedInv, Replaced, ToStart, ToReload,
      Pending, IsSupervised, Owners, runVars, mapVars, supVars, reloadVars
<1> SUFFICES ASSUME ~early', TypeOK, CameraInv, KeepInv, Inv, [Next]_vars
             PROVE  Inv'
  OBVIOUS
<1>1. ASSUME RunStep PROVE Inv'
  <2>1. CASE RunBegins
    BY <2>1, AddrType DEF RunBegins, CameraInv, MapInv, StartInv, ReloadInv
  <2>2. CASE RunStarted
    BY <2>2 DEF RunStarted, CameraInv, MapInv, StartInv, ReloadInv
  <2>3. CASE RunStops BY <2>3 DEF RunStops, StopAll
  <2>4. CASE StoppedAll BY <2>4 DEF StoppedAll
  <2>5. ASSUME NEW d \in Descriptors, RunBinds(d) PROVE Inv'
    BY <2>5 DEF RunBinds, CanBind, CameraInv, MapInv, StartInv, ReloadInv
  <2>6. ASSUME NEW d \in Descriptors, RunBindFails(d) PROVE Inv'
    BY <2>6 DEF RunBindFails, StopAll
  <2>7. ASSUME NEW s \in Sups, RunAdds(s) PROVE Inv'
    BY <2>7, AddrType DEF RunAdds, Add, CameraInv, MapInv, StartInv,
       ReloadInv
  <2>8. ASSUME NEW s \in Sups, StopOne(s) PROVE Inv'
    BY <2>8 DEF StopOne, Retire
  <2>9. CASE RunPublished BY <2>9 DEF RunPublished
  <2> QED BY <1>1, <2>1, <2>2, <2>3, <2>4, <2>5, <2>6, <2>7, <2>8, <2>9
         DEF RunStep
<1>2. ASSUME ReloadStep PROVE Inv'
  <2>1. CASE ReloadStopped
    BY <2>1 DEF ReloadStopped, CameraInv, MapInv, StartInv, ReloadInv
  <2>2. CASE ReloadEnds
    BY <2>2 DEF ReloadEnds, CameraInv, MapInv, StartInv, ReloadInv
  <2>3. ASSUME NEW d \in Descriptors, ReloadBinds(d) PROVE Inv'
    BY <2>3 DEF ReloadBinds, CanBind, CameraInv, MapInv, StartInv,
       ReloadInv
  <2>4. ASSUME NEW s \in Sups, ReloadCancels(s) PROVE Inv'
    BY <2>4 DEF ReloadCancels, Retire, CameraInv, MapInv, StartInv,
       ReloadInv
  <2>5. ASSUME NEW s \in Sups, ReloadRemoves(s) PROVE Inv'
    BY <2>5, AddrType DEF ReloadRemoves, CameraInv, MapInv, StartInv,
       ReloadInv
  <2>6. ASSUME NEW s \in Sups, ReloadAdds(s) PROVE Inv'
    BY <2>6, AddrType DEF ReloadAdds, Add, CameraInv, MapInv, StartInv,
       ReloadInv, KeepInv
  <2>7. CASE ReloadPublished
    BY <2>7 DEF ReloadPublished, CameraInv, ReloadInv, StartInv
  <2> QED BY <1>2, <2>1, <2>2, <2>3, <2>4, <2>5, <2>6, <2>7
         DEF ReloadStep
<1>3. ASSUME NEW s \in Sups, Supervise(s) PROVE Inv'
  <2>1. CASE EnterServe(s) BY <2>1 DEF EnterServe, Step
  <2>2. CASE AfterServe(s) BY <2>2 DEF AfterServe, Step
  <2>3. CASE SleepOver(s) BY <2>3 DEF SleepOver, Step
  <2>4. CASE SleepCut(s) BY <2>4 DEF SleepCut, Step
  <2>5. CASE Rebind(s) BY <2>5 DEF Rebind, Step, CanBind
  <2>6. CASE RebindFails(s) BY <2>6 DEF RebindFails, Step
  <2>7. CASE SetServer(s) BY <2>7 DEF SetServer, Step
  <2>8. CASE SupPublished(s) BY <2>8 DEF SupPublished, Step
  <2> QED BY <1>3, <2>1, <2>2, <2>3, <2>4, <2>5, <2>6, <2>7, <2>8
         DEF Supervise
<1>4. ASSUME NEW s \in Sups, ServeReturns(s) PROVE Inv'
  BY <1>4 DEF ServeReturns, Step
<1>5. ASSUME NEW reg \in Registries, ReloadBegins(reg) PROVE Inv'
  BY <1>5, AddrType DEF ReloadBegins, MayReload, Starting, CameraInv, MapInv, StartInv,
     ReloadInv, Obsolete, Supervised, DistinctKeys
<1>6. ASSUME NEW k \in Keys, RestartCamera(k) PROVE Inv'
  BY <1>6 DEF RestartCamera
<1>7. CASE CancelContext BY <1>7 DEF CancelContext
<1>8. ASSUME NEW a \in Addrs, ForeignPort(a) PROVE Inv' BY <1>8 DEF ForeignPort
<1>9. CASE UNCHANGED vars BY <1>9 DEF vars
<1> QED BY <1>1, <1>2, <1>3, <1>4, <1>5, <1>6, <1>7, <1>8, <1>9 DEF Next

(* The registry is reconciled in every phase of Run and Reload, unless a   *)
(* reload came while Run was starting its cameras.                         *)
THEOREM Reconciling == Spec => [](early \/ (StartedInv /\ ReloadedInv))
<1> DEFINE Inv == StartedInv /\ ReloadedInv
<1>1. TypeOK /\ (early \/ CameraInv) /\ KeepInv /\ (early \/ Inv) /\ [Next]_vars
         => (early \/ Inv)'
  BY EarlyStays, StepReconciling
<1> QED BY <1>1, TypeCorrect, CamerasAccounted, ReplacedUnwanted, InitReconciling, PTL
         DEF Spec

(* With no reload in progress Run supervises the cameras of its registry,  *)
(* without those the last reload could not bind, unless a reload came      *)
(* while Run was starting them (app.go, Run and Reload).                   *)
THEOREM RegistryReconciled == Spec => []Reconciled
<1>1. TypeOK /\ (early \/ CameraInv) /\ (early \/ (StartedInv /\ ReloadedInv)) => Reconciled
  <2> SUFFICES ASSUME TypeOK, CameraInv, StartedInv, run = "running", reload = "idle"
               PROVE  {camera[s] : s \in Supervised} = registry \ failed
    BY DEF Reconciled
  <2>1. ASSUME NEW s \in Supervised
        PROVE  camera[s] \in Descriptors /\ IsSupervised(camera[s])
    BY DEF Supervised, TypeOK, CameraInv, MapInv, IsSupervised
  <2>2. ASSUME NEW d \in Descriptors, IsSupervised(d)
        PROVE  \E s \in Supervised : camera[s] = d
    BY <2>2, AddrType DEF Supervised, IsSupervised
  <2>3. \A d \in Descriptors : IsSupervised(d) <=> d \in registry \ failed
    BY DEF StartedInv
  <2>4. registry \subseteq Descriptors
    BY DEF TypeOK
  <2> QED BY <2>1, <2>2, <2>3, <2>4
<1> QED BY <1>1, TypeCorrect, CamerasAccounted, Reconciling, PTL

---------------------------------------------------------------------------
(* The counters.                                                           *)

(* The supervisors in service are finitely many; one more or one less      *)
(* changes their number by one.                                            *)
LEMMA ServiceCount ==
    /\ Cardinality(InService) \in Nat
    /\ \A s \in Sups \ InService :
          Cardinality(InService \cup {s}) = Cardinality(InService) + 1
    /\ \A s \in InService :
          Cardinality(InService \ {s}) = Cardinality(InService) - 1
<1>1. IsFiniteSet(InService)
  BY FS_Subset DEF InService
<1> QED BY <1>1, FS_CardinalityType, FS_AddElement, FS_RemoveElement

(* Nothing is counted at first. *)
LEMMA InitCounters == Init => CountersExact
<1> SUFFICES ASSUME Init PROVE CountersExact
  OBVIOUS
<1>1. InService = {} /\ {k \in Keys : cameras[k] # Nobody} = {}
  BY DEF Init, InService
<1> QED BY <1>1, FS_EmptySet DEF Init, CountersExact, Registered

(* supervise counts itself up and down with the phase, add and remove      *)
(* store the size of the map they leave.                                   *)
LEMMA StepCounters ==
    TypeOK /\ CountersExact /\ [Next]_vars => CountersExact'
<1> SUFFICES ASSUME TypeOK, CountersExact, [Next]_vars
             PROVE  CountersExact'
  OBVIOUS
<1> DEFINE SameService == InService' = InService /\ UNCHANGED serving
           SameMap == UNCHANGED <<cameras, total>>
           MapCounted == total' = Registered(cameras')
           Counted == SameService /\ (SameMap \/ MapCounted)
<1>0. ASSUME Counted PROVE CountersExact'
  BY <1>0 DEF CountersExact
<1> HIDE DEF Counted
<1>1. ASSUME RunStep PROVE Counted
  BY <1>1 DEF Counted, InService, TypeOK, mapVars, RunStep, RunBegins, RunStarted,
        RunStops, StoppedAll, RunBinds, RunBindFails, RunAdds, Add, StopOne,
        RunPublished
<1>2. ASSUME ReloadStep PROVE Counted
  BY <1>2 DEF Counted, InService, TypeOK, mapVars, ReloadStep, ReloadStopped,
        ReloadEnds, ReloadBinds, ReloadCancels, ReloadRemoves, ReloadAdds, Add,
        ReloadPublished
<1>3. ASSUME NEW s \in Sups, Supervise(s) PROVE CountersExact'
  <2>1. CASE EnterServe(s)
    <3>1. s \in Sups \ InService /\ InService' = InService \cup {s}
      BY <2>1 DEF EnterServe, Step, InService, TypeOK
    <3> QED BY <2>1, <3>1, ServiceCount DEF EnterServe, CountersExact, mapVars
  <2>2. CASE SupPublished(s)
    <3>1. InService' = InService
      BY <2>2 DEF SupPublished, Step, InService, TypeOK
    <3> QED BY <2>2, <3>1 DEF SupPublished, CountersExact, mapVars
  <2>3. CASE \/ AfterServe(s) \/ SleepOver(s) \/ SleepCut(s) \/ Rebind(s)
             \/ RebindFails(s) \/ SetServer(s)
    <3>1. Counted
      BY <2>3 DEF Counted, InService, TypeOK, AfterServe, SleepOver, SleepCut,
            Rebind, RebindFails, SetServer, Step,
            mapVars
    <3> QED BY <3>1, <1>0
  <2> QED BY <1>3, <2>1, <2>2, <2>3 DEF Supervise
<1>4. ASSUME NEW s \in Sups, ServeReturns(s) PROVE CountersExact'
  <2>1. s \in InService /\ InService' = InService \ {s}
    BY <1>4 DEF ServeReturns, Step, InService, TypeOK
  <2> QED BY <1>4, <2>1, ServiceCount DEF ServeReturns, CountersExact, mapVars
<1>5. ASSUME \/ \E reg \in Registries : ReloadBegins(reg)
             \/ \E k \in Keys : RestartCamera(k)
             \/ CancelContext \/ (\E a \in Addrs : ForeignPort(a))
             \/ UNCHANGED vars
      PROVE  Counted
  BY <1>5 DEF Counted, InService, ReloadBegins, RestartCamera, CancelContext,
        ForeignPort, mapVars, vars
<1> QED BY <1>0, <1>1, <1>2, <1>3, <1>4, <1>5 DEF Next

(* The counters publishBridges loads are exact at every moment.            *)
THEOREM Counters == Spec => []CountersExact
BY TypeCorrect, InitCounters, StepCounters, PTL DEF Spec

---------------------------------------------------------------------------
(* The cameras as the owner sees them.                                     *)

(* Run is told to stop, or has not started. *)
Closing == ctxDone \/ run \in {"stopping", "aborting", "lastPublish", "returned", "failed"}

(* Until then a supervisor is called off only by a reload that waits for   *)
(* it, and ends only when it is called off.                                *)
CalledOff(s) ==
    /\ pc[s] = "free" => s \notin cancelled
    /\ s \in cancelled => s \in waited["reload"] \/ (pc[s] = "done" /\ s \notin Supervised)
    /\ pc[s] = "done" => s \in cancelled

CancelInv == ~Closing => \A s \in Sups : CalledOff(s)

(* Nobody is called off at first. *)
LEMMA InitCancelInv == Init => CancelInv
BY DEF Init, CancelInv, CalledOff

(* A step that calls nobody off, moves no supervisor to its end and puts   *)
(* nobody into the map.                                                    *)
LEMMA CancelStays ==
    ASSUME CancelInv, Closing => Closing', UNCHANGED <<cancelled, waited>>,
           \A s \in Sups : \/ pc'[s] = pc[s]
                           \/ pc[s] \in Live /\ pc'[s] \in Live
                           \/ pc[s] \in Live /\ pc'[s] = "done" /\ SupDone(s),
           \A k \in Keys : cameras'[k] \in {cameras[k], Nobody}
    PROVE  CancelInv'
<1> SUFFICES ASSUME ~Closing', NEW s \in Sups PROVE CalledOff(s)'
  BY DEF CancelInv
<1>1. ~Closing /\ CalledOff(s) /\ ~BaseDone
  BY DEF CancelInv, Closing, BaseDone
<1>2. s \in Supervised' => s \in Supervised
  BY DEF Supervised
<1> QED BY <1>1, <1>2 DEF CalledOff, SupDone, Live

(* add starts a supervisor that nobody has called off. *)
LEMMA CancelAdded ==
    ASSUME TypeOK, CancelInv, UNCHANGED <<ctxDone, run, waited>>,
           NEW s \in Sups, NEW d \in Descriptors, Add(s, d)
    PROVE  CancelInv'
<1> SUFFICES ASSUME ~Closing', NEW t \in Sups PROVE CalledOff(t)'
  BY DEF CancelInv
<1>1. ~Closing /\ CalledOff(t) /\ CalledOff(s)
  BY DEF CancelInv, Closing
<1>2. /\ pc[s] = "free" /\ pc' = [pc EXCEPT ![s] = "entering"]
      /\ cameras' = [cameras EXCEPT ![KeyOf[d]] = s] /\ UNCHANGED <<cancelled, waited>>
  BY DEF Add
<1>3. CASE t = s
  BY <1>1, <1>2, <1>3 DEF CalledOff, TypeOK
<1>4. CASE t # s
  <2>1. t \in Supervised' => t \in Supervised
    BY <1>2, <1>4 DEF Supervised, TypeOK
  <2> QED BY <1>1, <1>2, <1>4, <2>1 DEF CalledOff, TypeOK
<1> QED BY <1>3, <1>4

(* Every step keeps CancelInv. *)
LEMMA StepCancelInv ==
    TypeOK /\ KeepInv /\ CancelInv /\ [Next]_vars => CancelInv'
<1> SUFFICES ASSUME TypeOK, KeepInv, CancelInv, [Next]_vars PROVE CancelInv'
  OBVIOUS
<1> USE DEF runVars, mapVars, supVars, reloadVars
<1>1. ASSUME RunStep PROVE CancelInv'
  <2>1. CASE RunBegins \/ RunStarted \/ RunStops \/ StoppedAll
    BY <2>1, CancelStays DEF RunBegins, RunStarted, RunStops, StopAll, StoppedAll, Closing
  <2>2. ASSUME NEW d \in Descriptors, RunBinds(d) \/ RunBindFails(d) PROVE CancelInv'
    BY <2>2, CancelStays DEF RunBinds, RunBindFails, StopAll, Closing
  <2>3. ASSUME NEW s \in Sups, RunAdds(s) PROVE CancelInv'
    BY <2>3, CancelAdded DEF RunAdds, TypeOK
  <2>4. ASSUME NEW s \in Sups, StopOne(s) PROVE CancelInv'
    BY <2>4 DEF StopOne, CancelInv, Closing
  <2>5. CASE RunPublished
    BY <2>5, CancelStays DEF RunPublished, Closing
  <2> QED BY <1>1, <2>1, <2>2, <2>3, <2>4, <2>5 DEF RunStep
<1>2. ASSUME ReloadStep PROVE CancelInv'
  <2>1. CASE ReloadStopped \/ ReloadEnds
    BY <2>1, CancelStays DEF ReloadStopped, ReloadEnds, Closing
  <2>2. ASSUME NEW d \in Descriptors, ReloadBinds(d) PROVE CancelInv'
    BY <2>2, CancelStays DEF ReloadBinds, Closing
  <2>3. ASSUME NEW s \in Sups, ReloadCancels(s) PROVE CancelInv'
    <3> SUFFICES ASSUME ~Closing', NEW t \in Sups PROVE CalledOff(t)'
      BY DEF CancelInv
    <3>1. pc[s] # "free"
      BY <2>3 DEF ReloadCancels, KeepInv, Replaced
    <3>2. /\ cancelled' = cancelled \cup {s} /\ waited' = [waited EXCEPT !["reload"] = @ \cup {s}]
          /\ UNCHANGED <<ctxDone, run, pc, cameras>>
      BY <2>3 DEF ReloadCancels, Retire
    <3>3. waited'["reload"] = waited["reload"] \cup {s}
      BY <3>2 DEF TypeOK
    <3>4. CalledOff(t) /\ UNCHANGED Supervised
      BY <3>2 DEF CancelInv, Closing, Supervised
    <3> QED BY <3>1, <3>2, <3>3, <3>4 DEF CalledOff
  <2>4. ASSUME NEW s \in Sups, ReloadRemoves(s) PROVE CancelInv'
    <3> SUFFICES ASSUME ~Closing', NEW t \in Sups PROVE CalledOff(t)'
      BY DEF CancelInv
    <3>1. /\ waited' = [waited EXCEPT !["reload"] = @ \ {s}] /\ pc[s] = "done"
          /\ cameras' = [k \in Keys |-> IF cameras[k] = s THEN Nobody ELSE cameras[k]]
          /\ UNCHANGED <<ctxDone, run, pc, cancelled>>
      BY <2>4 DEF ReloadRemoves, Ended
    <3>2. waited'["reload"] = waited["reload"] \ {s}
      BY <3>1 DEF TypeOK
    <3>3. s \notin Supervised' /\ (t \in Supervised' => t \in Supervised)
      BY <3>1 DEF Supervised
    <3>4. CalledOff(t)
      BY <3>1 DEF CancelInv, Closing
    <3> QED BY <3>1, <3>2, <3>3, <3>4 DEF CalledOff
  <2>5. ASSUME NEW s \in Sups, ReloadAdds(s) PROVE CancelInv'
    BY <2>5, CancelAdded DEF ReloadAdds, TypeOK
  <2>6. CASE ReloadPublished
    BY <2>6, CancelStays DEF ReloadPublished, Closing
  <2> QED BY <1>2, <2>1, <2>2, <2>3, <2>4, <2>5, <2>6 DEF ReloadStep
<1>3. ASSUME NEW s \in Sups, Supervise(s) \/ ServeReturns(s) PROVE CancelInv'
  <2>1. UNCHANGED <<ctxDone, run, cancelled, waited, cameras>>
    BY <1>3 DEF Supervise, EnterServe, AfterServe, SleepOver, SleepCut, Rebind, RebindFails,
       SetServer, SupPublished, ServeReturns
  <2>2. \/ UNCHANGED pc
        \/ \E to \in Live : pc[s] \in Live /\ pc' = [pc EXCEPT ![s] = to]
        \/ pc[s] \in Live /\ SupDone(s) /\ pc' = [pc EXCEPT ![s] = "done"]
    BY <1>3 DEF Supervise, EnterServe, AfterServe, SleepOver, SleepCut, Rebind,
       RebindFails, SetServer, SupPublished, ServeReturns, Step,
       Woken, Live
  <2> QED BY <2>1, <2>2, CancelStays DEF TypeOK, Closing
<1>4. ASSUME NEW reg \in Registries, ReloadBegins(reg) PROVE CancelInv'
  BY <1>4, CancelStays DEF ReloadBegins, Closing
<1>5. ASSUME NEW k \in Keys, RestartCamera(k) PROVE CancelInv'
  BY <1>5, CancelStays DEF RestartCamera, Closing
<1>6. CASE CancelContext
  BY <1>6 DEF CancelContext, CancelInv, Closing
<1>7. ASSUME NEW a \in Addrs, ForeignPort(a) PROVE CancelInv'
  BY <1>7, CancelStays DEF ForeignPort, Closing
<1>8. CASE UNCHANGED vars
  BY <1>8, CancelStays DEF vars, Closing
<1> QED BY <1>1, <1>2, <1>3, <1>4, <1>5, <1>6, <1>7, <1>8 DEF Next

(* Nobody is called off or ends before Run is told to stop but by a reload *)
(* that replaces or removes its camera (app.go, supervise and Reload).     *)
THEOREM OnlyReplacedEnd == Spec => []CancelInv
BY StepCancelInv, TypeCorrect, ReplacedUnwanted, InitCancelInv, PTL DEF Spec

---------------------------------------------------------------------------
(* The service the supervisor gives: a reload takes its registry over, and *)
(* a camera is looked after as long as a supervisor works on it.           *)
Reloading == reload \in {"stopping", "starting"}
Promised  == IF Reloading THEN target ELSE registry
Tended    == {camera[s] : s \in LiveSups}
Changing  == run \in {"init", "starting"} \/ Reloading

Service == INSTANCE CameraService WITH
    Cameras <- Descriptors, NameOf <- KeyOf,
    wanted <- Promised, tended <- Tended, changing <- Changing, closing <- Closing

ServiceInv ==
    /\ TypeOK /\ CameraInv /\ KeepInv /\ StartedInv /\ ReloadedInv
    /\ CancelInv

(* A camera that is looked after is one, and the map has its supervisor.   *)
LEMMA TendedIsMapped ==
    ASSUME TypeOK, CameraInv, NEW d \in Tended
    PROVE  d \in Descriptors /\ cameras[KeyOf[d]] # Nobody /\ IsSupervised(d)
<1>1. PICK s \in Sups : pc[s] \in Live /\ camera[s] = d
  BY DEF Tended, LiveSups
<1>2. pc[s] # "free"
  BY <1>1 DEF Live
<1> QED BY <1>1, <1>2 DEF CameraInv, MapInv, IsSupervised

(* While no supervisor is being replaced, what the map has is looked after. *)
LEMMA MappedIsTended ==
    ASSUME TypeOK, CameraInv, CancelInv, ~Closing, reload # "stopping"
    PROVE  \A d \in Descriptors : d \in Tended <=> IsSupervised(d)
<1> SUFFICES ASSUME NEW d \in Descriptors, IsSupervised(d) PROVE d \in Tended
  BY TendedIsMapped
<1> DEFINE s == cameras[KeyOf[d]]
<1>1. s \in Sups /\ s \in Supervised /\ camera[s] = d /\ pc[s] # "free"
  BY AddrType DEF IsSupervised, TypeOK, Supervised, CameraInv, MapInv
<1>2. s \notin waited["reload"]
  BY DEF CameraInv, ReloadInv, Replaced
<1>3. pc[s] # "done"
  BY <1>1, <1>2 DEF CancelInv, CalledOff
<1>4. pc[s] \in Live
  BY <1>1, <1>3 DEF TypeOK, SupPhases
<1> QED BY <1>1, <1>4 DEF Tended, LiveSups

(* What the owner sees is unchanged. *)
LEMMA ServiceStays ==
    ASSUME UNCHANGED <<Promised, failed, Tended, Changing, Closing>>
    PROVE  [Service!Next]_(Service!vars)
BY DEF Service!vars

(* As long as the same supervisors work, the same cameras are looked after. *)
LEMMA SameTended == ASSUME UNCHANGED <<pc, camera>> PROVE UNCHANGED Tended
BY DEF Tended, LiveSups

(* add takes a camera on. *)
LEMMA AddTakesOn ==
    ASSUME ServiceInv, NEW s \in Sups, NEW d \in Descriptors, Add(s, d),
           cameras[KeyOf[d]] = Nobody, d \in Promised \ failed, Changing,
           UNCHANGED <<Promised, failed, Changing, Closing>>
    PROVE  [Service!Next]_(Service!vars)
<1>1. \A e \in Tended : KeyOf[e] # KeyOf[d]
  BY TendedIsMapped DEF ServiceInv
<1>2. LiveSups' = LiveSups \cup {s} /\ s \notin LiveSups
  BY DEF Add, LiveSups, Live, ServiceInv, TypeOK
<1>3. camera'[s] = d /\ \A t \in LiveSups : camera'[t] = camera[t]
  BY <1>2 DEF Add, ServiceInv, TypeOK
<1>4. Tended' = Tended \cup {d}
  BY <1>2, <1>3 DEF Tended
<1>5. Service!TakeOn(d)
  BY <1>1, <1>4 DEF Service!TakeOn
<1> QED BY <1>5 DEF Service!Next

(* A supervisor ends only when its camera is not wanted, or at shutdown.   *)
LEMMA EndGivesUp ==
    ASSUME ServiceInv, NEW s \in Sups, pc[s] \in Live, SupDone(s),
           pc' = [pc EXCEPT ![s] = "done"], UNCHANGED camera,
           UNCHANGED <<Promised, failed, Changing, Closing>>
    PROVE  [Service!Next]_(Service!vars)
<1>1. \A t \in LiveSups : camera[t] = camera[s] => t = s
  BY DEF LiveSups, ServiceInv, CameraInv, MapInv
<1>2. camera[s] \in Descriptors /\ camera[s] \in Tended
  BY TendedIsMapped DEF Tended, LiveSups, ServiceInv
<1>3. LiveSups' = LiveSups \ {s}
  BY DEF LiveSups, Live, ServiceInv, TypeOK
<1>4. Tended' = Tended \ {camera[s]}
  BY <1>1, <1>3 DEF Tended
<1>5. Closing \/ camera[s] \notin Promised
  <2> SUFFICES ASSUME ~Closing PROVE camera[s] \notin Promised
    OBVIOUS
  <2>1. s \in waited["reload"]
    BY DEF SupDone, BaseDone, Closing, ServiceInv, CancelInv, CalledOff, Live
  <2>2. reload = "stopping" /\ camera[s] \notin target
    BY <2>1 DEF ServiceInv, CameraInv, ReloadInv, KeepInv, Replaced
  <2> QED BY <2>2 DEF Promised, Reloading
<1>6. Service!GiveUp(camera[s])
  BY <1>2, <1>4, <1>5 DEF Service!GiveUp
<1> QED BY <1>2, <1>6 DEF Service!Next

(* Run's steps: it takes its cameras on, abandons the start, or ends it.   *)
LEMMA RunServes == ASSUME ServiceInv, RunStep PROVE [Service!Next]_(Service!vars)
<1> USE DEF runVars, mapVars, supVars, reloadVars
<1>1. CASE RunBegins
  BY <1>1, ServiceStays, SameTended DEF RunBegins, Promised, Reloading, Changing, Closing
<1>2. CASE RunStarted
  <2>1. run = "starting" /\ ToStart = {} /\ reload = "idle" /\ failed = {}
    BY <1>2 DEF RunStarted, ServiceInv, CameraInv, StartInv, StartedInv, ToStart, Pending
  <2>2. ASSUME ~Closing PROVE Tended = Promised \ failed
    <3>1. \A d \in Descriptors : d \in Tended <=> d \in registry \ failed
      BY <2>1, <2>2, MappedIsTended DEF ServiceInv, StartedInv
    <3>2. Tended \subseteq Descriptors /\ registry \subseteq Descriptors
      BY TendedIsMapped DEF ServiceInv, TypeOK
    <3>3. Promised = registry
      BY <2>1 DEF Promised, Reloading
    <3> QED BY <3>1, <3>2, <3>3
  <2>3. Changing /\ ~Changing'
    BY <1>2, <2>1 DEF RunStarted, Changing, Reloading
  <2>4. UNCHANGED <<Promised, failed, Tended, Closing>>
    BY <1>2, SameTended DEF RunStarted, Promised, Reloading, Closing
  <2>5. Service!Changed
    BY <2>2, <2>3, <2>4 DEF Service!Changed, Changing
  <2> QED BY <2>5 DEF Service!Next
<1>3. CASE RunStops
  BY <1>3, ServiceStays, SameTended DEF RunStops, StopAll, Promised, Reloading, Changing, Closing
<1>4. CASE StoppedAll
  BY <1>4, ServiceStays, SameTended DEF StoppedAll, Promised, Reloading, Changing, Closing
<1>5. ASSUME NEW d \in Descriptors, RunBinds(d) PROVE [Service!Next]_(Service!vars)
  BY <1>5, ServiceStays, SameTended DEF RunBinds, Promised, Reloading, Changing, Closing
<1>6. ASSUME NEW d \in Descriptors, RunBindFails(d) PROVE [Service!Next]_(Service!vars)
  <2>1. reload = "idle"
    BY <1>6 DEF RunBindFails, ServiceInv, CameraInv, StartInv
  <2>2. Changing /\ ~Changing' /\ Closing'
    BY <1>6, <2>1 DEF RunBindFails, StopAll, Changing, Reloading, Closing
  <2>3. UNCHANGED <<Promised, failed, Tended>>
    BY <1>6, SameTended DEF RunBindFails, Promised, Reloading
  <2>4. Service!Abandon
    BY <2>2, <2>3 DEF Service!Abandon, Changing, Closing
  <2> QED BY <2>4 DEF Service!Next
<1>7. ASSUME NEW s \in Sups, RunAdds(s) PROVE [Service!Next]_(Service!vars)
  <2>1. run = "starting" /\ reload = "idle" /\ failed = {} /\ runBound \in ToStart
    BY <1>7 DEF RunAdds, ServiceInv, CameraInv, StartInv, StartedInv, ToStart, Pending
  <2>2. runBound \in Descriptors /\ cameras[KeyOf[runBound]] = Nobody
    BY <1>7, <2>1 DEF RunAdds, ServiceInv, TypeOK, CameraInv, StartInv
  <2>3. runBound \in Promised \ failed /\ Changing
    BY <2>1 DEF ServiceInv, StartedInv, Promised, Reloading, Changing
  <2>4. UNCHANGED <<Promised, failed, Changing, Closing>>
    BY <1>7 DEF RunAdds, Promised, Reloading, Changing, Closing
  <2> QED BY <1>7, <2>2, <2>3, <2>4, AddTakesOn DEF RunAdds
<1>8. ASSUME NEW s \in Sups, StopOne(s) PROVE [Service!Next]_(Service!vars)
  BY <1>8, ServiceStays, SameTended DEF StopOne, Promised, Reloading, Changing, Closing
<1>9. CASE RunPublished
  BY <1>9, ServiceStays, SameTended DEF RunPublished, Promised, Reloading, Changing, Closing
<1> QED BY <1>1, <1>2, <1>3, <1>4, <1>5, <1>6, <1>7, <1>8, <1>9 DEF RunStep

(* Reload's steps: it takes cameras on, gives up on one whose address is   *)
(* taken, and ends when it has tried all of them.                          *)
LEMMA ReloadServes ==
    ASSUME ServiceInv, ReloadStep PROVE [Service!Next]_(Service!vars)
<1> USE DEF runVars, mapVars, supVars, reloadVars
<1>1. CASE ReloadStopped
  BY <1>1, ServiceStays, SameTended DEF ReloadStopped, Promised, Reloading, Changing, Closing
<1>2. CASE ReloadEnds
  <2>1. reload = "starting" /\ ToReload = {} /\ Replaced = {}
    BY <1>2 DEF ReloadEnds, ServiceInv, CameraInv, ReloadInv, ToReload, Pending
  <2>2. ASSUME ~Closing PROVE Tended = Promised \ failed
    <3>1. \A d \in Descriptors : d \in Tended <=> d \in target \ failed
      BY <2>1, <2>2, MappedIsTended DEF ServiceInv, ReloadedInv
    <3>2. Tended \subseteq Descriptors /\ target \subseteq Descriptors
      BY TendedIsMapped DEF ServiceInv, TypeOK
    <3>3. Promised = target
      BY <2>1 DEF Promised, Reloading
    <3> QED BY <3>1, <3>2, <3>3
  <2>3. Changing /\ ~Changing'
    BY <1>2, <2>1 DEF ReloadEnds, Changing, Reloading, ServiceInv, CameraInv, StartInv
  <2>4. UNCHANGED <<Promised, failed, Tended, Closing>>
    BY <1>2, SameTended DEF ReloadEnds, Promised, Reloading, Closing
  <2>5. Service!Changed
    BY <2>2, <2>3, <2>4 DEF Service!Changed, Changing
  <2> QED BY <2>5 DEF Service!Next
<1>3. ASSUME NEW d \in Descriptors, ReloadBinds(d) PROVE [Service!Next]_(Service!vars)
  <2>1. reload = "starting" /\ d \in ToReload
    BY <1>3 DEF ReloadBinds, ToReload, Pending
  <2>2. UNCHANGED <<Promised, Tended, Changing, Closing>> /\ Changing
    BY <1>3, SameTended DEF ReloadBinds, Promised, Reloading, Changing, Closing
  <2>3. CASE UNCHANGED failed
    BY <2>2, <2>3, ServiceStays
  <2>4. CASE failed' = failed \cup {d}
    <3>1. d \in target \ failed /\ cameras[KeyOf[d]] = Nobody
      BY <2>1 DEF ServiceInv, ReloadedInv, CameraInv, ReloadInv
    <3>2. d \in Promised \ (Tended \cup failed)
      BY <2>1, <3>1, TendedIsMapped DEF Promised, Reloading, ServiceInv
    <3>3. Service!CannotTakeOn(d)
      BY <2>2, <2>4, <3>2 DEF Service!CannotTakeOn
    <3> QED BY <3>3 DEF Service!Next
  <2> QED BY <1>3, <2>3, <2>4 DEF ReloadBinds
<1>4. ASSUME NEW s \in Sups, ReloadCancels(s) \/ ReloadRemoves(s)
      PROVE  [Service!Next]_(Service!vars)
  BY <1>4, ServiceStays, SameTended DEF ReloadCancels, ReloadRemoves, Promised, Reloading,
     Changing, Closing
<1>5. ASSUME NEW s \in Sups, ReloadAdds(s) PROVE [Service!Next]_(Service!vars)
  <2>1. reload = "starting" /\ reloadBound \in ToReload
    BY <1>5 DEF ReloadAdds, ToReload, Pending
  <2>2. reloadBound \in Descriptors /\ cameras[KeyOf[reloadBound]] = Nobody
    BY <1>5, <2>1 DEF ReloadAdds, ServiceInv, TypeOK, CameraInv, ReloadInv
  <2>3. reloadBound \in Promised \ failed /\ Changing
    BY <2>1 DEF ServiceInv, ReloadedInv, Promised, Reloading, Changing
  <2>4. UNCHANGED <<Promised, failed, Changing, Closing>>
    BY <1>5 DEF ReloadAdds, Promised, Reloading, Changing, Closing
  <2> QED BY <1>5, <2>2, <2>3, <2>4, AddTakesOn DEF ReloadAdds
<1>6. CASE ReloadPublished
  BY <1>6, ServiceStays, SameTended DEF ReloadPublished, Promised, Reloading, Changing,
     Closing
<1> QED BY <1>1, <1>2, <1>3, <1>4, <1>5, <1>6 DEF ReloadStep

(* A supervisor's steps: whatever its bridge goes through, it looks after  *)
(* its camera until it is called off.                                      *)
LEMMA SuperviseServes ==
    ASSUME ServiceInv, NEW s \in Sups, Supervise(s) \/ ServeReturns(s)
    PROVE  [Service!Next]_(Service!vars)
<1> USE DEF runVars, mapVars, supVars, reloadVars
<1>1. UNCHANGED <<ctxDone, run, reload, target, registry, failed, camera>>
  BY DEF Supervise, EnterServe, AfterServe, SleepOver, SleepCut, Rebind, RebindFails,
     SetServer, SupPublished, ServeReturns
<1>2. UNCHANGED <<Promised, failed, Changing, Closing>>
  BY <1>1 DEF Promised, Reloading, Changing, Closing
<1>3. \/ UNCHANGED pc
      \/ \E to \in Live : pc[s] \in Live /\ pc' = [pc EXCEPT ![s] = to]
      \/ pc[s] \in Live /\ SupDone(s) /\ pc' = [pc EXCEPT ![s] = "done"]
  BY DEF Supervise, EnterServe, AfterServe, SleepOver, SleepCut, Rebind,
     RebindFails, SetServer, SupPublished, ServeReturns, Step,
     Woken, Live, ServiceInv
<1>4. CASE UNCHANGED pc
  BY <1>1, <1>2, <1>4, SameTended, ServiceStays
<1>5. ASSUME NEW to \in Live, pc[s] \in Live, pc' = [pc EXCEPT ![s] = to]
      PROVE  [Service!Next]_(Service!vars)
  <2>1. UNCHANGED LiveSups
    BY <1>5 DEF LiveSups, ServiceInv, TypeOK
  <2>2. UNCHANGED Tended
    BY <1>1, <2>1 DEF Tended
  <2> QED BY <1>2, <2>2, ServiceStays
<1>6. CASE pc[s] \in Live /\ SupDone(s) /\ pc' = [pc EXCEPT ![s] = "done"]
  BY <1>1, <1>2, <1>6, EndGivesUp
<1> QED BY <1>3, <1>4, <1>5, <1>6

(* Every step of the supervisor is a step of the service, or none. *)
LEMMA StepServes ==
    ~early' /\ ServiceInv /\ [Next]_vars => [Service!Next]_(Service!vars)
<1> SUFFICES ASSUME ~early', ServiceInv, [Next]_vars
             PROVE  [Service!Next]_(Service!vars)
  OBVIOUS
<1> USE DEF runVars, mapVars, supVars, reloadVars
<1>1. ASSUME NEW reg \in Registries, ReloadBegins(reg) PROVE [Service!Next]_(Service!vars)
  <2>1. ~Changing /\ Changing' /\ Promised' = reg /\ failed' = {}
    BY <1>1 DEF ReloadBegins, MayReload, Starting, Changing, Promised, Reloading
  <2>2. UNCHANGED <<Tended, Closing>>
    BY <1>1, SameTended DEF ReloadBegins, Closing
  <2>3. Service!Change(reg)
    BY <2>1, <2>2 DEF Service!Change, Changing
  <2> QED BY <2>3 DEF Service!Next
<1>2. ASSUME NEW k \in Keys, RestartCamera(k) PROVE [Service!Next]_(Service!vars)
  BY <1>2, ServiceStays, SameTended DEF RestartCamera, Promised, Reloading, Changing, Closing
<1>3. CASE CancelContext
  <2>1. UNCHANGED <<Promised, failed, Tended, Changing>> /\ Closing'
    BY <1>3, SameTended DEF CancelContext, Promised, Reloading, Changing, Closing
  <2>2. CASE Closing
    BY <2>1, <2>2, ServiceStays DEF Closing
  <2>3. CASE ~Closing
    <3>1. Service!Close
      BY <2>1, <2>3 DEF Service!Close, Closing
    <3> QED BY <3>1 DEF Service!Next
  <2> QED BY <2>2, <2>3
<1>4. ASSUME NEW a \in Addrs, ForeignPort(a) PROVE [Service!Next]_(Service!vars)
  BY <1>4, ServiceStays, SameTended DEF ForeignPort, Promised, Reloading, Changing, Closing
<1>5. CASE UNCHANGED vars
  BY <1>5, ServiceStays, SameTended DEF vars, Promised, Reloading, Changing, Closing
<1> QED BY <1>1, <1>2, <1>3, <1>4, <1>5, RunServes, ReloadServes, SuperviseServes DEF Next

(* At first Run is on the way to its registry and looks after nobody. *)
LEMMA InitServes == Init => Service!Init
BY DEF Init, Service!Init, Promised, Reloading, Tended, Changing, Closing, LiveSups, Live

(* Through reloads, restarts and failures the supervisor gives the service *)
(* CameraService describes: a camera is looked after by one supervisor     *)
(* until it leaves the registry or Run is told to stop, and a reload ends  *)
(* only with every camera of the new registry looked after or reported as  *)
(* failed (app.go, Run, Reload and supervise).  It takes that no reload    *)
(* comes while Run is starting its cameras, which the code does not rule   *)
(* out: such a reload takes on what Run has still to start.                *)
THEOREM SupervisionServes == Spec /\ []~early => Service!Spec
<1>1. ServiceInv /\ ~early' /\ [Next]_vars => [Service!Next]_(Service!vars)
  BY StepServes
<1>2. Spec /\ []~early => []ServiceInv
  BY TypeCorrect, CamerasAccounted, ReplacedUnwanted, Reconciling, OnlyReplacedEnd, PTL
     DEF ServiceInv
<1> QED BY <1>1, <1>2, InitServes, PTL DEF Spec, Service!Spec
=============================================================================

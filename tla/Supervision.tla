----------------------------- MODULE Supervision -----------------------------
(***************************************************************************)
(* The supervisor of the camera bridges, internal/app/app.go, and the      *)
(* bridge counters of internal/health.  Three kinds of goroutines work on  *)
(* one Runtime: Run starts the cameras and stops them at shutdown, Reload  *)
(* reconciles them with a new registry, and one supervise loop per camera  *)
(* serves it and restarts it with a growing wait.  Each of them reports    *)
(* through publishBridges, which reads counters and writes nothing of the  *)
(* runtime's: one step here, taken apart in BridgeHealth.                  *)
(*                                                                         *)
(* A camera descriptor stands for a Camera of the registry: descriptors    *)
(* with the same key are one camera with other credentials or another      *)
(* address, and a registry is a set of descriptors with different keys.    *)
(* Serving sessions is BridgeSessions; here a server is its socket.        *)
(***************************************************************************)
EXTENDS Integers, FiniteSets

CONSTANTS
    Keys,         \* camera identifiers (cameraKey)
    Descriptors,  \* camera descriptors
    KeyOf,        \* the key of a descriptor
    AddrOf,       \* the listen address of a descriptor
    Registries,   \* the registries SIGHUP can load
    Initial,      \* the registry Run starts with
    Sups,         \* supervisors that can be added in one behaviour (a bound)
    Nobody,       \* no supervisor, no descriptor
    BackoffMax,   \* RestartBackoffMax, in units of RestartBackoff
    Disturbed,    \* addresses whose bridges fail by themselves, are restarted
                  \* or find their port taken in one behaviour (a bound)
    MaxReloads    \* bound on the reloads in one behaviour

Addrs == {AddrOf[d] : d \in Descriptors}

DistinctKeys(reg) == \A d, e \in reg : KeyOf[d] = KeyOf[e] => d = e

ASSUME DescriptorsAssumption ==
    /\ KeyOf \in [Descriptors -> Keys]
    /\ DOMAIN AddrOf = Descriptors
    /\ Nobody \notin Descriptors
    /\ \A reg \in Registries \cup {Initial} :
          reg # {} /\ reg \subseteq Descriptors /\ DistinctKeys(reg)
ASSUME SupsAssumption ==
    /\ Nobody \notin Sups
    /\ {"run", "reload", "foreign"} \cap (Sups \cup {Nobody}) = {}
ASSUME FiniteAssumption == IsFiniteSet(Keys) /\ IsFiniteSet(Sups)
ASSUME BoundsAssumption ==
    BackoffMax \in Nat \ {0} /\ MaxReloads \in Nat

VARIABLES
    ctxDone,    \* the context given to Run is cancelled
    run,        \* where Run is
    todo,       \* cameras Run still has to start
    runBound,   \* camera whose socket Run has bound and not yet added
    toStop,     \* stopAll: supervisors still to cancel
    stopping,   \* Runtime.stopping
    cameras,    \* Runtime.cameras
    total,      \* Runtime.total
    serving,    \* Runtime.serving
    registry,   \* Runtime.cfg.Registry
    pc,         \* where each supervise loop is
    camera,     \* cameraSupervisor.camera
    cancelled,  \* supervisors whose own context is cancelled
    server,     \* supervisors with cameraSupervisor.server set
    backoff,    \* supervise's backoff
    holder,     \* who has the listening socket on each address
    reload,     \* where Reload is
    target,     \* Reload's argument
    obsolete,   \* Reload: supervisors still to cancel
    waited,     \* supervisors cancelled and still to wait for, by waiter
    wanted,     \* Reload: cameras still to start
    reloadBound,\* camera whose socket Reload has bound and not yet added
    failed,     \* cameras the last reload could not start
    reloads,    \* reloads so far
    early       \* history: a reload came before Run had started every camera

runVars    == <<run, todo, runBound, toStop, stopping>>
mapVars    == <<cameras, total>>
supVars    == <<camera, cancelled, server, backoff>>
reloadVars == <<reload, target, obsolete, wanted, reloadBound, failed, reloads,
                early>>
vars == <<ctxDone, runVars, mapVars, serving, registry, pc, supVars, holder,
          reloadVars, waited>>

Owners == Sups \cup {"run", "reload"}

Live == {"entering", "rising", "serving", "falling", "closing", "sleeping",
         "restarting", "bound"}
SupPhases == Live \cup {"free", "done"}
RunPhases == {"init", "starting", "publishing", "running", "stopping",
              "aborting", "lastPublish", "returned", "failed"}

TypeOK ==
    /\ ctxDone \in BOOLEAN
    /\ run \in RunPhases
    /\ todo \subseteq Descriptors
    /\ runBound \in Descriptors \cup {Nobody}
    /\ toStop \subseteq Sups
    /\ stopping \in BOOLEAN
    /\ cameras \in [Keys -> Sups \cup {Nobody}]
    /\ total \in Int
    /\ serving \in Int
    /\ registry \subseteq Descriptors
    /\ pc \in [Sups -> SupPhases]
    /\ camera \in [Sups -> Descriptors \cup {Nobody}]
    /\ cancelled \subseteq Sups
    /\ server \subseteq Sups
    /\ backoff \in [Sups -> 1..BackoffMax]
    /\ holder \in [Addrs -> Owners \cup {"foreign", Nobody}]
    /\ reload \in {"idle", "stopping", "starting", "publishing"}
    /\ target \subseteq Descriptors
    /\ obsolete \subseteq Sups
    /\ waited \in [{"run", "reload"} -> SUBSET Sups]
    /\ wanted \subseteq Descriptors
    /\ reloadBound \in Descriptors \cup {Nobody}
    /\ failed \subseteq Descriptors
    /\ reloads \in 0..MaxReloads
    /\ early \in BOOLEAN

Init ==
    /\ ctxDone = FALSE
    /\ run = "init" /\ todo = {} /\ runBound = Nobody
    /\ toStop = {} /\ stopping = FALSE
    /\ cameras = [k \in Keys |-> Nobody] /\ total = 0
    /\ serving = 0
    /\ registry = Initial
    /\ pc = [s \in Sups |-> "free"]
    /\ camera = [s \in Sups |-> Nobody]
    /\ cancelled = {} /\ server = {}
    /\ backoff = [s \in Sups |-> 1]
    /\ holder = [a \in Addrs |-> Nobody]
    /\ reload = "idle" /\ target = {} /\ obsolete = {} /\ wanted = {}
    /\ reloadBound = Nobody /\ failed = {} /\ reloads = 0
    /\ waited = [w \in {"run", "reload"} |-> {}]
    /\ early = FALSE

---------------------------------------------------------------------------
(* Shared helpers.                                                         *)

Supervised == {cameras[k] : k \in Keys} \ {Nobody}

(* Run cancels the base context when it returns, the others are under it. *)
BaseDone   == ctxDone \/ run \in {"returned", "failed"}

(* Faulty variant: a camera's context that is not under the base context.  *)
OwnContextDone(s) == s \in cancelled

SupDone(s) == BaseDone \/ s \in cancelled

(* startServer: New and Listen.  The socket belongs to whoever bound it.   *)
CanBind(d)    == holder[AddrOf[d]] = Nobody
Bind(d, who)  == holder' = [holder EXCEPT ![AddrOf[d]] = who]
CloseSocket(s) ==
    holder' = [a \in Addrs |-> IF holder[a] = s THEN Nobody ELSE holder[a]]

(* closeServer acts on a server only once setServer has published it.      *)
CloseServer(s) == IF s \in server THEN CloseSocket(s) ELSE UNCHANGED holder

Retire(s) ==
    /\ cancelled' = cancelled \cup {s}
    /\ CloseServer(s)

(* Faulty variant: total is stored before the map changes. *)
RegisteredBefore(m) == Cardinality({k \in DOMAIN m : cameras[k] # Nobody})

Registered(m) == Cardinality({k \in Keys : m[k] # Nobody})

(* add, with the supervisor's goroutine started; which of the supervisors  *)
(* that are left it is called makes no difference.                         *)
NewSup == CHOOSE s \in Sups : pc[s] = "free"

Add(s, d) ==
    /\ pc[s] = "free" /\ s = NewSup
    /\ pc' = [pc EXCEPT ![s] = "entering"]
    /\ camera' = [camera EXCEPT ![s] = d]
    /\ server' = server \cup {s}
    /\ Bind(d, s)
    /\ cameras' = [cameras EXCEPT ![KeyOf[d]] = s]
    /\ total' = Registered(cameras')
    /\ UNCHANGED <<cancelled, backoff>>

---------------------------------------------------------------------------
(* Run and stopAll.                                                        *)

RunBegins ==
    /\ run = "init"
    /\ run' = "starting"
    /\ todo' = registry
    /\ UNCHANGED <<ctxDone, runBound, toStop, stopping, mapVars, serving,
                   registry, pc, supVars, holder, reloadVars, waited>>

RunBinds(d) ==
    /\ run = "starting" /\ runBound = Nobody
    /\ d \in todo /\ CanBind(d)
    /\ Bind(d, "run")
    /\ runBound' = d
    /\ todo' = todo \ {d}
    /\ UNCHANGED <<ctxDone, run, toStop, stopping, mapVars, serving, registry, pc,
                   supVars, reloadVars, waited>>

RunAdds(s) ==
    /\ run = "starting" /\ runBound # Nobody
    /\ Add(s, runBound)
    /\ runBound' = Nobody
    /\ UNCHANGED <<ctxDone, run, todo, toStop, stopping, serving, registry,
                   reloadVars, waited>>

StopAll(phase) ==
    /\ run' = phase
    /\ stopping' = TRUE
    /\ toStop' = Supervised

(* Binding a listener for the first time is fatal. *)
RunBindFails(d) ==
    /\ run = "starting" /\ runBound = Nobody
    /\ d \in todo /\ ~CanBind(d)
    /\ StopAll("aborting")
    /\ UNCHANGED <<ctxDone, todo, runBound, mapVars, serving, registry, pc, supVars,
                   holder, reloadVars, waited>>

RunStarted ==
    /\ run = "starting" /\ todo = {} /\ runBound = Nobody
    /\ run' = "publishing"
    /\ UNCHANGED <<ctxDone, todo, runBound, toStop, stopping, mapVars, serving,
                   registry, pc, supVars, holder, reloadVars, waited>>

RunStops ==
    /\ run = "running" /\ ctxDone
    /\ StopAll("stopping")
    /\ UNCHANGED <<ctxDone, todo, runBound, mapVars, serving, registry, pc, supVars,
                   holder, reloadVars, waited>>

StopOne(s) ==
    /\ run \in {"stopping", "aborting"}
    /\ s \in toStop
    /\ toStop' = toStop \ {s}
    /\ waited' = [waited EXCEPT !["run"] = @ \cup {s}]
    /\ Retire(s)
    /\ UNCHANGED <<ctxDone, run, todo, runBound, stopping, mapVars, serving,
                   registry, pc, camera, server, backoff, reloadVars>>

(* Faulty variant: waiting for the socket instead of the goroutine.        *)
SocketClosed(s) == \A a \in Addrs : holder[a] # s

Ended(s) == pc[s] = "done"
AllDone(sups) == \A s \in sups : Ended(s)

StoppedAll ==
    /\ run \in {"stopping", "aborting"}
    /\ toStop = {} /\ AllDone(waited["run"])
    /\ run' = IF run = "stopping" THEN "lastPublish" ELSE "failed"
    /\ UNCHANGED <<ctxDone, todo, runBound, toStop, stopping, mapVars, serving,
                   registry, pc, supVars, holder, reloadVars, waited>>

---------------------------------------------------------------------------
(* supervise.                                                              *)

Step(s, from, to) == pc[s] = from /\ pc' = [pc EXCEPT ![s] = to]

EnterServe(s) ==
    /\ Step(s, "entering", "rising")
    /\ serving' = serving + 1
    /\ UNCHANGED <<ctxDone, runVars, mapVars, registry, supVars, holder,
                   reloadVars, waited>>

(* Serve returns because it was closed or cancelled, or failed by itself.  *)
ServeReturns(s) ==
    /\ Step(s, "serving", "falling")
    /\ SupDone(s) \/ AddrOf[camera[s]] \in Disturbed
    /\ serving' = serving - 1
    /\ \/ SupDone(s) /\ CloseSocket(s)
       \/ UNCHANGED holder
    /\ UNCHANGED <<ctxDone, runVars, mapVars, registry, supVars, reloadVars,
                   waited>>

(* Faulty variant: the server that stopped is not closed. *)
LeaveSocket(s) == UNCHANGED holder

CloseAfterServe(s) == CloseSocket(s)

(* Close, setServer(nil), the check of ctx, and the reset of the backoff   *)
(* if the bridge had served for stableRun.                                 *)
AfterServe(s) ==
    /\ Step(s, "closing", IF SupDone(s) THEN "done" ELSE "sleeping")
    /\ CloseAfterServe(s)
    /\ server' = server \ {s}
    /\ \/ backoff' = [backoff EXCEPT ![s] = 1]
       \/ UNCHANGED backoff
    /\ UNCHANGED <<ctxDone, runVars, mapVars, serving, registry, camera, cancelled,
                   reloadVars, waited>>

nextBackoff(current) == IF current * 2 > BackoffMax THEN BackoffMax ELSE current * 2

SleepOver(s) ==
    /\ Step(s, "sleeping", "restarting")
    /\ backoff' = [backoff EXCEPT ![s] = nextBackoff(@)]
    /\ UNCHANGED <<ctxDone, runVars, mapVars, serving, registry, camera, cancelled,
                   server, holder, reloadVars, waited>>

(* Faulty variant: a sleep that ignores its context. *)
SleepsOn(s) == pc[s] = "free"

Woken(s) == SupDone(s)

SleepCut(s) ==
    /\ Woken(s)
    /\ Step(s, "sleeping", "done")
    /\ UNCHANGED <<ctxDone, runVars, mapVars, serving, registry, supVars, holder,
                   reloadVars, waited>>

Rebind(s) ==
    /\ pc[s] = "restarting"
    /\ CanBind(camera[s])
    /\ Step(s, "restarting", "bound")
    /\ Bind(camera[s], s)
    /\ UNCHANGED <<ctxDone, runVars, mapVars, serving, registry, supVars,
                   reloadVars, waited>>

(* sleepContext under a cancelled context returns at once. *)
RebindFails(s) ==
    /\ pc[s] = "restarting"
    /\ ~CanBind(camera[s])
    /\ Step(s, "restarting", IF Woken(s) THEN "done" ELSE "sleeping")
    /\ UNCHANGED <<ctxDone, runVars, mapVars, serving, registry, supVars, holder,
                   reloadVars, waited>>

SetServer(s) ==
    /\ Step(s, "bound", "entering")
    /\ server' = server \cup {s}
    /\ UNCHANGED <<ctxDone, runVars, mapVars, serving, registry, camera, cancelled,
                   backoff, holder, reloadVars, waited>>

---------------------------------------------------------------------------
(* Reload, called by the one goroutine that watches SIGHUP.                *)

(* Faulty variants: only cameras that left are stopped, all cameras are.   *)
Departed(reg) ==
    {s \in Supervised : \A d \in reg : KeyOf[camera[s]] # KeyOf[d]}
Everyone(reg) == {s \in Supervised : reg # {}}

Obsolete(reg) == {s \in Supervised : camera[s] \notin reg}

(* Run sets baseCtx before it binds anything: a reload may come while it   *)
(* is still starting its cameras.                                          *)
MayReload == ~stopping /\ run # "init"
Starting  == run \in {"starting", "publishing"}

(* Bound: there are supervisors left for whatever is still to start. *)
SupsLeft(reg) ==
    Cardinality({s \in Sups : pc[s] = "free"}) >=
        Cardinality(todo \cup ({runBound} \ {Nobody}))
            + Cardinality(reg \ {camera[s] : s \in Supervised})

ReloadBegins(reg) ==
    /\ reload = "idle" /\ reloads < MaxReloads /\ SupsLeft(reg)
    /\ MayReload
    /\ reload' = "stopping"
    /\ reloads' = reloads + 1
    /\ early' = (early \/ Starting)
    /\ target' = reg
    /\ obsolete' = Obsolete(reg)
    /\ wanted' = reg \ {camera[s] : s \in Supervised}
    /\ failed' = {}
    /\ UNCHANGED <<ctxDone, runVars, mapVars, serving, registry, pc, supVars,
                   holder, reloadBound, waited>>

ReloadCancels(s) ==
    /\ reload = "stopping"
    /\ s \in obsolete
    /\ obsolete' = obsolete \ {s}
    /\ waited' = [waited EXCEPT !["reload"] = @ \cup {s}]
    /\ Retire(s)
    /\ UNCHANGED <<ctxDone, runVars, mapVars, serving, registry, pc, camera, server,
                   backoff, reload, target, wanted, reloadBound, failed, reloads,
                   early>>

(* remove, once the supervisor has ended. *)
ReloadRemoves(s) ==
    /\ reload = "stopping" /\ obsolete = {}
    /\ s \in waited["reload"] /\ Ended(s)
    /\ waited' = [waited EXCEPT !["reload"] = @ \ {s}]
    /\ cameras' = [k \in Keys |-> IF cameras[k] = s THEN Nobody ELSE cameras[k]]
    /\ total' = Registered(cameras')
    /\ UNCHANGED <<ctxDone, runVars, serving, registry, pc, supVars, holder,
                   reloadVars>>

ReloadStopped ==
    /\ reload = "stopping" /\ obsolete = {} /\ waited["reload"] = {}
    /\ reload' = "starting"
    /\ UNCHANGED <<ctxDone, runVars, mapVars, serving, registry, pc, supVars,
                   holder, target, obsolete, wanted, reloadBound, failed, reloads, early,
                   waited>>

ReloadBinds(d) ==
    /\ reload = "starting" /\ reloadBound = Nobody
    /\ d \in wanted
    /\ wanted' = wanted \ {d}
    /\ \/ /\ CanBind(d)
          /\ Bind(d, "reload")
          /\ reloadBound' = d
          /\ UNCHANGED failed
       \/ /\ ~CanBind(d)
          /\ failed' = failed \cup {d}
          /\ UNCHANGED <<reloadBound, holder>>
    /\ UNCHANGED <<ctxDone, runVars, mapVars, serving, registry, pc, supVars,
                   reload, target, obsolete, reloads, early, waited>>

ReloadAdds(s) ==
    /\ reload = "starting" /\ reloadBound # Nobody
    /\ Add(s, reloadBound)
    /\ reloadBound' = Nobody
    /\ UNCHANGED <<ctxDone, runVars, serving, registry, reload, target, obsolete,
                   wanted, failed, reloads, early, waited>>

ReloadEnds ==
    /\ reload = "starting" /\ wanted = {} /\ reloadBound = Nobody
    /\ reload' = "publishing"
    /\ registry' = target
    /\ UNCHANGED <<ctxDone, runVars, mapVars, serving, pc, supVars, holder, target,
                   obsolete, wanted, reloadBound, failed, reloads, early, waited>>

---------------------------------------------------------------------------
(* publishBridges returns.                                                 *)

RunPublished ==
    /\ run \in {"publishing", "lastPublish"}
    /\ run' = IF run = "publishing" THEN "running" ELSE "returned"
    /\ UNCHANGED <<ctxDone, todo, runBound, toStop, stopping, mapVars, serving,
                   registry, pc, supVars, holder, reloadVars, waited>>

ReloadPublished ==
    /\ reload = "publishing"
    /\ reload' = "idle"
    /\ UNCHANGED <<ctxDone, runVars, mapVars, serving, registry, pc, supVars,
                   holder, target, obsolete, wanted, reloadBound, failed, reloads, early,
                   waited>>

SupPublished(s) ==
    /\ pc[s] \in {"rising", "falling"}
    /\ Step(s, pc[s], IF pc[s] = "rising" THEN "serving" ELSE "closing")
    /\ UNCHANGED <<ctxDone, runVars, mapVars, serving, registry, supVars, holder,
                   reloadVars, waited>>

---------------------------------------------------------------------------
(* The Web UI's restart button, the owner of the context, and another      *)
(* process on the host that takes a port.                                  *)

RestartCamera(k) ==
    /\ cameras[k] # Nobody
    /\ cameras[k] \in server
    /\ AddrOf[camera[cameras[k]]] \in Disturbed
    /\ CloseSocket(cameras[k])
    /\ holder' # holder
    /\ UNCHANGED <<ctxDone, runVars, mapVars, serving, registry, pc, supVars,
                   reloadVars, waited>>

CancelContext ==
    /\ ~ctxDone
    /\ ctxDone' = TRUE
    /\ UNCHANGED <<runVars, mapVars, serving, registry, pc, supVars, holder,
                   reloadVars, waited>>

ForeignPort(a) ==
    /\ a \in Disturbed
    /\ \/ holder[a] = Nobody /\ holder' = [holder EXCEPT ![a] = "foreign"]
       \/ holder[a] = "foreign" /\ holder' = [holder EXCEPT ![a] = Nobody]
    /\ UNCHANGED <<ctxDone, runVars, mapVars, serving, registry, pc, supVars,
                   reloadVars, waited>>

---------------------------------------------------------------------------
RunStep ==
    \/ RunBegins \/ RunStarted \/ RunStops \/ StoppedAll
    \/ \E d \in Descriptors : RunBinds(d) \/ RunBindFails(d)
    \/ \E s \in Sups : RunAdds(s) \/ StopOne(s)
    \/ RunPublished

ReloadStep ==
    \/ ReloadStopped \/ ReloadEnds
    \/ \E d \in Descriptors : ReloadBinds(d)
    \/ \E s \in Sups : ReloadCancels(s) \/ ReloadRemoves(s) \/ ReloadAdds(s)
    \/ ReloadPublished

Supervise(s) ==
    \/ EnterServe(s) \/ AfterServe(s) \/ SleepOver(s) \/ SleepCut(s)
    \/ Rebind(s) \/ RebindFails(s) \/ SetServer(s) \/ SupPublished(s)

Next ==
    \/ RunStep
    \/ ReloadStep
    \/ \E s \in Sups : Supervise(s) \/ ServeReturns(s)
    \/ \E reg \in Registries : ReloadBegins(reg)
    \/ \E k \in Keys : RestartCamera(k)
    \/ CancelContext
    \/ \E a \in Addrs : ForeignPort(a)

Spec == Init /\ [][Next]_vars

(* Goroutines are scheduled and timers fire.  Serve returns for sure only  *)
(* once its context is cancelled (ShutdownDrains of BridgeSessions).       *)
Fairness ==
    /\ WF_vars(RunStep)
    /\ WF_vars(ReloadStep)
    /\ \A s \in Sups : WF_vars(Supervise(s) \/ (SupDone(s) /\ ServeReturns(s)))

FairSpec == Spec /\ Fairness

---------------------------------------------------------------------------
(* Safety.                                                                 *)

(* The counters publishBridges reads are exact: serving counts the         *)
(* supervisors between their Add(1) and their Add(-1), total the cameras   *)
(* of the map, through failures, restarts and removals.                    *)
InService == {s \in Sups : pc[s] \in {"rising", "serving"}}
CountersExact ==
    /\ serving = Cardinality(InService)
    /\ total = Registered(cameras)

LiveSups == {s \in Sups : pc[s] \in Live}

(* A camera never has two supervisors at work, through reloads that        *)
(* replace its credentials, restarts and shutdown: Reload waits for the    *)
(* old one's done before the new one is started.  It takes a Run that has  *)
(* started its cameras: a reload that comes earlier, which baseCtx lets    *)
(* in, starts a camera that Run starts as well.                            *)
OneSupervisorPerCamera ==
    early \/ \A s, t \in LiveSups : KeyOf[camera[s]] = KeyOf[camera[t]] => s = t

(* Whenever no reload is in progress the runtime supervises exactly the    *)
(* cameras of its registry, except those the last reload could not bind,   *)
(* unless a reload came while Run was starting its cameras.                *)
Reconciled ==
    run = "running" /\ reload = "idle" =>
        early \/ {camera[s] : s \in Supervised} = registry \ failed

(* Run ends with every supervisor that its stopAll found ended, and no     *)
(* socket of theirs open.                                                  *)
StoppedClean ==
    run \in {"lastPublish", "returned", "failed"} =>
        \A s \in waited["run"] :
            pc[s] = "done" /\ \A a \in Addrs : holder[a] # s

(* Cameras a reload keeps are left alone, at whatever time it comes: the   *)
(* context of one is cancelled by shutdown only, and no step of the reload *)
(* takes its socket (Reload's comment: a refresh never interrupts a live   *)
(* stream).                                                                *)
ReloadKeepsCameras ==
    [][\A s \in LiveSups : reload # "idle" /\ camera[s] \in target =>
          /\ s \in cancelled' \ cancelled => run \in {"stopping", "aborting"}
          /\ ReloadStep => \A a \in Addrs : holder'[a] = s <=> holder[a] = s]_vars

(* Liveness.                                                               *)

(* A bridge that stopped is served again, unless it is being stopped or    *)
(* its address is in other hands.                                          *)
AddressTaken(s) ==
    /\ camera[s] # Nobody
    /\ holder[AddrOf[camera[s]]] \notin {s, Nobody}
CameraComesBack ==
    \A s \in Sups :
        pc[s] = "sleeping" ~> pc[s] = "serving" \/ SupDone(s) \/ AddressTaken(s)

(* A reload ends whatever the cameras it stops are doing. *)
ReloadCompletes == []<>(reload = "idle")

(* Cancelling the context ends Run and every supervisor, also one that a   *)
(* reload added behind stopAll's back.                                     *)
ShutdownCompletes ==
    []<>(ctxDone => run \in {"returned", "failed"} /\ LiveSups = {})

=============================================================================

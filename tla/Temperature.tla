----------------------------- MODULE Temperature -----------------------------
(* The temperature link: devicecontrol.Supervisor with one worker per       *)
(* camera, and the temperatureStore of the bridge process, which keeps the  *)
(* last readings and passes every report on to the discovery service.       *)
EXTENDS Discovery

CONSTANTS
    Descs,      \* devicecontrol.Camera: a camera with its credentials
    KeyOf,      \* the identifier of each
    Capable,    \* the cameras that have a temperature sensor
    Workers     \* goroutines, used again once they have ended

ASSUME WorkersAssumption == KeyOf \in [Descs -> Keys] /\ Workers \subseteq Callers

VARIABLES
    workers,    \* Supervisor.workers, by camera
    desc,       \* worker.camera
    cancelled,  \* the workers whose context is cancelled
    phase,      \* of each worker, where its loop is
    report,     \* of each worker, the report it is making
    stage,      \* how far that report is: past `current`, past the store
    storeSupported, readings, attached      \* temperatureStore

workerVars == <<workers, desc, cancelled, phase, report, stage>>
storeVars  == <<storeSupported, readings, attached>>

Phases  == {"ended", "start", "connecting", "asking", "polling", "waiting", "retrying", "ending"}
Reports == {"none", "down", "supported", "unsupported", "reading", "gone"}
Stages  == {"none", "checked", "stored"}

TemperatureTypeOK ==
    /\ DOMAIN workers \subseteq Keys /\ workers \in [DOMAIN workers -> Workers]
    /\ desc \in [Workers -> Descs]
    /\ cancelled \subseteq Workers
    /\ phase \in [Workers -> Phases]
    /\ report \in [Workers -> Reports]
    /\ stage \in [Workers -> Stages]
    /\ IsFlags(storeSupported) /\ readings \subseteq Keys /\ attached \in BOOLEAN

KeyOfWorker(w) == KeyOf[desc[w]]
Current(w) == KeyOfWorker(w) \in DOMAIN workers /\ workers[KeyOfWorker(w)] = w

---------------------------------------------------------------------------
(* A report: `current` is asked under one lock, the store and the service  *)
(* are told under theirs.                                                  *)

Ready(w) == stage[w] = "none" /\ Idle(w)

Report(w, kind) ==
    /\ report' = [report EXCEPT ![w] = IF Current(w) THEN kind ELSE "none"]
    /\ stage' = [stage EXCEPT ![w] = IF Current(w) THEN "checked" ELSE "none"]

NoReport == UNCHANGED <<report, stage>>

Reported(w) ==
    /\ report' = [report EXCEPT ![w] = "none"]
    /\ stage' = [stage EXCEPT ![w] = "none"]

(* temperatureStore; without a sink the report ends here. *)
StoreReport(w) ==
    LET k == KeyOfWorker(w) IN
    /\ stage[w] = "checked"
    /\ storeSupported' = CASE report[w] = "supported"   -> Put(storeSupported, k, TRUE)
                           [] report[w] = "unsupported" -> Put(storeSupported, k, FALSE)
                           [] OTHER -> storeSupported
    /\ readings' = CASE report[w] = "reading"   -> readings \cup {k}
                     [] report[w] = "supported" -> readings
                     [] OTHER -> readings \ {k}
    /\ IF attached THEN stage' = [stage EXCEPT ![w] = "stored"] /\ UNCHANGED report
       ELSE Reported(w)
    /\ UNCHANGED <<workers, desc, cancelled, phase, attached, discoveryVars>>

PassOn(w) ==
    LET k == KeyOfWorker(w) IN
    /\ stage[w] = "stored"
    /\ \/ report[w] = "supported"   /\ SetTemperatureSupported(w, k, TRUE)
       \/ report[w] = "unsupported" /\ SetTemperatureSupported(w, k, FALSE)
       \/ report[w] \in {"down", "gone"} /\ SetTemperatureAvailable(w, k, FALSE)
       \/ report[w] = "reading"     /\ PublishTemperature(w, k)
    /\ Reported(w)
    /\ UNCHANGED <<workers, desc, cancelled, phase, storeVars>>

---------------------------------------------------------------------------
(* The worker's loop.                                                      *)

Step(w, from, to) ==
    /\ Ready(w)
    /\ phase[w] = from
    /\ phase' = [phase EXCEPT ![w] = to]
    /\ UNCHANGED <<desc, cancelled, storeVars, discoveryVars>>

(* Mutant: a new attempt does not report that the link is down. *)
BeginSilently(w) == Step(w, "start", "connecting") /\ NoReport /\ UNCHANGED workers

Begin(w) == Step(w, "start", "connecting") /\ Report(w, "down") /\ UNCHANGED workers

Connects(w) ==
    /\ w \notin cancelled
    /\ Step(w, "connecting", "asking") /\ NoReport /\ UNCHANGED workers

(* The connection, the question or a reading fails. *)
LinkFails(w) ==
    /\ \E from \in {"connecting", "asking", "polling"} : Step(w, from, "retrying")
    /\ NoReport /\ UNCHANGED workers

Supports(w) ==
    /\ KeyOfWorker(w) \in Capable
    /\ Step(w, "asking", "polling") /\ Report(w, "supported") /\ UNCHANGED workers

LacksSensor(w) ==
    /\ KeyOfWorker(w) \notin Capable
    /\ Step(w, "asking", "ending") /\ Report(w, "unsupported") /\ UNCHANGED workers

Reads(w) == Step(w, "polling", "waiting") /\ Report(w, "reading") /\ UNCHANGED workers

PollAgain(w) ==
    /\ w \notin cancelled
    /\ Step(w, "waiting", "polling") /\ NoReport /\ UNCHANGED workers

Retry(w) ==
    /\ w \notin cancelled
    /\ Step(w, "retrying", "start") /\ NoReport /\ UNCHANGED workers

(* Mutant: only the wait between attempts looks at the context. *)
StopRetrying(w) ==
    /\ w \in cancelled
    /\ Step(w, "retrying", "ending")
    /\ NoReport /\ UNCHANGED workers

StopWaiting(w) ==
    /\ w \in cancelled
    /\ \E from \in {"waiting", "retrying"} : Step(w, from, "ending")
    /\ NoReport /\ UNCHANGED workers

(* Mutant: a worker that ends is unregistered, whoever is registered. *)
RetireAnyone(w) ==
    /\ Step(w, "ending", "ended")
    /\ Report(w, "gone")
    /\ workers' = Without(workers, KeyOfWorker(w))

(* retire: only the worker that is still the current one clears the state. *)
Retire(w) ==
    /\ Step(w, "ending", "ended")
    /\ Report(w, "gone")
    /\ workers' = IF Current(w) THEN Without(workers, KeyOfWorker(w)) ELSE workers

WorkerStep(w) ==
    \/ StoreReport(w) \/ PassOn(w)
    \/ Begin(w) \/ Connects(w) \/ LinkFails(w) \/ Supports(w) \/ LacksSensor(w)
    \/ Reads(w) \/ PollAgain(w) \/ Retry(w) \/ StopWaiting(w) \/ Retire(w)

---------------------------------------------------------------------------
(* Reconcile, under the lock.                                              *)

(* Mutant: a camera is kept whatever its credentials. *)
KeptByKey(descs) == {k \in DOMAIN workers : \E d \in descs : KeyOf[d] = k}

Kept(descs) == {k \in DOMAIN workers : desc[workers[k]] \in descs}
Starting(descs) == {KeyOf[d] : d \in descs} \ Kept(descs)
DescOf(descs, k) == CHOOSE d \in descs : KeyOf[d] = k

Free == {w \in Workers : phase[w] = "ended" /\ Ready(w)}
Injective(f) == \A k, l \in DOMAIN f : f[k] = f[l] => k = l

Reconcile(descs) == \E start \in [Starting(descs) -> Free] :
    LET started == {start[k] : k \in Starting(descs)}
        keyOf(w) == CHOOSE k \in Starting(descs) : start[k] = w
    IN  /\ Injective(start)
        /\ workers' = [k \in Kept(descs) \cup Starting(descs) |->
                          IF k \in Kept(descs) THEN workers[k] ELSE start[k]]
        /\ cancelled' = (cancelled \ started) \cup {workers[k] : k \in DOMAIN workers \ Kept(descs)}
        /\ desc' = [w \in Workers |-> IF w \in started THEN DescOf(descs, keyOf(w)) ELSE desc[w]]
        /\ phase' = [w \in Workers |-> IF w \in started THEN "start" ELSE phase[w]]
        /\ UNCHANGED <<report, stage>>
=============================================================================

# A TLA+ model of the Motorola nursery camera bridge

The program gives local RTSP clients (go2rtc, Home Assistant) a TCP port per camera and carries
every connection through a relay session of its own to the camera. Around that sit a supervisor
that keeps one bridge per camera running, a credential refresh that swaps cameras in place, MQTT
discovery, a temperature link, a snapshot cache, account pairing and a shell entrypoint. This
directory holds TLA+ modules of it, TLC configurations that check them, and proofs.

Everything is translated from the source under `src/`; `PROJECT.json` says for each definition
which lines it stands for.

| file | what it is |
| --- | --- |
| `SessionPool.tla` | abstract: the bounded pool of sessions a bridge promises its clients |
| `RefusalGate.tla` | abstract: how a bridge holds its callers after a refusal |
| `BridgeSessions.tla` | `internal/bridge/bridge.go`: one bridge, its sessions, the relay's refusals |
| `BridgeSessionsProofs.tla` | theorems about `BridgeSessions`, its refinements of `SessionPool` and `RefusalGate` among them |
| `MCBridgeSessions.tla`, `MCBridge*.cfg` | instances for TLC |
| `Supervision.tla` | `internal/app/app.go`: bridges supervised, reloaded, counted |
| `BridgeHealth.tla` | `publishBridges` taken apart, and the counters of `internal/health/state.go` |
| `MCSupervision.tla`, `MCSupervision.cfg`, `MCBridgeHealth.tla`, `MCStaleHealth.cfg` | instances for TLC |
| `CameraService.tla` | abstract: what the supervisor promises the owner of the cameras |
| `SupervisionProofs.tla` | theorems about `Supervision`, its refinement of `CameraService` among them |
| `SnapshotCache.tla` | `internal/snapshot/snapshot.go`: still images, their fetches and the requests for them |
| `SnapshotCacheProofs.tla` | theorems about `SnapshotCache` |
| `MCSnapshotCache.tla`, `MCSnapshotCache.cfg` | the instance for TLC |
| `Discovery.tla` | `internal/mqttdiscovery/service.go`: what the service knows, and what the broker retains of it |
| `Temperature.tla` | `internal/devicecontrol/supervisor.go` and `temperatureStore` of `cmd/vm65-bridge` |
| `Reporting.tla` | the two put together by `cmd/vm65-bridge/main.go`: startup, reloads, the mirror |
| `ReportingProofs.tla` | theorems about `Reporting` |
| `MCReporting.tla`, `MCReporting.cfg`, `MCTemperature.cfg` | instances for TLC |
| `AccountPairing.tla` | `internal/fivegencare`: the account's state file, the provider, and the server it talks to |
| `Setup.tla` | `cmd/vm65-setup` up to the list of cameras, with `internal/pairing`'s page |
| `SetupProofs.tla` | theorems about the two |
| `MCSetup.tla`, `MCPairing.cfg` | the instance for TLC |
| `CameraRegistry.tla` | `app.Build` and the two files `cmd/vm65-setup` writes from it |
| `Entrypoint.tla` | `run.sh` over them: setup runs, refreshes, the bridge and the media server |
| `EntrypointProofs.tla` | theorems about the two |
| `MCEntrypoint.tla`, `MCEntrypoint.cfg`, `MCStreamNames.cfg` | instances for TLC |
| `MagicDial.tla` | `magic.Dial`, the watch of its context, and Close |
| `MagicDialProofs.tla` | theorems about `MagicDial` |
| `TokenCrypto.tla` | the byte cipher of a tunnel |
| `ByteStream.tla` | abstract: bytes that come out in the order they were given |
| `Tunnel.tla` | one session's bytes from the client to the relay and back, over the cipher and the dial |
| `TunnelProofs.tla` | theorems about `TokenCrypto` and `Tunnel`, the refinement of `ByteStream` among them |
| `MCTunnel.tla`, `MCTunnel.cfg` | the instance for TLC |

Run `tlc -workers 2 -config MCBridgeSafety.cfg MCBridgeSessions` and so on; `tlapm
BridgeSessionsProofs.tla` checks the proofs.

## The system

| component | state it keeps | operations | correct when |
| --- | --- | --- | --- |
| Camera bridge (`internal/bridge`) | active sessions, tracked connections, last refusal, probe | Listen, Serve, Close, handle, dial, pipe | the cap holds, whoever meets a cooldown is held until it is over and one of them asks for all, a lost peer frees its slot, Serve leaves nothing behind |
| Magic tunnel (`internal/magic`) | two sockets, the crypto state of each direction | Dial, Read, Write, Close | a tunnel handed out has both sockets unless its dial was cancelled meanwhile, and loses them together; what one side encodes the other decodes |
| Camera supervision (`internal/app`) | supervisors by camera, registry, counters, stopping | Run, Reload, RestartCamera | one supervisor per camera once Run has started, unchanged cameras undisturbed, a failed bridge comes back, shutdown ends everything |
| Camera registry (`internal/app/registry.go`) | none | Build | ports and names are unique, ports are stable |
| Health (`internal/health`) | one snapshot | SetBridges and others, Healthy, Snapshot | it shows what is served |
| MQTT discovery (`internal/mqttdiscovery`, `discoveryPublisher`) | cameras, availability, connection | Upsert, Remove, Set..., onConnect | the broker's retained state follows the registry |
| Temperature link (`internal/devicecontrol`, `temperatureStore`) | workers by camera, last readings | Reconcile, worker loop | only the current worker reports |
| Snapshot cache (`internal/snapshot`) | entries and fetches by stream, stream list | get, SetStreams, fetch | one fetch per camera as long as it is not removed, no frame too old, none of a removed stream |
| Account pairing (`internal/fivegencare`, `internal/pairing`) | persisted session and challenge | RequestCode, SubmitCode, Restore | a working session is kept, and the page always leads to one |
| Setup command (`cmd/vm65-setup`) | the output files | restore, serve the pairing page, write | the files fit each other |
| Entrypoint (`run.sh`) | child processes, refresh flag, backoff | wait loop, traps, apply | the bridge's end ends the add-on, a refresh request is served |
| Ingress and guards (`internal/ingress`, `internal/netguard`) | stream list | decision per request | only reads of known streams pass |
| Web UI | none | its buttons, rendering | a button reaches who can do what it says |
| Configuration, languages | settings, text | parsing | not modelled: no protocol in them |

They interact as follows. The entrypoint starts the bridge process and the media server, has the
setup command rewrite the credential files and sends SIGHUP; `watchForReload` loads the files and
calls `Reload`, then tells the Web UI, the snapshot cache, discovery and the temperature workers.
`supervise` calls `Serve` and learns of a failure by its return; `RestartCamera` closes a server
and lets `supervise` notice. All of them report into the health state, which
`mirrorStateToMQTT` copies to the broker every five seconds.

The hard parts are the interleavings: sessions of one bridge that wait for one another's answer
from the relay, Close and cancellation meeting a session in any phase, a reload between a
supervisor's restarts and shutdown, publications taken under a lock and made outside it; and what crosses the boundary of a process: an
account server that has acted on a request whose answer is lost, files that are replaced one after
the other and read by two servers, a shell that waits. `PROJECT.json` lists them as hazards, each
at its line, with the properties that watch over it or the reason why none does.

## BridgeSessions

One goroutine per connection, so one program counter per connection (`pc`), in the order of
`handle`: `accepted`, `reserved`, `tracked`, then `dial`: `checking` (the last refusal is read, under the
lock, and not yet compared with the clock), `waiting` (the cooldown), `queued` (the channel `probe`),
`probed`, `connecting` (inside `magic.Dial`, before the question is put), `asking` (after it), `backoff`;
then `open`, `piping`, and the deferred calls `ending`, `untracked`, `done`. `serve`, `closer` and `ctxDone` are the
goroutines of Serve, Close and the context's owner. The correspondence with the fields of `Bridge`
is `active`, `conns`, `probe`, and `refusals` for `refusedAt`.

*Time.* The code compares instants in two places: has the cooldown since `refusedAt` passed, and
is `refusedAt` later than the one this session saw. Refusals are therefore numbered in the order
`noteRefusal` stores them, `refusals` is the last one, and `expired` counts the refusals whose
cooldown is over: cooldowns have one length, so they end in order. `PriorRefusals` starts a
behaviour inside a cooldown. The attempt's own timeout is one of the causes of `DialFails`; the
budget may run out whenever a dial is in progress.

*Sockets.* A client socket is open or `dead`, closed by either end. A tunnel is `up`, `silent` (the
relay stopped sending and did not close) or `closed`. The two directions of `pipe` end separately
and close their destinations.

*Left out.* What the bytes are, which `Tunnel` models; the counts and the log messages. `reserveSession`'s
compare-and-swap is one step. A failed `Accept` ends Serve as in the code, whatever failed.

`SessionPool` states what a client may rely on: it is turned away only when the pool is full, it
enters at most once, and Serve returns over an empty pool nobody enters any more. `PoolSpec`,
`Pool!Spec` under the mapping `poolPhase`, says that `BridgeSessions` implements it.

`RefusalGate` is the same bridge seen from the cooldown: a caller looks up the last refusal and is held
if its cooldown is not over; those that were held for one refusal go through one at a time, and a refusal given
since is the answer of the others. The gate is passed once: who is through may ask, and be refused,
whatever has been refused in the meantime. Checking and asking are different steps, as in the code, where a
TCP dial lies between them. `GateSpec`, `Gate!Spec` under the mappings `gateStanding` and `gateSpeaker`,
says that `BridgeSessions` implements it.

| run | constants | checks |
| --- | --- | --- |
| `bridge_safety` | 3 clients, 2 slots, 3 refusals, a dial budget, no retries, `OwnerCloses` | `SlotAccounting`, `ServeReturnsClean`, `OneRefusalPerCooldown`, `SharedAnswerIsAnothers`, `PoolSpec`, `GateSpec` |
| `bridge_liveness` | 2 clients, no cap, a refusal before the behaviour, one retry after a failed attempt | `DialEnds`, `LostPeerFreesSlot`, `ShutdownDrains` |
| `close_race` | 2 clients, no cooldown | finds `CloseTearsDownClients` violated |

*Bounds.* Three clients are the least with which one is refused, one shares the answer and a
third arrives in the new cooldown; with two slots the third also finds the pool full and enters
after a release. Three refusals let each session get one of its own. `MaxRefusals` counts the
one before the behaviour too: `bridge_liveness` starts inside its cooldown and has no other.
`bridge_liveness` is the run with retries, which keep the probe through a backoff; `bridge_safety`
leaves them out, since a retry is a new question of the same session and the states after it are like
those after the first one.
The proofs hold for every number of retries. The dial budget is on in `bridge_safety` alone: to the
dial it is one more cancellation like a departed client's. The context is cancelled in
`bridge_liveness` and `close_race` (`ContextEnds`); in `bridge_safety` the owner's Close is what ends
Serve. `MaxRefusals` bounds the relay, and
is a guard of `DialRefused` only: a relay that may no longer refuse still answers or fails.

*Fairness.* Each connection's goroutine, with its watchers, is scheduled; cooldown timers fire;
a Close once begun, or due to the cancelled context, goes on; Serve notices a closed listener.
`magic.Dial` runs under a timeout, so `asking` ends. Nothing is assumed of clients, the relay,
the budget or whoever calls Close. `OwnerCloses` is FALSE in `bridge_liveness`, so that
`ShutdownDrains` rests on the context alone, as `supervise` needs it to. The idle timeout is
on, its default: with it disabled a silent relay keeps its session, and `LostPeerFreesSlot` says
nothing then.

*What the code does that one might not expect.* The relay is not left alone for a cooldown, as the comment
in `dial` has it (`bridge.go:522`, "After a refusal the relay is left alone for the cooldown"). What is checked
is the refusal a session reads as it begins (`ReadRefusal`), or compares as it holds the probe
(`RefusalSince`). Another session may be refused after that (`DialRefused`) and the first one then puts its
question (`PutQuestion`) inside the new cooldown; a session in its retry backoff does the same. No property
here says otherwise: `GateSpec` and `OneRefusalPerCooldown` say what does hold, of the sessions that were held.
A client that is accepted while its bridge is closed may be served on, see
*Findings*. And a failing `Accept` leaves the camera without a listener until its last
running session ends (`bridge.go:325-331`).

## Supervision

Run, Reload and one `supervise` loop per camera are processes of the model; `Sups` are the
supervisors that `add` may create in one behaviour. A supervisor is `entering` (before
`serving.Add(1)`), `rising` and `falling` (calling `publishBridges`), `serving`, `closing`,
`sleeping` (backoff), `restarting`, `bound` (listening, not yet published by `setServer`), `done`.
`holder` says who has the socket on each address: that is what makes a restart or a reload fail.
A descriptor is a camera with its credentials and address; two descriptors of one key are the same
camera before and after a refresh. `publishBridges` reads the counters and changes nothing the
supervisor looks at, so it is one step here. `BridgeHealth` has it in its three: load `serving`, load
`total`, store both in the health state.

Run publishes `baseCtx` before it binds its cameras, and `watchForReload` listens for SIGHUP before Run is
called (`app.go:153`, `cmd/vm65-bridge/main.go:202` and `220`), so a reload may come while Run is still
starting its cameras. The model lets it, and `early` remembers that one did.

| run | constants | checks |
| --- | --- | --- |
| `supervision` | cameras a and c on an address each; a reload keeps c and gives a new credentials or removes it; 3 supervisors, 1 reload, `BackoffMax` 1, `Disturbed` is the address of a | `OneSupervisorPerCamera`, `Reconciled`, `StoppedClean`, `CountersExact`, `ReloadKeepsCameras`, `CameraComesBack`, `ReloadCompletes`, `ShutdownCompletes` |
| `stale_health` | `BridgeHealth` with one camera, 2 supervisors, `BackoffMax` 2, no reload | finds `HealthReflectsServing` violated |

*Bounds.* A reload keeps one camera beside one it replaces or removes: the order of stopping and starting
matters for the second, leaving it alone for the first. Three supervisors are the two at start and one
successor; `SupsLeft` keeps a reload from beginning when too few are left for what it and Run still have to
start, which the code need not. At the addresses in `Disturbed` a bridge fails by itself, the owner restarts
it, and a foreign process takes and leaves the port, at any moment; the camera that is kept only ends with
its context. `BackoffMax` counts in units of the initial backoff; how long a wait is matters to no property
here, so it is 1. The proofs are for any number of supervisors, of reloads and of disturbed addresses.

*Fairness.* Run, Reload and each supervisor are scheduled and their timers fire. `Serve` is only
assumed to return once its context is cancelled, which is `ShutdownDrains` of `BridgeSessions`. It
is not assumed to return after Close: `close_race` shows why. `ReloadCompletes` therefore rests on
Reload cancelling before it closes. A property `[]<>P`
says that no state in which P fails lasts for ever.

*Left out.* The restart counter, the last error, the statistics and the reports to the Web UI and
MQTT. Run's return is not the end of everything: a reload that had passed the check of `stopping` may add a
supervisor afterwards. `StoppedClean` speaks of the ones stopAll found; `ShutdownCompletes` of all of them.

*What the code does that one might not expect.* Reload's comment (`app.go`, above `Reload`) calls it safe
while Run is executing. A reload that comes while Run is starting its cameras starts them too: the map's
entry of a camera is then overwritten and it has two supervisors, or one of the two finds the address taken,
and for Run that is fatal. `OneSupervisorPerCamera` and `Reconciled` therefore except behaviours with an
`early` reload, by name; without the exception TLC finds both violated. `ReloadKeepsCameras`, `StoppedClean`,
`CountersExact` and the liveness properties hold with it as well.

`CameraService` is the same seen by the owner: a camera of the registry is taken on, looked after whatever
happens to its bridge, and given up when it leaves the registry or the service closes; a change of the
registry ends only when every camera of it is looked after or has failed. `Service!Spec`, under the mapping
in `SupervisionProofs`, is implemented by `Supervision`: a camera is `tended` while a supervisor works on
it, in whichever phase of its restarts, the registry is `wanted` from the moment a reload takes it over,
and the service is `closing` from the cancelled context, or an abandoned start, on. It is implemented by the
behaviours without an early reload.

## SnapshotCache

A request (`get`, called by the HTTP handlers and by `Frame`) is `arrived`, `allowed` (past the
check of the stream list), `waiting` for a fetch, `signalled` or `gaveUp`, and then looks the
entry up a second time: `shown` or `failed`. A fetch is `running` (inside `fetch`), `returned`,
`stored` (under the lock), `done` (its channel closed). Fetches are numbered in the order
`startLocked` starts them. An entry is created with its first fetch and goes by that number, so
that a dropped entry, which its goroutine still has as `current`, differs from the one that
replaces it, and `source` is the stream a fetch is for. `Warm` keeps the lock over its loop: `warming` is what it has still to start, and the
other critical sections wait until it is empty. `age` counts in units of `FreshFor`, and time
passes at any moment. `gone` remembers when a stream was last removed.

| run | constants | checks |
| --- | --- | --- |
| `snapshot_cache` | 2 streams, 2 requests for the one that reloads remove and bring back, 3 fetches, 2 reloads | `OneFetchPerCamera`, `NoOlderImage`, `RemovedImagesDropped`, `WaitersServed`, `RequestAnswered` |

*Bounds.* Each request starts at most one fetch and `Warm` one, so three fetches are all there can
be and `MaxFetches` never stops a request. Two reloads remove a stream and bring it back. An image
is fresh at age 0, servable at age 1 and too old at 2: all the cases of `get`.

*Fairness.* Requests are scheduled and their timers fire; Warm goes through its loop. Nothing is
assumed of the fetches: `RequestAnswered` has to hold while the media server hangs.

*Left out.* Close, which `run` defers until the process ends; the token file; the error a failed
fetch leaves in its entry, which only words the answer. Which address, method and token a request
has is one choice made as it arrives.

*What the code does that one might not expect.* "One fetch runs at a time per camera" (`snapshot.go:9`, and
`startLocked` at 375) is what one entry keeps. A stream removed while its fetch runs and asked for again has
a second one beside it: because it came back, or because a request had passed the check of the list before
the removal and makes an entry for the removed stream. `OneFetchPerCamera` says that this is the only way:
of two fetches of a camera under way together the earlier was started before the camera's last removal.
`NoOlderImage` and `RemovedImagesDropped` say that it cannot be seen in what requests are given.

## Discovery, Temperature, Reporting

`Discovery` has the fields of `Service` and, for each goroutine that publishes, the camera copies it
has still to go through (`queue`) and the messages it is about to hand to the client (`todo`). An
operation is its critical section with the messages it then publishes, or none while
disconnected. `PublishCamera` is one round of `publishCamera`, which reads the camera's state
under a lock of its own; `Publish` and `PublishFails` are what may become of one message. The
topics of a camera are three: `entity` stands for the discovery messages of its link, image and
camera entities, which are published and retired together, `availability`, and `temperature` for
the entity and availability of its temperature. `retained` is what the broker has of each.
`astray` remembers the topics whose last message was lost or arrived late, saying what no longer
holds; it takes no part in any step.

`Temperature` has `Supervisor.workers` and one program counter per worker: `start` (the report that
the link is down), `connecting`, `asking` (for the capability), `polling` (a reading),
`waiting`, `retrying`, `ending` (the deferred function). A report is three steps: `current` under
the supervisor's lock, the store under its own, the service under its own. `Workers` are slots,
used again once a worker has ended: a Reconcile waits for a free one, which the code need not.

`Reporting` has one goroutine for `run` and `watchForReload` (`Main`): startup reconciles the
workers, publishes the registry and attaches the service to the store with `setSink`'s replay; a
reload publishes, retires what is no longer there, and reconciles. The mirror reports any
availability for any of the registry's cameras: which of the supervisors it finds in the middle
of a reload, and whether they serve, is `Supervision`. OnConnect runs in a goroutine of the MQTT
client's (`Handlers`).

| run | constants | checks |
| --- | --- | --- |
| `reporting_safety` | 2 cameras, neither with a sensor, 1 worker, 1 reload that replaces the camera, 1 connection, 1 lost message, 1 round of the mirror | `RetainedCurrent`, `ServiceFollowsRegistry`, `MessagesTrue` |
| `temperature` | 2 cameras, one with a sensor and changing credentials, 2 workers, 2 reloads, no broker | `UncancelledIsCurrent`, `PolledIsSupported`, `WorkersFollowRegistry`, `NoTemperatureLeftBehind`, `ReplacedWorkersEnd`, `ReadingEnds` |

*Bounds.* `MaxConnects`, `MaxLosses`, `MaxTicks` and `MaxReloads` are guards of the environment. One
connection, in any state of startup or reload, with one disconnection, one loss and one report of
the mirror lets four goroutines (`onConnect`, the publisher, the mirror, a worker) publish about the
same camera at once. Two workers let a replaced one report beside its successor, and two
reloads change credentials, remove the camera and bring it back. The worker's protocol does not
depend on the broker, so `temperature` leaves it disconnected; in `reporting_safety` a worker finds
no sensor and reports that, which leaves readings, and the state they multiply, to `temperature`.
`RetainedCurrent` is proved for any choice of sensors.

*Fairness.* Each goroutine is scheduled, and what it does in the network ends by its deadline, as
`Connect`, `SupportsTemperature`, `Temperature` and `Publish` do in the code. Nothing is assumed of
the broker, of signals, or of the camera: `ReadingEnds` asks for a link that brings no reading from
some point on, however it fails.

*Left out.* Frames, the bridge's own entities and counters, Close of both, the text of the messages
and the values of readings (a value outside 0 to 50 degrees is an error in the code and reaches
nobody). Retained messages arrive in the order in which their calls are made, or not at all. Whether
a camera has a sensor does not change. A camera whose stream URL cannot be built, which `publish`
skips, does not occur.

*What the code does that one might not expect.*
- A camera that is removed while the broker is away is never retired: `Remove` publishes nothing
  then and `onConnect` only publishes what is registered. `RetainedCurrent` speaks of registered
  cameras for that reason. `Remove` leaves the retained availability in any case.
- A message composed before a change may be sent after the one about the change, since no lock
  is held while publishing; so may an old copy of `onConnect`'s round. A lost message is not
  repeated. `astray` marks both, and `RetainedCurrent` says there is no third way to be wrong.
- A worker that was current when it asked may be replaced before its report arrives, so a replaced
  worker can still overwrite its successor's report, until that one's next.
- The mirror can record the availability of a camera that has just been removed.

## AccountPairing, Setup

`AccountPairing` has the state file (`disk`: session, challenge, address) and the one call at a time
that holds `Provider.mu`: whose it is (`caller`), which exchange it is in (`at`: `otp`, `login`, the
device list with the session's token or with its master token, `saving`), and its copy of the state
(`mem`). Next to them is the account server, as far as the client can tell: which address a code was
sent to (`to`), which codes are used up (`spent`), which tokens of a session it accepts. An exchange
that changes the server and whose answer is lost is `AnswerLost`; `NoAnswer` is every other failure. A list
without a compatible camera fails `Listed`. `misread` has the tokens whose answer the client took for a
rejection although the server accepts them (`ReadAsRejected`).
Codes and sessions are names, used again once nobody holds them; `old` are those past `ChallengeTTL`.

`Setup` runs the command again and again, and kills it anywhere: `restoring`, then `page` if the
first attempt asks for a person and `-pair-ui` is given, then `again`. The handlers of the page call
the provider at any moment of the last two, since the run does not wait for handlers under way.

| run | constants | checks |
| --- | --- | --- |
| `pairing` | 2 codes, 2 sessions, 1 address, the modes of the add-on and of the command line | `PageMeansUnpaired`, `SessionKept`, `PairingCompletes` |

*Bounds.* Two codes are the pending one and the next, two sessions the lost one and its successor; a
name comes back, so the number of codes in a behaviour has no bound.

*Fairness.* Weak for what has a deadline (every exchange; `OnPaired`). Strong for a person who keeps
asking and entering codes, for the mutex, which lets everybody in who waits, for a mail that arrives
and a login that is answered now and then, and for a disk that is not always full. `PairingCompletes`
says that with these nothing lost earlier keeps the page up for ever. A code that was used up without
an answer is what it turns on: the person must be able to replace a code that still counts as good.

*What the code does that one might not expect.* "Only an explicit rejection says anything about this token"
(`client.go:131`), but `validateSessionResponse` takes every status that is not a positive number for one
(`client.go:243-246`), also one it cannot read. A session the server still accepts may be given up that way;
`SessionKept` says that nothing less than such an answer to each token does it.

*Left out.* The UUID of the device, which only the server looks at; challenges stored without a date, which
the provider treats as live for ever (`provider.go:171-174`) and no longer writes;
redirects to another host; Refresh and its cache, which no program calls;
languages and the page's text.

## CameraRegistry, Entrypoint

`CameraRegistry` is one run of the setup command after the account: `account` (waiting for the list),
`placing` (Build's loop over the cameras in the order of their identifiers), `registry` and `config` (the
two files, each replaced as a whole). `ports` and `names` are Build's `addresses` and `usedNames`. A
name is a sequence of numbers and `BaseName` the result of `streamName`; a suffix is one number more.
A port is free when the registry does not have it and the system does not say it is bound; the bridge's
own ports are bound (`Busy`), and so may be any other, hence the choice in `Place`.

`Entrypoint` is `run.sh`: `first` (load_credentials), `arm` (the timer), `wait` (`wait -n`), `backoff`
(a media server that failed), `refresh`, `apply`. A trap runs at once in `wait` and otherwise when the
command in the foreground has ended, where it only leaves `requested`. The bridge is `starting` until it
has a handler for SIGHUP; `hup` is the signal it has not taken yet; `serving` is what it has loaded,
`streams` what the media server has. Both can die at any moment, which ends the add-on or restarts the
media server; the page's button restarts the media server without `run.sh`'s knowledge. Exit returns to
the start over the same files, as the Supervisor does.

| run | constants | checks |
| --- | --- | --- |
| `entrypoint` | 2 cameras of one name, 2 ports, 2 tokens, 1 failure of the media server | `DistinctPlaces`, `InStep`, `AddressKept`, `RequestServed` |
| `stream_names` | the second camera is called VM65 | finds `PlaysOwnCamera` violated |

*Bounds.* Two cameras that come and go in any list make each the first one, with the other's recorded port
in the way, and with two ports and `Gap` 0 the search of one meets the other's. Two tokens make a configuration differ without a change of cameras. `FailuresMax` 1 has a
restart and the exit after too many.

*Fairness.* Commands end, timers elapse, a refresh has a deadline for each exchange. Nothing is assumed of
the bridge, of signals or of presses. `RequestServed` excepts a media server that fails again and again:
every turn of the loop starts a new timer, so the code does not serve the request then.

*Left out.* The credentials file of a single camera, which the bridge does not read when it has a registry;
the MJPEG companion of each stream and the overlay's source; options and the settings derived from them.
`InStep` speaks of complete refreshes: after one that failed halfway, the
registry may be newer than the configuration until the next, and the bridge is not told.

## MagicDial, TokenCrypto, Tunnel

`MagicDial` is one attempt of `dialWithRetry`. `dial` goes through the stages of Dial: the control socket,
the question (`ask`), the stream socket, its assignment to the tunnel, the relay-open frame and the two
deadlines cleared, to `up` or `failed`, and `over` when the session closes it. `watch` is the goroutine
that waits for the context, and its Close in the two steps it has, with `tunnel.stream` read before the
first. `closer` is whoever else closes a tunnel that has been handed out, the watch of the outer context in
`handle` or a direction of `pipe` that ended, in the same two steps. `ended` says whether the context ended
while Dial was at work or after it had returned, which it always does: its caller cancels it. An answer has its number of fields, number, mode and port; `Accepted` is `ParseAppResponse`, and
`Fits` what the frame of three and five digits can hold.

`TokenCrypto` is the cipher with bytes of 2 * `Half` values: the key rolled from a random prefix, the state
that each byte of plain text moves, the bootstrap that may arrive in pieces. The code's exclusive or is
the constant `BitXor`, of which `CipherAssumption` says only what makes the cipher a cipher: it stays
within the bytes, and undoes itself. `MCTunnel` gives it the bitwise one.

`Tunnel` puts a session together: the client's socket, `clientWatch` that reads it during the dial and
keeps what it read, its stop (a mark, a deadline, and the wait for the reader), the bytes kept sent
ahead of pipe's copying, both ciphers and sockets that deliver any pieces. `Streams` says that each
direction implements `ByteStream`: what the sender has given comes out at the other end in order, nothing
is taken back, invented or sent before it was given.

`OpenOrNothing` is what Dial's comment promises of the sockets (`tunnel.go:78`, the control connection "is
kept open for the tunnel's lifetime"): what Dial hands out has both, a session that has its stream has its
control connection, whoever closes the tunnel, and a Dial that fails or a session that is over leaves
neither. It excepts a context that ended while Dial was at work, because the code does: the watch may have
closed the stream after its deadline was cleared, so that Dial hands out a dead stream, and a watch that read
`tunnel.stream` before it was assigned closes the control connection alone, under a session that goes on.
TLC finds the property violated without either exception.

| run | constants | checks |
| --- | --- | --- |
| `tunnel` | bytes of 8 values, a token of 2, 3 bytes of request, 2 of picture, 5 kinds of answer | `Streams`, `OpenOrNothing` |

*Bounds.* A token of two bytes makes the bootstrap three bytes, so that it can be cut inside and at each
end; three bytes of request are one for the watch, one for the hand-over and one for pipe. The marker is
any byte its range allows, the prefix is one choice: it only enters the key. The context may end and the
tunnel be closed by others at any moment, once each.

*Left out.* The relay's end is outside this repository; it is modelled as the same cipher, which is what
the code assumes of it. The attempt over the local network, the text of requests and diagnostics. The
deadlines of a handshake are among the causes of `Fail`. `CHECK_DEADLOCK` is off: a session ends.

## Findings

- `close_race`: Close copies `conns` and closes the copy. A client that was accepted before and is
  tracked after keeps its socket and its relay session, contrary to Close's comment; `handle` does
  not look at `closing`. Serve then waits for it, and so does the supervisor's restart.
- `stale_health`: two `publishBridges` may store in the other order than they loaded. Run's own
  publication at startup can thus overwrite the supervisor's with an older count, and stays until
  the next start or stop of a bridge, contrary to the package comment of `app`.
- `stream_names`: app.Build makes stream names unique among the cameras and knows nothing of the
  alias `vm65`. A second camera that its owner calls VM65 takes the entry `vm65` of the media
  server's configuration from the first, and the name under which the bridge publishes the first
  camera plays the second.

Without a run of their own, since the code does them but no line of the repository says otherwise in
a way a property could quote, or since a property of a passing run names them as its exception:

- A reload whose cameras cannot be bound leaves none registered, and `Healthy` (`health/state.go:101`)
  takes zero of zero bridges for healthy.
- `watchForReload`, started late in `run`, calls `signal.Notify` (`cmd/vm65-bridge/main.go:267`). A
  SIGHUP before that ends the process, and with it the add-on: `SendHup` of `Entrypoint` has it.
- `Provider.Status` shows the configured address for a code that was sent to the one typed on the page
  (`provider.go:98`, `provider.go:185-190`), and LoginOTP is called with it too.
- When the answer of LoginOTP is lost, its code is used up and still shown as awaited.
- `dialWithRetry` cancels the context of an attempt as soon as Dial has returned. A watch that has
  not run yet then finds both its channels ready (`tunnel.go:120`) and may close the tunnel, stream and
  control connection. If the context had ended during Dial already, one of the two may be closed
  alone, see `OpenOrNothing` above.
- A question to the relay may be put inside a cooldown (`bridge.go:522`), two fetches of one camera may run
  at once (`snapshot.go:9`), a reload during startup starts cameras twice (`app.go:153`), and an answer that
  cannot be read counts as a rejection (`client.go:243`): see the sections of their modules. The properties
  there state the exceptions.

## Proofs

`BridgeSessionsProofs` proves, for every set of connections, every cap, number of retries and
configuration that satisfies `ConnsAssumption` (a finite set, without the mark of the empty
channel) and `ConfigAssumption` (types):

- `TypeCorrect`: `Spec => []TypeOK`.
- `SlotsBounded`: `Spec => []SlotAccounting`, by the cardinality of the set of slot holders, to
  which `ReserveSession` adds one element and `ReleaseSlot` takes one away.
- `RefusalsBooked`: the inductive invariant `RefusalInv`. `OneRefusalPerCooldown` is not inductive:
  it needs who holds the probe in which phase, that a session which waited out refusal n and
  passed `refusalSince` is still looking at refusal n, and that a session refused after
  waiting out n has a later number. `OneRefusal` and `SharedAnswer` follow.
- `ServeReturnedClean`: from `CleanInv`, which says what each phase holds, with `SlotsBounded`.
- `BridgeIsPool`: `Spec => PoolSpec`; every action maps to an action of `SessionPool` or a stutter.
- `BridgeKeepsGate`: `Spec => GateSpec`, from `RefusalInv`. The step that needs it is the one past the
  probe, where the code compares only the time of the last refusal: that it is a caller's turn, and that nobody
  else speaks for those that were held, is what the invariant knows about the probe and the refusals seen.
  What a session does after that, its retries included, is asking without looking, and the gate allows it.

`SupervisionProofs` proves, for every set of keys, descriptors, registries and supervisors, every
backoff limit and number of reloads that satisfy the assumptions (descriptors have a key and an
address, a registry is not empty and has one descriptor per key, names of the model are distinct,
keys and supervisors are finitely many):

- `TypeCorrect`: `Spec => []TypeOK`.
- `RunStopsClean`: `StoppedClean`, from `SocketInv`: a supervisor between two servers has no socket
  and Run is past stopAll only over ended supervisors.
- `CamerasAccounted`: `Spec => [](early \/ CameraInv)`. Every step without an early reload keeps `CameraInv`,
  and an early one stays on record (`EarlyStays`). `OneSupervisorPerCamera` is not inductive, since `add` overwrites the map's entry: it needs that a supervisor at work is the one
  the map has for its key, that everything Run or a reload still has to start has a key of its own,
  and that such a key is free or belongs to a supervisor the reload is stopping and waits for.
  `OneSupervisor` follows.
- `KeptCameras`: `ReloadKeepsCameras`, from `KeepInv` (`ReplacedUnwanted`): what a reload stops, or still has
  to wait for, has a camera that is not in its registry; and from `SocketInv` and what each step of the reload
  does to the sockets. Early reloads are no exception.
- `RegistryReconciled`: `Reconciled`, from `early` or `StartedInv` and `ReloadedInv`, which say camera by
  camera what is supervised, still to start or failed, in each phase of Run and of a reload.
- `Counters`: `CountersExact`, by the cardinality of the set of supervisors in service.
- `OnlyReplacedEnd`: `CancelInv`: until Run is told to stop, a supervisor is called off only by a reload that
  waits for it, and ends only when it is called off; with early reloads too.
- `SupervisionServes`: `Spec /\ []~early => Service!Spec`, from all the invariants above. A supervisor's end is a
  camera given up, which needs `OnlyReplacedEnd` and `KeepInv`: its camera is not in the registry that is
  being taken over. The end of a reload needs that every camera the map has is looked after
  (`MappedIsTended`), since a supervisor that has ended has been taken out by then. A camera taken on is
  nobody else's by `CameraInv`. All else stutters.

`CamerasAccounted`, `OneSupervisor` and `RegistryReconciled` say what holds unless a reload has come during
startup, and `SupervisionServes` is about the behaviours in which none does; the code does not rule such a reload
out. The other theorems of the module hold of every behaviour.

`SnapshotCacheProofs` proves, for every set of streams and requests, every set of valid stream lists
and any bounds and ages that are natural numbers:

- `TypeCorrect`: `Spec => []TypeOK`.
- `FetchesAccounted`: the inductive invariant `FetchInv` (which fetch an entry has in flight, that
  its frame is of an earlier one, that an entry is newer than the last removal of its stream, and, in
  `SourceInv`, that a fetch works for the entry of its stream unless that was removed since the fetch was
  started). `OneFetch`, that is `OneFetchPerCamera`, follows, and `RemovedDropped`, that is
  `RemovedImagesDropped`.
- `ImagesInOrder`: `NoOlderImage`, from `OrderInv`: what was shown of a stream is no newer than the
  frame of its entry, and older than the fetch that will bring its first one.
- `GoodFetchServes`: `WaitersServed`, from `WaitInv`: the fetch a request waits for is of the entry
  its stream has, unless the stream was removed since.

`ReportingProofs` proves, for every set of cameras, credentials, registries, workers and handlers,
every choice of cameras with a sensor and any bounds that satisfy `WorkersAssumption` and
`ReportingAssumption` (goroutines are distinct, a registry has at least one camera and one
descriptor for each):

- `TypeCorrect`: `Spec => []TypeOK`. `Steps` says that whatever the process does is a step of the
  discovery service or leaves it alone; the theorems about the service rest on its steps only.
- `RetainedIsCurrent`: `RetainedCurrent` is inductive with the types. An operation either leaves
  what is wanted of a topic as it was or has its message pending (`OperationTells`), leaves other
  cameras alone (`OthersAlone`), and starts with nothing of its own pending, so that it drops
  nothing (`OperationSends`).
- `TrueMessages`, `NoneLeftBehind`: from the same steps.
- `RegistryFollowed`: `ServiceFollowsRegistry`, from `Following`: while a registry is published the
  service has what was published before and what has been gone through.
- `OneWorkerEach`: `UncancelledIsCurrent`, from `OneWorker` and what `Reconcile` does
  (`ReconcileFacts`). `RegistryServed`: `WorkersFollowRegistry`, from `Serving`, which holds from
  Reconcile to the next reload, and from a worker giving up by itself only without a sensor.
- `PolledIsKnown`: `PolledIsSupported`, from `SensorInv`: reports and records of the capability are
  true; the store knows of a worker that polls, or its report is on the way there; once attached so
  does the service, or the report or the replay is on the way; and a camera of the registry that
  has a worker is registered, so that its report is not refused.

`SetupProofs` proves, for every set of codes, sessions and addresses, under `AccountAssumption` and
`ModesAssumption`:

- `TypeCorrect`: `Spec => []TypeOK`.
- `AccountHeld`: the inductive invariant. `Copies` says that between exchanges nobody holds a copy, that
  a copy in a device exchange is the file, and that it may only lack the session while it is being given
  up; `GivenUp`, that what is about to be saved without the session is saved after both its tokens were
  rejected or read as rejected, and that a rejected token stays rejected; `Turns`, who may hold the provider in which phase.
  `SessionsKept` and `PageUnpaired` follow.

`EntrypointProofs` proves, for every finite set of cameras, every choice of names, ports and tokens and
every limit of failures:

- `TypeCorrect`, and `PlacesDistinct` from `Placement`: what Build has placed is free of conflicts and
  agrees with the registry file, and what is written is what it has placed. That a name is new rests on
  the suffix search.
- `NameIsFound`: that search ends, after at most one suffix more than there are names: of so many suffixes
  one is free (`SuffixFree`, by their number), and a least one, which is what the loop stops at. `Place`
  bounds its search by that number and so loses no behaviour.
- `AddressesKept`: `AddressKept`, from the same.
- `ServersInStep`: `InStep`, from `Shell`: the hash is that of the configuration except between a setup and
  `apply_credentials`, and the media server runs on what was hashed or has read the file since.

`MagicDialProofs` proves, for every set of answers, `TypeCorrect` and `DialOpensOrCloses`, that is
`OpenOrNothing`, over `DialSpec`. The invariant has three parts: which sockets can be open, and whether
`tunnel.stream` is set, in which stage (`Sockets`); that nobody has touched the sockets of a Dial whose context
has not ended (`Untouched`); and that whoever closes a tunnel later closes its stream first (`StreamFirst`).

`TunnelProofs` proves, for every token, prefix, marker, request and picture, any size of byte and any
`BitXor` that satisfies `CipherAssumption` and `BytesAssumption`:

- `CiphersInStep`: the inductive invariant `StreamInv`. In each direction (`UpInv`, `DownInv`) what was
  written is what was got followed by what is on its way, and `Coupled` relates the two ends of the cipher:
  nothing was sent yet (`Unused`), the decoder holds a beginning of the bootstrap (`Booting`), or its state is
  the one the encoder's came from by the bytes on their way (`Flowing`). It rests on lemmas about the
  recursive functions of the cipher, which have to be proved to exist first: that a walk over a sequence
  has one result (`WalkUpTo`, `WalkDef`, `WalkUnique`, by the least index at which
  it would not), that coding two pieces is coding them as one (`CipherConcat`), and that decoding undoes
  encoding.
- `DeliveredInOrder`: each end has got a beginning of what the other sent.
- `SessionStreams`: `Streams`. Every step of a session gives or delivers more of a direction's bytes, or
  leaves both ends of it alone.
- `SessionOpensOrCloses`: `OpenOrNothing` of a session, from `DialOpensOrCloses`. `MagicDial` has everybody who
  closes a tunnel, so that a session's own steps are its steps or move bytes only (a lemma).

The inductive invariants were checked by TLC on the instances of the runs before they were proved. Every safety property a passing run checks is proved; liveness is model-checked
only, since it rests on fairness.

Types (`TypeOK`) are proved in every module with theorems and not checked by a run of their own.

## Not modelled

- The ingress proxy and the network guard (`internal/ingress`, `internal/netguard`): a decision about each
  request by itself, without state that two requests share. Configuration, languages and build
  information: parsing and text.
- Counters, statistics, last errors and logs of all components, frames for the camera entity, the bridge's
  own entities: what they show is the state the modules have, and no step depends on them.
- Test helpers, the research command and the scripts of the repository's own checks.

## Plan

All components with a protocol have a module. What is left:

1. How long a camera may be without an accepting bridge after a failed `Accept` (`bridge.go:325`).
2. `PublishFrame` and `PublishStatus` with the bridge's own entities, in `Discovery`.
3. The MJPEG companions in `CameraRegistry`.

---------------------------- MODULE SnapshotCache ----------------------------
(* The still images of internal/snapshot: one cached frame per stream, at  *)
(* most one fetch running for it, requests that wait for that fetch within *)
(* a budget, and reloads that replace the streams that may be requested.   *)
EXTENDS Integers

CONSTANTS
    Streams,        \* the stream names anyone asks for
    Requests,       \* calls of the HTTP handlers and of Frame
    Asks,           \* the stream each of them is for
    Lists,          \* what New and SetStreams are given: [names, warm]
    FreshFor,       \* Config.FreshFor and Config.StaleFor, counted in Ticks
    StaleFor,
    MaxFetches,     \* bounds the goroutines of startLocked
    MaxReloads      \* bounds the calls of SetStreams

(* Fetches are numbered in the order startLocked starts them.  An entry is *)
(* created together with its first fetch and goes by that number.          *)
None == 0
Fetches == 1..MaxFetches

ASSUME BoundsAssumption ==
    MaxFetches \in Nat /\ MaxReloads \in Nat /\ FreshFor \in Nat /\ StaleFor \in Nat

(* streamSets refuses any other list, and nothing changes then. *)
ValidList(list) == list.names # {} /\ list.warm \subseteq list.names

ASSUME ListsAssumption ==
    /\ Asks \in [Requests -> Streams]
    /\ Lists \subseteq [names : SUBSET Streams, warm : SUBSET Streams]
    /\ \A list \in Lists : ValidList(list)

VARIABLES
    streams, warm,  \* Cache.streams, Cache.warm
    entries,        \* Cache.entries, by stream
    inFlight,       \* entry.inFlight, by entry
    frame,          \* the fetch that brought entry.frame, by entry
    age,            \* the time since entry.frame.at, by entry
    started,        \* how many fetches were started
    phase,          \* of each fetch, where its goroutine is
    source,         \* of each fetch, the stream it asks the upstream for
    owner,          \* of each fetch, the entry it has in `current`
    got,            \* the fetches that came back with an image
    warming,        \* the streams Warm, which has the lock, has yet to start
    warmed,         \* Warm was called
    pc,             \* of each request, where it is
    awaited,        \* of each request, the fetch it waits for
    shown,          \* of each request, the fetch whose image it was given
    reloads,
    gone            \* by stream, the fetches started before it was last removed

listVars    == <<streams, warm, reloads, gone>>
entryVars   == <<entries, inFlight, frame, age>>
fetchVars   == <<started, phase, source, owner, got>>
warmVars    == <<warming, warmed>>
requestVars == <<pc, awaited, shown>>
vars == <<listVars, entryVars, fetchVars, warmVars, requestVars>>

Phases == {"unused", "running", "returned", "stored", "done"}
Pcs == {"new", "arrived", "allowed", "waiting", "signalled", "gaveUp",
        "turnedAway", "shown", "failed"}

TypeOK ==
    /\ streams \subseteq Streams /\ warm \subseteq streams
    /\ entries \in [Streams -> 0..MaxFetches]
    /\ inFlight \in [Fetches -> 0..MaxFetches]
    /\ frame \in [Fetches -> 0..MaxFetches]
    /\ age \in [Fetches -> 0..StaleFor + 1]
    /\ started \in 0..MaxFetches
    /\ phase \in [Fetches -> Phases]
    /\ source \in [Fetches -> Streams \cup {None}]
    /\ owner \in [Fetches -> 0..MaxFetches]
    /\ got \subseteq Fetches
    /\ warming \subseteq Streams /\ warmed \in BOOLEAN
    /\ pc \in [Requests -> Pcs]
    /\ awaited \in [Requests -> 0..MaxFetches]
    /\ shown \in [Requests -> 0..MaxFetches]
    /\ reloads \in 0..MaxReloads
    /\ gone \in [Streams -> 0..MaxFetches]

Init ==
    /\ \E list \in Lists : streams = list.names /\ warm = list.warm
    /\ entries = [s \in Streams |-> None]
    /\ inFlight = [e \in Fetches |-> None]
    /\ frame = [e \in Fetches |-> None]
    /\ age = [e \in Fetches |-> 0]
    /\ started = 0
    /\ phase = [f \in Fetches |-> "unused"]
    /\ source = [f \in Fetches |-> None]
    /\ owner = [f \in Fetches |-> None]
    /\ got = {}
    /\ warming = {} /\ warmed = FALSE
    /\ pc = [r \in Requests |-> "new"]
    /\ awaited = [r \in Requests |-> None]
    /\ shown = [r \in Requests |-> None]
    /\ reloads = 0
    /\ gone = [s \in Streams |-> 0]

(* Cache.mu is free.  Only Warm takes several steps with it. *)
Unlocked == warming = {}

---------------------------------------------------------------------------
(* startLocked.                                                            *)
(* Faulty variant: nobody looks whether a fetch is running.                *)
NeverRunning(s) == FALSE

Running(s) == entries[s] # None /\ inFlight[entries[s]] # None

(* The entry of a stream, created with the fetch about to start if need be *)
EntryOf(s) == IF entries[s] # None THEN entries[s] ELSE started + 1

StartFetch(s) ==
    /\ started < MaxFetches
    /\ started' = started + 1
    /\ entries' = [entries EXCEPT ![s] = EntryOf(s)]
    /\ source' = [source EXCEPT ![started'] = s]
    /\ owner' = [owner EXCEPT ![started'] = EntryOf(s)]
    /\ inFlight' = [inFlight EXCEPT ![EntryOf(s)] = started']
    /\ phase' = [phase EXCEPT ![started'] = "running"]
    /\ UNCHANGED <<frame, age, got>>

StartLocked(s) ==
    \/ ~Running(s) /\ StartFetch(s)
    \/ Running(s) /\ UNCHANGED <<entryVars, fetchVars>>

(* The goroutine: the upstream's answer, or the timeout of the fetch; the  *)
(* result stored under the lock; the channel closed.                       *)
FetchReturns(f) ==
    /\ phase[f] = "running"
    /\ phase' = [phase EXCEPT ![f] = "returned"]
    /\ got' = got \cup {f} \/ got' = got
    /\ UNCHANGED <<started, source, owner, entryVars, listVars, warmVars, requestVars>>

StoreResult(f) ==
    /\ phase[f] = "returned" /\ Unlocked
    /\ phase' = [phase EXCEPT ![f] = "stored"]
    /\ inFlight' = [inFlight EXCEPT ![owner[f]] = None]
    /\ \/ f \in got
          /\ frame' = [frame EXCEPT ![owner[f]] = f]
          /\ age' = [age EXCEPT ![owner[f]] = 0]
       \/ f \notin got /\ UNCHANGED <<frame, age>>
    /\ UNCHANGED <<entries, started, source, owner, got, listVars, warmVars, requestVars>>

(* Faulty variant: the channel is closed as soon as the result is there.   *)
ResultKnown(f) == phase[f] \in {"returned", "stored"}

ResultStored(f) == phase[f] = "stored"

CloseDone(f) ==
    /\ ResultStored(f)
    /\ phase' = [phase EXCEPT ![f] = "done"]
    /\ UNCHANGED <<started, source, owner, got, entryVars, listVars, warmVars, requestVars>>

(* Time passes for the entries somebody can still look up; beyond StaleFor *)
(* all ages are alike.                                                     *)
Tick ==
    /\ age' = [e \in Fetches |->
                 IF frame[e] # None /\ (\E s \in Streams : entries[s] = e)
                    /\ age[e] <= StaleFor
                 THEN age[e] + 1 ELSE age[e]]
    /\ age' # age
    /\ UNCHANGED <<entries, inFlight, frame, fetchVars, listVars, warmVars,
                   requestVars>>

---------------------------------------------------------------------------
(* Requests: the handlers and Frame, then get.                             *)
Goes(r, from, to) == pc[r] = from /\ pc' = [pc EXCEPT ![r] = to]

(* The guard, the method and the token are matters of the request alone. *)
Arrive(r) ==
    /\ Goes(r, "new", "arrived") \/ Goes(r, "new", "turnedAway")
    /\ UNCHANGED <<awaited, shown, entryVars, fetchVars, listVars, warmVars>>

Allows(r) ==
    /\ Unlocked
    /\ \/ Asks[r] \in streams /\ Goes(r, "arrived", "allowed")
       \/ Asks[r] \notin streams /\ Goes(r, "arrived", "turnedAway")
    /\ UNCHANGED <<awaited, shown, entryVars, fetchVars, listVars, warmVars>>

Fresh(s) ==
    /\ entries[s] # None
    /\ frame[entries[s]] # None
    /\ age[entries[s]] < FreshFor

GetFresh(r) ==
    /\ Unlocked /\ Fresh(Asks[r])
    /\ Goes(r, "allowed", "shown")
    /\ shown' = [shown EXCEPT ![r] = frame[entries[Asks[r]]]]
    /\ UNCHANGED <<awaited, entryVars, fetchVars, listVars, warmVars>>

GetStarts(r) ==
    /\ Unlocked /\ ~Fresh(Asks[r])
    /\ Goes(r, "allowed", "waiting")
    /\ StartLocked(Asks[r])
    /\ awaited' = [awaited EXCEPT ![r] = inFlight'[entries'[Asks[r]]]]
    /\ UNCHANGED <<shown, listVars, warmVars>>

Signalled(r) ==
    /\ awaited[r] # None /\ phase[awaited[r]] = "done"
    /\ Goes(r, "waiting", "signalled")
    /\ UNCHANGED <<awaited, shown, entryVars, fetchVars, listVars, warmVars>>

(* Faulty variant: a request waits for the fetch, however long it takes.   *)
WaitsOn(r) == FALSE

(* The budget of the request is spent, or its caller is gone. *)
GiveUp(r) ==
    /\ Goes(r, "waiting", "gaveUp")
    /\ UNCHANGED <<awaited, shown, entryVars, fetchVars, listVars, warmVars>>

(* The second critical section looks the entry up again. *)
Servable(s) ==
    /\ entries[s] # None
    /\ frame[entries[s]] # None
    /\ age[entries[s]] <= StaleFor

Answer(r) ==
    /\ pc[r] \in {"signalled", "gaveUp"} /\ Unlocked
    /\ \/ /\ Servable(Asks[r])
          /\ pc' = [pc EXCEPT ![r] = "shown"]
          /\ shown' = [shown EXCEPT ![r] = frame[entries[Asks[r]]]]
       \/ /\ ~Servable(Asks[r])
          /\ pc' = [pc EXCEPT ![r] = "failed"]
          /\ UNCHANGED shown
    /\ UNCHANGED <<awaited, entryVars, fetchVars, listVars, warmVars>>

---------------------------------------------------------------------------
(* The owner of the cache.                                                 *)
(* Faulty variant: the entries stay as they were. *)
KeepsEntries(list) == entries

EntriesOf(list) == [s \in Streams |-> IF s \in list.names THEN entries[s] ELSE None]
WarmOf(list) == list.warm

SetStreams(list) ==
    /\ Unlocked /\ reloads < MaxReloads
    /\ reloads' = reloads + 1
    /\ streams' = list.names /\ warm' = WarmOf(list)
    /\ entries' = EntriesOf(list)
    /\ gone' = [s \in Streams |-> IF s \in list.names THEN gone[s] ELSE started]
    /\ UNCHANGED <<inFlight, frame, age, fetchVars, warmVars, requestVars>>

(* Once, when the web server has been started. *)
Warm ==
    /\ ~warmed /\ Unlocked
    /\ warmed' = TRUE /\ warming' = warm
    /\ UNCHANGED <<entryVars, fetchVars, listVars, requestVars>>

WarmNext(s) ==
    /\ s \in warming
    /\ warming' = warming \ {s}
    /\ StartLocked(s)
    /\ UNCHANGED <<warmed, listVars, requestVars>>

---------------------------------------------------------------------------
Request(r) ==
    \/ Allows(r) \/ GetFresh(r) \/ GetStarts(r)
    \/ Signalled(r) \/ GiveUp(r) \/ Answer(r)

Warming == \E s \in Streams : WarmNext(s)

Next ==
    \/ \E r \in Requests : Arrive(r) \/ Request(r)
    \/ \E f \in Fetches : FetchReturns(f) \/ StoreResult(f) \/ CloseDone(f)
    \/ \E list \in Lists : SetStreams(list)
    \/ Warm \/ Warming \/ Tick

Spec == Init /\ [][Next]_vars

(* A request that arrived is scheduled and its timer fires; so is Warm.    *)
(* Of the fetches, which hang on the media server, nothing is assumed.     *)
FairSpec ==
    /\ Spec
    /\ \A r \in Requests : WF_vars(Request(r))
    /\ WF_vars(Warming)

---------------------------------------------------------------------------
(* "One fetch runs at a time per camera" (snapshot.go:9; startLocked says  *)
(* "exactly one fetch per camera is running").  As it stands the code does *)
(* not keep it: a reload that removes a stream drops its entry with the    *)
(* fetch in flight, and the next request of that stream, let through       *)
(* before the removal or after a reload that brought it back, starts       *)
(* another beside it.  That is the one way: of two fetches of a camera     *)
(* that run at once, the earlier was started before the camera was last    *)
(* removed, however requests, Warm, results and reloads interleave.        *)
OneFetchPerCamera ==
    \A f, g \in Fetches :
        (f < g /\ source[f] = source[g] /\ {phase[f], phase[g]} \subseteq {"running", "returned"})
            => f <= gone[source[f]]

(* A picture never goes back in time: no request is given an image of an   *)
(* earlier fetch than one somebody was already given for that stream, with *)
(* fetches that finish late, entries dropped and fetches still running.    *)
NoOlderImage ==
    [][\A r, q \in Requests :
          (/\ pc[r] # "shown" /\ pc'[r] = "shown"
           /\ pc[q] = "shown" /\ Asks[q] = Asks[r]) => shown[q] <= shown'[r]]_vars

(* "Frames cached for a stream that is gone are dropped with it"           *)
(* (SetStreams): nobody is given an image of a fetch that was started      *)
(* before the stream was last removed, not even if it has come back since. *)
RemovedImagesDropped ==
    [][\A r \in Requests :
          pc[r] # "shown" /\ pc'[r] = "shown" => shown'[r] > gone[Asks[r]]]_vars

(* Whoever waited for a fetch that brought an image gets one, unless the   *)
(* stream was removed meanwhile or the image grew too old before it looked *)
(* again (startLocked stores the result before it closes the channel).     *)
WaitersServed ==
    [][\A r \in Requests :
          (pc[r] = "signalled" /\ pc'[r] = "failed" /\ awaited[r] \in got) =>
             \/ gone[Asks[r]] >= awaited[r]
             \/ age[entries[Asks[r]]] > StaleFor]_vars

(* Every request that arrived is answered, also while the media server     *)
(* hangs: "it stays under the ten seconds Home Assistant allows" (Wait).   *)
(* Each request is made once, so it is enough that no time is the last one *)
(* at which nobody waits.                                                  *)
RequestAnswered ==
    []<>(\A r \in Requests : pc[r] \in {"new", "turnedAway", "shown", "failed"})
=============================================================================

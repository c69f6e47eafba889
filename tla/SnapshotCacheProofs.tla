------------------------- MODULE SnapshotCacheProofs -------------------------
(* Theorems about SnapshotCache, for every set of streams and requests,    *)
(* every stream list, and any number of fetches and reloads.               *)
EXTENDS SnapshotCache, TLAPS

---------------------------------------------------------------------------
(* Types.                                                                  *)

(* Numbers and ages from 0. *)
LEMMA RangeFacts ==
    /\ None \in 0..MaxFetches
    /\ Fetches \subseteq 0..MaxFetches
    /\ \A n \in 0..MaxFetches : n # None => n \in Fetches
    /\ 0 \in 0..StaleFor + 1 /\ 0 \in 0..MaxReloads
BY BoundsAssumption DEF Fetches, None

(* The entry startLocked works on is an entry. *)
LEMMA EntryType ==
    ASSUME TypeOK, NEW s \in Streams, started < MaxFetches
    PROVE  /\ started + 1 \in Fetches
           /\ EntryOf(s) \in Fetches
BY BoundsAssumption DEF TypeOK, EntryOf, Fetches, None

(* What startLocked changes keeps its type. *)
LEMMA StartType ==
    ASSUME TypeOK, NEW s \in Streams, StartLocked(s)
    PROVE  /\ entries' \in [Streams -> 0..MaxFetches]
           /\ inFlight' \in [Fetches -> 0..MaxFetches]
           /\ frame' \in [Fetches -> 0..MaxFetches]
           /\ age' \in [Fetches -> 0..StaleFor + 1]
           /\ started' \in 0..MaxFetches
           /\ phase' \in [Fetches -> Phases]
           /\ source' \in [Fetches -> Streams \cup {None}]
           /\ owner' \in [Fetches -> 0..MaxFetches]
           /\ got' \subseteq Fetches
<1>1. CASE StartFetch(s)
  <2>1. started + 1 \in Fetches /\ EntryOf(s) \in Fetches
    BY <1>1, EntryType DEF StartFetch
  <2>2. Fetches \subseteq 0..MaxFetches
    BY DEF Fetches
  <2>3. started' \in 0..MaxFetches
    BY <1>1, <2>1, <2>2 DEF StartFetch
  <2>4. entries' \in [Streams -> 0..MaxFetches]
    BY <1>1, <2>1, <2>2 DEF StartFetch, TypeOK
  <2>5. inFlight' \in [Fetches -> 0..MaxFetches]
    BY <1>1, <2>1, <2>3 DEF StartFetch, TypeOK
  <2>6. phase' \in [Fetches -> Phases]
    BY <1>1 DEF StartFetch, TypeOK, Phases
  <2>7. owner' \in [Fetches -> 0..MaxFetches]
    BY <1>1, <2>1, <2>2 DEF StartFetch, TypeOK
  <2>8. source' \in [Fetches -> Streams \cup {None}]
    BY <1>1 DEF StartFetch, TypeOK
  <2> QED BY <1>1, <2>3, <2>4, <2>5, <2>6, <2>7, <2>8 DEF StartFetch, TypeOK
<1>2. CASE UNCHANGED <<entryVars, fetchVars>>
  BY <1>2 DEF TypeOK, entryVars, fetchVars
<1> QED BY <1>1, <1>2 DEF StartLocked

(* The cache starts in its types. *)
LEMMA InitTypeOK == Init => TypeOK
<1> SUFFICES ASSUME Init PROVE TypeOK
  OBVIOUS
<1>1. streams \subseteq Streams /\ warm \subseteq streams
  BY ListsAssumption DEF Init, ValidList
<1>2. /\ entries \in [Streams -> 0..MaxFetches]
      /\ gone \in [Streams -> 0..MaxFetches]
  BY RangeFacts DEF Init, None
<1>3. /\ inFlight \in [Fetches -> 0..MaxFetches]
      /\ frame \in [Fetches -> 0..MaxFetches]
      /\ age \in [Fetches -> 0..StaleFor + 1]
      /\ owner \in [Fetches -> 0..MaxFetches]
  BY RangeFacts DEF Init
<1>4. phase \in [Fetches -> Phases] /\ pc \in [Requests -> Pcs]
  BY DEF Init, Phases, Pcs
<1>5. /\ awaited \in [Requests -> 0..MaxFetches]
      /\ shown \in [Requests -> 0..MaxFetches]
  BY RangeFacts DEF Init
<1>6. started \in 0..MaxFetches /\ reloads \in 0..MaxReloads
  BY RangeFacts DEF Init, None
<1> QED BY <1>1, <1>2, <1>3, <1>4, <1>5, <1>6 DEF Init, TypeOK

(* Every step keeps them. *)
LEMMA StepTypeOK == TypeOK /\ [Next]_vars => TypeOK'
<1> SUFFICES ASSUME TypeOK, [Next]_vars PROVE TypeOK'
  OBVIOUS
<1> USE DEF listVars, entryVars, fetchVars, warmVars, requestVars
<1>1. ASSUME NEW f \in Fetches, FetchReturns(f) PROVE TypeOK'
  BY <1>1 DEF TypeOK, FetchReturns, Phases
<1>2. ASSUME NEW f \in Fetches, StoreResult(f) PROVE TypeOK'
  <2>1. inFlight' \in [Fetches -> 0..MaxFetches]
    BY <1>2, RangeFacts DEF TypeOK, StoreResult
  <2>2. frame' \in [Fetches -> 0..MaxFetches]
    BY <1>2, RangeFacts DEF TypeOK, StoreResult
  <2>3. age' \in [Fetches -> 0..StaleFor + 1]
    BY <1>2, BoundsAssumption DEF TypeOK, StoreResult
  <2>4. phase' \in [Fetches -> Phases]
    BY <1>2 DEF TypeOK, StoreResult, Phases
  <2> QED BY <1>2, <2>1, <2>2, <2>3, <2>4 DEF TypeOK, StoreResult
<1>3. ASSUME NEW f \in Fetches, CloseDone(f) PROVE TypeOK'
  BY <1>3 DEF TypeOK, CloseDone, Phases
<1>4. CASE Tick
  <2>1. age' \in [Fetches -> 0..StaleFor + 1]
    BY <1>4, BoundsAssumption DEF TypeOK, Tick
  <2> QED BY <1>4, <2>1 DEF TypeOK, Tick
<1>5. ASSUME NEW r \in Requests, Arrive(r) PROVE TypeOK'
  BY <1>5 DEF TypeOK, Arrive, Goes, Pcs
<1>6. ASSUME NEW r \in Requests, Request(r) PROVE TypeOK'
  <2>1. CASE Allows(r)
    BY <2>1 DEF TypeOK, Allows, Goes, Pcs
  <2>2. CASE GetFresh(r)
    <3>1. frame[entries[Asks[r]]] \in 0..MaxFetches
      BY <2>2, ListsAssumption, RangeFacts DEF TypeOK, GetFresh, Fresh
    <3> QED BY <2>2, <3>1 DEF TypeOK, GetFresh, Goes, Pcs
  <2>3. CASE GetStarts(r)
    <3>1. Asks[r] \in Streams
      BY ListsAssumption
    <3>2. inFlight'[entries'[Asks[r]]] \in 0..MaxFetches
      <4>1. CASE StartFetch(Asks[r])
        <5>1. EntryOf(Asks[r]) \in Fetches /\ started + 1 \in 0..MaxFetches
          BY <4>1, <3>1, EntryType, RangeFacts DEF StartFetch
        <5>2. entries'[Asks[r]] = EntryOf(Asks[r])
          BY <4>1, <3>1 DEF TypeOK, StartFetch
        <5>3. inFlight'[EntryOf(Asks[r])] = started + 1
          BY <4>1, <5>1 DEF TypeOK, StartFetch
        <5> QED BY <5>1, <5>2, <5>3
      <4>2. CASE Running(Asks[r]) /\ UNCHANGED <<entryVars, fetchVars>>
        BY <4>2, <3>1, RangeFacts DEF TypeOK, Running, entryVars
      <4> QED BY <2>3, <4>1, <4>2 DEF GetStarts, StartLocked
    <3> QED BY <2>3, <3>1, <3>2, StartType DEF TypeOK, GetStarts, Goes, Pcs
  <2>4. CASE Signalled(r)
    BY <2>4 DEF TypeOK, Signalled, Goes, Pcs
  <2>5. CASE GiveUp(r)
    BY <2>5 DEF TypeOK, GiveUp, Goes, Pcs
  <2>6. CASE Answer(r)
    <3>1. pc' \in [Requests -> Pcs]
      BY <2>6 DEF TypeOK, Answer, Pcs
    <3>2. shown' \in [Requests -> 0..MaxFetches]
      <4>1. Servable(Asks[r]) => frame[entries[Asks[r]]] \in 0..MaxFetches
        BY ListsAssumption, RangeFacts DEF TypeOK, Servable
      <4> QED BY <2>6, <4>1 DEF TypeOK, Answer
    <3> QED BY <2>6, <3>1, <3>2 DEF TypeOK, Answer
  <2> QED BY <1>6, <2>1, <2>2, <2>3, <2>4, <2>5, <2>6 DEF Request
<1>7. ASSUME NEW list \in Lists, SetStreams(list) PROVE TypeOK'
  <2>1. /\ streams' \subseteq Streams /\ warm' \subseteq streams'
    BY <1>7, ListsAssumption DEF SetStreams, WarmOf, ValidList
  <2>2. entries' \in [Streams -> 0..MaxFetches]
    BY <1>7, BoundsAssumption DEF TypeOK, SetStreams, EntriesOf, None
  <2>3. gone' \in [Streams -> 0..MaxFetches]
    BY <1>7 DEF TypeOK, SetStreams
  <2>4. reloads' \in 0..MaxReloads
    BY <1>7, BoundsAssumption DEF TypeOK, SetStreams
  <2> QED BY <1>7, <2>1, <2>2, <2>3, <2>4 DEF TypeOK, SetStreams
<1>8. CASE Warm
  BY <1>8 DEF TypeOK, Warm
<1>9. ASSUME NEW s \in Streams, WarmNext(s) PROVE TypeOK'
  BY <1>9, StartType DEF TypeOK, WarmNext
<1>10. CASE UNCHANGED vars
  BY <1>10 DEF TypeOK, vars
<1> QED BY <1>1, <1>2, <1>3, <1>4, <1>5, <1>6, <1>7, <1>8, <1>9, <1>10
        DEF Next, Warming

(* Every state of the cache is of the declared types. *)
THEOREM TypeCorrect == Spec => []TypeOK
BY InitTypeOK, StepTypeOK, PTL DEF Spec

---------------------------------------------------------------------------
(* Entries and their fetches.                                              *)
Flying == {"running", "returned"}

StartedInv == \A f \in Fetches :
    /\ f <= started => phase[f] # "unused" /\ owner[f] \in 1..f
    /\ f > started => phase[f] = "unused" /\ f \notin got

(* An entry goes by its first fetch, which is newer than the removal that  *)
(* was last of its stream.                                                 *)
EntryInv == \A s \in Streams :
    /\ gone[s] <= started
    /\ entries[s] # None => entries[s] <= started /\ entries[s] > gone[s]

(* The fetch in flight is the entry's own and newer than its frame. *)
FlightInv == \A e \in Fetches : inFlight[e] # None =>
    /\ inFlight[e] <= started
    /\ owner[inFlight[e]] = e
    /\ phase[inFlight[e]] \in Flying
    /\ frame[e] < inFlight[e]

FlyerInv == \A f \in Fetches : phase[f] \in Flying => inFlight[owner[f]] = f

(* A frame is of the entry it is in, and a fetch that brought one left one *)
FrameInv ==
    /\ \A e \in Fetches : frame[e] # None => frame[e] \in e..started
    /\ \A f \in Fetches : phase[f] \in {"stored", "done"} /\ f \in got =>
          frame[owner[f]] # None

(* A fetch works for the entry of its stream, unless the stream was removed *)
(* since the fetch was started.                                            *)
SourceInv == \A f \in Fetches : f <= started =>
    /\ source[f] \in Streams
    /\ f > gone[source[f]] => entries[source[f]] = owner[f]

FetchInv == StartedInv /\ EntryInv /\ FlightInv /\ FlyerInv /\ FrameInv /\ SourceInv

(* Nothing has been started yet. *)
LEMMA InitFetchInv == Init => FetchInv
BY BoundsAssumption DEF Init, FetchInv, StartedInv, EntryInv, FlightInv, FlyerInv, FrameInv, SourceInv,
   Flying, None, Fetches

(* A new fetch is the only one of its entry. *)
LEMMA StartFetchInv ==
    ASSUME TypeOK, FetchInv, NEW s \in Streams, StartLocked(s), UNCHANGED gone
    PROVE  FetchInv'
<1>1. CASE ~Running(s) /\ StartFetch(s)
  <2> DEFINE e == EntryOf(s)
  <2>1. started + 1 \in Fetches /\ e \in Fetches /\ started \in Nat
    BY <1>1, EntryType DEF StartFetch, TypeOK
  <2>2. inFlight[e] = None /\ frame[e] <= started /\ e <= started + 1 /\ e >= 1
    <3>1. CASE entries[s] = None
      <4>1. e = started + 1 /\ inFlight[e] = None
        <5>1. e = started + 1
          BY <3>1 DEF e, EntryOf
        <5>2. ASSUME inFlight[e] # None PROVE FALSE
          <6>1. inFlight[e] \in Fetches
            BY <2>1, <5>2, RangeFacts DEF TypeOK
          <6>2. inFlight[e] <= started /\ owner[inFlight[e]] = e
            BY <2>1, <5>2 DEF FetchInv, FlightInv
          <6>3. owner[inFlight[e]] \in 1..inFlight[e]
            BY <6>1, <6>2 DEF FetchInv, StartedInv
          <6> QED BY <5>1, <6>1, <6>2, <6>3, <2>1 DEF Fetches
        <5> QED BY <5>1, <5>2
      <4>2. frame[e] = None
        BY <4>1, <2>1 DEF FetchInv, FrameInv, TypeOK, Fetches, None
      <4> QED BY <4>1, <4>2, <2>1 DEF None
    <3>2. CASE entries[s] # None
      <4>1. e = entries[s] /\ e <= started
        BY <3>2 DEF e, EntryOf, FetchInv, EntryInv
      <4>2. inFlight[e] = None
        BY <4>1, <3>2, <1>1 DEF Running
      <4>3. frame[e] <= started
        BY <2>1 DEF FetchInv, FrameInv, TypeOK, Fetches, None
      <4> QED BY <4>1, <4>2, <4>3, <2>1 DEF Fetches
    <3> QED BY <3>1, <3>2
  <2> HIDE DEF e
  <2>3. /\ started' = started + 1 /\ frame' = frame /\ got' = got
        /\ entries' = [entries EXCEPT ![s] = e]
        /\ source' = [source EXCEPT ![started + 1] = s]
        /\ owner' = [owner EXCEPT ![started + 1] = e]
        /\ inFlight' = [inFlight EXCEPT ![e] = started + 1]
        /\ phase' = [phase EXCEPT ![started + 1] = "running"]
    BY <1>1 DEF StartFetch, e
  <2>4. StartedInv'
    BY <2>1, <2>2, <2>3 DEF FetchInv, StartedInv, TypeOK, Fetches
  <2>5. EntryInv'
    BY <1>1, <2>1, <2>2, <2>3 DEF FetchInv, EntryInv, TypeOK, Fetches, None, e, EntryOf
  <2>6. FlightInv'
    <3> SUFFICES ASSUME NEW x \in Fetches, inFlight'[x] # None
                 PROVE  /\ inFlight'[x] <= started' /\ owner'[inFlight'[x]] = x
                        /\ phase'[inFlight'[x]] \in Flying /\ frame'[x] < inFlight'[x]
      BY DEF FlightInv
    <3>1. CASE x = e
      <4>1. inFlight'[x] = started + 1
        BY <3>1, <2>1, <2>3 DEF TypeOK
      <4>2. owner'[started + 1] = e /\ phase'[started + 1] = "running"
        BY <2>1, <2>3 DEF TypeOK
      <4>3. frame'[e] < started + 1
        BY <2>1, <2>2, <2>3 DEF TypeOK
      <4> QED BY <3>1, <4>1, <4>2, <4>3, <2>1, <2>3 DEF Flying
    <3>2. CASE x # e
      <4>1. inFlight'[x] = inFlight[x] /\ inFlight[x] \in 1..started
        BY <3>2, <2>3 DEF FetchInv, FlightInv, TypeOK, None
      <4>2. inFlight[x] # started + 1
        BY <4>1, <2>1
      <4> QED BY <4>1, <4>2, <2>1, <2>3 DEF FetchInv, FlightInv, TypeOK, None
    <3> QED BY <3>1, <3>2
  <2>7. FlyerInv'
    BY <2>1, <2>2, <2>3 DEF FetchInv, FlyerInv, StartedInv, TypeOK, Fetches, None, Flying
  <2>8. FrameInv'
    BY <2>1, <2>2, <2>3 DEF FetchInv, FrameInv, StartedInv, TypeOK, Fetches, None
  <2>9. SourceInv'
    <3> SUFFICES ASSUME NEW f \in Fetches, f <= started + 1
                 PROVE  /\ source'[f] \in Streams
                        /\ f > gone[source'[f]] => entries'[source'[f]] = owner'[f]
      BY <2>3 DEF SourceInv
    <3>1. CASE f = started + 1
      BY <3>1, <2>1, <2>3 DEF TypeOK
    <3>2. CASE f # started + 1
      <4>1. f <= started /\ source'[f] = source[f] /\ owner'[f] = owner[f]
        BY <3>2, <2>1, <2>3 DEF TypeOK, Fetches
      <4>2. /\ source[f] \in Streams
            /\ f > gone[source[f]] => entries[source[f]] = owner[f]
        BY <4>1 DEF FetchInv, SourceInv
      <4>3. ASSUME f > gone[s], source[f] = s PROVE e = owner[f]
        <5>1. entries[s] = owner[f] /\ owner[f] # None
          BY <4>1, <4>2, <4>3 DEF FetchInv, StartedInv, None, Fetches
        <5> QED BY <5>1 DEF e, EntryOf
      <4> QED BY <4>1, <4>2, <4>3, <2>3 DEF TypeOK
    <3> QED BY <3>1, <3>2
  <2> QED BY <2>4, <2>5, <2>6, <2>7, <2>8, <2>9 DEF FetchInv
<1>2. CASE UNCHANGED <<entryVars, fetchVars>>
  BY <1>2 DEF FetchInv, StartedInv, EntryInv, FlightInv, FlyerInv, FrameInv, SourceInv,
     entryVars, fetchVars
<1> QED BY <1>1, <1>2 DEF StartLocked

(* Every step keeps the bookkeeping of entries and fetches. *)
LEMMA StepFetchInv == TypeOK /\ FetchInv /\ [Next]_vars => FetchInv'
<1> SUFFICES ASSUME TypeOK, FetchInv, [Next]_vars PROVE FetchInv'
  OBVIOUS
<1> USE DEF listVars, entryVars, fetchVars, warmVars, requestVars
<1> DEFINE Same == UNCHANGED <<listVars, entryVars, fetchVars>>
<1>1. ASSUME Same PROVE FetchInv'
  BY <1>1 DEF FetchInv, StartedInv, EntryInv, FlightInv, FlyerInv, FrameInv, SourceInv
<1>2. ASSUME NEW f \in Fetches, FetchReturns(f) PROVE FetchInv'
  <2>1. phase[f] = "running" /\ phase' = [phase EXCEPT ![f] = "returned"]
        /\ got' \in {got, got \cup {f}}
    BY <1>2 DEF FetchReturns
  <2>2. StartedInv'
    BY <1>2, <2>1 DEF FetchReturns, FetchInv, StartedInv, TypeOK
  <2>3. EntryInv'
    BY <1>2 DEF FetchReturns, FetchInv, EntryInv
  <2>4. FlightInv'
    BY <1>2, <2>1, RangeFacts DEF FetchReturns, FetchInv, FlightInv, TypeOK, Flying
  <2>5. FlyerInv'
    BY <1>2, <2>1 DEF FetchReturns, FetchInv, FlyerInv, TypeOK, Flying
  <2>6. FrameInv'
    BY <1>2, <2>1 DEF FetchReturns, FetchInv, FrameInv, TypeOK
  <2>7. SourceInv'
    BY <1>2 DEF FetchReturns, FetchInv, SourceInv
  <2> QED BY <2>2, <2>3, <2>4, <2>5, <2>6, <2>7 DEF FetchInv
<1>3. ASSUME NEW f \in Fetches, StoreResult(f) PROVE FetchInv'
  <2> DEFINE e == owner[f]
  <2>1. /\ phase[f] = "returned" /\ phase' = [phase EXCEPT ![f] = "stored"]
        /\ inFlight' = [inFlight EXCEPT ![e] = None]
        /\ UNCHANGED <<entries, started, source, owner, got, gone>>
        /\ f \in got => frame' = [frame EXCEPT ![e] = f]
        /\ f \notin got => frame' = frame
    BY <1>3 DEF StoreResult
  <2>2. /\ f <= started /\ e \in 1..f /\ e \in Fetches /\ inFlight[e] = f
        /\ frame[e] < f
    <3>1. f <= started /\ e \in 1..f
      BY <2>1 DEF FetchInv, StartedInv, TypeOK, Fetches
    <3>2. e \in Fetches /\ inFlight[e] = f
      BY <3>1, <2>1 DEF FetchInv, FlyerInv, TypeOK, Fetches, Flying
    <3> QED BY <3>1, <3>2 DEF FetchInv, FlightInv, Fetches, None
  <2> HIDE DEF e
  <2>3. StartedInv'
    BY <2>1 DEF FetchInv, StartedInv, TypeOK
  <2>4. EntryInv'
    BY <2>1 DEF FetchInv, EntryInv
  <2>5. FlightInv'
    <3> SUFFICES ASSUME NEW x \in Fetches, inFlight'[x] # None
                 PROVE  /\ inFlight'[x] <= started' /\ owner'[inFlight'[x]] = x
                        /\ phase'[inFlight'[x]] \in Flying /\ frame'[x] < inFlight'[x]
      BY DEF FlightInv
    <3>1. x # e /\ inFlight'[x] = inFlight[x] /\ frame'[x] = frame[x]
      BY <2>1, <2>2 DEF TypeOK
    <3>2. owner[inFlight[x]] = x /\ inFlight[x] # f
      BY <3>1 DEF FetchInv, FlightInv, e
    <3> QED BY <2>1, <3>1, <3>2, RangeFacts DEF FetchInv, FlightInv, TypeOK
  <2>6. FlyerInv'
    <3> SUFFICES ASSUME NEW x \in Fetches, phase'[x] \in Flying
                 PROVE  inFlight'[owner'[x]] = x
      BY DEF FlyerInv
    <3>1. x # f /\ phase[x] \in Flying
      BY <2>1 DEF TypeOK, Flying
    <3>2. inFlight[owner[x]] = x
      BY <3>1 DEF FetchInv, FlyerInv
    <3>3. owner[x] # e
      BY <3>1, <3>2, <2>2
    <3> QED BY <2>1, <3>2, <3>3 DEF TypeOK
  <2>7. FrameInv'
    <3>5. f # None /\ started \in Nat /\ f \in e..started
      BY <2>2 DEF TypeOK, Fetches, None
    <3>6. /\ \A x \in Fetches : frame'[x] \in {frame[x], f}
          /\ \A x \in Fetches : x # e => frame'[x] = frame[x]
          /\ f \in got => frame'[e] = f
      BY <2>1, <2>2 DEF TypeOK
    <3>1. \A x \in Fetches : frame'[x] # None => frame'[x] \in x..started'
      BY <2>1, <3>5, <3>6 DEF FetchInv, FrameInv
    <3>2. \A x \in Fetches : frame[x] # None => frame'[x] # None
      BY <3>5, <3>6
    <3>3. f \in got => frame'[owner'[f]] # None
      BY <2>1, <3>5, <3>6 DEF e
    <3>4. ASSUME NEW x \in Fetches, phase'[x] \in {"stored", "done"}, x \in got', x # f
          PROVE  frame'[owner'[x]] # None
      <4>1. phase[x] \in {"stored", "done"}
        BY <2>1, <3>4 DEF TypeOK
      <4>2. frame[owner[x]] # None /\ owner[x] \in Fetches
        <5>1. x <= started /\ x \in got
          BY <2>1, <3>4, <4>1 DEF FetchInv, StartedInv, TypeOK, Fetches
        <5>2. owner[x] \in 1..x
          BY <5>1 DEF FetchInv, StartedInv
        <5>3. owner[x] \in Fetches
          BY <5>2, BoundsAssumption DEF Fetches
        <5>4. frame[owner[x]] # None
          BY <3>4, <4>1, <5>1 DEF FetchInv, FrameInv
        <5> QED BY <5>3, <5>4
      <4> QED BY <2>1, <3>2, <4>2
    <3> QED BY <2>1, <3>1, <3>3, <3>4 DEF FrameInv
  <2>8. SourceInv'
    BY <2>1 DEF FetchInv, SourceInv
  <2> QED BY <2>3, <2>4, <2>5, <2>6, <2>7, <2>8 DEF FetchInv
<1>4. ASSUME NEW f \in Fetches, CloseDone(f) PROVE FetchInv'
  <2>1. phase[f] = "stored" /\ phase' = [phase EXCEPT ![f] = "done"]
    BY <1>4 DEF CloseDone, ResultStored
  <2>2. StartedInv'
    BY <1>4, <2>1 DEF CloseDone, FetchInv, StartedInv, TypeOK
  <2>3. EntryInv'
    BY <1>4 DEF CloseDone, FetchInv, EntryInv
  <2>4. FlightInv'
    BY <1>4, <2>1, RangeFacts DEF CloseDone, FetchInv, FlightInv, TypeOK, Flying
  <2>5. FlyerInv'
    BY <1>4, <2>1 DEF CloseDone, FetchInv, FlyerInv, TypeOK, Flying
  <2>6. FrameInv'
    BY <1>4, <2>1 DEF CloseDone, FetchInv, FrameInv, TypeOK
  <2>7. SourceInv'
    BY <1>4 DEF CloseDone, FetchInv, SourceInv
  <2> QED BY <2>2, <2>3, <2>4, <2>5, <2>6, <2>7 DEF FetchInv
<1>5. CASE Tick
  BY <1>5 DEF Tick, FetchInv, StartedInv, EntryInv, FlightInv, FlyerInv, FrameInv, SourceInv
<1>6. ASSUME NEW r \in Requests, Arrive(r) PROVE FetchInv'
  BY <1>6, <1>1 DEF Arrive
<1>7. ASSUME NEW r \in Requests, Request(r) PROVE FetchInv'
  <2>1. CASE GetStarts(r)
    BY <2>1, StartFetchInv, ListsAssumption DEF GetStarts
  <2> QED BY <1>7, <1>1, <2>1 DEF Request, Allows, GetFresh, Signalled, GiveUp, Answer
<1>8. ASSUME NEW list \in Lists, SetStreams(list) PROVE FetchInv'
  <2>1. StartedInv' /\ FlightInv' /\ FlyerInv' /\ FrameInv'
    BY <1>8 DEF SetStreams, FetchInv, StartedInv, FlightInv, FlyerInv, FrameInv
  <2>2. EntryInv'
    <3> SUFFICES ASSUME NEW s \in Streams
                 PROVE  /\ gone'[s] <= started'
                        /\ entries'[s] # None => entries'[s] <= started' /\ entries'[s] > gone'[s]
      BY DEF EntryInv
    <3>1. started' = started /\ started \in Nat
      BY <1>8 DEF SetStreams, TypeOK
    <3>2. CASE s \in list.names
      BY <1>8, <3>1, <3>2 DEF SetStreams, EntriesOf, FetchInv, EntryInv
    <3>3. CASE s \notin list.names
      BY <1>8, <3>1, <3>3 DEF SetStreams, EntriesOf
    <3> QED BY <3>2, <3>3
  <2>3. SourceInv'
    <3> SUFFICES ASSUME NEW f \in Fetches, f <= started
                 PROVE  /\ source[f] \in Streams
                        /\ f > gone'[source[f]] => entries'[source[f]] = owner[f]
      BY <1>8 DEF SetStreams, SourceInv
    <3>1. /\ source[f] \in Streams /\ started \in Nat /\ f \in Nat
          /\ f > gone[source[f]] => entries[source[f]] = owner[f]
      BY DEF FetchInv, SourceInv, TypeOK, Fetches
    <3>2. CASE source[f] \in list.names
      BY <1>8, <3>1, <3>2 DEF SetStreams, EntriesOf
    <3>3. CASE source[f] \notin list.names
      BY <1>8, <3>1, <3>3 DEF SetStreams
    <3> QED BY <3>2, <3>3
  <2> QED BY <2>1, <2>2, <2>3 DEF FetchInv
<1>9. CASE Warm
  BY <1>9, <1>1 DEF Warm
<1>10. ASSUME NEW s \in Streams, WarmNext(s) PROVE FetchInv'
  BY <1>10, StartFetchInv DEF WarmNext
<1>11. CASE UNCHANGED vars
  BY <1>11, <1>1 DEF vars
<1> QED BY <1>2, <1>3, <1>4, <1>5, <1>6, <1>7, <1>8, <1>9, <1>10, <1>11
        DEF Next, Warming

(* The inductive invariant of entries and fetches. *)
THEOREM FetchesAccounted == Spec => []FetchInv
BY InitFetchInv, StepFetchInv, TypeCorrect, PTL DEF Spec

(* Two fetches of a camera run at once only where the camera was removed   *)
(* after the earlier one was started (startLocked, SetStreams).            *)
THEOREM OneFetch == Spec => []OneFetchPerCamera
<1>1. TypeOK /\ FetchInv => OneFetchPerCamera
  <2> SUFFICES ASSUME TypeOK, FetchInv, NEW f \in Fetches, NEW g \in Fetches, f < g,
                      source[f] = source[g], phase[f] \in Flying, phase[g] \in Flying,
                      ~(f <= gone[source[f]])
               PROVE  FALSE
    BY DEF OneFetchPerCamera, Flying
  <2>1. f <= started /\ g <= started
    BY DEF FetchInv, StartedInv, TypeOK, Fetches, Flying
  <2>2. source[f] \in Streams /\ gone[source[f]] \in Nat
    BY <2>1 DEF FetchInv, SourceInv, TypeOK
  <2>3. owner[f] = owner[g]
    BY <2>1, <2>2 DEF FetchInv, SourceInv, Fetches
  <2> QED BY <2>3 DEF FetchInv, FlyerInv, Fetches
<1> QED BY <1>1, TypeCorrect, FetchesAccounted, PTL

---------------------------------------------------------------------------
(* What requests are given.                                                *)

(* A request that is given an image gets the frame its stream's entry has. *)
LEMMA ShownStep ==
    ASSUME TypeOK, NEW r \in Requests, [Next]_vars,
           pc[r] # "shown", pc'[r] = "shown"
    PROVE  /\ entries[Asks[r]] # None /\ frame[entries[Asks[r]]] # None
           /\ shown' = [shown EXCEPT ![r] = frame[entries[Asks[r]]]]
           /\ UNCHANGED <<listVars, entryVars, fetchVars>>
<1> USE DEF listVars, entryVars, fetchVars, warmVars, requestVars
<1>1. ASSUME NEW q \in Requests, Arrive(q) PROVE FALSE
  BY <1>1 DEF Arrive, Goes, TypeOK
<1>2. ASSUME NEW q \in Requests, Request(q)
      PROVE  q = r /\ (GetFresh(r) \/ (Answer(r) /\ Servable(Asks[r])))
  BY <1>2 DEF Request, Allows, GetFresh, GetStarts, Signalled, GiveUp, Answer, Goes, TypeOK
<1>3. ASSUME NEW q \in Requests, Request(q)
      PROVE  /\ entries[Asks[r]] # None /\ frame[entries[Asks[r]]] # None
             /\ shown' = [shown EXCEPT ![r] = frame[entries[Asks[r]]]]
             /\ UNCHANGED <<listVars, entryVars, fetchVars>>
  <2>1. CASE GetFresh(r)
    BY <2>1 DEF GetFresh, Fresh
  <2>2. CASE Answer(r) /\ Servable(Asks[r])
    BY <2>2 DEF Answer, Servable
  <2> QED BY <1>2, <1>3, <2>1, <2>2
<1>4. ASSUME UNCHANGED pc PROVE FALSE
  BY <1>4
<1> QED BY <1>1, <1>3, <1>4 DEF Next, FetchReturns, StoreResult, CloseDone, SetStreams, Warm,
        Warming, WarmNext, Tick, vars

(* No image outlives the removal of its stream (SetStreams). *)
THEOREM RemovedDropped == Spec => RemovedImagesDropped
<1>1. TypeOK /\ FetchInv /\ [Next]_vars =>
        [\A r \in Requests :
            pc[r] # "shown" /\ pc'[r] = "shown" => shown'[r] > gone[Asks[r]]]_vars
  <2> SUFFICES ASSUME TypeOK, FetchInv, [Next]_vars, NEW r \in Requests,
                      pc[r] # "shown", pc'[r] = "shown"
               PROVE  shown'[r] > gone[Asks[r]]
    OBVIOUS
  <2> DEFINE e == entries[Asks[r]]
  <2>1. e # None /\ frame[e] # None /\ shown'[r] = frame[e]
    BY ShownStep DEF TypeOK
  <2>2. Asks[r] \in Streams /\ e \in Fetches
    BY <2>1, ListsAssumption, RangeFacts DEF TypeOK
  <2>3. e > gone[Asks[r]] /\ frame[e] \in e..started /\ gone[Asks[r]] \in Nat
    BY <2>1, <2>2 DEF FetchInv, EntryInv, FrameInv, TypeOK
  <2> QED BY <2>1, <2>2, <2>3 DEF Fetches
<1> QED BY <1>1, TypeCorrect, FetchesAccounted, PTL DEF Spec, RemovedImagesDropped
(* What was shown of a stream is no newer than what its entry has, or is   *)
(* about to get.                                                           *)
OrderInv == \A q \in Requests : pc[q] = "shown" =>
    /\ shown[q] <= started
    /\ LET e == entries[Asks[q]]
       IN  e # None =>
               /\ frame[e] # None => shown[q] <= frame[e]
               /\ frame[e] = None /\ inFlight[e] # None => shown[q] < inFlight[e]

(* Nothing was shown yet. *)
LEMMA InitOrderInv == Init => OrderInv
BY DEF Init, OrderInv

(* A new fetch is newer than all that was shown. *)
LEMMA StartOrderInv ==
    ASSUME TypeOK, FetchInv, OrderInv, NEW s \in Streams, StartLocked(s), UNCHANGED shown,
           \A q \in Requests : pc'[q] = "shown" => pc[q] = "shown"
    PROVE  OrderInv'
<1>1. CASE ~Running(s) /\ StartFetch(s)
  <2> SUFFICES ASSUME NEW q \in Requests, pc'[q] = "shown",
                      NEW e, e = entries'[Asks[q]]
               PROVE  /\ shown[q] <= started'
                      /\ e # None =>
                            /\ frame[e] # None => shown[q] <= frame[e]
                            /\ frame[e] = None /\ inFlight'[e] # None =>
                                  shown[q] < inFlight'[e]
    BY <1>1 DEF OrderInv, StartFetch
  <2>1. /\ Asks[q] \in Streams /\ started + 1 \in Fetches /\ EntryOf(s) \in Fetches
        /\ started \in Nat /\ shown[q] \in Nat
    BY <1>1, ListsAssumption, EntryType DEF StartFetch, TypeOK
  <2>2. pc[q] = "shown" /\ shown[q] <= started /\ started' = started + 1
    BY <1>1 DEF OrderInv, StartFetch
  <2>3. CASE e = EntryOf(s)
    <3>1. inFlight'[e] = started + 1
      BY <1>1, <2>1, <2>3 DEF StartFetch, TypeOK
    <3>2. frame[e] # None => shown[q] <= frame[e]
      <4>1. CASE e = entries[Asks[q]]
        <5>1. e # None
          BY <2>1, <2>3 DEF Fetches, None
        <5> QED BY <4>1, <5>1, <2>2 DEF OrderInv
      <4>2. CASE e # entries[Asks[q]]
        <5>1. Asks[q] = s /\ entries[s] = None
          BY <1>1, <2>1, <4>2 DEF StartFetch, TypeOK, EntryOf
        <5>2. e = started + 1 /\ e \in Fetches
          BY <5>1, <2>1, <2>3 DEF EntryOf
        <5>3. frame[e] = None
          BY <5>2, <2>1 DEF FetchInv, FrameInv, TypeOK
        <5> QED BY <5>3
      <4> QED BY <4>1, <4>2
    <3> QED BY <2>1, <2>2, <3>1, <3>2
  <2>4. CASE e # EntryOf(s)
    <3>1. e = entries[Asks[q]]
      BY <1>1, <2>1, <2>4 DEF StartFetch, TypeOK
    <3>2. e # None => inFlight'[e] = inFlight[e]
      BY <1>1, <2>1, <2>4, <3>1, RangeFacts DEF StartFetch, TypeOK
    <3> QED BY <2>1, <2>2, <3>1, <3>2 DEF OrderInv
  <2> QED BY <2>3, <2>4
<1>2. CASE UNCHANGED <<entryVars, fetchVars>>
  BY <1>2 DEF OrderInv, entryVars, fetchVars
<1> QED BY <1>1, <1>2 DEF StartLocked

(* Every step keeps the order. *)
LEMMA StepOrderInv == TypeOK /\ FetchInv /\ OrderInv /\ [Next]_vars => OrderInv'
<1> SUFFICES ASSUME TypeOK, FetchInv, OrderInv, [Next]_vars PROVE OrderInv'
  OBVIOUS
<1> USE DEF listVars, entryVars, fetchVars, warmVars, requestVars
<1>1. ASSUME UNCHANGED <<entries, inFlight, frame, started, pc, shown>> PROVE OrderInv'
  BY <1>1 DEF OrderInv
<1>2. ASSUME NEW r \in Requests, pc[r] # "shown", pc'[r] = "shown",
             \A q \in Requests : q # r => pc'[q] = pc[q]
      PROVE  OrderInv'
  <2> DEFINE e == entries[Asks[r]]
  <2>1. /\ e # None /\ frame[e] # None /\ shown' = [shown EXCEPT ![r] = frame[e]]
        /\ UNCHANGED <<entries, inFlight, frame, started>>
    BY <1>2, ShownStep
  <2>2. e \in Fetches
    BY <2>1, ListsAssumption, RangeFacts DEF TypeOK
  <2>3. frame[e] <= started /\ frame[e] \in Nat
    BY <2>1, <2>2 DEF FetchInv, FrameInv, TypeOK, Fetches
  <2>4. shown'[r] = frame[e] /\ \A q \in Requests : q # r => shown'[q] = shown[q]
    BY <2>1 DEF TypeOK
  <2> QED BY <1>2, <2>1, <2>3, <2>4 DEF OrderInv
<1>3. ASSUME UNCHANGED <<entries, inFlight, frame, started, shown>>,
             \A q \in Requests : pc'[q] = "shown" => pc[q] = "shown"
      PROVE  OrderInv'
  BY <1>3 DEF OrderInv
<1>4. ASSUME NEW f \in Fetches, StoreResult(f) PROVE OrderInv'
  <2> SUFFICES ASSUME NEW q \in Requests, pc[q] = "shown",
                      NEW e \in Fetches, e = entries[Asks[q]]
               PROVE  /\ shown[q] <= started
                      /\ frame'[e] # None => shown[q] <= frame'[e]
                      /\ frame'[e] = None /\ inFlight'[e] # None => shown[q] < inFlight'[e]
    BY <1>4, ListsAssumption, RangeFacts DEF OrderInv, StoreResult, TypeOK
  <2>0. e # None
    BY DEF Fetches, None
  <2>1. CASE e # owner[f]
    <3>1. frame'[e] = frame[e] /\ inFlight'[e] = inFlight[e]
      BY <1>4, <2>1 DEF StoreResult, TypeOK
    <3> QED BY <2>0, <3>1 DEF OrderInv
  <2>2. CASE e = owner[f]
    <3>1. inFlight[e] = f /\ inFlight'[e] = None
      BY <1>4, <2>2 DEF StoreResult, FetchInv, FlyerInv, Flying, TypeOK
    <3>2. f # None /\ frame[e] < f /\ frame[e] \in Nat /\ f \in Nat /\ shown[q] \in Nat
      BY <3>1 DEF FetchInv, FlightInv, TypeOK, Fetches, None
    <3>3. shown[q] <= f
      BY <2>0, <3>1, <3>2 DEF OrderInv
    <3>4. CASE f \in got
      <4>1. frame'[e] = f
        BY <1>4, <2>2, <3>4 DEF StoreResult, TypeOK
      <4> QED BY <3>1, <3>2, <3>3, <4>1 DEF OrderInv
    <3>5. CASE f \notin got
      <4>1. frame'[e] = frame[e]
        BY <1>4, <3>5 DEF StoreResult
      <4> QED BY <2>0, <3>1, <4>1 DEF OrderInv
    <3> QED BY <3>4, <3>5
  <2> QED BY <2>1, <2>2
<1>5. ASSUME NEW f \in Fetches, FetchReturns(f) \/ CloseDone(f) PROVE OrderInv'
  BY <1>5, <1>1 DEF FetchReturns, CloseDone
<1>6. CASE Tick
  BY <1>6, <1>1 DEF Tick
<1>7. ASSUME NEW r \in Requests, Arrive(r) PROVE OrderInv'
  BY <1>7, <1>3 DEF Arrive, Goes, TypeOK
<1>8. ASSUME NEW r \in Requests, Request(r) PROVE OrderInv'
  <2>1. CASE GetStarts(r)
    <3>1. \A q \in Requests : pc'[q] = "shown" => pc[q] = "shown"
      BY <2>1 DEF GetStarts, Goes, TypeOK
    <3> QED BY <2>1, <3>1, StartOrderInv, ListsAssumption DEF GetStarts
  <2>2. CASE Allows(r) \/ Signalled(r) \/ GiveUp(r)
    BY <2>2, <1>3 DEF Allows, Signalled, GiveUp, Goes, TypeOK
  <2>3. CASE GetFresh(r)
    BY <2>3, <1>2 DEF GetFresh, Goes, TypeOK
  <2>4. CASE Answer(r)
    <3>1. CASE Servable(Asks[r])
      BY <2>4, <3>1, <1>2 DEF Answer, TypeOK
    <3>2. CASE ~Servable(Asks[r])
      BY <2>4, <3>2, <1>3 DEF Answer, TypeOK
    <3> QED BY <3>1, <3>2
  <2> QED BY <1>8, <2>1, <2>2, <2>3, <2>4 DEF Request
<1>9. ASSUME NEW list \in Lists, SetStreams(list) PROVE OrderInv'
  <2>1. \A s \in Streams : entries'[s] \in {entries[s], None}
    BY <1>9 DEF SetStreams, EntriesOf
  <2> QED BY <1>9, <2>1, ListsAssumption DEF SetStreams, OrderInv
<1>10. CASE Warm
  BY <1>10, <1>1 DEF Warm
<1>11. ASSUME NEW s \in Streams, WarmNext(s) PROVE OrderInv'
  BY <1>11, StartOrderInv DEF WarmNext
<1>12. CASE UNCHANGED vars
  BY <1>12, <1>1 DEF vars
<1> QED BY <1>4, <1>5, <1>6, <1>7, <1>8, <1>9, <1>10, <1>11, <1>12 DEF Next, Warming

(* No request is given an older image than another was given before it. *)
THEOREM ImagesInOrder == Spec => NoOlderImage
<1>1. TypeOK /\ FetchInv /\ OrderInv /\ [Next]_vars =>
        [\A r, q \in Requests :
            (/\ pc[r] # "shown" /\ pc'[r] = "shown"
             /\ pc[q] = "shown" /\ Asks[q] = Asks[r]) => shown[q] <= shown'[r]]_vars
  <2> SUFFICES ASSUME TypeOK, OrderInv, [Next]_vars, NEW r \in Requests, NEW q \in Requests,
                      pc[r] # "shown", pc'[r] = "shown",
                      pc[q] = "shown", Asks[q] = Asks[r]
               PROVE  shown[q] <= shown'[r]
    OBVIOUS
  <2>1. /\ entries[Asks[r]] # None /\ frame[entries[Asks[r]]] # None
        /\ shown'[r] = frame[entries[Asks[r]]]
    BY ShownStep DEF TypeOK
  <2> QED BY <2>1 DEF OrderInv
<1>2. TypeOK /\ FetchInv /\ OrderInv /\ [Next]_vars => OrderInv'
  BY StepOrderInv
<1> QED BY <1>1, <1>2, InitOrderInv, TypeCorrect, FetchesAccounted, PTL DEF Spec, NoOlderImage

---------------------------------------------------------------------------
(* What a request waits for: its fetch, whose entry is its stream's unless *)
(* the stream was removed since; once signalled, the fetch is over.        *)
WaitInv == \A r \in Requests :
    /\ pc[r] \in {"waiting", "signalled", "gaveUp"} =>
          /\ awaited[r] \in 1..started
          /\ gone[Asks[r]] < awaited[r] => entries[Asks[r]] = owner[awaited[r]]
    /\ pc[r] = "signalled" => phase[awaited[r]] = "done"

(* Nobody waits at first. *)
LEMMA InitWaitInv == Init => WaitInv
BY DEF Init, WaitInv

(* Starting a fetch leaves the fetches that are waited for alone. *)
LEMMA StartKeeps ==
    ASSUME TypeOK, FetchInv, NEW s \in Streams, StartLocked(s), NEW f \in 1..started
    PROVE  /\ f \in 1..started' /\ owner'[f] = owner[f] /\ phase'[f] = phase[f]
           /\ \A x \in Streams : entries[x] = owner[f] => entries'[x] = entries[x]
<1>1. CASE StartFetch(s)
  <2>1. started + 1 \in Fetches /\ started \in Nat /\ f \in Fetches /\ f # started + 1
    <3>1. started + 1 \in Fetches /\ started \in Nat /\ started < MaxFetches
      BY <1>1, EntryType DEF StartFetch, TypeOK
    <3> QED BY <3>1, BoundsAssumption DEF Fetches
  <2>2. owner[f] # None
    BY <2>1 DEF FetchInv, StartedInv, None
  <2>3. \A x \in Streams : entries[x] = owner[f] => entries'[x] = entries[x]
    BY <1>1, <2>2 DEF StartFetch, EntryOf, TypeOK
  <2> QED BY <1>1, <2>1, <2>3 DEF StartFetch, TypeOK
<1>2. CASE UNCHANGED <<entryVars, fetchVars>>
  BY <1>2 DEF entryVars, fetchVars
<1> QED BY <1>1, <1>2 DEF StartLocked

(* The request that waits is given the fetch its entry has in flight. *)
LEMMA StartAwaits ==
    ASSUME TypeOK, FetchInv, NEW s \in Streams, StartLocked(s)
    PROVE  LET f == inFlight'[entries'[s]]
           IN  f \in 1..started' /\ entries'[s] = owner'[f]
<1>1. CASE ~Running(s) /\ StartFetch(s)
  <2>1. started + 1 \in Fetches /\ EntryOf(s) \in Fetches /\ started \in Nat
    BY <1>1, EntryType DEF StartFetch, TypeOK
  <2>2. entries'[s] = EntryOf(s) /\ inFlight'[EntryOf(s)] = started + 1
    BY <1>1, <2>1 DEF StartFetch, TypeOK
  <2>3. owner'[started + 1] = EntryOf(s) /\ started' = started + 1
    BY <1>1, <2>1 DEF StartFetch, TypeOK
  <2> QED BY <2>1, <2>2, <2>3
<1>2. CASE Running(s) /\ UNCHANGED <<entryVars, fetchVars>>
  <2>1. entries[s] \in Fetches /\ inFlight[entries[s]] # None
    BY <1>2, RangeFacts DEF Running, TypeOK
  <2>2. inFlight[entries[s]] \in 1..started /\ owner[inFlight[entries[s]]] = entries[s]
    BY <2>1, RangeFacts DEF FetchInv, FlightInv, TypeOK, Fetches
  <2> QED BY <1>2, <2>2 DEF entryVars, fetchVars
<1> QED BY <1>1, <1>2 DEF StartLocked

(* Every step keeps it. *)
LEMMA StepWaitInv == TypeOK /\ FetchInv /\ WaitInv /\ [Next]_vars => WaitInv'
<1> SUFFICES ASSUME TypeOK, FetchInv, WaitInv, [Next]_vars PROVE WaitInv'
  OBVIOUS
<1> USE DEF listVars, entryVars, fetchVars, warmVars, requestVars
<1> DEFINE Waiting == {"waiting", "signalled", "gaveUp"}
<1>1. ASSUME UNCHANGED <<entries, gone, started, owner, awaited>>,
             \A r \in Requests : pc'[r] \in Waiting => pc[r] \in Waiting,
             \A r \in Requests : pc'[r] = "signalled" => phase'[awaited[r]] = "done"
      PROVE  WaitInv'
  BY <1>1 DEF WaitInv
<1>2. ASSUME NEW f \in Fetches, FetchReturns(f) \/ StoreResult(f) \/ CloseDone(f)
      PROVE  WaitInv'
  <2>1. \A g \in Fetches : phase[g] = "done" => phase'[g] = "done"
    BY <1>2 DEF FetchReturns, StoreResult, CloseDone, ResultStored, TypeOK
  <2>2. \A r \in Requests : pc[r] = "signalled" => awaited[r] \in Fetches
    BY BoundsAssumption DEF WaitInv, TypeOK, Fetches
  <2>3. \A r \in Requests : pc'[r] = "signalled" => phase'[awaited[r]] = "done"
    BY <1>2, <2>1, <2>2 DEF WaitInv, FetchReturns, StoreResult, CloseDone
  <2> QED BY <1>2, <1>1, <2>3 DEF FetchReturns, StoreResult, CloseDone
<1>3. CASE Tick
  BY <1>3, <1>1 DEF Tick, WaitInv
<1>4. ASSUME NEW r \in Requests, Arrive(r) PROVE WaitInv'
  <2>1. UNCHANGED <<entries, gone, started, owner, awaited, phase>>
    BY <1>4 DEF Arrive
  <2>2. \A q \in Requests : pc'[q] \in Waiting => pc'[q] = pc[q]
    BY <1>4 DEF Arrive, Goes, TypeOK
  <2> QED BY <1>1, <2>1, <2>2 DEF WaitInv
<1>5. ASSUME NEW r \in Requests, Request(r) PROVE WaitInv'
  <2>1. CASE GetStarts(r)
    <3> SUFFICES ASSUME NEW q \in Requests
                 PROVE  /\ pc'[q] \in Waiting =>
                              /\ awaited'[q] \in 1..started'
                              /\ gone'[Asks[q]] < awaited'[q] =>
                                    entries'[Asks[q]] = owner'[awaited'[q]]
                        /\ pc'[q] = "signalled" => phase'[awaited'[q]] = "done"
      BY DEF WaitInv
    <3>1. StartLocked(Asks[r]) /\ Asks[r] \in Streams /\ Asks[q] \in Streams /\ gone' = gone
      BY <2>1, ListsAssumption DEF GetStarts
    <3>2. CASE q = r
      <4>1. pc'[r] = "waiting" /\ awaited'[r] = inFlight'[entries'[Asks[r]]]
        BY <2>1 DEF GetStarts, Goes, TypeOK
      <4> QED BY <3>1, <3>2, <4>1, StartAwaits
    <3>3. CASE q # r
      <4>1. pc'[q] = pc[q] /\ awaited'[q] = awaited[q]
        BY <2>1, <3>3 DEF GetStarts, Goes, TypeOK
      <4>2. CASE pc[q] \in Waiting
        <5>1. /\ awaited[q] \in 1..started
              /\ gone[Asks[q]] < awaited[q] => entries[Asks[q]] = owner[awaited[q]]
              /\ pc[q] = "signalled" => phase[awaited[q]] = "done"
          BY <4>2 DEF WaitInv
        <5> QED BY <3>1, <4>1, <5>1, StartKeeps
      <4>3. CASE pc[q] \notin Waiting
        BY <4>1, <4>3
      <4> QED BY <4>2, <4>3
    <3> QED BY <3>2, <3>3
  <2>2. CASE ~GetStarts(r)
    <3>1. UNCHANGED <<entries, gone, started, owner, awaited, phase>>
      BY <1>5, <2>2 DEF Request, Allows, GetFresh, Signalled, GiveUp, Answer
    <3>2. \A q \in Requests : pc'[q] \in Waiting => pc[q] \in Waiting
      BY <1>5, <2>2 DEF Request, Allows, GetFresh, Signalled, GiveUp, Answer, Goes, TypeOK
    <3>3. \A q \in Requests : pc'[q] = "signalled" =>
             pc[q] = "signalled" \/ phase[awaited[q]] = "done"
      BY <1>5, <2>2 DEF Request, Allows, GetFresh, Signalled, GiveUp, Answer, Goes, TypeOK
    <3> QED BY <1>1, <3>1, <3>2, <3>3 DEF WaitInv
  <2> QED BY <2>1, <2>2
<1>6. ASSUME NEW list \in Lists, SetStreams(list) PROVE WaitInv'
  <2> SUFFICES ASSUME NEW q \in Requests
               PROVE  /\ pc[q] \in Waiting =>
                            /\ awaited[q] \in 1..started
                            /\ gone'[Asks[q]] < awaited[q] =>
                                  entries'[Asks[q]] = owner[awaited[q]]
                      /\ pc[q] = "signalled" => phase[awaited[q]] = "done"
    BY <1>6 DEF SetStreams, WaitInv
  <2>1. Asks[q] \in Streams /\ started \in Nat
    BY ListsAssumption DEF TypeOK
  <2>2. CASE Asks[q] \in list.names
    BY <1>6, <2>1, <2>2 DEF SetStreams, EntriesOf, WaitInv
  <2>3. CASE Asks[q] \notin list.names
    <3>1. gone'[Asks[q]] = started
      BY <1>6, <2>1, <2>3 DEF SetStreams
    <3> QED BY <2>1, <3>1 DEF WaitInv
  <2> QED BY <2>2, <2>3
<1>7. CASE Warm
  BY <1>7, <1>1 DEF Warm, WaitInv
<1>8. ASSUME NEW s \in Streams, WarmNext(s) PROVE WaitInv'
  <2> SUFFICES ASSUME NEW q \in Requests, pc[q] \in Waiting
               PROVE  /\ awaited[q] \in 1..started'
                      /\ gone[Asks[q]] < awaited[q] => entries'[Asks[q]] = owner'[awaited[q]]
                      /\ pc[q] = "signalled" => phase'[awaited[q]] = "done"
    BY <1>8 DEF WarmNext, WaitInv
  <2>1. /\ awaited[q] \in 1..started
        /\ gone[Asks[q]] < awaited[q] => entries[Asks[q]] = owner[awaited[q]]
        /\ pc[q] = "signalled" => phase[awaited[q]] = "done"
    BY DEF WaitInv
  <2> QED BY <1>8, <2>1, StartKeeps, ListsAssumption DEF WarmNext
<1>9. CASE UNCHANGED vars
  BY <1>9, <1>1 DEF vars, WaitInv
<1> QED BY <1>2, <1>3, <1>4, <1>5, <1>6, <1>7, <1>8, <1>9 DEF Next, Warming

(* Whoever waited for a fetch that brought an image is given one, unless   *)
(* the stream was removed or the image grew too old.                       *)
THEOREM GoodFetchServes == Spec => WaitersServed
<1>1. TypeOK /\ FetchInv /\ WaitInv /\ [Next]_vars =>
        [\A r \in Requests :
            (pc[r] = "signalled" /\ pc'[r] = "failed" /\ awaited[r] \in got) =>
               \/ gone[Asks[r]] >= awaited[r]
               \/ age[entries[Asks[r]]] > StaleFor]_vars
  <2> SUFFICES ASSUME TypeOK, FetchInv, WaitInv, [Next]_vars, NEW r \in Requests,
                      pc[r] = "signalled", pc'[r] = "failed", awaited[r] \in got,
                      ~(gone[Asks[r]] >= awaited[r])
               PROVE  age[entries[Asks[r]]] > StaleFor
    OBVIOUS
  <2> DEFINE f == awaited[r]
             e == entries[Asks[r]]
  <2>1. f \in Fetches /\ e = owner[f] /\ phase[f] = "done"
    <3>1. /\ f \in 1..started /\ phase[f] = "done"
          /\ gone[Asks[r]] < f => e = owner[f]
      BY DEF WaitInv
    <3>2. gone[Asks[r]] \in Nat /\ started \in 0..MaxFetches
      BY ListsAssumption DEF TypeOK
    <3>3. gone[Asks[r]] < f
      BY <3>1, <3>2
    <3>4. f \in Fetches
      BY <3>1, <3>2, BoundsAssumption DEF Fetches
    <3> QED BY <3>1, <3>3, <3>4
  <2>2. e # None /\ e \in Fetches /\ frame[e] # None
    <3>1. frame[owner[f]] # None
      BY <2>1 DEF FetchInv, FrameInv
    <3>2. f <= started
      BY <2>1 DEF FetchInv, StartedInv, TypeOK, Fetches
    <3>3. owner[f] \in 1..f
      BY <2>1, <3>2 DEF FetchInv, StartedInv
    <3> QED BY <2>1, <3>1, <3>3, BoundsAssumption DEF Fetches, None
  <2>3. ~Servable(Asks[r])
    <3>1. ASSUME NEW q \in Requests, Arrive(q) \/ Request(q)
          PROVE  q = r /\ Answer(r) /\ ~Servable(Asks[r])
      BY <3>1 DEF Arrive, Request, Allows, GetFresh, GetStarts, Signalled, GiveUp, Answer,
         Goes, TypeOK
    <3>2. ASSUME UNCHANGED pc PROVE FALSE
      BY <3>2
    <3> QED BY <3>1, <3>2 DEF Next, FetchReturns, StoreResult, CloseDone, SetStreams, Warm,
            Warming, WarmNext, Tick, vars, requestVars
  <2> QED BY <2>2, <2>3, BoundsAssumption DEF Servable, TypeOK
<1>2. TypeOK /\ FetchInv /\ WaitInv /\ [Next]_vars => WaitInv'
  BY StepWaitInv
<1> QED BY <1>1, <1>2, InitWaitInv, TypeCorrect, FetchesAccounted, PTL DEF Spec, WaitersServed
=============================================================================

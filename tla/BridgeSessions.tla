--------------------------- MODULE BridgeSessions ---------------------------
(***************************************************************************)
(* The per-camera TCP bridge of internal/bridge/bridge.go: Serve accepts   *)
(* local clients, handle claims a session slot and dials a relay session   *)
(* for each of them, pipe carries the stream, Close and the outer context  *)
(* shut the bridge down.  Sessions of one bridge share the slot counter,   *)
(* the set of tracked connections, the relay's last refusal and the probe, *)
(* the channel of capacity one that lets a single session at a time ask    *)
(* the relay again after a cooldown.                                       *)
(*                                                                         *)
(* Time is abstracted to what the code compares.  Refusals are numbered in *)
(* the order noteRefusal stores them, so the number stands for refusedAt;  *)
(* every cooldown has the same length, so cooldowns end in that order too  *)
(* and "expired" is the number of refusals whose cooldown is over.         *)
(***************************************************************************)
EXTENDS Integers, FiniteSets

CONSTANTS
    Conns,        \* client connections; each connects at most once
    NoConn,       \* the probe channel is empty
    MaxSessions,  \* Config.MaxSessions; 0 stands for "no cap"
    DialRetries,  \* extra attempts after the first
    UseCooldown,  \* RefusalCooldown > 0
    UseBudget,    \* DialBudget > 0
    UseIdle,      \* IdleTimeout > 0
    OwnerCloses,  \* the bridge's owner calls Close of its own accord
    ContextEnds,  \* the bridge's owner may cancel its context
    PriorRefusals,\* refusals to sessions that ended before the behaviour
    MaxRefusals   \* bound on the refusals the relay gives in one behaviour

ASSUME ConnsAssumption == IsFiniteSet(Conns) /\ NoConn \notin Conns
ASSUME ConfigAssumption ==
    /\ MaxSessions \in Nat
    /\ DialRetries \in Nat
    /\ PriorRefusals \in Nat
    /\ MaxRefusals \in Nat
    /\ UseCooldown \in BOOLEAN
    /\ UseBudget \in BOOLEAN
    /\ UseIdle \in BOOLEAN
    /\ OwnerCloses \in BOOLEAN
    /\ ContextEnds \in BOOLEAN

VARIABLES
    serve,      \* Serve: accepting, draining (wg.Wait), returned
    ctxDone,    \* the outer context is cancelled
    closer,     \* progress of the first Close call
    toClose,    \* Close's snapshot of conns, what is left of it
    pc,         \* where the goroutine of each connection is
    active,     \* Bridge.active
    conns,      \* Bridge.conns
    dead,       \* client sockets that are closed, by either side
    cancelled,  \* dial contexts ended by a gone client or the budget
    attempt,    \* dialWithRetry's attempt
    refusals,   \* number of the last refusal: Bridge.refusedAt
    expired,    \* refusals whose cooldown has passed
    seen,       \* refusal a session read and waits out, 0 if it need not wait
    probe,      \* the session holding Bridge.probe
    outcome,    \* how the dial of a session ended
    answer,     \* number of the refusal dial returned
    relay,      \* the relay's end of a session's tunnel
    copying     \* directions pipe is still copying

bridgeVars  == <<serve, ctxDone, closer, toClose>>
slotVars    == <<active, conns>>
refusalVars == <<refusals, expired, probe>>
dialVars    == <<attempt, seen, outcome, answer, cancelled>>
pipeVars    == <<relay, copying>>
vars == <<bridgeVars, pc, slotVars, dead, refusalVars, dialVars, pipeVars>>

Directions == {"up", "down"}          \* client->relay, relay->client

(* The phases of dial; in those of dialWithRetry it holds the probe if it  *)
(* waited.                                                                 *)
Asking     == {"connecting", "asking", "backoff"}
Held       == {"waiting", "queued", "probed"}
Dialling   == {"tracked", "checking"} \cup Held \cup Asking
Tracked    == Dialling \cup {"open", "piping", "ending"}
SlotPhases == Tracked \cup {"reserved", "untracked"}
Phases     == SlotPhases \cup {"new", "accepted", "done"}

TypeOK ==
    /\ serve \in {"accepting", "draining", "returned"}
    /\ ctxDone \in BOOLEAN
    /\ closer \in {"idle", "marked", "closing", "done"}
    /\ toClose \subseteq Conns
    /\ pc \in [Conns -> Phases]
    /\ active \in Int
    /\ conns \subseteq Conns
    /\ dead \subseteq Conns
    /\ cancelled \subseteq Conns
    /\ attempt \in [Conns -> 0..DialRetries]
    /\ refusals \in Nat
    /\ expired \in Nat
    /\ seen \in [Conns -> Nat]
    /\ probe \in Conns \cup {NoConn}
    /\ outcome \in [Conns -> {"none", "open", "failed", "refused", "shared"}]
    /\ answer \in [Conns -> Nat]
    /\ relay \in [Conns -> {"none", "up", "silent", "closed"}]
    /\ copying \in [Conns -> SUBSET Directions]

Init ==
    /\ serve = "accepting" /\ ctxDone = FALSE
    /\ closer = "idle" /\ toClose = {}
    /\ pc = [c \in Conns |-> "new"]
    /\ active = 0 /\ conns = {} /\ dead = {} /\ cancelled = {}
    /\ attempt = [c \in Conns |-> 0]
    /\ refusals = PriorRefusals /\ expired = 0
    /\ seen = [c \in Conns |-> 0]
    /\ probe = NoConn
    /\ outcome = [c \in Conns |-> "none"]
    /\ answer = [c \in Conns |-> 0]
    /\ relay = [c \in Conns |-> "none"]
    /\ copying = [c \in Conns |-> {}]

Goto(c, phase) == pc' = [pc EXCEPT ![c] = phase]

---------------------------------------------------------------------------
(* Serve: the accept loop, its drain, and the goroutine watching ctx.      *)

ListenerOpen == closer \in {"idle", "marked"}

Accept(c) ==
    /\ serve = "accepting" /\ ListenerOpen
    /\ pc[c] = "new"
    /\ Goto(c, "accepted")
    /\ UNCHANGED <<bridgeVars, slotVars, dead, refusalVars, dialVars, pipeVars>>

(* The listener was closed, or accept itself failed; either way the watch  *)
(* of ctx is dismissed and Serve waits for its handlers.                   *)
AcceptFails ==
    /\ serve = "accepting"
    /\ serve' = "draining"
    /\ UNCHANGED <<ctxDone, closer, toClose, pc, slotVars, dead, refusalVars,
                   dialVars, pipeVars>>

Handled(c) == pc[c] \notin {"new", "done"}

(* Faulty variant: the handler itself counts up the wait group. *)
StartedHandlersDone == \A c \in Conns : Handled(c) => pc[c] = "accepted"

HandlersDone == \A c \in Conns : ~Handled(c)

ServeReturns ==
    /\ serve = "draining"
    /\ HandlersDone
    /\ serve' = "returned"
    /\ UNCHANGED <<ctxDone, closer, toClose, pc, slotVars, dead, refusalVars,
                   dialVars, pipeVars>>

CancelContext ==
    /\ ContextEnds /\ ~ctxDone
    /\ ctxDone' = TRUE
    /\ UNCHANGED <<serve, closer, toClose, pc, slotVars, dead, refusalVars,
                   dialVars, pipeVars>>

---------------------------------------------------------------------------
(* Close: one critical section marks the bridge and copies conns, then the *)
(* listener and the copied connections are closed without the lock.  Later *)
(* calls return at once, so only the first one is modelled.                *)

CloseMarks ==
    /\ closer = "idle"
    /\ closer' = "marked"
    /\ toClose' = conns
    /\ UNCHANGED <<serve, ctxDone, pc, slotVars, dead, refusalVars, dialVars,
                   pipeVars>>

(* By RestartCamera, Reload or supervise, and by Serve's watch of ctx. *)
OwnerClose     == OwnerCloses /\ CloseMarks
CloseOnContext == ctxDone /\ serve = "accepting" /\ CloseMarks

CloseListener ==
    /\ closer = "marked"
    /\ closer' = "closing"
    /\ UNCHANGED <<serve, ctxDone, toClose, pc, slotVars, dead, refusalVars,
                   dialVars, pipeVars>>

CloseConn(c) ==
    /\ closer = "closing"
    /\ c \in toClose
    /\ toClose' = toClose \ {c}
    /\ dead' = dead \cup {c}
    /\ UNCHANGED <<serve, ctxDone, closer, pc, slotVars, refusalVars, dialVars,
                   pipeVars>>

CloseDone ==
    /\ closer = "closing"
    /\ toClose = {}
    /\ closer' = "done"
    /\ UNCHANGED <<serve, ctxDone, toClose, pc, slotVars, dead, refusalVars,
                   dialVars, pipeVars>>

---------------------------------------------------------------------------
(* handle, before the dial.                                                *)

(* Faulty variants: one session too many, one too few. *)
SlotFreeAtCap     == MaxSessions = 0 \/ active <= MaxSessions
SlotFreeBelowLast == MaxSessions = 0 \/ active < MaxSessions - 1

SlotFree == MaxSessions = 0 \/ active < MaxSessions

ReserveSession(c) ==
    /\ pc[c] = "accepted"
    /\ SlotFree
    /\ active' = active + 1
    /\ Goto(c, "reserved")
    /\ UNCHANGED <<bridgeVars, conns, dead, refusalVars, dialVars, pipeVars>>

RefuseClient(c) ==
    /\ pc[c] = "accepted"
    /\ ~SlotFree
    /\ dead' = dead \cup {c}
    /\ Goto(c, "done")
    /\ UNCHANGED <<bridgeVars, slotVars, refusalVars, dialVars, pipeVars>>

TrackConn(c) ==
    /\ pc[c] = "reserved"
    /\ conns' = conns \cup {c}
    /\ Goto(c, "tracked")
    /\ UNCHANGED <<bridgeVars, active, dead, refusalVars, dialVars, pipeVars>>

---------------------------------------------------------------------------
(* dial: the cooldown, the probe and the retries, under a context that the *)
(* outer context, the budget or the client's departure cancels.            *)

CancelledDial(c) == ctxDone \/ c \in cancelled

ClientWatched(c) == pc[c] \in Dialling /\ c \notin cancelled

CancelDial(c) ==
    /\ cancelled' = cancelled \cup {c}
    /\ UNCHANGED <<bridgeVars, pc, slotVars, dead, refusalVars, attempt, seen,
                   outcome, answer, pipeVars>>

ClientGone(c)   == ClientWatched(c) /\ c \in dead /\ CancelDial(c)
BudgetSpent(c)  == ClientWatched(c) /\ UseBudget /\ CancelDial(c)

(* refusalWait reads the last refusal under the lock.                      *)
ReadRefusal(c) ==
    /\ pc[c] = "tracked"
    /\ seen' = [seen EXCEPT ![c] = IF UseCooldown THEN refusals ELSE 0]
    /\ Goto(c, "checking")
    /\ UNCHANGED <<bridgeVars, slotVars, dead, refusalVars, attempt, outcome,
                   answer, cancelled, pipeVars>>

(* It compares the clock with what it read after giving the lock up; more  *)
(* refusals may have been noted in between.                                *)
CoolingDown(c) == expired < seen[c]

RefusalWait(c) ==
    /\ pc[c] = "checking"
    /\ \/ /\ ~CoolingDown(c)
          /\ seen' = [seen EXCEPT ![c] = 0]
          /\ Goto(c, "connecting")
       \/ /\ CoolingDown(c)
          /\ Goto(c, "waiting")
          /\ UNCHANGED seen
    /\ UNCHANGED <<bridgeVars, slotVars, dead, refusalVars, attempt, outcome,
                   answer, cancelled, pipeVars>>

CooldownPasses ==
    /\ expired < refusals
    /\ expired' = expired + 1
    /\ UNCHANGED <<bridgeVars, pc, slotVars, dead, refusals, probe, dialVars,
                   pipeVars>>

WaitOver(c) ==
    /\ pc[c] = "waiting"
    /\ seen[c] <= expired
    /\ Goto(c, "queued")
    /\ UNCHANGED <<bridgeVars, slotVars, dead, refusalVars, dialVars, pipeVars>>

(* Faulty variant: the probe is a channel with room for everybody. *)
ProbeUnbounded == TRUE

ProbeFree == probe = NoConn

TakeProbe(c) ==
    /\ pc[c] = "queued"
    /\ ProbeFree
    /\ probe' = c
    /\ Goto(c, "probed")
    /\ UNCHANGED <<bridgeVars, slotVars, dead, refusals, expired, dialVars,
                   pipeVars>>

(* Faulty variant: the probe is given back only with a shared answer. *)
ReleaseProbeIfShared(c) ==
    probe' = IF probe = c /\ pc[c] = "probed" THEN NoConn ELSE probe

(* The deferred receive of dial, which every return passes through. *)
ReleaseProbe(c) == probe' = IF probe = c THEN NoConn ELSE probe

(* dial returns: an answer, and the probe if this session held it. *)
DialReturns(c, result, refusal, phase) ==
    /\ outcome' = [outcome EXCEPT ![c] = result]
    /\ answer' = [answer EXCEPT ![c] = refusal]
    /\ ReleaseProbe(c)
    /\ Goto(c, phase)

(* Faulty variants: the cooldown's end for the refusal, not After but not  *)
(* Before.                                                                 *)
CooledSince(c)       == expired > seen[c]
RefusedAtOrSince(c)  == refusals >= seen[c]

RefusedSince(c) == refusals > seen[c]

RefusalSince(c) ==
    /\ pc[c] = "probed"
    /\ \/ /\ RefusedSince(c)
          /\ DialReturns(c, "shared", refusals, "ending")
       \/ /\ ~RefusedSince(c)
          /\ Goto(c, "connecting")
          /\ UNCHANGED <<outcome, answer, probe>>
    /\ UNCHANGED <<bridgeVars, slotVars, dead, refusals, expired, attempt,
                   seen, cancelled, pipeVars>>

AbandonDial(c) ==
    /\ pc[c] \in {"waiting", "queued", "backoff"}
    /\ CancelledDial(c)
    /\ DialReturns(c, "failed", 0, "ending")
    /\ UNCHANGED <<bridgeVars, slotVars, dead, refusals, expired, attempt,
                   seen, cancelled, pipeVars>>

(* An attempt of dialWithRetry: magic.Dial first connects to the relay and *)
(* then puts the question.  Nobody looks at the last refusal any more.     *)
PutQuestion(c) ==
    /\ pc[c] = "connecting"
    /\ Goto(c, "asking")
    /\ UNCHANGED <<bridgeVars, slotVars, dead, refusalVars, dialVars, pipeVars>>

DialOpens(c) ==
    /\ pc[c] = "asking"
    /\ DialReturns(c, "open", 0, "open")
    /\ relay' = [relay EXCEPT ![c] = "up"]
    /\ UNCHANGED <<bridgeVars, slotVars, dead, refusals, expired, attempt,
                   seen, cancelled, copying>>

LastAttempt(c) == attempt[c] >= DialRetries

(* A transport fault or the dial timeout. *)
DialFails(c) ==
    /\ pc[c] \in {"connecting", "asking"}
    /\ \/ /\ CancelledDial(c) \/ LastAttempt(c)
          /\ DialReturns(c, "failed", 0, "ending")
          /\ UNCHANGED attempt
       \/ /\ ~CancelledDial(c) /\ ~LastAttempt(c)
          /\ attempt' = [attempt EXCEPT ![c] = @ + 1]
          /\ Goto(c, "backoff")
          /\ UNCHANGED <<outcome, answer, probe>>
    /\ UNCHANGED <<bridgeVars, slotVars, dead, refusals, expired, seen,
                   cancelled, pipeVars>>

(* The relay refuses; noteRefusal runs only while somebody still waits. *)
DialRefused(c) ==
    /\ pc[c] = "asking"
    /\ \/ /\ CancelledDial(c)
          /\ DialReturns(c, "failed", 0, "ending")
          /\ UNCHANGED refusals
       \/ /\ ~CancelledDial(c) /\ refusals < MaxRefusals
          /\ refusals' = refusals + 1
          /\ DialReturns(c, "refused", refusals + 1, "ending")
    /\ UNCHANGED <<bridgeVars, slotVars, dead, expired, attempt, seen,
                   cancelled, pipeVars>>

BackoffOver(c) ==
    /\ pc[c] = "backoff"
    /\ Goto(c, "connecting")
    /\ UNCHANGED <<bridgeVars, slotVars, dead, refusalVars, dialVars, pipeVars>>

---------------------------------------------------------------------------
(* handle, with the tunnel open: pending bytes, pipe, the watch of ctx.    *)

TunnelOpen(c) == relay[c] \in {"up", "silent"}

StartPipe(c) ==
    /\ pc[c] = "open"
    /\ \/ /\ copying' = [copying EXCEPT ![c] = Directions]
          /\ Goto(c, "piping")
       \/ /\ ~TunnelOpen(c)      \* the pending bytes cannot be written
          /\ Goto(c, "ending")
          /\ UNCHANGED copying
    /\ UNCHANGED <<bridgeVars, slotVars, dead, refusalVars, dialVars, relay>>

(* Faulty variant: handle does not watch the outer context. *)
ContextIgnored(c) == FALSE /\ pc[c] = "open" /\ UNCHANGED vars

ContextDropsSession(c) ==
    /\ ctxDone
    /\ pc[c] \in {"open", "piping"}
    /\ TunnelOpen(c) \/ c \notin dead
    /\ dead' = dead \cup {c}
    /\ relay' = [relay EXCEPT ![c] = "closed"]
    /\ UNCHANGED <<bridgeVars, pc, slotVars, refusalVars, dialVars, copying>>

UpEnds(c) ==
    /\ "up" \in copying[c]
    /\ c \in dead \/ ~TunnelOpen(c)
    /\ copying' = [copying EXCEPT ![c] = @ \ {"up"}]
    /\ relay' = [relay EXCEPT ![c] = "closed"]
    /\ UNCHANGED <<bridgeVars, pc, slotVars, dead, refusalVars, dialVars>>

CameraSideEnded(c) ==
    \/ relay[c] = "up" /\ c \in dead
    \/ relay[c] = "silent" /\ UseIdle
    \/ relay[c] = "closed"

(* Faulty variant: this direction does not close its destination. *)
DownEndsAlone(c) ==
    /\ "down" \in copying[c]
    /\ CameraSideEnded(c)
    /\ copying' = [copying EXCEPT ![c] = @ \ {"down"}]
    /\ UNCHANGED <<bridgeVars, pc, slotVars, dead, refusalVars, dialVars, relay>>

(* A write to the client can only fail while the camera still sends. *)
DownEnds(c) ==
    /\ "down" \in copying[c]
    /\ CameraSideEnded(c)
    /\ copying' = [copying EXCEPT ![c] = @ \ {"down"}]
    /\ dead' = dead \cup {c}
    /\ UNCHANGED <<bridgeVars, pc, slotVars, refusalVars, dialVars, relay>>

PipeEnds(c) ==
    /\ pc[c] = "piping"
    /\ copying[c] = {}
    /\ Goto(c, "ending")
    /\ UNCHANGED <<bridgeVars, slotVars, dead, refusalVars, dialVars, pipeVars>>

(* The deferred calls of handle: both sockets are closed and the           *)
(* connection forgotten, then the slot is given back.                      *)
UntrackConn(c) ==
    /\ pc[c] = "ending"
    /\ relay' = [relay EXCEPT ![c] = IF @ = "none" THEN @ ELSE "closed"]
    /\ dead' = dead \cup {c}
    /\ conns' = conns \ {c}
    /\ Goto(c, "untracked")
    /\ UNCHANGED <<bridgeVars, active, refusalVars, dialVars, copying>>

ReleaseSlot(c) ==
    /\ pc[c] = "untracked"
    /\ active' = active - 1
    /\ Goto(c, "done")
    /\ UNCHANGED <<bridgeVars, conns, dead, refusalVars, dialVars, pipeVars>>

---------------------------------------------------------------------------
(* The far ends: a client that leaves, a relay that closes the tunnel or   *)
(* stops sending without closing it.                                       *)

ClientHangsUp(c) ==
    /\ Handled(c) /\ c \notin dead
    /\ dead' = dead \cup {c}
    /\ UNCHANGED <<bridgeVars, pc, slotVars, refusalVars, dialVars, pipeVars>>

RelayStops(c) ==
    /\ pc[c] \in {"open", "piping"} /\ TunnelOpen(c)
    /\ \E state \in {"silent", "closed"} :
          /\ relay[c] # state
          /\ relay' = [relay EXCEPT ![c] = state]
    /\ UNCHANGED <<bridgeVars, pc, slotVars, dead, refusalVars, dialVars, copying>>

---------------------------------------------------------------------------
Session(c) ==
    \/ ReserveSession(c) \/ RefuseClient(c) \/ TrackConn(c)
    \/ ReadRefusal(c) \/ RefusalWait(c) \/ WaitOver(c) \/ TakeProbe(c)
    \/ RefusalSince(c) \/ AbandonDial(c)
    \/ PutQuestion(c) \/ DialOpens(c) \/ DialFails(c) \/ DialRefused(c) \/ BackoffOver(c)
    \/ StartPipe(c) \/ UpEnds(c) \/ DownEnds(c) \/ PipeEnds(c)
    \/ UntrackConn(c) \/ ReleaseSlot(c)

Watchers(c) == ClientGone(c) \/ ContextDropsSession(c)

Environment(c) ==
    Accept(c) \/ BudgetSpent(c) \/ ClientHangsUp(c) \/ RelayStops(c)

Closing == CloseListener \/ (\E c \in Conns : CloseConn(c)) \/ CloseDone

Next ==
    \/ \E c \in Conns : Session(c) \/ Watchers(c) \/ Environment(c)
    \/ AcceptFails \/ ServeReturns \/ CancelContext
    \/ OwnerClose \/ CloseOnContext \/ Closing \/ CooldownPasses

Spec == Init /\ [][Next]_vars

(* Goroutines are scheduled, timers fire and a dial attempt answers within *)
(* its timeout.  Nothing is assumed of clients, of the camera, of the      *)
(* callers of Close and of the budget.                                     *)
Fairness ==
    /\ \A c \in Conns : WF_vars(Session(c) \/ Watchers(c))
    /\ WF_vars(CooldownPasses)
    /\ WF_vars(CloseOnContext \/ Closing)
    /\ WF_vars((~ListenerOpen /\ AcceptFails) \/ ServeReturns)

FairSpec == Spec /\ Fairness

---------------------------------------------------------------------------
(* Safety.                                                                 *)

(* Every slot the counter holds belongs to a session between its           *)
(* reservation and its deferred decrement, and the cap of reserveSession   *)
(* is never exceeded, whatever sessions start and end together.            *)
SlotHolders == {c \in Conns : pc[c] \in SlotPhases}
SlotAccounting ==
    /\ active = Cardinality(SlotHolders)
    /\ MaxSessions # 0 => active <= MaxSessions

(* Serve returns only over a bridge that has let go of everything: no      *)
(* tracked connection, no slot, no probe, no open client, no open tunnel.  *)
ServeReturnsClean ==
    serve = "returned" =>
        /\ active = 0 /\ conns = {} /\ probe = NoConn
        /\ \A c \in Conns :
              /\ copying[c] = {} /\ ~TunnelOpen(c)
              /\ pc[c] # "new" => c \in dead

(* Of the sessions that waited out the same refusal at most one gets a     *)
(* refusal of its own from the relay: the comment in dial (One of them     *)
(* asks, the others wait for its answer), over probe and refusalSince.     *)
OneRefusalPerCooldown ==
    \A c, d \in Conns :
        (/\ seen[c] # 0 /\ seen[c] = seen[d]
         /\ outcome[c] = "refused" /\ outcome[d] = "refused") => c = d

(* A session that is told the relay refused it while it waited was waiting *)
(* when that happened: the answer is newer than the refusal it had seen,   *)
(* and the relay gave it to another session's own question.                *)
SharedAnswerIsAnothers ==
    \A c \in Conns : outcome[c] = "shared" =>
        /\ answer[c] > seen[c]
        /\ \E d \in Conns \ {c} : outcome[d] = "refused" /\ answer[d] = answer[c]

(* Close's own comment: it tears down the listener and all live client     *)
(* connections.                                                            *)
CloseTearsDownClients == closer = "done" => conns \subseteq dead

(* What handle and Serve promise the clients: the bounded pool of          *)
(* SessionPool, a client being inside from reserveSession to the deferred  *)
(* decrement of handle.                                                    *)
poolPhase ==
    [c \in Conns |-> IF pc[c] \in SlotPhases THEN "inside"
                     ELSE IF pc[c] = "done" THEN "gone" ELSE "outside"]
Pool == INSTANCE SessionPool
            WITH Clients <- Conns, phase <- poolPhase, shut <- serve = "returned"
PoolSpec == Pool!Spec

(* Where a session stands with its question to the relay, and who asks in  *)
(* the place of those that were held.                                      *)
gateStanding ==
    [c \in Conns |-> IF outcome[c] # "none" THEN "answered"
                     ELSE IF pc[c] = "checking" THEN "called"
                     ELSE IF pc[c] \in Held THEN "held"
                     ELSE IF pc[c] \in Asking THEN "through" ELSE "out"]
gateSpeaker == IF \E c \in Conns : probe = c /\ pc[c] \in Asking THEN probe ELSE NoConn

(* What dial promises the relay after a refusal, the gate of RefusalGate:  *)
(* a session whose last known refusal is cooling is held until that        *)
(* cooldown is over, those held go through one at a time, and one that     *)
(* finds a newer refusal takes it for its answer.  It is less than the     *)
(* comment at bridge.go:522 says: a session that is through asks, and asks *)
(* again, whoever has been refused meanwhile.                              *)
Gate == INSTANCE RefusalGate WITH
    Callers <- Conns, Nobody <- NoConn, Gated <- UseCooldown, Earlier <- PriorRefusals,
    standing <- gateStanding, since <- seen, heard <- answer, speaker <- gateSpeaker,
    refused <- refusals, cooled <- expired
GateSpec == Gate!Spec

(* Liveness.  A phase that is never left is one the system is in for good, *)
(* and what happened to a client, its relay or the context stays so:       *)
(* []<> says here that each of them is followed by what it has to lead to. *)

(* A session whose client is gone, or whose relay closed its socket or     *)
(* stopped sending without closing it, gives its slot back, in whatever    *)
(* phase of the dial or of the stream that happened (handle's comment on   *)
(* dialling for a peer that had already left, pipe's on the idle timeout). *)
LostPeerFreesSlot ==
    \A c \in Conns : []<>(c \in dead \/ relay[c] \in {"silent", "closed"} => pc[c] = "done")

(* A dial ends, by an answer, by its retries running out or by another     *)
(* session's answer: no waiter is stuck behind the probe.                  *)
DialEnds == \A c \in Conns : []<>(pc[c] \notin Dialling)

(* Cancelling the outer context ends every session and Serve, also the     *)
(* sessions Close did not find among the tracked ones.                     *)
ShutdownDrains == []<>(ctxDone => serve = "returned")

=============================================================================

------------------------ MODULE BridgeSessionsProofs ------------------------
(***************************************************************************)
(* Theorems about BridgeSessions, for every set of connections and every   *)
(* configuration.  The invariants are proved one on top of the other: the  *)
(* types, the slot counter, and the bookkeeping of refusals and the probe. *)
(***************************************************************************)
EXTENDS BridgeSessions, FiniteSetTheorems, TLAPS

USE ConnsAssumption, ConfigAssumption

(* The bridge NewServer builds is of the declared types.                   *)
LEMMA InitTypeOK == Init => TypeOK
<1> SUFFICES ASSUME Init PROVE TypeOK
  OBVIOUS
<1> USE DEF Init
<1>1. ctxDone \in BOOLEAN
  OBVIOUS
<1> HIDE DEF Init
<1>2. serve = "accepting" /\ closer = "idle" /\ toClose = {} /\ active = 0
      /\ conns = {} /\ dead = {} /\ cancelled = {}
  BY DEF Init
<1>3. pc \in [Conns -> Phases]
  BY DEF Init, Phases, SlotPhases, Tracked, Dialling, Held, Asking
<1>4. refusals \in Nat /\ expired \in Nat /\ probe \in Conns \cup {NoConn}
  BY DEF Init
<1>5. attempt \in [Conns -> 0..DialRetries] /\ seen \in [Conns -> Nat] /\ answer \in [Conns -> Nat]
  BY DEF Init
<1>6. /\ outcome \in [Conns -> {"none", "open", "failed", "refused", "shared"}]
      /\ relay \in [Conns -> {"none", "up", "silent", "closed"}]
      /\ copying \in [Conns -> SUBSET Directions]
  BY DEF Init, Directions
<1> QED BY <1>1, <1>2, <1>3, <1>4, <1>5, <1>6 DEF TypeOK

(* Every step of the bridge keeps the declared types.                      *)
LEMMA StepTypeOK == TypeOK /\ [Next]_vars => TypeOK'
<1> SUFFICES ASSUME TypeOK, [Next]_vars PROVE TypeOK'
  OBVIOUS
<1> USE DEF TypeOK, Phases, SlotPhases, Tracked, Dialling, Held, Asking, Directions, Goto, bridgeVars, slotVars, refusalVars, dialVars, pipeVars
<1>1. ASSUME NEW c \in Conns, Session(c) PROVE TypeOK'
  <2>1. CASE ReserveSession(c) BY <2>1 DEF ReserveSession
  <2>2. CASE RefuseClient(c) BY <2>2 DEF RefuseClient
  <2>3. CASE TrackConn(c) BY <2>3 DEF TrackConn
  <2>4. CASE RefusalWait(c) BY <2>4 DEF RefusalWait
  <2>19. CASE ReadRefusal(c) BY <2>19 DEF ReadRefusal
  <2>20. CASE PutQuestion(c) BY <2>20 DEF PutQuestion
  <2>5. CASE WaitOver(c) BY <2>5 DEF WaitOver
  <2>6. CASE TakeProbe(c) BY <2>6 DEF TakeProbe, ProbeFree
  <2>7. CASE RefusalSince(c) BY <2>7 DEF RefusalSince, DialReturns, ReleaseProbe
  <2>8. CASE AbandonDial(c) BY <2>8 DEF AbandonDial, DialReturns, ReleaseProbe
  <2>9. CASE DialOpens(c) BY <2>9 DEF DialOpens, DialReturns, ReleaseProbe
  <2>10. CASE DialFails(c) BY <2>10 DEF DialFails, LastAttempt, DialReturns, ReleaseProbe
  <2>11. CASE DialRefused(c) BY <2>11 DEF DialRefused, DialReturns, ReleaseProbe
  <2>12. CASE BackoffOver(c) BY <2>12 DEF BackoffOver
  <2>13. CASE StartPipe(c) BY <2>13 DEF StartPipe
  <2>14. CASE UpEnds(c) BY <2>14 DEF UpEnds
  <2>15. CASE DownEnds(c) BY <2>15 DEF DownEnds
  <2>16. CASE PipeEnds(c) BY <2>16 DEF PipeEnds
  <2>17. CASE UntrackConn(c) BY <2>17 DEF UntrackConn
  <2>18. CASE ReleaseSlot(c) BY <2>18 DEF ReleaseSlot
  <2> QED BY <1>1, <2>1, <2>2, <2>3, <2>4, <2>5, <2>6, <2>7, <2>8, <2>9, <2>10, <2>11, <2>12, <2>13, <2>14, <2>15, <2>16, <2>17, <2>18, <2>19, <2>20 DEF Session
<1>2. ASSUME NEW c \in Conns, Watchers(c) \/ Environment(c) PROVE TypeOK'
  <2>1. CASE Accept(c) BY <2>1 DEF Accept
  <2>2. CASE BudgetSpent(c) BY <2>2 DEF BudgetSpent, CancelDial
  <2>3. CASE ClientHangsUp(c) BY <2>3 DEF ClientHangsUp
  <2>4. CASE RelayStops(c) BY <2>4 DEF RelayStops
  <2>5. CASE ClientGone(c) BY <2>5 DEF ClientGone, CancelDial
  <2>6. CASE ContextDropsSession(c) BY <2>6 DEF ContextDropsSession
  <2> QED BY <1>2, <2>1, <2>2, <2>3, <2>4, <2>5, <2>6 DEF Watchers, Environment
<1>3. ASSUME NEW c \in Conns, CloseConn(c) PROVE TypeOK'
  BY <1>3 DEF CloseConn
<1>4. CASE AcceptFails BY <1>4 DEF AcceptFails
<1>5. CASE ServeReturns BY <1>5 DEF ServeReturns, HandlersDone
<1>6. CASE CancelContext BY <1>6 DEF CancelContext
<1>7. CASE CloseMarks BY <1>7 DEF CloseMarks
<1>8. CASE CloseListener BY <1>8 DEF CloseListener
<1>9. CASE CloseDone BY <1>9 DEF CloseDone
<1>10. CASE CooldownPasses BY <1>10 DEF CooldownPasses
<1>11. CASE UNCHANGED vars BY <1>11 DEF vars
<1> QED BY <1>1, <1>2, <1>3, <1>4, <1>5, <1>6, <1>7, <1>8, <1>9, <1>10, <1>11 DEF Next, Closing, OwnerClose, CloseOnContext

(* Every state the bridge reaches is of the declared types. *)
THEOREM TypeCorrect == Spec => []TypeOK
BY InitTypeOK, StepTypeOK, PTL DEF Spec

---------------------------------------------------------------------------
(* The slot counter.                                                       *)

(* There are finitely many sessions with a slot.                           *)
LEMMA HoldersFinite == IsFiniteSet(SlotHolders) /\ Cardinality(SlotHolders) \in Nat
<1>1. SlotHolders \subseteq Conns
  BY DEF SlotHolders
<1> QED BY <1>1, FS_Subset, FS_CardinalityType

(* A session that is given a slot is one more holder.                      *)
LEMMA AddHolder ==
    ASSUME NEW c, c \notin SlotHolders
    PROVE  Cardinality(SlotHolders \cup {c}) = Cardinality(SlotHolders) + 1
BY HoldersFinite, FS_AddElement

(* A session that gives its slot back is one holder less.                  *)
LEMMA RemoveHolder ==
    ASSUME NEW c \in SlotHolders
    PROVE  Cardinality(SlotHolders \ {c}) = Cardinality(SlotHolders) - 1
BY HoldersFinite, FS_RemoveElement

(* A new bridge has no session and counts none.                            *)
LEMMA InitSlotAccounting == Init => SlotAccounting
<1> SUFFICES ASSUME Init PROVE SlotAccounting
  OBVIOUS
<1>1. SlotHolders = {}
  BY DEF Init, SlotHolders, SlotPhases, Tracked, Dialling, Held, Asking
<1> QED BY <1>1, FS_EmptySet DEF Init, SlotAccounting

(* Only reserveSession and handle's deferred decrement change who holds a *)
(* slot; each changes the counter by the same one.                         *)
LEMMA StepSlotAccounting ==
    TypeOK /\ SlotAccounting /\ [Next]_vars => SlotAccounting'
<1> DEFINE Unmoved == active' = active /\ SlotHolders' = SlotHolders
<1> SUFFICES ASSUME TypeOK, SlotAccounting, [Next]_vars PROVE SlotAccounting'
  OBVIOUS
<1>0. ASSUME Unmoved PROVE SlotAccounting'
  BY <1>0 DEF SlotAccounting
<1> USE DEF TypeOK, Goto, bridgeVars, slotVars, SlotHolders, SlotPhases, Tracked,
            Dialling, Held, Asking
<1>1. ASSUME NEW c \in Conns, Session(c) PROVE SlotAccounting'
  <2>1. CASE ReserveSession(c)
    <3>1. SlotHolders' = SlotHolders \cup {c} /\ c \notin SlotHolders
      BY <2>1 DEF ReserveSession, SlotHolders, SlotPhases, Tracked, Dialling,
               Held, Asking
    <3>2. Cardinality(SlotHolders') = Cardinality(SlotHolders) + 1
      BY <3>1, AddHolder
    <3> QED BY <2>1, <3>2 DEF ReserveSession, SlotFree, SlotAccounting
  <2>2. CASE RefuseClient(c) BY <1>0, <2>2 DEF RefuseClient
  <2>3. CASE TrackConn(c) BY <1>0, <2>3 DEF TrackConn
  <2>4. CASE RefusalWait(c) BY <1>0, <2>4 DEF RefusalWait
  <2>19. CASE ReadRefusal(c) BY <1>0, <2>19 DEF ReadRefusal
  <2>20. CASE PutQuestion(c) BY <1>0, <2>20 DEF PutQuestion
  <2>5. CASE WaitOver(c) BY <1>0, <2>5 DEF WaitOver
  <2>6. CASE TakeProbe(c) BY <1>0, <2>6 DEF TakeProbe
  <2>7. CASE RefusalSince(c)
    BY <1>0, <2>7 DEF RefusalSince, DialReturns, ReleaseProbe
  <2>8. CASE AbandonDial(c) BY <1>0, <2>8 DEF AbandonDial, DialReturns, ReleaseProbe
  <2>9. CASE DialOpens(c) BY <1>0, <2>9 DEF DialOpens, DialReturns, ReleaseProbe
  <2>10. CASE DialFails(c) BY <1>0, <2>10 DEF DialFails, LastAttempt, DialReturns, ReleaseProbe
  <2>11. CASE DialRefused(c)
    BY <1>0, <2>11 DEF DialRefused, DialReturns, ReleaseProbe
  <2>12. CASE BackoffOver(c) BY <1>0, <2>12 DEF BackoffOver
  <2>13. CASE StartPipe(c) BY <1>0, <2>13 DEF StartPipe
  <2>14. CASE UpEnds(c) BY <1>0, <2>14 DEF UpEnds
  <2>15. CASE DownEnds(c) BY <1>0, <2>15 DEF DownEnds
  <2>16. CASE PipeEnds(c) BY <1>0, <2>16 DEF PipeEnds
  <2>17. CASE UntrackConn(c) BY <1>0, <2>17 DEF UntrackConn
  <2>18. CASE ReleaseSlot(c)
    <3>1. SlotHolders' = SlotHolders \ {c} /\ c \in SlotHolders
      BY <2>18 DEF ReleaseSlot, SlotHolders, SlotPhases, Tracked, Dialling,
               Held, Asking
    <3>2. Cardinality(SlotHolders') = Cardinality(SlotHolders) - 1
      BY <3>1, RemoveHolder
    <3> QED BY <2>18, <3>2 DEF ReleaseSlot, SlotAccounting
  <2> QED BY <1>1, <2>1, <2>2, <2>3, <2>4, <2>5, <2>6, <2>7, <2>8, <2>9, <2>10,
           <2>11, <2>12, <2>13, <2>14, <2>15, <2>16, <2>17, <2>18, <2>19, <2>20 DEF Session
<1>2. ASSUME NEW c \in Conns, Watchers(c) \/ Environment(c) PROVE SlotAccounting'
  <2>1. CASE Accept(c) BY <1>0, <2>1 DEF Accept
  <2>2. CASE BudgetSpent(c) BY <1>0, <2>2 DEF BudgetSpent, CancelDial
  <2>3. CASE ClientHangsUp(c) BY <1>0, <2>3 DEF ClientHangsUp
  <2>4. CASE RelayStops(c) BY <1>0, <2>4 DEF RelayStops
  <2>5. CASE ClientGone(c) BY <1>0, <2>5 DEF ClientGone, CancelDial
  <2>6. CASE ContextDropsSession(c) BY <1>0, <2>6 DEF ContextDropsSession
  <2> QED BY <1>2, <2>1, <2>2, <2>3, <2>4, <2>5, <2>6 DEF Watchers, Environment
<1>3. ASSUME NEW c \in Conns, CloseConn(c) PROVE SlotAccounting'
  BY <1>0, <1>3 DEF CloseConn
<1>4. CASE AcceptFails BY <1>0, <1>4 DEF AcceptFails
<1>5. CASE ServeReturns BY <1>0, <1>5 DEF ServeReturns, HandlersDone
<1>6. CASE CancelContext BY <1>0, <1>6 DEF CancelContext
<1>7. CASE CloseMarks BY <1>0, <1>7 DEF CloseMarks
<1>8. CASE CloseListener BY <1>0, <1>8 DEF CloseListener
<1>9. CASE CloseDone BY <1>0, <1>9 DEF CloseDone
<1>10. CASE CooldownPasses BY <1>0, <1>10 DEF CooldownPasses
<1>11. CASE UNCHANGED vars BY <1>0, <1>11 DEF vars
<1> QED BY <1>1, <1>2, <1>3, <1>4, <1>5, <1>6, <1>7, <1>8, <1>9, <1>10, <1>11
         DEF Next, Closing, OwnerClose, CloseOnContext

(* The counter is exact and within the cap in every reachable state.       *)
THEOREM SlotsBounded == Spec => []SlotAccounting
BY TypeCorrect, InitSlotAccounting, StepSlotAccounting, PTL DEF Spec

---------------------------------------------------------------------------
(* Refusals, cooldowns and the probe.                                      *)

(* dial holds the probe from taking it until it returns. *)
HoldsProbe(c) == pc[c] = "probed" \/ (pc[c] \in Asking /\ seen[c] # 0)

(* What a session has seen of the refusals, phase by phase. *)
SeenInv(c) ==
    /\ pc[c] \in {"new", "accepted", "reserved", "tracked"} => seen[c] = 0
    /\ pc[c] \in {"waiting", "queued", "probed"} => seen[c] # 0
    /\ pc[c] \in {"queued", "probed"} => seen[c] <= expired
    /\ seen[c] <= refusals
    /\ seen[c] # 0 => seen[c] >= PriorRefusals

(* What the dial of a session has been answered. *)
AnswerInv(c) ==
    /\ pc[c] \in Phases \ {"open", "piping", "ending", "untracked", "done"}
          => outcome[c] = "none"
    /\ outcome[c] = "refused" => seen[c] < answer[c] /\ answer[c] <= refusals

(* While a session that waited asks, nobody else has been refused after    *)
(* waiting out the same refusal.                                           *)
Unanswered(c) ==
    pc[c] \in Asking /\ seen[c] # 0 =>
        \A d \in Conns : seen[d] = seen[c] => outcome[d] # "refused"

(* Every refusal of the behaviour was given to some session's question. *)
RefusalsOwned ==
    \A n \in (PriorRefusals + 1)..refusals :
        \E d \in Conns : outcome[d] = "refused" /\ answer[d] = n

RefusalInv ==
    /\ PriorRefusals <= refusals /\ expired <= refusals
    /\ \A c \in Conns : HoldsProbe(c) <=> probe = c
    /\ \A c \in Conns : SeenInv(c) /\ AnswerInv(c) /\ Unanswered(c)
    /\ RefusalsOwned
    /\ OneRefusalPerCooldown
    /\ SharedAnswerIsAnothers

(* A new bridge has no session, and nobody has been refused.               *)
LEMMA InitRefusalInv == Init => RefusalInv
BY DEF Init, RefusalInv, HoldsProbe, SeenInv, AnswerInv, Unanswered,
       RefusalsOwned, OneRefusalPerCooldown, SharedAnswerIsAnothers, Asking

(* Every step keeps the books on probe, refusals and answers.              *)
LEMMA StepRefusalInv == TypeOK /\ RefusalInv /\ [Next]_vars => RefusalInv'
<1> SUFFICES ASSUME TypeOK, RefusalInv, [Next]_vars PROVE RefusalInv'
  OBVIOUS
<1> USE DEF TypeOK, Goto, bridgeVars, slotVars, refusalVars, dialVars, pipeVars,
            RefusalInv, HoldsProbe, SeenInv, AnswerInv, Unanswered,
            RefusalsOwned, OneRefusalPerCooldown, SharedAnswerIsAnothers,
            Phases, SlotPhases, Tracked, Dialling, Held, Asking
<1>1. ASSUME NEW c \in Conns, Session(c) PROVE RefusalInv'
  <2>1. CASE ReserveSession(c) BY <2>1 DEF ReserveSession
  <2>2. CASE RefuseClient(c) BY <2>2 DEF RefuseClient
  <2>3. CASE TrackConn(c) BY <2>3 DEF TrackConn
  <2>4. CASE RefusalWait(c) BY <2>4 DEF RefusalWait, CoolingDown
  <2>19. CASE ReadRefusal(c) BY <2>19 DEF ReadRefusal
  <2>20. CASE PutQuestion(c) BY <2>20 DEF PutQuestion
  <2>5. CASE WaitOver(c) BY <2>5 DEF WaitOver
  <2>6. CASE TakeProbe(c) BY <2>6 DEF TakeProbe, ProbeFree
  <2>7. CASE RefusalSince(c)
    BY <2>7 DEF RefusalSince, DialReturns, ReleaseProbe, RefusedSince
  <2>8. CASE AbandonDial(c) BY <2>8 DEF AbandonDial, DialReturns, ReleaseProbe
  <2>9. CASE DialOpens(c) BY <2>9 DEF DialOpens, DialReturns, ReleaseProbe
  <2>10. CASE DialFails(c) BY <2>10 DEF DialFails, LastAttempt, DialReturns, ReleaseProbe
  <2>11. CASE DialRefused(c)
    <3>1. CASE CancelledDial(c)
      BY <2>11, <3>1 DEF DialRefused, DialReturns, ReleaseProbe
    <3>2. CASE ~CancelledDial(c)
      <4> USE <2>11, <3>2 DEF DialRefused, DialReturns, ReleaseProbe
      <4>1. PriorRefusals <= refusals' /\ expired' <= refusals'
        OBVIOUS
      <4>2. \A d \in Conns : HoldsProbe(d)' <=> probe' = d
        OBVIOUS
      <4>3. \A d \in Conns : SeenInv(d)' /\ AnswerInv(d)'
        OBVIOUS
      <4>4. \A d \in Conns : Unanswered(d)'
        OBVIOUS
      <4>5. RefusalsOwned'
        <5> SUFFICES ASSUME NEW n \in (PriorRefusals + 1)..(refusals + 1)
                     PROVE  \E d \in Conns : outcome'[d] = "refused" /\ answer'[d] = n
          OBVIOUS
        <5>1. CASE n = refusals + 1
          BY <5>1
        <5>2. CASE n # refusals + 1
          <6>1. PICK d \in Conns : outcome[d] = "refused" /\ answer[d] = n
            BY <5>2
          <6>2. d # c
            BY <6>1
          <6> QED BY <6>1, <6>2
        <5> QED BY <5>1, <5>2
      <4>6. OneRefusalPerCooldown'
        OBVIOUS
      <4>7. SharedAnswerIsAnothers'
        OBVIOUS
      <4> HIDE <2>11, <3>2 DEF SeenInv, AnswerInv, Unanswered, RefusalsOwned,
               OneRefusalPerCooldown, SharedAnswerIsAnothers, HoldsProbe,
               DialRefused
      <4> QED BY <4>1, <4>2, <4>3, <4>4, <4>5, <4>6, <4>7
    <3> QED BY <3>1, <3>2
  <2>12. CASE BackoffOver(c) BY <2>12 DEF BackoffOver
  <2>13. CASE StartPipe(c) BY <2>13 DEF StartPipe
  <2>14. CASE UpEnds(c) BY <2>14 DEF UpEnds
  <2>15. CASE DownEnds(c) BY <2>15 DEF DownEnds
  <2>16. CASE PipeEnds(c) BY <2>16 DEF PipeEnds
  <2>17. CASE UntrackConn(c) BY <2>17 DEF UntrackConn
  <2>18. CASE ReleaseSlot(c) BY <2>18 DEF ReleaseSlot
  <2> QED BY <1>1, <2>1, <2>2, <2>3, <2>4, <2>5, <2>6, <2>7, <2>8, <2>9, <2>10,
           <2>11, <2>12, <2>13, <2>14, <2>15, <2>16, <2>17, <2>18, <2>19, <2>20 DEF Session
<1>2. ASSUME NEW c \in Conns, Watchers(c) \/ Environment(c) PROVE RefusalInv'
  <2>1. CASE Accept(c) BY <2>1 DEF Accept
  <2>2. CASE BudgetSpent(c) BY <2>2 DEF BudgetSpent, CancelDial
  <2>3. CASE ClientHangsUp(c) BY <2>3 DEF ClientHangsUp
  <2>4. CASE RelayStops(c) BY <2>4 DEF RelayStops
  <2>5. CASE ClientGone(c) BY <2>5 DEF ClientGone, CancelDial
  <2>6. CASE ContextDropsSession(c) BY <2>6 DEF ContextDropsSession
  <2> QED BY <1>2, <2>1, <2>2, <2>3, <2>4, <2>5, <2>6 DEF Watchers, Environment
<1>3. ASSUME NEW c \in Conns, CloseConn(c) PROVE RefusalInv'
  BY <1>3 DEF CloseConn
<1>4. CASE AcceptFails BY <1>4 DEF AcceptFails
<1>5. CASE ServeReturns BY <1>5 DEF ServeReturns, HandlersDone
<1>6. CASE CancelContext BY <1>6 DEF CancelContext
<1>7. CASE CloseMarks BY <1>7 DEF CloseMarks
<1>8. CASE CloseListener BY <1>8 DEF CloseListener
<1>9. CASE CloseDone BY <1>9 DEF CloseDone
<1>10. CASE CooldownPasses BY <1>10 DEF CooldownPasses
<1>11. CASE UNCHANGED vars BY <1>11 DEF vars
<1> QED BY <1>1, <1>2, <1>3, <1>4, <1>5, <1>6, <1>7, <1>8, <1>9, <1>10, <1>11
         DEF Next, Closing, OwnerClose, CloseOnContext

(* In every reachable state the probe, the refusals seen and the answers   *)
(* given agree with one another as dial needs them to.                     *)
THEOREM RefusalsBooked == Spec => []RefusalInv
BY TypeCorrect, InitRefusalInv, StepRefusalInv, PTL DEF Spec

(* Of the sessions that waited out one refusal at most one is refused by   *)
(* the relay itself (dial, dialWithRetry, refusalSince).                   *)
THEOREM OneRefusal == Spec => []OneRefusalPerCooldown
<1>1. RefusalInv => OneRefusalPerCooldown
  BY DEF RefusalInv
<1> QED BY <1>1, RefusalsBooked, PTL

(* A shared refusal is newer than the one the session waited out, and it   *)
(* was the relay's answer to another session.                              *)
THEOREM SharedAnswer == Spec => []SharedAnswerIsAnothers
<1>1. RefusalInv => SharedAnswerIsAnothers
  BY DEF RefusalInv
<1> QED BY <1>1, RefusalsBooked, PTL

---------------------------------------------------------------------------
(* What Serve leaves behind.                                               *)

PipePhases == {"open", "piping", "ending"}

CleanInv ==
    /\ \A c \in Conns :
          /\ copying[c] # {} => pc[c] = "piping"
          /\ TunnelOpen(c) => pc[c] \in PipePhases
          /\ pc[c] \in {"untracked", "done"} => c \in dead
    /\ conns = {c \in Conns : pc[c] \in Tracked}
    /\ serve = "returned" => \A c \in Conns : ~Handled(c)

(* A new bridge has no socket and no tunnel to let go of.                  *)
LEMMA InitCleanInv == Init => CleanInv
BY DEF Init, CleanInv, TunnelOpen, Handled, Tracked, Dialling, Held, Asking

(* Every step closes what it gives up (the deferred calls of handle).      *)
LEMMA StepCleanInv == TypeOK /\ CleanInv /\ [Next]_vars => CleanInv'
<1> SUFFICES ASSUME TypeOK, CleanInv, [Next]_vars PROVE CleanInv'
  OBVIOUS
<1> USE DEF TypeOK, Goto, bridgeVars, slotVars, dialVars, pipeVars, CleanInv,
            TunnelOpen, Handled, PipePhases, SlotPhases, Tracked, Dialling, Held, Asking
<1>1. ASSUME NEW c \in Conns, Session(c) PROVE CleanInv'
  <2>1. CASE ReserveSession(c) BY <2>1 DEF ReserveSession
  <2>2. CASE RefuseClient(c) BY <2>2 DEF RefuseClient
  <2>3. CASE TrackConn(c) BY <2>3 DEF TrackConn
  <2>4. CASE RefusalWait(c) BY <2>4 DEF RefusalWait
  <2>19. CASE ReadRefusal(c) BY <2>19 DEF ReadRefusal
  <2>20. CASE PutQuestion(c) BY <2>20 DEF PutQuestion
  <2>5. CASE WaitOver(c) BY <2>5 DEF WaitOver
  <2>6. CASE TakeProbe(c) BY <2>6 DEF TakeProbe, ProbeFree
  <2>7. CASE RefusalSince(c)
    BY <2>7 DEF RefusalSince, DialReturns, ReleaseProbe
  <2>8. CASE AbandonDial(c) BY <2>8 DEF AbandonDial, DialReturns, ReleaseProbe
  <2>9. CASE DialOpens(c) BY <2>9 DEF DialOpens, DialReturns, ReleaseProbe
  <2>10. CASE DialFails(c) BY <2>10 DEF DialFails, LastAttempt, DialReturns, ReleaseProbe
  <2>11. CASE DialRefused(c)
    BY <2>11 DEF DialRefused, DialReturns, ReleaseProbe
  <2>12. CASE BackoffOver(c) BY <2>12 DEF BackoffOver
  <2>13. CASE StartPipe(c) BY <2>13 DEF StartPipe, Directions
  <2>14. CASE UpEnds(c) BY <2>14 DEF UpEnds
  <2>15. CASE DownEnds(c) BY <2>15 DEF DownEnds
  <2>16. CASE PipeEnds(c) BY <2>16 DEF PipeEnds
  <2>17. CASE UntrackConn(c) BY <2>17 DEF UntrackConn
  <2>18. CASE ReleaseSlot(c) BY <2>18 DEF ReleaseSlot
  <2> QED BY <1>1, <2>1, <2>2, <2>3, <2>4, <2>5, <2>6, <2>7, <2>8, <2>9, <2>10,
           <2>11, <2>12, <2>13, <2>14, <2>15, <2>16, <2>17, <2>18, <2>19, <2>20 DEF Session
<1>2. ASSUME NEW c \in Conns, Watchers(c) \/ Environment(c) PROVE CleanInv'
  <2>1. CASE Accept(c) BY <2>1 DEF Accept
  <2>2. CASE BudgetSpent(c) BY <2>2 DEF BudgetSpent, CancelDial
  <2>3. CASE ClientHangsUp(c) BY <2>3 DEF ClientHangsUp
  <2>4. CASE RelayStops(c) BY <2>4 DEF RelayStops
  <2>5. CASE ClientGone(c) BY <2>5 DEF ClientGone, CancelDial
  <2>6. CASE ContextDropsSession(c) BY <2>6 DEF ContextDropsSession
  <2> QED BY <1>2, <2>1, <2>2, <2>3, <2>4, <2>5, <2>6 DEF Watchers, Environment
<1>3. ASSUME NEW c \in Conns, CloseConn(c) PROVE CleanInv'
  BY <1>3 DEF CloseConn
<1>4. CASE AcceptFails BY <1>4 DEF AcceptFails
<1>5. CASE ServeReturns BY <1>5 DEF ServeReturns, HandlersDone
<1>6. CASE CancelContext BY <1>6 DEF CancelContext
<1>7. CASE CloseMarks BY <1>7 DEF CloseMarks
<1>8. CASE CloseListener BY <1>8 DEF CloseListener
<1>9. CASE CloseDone BY <1>9 DEF CloseDone
<1>10. CASE CooldownPasses BY <1>10 DEF CooldownPasses
<1>11. CASE UNCHANGED vars BY <1>11 DEF vars
<1> QED BY <1>1, <1>2, <1>3, <1>4, <1>5, <1>6, <1>7, <1>8, <1>9, <1>10, <1>11
         DEF Next, Closing, OwnerClose, CloseOnContext

(* A session that is over holds no socket and no tunnel, the tracked       *)
(* connections are those of sessions at work, and Serve returns after all. *)
THEOREM ServeClean == Spec => []CleanInv
BY TypeCorrect, InitCleanInv, StepCleanInv, PTL DEF Spec

(* When Serve has returned no session, slot, probe, client socket or       *)
(* tunnel is left.                                                         *)
THEOREM ServeReturnedClean == Spec => []ServeReturnsClean
<1>1. TypeOK /\ SlotAccounting /\ RefusalInv /\ CleanInv => ServeReturnsClean
  <2> SUFFICES ASSUME TypeOK, SlotAccounting, RefusalInv, CleanInv,
                      serve = "returned"
               PROVE  /\ active = 0 /\ conns = {} /\ probe = NoConn
                      /\ \A c \in Conns :
                            /\ copying[c] = {} /\ ~TunnelOpen(c)
                            /\ pc[c] # "new" => c \in dead
    BY DEF ServeReturnsClean
  <2>1. \A c \in Conns : pc[c] \in {"new", "done"}
    BY DEF CleanInv, Handled
  <2>2. SlotHolders = {}
    BY <2>1 DEF SlotHolders, SlotPhases, Tracked, Dialling, Held, Asking
  <2>3. active = 0
    BY <2>2, FS_EmptySet DEF SlotAccounting
  <2>4. conns = {}
    BY <2>1 DEF CleanInv, Tracked, Dialling, Held, Asking
  <2>5. probe = NoConn
    BY <2>1 DEF TypeOK, RefusalInv, HoldsProbe, Asking
  <2>6. \A c \in Conns : /\ copying[c] = {} /\ ~TunnelOpen(c)
                         /\ pc[c] # "new" => c \in dead
    BY <2>1 DEF CleanInv, PipePhases
  <2> QED BY <2>3, <2>4, <2>5, <2>6
<1> QED BY <1>1, TypeCorrect, SlotsBounded, RefusalsBooked, ServeClean, PTL

---------------------------------------------------------------------------
(* The bridge implements the bounded pool of SessionPool.                  *)

(* A new bridge is an empty pool.                                          *)
LEMMA InitPool == Init => Pool!Init
BY DEF Init, Pool!Init, poolPhase, SlotPhases, Tracked, Dialling, Held, Asking

(* The clients inside the pool are the sessions with a slot.               *)
LEMMA PoolInside == Pool!Inside = SlotHolders
BY DEF Pool!Inside, SlotHolders, poolPhase

(* SessionPool has its own instance of FiniteSets. *)
LEMMA PoolCardinality == Pool!Cardinality(SlotHolders) = Cardinality(SlotHolders)
BY DEF Pool!Cardinality, Cardinality

(* Only reserveSession, handle's refusal of a client, its deferred         *)
(* decrement and the return of Serve are visible to the pool.              *)
LEMMA StepPool ==
    TypeOK /\ SlotAccounting /\ CleanInv /\ [Next]_vars => [Pool!Next]_(Pool!vars)
<1> DEFINE Stutter == poolPhase' = poolPhase /\ (serve = "returned")' = (serve = "returned")
<1> SUFFICES ASSUME TypeOK, SlotAccounting, CleanInv, [Next]_vars
             PROVE  [Pool!Next]_(Pool!vars)
  OBVIOUS
<1>0. ASSUME Stutter PROVE [Pool!Next]_(Pool!vars)
  BY <1>0 DEF Pool!vars
<1>a. Pool!Full <=> ~SlotFree
  <2>1. Pool!Full <=> MaxSessions # 0 /\ Cardinality(SlotHolders) >= MaxSessions
    BY PoolInside, PoolCardinality DEF Pool!Full
  <2>2. active = Cardinality(SlotHolders) /\ active \in Int /\ MaxSessions \in Int
    BY DEF SlotAccounting, TypeOK
  <2> QED BY <2>1, <2>2 DEF SlotFree
<1> USE DEF TypeOK, Goto, bridgeVars, poolPhase, SlotPhases, Tracked, Dialling, Held, Asking
<1>1. ASSUME NEW c \in Conns, Session(c) PROVE [Pool!Next]_(Pool!vars)
  <2>1. CASE ReserveSession(c)
    <3>1. Pool!Enter(c)
      BY <2>1, <1>a DEF ReserveSession, Pool!Enter, CleanInv, Handled
    <3> QED BY <3>1 DEF Pool!Next
  <2>2. CASE RefuseClient(c)
    <3>1. Pool!TurnAway(c)
      BY <2>2, <1>a DEF RefuseClient, Pool!TurnAway, CleanInv, Handled
    <3> QED BY <3>1 DEF Pool!Next
  <2>3. CASE TrackConn(c) BY <1>0, <2>3 DEF TrackConn
  <2>4. CASE RefusalWait(c) BY <1>0, <2>4 DEF RefusalWait
  <2>19. CASE ReadRefusal(c) BY <1>0, <2>19 DEF ReadRefusal
  <2>20. CASE PutQuestion(c) BY <1>0, <2>20 DEF PutQuestion
  <2>5. CASE WaitOver(c) BY <1>0, <2>5 DEF WaitOver
  <2>6. CASE TakeProbe(c) BY <1>0, <2>6 DEF TakeProbe
  <2>7. CASE RefusalSince(c)
    BY <1>0, <2>7 DEF RefusalSince, DialReturns, ReleaseProbe
  <2>8. CASE AbandonDial(c) BY <1>0, <2>8 DEF AbandonDial, DialReturns, ReleaseProbe
  <2>9. CASE DialOpens(c) BY <1>0, <2>9 DEF DialOpens, DialReturns, ReleaseProbe
  <2>10. CASE DialFails(c) BY <1>0, <2>10 DEF DialFails, LastAttempt, DialReturns, ReleaseProbe
  <2>11. CASE DialRefused(c)
    BY <1>0, <2>11 DEF DialRefused, DialReturns, ReleaseProbe
  <2>12. CASE BackoffOver(c) BY <1>0, <2>12 DEF BackoffOver
  <2>13. CASE StartPipe(c) BY <1>0, <2>13 DEF StartPipe
  <2>14. CASE UpEnds(c) BY <1>0, <2>14 DEF UpEnds
  <2>15. CASE DownEnds(c) BY <1>0, <2>15 DEF DownEnds
  <2>16. CASE PipeEnds(c) BY <1>0, <2>16 DEF PipeEnds
  <2>17. CASE UntrackConn(c) BY <1>0, <2>17 DEF UntrackConn
  <2>18. CASE ReleaseSlot(c)
    <3>1. Pool!Leave(c)
      BY <2>18 DEF ReleaseSlot, Pool!Leave
    <3> QED BY <3>1 DEF Pool!Next
  <2> QED BY <1>1, <2>1, <2>2, <2>3, <2>4, <2>5, <2>6, <2>7, <2>8, <2>9, <2>10,
           <2>11, <2>12, <2>13, <2>14, <2>15, <2>16, <2>17, <2>18, <2>19, <2>20 DEF Session
<1>2. ASSUME NEW c \in Conns, Watchers(c) \/ Environment(c) PROVE [Pool!Next]_(Pool!vars)
  <2>1. CASE Accept(c) BY <1>0, <2>1 DEF Accept
  <2>2. CASE BudgetSpent(c) BY <1>0, <2>2 DEF BudgetSpent, CancelDial
  <2>3. CASE ClientHangsUp(c) BY <1>0, <2>3 DEF ClientHangsUp
  <2>4. CASE RelayStops(c) BY <1>0, <2>4 DEF RelayStops
  <2>5. CASE ClientGone(c) BY <1>0, <2>5 DEF ClientGone, CancelDial
  <2>6. CASE ContextDropsSession(c) BY <1>0, <2>6 DEF ContextDropsSession
  <2> QED BY <1>2, <2>1, <2>2, <2>3, <2>4, <2>5, <2>6 DEF Watchers, Environment
<1>3. ASSUME NEW c \in Conns, CloseConn(c) PROVE [Pool!Next]_(Pool!vars)
  BY <1>0, <1>3 DEF CloseConn
<1>4. CASE AcceptFails BY <1>0, <1>4 DEF AcceptFails
<1>5. CASE ServeReturns
  <2>1. Pool!Shut
    BY <1>5 DEF ServeReturns, HandlersDone, Pool!Shut, Pool!Inside, Handled
  <2> QED BY <2>1 DEF Pool!Next
<1>6. CASE CancelContext BY <1>0, <1>6 DEF CancelContext
<1>7. CASE CloseMarks BY <1>0, <1>7 DEF CloseMarks
<1>8. CASE CloseListener BY <1>0, <1>8 DEF CloseListener
<1>9. CASE CloseDone BY <1>0, <1>9 DEF CloseDone
<1>10. CASE CooldownPasses BY <1>0, <1>10 DEF CooldownPasses
<1>11. CASE UNCHANGED vars BY <1>0, <1>11 DEF vars
<1> QED BY <1>1, <1>2, <1>3, <1>4, <1>5, <1>6, <1>7, <1>8, <1>9, <1>10, <1>11
         DEF Next, Closing, OwnerClose, CloseOnContext

(* The sessions of one bridge are a bounded pool: a client is turned away  *)
(* only when every slot is taken, and Serve returns over an empty pool     *)
(* that nobody enters any more.                                            *)
THEOREM BridgeIsPool == Spec => PoolSpec
<1>1. Spec => Pool!Init /\ [][Pool!Next]_(Pool!vars)
  BY InitPool, StepPool, TypeCorrect, SlotsBounded, ServeClean, PTL DEF Spec
<1> QED BY <1>1 DEF PoolSpec, Pool!Spec
---------------------------------------------------------------------------
(* The bridge as the relay sees it: who asks after a refusal.              *)

(* A new bridge has no callers. *)
LEMMA InitGate == Init => Gate!Init
BY DEF Init, Gate!Init, gateStanding, gateSpeaker, Held, Asking

(* A step that moves nobody between the phases of a question is invisible. *)
LEMMA GateStays ==
    ASSUME UNCHANGED <<seen, answer, refusals, expired, outcome, probe>>,
           \A c \in Conns : \/ pc'[c] = pc[c]
                            \/ pc[c] \in Held /\ pc'[c] \in Held
                            \/ pc[c] \in Asking /\ pc'[c] \in Asking
                            \/ /\ pc[c] \notin {"checking"} \cup Held \cup Asking
                               /\ pc'[c] \notin {"checking"} \cup Held \cup Asking
    PROVE  [Gate!Next]_(Gate!vars)
<1>1. gateStanding' = gateStanding
  BY DEF gateStanding, Held, Asking
<1>2. gateSpeaker' = gateSpeaker
  BY DEF gateSpeaker, Held, Asking
<1> QED BY <1>1, <1>2 DEF Gate!vars

(* A dial returns: the session is answered and speaks for nobody.          *)
LEMMA GateReturns ==
    ASSUME TypeOK, RefusalInv, NEW c \in Conns, NEW result \in {"open", "failed", "refused", "shared"},
           NEW refusal, NEW phase \in {"open", "ending"},
           DialReturns(c, result, refusal, phase)
    PROVE  /\ Gate!Answer(c, refusal)
           /\ gateSpeaker' = IF gateSpeaker = c THEN NoConn ELSE gateSpeaker
<1> USE DEF TypeOK, DialReturns, Goto, ReleaseProbe
<1>1. Gate!Answer(c, refusal)
  BY DEF Gate!Answer, Gate!Become, gateStanding, Held, Asking
<1>2. ASSUME gateSpeaker = c PROVE gateSpeaker' = NoConn
  BY <1>2, ConnsAssumption DEF gateSpeaker, Asking
<1>3. ASSUME gateSpeaker # c PROVE gateSpeaker' = gateSpeaker
  BY <1>3, ConnsAssumption DEF gateSpeaker, Asking
<1> QED BY <1>1, <1>2, <1>3

(* A session answers its question as the gate allows. *)
LEMMA SessionPassesGate ==
    ASSUME TypeOK, RefusalInv, NEW c \in Conns, Session(c)
    PROVE  [Gate!Next]_(Gate!vars)
<1> USE DEF TypeOK, Goto, bridgeVars, slotVars, refusalVars, dialVars, pipeVars
<1>1. CASE \/ ReserveSession(c) \/ RefuseClient(c) \/ TrackConn(c) \/ WaitOver(c)
           \/ PutQuestion(c) \/ BackoffOver(c) \/ StartPipe(c) \/ UpEnds(c) \/ DownEnds(c) \/ PipeEnds(c)
           \/ UntrackConn(c) \/ ReleaseSlot(c)
  BY <1>1, GateStays DEF ReserveSession, RefuseClient, TrackConn, WaitOver, PutQuestion,
     BackoffOver, StartPipe, UpEnds, DownEnds, PipeEnds, UntrackConn, ReleaseSlot, Held, Asking
<1>2. CASE RefusalWait(c)
  <2>1. outcome[c] = "none" /\ pc[c] = "checking" /\ probe # c
    BY <1>2 DEF RefusalWait, RefusalInv, AnswerInv, HoldsProbe, Phases, SlotPhases, Tracked,
       Dialling, Held, Asking
  <2>2. gateStanding[c] = "called" /\ (Gate!Closed(c) <=> CoolingDown(c))
    BY <2>1 DEF gateStanding, Gate!Closed, CoolingDown
  <2>3. UNCHANGED gateSpeaker
    BY <1>2, <2>1 DEF RefusalWait, gateSpeaker, Held, Asking
  <2>4. CASE ~CoolingDown(c)
    <3>1. Gate!Become(c, "through")
      BY <1>2, <2>1, <2>4 DEF RefusalWait, Gate!Become, gateStanding, Held, Asking
    <3>2. Gate!Pass(c)
      BY <1>2, <2>2, <2>3, <2>4, <3>1 DEF RefusalWait, Gate!Pass
    <3> QED BY <3>2 DEF Gate!Next
  <2>5. CASE CoolingDown(c)
    <3>1. Gate!Become(c, "held")
      BY <1>2, <2>1, <2>5 DEF RefusalWait, Gate!Become, gateStanding, Held, Asking
    <3>2. Gate!Hold(c)
      BY <1>2, <2>2, <2>3, <2>5, <3>1 DEF RefusalWait, Gate!Hold
    <3> QED BY <3>2 DEF Gate!Next
  <2> QED BY <2>4, <2>5
<1>10. CASE ReadRefusal(c)
  <2>1. outcome[c] = "none" /\ pc[c] = "tracked" /\ probe # c
    BY <1>10 DEF ReadRefusal, RefusalInv, AnswerInv, HoldsProbe, Phases, SlotPhases, Tracked,
       Dialling, Held, Asking
  <2>2. gateStanding[c] = "out" /\ UNCHANGED gateSpeaker
    BY <1>10, <2>1 DEF ReadRefusal, gateStanding, gateSpeaker, Held, Asking
  <2>3. Gate!Become(c, "called")
    BY <1>10, <2>1 DEF ReadRefusal, Gate!Become, gateStanding, Held, Asking
  <2>4. Gate!Call(c)
    BY <1>10, <2>2, <2>3 DEF ReadRefusal, Gate!Call
  <2> QED BY <2>4 DEF Gate!Next
<1>3. CASE TakeProbe(c)
  <2>1. UNCHANGED gateStanding
    BY <1>3 DEF TakeProbe, gateStanding, Held, Asking
  <2>2. gateSpeaker = NoConn /\ gateSpeaker' = NoConn
    BY <1>3, ConnsAssumption DEF TakeProbe, ProbeFree, gateSpeaker, Asking
  <2> QED BY <1>3, <2>1, <2>2 DEF TakeProbe, Gate!vars
<1>4. CASE RefusalSince(c)
  <2>1. /\ outcome[c] = "none" /\ pc[c] = "probed" /\ probe = c /\ seen[c] <= expired
        /\ seen[c] <= refusals
    BY <1>4 DEF RefusalSince, RefusalInv, AnswerInv, SeenInv, HoldsProbe, Phases, SlotPhases,
       Tracked, Dialling, Held, Asking
  <2>2. gateSpeaker = NoConn
    BY <2>1, ConnsAssumption DEF gateSpeaker, Asking
  <2>3. Gate!Turn(c)
    BY <2>1, <2>2 DEF Gate!Turn, Gate!Closed, gateStanding, Held
  <2>4. CASE RefusedSince(c) /\ DialReturns(c, "shared", refusals, "ending")
    <3>1. Gate!Answer(c, refusals) /\ UNCHANGED gateSpeaker
      BY <2>2, <2>4, GateReturns, ConnsAssumption
    <3>2. Gate!Share(c)
      BY <1>4, <2>3, <2>4, <3>1 DEF RefusalSince, RefusedSince, Gate!Share
    <3> QED BY <3>2 DEF Gate!Next
  <2>5. CASE ~RefusedSince(c) /\ pc' = [pc EXCEPT ![c] = "connecting"]
             /\ UNCHANGED <<outcome, answer, probe>>
    <3>1. Gate!Become(c, "through")
      BY <2>1, <2>5 DEF Gate!Become, gateStanding, Held, Asking
    <3>2. gateSpeaker' = c
      BY <2>1, <2>5 DEF gateSpeaker, Asking
    <3>3. Gate!Speak(c)
      BY <1>4, <2>1, <2>3, <2>5, <3>1, <3>2 DEF RefusalSince, RefusedSince, Gate!Speak
    <3> QED BY <3>3 DEF Gate!Next
  <2> QED BY <1>4, <2>4, <2>5 DEF RefusalSince
<1>5. ASSUME pc[c] \in Held \cup Asking, NEW phase \in {"open", "ending"},
             NEW result \in {"open", "failed"}, DialReturns(c, result, 0, phase),
             UNCHANGED <<seen, refusals, expired>>
      PROVE  [Gate!Next]_(Gate!vars)
  <2>1. outcome[c] = "none"
    BY <1>5 DEF RefusalInv, AnswerInv, Phases, SlotPhases, Tracked, Dialling, Held, Asking
  <2>2. gateStanding[c] \in {"through", "held"}
    BY <1>5, <2>1 DEF gateStanding, Held, Asking
  <2>3. Gate!LetGo(c)
    BY <1>5, <2>2, GateReturns DEF Gate!LetGo
  <2> QED BY <2>3 DEF Gate!Next
<1>6. CASE AbandonDial(c)
  BY <1>5, <1>6 DEF AbandonDial, Held, Asking
<1>7. CASE DialOpens(c)
  BY <1>5, <1>7 DEF DialOpens, Asking
<1>8. CASE DialFails(c)
  <2>1. CASE DialReturns(c, "failed", 0, "ending")
    BY <1>5, <1>8, <2>1 DEF DialFails, Asking
  <2>2. CASE pc' = [pc EXCEPT ![c] = "backoff"] /\ UNCHANGED <<outcome, answer, probe>>
    BY <1>8, <2>2, GateStays DEF DialFails, Asking
  <2> QED BY <1>8, <2>1, <2>2 DEF DialFails
<1>9. CASE DialRefused(c)
  <2>1. CASE DialReturns(c, "failed", 0, "ending") /\ UNCHANGED refusals
    BY <1>5, <1>9, <2>1 DEF DialRefused, Asking
  <2>2. CASE refusals' = refusals + 1 /\ DialReturns(c, "refused", refusals + 1, "ending")
    <3>1. outcome[c] = "none" /\ pc[c] = "asking"
      BY <1>9 DEF DialRefused, RefusalInv, AnswerInv, Phases, SlotPhases, Tracked, Dialling, Held, Asking
    <3>2. gateStanding[c] = "through"
      BY <3>1 DEF gateStanding, Held, Asking
    <3>3. Gate!Answer(c, refusals') /\ gateSpeaker' = IF gateSpeaker = c THEN NoConn ELSE gateSpeaker
      BY <2>2, GateReturns
    <3>4. Gate!Refuse(c)
      BY <1>9, <2>2, <3>2, <3>3 DEF DialRefused, Gate!Refuse
    <3> QED BY <3>4 DEF Gate!Next
  <2> QED BY <1>9, <2>1, <2>2 DEF DialRefused
<1> QED BY <1>1, <1>2, <1>3, <1>4, <1>6, <1>7, <1>8, <1>9, <1>10 DEF Session

(* Every step of the bridge is a step of the gate, or none. *)
LEMMA StepGate == TypeOK /\ RefusalInv /\ [Next]_vars => [Gate!Next]_(Gate!vars)
<1> SUFFICES ASSUME TypeOK, RefusalInv, [Next]_vars PROVE [Gate!Next]_(Gate!vars)
  OBVIOUS
<1> USE DEF bridgeVars, slotVars, refusalVars, dialVars, pipeVars
<1>1. ASSUME NEW c \in Conns, Accept(c) PROVE [Gate!Next]_(Gate!vars)
  BY <1>1, GateStays DEF Accept, Goto, TypeOK, Held, Asking
<1>2. ASSUME NEW c \in Conns,
             Watchers(c) \/ BudgetSpent(c) \/ ClientHangsUp(c) \/ RelayStops(c) \/ CloseConn(c)
      PROVE  [Gate!Next]_(Gate!vars)
  BY <1>2, GateStays DEF Watchers, ClientGone, ContextDropsSession, BudgetSpent, CancelDial,
     ClientHangsUp, RelayStops, CloseConn
<1>3. CASE \/ AcceptFails \/ ServeReturns \/ CancelContext \/ CloseMarks \/ CloseListener
           \/ CloseDone
  BY <1>3, GateStays DEF AcceptFails, ServeReturns, CancelContext, CloseMarks, CloseListener,
     CloseDone
<1>4. CASE CooldownPasses
  <2>1. UNCHANGED <<gateStanding, gateSpeaker>>
    BY <1>4 DEF CooldownPasses, gateStanding, gateSpeaker
  <2>2. Gate!CoolDown
    BY <1>4, <2>1 DEF CooldownPasses, Gate!CoolDown
  <2> QED BY <2>2 DEF Gate!Next
<1>5. CASE UNCHANGED vars
  BY <1>5, GateStays DEF vars
<1> QED BY <1>1, <1>2, <1>3, <1>4, <1>5, SessionPassesGate DEF Next, Environment, Closing,
           OwnerClose, CloseOnContext

(* The sessions of one bridge keep the gate of RefusalGate: a session that *)
(* reads a refusal still cooling is held to the end of that cooldown, and  *)
(* those held go through one at a time and take one another's refusals     *)
(* (dial, refusalWait, refusalSince and noteRefusal).                      *)
THEOREM BridgeKeepsGate == Spec => GateSpec
BY InitGate, StepGate, TypeCorrect, RefusalsBooked, PTL DEF Spec, GateSpec, Gate!Spec
=============================================================================

-------------------------- MODULE MagicDialProofs ---------------------------
(***************************************************************************)
(* Theorems about MagicDial, for every answer of the control host and      *)
(* every moment at which the context ends.                                 *)
(***************************************************************************)
EXTENDS MagicDial, TLAPS

---------------------------------------------------------------------------
(* tunnel.stream is set before anything can fail with the stream open, and *)
(* the control connection is opened once, before there is a watch.         *)
Sockets ==
    /\ dial \in {"control", "ask", "stream"} => stream = "none"
    /\ dial \in {"open", "clearStream", "clearControl", "up", "over"} => assigned
    /\ ~assigned /\ dial # "assign" => stream # "open"
    /\ dial = "control" => watch = "none" /\ control = "none"
    /\ dial \in {"failed", "over"} => control # "open" /\ stream # "open"

(* Nobody closes anything of a Dial that was not cancelled ... *)
Untouched ==
    /\ dial \in Stages => ended # "after"
    /\ ended = "no" => watch \in {"none", "on", "done"}
    /\ ended = "no" /\ dial \in Stages \ {"control"} => control = "open"
    /\ ended = "no" /\ dial \in {"assign", "open", "clearStream", "clearControl"} => stream = "open"

(* ... and whoever closes the tunnel later closes its stream first. *)
StreamFirst ==
    /\ closer # "none" => dial \in {"up", "over"} /\ stream # "open"
    /\ ended = "after" /\ watch \in {"control", "torn"} => stream # "open"
    /\ dial = "up" /\ ended # "dialling" => control = "open" \/ stream # "open"

Inv == DialTypeOK /\ Sockets /\ Untouched /\ StreamFirst

(* The invariant at the start. *)
LEMMA InitInv == DialInit => Inv
BY DEF DialInit, Inv, DialTypeOK, Sockets, Untouched, StreamFirst, Stages, Returned

(* Dial's own steps keep it. *)
LEMMA DialStepInv ==
    ASSUME Inv,
           \/ DialControl \/ DialControlFails \/ Ask \/ DialStream \/ Assign
           \/ OpenRelay \/ ClearStream \/ ClearControl
    PROVE  Inv'
<1> USE DEF Inv, socketVars, DialControl, DialControlFails, Ask, DialStream, Assign, OpenRelay,
            ClearStream, ClearControl
<1>1. DialTypeOK'
  BY DEF DialTypeOK, Stages, Returned
<1>2. Sockets'
  BY DEF Sockets, DialTypeOK
<1>3. Untouched'
  BY DEF Sockets, Untouched, DialTypeOK, Stages, Returned
<1>4. StreamFirst'
  BY DEF Sockets, Untouched, StreamFirst, DialTypeOK, Stages, ControlOpen
<1> QED BY <1>1, <1>2, <1>3, <1>4

(* Dial and the session close what there is. *)
LEMMA CloseStep ==
    ASSUME Inv, Fail \/ SessionOver
    PROVE  Inv' /\ control' # "open" /\ stream' # "open"
<1>1. /\ UNCHANGED <<watch, ended, closer, assigned, answer>> /\ dial' \in {"failed", "over"}
      /\ control' = Closed(control)
      /\ stream' = IF assigned THEN Closed(stream) ELSE stream
  BY DEF Fail, SessionOver, CloseBoth
<1>2. (assigned \/ stream # "open") /\ dial \notin {"control", "assign"}
  BY DEF Inv, Sockets, Fail, SessionOver
<1>3. control' # "open" /\ stream' # "open"
  BY <1>1, <1>2 DEF Closed
<1>4. dial' = "over" => assigned
  BY DEF Inv, Sockets, Fail, SessionOver
<1>5. closer # "none" => dial' = "over"
  BY DEF Inv, StreamFirst, Fail, SessionOver, Stages
<1>6. DialTypeOK'
  BY <1>1 DEF Inv, DialTypeOK, Closed, Stages, Returned
<1>7. Sockets'
  BY <1>1, <1>3, <1>4 DEF Sockets
<1>8. Untouched' /\ StreamFirst'
  BY <1>1, <1>3, <1>5 DEF Inv, Untouched, StreamFirst, Stages
<1> QED BY <1>3, <1>6, <1>7, <1>8 DEF Inv

(* The context, the goroutine that watches it, and the others that close.  *)
LEMMA WatchStepInv ==
    ASSUME Inv,
           \/ ContextEnds \/ WatchLeaves \/ WatchFires \/ WatchClosesStream \/ WatchClosesControl
           \/ OthersCloseStream \/ OthersCloseControl
    PROVE  Inv'
<1> USE DEF Inv, Closed, socketVars, ContextEnds, WatchLeaves, WatchFires, WatchClosesStream,
            WatchClosesControl, OthersCloseStream, OthersCloseControl
<1>1. DialTypeOK'
  BY DEF DialTypeOK
<1>2. Sockets'
  BY DEF Sockets, DialTypeOK
<1>3. Untouched'
  BY DEF Untouched, StreamFirst, DialTypeOK, Stages, Returned
<1>4. StreamFirst'
  BY DEF Sockets, Untouched, StreamFirst, DialTypeOK, Stages, StreamSeen
<1> QED BY <1>1, <1>2, <1>3, <1>4

(* Every step keeps the invariant. *)
LEMMA StepInv == ASSUME Inv, [DialNext]_dialVars PROVE Inv'
<1>1. CASE UNCHANGED dialVars
  BY <1>1 DEF Inv, DialTypeOK, Sockets, Untouched, StreamFirst, socketVars, dialVars
<1> QED BY <1>1, DialStepInv, CloseStep, WatchStepInv DEF DialNext

(* The strengthened invariant holds always. *)
LEMMA Invariant == DialSpec => []Inv
BY InitInv, StepInv, PTL DEF DialSpec

---------------------------------------------------------------------------
(* Dial, its watch and the sockets are always of their types (magic.Dial). *)
THEOREM TypeCorrect == DialSpec => []DialTypeOK
<1>1. Inv => DialTypeOK
  BY DEF Inv
<1> QED BY <1>1, Invariant, PTL

(* A session that has its stream has its control connection, what Dial     *)
(* hands out has both, unless Dial was cancelled at its work, and whoever  *)
(* fails or ends leaves nothing open (magic.Dial, Tunnel.Close).           *)
THEOREM DialOpensOrCloses == DialSpec => OpenOrNothing
<1>1. Inv => WholeOrNothing
  BY DEF Inv, Sockets, StreamFirst, WholeOrNothing, StreamOpen, ControlOpen
<1>2. ASSUME Inv, [DialNext]_dialVars
      PROVE  [HandedOutWhole]_dialVars
  <2> SUFFICES ASSUME DialNext, dial # "up", dial' = "up", ended # "dialling"
               PROVE  StreamOpen' /\ ControlOpen'
    BY <1>2 DEF HandedOutWhole
  <2>1. ClearControl
    BY DEF DialNext, DialControl, DialControlFails, Ask, DialStream, Assign, OpenRelay, ClearStream,
        Fail, SessionOver, ContextEnds, WatchLeaves, WatchFires, WatchClosesStream,
        WatchClosesControl, OthersCloseStream, OthersCloseControl
  <2>2. ended = "no"
    BY <1>2, <2>1 DEF Inv, DialTypeOK, Untouched, ClearControl, Stages
  <2> QED BY <1>2, <2>1, <2>2 DEF Inv, Untouched, ClearControl, Stages, socketVars, StreamOpen,
          ControlOpen
<1>3. Inv /\ [DialNext]_dialVars => [WholeOrNothing' /\ HandedOutWhole]_dialVars
  <2> SUFFICES ASSUME Inv, [DialNext]_dialVars
               PROVE  [WholeOrNothing' /\ HandedOutWhole]_dialVars
    OBVIOUS
  <2>1. Inv'
    BY StepInv
  <2>2. WholeOrNothing'
    BY <2>1, <1>1 DEF Inv, Sockets, StreamFirst, WholeOrNothing, StreamOpen, ControlOpen
  <2> QED BY <1>2, <2>2
<1> QED BY <1>3, Invariant, PTL DEF DialSpec, OpenOrNothing
=============================================================================

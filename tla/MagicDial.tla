------------------------------ MODULE MagicDial ------------------------------
(* magic.Dial: the opening sequence over two sockets, the goroutine that   *)
(* closes them when the context ends, and Close, with all that call it.    *)
(* One attempt of dialWithRetry is one instance.                           *)
EXTENDS Integers

CONSTANTS
    Answers,    \* [fields, num, mode, port]: lines of the control host
    TargetPort  \* of the configuration

ASSUME AnswersAssumption == \A a \in Answers : a.num \in Int /\ a.port \in Int

WEB2 == 2
MaxNumber == 999
MaxPort == 99999

VARIABLES
    dial,       \* where Dial, and then the session that owns the tunnel, is
    watch,      \* the goroutine: "none", "on", "stream", "control", "torn", "done"
    ended,      \* ctx.Done(): "no", "dialling" (before Dial returned) or "after"
    closer,     \* the others that close the tunnel: "none", "control", "done"
    control,    \* the sockets: "none", "open" or "closed" ...
    stream,
    assigned,   \* ... and whether tunnel.stream is set
    answer      \* the response that selected this session

socketVars == <<control, stream, assigned>>
dialVars == <<dial, watch, ended, closer, socketVars, answer>>

Stages == {"control", "ask", "stream", "assign", "open", "clearStream", "clearControl"}
Returned == {"up", "failed", "over"}

NoAnswer == [fields |-> 0, num |-> 0, mode |-> 0, port |-> 0]

DialTypeOK ==
    /\ dial \in Stages \cup Returned
    /\ watch \in {"none", "on", "stream", "control", "torn", "done"}
    /\ ended \in {"no", "dialling", "after"} /\ assigned \in BOOLEAN
    /\ closer \in {"none", "control", "done"}
    /\ control \in {"none", "open", "closed"} /\ stream \in {"none", "open", "closed"}
    /\ answer \in Answers \cup {NoAnswer}

DialInit ==
    /\ dial = "control" /\ watch = "none" /\ ended = "no" /\ closer = "none"
    /\ control = "none" /\ stream = "none" /\ assigned = FALSE
    /\ answer = NoAnswer

Closed(socket) == IF socket = "open" THEN "closed" ELSE socket

(* ParseAppResponse *)
Refused(a) == a.num <= 0
Reconstructed(a) == a.fields \in {4, 8}
PortOf(a) == IF a.fields = 8 THEN a.port ELSE TargetPort

Accepted(a) ==
    /\ ~Refused(a) /\ Reconstructed(a)
    /\ a.fields = 8 => a.mode = WEB2 /\ a.port \in 0..MaxPort

(* RelayOpen.MarshalText: three digits and five. *)
Fits(a) == a.num \in 0..MaxNumber /\ PortOf(a) \in 0..MaxPort

---------------------------------------------------------------------------
(* Tunnel.Close by Dial's own goroutine, or by the session's. *)
CloseBoth ==
    /\ control' = Closed(control)
    /\ stream' = IF assigned THEN Closed(stream) ELSE stream

(* SetDeadline fails on a closed socket. *)
StreamOpen == stream = "open"
ControlOpen == control = "open"

(* Tunnel.fail: an error, the deadline or the socket's end; clearing a     *)
(* deadline only fails on a closed socket.                                 *)
Fail ==
    /\ dial \in Stages \ {"control", "assign"}
    /\ dial = "clearStream" => ~StreamOpen
    /\ dial = "clearControl" => ~ControlOpen
    /\ CloseBoth
    /\ dial' = "failed"
    /\ UNCHANGED <<watch, ended, closer, assigned, answer>>

DialControlFails ==
    /\ dial = "control"
    /\ dial' = "failed"
    /\ UNCHANGED <<watch, ended, closer, socketVars, answer>>

DialControl ==
    /\ dial = "control"
    /\ control' = "open" /\ watch' = "on" /\ dial' = "ask"
    /\ UNCHANGED <<ended, closer, stream, assigned, answer>>

(* The request is written and its answer read and parsed. *)
Ask ==
    /\ dial = "ask" /\ control = "open"
    /\ \E a \in Answers : Accepted(a) /\ answer' = a
    /\ dial' = "stream"
    /\ UNCHANGED <<watch, ended, closer, socketVars>>

(* The dial takes the context, but may just have succeeded. *)
DialStream ==
    /\ dial = "stream"
    /\ stream' = "open" /\ dial' = "assign"
    /\ UNCHANGED <<watch, ended, closer, control, assigned, answer>>

Assign ==
    /\ dial = "assign"
    /\ assigned' = TRUE /\ dial' = "open"
    /\ UNCHANGED <<watch, ended, closer, control, stream, answer>>

OpenRelay ==
    /\ dial = "open" /\ StreamOpen /\ Fits(answer)
    /\ dial' = "clearStream"
    /\ UNCHANGED <<watch, ended, closer, socketVars, answer>>

ClearStream ==
    /\ dial = "clearStream" /\ StreamOpen
    /\ dial' = "clearControl"
    /\ UNCHANGED <<watch, ended, closer, socketVars, answer>>

(* Dial returns the tunnel. *)
ClearControl ==
    /\ dial = "clearControl" /\ ControlOpen
    /\ dial' = "up"
    /\ UNCHANGED <<watch, ended, closer, socketVars, answer>>

(* The session's deferred Close. *)
SessionOver ==
    /\ dial = "up"
    /\ CloseBoth
    /\ dial' = "over"
    /\ UNCHANGED <<watch, ended, closer, assigned, answer>>

(* handle's watch of the outer context and a copy of pipe that ended close *)
(* the tunnel of a session that goes on; Close, stream first, is the same  *)
(* whoever calls it.                                                       *)
OthersCloseStream ==
    /\ dial = "up" /\ closer = "none"
    /\ stream' = Closed(stream) /\ closer' = "control"
    /\ UNCHANGED <<dial, watch, ended, control, assigned, answer>>

OthersCloseControl ==
    /\ closer = "control"
    /\ control' = Closed(control) /\ closer' = "done"
    /\ UNCHANGED <<dial, watch, ended, stream, assigned, answer>>

---------------------------------------------------------------------------
(* The budget, the client's leaving, a shutdown, and the cancel() of the   *)
(* caller that has its tunnel.                                             *)
ContextEnds ==
    /\ ended = "no"
    /\ ended' = IF dial \in Stages THEN "dialling" ELSE "after"
    /\ UNCHANGED <<dial, watch, closer, socketVars, answer>>

(* handshakeDone is closed. *)
WatchLeaves ==
    /\ watch = "on" /\ dial \in Returned
    /\ watch' = "done"
    /\ UNCHANGED <<dial, ended, closer, socketVars, answer>>

(* Faulty variant: read without t.mu, the stream is not seen in time. *)
StreamUnseen == FALSE

(* What Close reads of tunnel.stream, once. *)
StreamSeen == assigned

(* ctx.Done(); a watch that is late may still choose it although Dial has  *)
(* returned.                                                               *)
WatchFires ==
    /\ watch = "on" /\ ended # "no"
    /\ watch' = IF StreamSeen THEN "stream" ELSE "control"
    /\ UNCHANGED <<dial, ended, closer, socketVars, answer>>

WatchClosesStream ==
    /\ watch = "stream"
    /\ stream' = Closed(stream) /\ watch' = "control"
    /\ UNCHANGED <<dial, ended, closer, control, assigned, answer>>

WatchClosesControl ==
    /\ watch = "control"
    /\ control' = Closed(control) /\ watch' = "torn"
    /\ UNCHANGED <<dial, ended, closer, stream, assigned, answer>>

DialNext ==
    \/ DialControl \/ DialControlFails \/ Ask \/ DialStream \/ Assign
    \/ OpenRelay \/ ClearStream \/ ClearControl \/ Fail \/ SessionOver
    \/ OthersCloseStream \/ OthersCloseControl
    \/ ContextEnds \/ WatchLeaves \/ WatchFires \/ WatchClosesStream \/ WatchClosesControl

DialSpec == DialInit /\ [][DialNext]_dialVars

---------------------------------------------------------------------------
(* The control connection "is kept open for the tunnel's lifetime" (Dial): *)
(* as long as a session has its stream it has its control connection, and  *)
(* what Dial hands out has both; whoever closes the tunnel meanwhile, also *)
(* the watch that is late for a Dial that has returned, whose context its  *)
(* caller cancels at once.  The exception is a context that ended while    *)
(* Dial was at work: Dial may hand out a tunnel whose stream the watch has *)
(* just closed, or one whose control connection it is about to.  A Dial    *)
(* that fails, and a session that is over, leave nothing open.             *)
WholeOrNothing ==
    /\ dial = "up" /\ StreamOpen /\ ended # "dialling" => ControlOpen
    /\ dial \in {"failed", "over"} => ~StreamOpen /\ ~ControlOpen

HandedOutWhole ==
    dial # "up" /\ dial' = "up" /\ ended # "dialling" => StreamOpen' /\ ControlOpen'

OpenOrNothing == [][WholeOrNothing' /\ HandedOutWhole]_dialVars
=============================================================================

------------------------------- MODULE Tunnel -------------------------------
(* One session of the bridge from its client to the relay and back: what   *)
(* the client sends while the tunnel is dialled (clientWatch), the tunnel's *)
(* Read and Write, and pipe.  Sockets deliver their bytes in order and in  *)
(* any pieces; the relay's end of the cipher is the native one.            *)
EXTENDS MagicDial, TokenCrypto

CONSTANTS
    Token,      \* the device token
    Request,    \* what the client sends, if it stays
    Picture,    \* what the camera answers
    Prefix      \* the random bytes, apart from the marker

ASSUME BytesAssumption ==
    /\ Token \in Tokens /\ Prefix \in [1..Len(Token) -> Byte]
    /\ Request \in Seq(Byte) /\ Picture \in Seq(Byte)

VARIABLES
    reader,     \* clientWatch.read: "on", "stopping" or "done"
    sent,       \* the bytes in the client's socket, not yet read
    left,       \* those the client has still to send
    kept,       \* clientWatch.buf
    piping,     \* pending is forwarded and pipe runs
    encoder, up, relayDecoder, atRelay,     \* toward the relay, and what it has got
    relayEncoder, down, decoder, readBuf,   \* toward the client, with Tunnel.readBuf ...
    toSend, atClient                        \* ... what the camera has still to send

upVars == <<reader, sent, left, kept, piping, encoder, up, relayDecoder, atRelay>>
downVars == <<relayEncoder, down, decoder, readBuf, toSend, atClient>>
vars == <<dialVars, upVars, downVars>>

Init ==
    /\ DialInit
    /\ reader = "on" /\ sent = <<>> /\ left = Request /\ kept = <<>> /\ piping = FALSE
    /\ encoder = New(Token) /\ up = <<>> /\ relayDecoder = New(Token) /\ atRelay = <<>>
    /\ relayEncoder = New(Token) /\ down = <<>> /\ decoder = New(Token) /\ readBuf = <<>>
    /\ toSend = Picture /\ atClient = <<>>

(* A socket gives some of what it holds. *)
Pieces(bytes) == {SubSeq(bytes, 1, n) : n \in 1..Len(bytes)}
After(bytes, piece) == SubSeq(bytes, Len(piece) + 1, Len(bytes))

---------------------------------------------------------------------------
(* A session ends, and others close its tunnel, after its watch is stopped. *)
DialStep ==
    /\ DialNext
    /\ dial' = "over" \/ closer' # closer => reader = "done"
    /\ UNCHANGED <<upVars, downVars>>

ClientSends ==
    /\ \E p \in Pieces(left) : sent' = sent \o p /\ left' = After(left, p)
    /\ UNCHANGED <<dialVars, reader, kept, piping, encoder, up, relayDecoder, atRelay, downVars>>

(* clientWatch.read.  A read that has its bytes keeps them, also while     *)
(* stop waits for it.                                                      *)
WatchReads ==
    /\ reader \in {"on", "stopping"}
    /\ \E p \in Pieces(sent) : kept' = kept \o p /\ sent' = After(sent, p)
    /\ UNCHANGED <<dialVars, reader, left, piping, encoder, up, relayDecoder, atRelay, downVars>>

(* clientWatch.stop, once Dial has returned ... *)
WatchStop ==
    /\ reader = "on" /\ dial \in {"up", "failed"}
    /\ reader' = "stopping"
    /\ UNCHANGED <<dialVars, sent, left, kept, piping, encoder, up, relayDecoder, atRelay, downVars>>

(* ... and the end of the reader, by its deadline. *)
WatchDone ==
    /\ reader = "stopping"
    /\ reader' = "done"
    /\ UNCHANGED <<dialVars, sent, left, kept, piping, encoder, up, relayDecoder, atRelay, downVars>>

(* Tunnel.Write *)
Write(plain) ==
    \E marker \in Markers(Token) :
        LET e == Encode(encoder, plain, Prefix, marker)
        IN  encoder' = e.coder /\ up' = up \o e.out

(* Mutant: the buffer is taken without waiting for the reader. *)
StopAsked == reader # "on"

(* <-w.done *)
WatchStopped == reader = "done"

(* What the client sent during the dial goes first. *)
ForwardPending ==
    /\ dial = "up" /\ stream = "open" /\ WatchStopped /\ ~piping
    /\ Write(kept)
    /\ piping' = TRUE
    /\ UNCHANGED <<dialVars, reader, sent, left, kept, relayDecoder, atRelay, downVars>>

(* pipe, client->relay *)
CopyUp ==
    /\ dial = "up" /\ stream = "open" /\ piping
    /\ \E p \in Pieces(sent) : sent' = After(sent, p) /\ Write(p)
    /\ UNCHANGED <<dialVars, reader, left, kept, piping, relayDecoder, atRelay, downVars>>

RelayReads ==
    /\ \E p \in Pieces(up) :
          LET d == Decode(relayDecoder, p)
          IN  /\ relayDecoder' = d.coder /\ atRelay' = atRelay \o d.out
              /\ up' = After(up, p)
    /\ UNCHANGED <<dialVars, reader, sent, left, kept, piping, encoder, downVars>>

---------------------------------------------------------------------------
(* The camera's bytes, once it is called. *)
RelaySends ==
    /\ dial = "up"
    /\ \E p \in Pieces(toSend), marker \in Markers(Token) :
          LET e == Encode(relayEncoder, p, Prefix, marker)
          IN  /\ relayEncoder' = e.coder /\ down' = down \o e.out
              /\ toSend' = After(toSend, p)
    /\ UNCHANGED <<dialVars, upVars, decoder, readBuf, atClient>>

(* pipe, relay->client, by Tunnel.Read: bytes that were decoded come first *)
CopyBuffered ==
    /\ piping /\ dial = "up"
    /\ \E p \in Pieces(readBuf) : atClient' = atClient \o p /\ readBuf' = After(readBuf, p)
    /\ UNCHANGED <<dialVars, upVars, relayEncoder, down, decoder, toSend>>

(* ... and a read of the bootstrap alone is followed by another. *)
CopyDown ==
    /\ piping /\ dial = "up" /\ stream = "open" /\ readBuf = <<>>
    /\ \E p \in Pieces(down) :
          LET d == Decode(decoder, p)
          IN  decoder' = d.coder /\ readBuf' = d.out /\ down' = After(down, p)
    /\ UNCHANGED <<dialVars, upVars, relayEncoder, toSend, atClient>>

Next ==
    \/ DialStep \/ ClientSends \/ WatchReads \/ WatchStop \/ WatchDone
    \/ ForwardPending \/ CopyUp \/ RelayReads
    \/ RelaySends \/ CopyBuffered \/ CopyDown

Spec == Init /\ [][Next]_vars

---------------------------------------------------------------------------
(* What an end has not still to send is given. *)
Given(all, rest) == SubSeq(all, 1, Len(all) - Len(rest))

Upstream == INSTANCE ByteStream WITH
    Message <- Request, given <- Given(Request, left), delivered <- atRelay
Downstream == INSTANCE ByteStream WITH
    Message <- Picture, given <- Given(Picture, toSend), delivered <- atClient

(* In each direction a session is a stream of bytes: the other end gets    *)
(* what was sent, in its order and without a gap.  What the client sent    *)
(* while the relay was dialled goes first, and however the bytes are cut   *)
(* on their way, the two ciphers stay in step (handle, clientWatch,        *)
(* Tunnel.Read, TokenDecoder.Decode).                                      *)
Streams == Upstream!Spec /\ Downstream!Spec
=============================================================================

------------------------------ MODULE MCTunnel ------------------------------
(* Bytes of three bits and a token of two, as short as the cipher allows.  *)
EXTENDS Tunnel, Bitwise

MCBitXor(a, b) == a ^^ b

Line(fields, num, mode) == [fields |-> fields, num |-> num, mode |-> mode, port |-> 6667]

(* The long form, one whose number does not fit the relay-open frame, and  *)
(* what is not accepted.                                                   *)
MCAnswers == {Line(8, 7, 2), Line(4, 1000, 0), Line(8, 7, 1), Line(2, 7, 0), Line(4, 0, 0)}
MCToken == <<5, 2>>
MCPrefix == <<3, 6>>
MCRequest == <<1, 6, 3>>
MCPicture == <<4, 7>>
=============================================================================

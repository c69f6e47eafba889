------------------------------ MODULE MCSetup ------------------------------
(* The add-on starts the setup with its page and without a code of its own *)
(* accord; on the command line it may be the other way round.              *)
EXTENDS Setup

AddOnAndCommandLine ==
    { [requestCode |-> FALSE, otpCode |-> FALSE, pairUI |-> TRUE],
      [requestCode |-> TRUE, otpCode |-> TRUE, pairUI |-> FALSE] }
=============================================================================

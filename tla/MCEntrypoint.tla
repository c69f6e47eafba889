---------------------------- MODULE MCEntrypoint ----------------------------
(* Two cameras of the same name, or the second with the alias as its name. *)
EXTENDS Entrypoint, TLC

MCAlias    == <<65>>
MCBaseName == 1 :> <<90>> @@ 2 :> <<90>>
MCVM65     == 1 :> <<90>> @@ 2 :> MCAlias
=============================================================================

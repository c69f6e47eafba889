----------------------------- MODULE MCReporting -----------------------------
(* Two cameras; a with a sensor and, in a2, with new credentials.          *)
EXTENDS Reporting, TLC

CONSTANTS a, b, a1, a2, b1

MCKeyOf == [d \in Descs |-> IF d = b1 THEN b ELSE a]
=============================================================================

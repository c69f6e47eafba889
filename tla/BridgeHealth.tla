----------------------------- MODULE BridgeHealth -----------------------------
(***************************************************************************)
(* publishBridges of internal/app/app.go and SetBridges of                 *)
(* internal/health: whoever reports loads one counter of the runtime, then *)
(* the other, and stores both, three steps that nothing makes one.  Run,   *)
(* Reload and every supervise loop report, at the places where Supervision *)
(* has one step for the whole call.                                        *)
(***************************************************************************)
EXTENDS Supervision, Sequences

VARIABLES
    pub,     \* what each publishBridges in progress has loaded
    health   \* BridgesReady and BridgesTotal of the health snapshot

healthVars == <<pub, health>>

Publishers == Sups \cup {"run", "reload"}

HealthTypeOK ==
    /\ pub \in [Publishers -> Seq(Int)]
    /\ health \in [ready : Int, total : Int]

HealthInit ==
    /\ Init
    /\ pub = [p \in Publishers |-> <<>>]
    /\ health = [ready |-> 0, total |-> 0]

Publishing(p) ==
    CASE p = "run"    -> run \in {"publishing", "lastPublish"}
      [] p = "reload" -> reload = "publishing"
      [] OTHER        -> pc[p] \in {"rising", "falling"}

LoadServing(p) ==
    /\ Publishing(p) /\ pub[p] = <<>>
    /\ pub' = [pub EXCEPT ![p] = <<serving>>]
    /\ UNCHANGED <<vars, health>>

LoadTotal(p) ==
    /\ Len(pub[p]) = 1
    /\ pub' = [pub EXCEPT ![p] = Append(@, total)]
    /\ UNCHANGED <<vars, health>>

SetBridges(p) ==
    /\ Len(pub[p]) = 2
    /\ health' = [ready |-> pub[p][1], total |-> pub[p][2]]
    /\ pub' = [pub EXCEPT ![p] = <<>>]

Published ==
    \/ RunPublished /\ SetBridges("run")
    \/ ReloadPublished /\ SetBridges("reload")
    \/ \E s \in Sups : SupPublished(s) /\ SetBridges(s)

Unreported ==
    /\ Next
    /\ ~RunPublished /\ ~ReloadPublished /\ \A s \in Sups : ~SupPublished(s)
    /\ UNCHANGED healthVars

HealthNext ==
    \/ \E p \in Publishers : LoadServing(p) \/ LoadTotal(p)
    \/ Published
    \/ Unreported

HealthSpec == HealthInit /\ [][HealthNext]_<<vars, healthVars>>

---------------------------------------------------------------------------
(* The package comment of app: the health state always reflects how many   *)
(* bridges are actually serving, when nobody is about to report anew.      *)
Settled ==
    /\ run \in {"running", "returned"} /\ reload = "idle"
    /\ \A p \in Publishers : ~Publishing(p)
HealthReflectsServing ==
    Settled => health = [ready |-> serving, total |-> total]
=============================================================================

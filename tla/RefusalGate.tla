----------------------------- MODULE RefusalGate -----------------------------
(***************************************************************************)
(* What a bridge promises the relay after a refusal.  Whoever calls looks  *)
(* up the last refusal, and is held until its cooldown is over; of those   *)
(* who were held one at a time is let through, and a refusal given since   *)
(* is the answer of the next.  The gate is passed once: who is through may *)
(* ask, and be refused, whatever has been refused in the meantime.         *)
(***************************************************************************)
EXTENDS Integers

CONSTANTS
    Callers,
    Nobody,
    Gated,      \* there is a cooldown
    Earlier     \* refusals before anyone called

VARIABLES
    standing,   \* out, called, held, through or answered
    since,      \* the refusal a caller looked up, or is or was held for
    heard,      \* the refusal a caller was told of, 0 if it was none
    speaker,    \* who went through for those that were held
    refused,    \* the number of the last refusal
    cooled      \* refusals whose cooldown is over

vars == <<standing, since, heard, speaker, refused, cooled>>

Init ==
    /\ standing = [c \in Callers |-> "out"]
    /\ since = [c \in Callers |-> 0]
    /\ heard = [c \in Callers |-> 0]
    /\ speaker = Nobody
    /\ refused = Earlier /\ cooled = 0

(* The refusal c looked up is not over yet. *)
Closed(c) == since[c] > cooled

(* The refusal c was held for is over, and nobody is through in c's place. *)
Turn(c) == standing[c] = "held" /\ ~Closed(c) /\ speaker = Nobody

Become(c, what) == standing' = [standing EXCEPT ![c] = what]

Answer(c, refusal) ==
    /\ Become(c, "answered")
    /\ heard' = [heard EXCEPT ![c] = refusal]

Call(c) ==
    /\ standing[c] = "out"
    /\ Become(c, "called")
    /\ since' = [since EXCEPT ![c] = IF Gated THEN refused ELSE 0]
    /\ UNCHANGED <<heard, speaker, refused, cooled>>

Pass(c) ==
    /\ standing[c] = "called" /\ ~Closed(c)
    /\ Become(c, "through")
    /\ since' = [since EXCEPT ![c] = 0]
    /\ UNCHANGED <<heard, speaker, refused, cooled>>

Hold(c) ==
    /\ standing[c] = "called" /\ Closed(c)
    /\ Become(c, "held")
    /\ UNCHANGED <<since, heard, speaker, refused, cooled>>

Speak(c) ==
    /\ Turn(c) /\ since[c] = refused
    /\ Become(c, "through")
    /\ speaker' = c
    /\ UNCHANGED <<since, heard, refused, cooled>>

Share(c) ==
    /\ Turn(c) /\ since[c] < refused
    /\ Answer(c, refused)
    /\ UNCHANGED <<since, speaker, refused, cooled>>

Refuse(c) ==
    /\ standing[c] = "through"
    /\ refused' = refused + 1
    /\ Answer(c, refused')
    /\ speaker' = IF speaker = c THEN Nobody ELSE speaker
    /\ UNCHANGED <<since, cooled>>

(* Another answer than a refusal, or the end of the caller's patience. *)
LetGo(c) ==
    /\ standing[c] \in {"through", "held"}
    /\ Answer(c, 0)
    /\ speaker' = IF speaker = c THEN Nobody ELSE speaker
    /\ UNCHANGED <<since, refused, cooled>>

CoolDown ==
    /\ cooled < refused
    /\ cooled' = cooled + 1
    /\ UNCHANGED <<standing, since, heard, speaker, refused>>

Next ==
    \/ \E c \in Callers : Call(c) \/ Pass(c) \/ Hold(c) \/ Speak(c) \/ Share(c)
    \/ \E c \in Callers : Refuse(c) \/ LetGo(c)
    \/ CoolDown

Spec == Init /\ [][Next]_vars
=============================================================================

--------------------------- MODULE AccountPairing ---------------------------
(* internal/fivegencare: the account state on disk, the Provider that      *)
(* pairs and restores it under its mutex, and the account server it talks  *)
(* to, whose answers may be lost and whose codes and sessions expire.      *)
EXTENDS Naturals

CONSTANTS
    Codes,          \* names for the challenges the server gives out
    Sessions,       \* names for its sessions
    Emails,         \* the addresses a person may type
    None,
    ConfigEmail     \* ProviderConfig.Email, or None

ASSUME AccountAssumption ==
    None \notin Codes \cup Sessions \cup Emails /\ ConfigEmail \in Emails \cup {None}

(* sessionTokenCandidates, in the order in which they are tried. *)
Tokens == {"session", "master"}

States == [session : Sessions \cup {None}, code : Codes \cup {None}, email : Emails \cup {None}]

VARIABLES
    disk,       \* the state file
    caller,     \* who holds Provider.mu: "none", "page" or "setup"
    at,         \* the exchange, or the Save, it is in
    mem,        \* its copy of the state
    auto, otp,  \* AutoRequestCode, and whether OTPCode is given
    returned,   \* what Restore returned to the setup command
    verified,   \* SubmitCode has succeeded
    to,         \* the address the server sent a code to
    old,        \* the codes older than ChallengeTTL
    spent,      \* the codes the server has accepted
    accepted,   \* the tokens of a session the server accepts
    misread     \* those of mem's session that it accepts and yet seemed to reject

heldVars   == <<caller, at, mem>>
serverVars == <<to, spent, accepted>>
accountVars == <<disk, heldVars, auto, otp, returned, verified, old, serverVars, misread>>

Exchanges == {"free", "otp", "login", "session", "master", "saving"}
Results == {"none", "ok", "required", "failed"}

AccountTypeOK ==
    /\ disk \in States /\ mem \in States
    /\ at = "login" => mem.code # None
    /\ caller \in {"none", "page", "setup"} /\ at \in Exchanges
    /\ auto \in BOOLEAN /\ otp \in BOOLEAN
    /\ returned \in Results /\ verified \in BOOLEAN
    /\ to \in [Codes -> Emails \cup {None}]
    /\ old \subseteq Codes /\ spent \subseteq Codes
    /\ accepted \in [Sessions -> SUBSET Tokens]
    /\ misread \subseteq Tokens

Empty == [session |-> None, code |-> None, email |-> None]

AccountInit ==
    /\ disk = Empty
    /\ caller = "none" /\ at = "free" /\ mem = Empty
    /\ auto = FALSE /\ otp = FALSE
    /\ returned = "none" /\ verified = FALSE
    /\ to = [c \in Codes |-> None] /\ old = {} /\ spent = {}
    /\ accepted = [s \in Sessions |-> {}] /\ misread = {}

(* challengeRemaining and email. *)
Live(state) == state.code # None /\ state.code \notin old
EmailOf(state) == IF ConfigEmail # None THEN ConfigEmail ELSE state.email

(* PairingStatus, what the page shows. *)
Status == [paired |-> disk.session # None, awaiting |-> Live(disk), email |-> EmailOf(disk)]

Hold(who, exchange, state) == caller' = who /\ at' = exchange /\ mem' = state

(* The call ends; the copy it worked on goes with it. *)
Release(result) ==
    /\ Hold("none", "free", Empty)
    /\ returned' = IF caller = "page" THEN returned ELSE result
    /\ misread' = {}

Fails == Release("failed") /\ UNCHANGED <<disk, auto, otp, verified, old>>

---------------------------------------------------------------------------
(* The calls, up to the first exchange with the server.                    *)

(* Mutant: a code that is still good is not replaced. *)
IfNonePending == ~Live(disk)

(* "it always requests" *)
MayRequest == TRUE

RequestCode(email) ==
    /\ caller = "none" /\ MayRequest
    /\ Hold("page", "otp", [disk EXCEPT !.email = email])
    /\ UNCHANGED <<disk, auto, otp, returned, verified, old, serverVars, misread>>

(* Otherwise ErrNoChallenge, and nothing changes. *)
SubmitCode ==
    /\ caller = "none" /\ Live(disk)
    /\ Hold("page", "login", disk)
    /\ UNCHANGED <<disk, auto, otp, returned, verified, old, serverVars, misread>>

Pair(state) ==
    \/ /\ EmailOf(state) = None
       /\ Hold("setup", "saving", state)
       /\ UNCHANGED returned
    \/ /\ EmailOf(state) # None /\ ~Live(state) /\ ~auto
       /\ Hold("setup", "saving", [state EXCEPT !.code = None])
       /\ UNCHANGED returned
    \/ /\ EmailOf(state) # None /\ ~Live(state) /\ auto
       /\ Hold("setup", "otp", [state EXCEPT !.code = None, !.email = EmailOf(state)])
       /\ UNCHANGED returned
    \/ /\ EmailOf(state) # None /\ Live(state) /\ ~otp
       /\ Hold("none", "free", Empty)
       /\ returned' = "required"
    \/ /\ EmailOf(state) # None /\ Live(state) /\ otp
       /\ Hold("setup", "login", [state EXCEPT !.email = EmailOf(state)])
       /\ UNCHANGED returned

Restore ==
    /\ caller = "none"
    /\ \/ /\ disk.session # None
          /\ Hold("setup", "session", disk)
          /\ UNCHANGED returned
       \/ /\ disk.session = None
          /\ Pair(disk)
    /\ UNCHANGED <<disk, auto, otp, verified, old, serverVars, misread>>

---------------------------------------------------------------------------
(* The exchanges.  Each may also end without an answer, or with one that   *)
(* means nothing.                                                          *)

(* RequestOTP: the server sends a code, of which nobody has heard before.  *)
CodeSent ==
    /\ at = "otp"
    /\ \E c \in Codes \ {disk.code, mem.code} :
          /\ to' = [to EXCEPT ![c] = mem.email]
          /\ old' = old \ {c} /\ spent' = spent \ {c}
          /\ Hold(caller, "saving", [mem EXCEPT !.code = c])
    /\ UNCHANGED <<disk, auto, otp, returned, verified, accepted, misread>>

(* LoginOTP: the right code for the address it was sent to, once. *)
LoginAccepted(s) ==
    /\ at = "login"
    /\ mem.code \notin spent /\ to[mem.code] = EmailOf(mem)
    /\ s \notin {disk.session, mem.session}
    /\ spent' = spent \cup {mem.code}
    /\ accepted' = [accepted EXCEPT ![s] = Tokens]
    /\ UNCHANGED to

LoginArrives == \E s \in Sessions :
    /\ LoginAccepted(s)
    /\ Hold(caller, "saving", [mem EXCEPT !.session = s, !.code = None])
    /\ UNCHANGED <<disk, auto, otp, returned, verified, old, misread>>

AnswerLost == (\E s \in Sessions : LoginAccepted(s)) /\ Fails

NoAnswer ==
    /\ at \in {"otp", "login"} \cup Tokens
    /\ Fails /\ UNCHANGED serverVars

(* Devices: what a token was answered with. *)
Accepts(token) == token \in accepted[mem.session]

(* The account may have no camera that is compatible. *)
Listed ==
    /\ at \in Tokens /\ Accepts(at)
    /\ Release("ok") \/ Release("failed")
    /\ UNCHANGED <<disk, auto, otp, verified, old, serverVars>>

(* Mutant: whatever goes wrong counts as a rejection. *)
NotListed(token) == TRUE

Rejects(token) == ~Accepts(token)

(* Any status but a positive number is read as a rejection, also one that  *)
(* stands for some other trouble of the server, or for nothing.            *)
ReadAsRejected ==
    \/ Rejects(at) /\ UNCHANGED misread
    \/ Accepts(at) /\ misread' = misread \cup {at}

(* Mutant: the challenge stays. *)
WithoutSession(state) == [state EXCEPT !.session = None]

(* "The stored session is gone and its challenge with it" *)
Dropped(state) == [state EXCEPT !.session = None, !.code = None]

(* The session is given up when its last token has been rejected. *)
Rejected ==
    /\ at \in Tokens /\ ReadAsRejected
    /\ \/ /\ at = "session"
          /\ Hold(caller, "master", mem)
          /\ UNCHANGED returned
       \/ /\ at = "master"
          /\ Pair(Dropped(mem))
    /\ UNCHANGED <<disk, auto, otp, verified, old, serverVars>>

---------------------------------------------------------------------------
(* Store.Save replaces the file as a whole or leaves it alone.             *)

NewSession == mem.session # None /\ mem.session # disk.session

Replaced ==
    /\ at = "saving"
    /\ disk' = mem

SessionSaved ==
    /\ Replaced /\ NewSession
    /\ \/ /\ caller = "setup" /\ Hold("setup", "session", mem)
          /\ misread' = {}
          /\ UNCHANGED <<returned, verified>>
       \/ /\ caller = "page" /\ Release("ok")
          /\ verified' = TRUE
    /\ UNCHANGED <<auto, otp, old, serverVars>>

StateSaved ==
    /\ Replaced /\ ~NewSession
    /\ Release("required")
    /\ UNCHANGED <<auto, otp, verified, old, serverVars>>

SaveFails == at = "saving" /\ Fails /\ UNCHANGED serverVars

ProviderStep ==
    \/ CodeSent \/ LoginArrives \/ AnswerLost \/ NoAnswer
    \/ Listed \/ Rejected \/ SessionSaved \/ StateSaved \/ SaveFails

(* Time passes - more than it takes to save a new code - and the server    *)
(* ends sessions when it likes.  What nobody holds any more is left alone. *)
Age(c) ==
    /\ c \in {disk.code, mem.code} \ (old \cup {None})
    /\ at = "saving" => c # mem.code
    /\ old' = old \cup {c}
    /\ UNCHANGED <<disk, heldVars, auto, otp, returned, verified, serverVars, misread>>

ServerForgets(s, token) ==
    /\ s \in {disk.session, mem.session} /\ token \in accepted[s]
    /\ accepted' = [accepted EXCEPT ![s] = @ \ {token}]
    /\ UNCHANGED <<disk, heldVars, auto, otp, returned, verified, to, old, spent, misread>>
=============================================================================

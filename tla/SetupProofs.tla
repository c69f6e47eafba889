----------------------------- MODULE SetupProofs -----------------------------
(***************************************************************************)
(* Theorems about Setup, for every set of codes, sessions, addresses and   *)
(* flags, and for a configured address as well as for none.                *)
(***************************************************************************)
EXTENDS Setup, TLAPS

USE AccountAssumption, ModesAssumption

(* Everything is typed at the start. *)
LEMMA InitTypeOK == Init => TypeOK
<1> SUFFICES ASSUME Init PROVE TypeOK
  OBVIOUS
<1>1. disk \in States /\ mem \in States
  BY DEF Init, AccountInit, Empty, States
<1>2. auto \in BOOLEAN /\ otp \in BOOLEAN /\ pairUI \in BOOLEAN /\ verified \in BOOLEAN
  BY DEF Init, AccountInit
<1>3. /\ to \in [Codes -> Emails \cup {None}]
      /\ old \subseteq Codes /\ spent \subseteq Codes
      /\ accepted \in [Sessions -> SUBSET Tokens] /\ misread \subseteq Tokens
  BY DEF Init, AccountInit
<1>4. /\ caller \in {"none", "page", "setup"} /\ at \in Exchanges
      /\ returned \in Results /\ phase \in {"off", "restoring", "page", "again"}
  BY DEF Init, AccountInit, Exchanges, Results
<1>5. at = "login" => mem.code # None
  BY DEF Init, AccountInit
<1> QED BY <1>1, <1>2, <1>3, <1>4, <1>5 DEF TypeOK, AccountTypeOK

(* What the parts of pair and the end of a call do to the types. *)
LEMMA PairType ==
    ASSUME AccountTypeOK, NEW state \in States, Pair(state)
    PROVE  /\ mem' \in States /\ caller' \in {"none", "setup"}
           /\ at' = "login" => mem'.code # None
           /\ at' \in {"free", "otp", "login", "saving"}
           /\ returned' \in Results
<1> USE DEF AccountTypeOK, Hold, Results
<1>1. state.code = None \/ state.code \in Codes
  BY DEF States
<1>2. EmailOf(state) \in Emails \cup {None}
  BY DEF EmailOf, States
<1>3. CASE EmailOf(state) = None
  BY <1>3 DEF Pair
<1>4. CASE EmailOf(state) # None /\ ~Live(state)
  <2>1. /\ [state EXCEPT !.code = None] \in States
        /\ [state EXCEPT !.code = None, !.email = EmailOf(state)] \in States
    BY <1>2 DEF States
  <2> QED BY <1>4, <2>1 DEF Pair
<1>5. CASE EmailOf(state) # None /\ Live(state)
  <2>1. Empty \in States
    BY DEF Empty, States
  <2>2. /\ [state EXCEPT !.email = EmailOf(state)] \in States
        /\ [state EXCEPT !.email = EmailOf(state)].code = state.code
    BY <1>2 DEF States
  <2>3. state.code # None
    BY <1>5 DEF Live
  <2> QED BY <1>5, <2>1, <2>2, <2>3 DEF Pair
<1> QED BY <1>3, <1>4, <1>5

(* The same of the end of a call. *)
LEMMA ReleaseType ==
    ASSUME AccountTypeOK, NEW r \in Results, Release(r)
    PROVE  /\ mem' \in States /\ caller' = "none" /\ at' = "free"
           /\ returned' \in Results /\ misread' = {}
BY DEF Release, Hold, AccountTypeOK, Empty, States

(* A login the server accepts changes what the server knows, in its types. *)
LEMMA LoginType ==
    ASSUME AccountTypeOK, NEW s \in Sessions, LoginAccepted(s)
    PROVE  /\ spent' \subseteq Codes /\ to' = to
           /\ accepted' \in [Sessions -> SUBSET Tokens]
<1>1. mem.code \in Codes
  BY DEF AccountTypeOK, States, LoginAccepted
<1>2. accepted' \in [Sessions -> SUBSET Tokens]
  BY DEF AccountTypeOK, LoginAccepted
<1> QED BY <1>1, <1>2 DEF AccountTypeOK, LoginAccepted

(* The exchanges and the saves keep the types. *)
LEMMA ProviderTypeOK ==
    ASSUME AccountTypeOK, ProviderStep PROVE AccountTypeOK'
<1> USE DEF AccountTypeOK, serverVars, Results
<1>1. CASE CodeSent
  BY <1>1 DEF CodeSent, Hold, States, Exchanges
<1>2. CASE LoginArrives
  <2> PICK s \in Sessions : LoginAccepted(s)
      /\ Hold(caller, "saving", [mem EXCEPT !.session = s, !.code = None])
      /\ UNCHANGED <<disk, auto, otp, returned, verified, old, misread>>
    BY <1>2 DEF LoginArrives
  <2>1. [mem EXCEPT !.session = s, !.code = None] \in States
    BY DEF States
  <2> QED BY <2>1, LoginType DEF Hold, Exchanges
<1>3. CASE AnswerLost
  <2> PICK s \in Sessions : LoginAccepted(s)
    BY <1>3 DEF AnswerLost
  <2> QED BY <1>3, LoginType, ReleaseType DEF AnswerLost, Fails, Exchanges
<1>4. CASE NoAnswer
  BY <1>4, ReleaseType DEF NoAnswer, Fails, Exchanges
<1>5. CASE Listed
  BY <1>5, ReleaseType DEF Listed, Exchanges
<1>6. CASE Rejected
  <2>1. Dropped(mem) \in States
    BY DEF Dropped, States
  <2>0. misread' \subseteq Tokens
    BY <1>6 DEF Rejected, ReadAsRejected
  <2>2. ASSUME Pair(Dropped(mem)) PROVE AccountTypeOK'
    BY <1>6, <2>0, <2>1, <2>2, PairType DEF Rejected, Exchanges
  <2>3. ASSUME Hold(caller, "master", mem), UNCHANGED returned PROVE AccountTypeOK'
    BY <1>6, <2>0, <2>3 DEF Rejected, Hold, Exchanges
  <2> QED BY <1>6, <2>2, <2>3 DEF Rejected
<1>7. CASE SessionSaved
  <2>1. disk' \in States
    BY <1>7 DEF SessionSaved, Replaced
  <2>2. CASE Hold("setup", "session", mem) /\ UNCHANGED <<returned, verified>>
    <3>1. misread' = {} /\ UNCHANGED <<auto, otp, old, to, spent, accepted>>
      BY <1>7, <2>2, ReleaseType DEF SessionSaved, Hold, Release
    <3> QED BY <1>7, <2>1, <2>2, <3>1 DEF SessionSaved, Hold, Exchanges
  <2>3. CASE Release("ok") /\ verified' = TRUE
    BY <1>7, <2>1, <2>3, ReleaseType DEF SessionSaved, Exchanges
  <2> QED BY <1>7, <2>2, <2>3 DEF SessionSaved
<1>8. CASE StateSaved
  BY <1>8, ReleaseType DEF StateSaved, Replaced, Exchanges
<1>9. CASE SaveFails
  BY <1>9, ReleaseType DEF SaveFails, Fails, Exchanges
<1> QED BY <1>1, <1>2, <1>3, <1>4, <1>5, <1>6, <1>7, <1>8, <1>9 DEF ProviderStep

(* Every action keeps the types. *)
LEMMA StepTypeOK == TypeOK /\ [Next]_vars => TypeOK'
<1> SUFFICES ASSUME TypeOK, [Next]_vars PROVE TypeOK'
  OBVIOUS
<1> USE DEF TypeOK, AccountTypeOK
<1>0. AccountTypeOK
  OBVIOUS
<1>1. CASE Start
  BY <1>1 DEF Start, heldVars, serverVars, Results
<1>2. CASE Restores
  <2>1. ASSUME Pair(disk) PROVE TypeOK'
    BY <1>0, <1>2, <2>1, PairType DEF Restores, Restore, serverVars, Exchanges
  <2>2. ASSUME Hold("setup", "session", disk), UNCHANGED returned PROVE TypeOK'
    BY <1>2, <2>2 DEF Restores, Restore, serverVars, Hold, Exchanges
  <2> QED BY <1>2, <2>1, <2>2 DEF Restores, Restore
<1>3. CASE OpenPage
  BY <1>3 DEF OpenPage, heldVars, serverVars, Results
<1>4. CASE Return \/ Killed
  BY <1>4 DEF Return, Killed, Ends, Hold, Empty, States, serverVars, Exchanges
<1>5. CASE HandleCode
  BY <1>5 DEF HandleCode, RequestCode, Hold, States, serverVars, Exchanges
<1>6. CASE HandleVerify
  BY <1>6 DEF HandleVerify, SubmitCode, Live, Hold, serverVars, Exchanges
<1>7. CASE Paired
  BY <1>7 DEF Paired, accountVars, heldVars, serverVars
<1>8. ASSUME ProviderStep, UNCHANGED <<phase, pairUI>> PROVE TypeOK'
  <2>1. AccountTypeOK'
    BY <1>0, <1>8, ProviderTypeOK
  <2> QED BY <1>8, <2>1
<1>9. ASSUME NEW c \in Codes, Age(c), UNCHANGED <<phase, pairUI>> PROVE TypeOK'
  BY <1>9 DEF Age, heldVars, serverVars
<1>10. ASSUME NEW s \in Sessions, NEW token \in Tokens, ServerForgets(s, token),
              UNCHANGED <<phase, pairUI>>
       PROVE  TypeOK'
  BY <1>10 DEF ServerForgets, heldVars
<1>11. CASE UNCHANGED vars
  BY <1>11 DEF vars, accountVars, heldVars, serverVars
<1> QED BY <1>1, <1>2, <1>3, <1>4, <1>5, <1>6, <1>7, <1>8, <1>9, <1>10, <1>11 DEF Next

(* The variables of the account, its provider and the setup command keep   *)
(* their types (fivegencare, vm65-setup).                                  *)
THEOREM TypeCorrect == Spec => []TypeOK
BY InitTypeOK, StepTypeOK, PTL DEF Spec

---------------------------------------------------------------------------
(* The inductive invariant: whose copy the provider works on, and what it  *)
(* has found out when the copy has no session although the file has one.   *)
Copies ==
    /\ caller = "none" <=> at = "free"
    /\ at \in Tokens => caller = "setup" /\ mem.session # None /\ disk.session = mem.session
    /\ at = "master" => "session" \notin accepted[mem.session] \ misread
    /\ caller = "setup" /\ at \in {"otp", "login"} => mem.session = None
    /\ caller = "setup" /\ at = "saving" => mem.session = None \/ mem.session # disk.session
    /\ caller = "page" => \/ mem.session = disk.session
                          \/ at = "saving" /\ mem.session # None

GivenUp ==
    caller # "none" /\ mem.session = None /\ disk.session # None
        => accepted[disk.session] \subseteq misread

Turns ==
    /\ caller = "setup" => phase \in {"restoring", "again"} /\ returned = "none"
    /\ caller = "page" => phase \in {"page", "again"}
    /\ phase = "restoring" /\ returned = "required" => disk.session = None

Inv == TypeOK /\ Copies /\ GivenUp /\ Turns /\ PageMeansUnpaired

(* pair, called for a state without a session. *)
LEMMA PairHolds ==
    ASSUME NEW state \in States, state.session = None, Pair(state)
    PROVE  \/ /\ caller' = "setup" /\ at' \in {"otp", "login", "saving"}
              /\ mem'.session = None /\ returned' = returned
           \/ /\ caller' = "none" /\ at' = "free" /\ mem' = Empty
              /\ returned' = "required" /\ Live(state)
<1>1. /\ [state EXCEPT !.code = None].session = None
      /\ [state EXCEPT !.code = None, !.email = EmailOf(state)].session = None
      /\ [state EXCEPT !.email = EmailOf(state)].session = None
  BY DEF States
<1> QED BY <1>1 DEF Pair, Hold

(* A login the server accepts takes no token from the session on disk. *)
LEMMA LoginKeeps ==
    ASSUME TypeOK, NEW s \in Sessions, LoginAccepted(s), disk.session # None
    PROVE  accepted'[disk.session] = accepted[disk.session]
BY DEF TypeOK, AccountTypeOK, States, LoginAccepted

(* Every step of the provider keeps the invariant. *)
LEMMA ProviderInv ==
    ASSUME Inv, TypeOK', ProviderStep, UNCHANGED <<phase, pairUI>> PROVE Inv'
<1> USE DEF Inv, Copies, GivenUp, Turns, PageMeansUnpaired, Status, serverVars, Hold, Tokens
<1>0. /\ TypeOK /\ disk \in States /\ mem \in States
      /\ caller \in {"none", "page", "setup"} /\ at \in Exchanges
      /\ accepted \in [Sessions -> SUBSET Tokens]
  BY DEF TypeOK, AccountTypeOK
<1>1. CASE CodeSent
  <2> PICK c \in Codes : Hold(caller, "saving", [mem EXCEPT !.code = c])
    BY <1>1 DEF CodeSent
  <2>1. [mem EXCEPT !.code = c].session = mem.session
    BY <1>0 DEF States
  <2> QED BY <1>0, <1>1, <2>1 DEF CodeSent
<1>2. CASE LoginArrives
  <2> PICK s \in Sessions : LoginAccepted(s)
      /\ Hold(caller, "saving", [mem EXCEPT !.session = s, !.code = None])
      /\ UNCHANGED <<disk, auto, otp, returned, verified, old, misread>>
    BY <1>2 DEF LoginArrives
  <2>1. [mem EXCEPT !.session = s, !.code = None].session = s /\ s # None /\ s # disk.session
    BY <1>0 DEF States, LoginAccepted
  <2>2. at = "login"
    BY DEF LoginAccepted
  <2> QED BY <1>0, <2>1, <2>2
<1>3. CASE AnswerLost
  <2> PICK s \in Sessions : LoginAccepted(s)
    BY <1>3 DEF AnswerLost
  <2> QED BY <1>0, <1>3, LoginKeeps DEF AnswerLost, Fails, Release, Empty
<1>4. CASE NoAnswer
  BY <1>0, <1>4 DEF NoAnswer, Fails, Release, Empty
<1>5. CASE Listed
  BY <1>0, <1>5 DEF Listed, Release, Empty
<1>6. CASE Rejected
  <2>1. Dropped(mem) \in States /\ Dropped(mem).session = None /\ ~Live(Dropped(mem))
    BY <1>0 DEF Dropped, States, Live
  <2>2. CASE at = "session" /\ Hold(caller, "master", mem) /\ UNCHANGED returned
    BY <1>0, <1>6, <2>2 DEF Rejected, ReadAsRejected, Rejects, Accepts
  <2>3. CASE at = "master" /\ Pair(Dropped(mem))
    <3>1. accepted[disk.session] \subseteq misread'
      <4>1. disk.session \in Sessions /\ disk.session = mem.session
        BY <1>0, <2>3 DEF States
      <4>2. accepted[disk.session] \subseteq Tokens
        BY <1>0, <4>1
      <4>3. /\ "session" \notin accepted[disk.session] \ misread'
            /\ "master" \notin accepted[disk.session] \ misread'
        BY <1>6, <2>3, <4>1 DEF Rejected, ReadAsRejected, Rejects, Accepts
      <4> QED BY <4>2, <4>3
    <3>2. UNCHANGED <<disk, verified, accepted>>
      BY <1>6 DEF Rejected
    <3>3. /\ caller' = "setup" /\ at' \in {"otp", "login", "saving"}
          /\ mem'.session = None /\ returned' = returned
      BY <2>1, <2>3, PairHolds
    <3> QED BY <1>0, <2>3, <3>1, <3>2, <3>3
  <2> QED BY <1>6, <2>2, <2>3 DEF Rejected
<1>7. CASE SessionSaved
  <2>1. disk' = mem /\ mem.session # None /\ at = "saving"
    BY <1>7 DEF SessionSaved, Replaced, NewSession
  <2>2. CASE caller = "setup" /\ Hold("setup", "session", mem) /\ UNCHANGED <<returned, verified>>
    BY <1>0, <1>7, <2>1, <2>2 DEF SessionSaved
  <2>3. CASE caller = "page" /\ Release("ok") /\ verified' = TRUE
    BY <1>0, <1>7, <2>1, <2>3 DEF SessionSaved, Release, Empty
  <2> QED BY <1>7, <2>2, <2>3 DEF SessionSaved
<1>8. CASE StateSaved
  <2>1. disk' = mem /\ at = "saving" /\ (mem.session = None \/ mem.session = disk.session)
    BY <1>8 DEF StateSaved, Replaced, NewSession
  <2> QED BY <1>0, <1>8, <2>1 DEF StateSaved, Release, Empty
<1>9. CASE SaveFails
  BY <1>0, <1>9 DEF SaveFails, Fails, Release, Empty
<1> QED BY <1>1, <1>2, <1>3, <1>4, <1>5, <1>6, <1>7, <1>8, <1>9 DEF ProviderStep

(* The invariant holds at the start, and every action keeps it. *)
LEMMA InitInv == Init => Inv
<1> SUFFICES ASSUME Init PROVE Inv
  OBVIOUS
<1>1. TypeOK
  BY InitTypeOK
<1> QED BY <1>1 DEF Init, AccountInit, Empty, Inv, Copies, GivenUp, Turns, PageMeansUnpaired, Status, Tokens

(* The steps of the setup command, of the page and of the outside world.   *)
LEMMA StepInv == Inv /\ [Next]_vars => Inv'
<1> SUFFICES ASSUME Inv, [Next]_vars PROVE Inv'
  OBVIOUS
<1>0. TypeOK'
  BY StepTypeOK DEF Inv
<1> USE <1>0 DEF Inv, Copies, GivenUp, Turns, PageMeansUnpaired, Status, heldVars, serverVars
<1>00. /\ disk \in States /\ mem \in States
       /\ caller \in {"none", "page", "setup"} /\ at \in Exchanges
       /\ accepted \in [Sessions -> SUBSET Tokens]
  BY DEF TypeOK, AccountTypeOK
<1>1. CASE Start
  BY <1>1 DEF Start
<1>2. CASE Restores
  <2>1. caller = "none" /\ phase \in {"restoring", "again"} /\ returned = "none"
        /\ UNCHANGED <<phase, disk, verified, accepted>>
    BY <1>2 DEF Restores, Restore
  <2>2. CASE disk.session # None /\ Hold("setup", "session", disk) /\ UNCHANGED returned
    BY <2>1, <2>2 DEF Hold, Tokens
  <2>3. CASE disk.session = None /\ Pair(disk)
    BY <1>00, <2>1, <2>3, PairHolds DEF Tokens
  <2> QED BY <1>2, <2>2, <2>3 DEF Restores, Restore
<1>3. CASE OpenPage
  BY <1>3 DEF OpenPage, NeedsPage
<1>4. CASE Return \/ Killed
  BY <1>4 DEF Return, Killed, Ends, Hold, Empty, Tokens
<1>5. CASE HandleCode
  <2> PICK e \in Emails : RequestCode(e)
    BY <1>5 DEF HandleCode
  <2>1. [disk EXCEPT !.email = e].session = disk.session
    BY <1>00 DEF States
  <2> QED BY <1>5, <2>1 DEF HandleCode, RequestCode, Hold, Tokens
<1>6. CASE HandleVerify
  BY <1>6 DEF HandleVerify, SubmitCode, Hold, Tokens
<1>7. CASE Paired
  BY <1>7 DEF Paired, accountVars
<1>8. ASSUME ProviderStep, UNCHANGED <<phase, pairUI>> PROVE Inv'
  BY <1>8, ProviderInv
<1>9. ASSUME NEW c \in Codes, Age(c), UNCHANGED <<phase, pairUI>> PROVE Inv'
  BY <1>9 DEF Age
<1>10. ASSUME NEW s \in Sessions, NEW token \in Tokens, ServerForgets(s, token),
              UNCHANGED <<phase, pairUI>>
       PROVE  Inv'
  <2>1. \A x \in Sessions : accepted'[x] \subseteq accepted[x]
    BY <1>00, <1>10 DEF ServerForgets
  <2>2. at \in Tokens => mem.session \in Sessions
    BY <1>00 DEF States
  <2>3. disk.session # None => disk.session \in Sessions
    BY <1>00 DEF States
  <2>4. UNCHANGED <<disk, caller, at, mem, returned, verified, phase, misread>>
    BY <1>10 DEF ServerForgets
  <2>5. at = "master" => "session" \notin accepted'[mem.session] \ misread
    BY <2>1, <2>2 DEF Tokens
  <2>6. GivenUp'
    BY <2>1, <2>3, <2>4
  <2> QED BY <2>4, <2>5, <2>6
<1>11. CASE UNCHANGED vars
  BY <1>11 DEF vars, accountVars
<1> QED BY <1>1, <1>2, <1>3, <1>4, <1>5, <1>6, <1>7, <1>8, <1>9, <1>10, <1>11 DEF Next

(* Whose copy of the state the provider works on, through restores, page   *)
(* handlers, lost answers, failed saves and kills.                         *)
THEOREM AccountHeld == Spec => []Inv
BY InitInv, StepInv, PTL DEF Spec

(* The page is up only over an account that has no session, or has just    *)
(* been verified.                                                          *)
THEOREM PageUnpaired == Spec => []PageMeansUnpaired
<1>1. Inv => PageMeansUnpaired
  BY DEF Inv
<1> QED BY <1>1, AccountHeld, PTL

(* Only a save changes the file, and what it drops the server rejected.    *)
LEMMA StepKeepsSession ==
    ASSUME Inv, [Next]_vars, disk.session # None, disk'.session = None
    PROVE  accepted[disk.session] \subseteq misread
<1>1. CASE disk' = mem /\ at = "saving"
  BY <1>1 DEF Inv, GivenUp, Copies
<1>2. CASE disk' = disk
  BY <1>2
<1>3. disk' = disk \/ (disk' = mem /\ at = "saving")
  <2> USE DEF heldVars, serverVars
  <2>1. ASSUME ProviderStep PROVE disk' = disk \/ (disk' = mem /\ at = "saving")
    BY <2>1 DEF ProviderStep, CodeSent, LoginArrives, AnswerLost, NoAnswer, Listed, Rejected,
      SessionSaved, StateSaved, Replaced, SaveFails, Fails
  <2> QED BY <2>1 DEF Next, vars, accountVars, Start, Restores, Restore, OpenPage, Return, Ends,
      Killed, HandleCode, RequestCode, HandleVerify, SubmitCode, Paired, Age, ServerForgets
<1> QED BY <1>1, <1>2, <1>3

(* A stored session is given up only when the server has answered each of  *)
(* its tokens with a rejection, or with what is read as one.               *)
THEOREM SessionsKept == Spec => SessionKept
<1>1. ASSUME Inv, [Next]_vars
      PROVE  [disk.session # None /\ disk'.session = None => accepted[disk.session] \subseteq misread]_vars
  BY <1>1, StepKeepsSession
<1> QED BY <1>1, AccountHeld, PTL DEF Spec, SessionKept
=============================================================================

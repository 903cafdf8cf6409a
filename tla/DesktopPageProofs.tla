------------------------- MODULE DesktopPageProofs -------------------------
(***************************************************************************)
(* What MCDesktopPage checks of the runs of the synchronisation, of the    *)
(* layers of the launchpad and its icons, of the dialogs, the menus and    *)
(* the settings, and of what belongs to a user - the preferences and the   *)
(* account - for any servers, accounts, engines, groups, cards, files and  *)
(* bounds.                                                                 *)
(***************************************************************************)
EXTENDS MCDesktopPage, FiniteSetTheorems, SequenceTheorems, WellFoundedInduction, TLAPS

-----------------------------------------------------------------------------
LEMMA Bounds == {MaxAlerts, LayerEvents, IconEvents} \subseteq Nat
  BY DesktopPageAssumption

-----------------------------------------------------------------------------
(* Runs of the synchronisation.                                            *)

Working  == {"verify", "refresh", "compat", "start", "log", "chunks", "complete", "apply", "close"}
Deciding == {"drop", "sign out", "failed"}
Gone     == {"AuthUserDeleted", "AuthUserNotFound"}
Closed   == {"AuthUserDisabled", "AuthTokenExpired"}

RunTypes ==
    /\ Runs!TypeOK
    /\ run = [at |-> run.at, error |-> run.error, resent |-> run.resent, caught |-> run.caught]
    /\ trouble \in BOOLEAN /\ cleared \in BOOLEAN

(* The account was signed in at the server it is bound to, and leaves the  *)
(* device when that server has deleted it.                                 *)
BoundInv ==
    /\ standing[device.bound] # "unknown"
    /\ Runs!DroppedOnlyIfDeleted
    /\ run.at = "drop" => standing[device.bound] \in {"deleted", "cleaned"}

(* Up to its last step a run has an account that is signed in, a client    *)
(* that fits from the check on, a session from the start on.               *)
WorkInv ==
    run.at \in Working =>
        /\ device.here /\ device.signedIn /\ ~cleared
        /\ run.at \in {"verify", "refresh", "compat", "start"} => opened = 0
        /\ run.at \in {"start", "log", "chunks", "complete", "apply", "close"} =>
              fits[device.address] = "fits"
        /\ run.at \in {"chunks", "complete", "apply", "close"} => log = "running" \/ trouble
        /\ run.at \in {"apply", "close"} => word = Runs!OK

(* A run that decides does so by the last word of the server.              *)
DecideInv ==
    run.at \in Deciding =>
        /\ device.here /\ (device.signedIn <=> ~cleared)
        /\ ~trouble =>
             /\ word # Runs!OK
             /\ run.at = "drop" <=> word.code \in Gone
             /\ run.at = "sign out" <=> word.code \in Closed
             /\ opened # 0 => log = "running"
             /\ opened # 0 /\ ~run.caught => word = Runs!TokenExpired

EndInv == Runs!RefusalsAreObeyed /\ Runs!LogTellsTheEnd

RunInv == RunTypes /\ BoundInv /\ Runs!OnlyFittingClientsSync /\ WorkInv /\ DecideInv /\ EndInv

-----------------------------------------------------------------------------
(* Errors: every refusal by its code and its text, and what a run makes of *)
(* the exception it turns into.                                            *)

LEMMA RefusalsListed ==
    ASSUME NEW r \in Runs!Refusals
    PROVE  /\ r.code \in {"AuthWrongCredentials", "AuthUserNotFound", "AuthUserDisabled",
                          "AuthUserDeleted", "AuthTokenInvalid", "AuthTokenExpired",
                          "SyncClientVersionMismatch", "SyncProtocolMismatch",
                          "RequestBadRequest", "InternalDbError"}
           /\ r.says = "not found" <=> r.code = "AuthUserNotFound"
           /\ r.says = "deleted" <=> r.code = "AuthUserDeleted"
           /\ r.says = "disabled" <=> r.code = "AuthUserDisabled"
           /\ r.says = "expired" <=> r.code = "AuthTokenExpired"
           /\ r # Runs!OK
           /\ r.code = "AuthTokenExpired" => r = Runs!TokenExpired
<1> DEFINE Said(x, c, s) == x.code = c /\ x.says = s
<1>1. /\ Said(Runs!WrongCredentials, "AuthWrongCredentials", "other")
      /\ Said(Runs!UserNotFound, "AuthUserNotFound", "not found")
      /\ Said(Runs!UserDisabled, "AuthUserDisabled", "disabled")
      /\ Said(Runs!UserDeleted, "AuthUserDeleted", "deleted")
      /\ Said(Runs!InvalidToken, "AuthTokenInvalid", "other")
      /\ Said(Runs!TokenExpired, "AuthTokenExpired", "expired")
      /\ Said(Runs!VersionMismatch, "SyncClientVersionMismatch", "other")
      /\ Said(Runs!ProtocolMismatch, "SyncProtocolMismatch", "other")
      /\ Said(Runs!BadRequest, "RequestBadRequest", "other")
      /\ Said(Runs!Sqlx, "InternalDbError", "other")
      /\ Runs!OK.code = "OK"
  BY DEF Runs!Refused, Runs!OK, Runs!WrongCredentials, Runs!UserNotFound,
         Runs!UserDisabled, Runs!UserDeleted, Runs!InvalidToken, Runs!TokenExpired,
         Runs!VersionMismatch, Runs!ProtocolMismatch, Runs!BadRequest, Runs!Sqlx
<1> QED
  BY <1>1 DEF Runs!Refusals

LEMMA SenseIsKept ==
    ASSUME NEW r \in Runs!Refusals, NEW wrapped \in {"body", "text", "prefixed"}, NEW fallback
    PROVE  Runs!NormalizeAppException(r, wrapped, fallback) = Runs!Failure(r)
<1>1. Runs!Failure(r).code # Runs!NoPayload.code
  BY RefusalsListed DEF Runs!Failure, Runs!NoPayload
<1>2. Runs!Failure(r) # Runs!NoPayload
  BY ONLY <1>1
<1>3. Runs!ExtractPayload(r, wrapped) = Runs!Failure(r)
  BY DEF Runs!ExtractPayload
<1> QED
  BY ONLY <1>2, <1>3 DEF Runs!NormalizeAppException

LEMMA CallsKeepCodes ==
    ASSUME NEW r \in Runs!Refusals
    PROVE  Runs!CallTauri(r, "text").code = r.code /\ Runs!CallTauri(r, "text").says = r.says
  BY SenseIsKept DEF Runs!CallTauri, Runs!Failure

(* Whether the code is at hand or only the text, the decision is the same. *)
LEMMA HandlersAgree ==
    ASSUME NEW r \in Runs!Refusals, NEW e,
           \/ e.says = r.says /\ e.code \in {"none", r.code}
           \/ e.says = "other" /\ e.code = r.code
    PROVE  /\ Runs!Handler(e) \in Deciding
           /\ Runs!Handler(e) = "drop" <=> r.code \in Gone
           /\ Runs!Handler(e) = "sign out" <=> r.code \in Closed
  BY RefusalsListed
     DEF Runs!Handler, Runs!AccountDeleted, Runs!AccountDisabled, Runs!TokenExpires,
         Deciding, Gone, Closed

-----------------------------------------------------------------------------
(* What a server may answer.                                               *)

RefusalsByName ==
    /\ Runs!TokenExpired \in Runs!Refusals /\ Runs!TokenExpired.code = "AuthTokenExpired"
    /\ Runs!InvalidToken \in Runs!Refusals /\ Runs!InvalidToken.code = "AuthTokenInvalid"
    /\ Runs!UserNotFound \in Runs!Refusals /\ Runs!UserNotFound.code = "AuthUserNotFound"
    /\ Runs!UserDeleted \in Runs!Refusals /\ Runs!UserDeleted.code = "AuthUserDeleted"
    /\ Runs!UserDisabled \in Runs!Refusals /\ Runs!UserDisabled.code = "AuthUserDisabled"
    /\ Runs!VersionMismatch \in Runs!Refusals /\ Runs!VersionMismatch.code = "SyncClientVersionMismatch"
    /\ Runs!ProtocolMismatch \in Runs!Refusals /\ Runs!ProtocolMismatch.code = "SyncProtocolMismatch"
    /\ Runs!BadRequest \in Runs!Refusals /\ Runs!BadRequest.code = "RequestBadRequest"
    /\ Runs!Sqlx \in Runs!Refusals /\ Runs!Sqlx.code = "InternalDbError"

LEMMA Named == RefusalsByName
<1>1. /\ Runs!TokenExpired.code = "AuthTokenExpired" /\ Runs!InvalidToken.code = "AuthTokenInvalid"
      /\ Runs!UserNotFound.code = "AuthUserNotFound" /\ Runs!UserDeleted.code = "AuthUserDeleted"
      /\ Runs!UserDisabled.code = "AuthUserDisabled"
      /\ Runs!VersionMismatch.code = "SyncClientVersionMismatch"
      /\ Runs!ProtocolMismatch.code = "SyncProtocolMismatch"
      /\ Runs!BadRequest.code = "RequestBadRequest" /\ Runs!Sqlx.code = "InternalDbError"
  BY DEF Runs!Refused, Runs!UserNotFound, Runs!UserDisabled, Runs!UserDeleted, Runs!InvalidToken,
         Runs!TokenExpired, Runs!VersionMismatch, Runs!ProtocolMismatch, Runs!BadRequest, Runs!Sqlx
<1> QED
  BY <1>1 DEF Runs!Refusals, RefusalsByName

LEMMA TokenAnswers ==
    ASSUME NEW r \in Runs!TokenRefusals
    PROVE  r \in Runs!Refusals /\ r.code \in {"AuthTokenExpired", "AuthTokenInvalid"}
  BY Named DEF Runs!TokenRefusals, RefusalsByName

DeletedThere == standing[device.bound] \in {"deleted", "cleaned"}

LEMMA StandingAnswers ==
    ASSUME RunTypes, BoundInv, device.address = device.bound, NEW r \in Runs!StandingRefusals
    PROVE  r \in Runs!Refusals /\ (r.code \in Gone => DeletedThere)
<1>1. r \in Runs!Refusals
  BY Named DEF Runs!StandingRefusals, RefusalsByName
<1>2. CASE standing[device.bound] = "disabled"
  <2>1. r = Runs!UserDisabled
    BY <1>2 DEF Runs!StandingRefusals
  <2> QED
    BY <1>1, <2>1, Named DEF Gone, RefusalsByName
<1>3. CASE standing[device.bound] # "disabled"
  BY <1>1, <1>3 DEF Runs!StandingRefusals, BoundInv, DeletedThere
<1> QED
  BY <1>2, <1>3

LEMMA CheckAnswers ==
    ASSUME RunTypes, BoundInv, NEW r \in Runs!CheckAuthStatus
    PROVE  r \in Runs!Refusals /\ (r.code \in Gone => DeletedThere)
<1>1. CASE r \in Runs!TokenRefusals
  BY <1>1, TokenAnswers DEF Gone
<1>2. CASE r \notin Runs!TokenRefusals
  <2>1. Runs!TokenRefusals = {} /\ r \in Runs!StandingRefusals
    BY <1>2 DEF Runs!CheckAuthStatus
  <2>2. device.address = device.bound
    BY <2>1 DEF Runs!TokenRefusals, Runs!ValidateServerInstance
  <2> QED
    BY <2>1, <2>2, StandingAnswers
<1> QED
  BY <1>1, <1>2

LEMMA RefreshAnswers ==
    ASSUME RunTypes, BoundInv, NEW r \in Runs!RefreshUserTokens
    PROVE  r \in Runs!Refusals /\ (r.code \in Gone => DeletedThere)
<1>1. CASE r = Runs!InvalidToken
  BY <1>1, Named DEF RefusalsByName, Gone
<1>2. CASE r # Runs!InvalidToken
  <2>1. device.address = device.bound
    BY <1>2 DEF Runs!RefreshUserTokens
  <2>2. CASE standing[device.bound] = "deleted"
    BY <2>1, <2>2, <1>2, Named DEF Runs!RefreshUserTokens, RefusalsByName, DeletedThere
  <2>3. CASE standing[device.bound] # "deleted"
    <3>1. r \in Runs!StandingRefusals
      BY <2>1, <2>3, <1>2 DEF Runs!RefreshUserTokens
    <3> QED
      BY <2>1, <3>1, StandingAnswers
  <2> QED
    BY <2>2, <2>3
<1> QED
  BY <1>1, <1>2

LEMMA FitAnswers ==
    ASSUME RunTypes
    PROVE  /\ \A r \in Runs!CheckCompatibility :
                r \in Runs!Refusals /\ r.code \notin Gone \cup Closed
           /\ Runs!CheckCompatibility = {} => fits[device.address] = "fits"
<1>1. fits[device.address] \in Runs!Fit
  BY DEF RunTypes, Runs!TypeOK, Runs!Device
<1> QED
  BY <1>1, Named DEF Runs!CheckCompatibility, Runs!Fit, RefusalsByName, Gone, Closed

-----------------------------------------------------------------------------
(* The run has come to the decision the refusal r asks for.                *)
Decided(r) ==
    /\ run'.at \in Deciding
    /\ run'.at = "drop" <=> r.code \in Gone
    /\ run'.at = "sign out" <=> r.code \in Closed
    /\ run'.resent = FALSE /\ run'.caught \in BOOLEAN
    /\ run' = [at |-> run'.at, error |-> run'.error, resent |-> run'.resent, caught |-> run'.caught]

LEMMA CaughtDecides ==
    ASSUME NEW r \in Runs!Refusals, NEW e, Runs!Caught(e),
           e.says = r.says, e.code \in {"none", r.code}
    PROVE  Decided(r) /\ run'.caught
<1>1. /\ run'.at = Runs!Handler(e) /\ run'.resent = FALSE /\ run'.caught = TRUE
      /\ run' = [at |-> run'.at, error |-> run'.error, resent |-> run'.resent, caught |-> run'.caught]
  BY DEF Runs!Caught
<1> QED
  BY <1>1, HandlersAgree DEF Decided

LEMMA PlainDecides ==
    ASSUME NEW r \in Runs!Refusals, Runs!Caught(Runs!Plain(r))
    PROVE  Decided(r) /\ run'.caught
<1>1. Runs!Plain(r).says = r.says /\ Runs!Plain(r).code = "none"
  BY DEF Runs!Plain
<1> QED
  BY <1>1, CaughtDecides

LEMMA ResolvedDecides ==
    ASSUME NEW r \in Runs!Refusals, Runs!Resolved(r)
    PROVE  /\ Decided(r)
           /\ run'.caught \/ r.code \in {"AuthTokenExpired", "AuthUserDisabled", "AuthUserDeleted", "AuthUserNotFound"}
<1> DEFINE e == [code |-> r.code, says |-> "other"]
<1>1. CASE r.code \in {"AuthTokenExpired", "AuthUserDisabled", "AuthUserDeleted", "AuthUserNotFound"}
  <2>1. run' = [at |-> Runs!Handler(e), error |-> Runs!NoError, resent |-> FALSE, caught |-> FALSE]
    BY <1>1 DEF Runs!Resolved
  <2>2. /\ run'.at = Runs!Handler(e) /\ run'.resent = FALSE /\ run'.caught = FALSE
        /\ run' = [at |-> run'.at, error |-> run'.error, resent |-> run'.resent, caught |-> run'.caught]
    BY <2>1
  <2>3. e.code = r.code /\ e.says = "other"
    OBVIOUS
  <2> HIDE DEF e
  <2> QED
    BY <1>1, <2>2, <2>3, HandlersAgree DEF Decided
<1>2. CASE r.code \notin {"AuthTokenExpired", "AuthUserDisabled", "AuthUserDeleted", "AuthUserNotFound"}
  BY <1>2, PlainDecides DEF Runs!Resolved
<1> QED
  BY <1>1, <1>2

(* A refusal ends the work of a run and decides what comes next.           *)
LEMMA Decides ==
    ASSUME RunInv, word' \in Runs!Refusals,
           Decided(word'),
           device' \in Runs!Device, device'.bound = device.bound, device'.here,
           device'.signedIn <=> ~cleared', cleared' \in BOOLEAN,
           UNCHANGED <<standing, fits, opened, log, trouble>>,
           word'.code \in Gone => DeletedThere,
           opened # 0 => log = "running" \/ trouble,
           opened # 0 /\ ~run'.caught => word' = Runs!TokenExpired
    PROVE  RunInv'
<1>1. /\ run'.at \in Deciding
      /\ run'.at = "drop" <=> word'.code \in Gone
      /\ run'.at = "sign out" <=> word'.code \in Closed
      /\ run'.resent = FALSE /\ run'.caught \in BOOLEAN
      /\ run' = [at |-> run'.at, error |-> run'.error, resent |-> run'.resent, caught |-> run'.caught]
  BY DEF Decided
<1>3. RunTypes'
  <2>1. run'.at \in Runs!Steps
    BY <1>1 DEF Deciding, Runs!Steps
  <2> QED
    BY <1>1, <2>1 DEF RunInv, RunTypes, Runs!TypeOK
<1>4. BoundInv' /\ Runs!OnlyFittingClientsSync'
  BY <1>1 DEF RunInv, BoundInv, Runs!DroppedOnlyIfDeleted, Runs!OnlyFittingClientsSync, DeletedThere
<1>5. WorkInv' /\ EndInv'
  BY <1>1 DEF WorkInv, EndInv, Working, Deciding, Runs!RefusalsAreObeyed, Runs!LogTellsTheEnd
<1>6. DecideInv'
  BY <1>1, RefusalsListed DEF RunInv, DecideInv
<1> QED
  BY <1>3, <1>4, <1>5, <1>6 DEF RunInv

LEMMA RunStarts == Runs!Init => RunInv
<1> SUFFICES ASSUME Runs!Init PROVE RunInv
  OBVIOUS
<1>1. PICK i \in Instances :
        /\ standing = [j \in Instances |-> IF j = i THEN "good" ELSE "unknown"]
        /\ device = [here |-> TRUE, signedIn |-> TRUE, active |-> TRUE,
                     address |-> i, bound |-> i, fresh |-> TRUE]
  BY DEF Runs!Init
<1>2. /\ fits \in [Instances -> Runs!Fit] /\ run = Runs!Idle /\ log = "none"
      /\ opened = 0 /\ word = Runs!OK /\ cleared = FALSE /\ trouble = FALSE
  BY DEF Runs!Init
<1>3. /\ run.at = "idle" /\ run.resent = FALSE /\ run.caught = FALSE
      /\ run = [at |-> run.at, error |-> run.error, resent |-> run.resent, caught |-> run.caught]
  BY <1>2 DEF Runs!Idle
<1>4. device.here /\ device.signedIn /\ device.bound = i /\ device \in Runs!Device
  BY <1>1 DEF Runs!Device
<1>5. standing[i] = "good" /\ standing \in [Instances -> Runs!Standing]
  BY <1>1 DEF Runs!Standing
<1>6. RunTypes
  BY <1>2, <1>3, <1>4, <1>5 DEF RunTypes, Runs!TypeOK
<1> QED
  BY <1>2, <1>3, <1>4, <1>5, <1>6
     DEF RunInv, BoundInv, Runs!DroppedOnlyIfDeleted, Runs!OnlyFittingClientsSync, WorkInv,
         DecideInv, EndInv, Runs!RefusalsAreObeyed, Runs!LogTellsTheEnd, Working, Deciding

(* What a step that goes on without a decision has to show.                *)
Going(at) == run' = [at |-> at, error |-> run.error, resent |-> FALSE, caught |-> run.caught]

LEMMA GoesOn ==
    ASSUME RunTypes, NEW at, Runs!Goes(at)
    PROVE  Going(at) /\ run'.at = at /\ run'.caught = run.caught /\ run'.resent = FALSE
                /\ run' = [at |-> run'.at, error |-> run'.error,
                           resent |-> run'.resent, caught |-> run'.caught]
  BY DEF RunTypes, Runs!Goes, Going

LEMMA StepStartSync == RunInv /\ Runs!StartSync => RunInv'
<1> SUFFICES ASSUME RunInv, Runs!StartSync PROVE RunInv'
  OBVIOUS
<1>1. /\ device.active /\ device.signedIn
      /\ opened' = 0 /\ word' = Runs!OK /\ cleared' = FALSE /\ trouble' = FALSE /\ log' = "none"
      /\ standing' = standing /\ fits' = fits /\ device' = device
  BY DEF Runs!StartSync
<1>2. /\ run'.at = "verify" /\ run'.resent = FALSE /\ run'.caught = FALSE
      /\ run' = [at |-> run'.at, error |-> run'.error, resent |-> run'.resent, caught |-> run'.caught]
  BY DEF Runs!StartSync, Runs!Idle
<1>3. device.here /\ RunTypes'
  BY <1>1, <1>2 DEF RunInv, RunTypes, Runs!TypeOK, Runs!Steps
<1> QED
  BY <1>1, <1>2, <1>3
     DEF RunInv, BoundInv, Runs!DroppedOnlyIfDeleted, Runs!OnlyFittingClientsSync, WorkInv,
         DecideInv, EndInv, Runs!RefusalsAreObeyed, Runs!LogTellsTheEnd, Working, Deciding

LEMMA StepCheck == RunInv /\ Runs!CheckTokenAndUser => RunInv'
<1> SUFFICES ASSUME RunInv, Runs!CheckTokenAndUser PROVE RunInv'
  OBVIOUS
<1>1. /\ run.at = "verify"
      /\ standing' = standing /\ fits' = fits /\ device' = device /\ log' = log
      /\ opened' = opened /\ cleared' = cleared /\ trouble' = trouble
  BY DEF Runs!CheckTokenAndUser
<1>2. device.here /\ device.signedIn /\ ~cleared /\ opened = 0
  BY <1>1 DEF RunInv, WorkInv, Working
<1>3. ASSUME NEW at \in {"compat", "refresh"}, Runs!Goes(at), word' \in Runs!Refusals \cup {Runs!OK}
      PROVE  RunInv'
  <2>1. run'.at = at /\ RunTypes'
    BY <1>1, <1>3, GoesOn DEF RunInv, RunTypes, Runs!TypeOK, Runs!Steps
  <2> QED
    BY <1>1, <1>2, <2>1
       DEF RunInv, BoundInv, Runs!DroppedOnlyIfDeleted, Runs!OnlyFittingClientsSync, WorkInv,
           DecideInv, EndInv, Runs!RefusalsAreObeyed, Runs!LogTellsTheEnd, Working, Deciding
<1>4. CASE word' = Runs!OK /\ Runs!Goes("compat")
  BY <1>3, <1>4
<1>5. ASSUME NEW r \in Runs!CheckAuthStatus, word' = r, Runs!Goes("refresh")
      PROVE  RunInv'
  BY <1>3, <1>5, CheckAnswers DEF RunInv
<1>6. ASSUME NEW r \in Runs!CheckAuthStatus, word' = r, Runs!Caught(Runs!CallTauri(r, "text"))
      PROVE  RunInv'
  <2>1. r \in Runs!Refusals /\ (r.code \in Gone => DeletedThere)
    BY CheckAnswers DEF RunInv
  <2>2. device \in Runs!Device /\ cleared \in BOOLEAN
    BY DEF RunInv, RunTypes, Runs!TypeOK
  <2>3. Decided(r) /\ run'.caught
    BY <1>6, <2>1, CallsKeepCodes, CaughtDecides
  <2> QED
    BY <1>1, <1>2, <1>6, <2>1, <2>2, <2>3, Decides
<1> QED
  BY <1>4, <1>5, <1>6 DEF Runs!CheckTokenAndUser

LEMMA StepRefresh == RunInv /\ Runs!RefreshActiveSession => RunInv'
<1> SUFFICES ASSUME RunInv, Runs!RefreshActiveSession PROVE RunInv'
  OBVIOUS
<1>1. /\ run.at = "refresh"
      /\ standing' = standing /\ fits' = fits /\ log' = log /\ opened' = opened /\ trouble' = trouble
  BY DEF Runs!RefreshActiveSession
<1>2. /\ device.here /\ device.signedIn /\ ~cleared /\ opened = 0
      /\ device \in Runs!Device /\ cleared \in BOOLEAN
  BY <1>1 DEF RunInv, WorkInv, Working, RunTypes, Runs!TypeOK
<1>3. CASE /\ device' = [device EXCEPT !.fresh = TRUE]
           /\ run' = [run EXCEPT !.at = "verify", !.resent = TRUE]
           /\ UNCHANGED <<word, cleared>>
  <2>1. /\ run'.at = "verify" /\ run'.resent = TRUE /\ run'.caught = run.caught
        /\ run' = [at |-> run'.at, error |-> run'.error, resent |-> run'.resent, caught |-> run'.caught]
    BY <1>3 DEF RunInv, RunTypes
  <2>2. /\ device' \in Runs!Device /\ device'.here /\ device'.signedIn
        /\ device'.bound = device.bound /\ device'.address = device.address
    BY <1>2, <1>3 DEF Runs!Device
  <2>3. RunTypes'
    BY <1>1, <1>3, <2>1, <2>2 DEF RunInv, RunTypes, Runs!TypeOK, Runs!Steps
  <2> QED
    BY <1>1, <1>2, <1>3, <2>1, <2>2, <2>3
       DEF RunInv, BoundInv, Runs!DroppedOnlyIfDeleted, Runs!OnlyFittingClientsSync, WorkInv,
           DecideInv, EndInv, Runs!RefusalsAreObeyed, Runs!LogTellsTheEnd, Working, Deciding
<1>4. ASSUME NEW r \in Runs!RefreshUserTokens,
             device' = [device EXCEPT !.signedIn = FALSE, !.active = FALSE],
             Runs!Caught(Runs!NormalizeAppException(r, "body", "AuthTokenExpired")),
             word' = r, cleared' = TRUE
      PROVE  RunInv'
  <2>1. r \in Runs!Refusals /\ (r.code \in Gone => DeletedThere)
    BY RefreshAnswers DEF RunInv
  <2>2. Runs!Caught(Runs!Failure(r))
    BY <1>4, <2>1, SenseIsKept
  <2>3. Runs!Failure(r).code = r.code /\ Runs!Failure(r).says = r.says
    BY DEF Runs!Failure
  <2>4. Decided(r) /\ run'.caught
    BY <2>1, <2>2, <2>3, CaughtDecides
  <2>5. /\ device' \in Runs!Device /\ device'.here /\ device'.signedIn = FALSE
        /\ device'.bound = device.bound
    BY <1>2, <1>4 DEF Runs!Device
  <2> QED
    BY <1>1, <1>2, <1>4, <2>1, <2>4, <2>5, Decides
<1> QED
  BY <1>3, <1>4 DEF Runs!RefreshActiveSession

(* A step of a run that works, goes on with the next, and leaves the       *)
(* account as it is.                                                       *)
LEMMA WorksOn ==
    ASSUME RunInv, run.at \in Working, NEW at \in Working, Runs!Goes(at),
           word' \in Runs!Refusals \cup {Runs!OK}, log' \in {log, "running"},
           opened' \in {opened, device.address}, trouble' \in BOOLEAN, trouble => trouble',
           UNCHANGED <<standing, fits, device, cleared>>,
           at \notin {"verify", "refresh", "compat"} => fits[device.address] = "fits",
           at \in {"verify", "refresh", "compat", "start"} => opened' = 0,
           at \in {"chunks", "complete", "apply", "close"} => log' = "running" \/ trouble',
           at \in {"apply", "close"} => word' = Runs!OK
    PROVE  RunInv'
<1>1. run'.at = at /\ RunTypes'
  <2>1. /\ run'.at = at /\ run'.caught = run.caught /\ run'.resent = FALSE
        /\ run' = [at |-> run'.at, error |-> run'.error, resent |-> run'.resent, caught |-> run'.caught]
    BY GoesOn DEF RunInv
  <2>2. device.address \in Instances
    BY DEF RunInv, RunTypes, Runs!TypeOK, Runs!Device
  <2>3. at \in Runs!Steps
    BY DEF Working, Runs!Steps
  <2>4. /\ opened' \in Instances \cup {0} /\ word' \in Runs!Refusals \cup {Runs!OK}
        /\ log' \in {"none", "running", "success", "failed"}
    BY <2>2 DEF RunInv, RunTypes, Runs!TypeOK
  <2> QED
    BY <2>1, <2>3, <2>4 DEF RunInv, RunTypes, Runs!TypeOK
<1>2. BoundInv' /\ Runs!OnlyFittingClientsSync'
  BY <1>1 DEF RunInv, BoundInv, Runs!DroppedOnlyIfDeleted, Runs!OnlyFittingClientsSync, Working
<1>3. WorkInv'
  BY <1>1 DEF RunInv, WorkInv, Working
<1> QED
  BY <1>1, <1>2, <1>3
     DEF RunInv, DecideInv, EndInv, Runs!RefusalsAreObeyed, Runs!LogTellsTheEnd, Working, Deciding

LEMMA StepCompat == RunInv /\ Runs!CompatAnswered => RunInv'
<1> SUFFICES ASSUME RunInv, Runs!CompatAnswered PROVE RunInv'
  OBVIOUS
<1>1. /\ run.at = "compat"
      /\ standing' = standing /\ fits' = fits /\ device' = device /\ log' = log
      /\ opened' = opened /\ cleared' = cleared /\ trouble' = trouble
  BY DEF Runs!CompatAnswered
<1>2. /\ device.here /\ device.signedIn /\ ~cleared /\ opened = 0 /\ run.at \in Working
      /\ device \in Runs!Device /\ cleared \in BOOLEAN /\ trouble \in BOOLEAN
  BY <1>1 DEF RunInv, WorkInv, Working, RunTypes, Runs!TypeOK
<1>3. CASE Runs!CheckServerCompatibility = {} /\ word' = Runs!OK /\ Runs!Goes("start")
  <2>1. fits[device.address] = "fits" /\ "start" \in Working
    BY <1>3, FitAnswers DEF RunInv, Runs!CheckServerCompatibility, Working
  <2> QED
    BY <1>1, <1>2, <1>3, <2>1, WorksOn
<1>4. ASSUME NEW r \in Runs!CheckServerCompatibility, word' = r, Runs!Caught(Runs!Plain(r))
      PROVE  RunInv'
  <2>1. r \in Runs!Refusals /\ r.code \notin Gone
    BY <1>4, FitAnswers DEF RunInv, Runs!CheckServerCompatibility
  <2>2. Decided(r) /\ run'.caught
    BY <1>4, <2>1, PlainDecides
  <2> QED
    BY <1>1, <1>2, <1>4, <2>1, <2>2, Decides
<1> QED
  BY <1>3, <1>4 DEF Runs!CompatAnswered

LEMMA StepSyncStart == RunInv /\ Runs!SyncStart => RunInv'
<1> SUFFICES ASSUME RunInv, Runs!SyncStart PROVE RunInv'
  OBVIOUS
<1>1. /\ run.at = "start"
      /\ standing' = standing /\ fits' = fits /\ device' = device /\ log' = log
      /\ cleared' = cleared /\ trouble' = trouble
  BY DEF Runs!SyncStart
<1>2. /\ device.here /\ device.signedIn /\ ~cleared /\ opened = 0 /\ run.at \in Working
      /\ fits[device.address] = "fits"
      /\ device \in Runs!Device /\ cleared \in BOOLEAN /\ trouble \in BOOLEAN
  BY <1>1 DEF RunInv, WorkInv, Working, RunTypes, Runs!TypeOK
<1>3. CASE /\ Runs!TokenRefusals = {}
           /\ opened' = device.address /\ word' = Runs!OK
           /\ IF Runs!EnsureExpectedServerInstance THEN Runs!Goes("log") ELSE Runs!Caught(Runs!NoError)
  <2>1. Runs!EnsureExpectedServerInstance
    BY <1>3 DEF Runs!TokenRefusals, Runs!ValidateServerInstance, Runs!EnsureExpectedServerInstance
  <2>2. Runs!Goes("log") /\ "log" \in Working
    BY <1>3, <2>1 DEF Working
  <2> QED
    BY <1>1, <1>2, <1>3, <2>2, WorksOn
<1>4. ASSUME NEW r \in Runs!TokenRefusals, word' = r, Runs!Resolved(r), UNCHANGED opened
      PROVE  RunInv'
  <2>1. r \in Runs!Refusals /\ r.code \notin Gone
    BY <1>4, TokenAnswers DEF Gone
  <2>2. Decided(r)
    BY <1>4, <2>1, ResolvedDecides
  <2> QED
    BY <1>1, <1>2, <1>4, <2>1, <2>2, Decides
<1> QED
  BY <1>3, <1>4 DEF Runs!SyncStart

LEMMA StepCreateLog == RunInv /\ Runs!CreateSyncLog => RunInv'
<1> SUFFICES ASSUME RunInv, Runs!CreateSyncLog PROVE RunInv'
  OBVIOUS
<1>1. /\ run.at = "log" /\ Runs!Goes("chunks")
      /\ standing' = standing /\ fits' = fits /\ device' = device
      /\ opened' = opened /\ word' = word /\ cleared' = cleared
      /\ \/ log' = "running" /\ trouble' = trouble
         \/ log' = log /\ trouble' = TRUE
  BY DEF Runs!CreateSyncLog
<1>2. /\ run.at \in Working /\ "chunks" \in Working /\ fits[device.address] = "fits"
      /\ trouble \in BOOLEAN /\ word \in Runs!Refusals \cup {Runs!OK}
  BY <1>1 DEF RunInv, WorkInv, Working, RunTypes, Runs!TypeOK
<1> QED
  BY <1>1, <1>2, WorksOn

(* What holds of a run while its data are sent.                            *)
Sending ==
    /\ device.here /\ device.signedIn /\ ~cleared /\ run.at \in Working
    /\ fits[device.address] = "fits" /\ (log = "running" \/ trouble)
    /\ device \in Runs!Device /\ cleared \in BOOLEAN /\ trouble \in BOOLEAN

LEMMA SendsWhileWorking ==
    ASSUME RunInv, run.at \in {"chunks", "complete", "apply", "close"}
    PROVE  Sending
  BY DEF Sending, RunInv, WorkInv, Working, RunTypes, Runs!TypeOK

LEMMA StepChunks == RunInv /\ Runs!SendDataInChunks => RunInv'
<1> SUFFICES ASSUME RunInv, Runs!SendDataInChunks PROVE RunInv'
  OBVIOUS
<1>1. /\ run.at = "chunks"
      /\ standing' = standing /\ fits' = fits /\ device' = device /\ log' = log
      /\ opened' = opened /\ cleared' = cleared /\ trouble' = trouble
  BY DEF Runs!SendDataInChunks
<1>2. Sending
  BY <1>1, SendsWhileWorking
<1>3. CASE Runs!TokenRefusals = {} /\ word' = Runs!OK /\ Runs!Goes("complete")
  BY <1>1, <1>2, <1>3, WorksOn DEF Sending, Working
<1>4. ASSUME NEW r \in Runs!TokenRefusals, word' = r, Runs!Caught(Runs!Plain(r))
      PROVE  RunInv'
  <2>1. r \in Runs!Refusals /\ r.code \notin Gone
    BY <1>4, TokenAnswers DEF Gone
  <2>2. Decided(r) /\ run'.caught
    BY <1>4, <2>1, PlainDecides
  <2> QED
    BY <1>1, <1>2, <1>4, <2>1, <2>2, Decides DEF Sending
<1> QED
  BY <1>3, <1>4 DEF Runs!SendDataInChunks

LEMMA StepComplete == RunInv /\ Runs!SyncComplete => RunInv'
<1> SUFFICES ASSUME RunInv, Runs!SyncComplete PROVE RunInv'
  OBVIOUS
<1>1. /\ run.at = "complete"
      /\ standing' = standing /\ fits' = fits /\ device' = device /\ log' = log
      /\ opened' = opened /\ cleared' = cleared /\ trouble' = trouble
  BY DEF Runs!SyncComplete
<1>2. Sending
  BY <1>1, SendsWhileWorking
<1>3. CASE Runs!TokenRefusals = {} /\ word' = Runs!OK /\ Runs!Goes("apply")
  BY <1>1, <1>2, <1>3, WorksOn DEF Sending, Working
<1>4. ASSUME NEW r \in Runs!TokenRefusals \cup {Runs!Sqlx}, word' = r, Runs!Resolved(r)
      PROVE  RunInv'
  <2>1. r \in Runs!Refusals /\ r.code \in {"AuthTokenExpired", "AuthTokenInvalid", "InternalDbError"}
    BY <1>4, TokenAnswers, Named DEF RefusalsByName
  <2>2. /\ Decided(r)
        /\ ~run'.caught => r = Runs!TokenExpired
    BY <1>4, <2>1, ResolvedDecides, RefusalsListed
  <2>3. r.code \notin Gone
    BY <2>1 DEF Gone
  <2> QED
    BY <1>1, <1>2, <1>4, <2>1, <2>2, <2>3, Decides DEF Sending
<1> QED
  BY <1>3, <1>4 DEF Runs!SyncComplete

LEMMA StepApply == RunInv /\ Runs!ApplySyncResult => RunInv'
<1> SUFFICES ASSUME RunInv, Runs!ApplySyncResult PROVE RunInv'
  OBVIOUS
<1>1. /\ run.at = "apply" /\ Runs!Goes("close")
      /\ standing' = standing /\ fits' = fits /\ device' = device /\ log' = log
      /\ opened' = opened /\ word' = word /\ cleared' = cleared /\ trouble' = trouble
  BY DEF Runs!ApplySyncResult, Runs!History
<1>2. Sending /\ word = Runs!OK
  BY <1>1, SendsWhileWorking DEF RunInv, WorkInv, Working
<1> QED
  BY <1>1, <1>2, WorksOn DEF Sending, Working

LEMMA StepFails == RunInv /\ Runs!Fails => RunInv'
<1> SUFFICES ASSUME RunInv, Runs!Fails PROVE RunInv'
  OBVIOUS
<1>1. /\ run.at \in {"verify", "refresh", "compat", "start", "chunks", "complete", "apply"}
      /\ trouble' = TRUE
      /\ standing' = standing /\ fits' = fits /\ device' = device /\ log' = log
      /\ opened' = opened /\ word' = word /\ cleared' = cleared
  BY DEF Runs!Fails
<1>2. device.here /\ device.signedIn /\ ~cleared
  BY <1>1 DEF RunInv, WorkInv, Working
<1>3. Runs!Handler(Runs!NoError) = "failed"
  BY DEF Runs!Handler, Runs!NoError, Runs!AccountDeleted, Runs!AccountDisabled, Runs!TokenExpires
<1>4. /\ run'.at = "failed" /\ run'.resent = FALSE /\ run'.caught = TRUE
      /\ run' = [at |-> run'.at, error |-> run'.error, resent |-> run'.resent, caught |-> run'.caught]
  BY <1>3 DEF Runs!Fails, Runs!Caught
<1>5. RunTypes'
  BY <1>1, <1>4 DEF RunInv, RunTypes, Runs!TypeOK, Runs!Steps
<1> QED
  BY <1>1, <1>2, <1>4, <1>5
     DEF RunInv, BoundInv, Runs!DroppedOnlyIfDeleted, Runs!OnlyFittingClientsSync, WorkInv,
         DecideInv, EndInv, Runs!RefusalsAreObeyed, Runs!LogTellsTheEnd, Working, Deciding

(* The end of a run: what it comes to for the account and for its log.     *)
LEMMA Ends ==
    ASSUME RunInv, Runs!Goes("done"),
           device' \in Runs!Device, device'.bound = device.bound, device'.signedIn => device'.here,
           log' \in {"none", "running", "success", "failed"}, trouble' \in BOOLEAN,
           UNCHANGED <<standing, fits, opened, word, cleared>>,
           device'.here \/ DeletedThere,
           ~trouble' => /\ ~device'.here <=> word.code \in Gone
                        /\ (device'.here /\ ~device'.signedIn) <=>
                               ((cleared \/ word.code \in Closed) /\ word.code \notin Gone),
           ~trouble' /\ opened # 0 =>
               \/ log' = "success" /\ word = Runs!OK
               \/ log' = "failed" /\ word # Runs!OK
               \/ log' = "running" /\ word = Runs!TokenExpired
    PROVE  RunInv'
<1>1. /\ run'.at = "done" /\ run'.caught = run.caught /\ run'.resent = FALSE
      /\ run' = [at |-> run'.at, error |-> run'.error, resent |-> run'.resent, caught |-> run'.caught]
  BY GoesOn DEF RunInv
<1>2. RunTypes'
  BY <1>1 DEF RunInv, RunTypes, Runs!TypeOK, Runs!Steps
<1>3. EndInv'
  BY <1>1 DEF EndInv, Runs!RefusalsAreObeyed, Runs!LogTellsTheEnd, Gone, Closed
<1> QED
  BY <1>1, <1>2, <1>3
     DEF RunInv, BoundInv, Runs!DroppedOnlyIfDeleted, Runs!OnlyFittingClientsSync, WorkInv,
         DecideInv, Working, Deciding, DeletedThere

LEMMA StepClose == RunInv /\ Runs!Close => RunInv'
<1> SUFFICES ASSUME RunInv, Runs!Close PROVE RunInv'
  OBVIOUS
<1>1. PICK written \in BOOLEAN : Runs!FinalizeSyncLog("success", written) /\ Runs!Passes(written)
  BY DEF Runs!Close
<1>2. /\ run.at = "close" /\ Runs!Goes("done")
      /\ standing' = standing /\ fits' = fits /\ device' = device
      /\ opened' = opened /\ word' = word /\ cleared' = cleared
  BY DEF Runs!Close
<1>3. Sending /\ word = Runs!OK
  BY <1>2, SendsWhileWorking DEF RunInv, WorkInv, Working
<1>4. word.code \notin Gone \cup Closed
  BY <1>3 DEF Runs!OK, Runs!Refused, Gone, Closed
<1>5. log \in {"none", "running", "success", "failed"} /\ trouble \in BOOLEAN
  BY DEF RunInv, RunTypes, Runs!TypeOK
<1>6. /\ log' = IF written /\ log = "running" THEN "success" ELSE log
      /\ trouble' = (trouble \/ ~written)
  BY <1>1, <1>5 DEF Runs!FinalizeSyncLog, Runs!Passes
<1> QED
  BY <1>2, <1>3, <1>4, <1>5, <1>6, Ends DEF Sending

(* The log of a run that has decided: written, it tells the failure.       *)
LEMMA Logs ==
    ASSUME RunInv, run.at \in Deciding, NEW written \in BOOLEAN, Runs!LogsFailure(written)
    PROVE  /\ log' \in {"none", "running", "success", "failed"}
           /\ written /\ ~trouble /\ opened # 0 =>
                \/ log' = "failed" /\ word # Runs!OK
                \/ log' = "running" /\ word = Runs!TokenExpired
<1>1. log \in {"none", "running", "success", "failed"}
  BY DEF RunInv, RunTypes, Runs!TypeOK
<1>2. ~trouble => /\ word # Runs!OK
                  /\ opened # 0 => log = "running"
                  /\ opened # 0 /\ ~run.caught => word = Runs!TokenExpired
  BY DEF RunInv, DecideInv
<1> QED
  BY <1>1, <1>2 DEF Runs!LogsFailure, Runs!FinalizeSyncLog

(* What an ending comes to: a device that did nothing wrong did both.      *)
LEMMA Endings ==
    ASSUME RunInv, run.at \in Deciding, NEW changed, Runs!Ending(changed)
    PROVE  /\ Runs!Goes("done")
           /\ UNCHANGED <<standing, fits, opened, word, cleared>>
           /\ trouble' \in BOOLEAN
           /\ device' \in {changed, device}
           /\ log' \in {"none", "running", "success", "failed"}
           /\ ~trouble' => /\ ~trouble /\ device' = changed
                           /\ opened # 0 => \/ log' = "failed" /\ word # Runs!OK
                                            \/ log' = "running" /\ word = Runs!TokenExpired
<1>1. PICK done \in BOOLEAN, written \in BOOLEAN :
          /\ device' = IF done THEN changed ELSE device
          /\ Runs!LogsFailure(written)
          /\ Runs!Passes(done /\ written)
  BY DEF Runs!Ending
<1>2. trouble \in BOOLEAN
  BY DEF RunInv, RunTypes, Runs!TypeOK
<1>3. trouble' = (trouble \/ ~(done /\ written))
  BY <1>1, <1>2 DEF Runs!Passes
<1>4. Runs!Goes("done") /\ UNCHANGED <<standing, fits, opened, word, cleared>>
  BY DEF Runs!Ending
<1>5. /\ log' \in {"none", "running", "success", "failed"}
      /\ written /\ ~trouble /\ opened # 0 =>
           \/ log' = "failed" /\ word # Runs!OK
           \/ log' = "running" /\ word = Runs!TokenExpired
  BY <1>1, Logs
<1> QED
  BY <1>1, <1>2, <1>3, <1>4, <1>5

LEMMA StepDeleted == RunInv /\ Runs!HandleAccountDeleted => RunInv'
<1> SUFFICES ASSUME RunInv, Runs!HandleAccountDeleted PROVE RunInv'
  OBVIOUS
<1>1. run.at = "drop" /\ Runs!Ending(Runs!Dropped)
  BY DEF Runs!HandleAccountDeleted
<1>2. /\ device.here /\ device \in Runs!Device /\ DeletedThere
      /\ ~trouble => word.code \in Gone
  BY <1>1 DEF RunInv, DecideInv, Deciding, RunTypes, Runs!TypeOK, BoundInv, DeletedThere
<1>3. /\ Runs!Dropped \in Runs!Device /\ Runs!Dropped.bound = device.bound
      /\ Runs!Dropped.here = FALSE /\ Runs!Dropped.signedIn = FALSE
  BY <1>2 DEF Runs!Dropped, Runs!Device
<1>4. run.at \in Deciding
  BY <1>1 DEF Deciding
<1> QED
  BY <1>1, <1>2, <1>3, <1>4, Endings, Ends

LEMMA StepSignedOut == RunInv /\ Runs!HandleSignedOut => RunInv'
<1> SUFFICES ASSUME RunInv, Runs!HandleSignedOut PROVE RunInv'
  OBVIOUS
<1>1. run.at = "sign out" /\ Runs!Ending(Runs!SignedOut)
  BY DEF Runs!HandleSignedOut
<1>2. /\ device.here /\ device \in Runs!Device
      /\ ~trouble => word.code \in Closed
  BY <1>1 DEF RunInv, DecideInv, Deciding, RunTypes, Runs!TypeOK
<1>3. /\ Runs!SignedOut \in Runs!Device /\ Runs!SignedOut.bound = device.bound
      /\ Runs!SignedOut.here /\ Runs!SignedOut.signedIn = FALSE
  BY <1>2 DEF Runs!SignedOut, Runs!Device
<1>4. word.code \in Closed => word.code \notin Gone
  BY DEF Closed, Gone
<1>5. run.at \in Deciding
  BY <1>1 DEF Deciding
<1> QED
  BY <1>1, <1>2, <1>3, <1>4, <1>5, Endings, Ends

LEMMA StepFailed == RunInv /\ Runs!HandleFailed => RunInv'
<1> SUFFICES ASSUME RunInv, Runs!HandleFailed PROVE RunInv'
  OBVIOUS
<1>1. PICK written \in BOOLEAN : Runs!LogsFailure(written) /\ Runs!Passes(written)
  BY DEF Runs!HandleFailed
<1>2. /\ run.at = "failed" /\ Runs!Goes("done")
      /\ standing' = standing /\ fits' = fits /\ device' = device
      /\ opened' = opened /\ word' = word /\ cleared' = cleared
  BY DEF Runs!HandleFailed
<1>3. /\ device.here /\ device \in Runs!Device /\ trouble \in BOOLEAN
      /\ device.signedIn <=> ~cleared
      /\ ~trouble => word.code \notin Gone \cup Closed
  BY <1>2 DEF RunInv, DecideInv, Deciding, RunTypes, Runs!TypeOK
<1>4. trouble' = (trouble \/ ~written)
  BY <1>1, <1>3 DEF Runs!Passes
<1>5. /\ log' \in {"none", "running", "success", "failed"}
      /\ written /\ ~trouble /\ opened # 0 =>
           \/ log' = "failed" /\ word # Runs!OK
           \/ log' = "running" /\ word = Runs!TokenExpired
  BY <1>1, <1>2, Logs DEF Deciding
<1> QED
  BY <1>2, <1>3, <1>4, <1>5, Ends

(* Between runs anything may happen to the account that keeps it bound.    *)
LEMMA Rests ==
    ASSUME RunInv, run' = Runs!Idle,
           device' \in Runs!Device, device'.bound = device.bound, device'.signedIn => device'.here,
           device'.here \/ DeletedThere, trouble' \in BOOLEAN,
           UNCHANGED <<standing, fits, log, opened, word, cleared>>
    PROVE  RunInv'
<1>1. /\ run'.at = "idle" /\ run'.caught = FALSE /\ run'.resent = FALSE
      /\ run' = [at |-> run'.at, error |-> run'.error, resent |-> run'.resent, caught |-> run'.caught]
  BY DEF Runs!Idle
<1>2. RunTypes'
  BY <1>1 DEF RunInv, RunTypes, Runs!TypeOK
<1> QED
  BY <1>1, <1>2
     DEF RunInv, BoundInv, Runs!DroppedOnlyIfDeleted, Runs!OnlyFittingClientsSync, WorkInv, EndInv,
         Runs!RefusalsAreObeyed, Runs!LogTellsTheEnd, DecideInv, Working, Deciding, DeletedThere

LEMMA StepRests ==
    RunInv /\ (Runs!ResetSyncState \/ Runs!Restart \/ Runs!SignIn
                 \/ \E i \in Instances : Runs!UpdateServerAddress(i)) => RunInv'
<1> SUFFICES ASSUME RunInv PROVE
      Runs!ResetSyncState \/ Runs!Restart \/ Runs!SignIn
        \/ (\E i \in Instances : Runs!UpdateServerAddress(i)) => RunInv'
  OBVIOUS
<1>1. /\ device \in Runs!Device /\ (device.signedIn => device.here) /\ trouble \in BOOLEAN
      /\ device.here \/ DeletedThere
  BY DEF RunInv, RunTypes, Runs!TypeOK, BoundInv, Runs!DroppedOnlyIfDeleted, DeletedThere
<1>2. CASE Runs!ResetSyncState
  BY <1>1, <1>2, Rests DEF Runs!ResetSyncState, Runs!History
<1>3. CASE Runs!Restart
  BY <1>1, <1>3, Rests DEF Runs!Restart
<1>4. CASE Runs!SignIn
  <2>1. /\ device'.here /\ device'.signedIn /\ device'.bound = device.bound /\ device' \in Runs!Device
    BY <1>1, <1>4 DEF Runs!SignIn, Runs!Device
  <2>2. /\ run' = Runs!Idle
        /\ UNCHANGED <<standing, fits, log, opened, word, cleared>> /\ trouble' = trouble
    BY <1>4 DEF Runs!SignIn, Runs!History
  <2> QED
    BY <1>1, <2>1, <2>2, Rests
<1>5. ASSUME NEW i \in Instances, Runs!UpdateServerAddress(i)
      PROVE  RunInv'
  <2>1. /\ device'.here = device.here /\ device'.signedIn = device.signedIn
        /\ device'.bound = device.bound /\ device' \in Runs!Device
    BY <1>1, <1>5 DEF Runs!UpdateServerAddress, Runs!Device
  <2>2. /\ run' = Runs!Idle
        /\ UNCHANGED <<standing, fits, log, opened, word, cleared>> /\ trouble' = trouble
    BY <1>5 DEF Runs!UpdateServerAddress, Runs!History
  <2> QED
    BY <1>1, <2>1, <2>2, Rests
<1> QED
  BY <1>2, <1>3, <1>4, <1>5

LEMMA StepExpires == RunInv /\ Runs!AccessExpires => RunInv'
<1> SUFFICES ASSUME RunInv, Runs!AccessExpires PROVE RunInv'
  OBVIOUS
<1>1. /\ device' = [device EXCEPT !.fresh = FALSE]
      /\ standing' = standing /\ fits' = fits /\ run' = run /\ log' = log
      /\ opened' = opened /\ word' = word /\ cleared' = cleared /\ trouble' = trouble
  BY DEF Runs!AccessExpires, Runs!History
<1>2. /\ device'.here = device.here /\ device'.signedIn = device.signedIn
      /\ device'.bound = device.bound /\ device'.address = device.address /\ device' \in Runs!Device
  BY <1>1 DEF RunInv, RunTypes, Runs!TypeOK, Runs!Device
<1>3. RunTypes'
  BY <1>1, <1>2 DEF RunInv, RunTypes, Runs!TypeOK
<1> QED
  BY <1>1, <1>2, <1>3
     DEF RunInv, BoundInv, Runs!DroppedOnlyIfDeleted, Runs!OnlyFittingClientsSync, WorkInv, EndInv,
         Runs!RefusalsAreObeyed, Runs!LogTellsTheEnd, DecideInv

LEMMA StepStanding ==
    RunInv /\ (\E i \in Instances : \E s \in Runs!Standing : Runs!SetStanding(i, s)) => RunInv'
<1> SUFFICES ASSUME RunInv, NEW i \in Instances, NEW s \in Runs!Standing, Runs!SetStanding(i, s)
             PROVE  RunInv'
  OBVIOUS
<1>1. /\ <<standing[i], s>> \in {<<"good", "disabled">>, <<"good", "deleted">>,
                                 <<"disabled", "good">>, <<"disabled", "deleted">>,
                                 <<"deleted", "cleaned">>}
      /\ standing' = [standing EXCEPT ![i] = s]
      /\ fits' = fits /\ device' = device /\ run' = run /\ log' = log
      /\ opened' = opened /\ word' = word /\ cleared' = cleared /\ trouble' = trouble
  BY DEF Runs!SetStanding, Runs!History
<1>2. device.bound \in Instances /\ standing \in [Instances -> Runs!Standing]
  BY DEF RunInv, RunTypes, Runs!TypeOK, Runs!Device
<1>3. /\ standing'[device.bound] # "unknown"
      /\ DeletedThere => standing'[device.bound] \in {"deleted", "cleaned"}
  BY <1>1, <1>2 DEF RunInv, BoundInv, DeletedThere
<1>4. RunTypes'
  BY <1>1, <1>2 DEF RunInv, RunTypes, Runs!TypeOK
<1>5. BoundInv'
  BY <1>1, <1>3 DEF RunInv, BoundInv, Runs!DroppedOnlyIfDeleted, DeletedThere
<1> QED
  BY <1>1, <1>4, <1>5
     DEF RunInv, Runs!OnlyFittingClientsSync, WorkInv, EndInv,
         Runs!RefusalsAreObeyed, Runs!LogTellsTheEnd, DecideInv

LEMMA RunStep == RunInv /\ Runs!Next => RunInv'
  BY StepStartSync, StepCheck, StepRefresh, StepCompat, StepSyncStart, StepCreateLog, StepChunks,
     StepComplete, StepApply, StepFails, StepClose, StepDeleted, StepSignedOut, StepFailed,
     StepRests, StepExpires, StepStanding, Zenon
     DEF Runs!Next

(* Errors, for every refusal and every form it may arrive in.              *)
LEMMA CodesAreKept == Runs!RefusalsKeepTheirCode
<1> SUFFICES ASSUME NEW r \in Runs!Refusals, NEW f \in Runs!Forms,
                    NEW e \in {Runs!CallTauri(r, f), Runs!ThrowApiError(r, f), Runs!ApiRefused(r, f)}
             PROVE  IF f = "garbled" THEN ~Runs!IsAuthAppError(e)
                    ELSE e = Runs!Failure(r) /\ e.category = Runs!CategoryFromErrorCode(e.code)
  BY DEF Runs!RefusalsKeepTheirCode
<1>1. CASE f # "garbled"
  <2>1. f \in {"body", "text", "prefixed"}
    BY <1>1 DEF Runs!Forms
  <2>2. \A x : Runs!NormalizeAppException(r, f, x) = Runs!Failure(r)
    BY <2>1, SenseIsKept
  <2>3. Runs!CallTauri(r, f) = Runs!Failure(r)
    BY <1>1, <2>2 DEF Runs!CallTauri, Runs!Failure
  <2>4. e = Runs!Failure(r)
    BY <1>1, <2>2, <2>3 DEF Runs!ThrowApiError, Runs!ApiRefused
  <2> QED
    BY <1>1, <2>4 DEF Runs!Failure
<1>2. CASE f = "garbled"
  <2>1. \A x : Runs!NormalizeAppException(r, f, x).code = x
    BY <1>2 DEF Runs!NormalizeAppException, Runs!ExtractPayload, Runs!CreateAppException
  <2>2. Runs!CallTauri(r, f).code = "TauriInvokeFailed"
    <3>1. Runs!NormalizeAppException(r, f, "TauriInvokeFailed")
            = [Runs!CreateAppException("TauriInvokeFailed", "other") EXCEPT !.status = r.status]
      BY <1>2 DEF Runs!NormalizeAppException, Runs!ExtractPayload
    <3> QED
      BY <3>1 DEF Runs!CallTauri, Runs!CreateAppException
  <2>3. e.code \in {"TauriInvokeFailed", "RequestBadRequest", "NetworkRequestFailed"}
    BY <1>2, <2>1, <2>2 DEF Runs!ThrowApiError, Runs!ApiRefused, Runs!CreateAppException
  <2> QED
    BY <1>2, <2>3 DEF Runs!IsAuthAppError, Runs!AuthErrorCodes
<1> QED
  BY <1>1, <1>2

LEMMA Retries == Runs!RetriesCanHelp
<1>1. \A c : Runs!IsRetryableErrorCode(c) <=>
          c \in {"InternalServerError", "InternalDbError", "InternalIoError",
                 "NetworkRequestFailed", "RequestTimeout"}
  BY DEF Runs!IsRetryableErrorCode, Runs!CodesOf
<1>2. \A w \in {"aborted", "typeError"} : Runs!Thrown(w).retryable
  BY <1>1 DEF Runs!Thrown, Runs!CreateAppException
<1>3. ASSUME NEW r \in Runs!Refusals, Runs!IsRefreshableAuthError(r)
      PROVE  ~Runs!Failure(r).retryable
  <2>1. r.status = 401 \/ r.code \in {"AuthTokenExpired", "AuthTokenInvalid"}
    BY <1>3 DEF Runs!IsRefreshableAuthError
  <2>2. r.code # "InternalDbError"
    <3>1. Runs!Sqlx.status = 400
      BY DEF Runs!Sqlx, Runs!Refused
    <3>2. r.code = "InternalDbError" => r = Runs!Sqlx
      BY Named DEF Runs!Refusals, RefusalsByName, Runs!WrongCredentials, Runs!Refused
    <3> QED
      BY <2>1, <3>1, <3>2
  <2> QED
    BY <1>1, <2>2, RefusalsListed DEF Runs!Failure
<1>4. Runs!IsRefreshableAuthError(Runs!TokenExpired) /\ Runs!IsRefreshableAuthError(Runs!InvalidToken)
  BY DEF Runs!IsRefreshableAuthError, Runs!TokenExpired, Runs!InvalidToken, Runs!Refused
<1>5. \A k \in {"auth", "user", "permission", "validation"} :
         \A c \in Runs!CodesOf[k] : ~Runs!IsRetryableErrorCode(c)
  BY <1>1 DEF Runs!CodesOf
<1> QED
  BY <1>2, <1>3, <1>4, <1>5 DEF Runs!RetriesCanHelp

LEMMA RunsAreSound ==
    ASSUME RunInv
    PROVE  /\ Runs!TypeOK /\ Runs!DroppedOnlyIfDeleted /\ Runs!RefusalsAreObeyed
           /\ Runs!OnlyFittingClientsSync /\ Runs!LogTellsTheEnd
           /\ Runs!RefusalsKeepTheirCode /\ Runs!RetriesCanHelp
  BY CodesAreKept, Retries DEF RunInv, RunTypes, BoundInv, EndInv

-----------------------------------------------------------------------------
(* Icons: the files of a run are of the account it began for, and only a   *)
(* run under way can bring a file past a card that has given up.           *)

Everybody == Accounts \cup {Anonymous}

IconTypes ==
    /\ Icons!TypeOK
    /\ moves = [under |-> moves.under, user |-> moves.user, up |-> moves.up, down |-> moves.down]

RunIsOfItsUser ==
    /\ ~moves.under => moves.up = {} /\ moves.down = {} /\ sent = Icons!NoSend
    /\ sent # Icons!NoSend => sent.file \in Files
    /\ ~astray =>
         /\ moves.under => moves.user = user
         /\ moves.up \subseteq own[user]
         /\ sent # Icons!NoSend => sent.user = user
         /\ sent # Icons!NoSend /\ sent.way = "up" => sent.file \in own[user]
         /\ \A a \in Everybody : store[a] \subseteq own[a]
    /\ \A a \in Everybody : named[a] \subseteq own[a]

IconInv == IconTypes /\ RunIsOfItsUser /\ Icons!FailedAreMissing

LEMMA IconsStart == Icons!Init => IconInv
<1> SUFFICES ASSUME Icons!Init PROVE IconInv
  OBVIOUS
<1>1. PICK S \in SUBSET Files :
        named = [a \in Everybody |-> IF a = user THEN S ELSE {}] /\ disk \in SUBSET S
  BY DEF Icons!Init, Everybody
<1>2. /\ user \in Everybody /\ store \in [Everybody -> SUBSET Files]
      /\ moves = Icons!NoRun /\ sent = Icons!NoSend
      /\ looks = [f \in Files |-> IF f \in named[user] THEN "resolving" ELSE "none"]
      /\ blank = FALSE /\ astray = FALSE /\ turns = 0
      /\ own = [a \in Everybody |-> store[a] \cup named[a]]
  BY DEF Icons!Init, Icons!Mounted, Everybody
<1>3. /\ moves.under = FALSE /\ moves.user = Anonymous /\ moves.up = {} /\ moves.down = {}
      /\ moves = [under |-> moves.under, user |-> moves.user, up |-> moves.up, down |-> moves.down]
  BY <1>2 DEF Icons!NoRun
<1>4. /\ named \in [Everybody -> SUBSET Files] /\ disk \subseteq Files
      /\ own \in [Everybody -> SUBSET Files] /\ looks \in [Files -> Icons!Look]
  BY <1>1, <1>2 DEF Icons!Look
<1>5. /\ moves \in [under: BOOLEAN, user: Everybody, up: SUBSET Files, down: SUBSET Files]
      /\ sent \in [file: Files \cup {NoFile}, user: Everybody, way: {"up", "down"}, again: BOOLEAN]
  BY <1>2 DEF Icons!NoRun, Icons!NoSend, Everybody
<1>6. IconTypes
  <2>1. turns \in 0..IconEvents /\ blank \in BOOLEAN /\ astray \in BOOLEAN
    <3>1. turns = 0 /\ blank = FALSE /\ astray = FALSE
      BY <1>2
    <3>2. blank \in BOOLEAN /\ astray \in BOOLEAN
      BY ONLY <3>1
    <3>3. turns \in 0..IconEvents
      BY ONLY <3>1, Bounds
    <3> QED
      BY <3>2, <3>3
  <2>2. /\ user \in Everybody /\ store \in [Everybody -> SUBSET Files]
        /\ moves = [under |-> moves.under, user |-> moves.user, up |-> moves.up, down |-> moves.down]
    BY <1>2, <1>3
  <2> QED
    BY ONLY <2>1, <2>2, <1>4, <1>5 DEF IconTypes, Icons!TypeOK, Everybody
<1>7. RunIsOfItsUser
  BY <1>2, <1>3, <1>4 DEF RunIsOfItsUser
<1>8. Icons!FailedAreMissing
  BY <1>2 DEF Icons!FailedAreMissing
<1> QED
  BY <1>6, <1>7, <1>8 DEF IconInv

(* What the cards, the directory and the page's loading do, by themselves. *)
LEMMA StepCards ==
    IconInv /\ (Icons!Loaded \/ \E f \in Files : \/ Icons!ResolveIconPath(f) \/ Icons!ShowImage(f)
                                                \/ Icons!HandleIconUpload(f))
      => IconInv'
<1> SUFFICES ASSUME IconInv,
                    Icons!Loaded \/ \E f \in Files : \/ Icons!ResolveIconPath(f) \/ Icons!ShowImage(f)
                                                    \/ Icons!HandleIconUpload(f)
             PROVE  IconInv'
  OBVIOUS
<1>1. /\ user' = user /\ named' = named /\ store' = store /\ moves' = moves /\ sent' = sent
      /\ own' = own /\ astray' = astray
  BY DEF Icons!Loaded, Icons!ResolveIconPath, Icons!ShowImage, Icons!Looks, Icons!HandleIconUpload
<1>2. /\ looks \in [Files -> Icons!Look] /\ disk \subseteq Files /\ turns \in 0..IconEvents
  BY DEF IconInv, IconTypes, Icons!TypeOK
<1> DEFINE CardsGiveUp ==
             /\ looks' \in [Files -> Icons!Look] /\ disk' \subseteq Files
             /\ \A g \in Files : looks'[g] = "failed" =>
                   g \notin disk' \/ (looks[g] = "failed" /\ disk' = disk)
<1>3. CardsGiveUp
  <2>1. CASE Icons!Loaded
    BY <1>2, <2>1 DEF Icons!Loaded, Icons!Mounted, Icons!Look
  <2>2. ASSUME NEW f \in Files, Icons!ResolveIconPath(f)
        PROVE  CardsGiveUp
    BY <1>2, <2>2 DEF Icons!ResolveIconPath, Icons!Looks, Icons!Look
  <2>3. ASSUME NEW f \in Files, Icons!ShowImage(f)
        PROVE  CardsGiveUp
    BY <1>2, <2>3 DEF Icons!ShowImage, Icons!Looks, Icons!Look
  <2>4. ASSUME NEW f \in Files, Icons!HandleIconUpload(f)
        PROVE  CardsGiveUp
    BY <1>2, <2>4 DEF Icons!HandleIconUpload, Icons!Retried, Icons!Look
  <2> QED
    BY <2>1, <2>2, <2>3, <2>4
<1>4. blank' \in BOOLEAN
  BY DEF IconInv, IconTypes, Icons!TypeOK, Icons!Loaded, Icons!ResolveIconPath, Icons!ShowImage,
         Icons!Looks, Icons!HandleIconUpload
<1>5. turns' \in 0..IconEvents
  BY <1>2, Bounds DEF Icons!Loaded, Icons!ResolveIconPath, Icons!ShowImage, Icons!Looks,
              Icons!HandleIconUpload, Icons!Acts
<1>6. IconTypes'
  BY <1>1, <1>3, <1>4, <1>5 DEF IconInv, IconTypes, Icons!TypeOK
<1>7. RunIsOfItsUser'
  BY <1>1 DEF IconInv, RunIsOfItsUser
<1>8. Icons!FailedAreMissing'
  BY <1>1, <1>3 DEF IconInv, Icons!FailedAreMissing
<1> QED
  BY <1>6, <1>7, <1>8 DEF IconInv

LEMMA LoadsClearCards ==
    ASSUME Icons!BeginsLoad
    PROVE  /\ blank' \in BOOLEAN /\ looks' \in [Files -> Icons!Look]
           /\ \A f \in Files : looks'[f] # "failed"
<1>1. blank' = TRUE /\ looks' = [f \in Files |-> "none"]
  BY DEF Icons!BeginsLoad
<1>2. blank' \in BOOLEAN
  BY <1>1
<1> QED
  BY <1>1, <1>2 DEF Icons!Look

LEMMA Turn ==
    ASSUME IconInv, Icons!Acts \/ turns' = turns
    PROVE  turns' \in 0..IconEvents
  BY Bounds DEF IconInv, IconTypes, Icons!TypeOK, Icons!Acts

LEMMA StepSaveItem == ASSUME IconInv, NEW S \in SUBSET Files, Icons!HandleSaveItem(S) PROVE IconInv'
<1>1. /\ Icons!BeginsLoad /\ Icons!Acts
      /\ user' = user /\ disk' = disk /\ store' = store /\ moves' = moves /\ sent' = sent
      /\ astray' = astray
      /\ named' = [named EXCEPT ![user] = S]
      /\ own' = [own EXCEPT ![user] = own[user] \cup S]
  BY DEF Icons!HandleSaveItem
<1>2. /\ user \in Everybody /\ named \in [Everybody -> SUBSET Files]
      /\ own \in [Everybody -> SUBSET Files]
      /\ sent.user \in Everybody
  BY DEF IconInv, IconTypes, Icons!TypeOK, Everybody
<1>3. /\ named' \in [Everybody -> SUBSET Files] /\ own' \in [Everybody -> SUBSET Files]
      /\ \A a \in Everybody : own[a] \subseteq own'[a]
      /\ \A a \in Everybody : named'[a] \subseteq named[a] \/ named'[a] \subseteq own'[a]
  BY <1>1, <1>2
<1>4. IconTypes'
  BY <1>1, <1>3, LoadsClearCards, Turn DEF IconInv, IconTypes, Icons!TypeOK, Everybody
<1>5. RunIsOfItsUser'
  BY <1>1, <1>2, <1>3 DEF IconInv, RunIsOfItsUser
<1>6. Icons!FailedAreMissing'
  BY <1>1, LoadsClearCards DEF Icons!FailedAreMissing
<1> QED
  BY <1>4, <1>5, <1>6 DEF IconInv

LEMMA StepSwitch == ASSUME IconInv, NEW u \in Everybody, Icons!SwitchActiveUser(u) PROVE IconInv'
<1>1. /\ Icons!BeginsLoad /\ Icons!Acts
      /\ user' = u /\ astray' = (astray \/ moves.under)
      /\ named' = named /\ disk' = disk /\ store' = store /\ moves' = moves /\ sent' = sent
      /\ own' = own
  BY DEF Icons!SwitchActiveUser
<1>2. astray' \in BOOLEAN
  BY <1>1
<1>3. IconTypes'
  BY <1>1, <1>2, LoadsClearCards, Turn DEF IconInv, IconTypes, Icons!TypeOK, Everybody
<1>4. RunIsOfItsUser'
  BY <1>1 DEF IconInv, RunIsOfItsUser
<1>5. Icons!FailedAreMissing'
  BY <1>1, LoadsClearCards DEF Icons!FailedAreMissing
<1> QED
  BY <1>3, <1>4, <1>5 DEF IconInv

LEMMA StepApplied == ASSUME IconInv, NEW S \in SUBSET Files, Icons!ApplySyncResult(S) PROVE IconInv'
<1>1. /\ ~moves.under /\ Icons!Acts
      /\ user' = user /\ disk' = disk /\ store' = store /\ sent' = sent /\ looks' = looks
      /\ blank' = blank /\ astray' = astray
      /\ S \subseteq named[user] \cup store[user]
      /\ named' = [named EXCEPT ![user] = S]
      /\ own' = [own EXCEPT ![user] = own[user] \cup S]
      /\ moves' = [under |-> TRUE, user |-> user, up |-> S \ store[user],
                   down |-> (S \cap store[user]) \ disk]
  BY DEF Icons!ApplySyncResult, Icons!Lists
<1>2. /\ user \in Everybody /\ named \in [Everybody -> SUBSET Files]
      /\ own \in [Everybody -> SUBSET Files] /\ sent.user \in Everybody
  BY DEF IconInv, IconTypes, Icons!TypeOK, Everybody
<1>3. /\ named' \in [Everybody -> SUBSET Files] /\ own' \in [Everybody -> SUBSET Files]
      /\ \A a \in Everybody : own[a] \subseteq own'[a]
      /\ \A a \in Everybody : named'[a] \subseteq named[a] \/ named'[a] \subseteq own'[a]
      /\ S \subseteq own'[user]
  BY <1>1, <1>2
<1>4. /\ moves'.under = TRUE /\ moves'.user = user /\ moves'.up = S \ store[user]
      /\ moves' = [under |-> moves'.under, user |-> moves'.user, up |-> moves'.up, down |-> moves'.down]
      /\ moves' \in [under: BOOLEAN, user: Everybody, up: SUBSET Files, down: SUBSET Files]
  BY <1>1, <1>2
<1>5. IconTypes'
  BY <1>1, <1>3, <1>4, Turn DEF IconInv, IconTypes, Icons!TypeOK, Everybody
<1>6. RunIsOfItsUser'
  BY <1>1, <1>2, <1>3, <1>4 DEF IconInv, RunIsOfItsUser
<1>7. Icons!FailedAreMissing'
  BY <1>1, <1>4 DEF Icons!FailedAreMissing
<1> QED
  BY <1>5, <1>6, <1>7 DEF IconInv

LEMMA StepTransfers ==
    ASSUME IconInv, NEW f \in Files, Icons!UploadIcons(f) \/ Icons!DownloadIcons(f) PROVE IconInv'
<1>1. /\ user' = user /\ named' = named /\ disk' = disk /\ store' = store /\ looks' = looks
      /\ blank' = blank /\ own' = own /\ astray' = astray /\ turns' = turns
      /\ sent = Icons!NoSend
      /\ \/ f \in moves.up /\ moves' = [moves EXCEPT !.up = moves.up \ {f}]
            /\ \/ sent' = Icons!NoSend
               \/ user # Anonymous /\ sent' = [file |-> f, user |-> user, way |-> "up", again |-> FALSE]
         \/ f \in moves.down /\ moves' = [moves EXCEPT !.down = moves.down \ {f}]
            /\ \/ sent' = Icons!NoSend
               \/ user # Anonymous /\ sent' = [file |-> f, user |-> user, way |-> "down", again |-> FALSE]
  BY DEF Icons!UploadIcons, Icons!DownloadIcons, Icons!Sends
<1>2. /\ user \in Everybody
      /\ moves \in [under: BOOLEAN, user: Everybody, up: SUBSET Files, down: SUBSET Files]
      /\ sent \in [file: Files \cup {NoFile}, user: Everybody, way: {"up", "down"}, again: BOOLEAN]
  BY DEF IconInv, IconTypes, Icons!TypeOK, Everybody
<1>3. /\ moves.under
      /\ ~astray => moves.user = user /\ moves.up \subseteq own[user]
  BY <1>1 DEF IconInv, RunIsOfItsUser
<1>4. /\ moves'.under = moves.under /\ moves'.user = moves.user /\ moves'.up \subseteq moves.up
      /\ moves' = [under |-> moves'.under, user |-> moves'.user, up |-> moves'.up, down |-> moves'.down]
      /\ moves' \in [under: BOOLEAN, user: Everybody, up: SUBSET Files, down: SUBSET Files]
  BY <1>1, <1>2 DEF IconInv, IconTypes
<1>5. sent' \in [file: Files \cup {NoFile}, user: Everybody, way: {"up", "down"}, again: BOOLEAN]
  <2>1. \A w \in {"up", "down"} :
           [file |-> f, user |-> user, way |-> w, again |-> FALSE]
             \in [file: Files \cup {NoFile}, user: Everybody, way: {"up", "down"}, again: BOOLEAN]
    BY <1>2
  <2>2. \/ sent' = sent
        \/ \E w \in {"up", "down"} : sent' = [file |-> f, user |-> user, way |-> w, again |-> FALSE]
    BY <1>1
  <2> QED
    BY ONLY <1>2, <2>1, <2>2
<1>6. sent' # Icons!NoSend => /\ sent'.user = user /\ sent'.file = f
                              /\ sent'.way = "up" => f \in moves.up
  BY <1>1
<1>7. IconTypes'
  BY <1>1, <1>4, <1>5 DEF IconInv, IconTypes, Icons!TypeOK, Everybody
<1>8. RunIsOfItsUser'
  BY <1>1, <1>3, <1>4, <1>6 DEF IconInv, RunIsOfItsUser
<1>9. Icons!FailedAreMissing'
  BY <1>3, <1>4 DEF Icons!FailedAreMissing
<1> QED
  BY <1>7, <1>8, <1>9 DEF IconInv

LEMMA StepSendAgain == ASSUME IconInv, Icons!SendAgain PROVE IconInv'
<1>1. /\ user' = user /\ named' = named /\ disk' = disk /\ store' = store /\ looks' = looks
      /\ blank' = blank /\ own' = own /\ astray' = astray /\ moves' = moves /\ Icons!Acts
      /\ sent # Icons!NoSend
      /\ sent' = Icons!NoSend \/ sent' = [sent EXCEPT !.user = user, !.again = TRUE]
  BY DEF Icons!SendAgain
<1>2. /\ user \in Everybody
      /\ sent \in [file: Files \cup {NoFile}, user: Everybody, way: {"up", "down"}, again: BOOLEAN]
      /\ Icons!NoSend \in [file: Files \cup {NoFile}, user: Everybody, way: {"up", "down"}, again: BOOLEAN]
  BY DEF IconInv, IconTypes, Icons!TypeOK, Everybody, Icons!NoSend
<1>3. /\ moves.under /\ sent.file \in Files
      /\ ~astray => /\ sent.user = user /\ moves.user = user
                    /\ sent.way = "up" => sent.file \in own[user]
  BY <1>1 DEF IconInv, RunIsOfItsUser
<1>4. sent' \in [file: Files \cup {NoFile}, user: Everybody, way: {"up", "down"}, again: BOOLEAN]
  BY <1>1, <1>2
<1>5. IconTypes'
  BY <1>1, <1>4, Turn DEF IconInv, IconTypes, Icons!TypeOK, Everybody
<1>6. sent' # Icons!NoSend => sent'.user = user /\ sent'.way = sent.way /\ sent'.file = sent.file
  BY <1>1, <1>2
<1>7. RunIsOfItsUser'
  BY <1>1, <1>2, <1>3, <1>6 DEF IconInv, RunIsOfItsUser
<1>8. Icons!FailedAreMissing'
  BY <1>1 DEF IconInv, Icons!FailedAreMissing
<1> QED
  BY <1>5, <1>7, <1>8 DEF IconInv

LEMMA StepTransferEnds ==
    ASSUME IconInv, NEW fails \in BOOLEAN, Icons!TransferEnds(fails) PROVE IconInv'
<1>1. /\ user' = user /\ named' = named /\ moves' = moves /\ looks' = looks
      /\ blank' = blank /\ own' = own /\ astray' = astray
      /\ sent # Icons!NoSend /\ sent' = Icons!NoSend
      /\ Icons!Acts \/ turns' = turns
  BY DEF Icons!TransferEnds
<1>2. /\ user \in Everybody /\ store \in [Everybody -> SUBSET Files] /\ disk \subseteq Files
      /\ sent \in [file: Files \cup {NoFile}, user: Everybody, way: {"up", "down"}, again: BOOLEAN]
      /\ Icons!NoSend \in [file: Files \cup {NoFile}, user: Everybody, way: {"up", "down"}, again: BOOLEAN]
  BY DEF IconInv, IconTypes, Icons!TypeOK, Everybody, Icons!NoSend
<1>3. /\ moves.under /\ sent.file \in Files
      /\ ~astray => /\ sent.user = user /\ moves.user = user
                    /\ sent.way = "up" => sent.file \in own[user]
  BY <1>1 DEF IconInv, RunIsOfItsUser
<1>4. /\ \/ store' = store
         \/ sent.way = "up" /\ store' = [store EXCEPT ![sent.user] = store[sent.user] \cup {sent.file}]
      /\ disk' \in {disk, disk \cup {sent.file}}
  BY DEF Icons!TransferEnds
<1>5. /\ store' \in [Everybody -> SUBSET Files] /\ disk' \subseteq Files
      /\ ~astray => \A a \in Everybody : store'[a] \subseteq store[a] \cup own[a]
  BY <1>2, <1>3, <1>4
<1>6. IconTypes'
  BY <1>1, <1>2, <1>5, Turn DEF IconInv, IconTypes, Icons!TypeOK, Everybody
<1>7. RunIsOfItsUser'
  BY <1>1, <1>3, <1>5 DEF IconInv, RunIsOfItsUser
<1>8. Icons!FailedAreMissing'
  BY <1>1, <1>3 DEF Icons!FailedAreMissing
<1> QED
  BY <1>6, <1>7, <1>8 DEF IconInv

LEMMA StepRunEnds == ASSUME IconInv, Icons!RunEnds PROVE IconInv'
<1>1. /\ Icons!BeginsLoad
      /\ moves.up = {} /\ moves.down = {} /\ sent = Icons!NoSend
      /\ moves' = [moves EXCEPT !.under = FALSE]
      /\ user' = user /\ named' = named /\ disk' = disk /\ store' = store /\ sent' = sent
      /\ own' = own /\ astray' = astray /\ turns' = turns
  BY DEF Icons!RunEnds, Icons!Through, Icons!ReloadsAfter
<1>2. /\ moves'.under = FALSE /\ moves'.up = {} /\ moves'.down = {}
      /\ moves' = [under |-> moves'.under, user |-> moves'.user, up |-> moves'.up, down |-> moves'.down]
      /\ moves' \in [under: BOOLEAN, user: Everybody, up: SUBSET Files, down: SUBSET Files]
  BY <1>1 DEF IconInv, IconTypes, Icons!TypeOK, Everybody
<1>3. IconTypes'
  BY <1>1, <1>2, LoadsClearCards, Turn DEF IconInv, IconTypes, Icons!TypeOK, Everybody
<1>4. RunIsOfItsUser'
  BY <1>1, <1>2 DEF IconInv, RunIsOfItsUser
<1>5. Icons!FailedAreMissing'
  BY <1>1, LoadsClearCards DEF Icons!FailedAreMissing
<1> QED
  BY <1>3, <1>4, <1>5 DEF IconInv

LEMMA StepIconsRestart == ASSUME IconInv, Icons!Restart PROVE IconInv'
<1>1. /\ Icons!BeginsLoad /\ Icons!Acts /\ moves' = Icons!NoRun /\ sent' = Icons!NoSend
      /\ user' = user /\ named' = named /\ disk' = disk /\ store' = store
      /\ own' = own /\ astray' = astray
  BY DEF Icons!Restart
<1>2. /\ moves'.under = FALSE /\ moves'.up = {} /\ moves'.down = {}
      /\ moves' = [under |-> moves'.under, user |-> moves'.user, up |-> moves'.up, down |-> moves'.down]
      /\ moves' \in [under: BOOLEAN, user: Everybody, up: SUBSET Files, down: SUBSET Files]
  BY <1>1 DEF Icons!NoRun, Everybody
<1>3. sent' \in [file: Files \cup {NoFile}, user: Everybody, way: {"up", "down"}, again: BOOLEAN]
  BY <1>1 DEF Icons!NoSend, Everybody
<1>4. IconTypes'
  BY <1>1, <1>2, <1>3, LoadsClearCards, Turn DEF IconInv, IconTypes, Icons!TypeOK, Everybody
<1>5. RunIsOfItsUser'
  BY <1>1, <1>2 DEF IconInv, RunIsOfItsUser
<1>6. Icons!FailedAreMissing'
  BY <1>1, LoadsClearCards DEF Icons!FailedAreMissing
<1> QED
  BY <1>4, <1>5, <1>6 DEF IconInv

LEMMA IconsStep == IconInv /\ Icons!Next => IconInv'
  BY StepCards, StepSaveItem, StepSwitch, StepApplied, StepTransfers, StepSendAgain,
     StepTransferEnds, StepRunEnds, StepIconsRestart, Zenon
     DEF Icons!Next, Everybody

LEMMA IconsAreSound ==
    ASSUME IconInv
    PROVE  Icons!TypeOK /\ Icons!IconsReachTheirAccount /\ Icons!FailedAreMissing
  BY DEF IconInv, IconTypes, RunIsOfItsUser, Icons!IconsReachTheirAccount, Everybody

-----------------------------------------------------------------------------
(* Layers: a menu lies alone, its card is read from what is kept, and no   *)
(* handler that could take the card away waits while it is open.           *)

MenuInv ==
    menu # NoSite =>
        /\ layers.confirm = NoSite /\ over = "nothing" /\ ~popup.card /\ ~popup.select
        /\ ~moved => /\ \A c \in waits : c.op = "open"
                     /\ ~sheet.loading
                     /\ menu \in Layers!Shown \ held.sorting

FormInv ==
    /\ ~sheet.loading => sheet.rows = kept
    /\ over = "form" => layers.confirm = NoSite
    /\ over = "form" /\ edited # NoSite /\ ~moved =>
          edited \in kept /\ \A c \in waits : c.op # "delete"

LayersInv == Layers!TypeOK /\ MenuInv /\ FormInv /\ ~(popup.card /\ popup.select)

LEMMA LayersStart == Layers!Init => LayersInv
<1> SUFFICES ASSUME Layers!Init PROVE LayersInv
  OBVIOUS
<1>1. /\ kept = Cards /\ sheet = [rows |-> Cards, loading |-> FALSE]
      /\ held = [folded |-> {}, sorting |-> {}]
      /\ menu = NoSite /\ over = "nothing" /\ edited = NoSite
      /\ layers = [alerts |-> 0, confirm |-> NoSite, account |-> FALSE]
      /\ popup = [card |-> FALSE, select |-> FALSE] /\ focus = "page"
      /\ waits = {} /\ acts = 0
  BY DEF Layers!Init, Layers!NoModals
<1>2. term = FALSE /\ moved = FALSE
  BY DEF Layers!Init
<1>3. term \in BOOLEAN /\ moved \in BOOLEAN
  BY <1>2
<1>4. Layers!TypeOK
  BY <1>1, <1>3, Bounds DEF Layers!TypeOK
<1>5. MenuInv /\ FormInv /\ ~(popup.card /\ popup.select)
  BY <1>1 DEF MenuInv, FormInv
<1> QED
  BY <1>4, <1>5 DEF LayersInv

LEMMA Pressing ==
    ASSUME LayersInv, NEW on \in {"page", "search", "dialog", "field", "card", "select"},
           Layers!Presses(on)
    PROVE  /\ popup' \in [card: BOOLEAN, select: BOOLEAN] /\ ~(popup'.card /\ popup'.select)
           /\ on \in {"page", "search", "dialog"} => ~popup'.card /\ ~popup'.select
           /\ focus' \in {"page", "search", "field"} /\ acts' \in 0..LayerEvents
<1>1. /\ popup' = [card |-> popup.card /\ on = "card", select |-> popup.select /\ on = "select"]
      /\ acts \in 0..LayerEvents /\ acts < LayerEvents /\ acts' = acts + 1
      /\ focus' = IF on = "search" THEN on ELSE "page"
  BY DEF Layers!Presses, Layers!Outside, Layers!FocusAfter, Layers!Acts, LayersInv, Layers!TypeOK
<1>2. popup'.card = (popup.card /\ on = "card") /\ popup'.select = (popup.select /\ on = "select")
  BY <1>1
<1>3. popup' \in [card: BOOLEAN, select: BOOLEAN]
  BY <1>1
<1>4. focus' \in {"page", "search", "field"} /\ acts' \in 0..LayerEvents
  BY <1>1, Bounds
<1> QED
  BY <1>2, <1>3, <1>4

(* Typed: what every step but a few leaves alone.                          *)
Unmoved ==
    /\ term \in BOOLEAN /\ moved \in BOOLEAN
    /\ held \in [folded: SUBSET Cards, sorting: SUBSET Cards]
    /\ waits \subseteq Layers!Call

(* A click on the page with nothing over it.                               *)
LEMMA PageClicks ==
    ASSUME LayersInv, Layers!AtPage, menu' = NoSite,
           NEW on \in {"page", "search"}, Layers!Presses(on),
           kept' = kept, sheet' = sheet, layers' = layers, Unmoved',
           over' \in {"nothing", "config", "engines", "form"}, edited' \in Cards \cup {NoSite},
           over' = "form" => edited' = NoSite
    PROVE  LayersInv'
<1>1. /\ popup' \in [card: BOOLEAN, select: BOOLEAN] /\ ~(popup'.card /\ popup'.select)
      /\ focus' \in {"page", "search", "field"} /\ acts' \in 0..LayerEvents
  BY Pressing
<1>2. Layers!TypeOK'
  BY <1>1 DEF LayersInv, Layers!TypeOK, Unmoved
<1>3. layers.confirm = NoSite
  BY DEF Layers!AtPage, Layers!HasOpenModal, Layers!NoModals
<1> QED
  BY <1>1, <1>2, <1>3 DEF LayersInv, MenuInv, FormInv

LEMMA Typed == LayersInv => Unmoved
  BY DEF LayersInv, Layers!TypeOK, Unmoved

LEMMA StepClickPage ==
    ASSUME LayersInv, NEW on \in {"page", "search"}, Layers!ClickPage(on) PROVE LayersInv'
<1>1. /\ Layers!AtPage /\ Layers!Presses(on) /\ menu' = NoSite
      /\ kept' = kept /\ sheet' = sheet /\ layers' = layers /\ over' = over /\ edited' = edited
      /\ term' = term /\ moved' = moved /\ held' = held /\ waits' = waits
  BY DEF Layers!ClickPage, Layers!Clicks, Layers!MenuAfterClick
<1>2. Unmoved'
  BY <1>1, Typed DEF Unmoved
<1>3. over = "nothing" /\ edited \in Cards \cup {NoSite}
  BY <1>1 DEF Layers!AtPage, LayersInv, Layers!TypeOK
<1> QED
  BY <1>1, <1>2, <1>3, PageClicks

LEMMA StepClearSearch == ASSUME LayersInv, Layers!ClearSearch PROVE LayersInv'
<1>1. /\ Layers!AtPage /\ Layers!Presses("page") /\ menu' = NoSite
      /\ kept' = kept /\ sheet' = sheet /\ layers' = layers /\ over' = over /\ edited' = edited
      /\ term' = FALSE /\ moved' = moved /\ held' = held /\ waits' = waits
  BY DEF Layers!ClearSearch, Layers!Clicks, Layers!MenuAfterClick
<1>2. Unmoved'
  BY <1>1, Typed DEF Unmoved
<1>3. over = "nothing" /\ edited \in Cards \cup {NoSite}
  BY <1>1 DEF Layers!AtPage, LayersInv, Layers!TypeOK
<1> QED
  BY <1>1, <1>2, <1>3, PageClicks

LEMMA StepClickCard == ASSUME LayersInv, NEW s \in Cards, Layers!ClickCard(s) PROVE LayersInv'
<1>1. /\ Layers!AtPage /\ Layers!Presses("page") /\ menu' = NoSite
      /\ kept' = kept /\ sheet' = sheet /\ layers' = layers /\ over' = over /\ edited' = edited
      /\ term' = term /\ moved' = moved /\ held' = held
      /\ waits' \in {waits, waits \cup {[op |-> "open", site |-> s]}}
  BY DEF Layers!ClickCard, Layers!Clicks, Layers!MenuAfterClick
<1>2. [op |-> "open", site |-> s] \in Layers!Call
  BY DEF Layers!Call
<1>3. Unmoved'
  BY <1>1, <1>2, Typed DEF Unmoved
<1>4. over = "nothing" /\ edited \in Cards \cup {NoSite}
  BY <1>1 DEF Layers!AtPage, LayersInv, Layers!TypeOK
<1> QED
  BY <1>1, <1>3, <1>4, PageClicks

LEMMA StepSorting ==
    ASSUME LayersInv, NEW s \in Cards, Layers!ToggleSorting(s) \/ Layers!ToggleCollapsed(s)
    PROVE  LayersInv'
<1>1. /\ Layers!AtPage /\ Layers!Presses("page") /\ menu' = NoSite
      /\ kept' = kept /\ sheet' = sheet /\ layers' = layers /\ over' = over /\ edited' = edited
      /\ term' = term /\ moved' = moved /\ waits' = waits
      /\ \/ held' = [held EXCEPT !.sorting = Layers!Toggled(held.sorting, s)]
         \/ held' = [folded |-> Layers!Toggled(held.folded, s), sorting |-> held.sorting \ {s}]
  BY DEF Layers!ToggleSorting, Layers!ToggleCollapsed, Layers!Clicks, Layers!MenuAfterClick
<1>2. held \in [folded: SUBSET Cards, sorting: SUBSET Cards]
  BY DEF LayersInv, Layers!TypeOK
<1>3. Layers!Toggled(held.sorting, s) \subseteq Cards /\ Layers!Toggled(held.folded, s) \subseteq Cards
  BY <1>2 DEF Layers!Toggled
<1>4. held' \in [folded: SUBSET Cards, sorting: SUBSET Cards]
  BY <1>1, <1>2, <1>3
<1>5. Unmoved'
  BY <1>1, <1>4, Typed DEF Unmoved
<1>6. over = "nothing" /\ edited \in Cards \cup {NoSite}
  BY <1>1 DEF Layers!AtPage, LayersInv, Layers!TypeOK
<1> QED
  BY <1>1, <1>5, <1>6, PageClicks

LEMMA StepOpenDialog ==
    ASSUME LayersInv, NEW d \in {"config", "engines", "form"}, Layers!OpenDialog(d) PROVE LayersInv'
<1>1. /\ Layers!AtPage /\ Layers!Presses("page") /\ menu' = NoSite
      /\ kept' = kept /\ sheet' = sheet /\ layers' = layers /\ over' = d
      /\ edited' = IF d = "form" THEN NoSite ELSE edited
      /\ term' = term /\ moved' = moved /\ held' = held /\ waits' = waits
  BY DEF Layers!OpenDialog, Layers!Clicks, Layers!MenuAfterClick
<1>2. Unmoved'
  BY <1>1, Typed DEF Unmoved
<1>3. edited \in Cards \cup {NoSite}
  BY DEF LayersInv, Layers!TypeOK
<1> QED
  BY <1>1, <1>2, <1>3, PageClicks

LEMMA StepOpenMenu == ASSUME LayersInv, NEW s \in Cards, Layers!OpenMenu(s) PROVE LayersInv'
<1>1. /\ Layers!AtPage /\ Layers!Presses("page") /\ menu' = s
      /\ s \in Layers!Shown \ held.sorting
      /\ kept' = kept /\ sheet' = sheet /\ layers' = layers /\ over' = over /\ edited' = edited
      /\ term' = term /\ held' = held /\ waits' = waits
      /\ moved' = \E c \in waits : c.op # "open"
  BY DEF Layers!OpenMenu
<1>2. /\ popup' \in [card: BOOLEAN, select: BOOLEAN] /\ ~popup'.card /\ ~popup'.select
      /\ focus' \in {"page", "search", "field"} /\ acts' \in 0..LayerEvents
  BY <1>1, Pressing
<1>3. moved' \in BOOLEAN /\ (~moved' => \A c \in waits : c.op = "open")
  BY <1>1
<1>4. Layers!TypeOK'
  BY <1>1, <1>2, <1>3 DEF LayersInv, Layers!TypeOK
<1>5. layers.confirm = NoSite /\ over = "nothing" /\ ~sheet.loading
  BY <1>1 DEF Layers!AtPage, Layers!HasOpenModal, Layers!NoModals
<1>6. MenuInv'
  BY <1>1, <1>2, <1>3, <1>5 DEF MenuInv, Layers!Shown
<1>7. FormInv'
  BY <1>1, <1>5 DEF LayersInv, FormInv
<1> QED
  BY <1>2, <1>4, <1>6, <1>7 DEF LayersInv

LEMMA StepChooseEdit == ASSUME LayersInv, Layers!ChooseEdit PROVE LayersInv'
<1>1. /\ menu # NoSite /\ ~sheet.loading /\ Layers!Presses("page") /\ menu' = NoSite
      /\ over' = "form" /\ edited' = menu
      /\ kept' = kept /\ sheet' = sheet /\ layers' = layers
      /\ term' = term /\ held' = held /\ waits' = waits /\ moved' = moved
  BY DEF Layers!ChooseEdit, Layers!MenuAfterChoice
<1>2. /\ popup' \in [card: BOOLEAN, select: BOOLEAN] /\ ~popup'.card /\ ~popup'.select
      /\ focus' \in {"page", "search", "field"} /\ acts' \in 0..LayerEvents
  BY <1>1, Pressing
<1>3. Layers!TypeOK'
  BY <1>1, <1>2 DEF LayersInv, Layers!TypeOK
<1>4. /\ layers.confirm = NoSite
      /\ ~moved => menu \in kept /\ \A c \in waits : c.op = "open"
  BY <1>1 DEF LayersInv, MenuInv, FormInv, Layers!Shown
<1> QED
  BY <1>1, <1>2, <1>3, <1>4 DEF LayersInv, MenuInv, FormInv

LEMMA StepChooseDelete == ASSUME LayersInv, Layers!ChooseDelete PROVE LayersInv'
<1>1. /\ menu # NoSite /\ ~sheet.loading /\ Layers!Presses("page") /\ menu' = NoSite
      /\ layers' = [layers EXCEPT !.confirm = menu]
      /\ kept' = kept /\ sheet' = sheet /\ over' = over /\ edited' = edited
      /\ term' = term /\ held' = held /\ waits' = waits /\ moved' = moved
  BY DEF Layers!ChooseDelete, Layers!MenuAfterChoice
<1>2. /\ popup' \in [card: BOOLEAN, select: BOOLEAN] /\ ~popup'.card /\ ~popup'.select
      /\ focus' \in {"page", "search", "field"} /\ acts' \in 0..LayerEvents
  BY <1>1, Pressing
<1>3. Layers!TypeOK'
  BY <1>1, <1>2 DEF LayersInv, Layers!TypeOK
<1>4. over = "nothing"
  BY <1>1 DEF LayersInv, MenuInv
<1> QED
  BY <1>1, <1>2, <1>3, <1>4 DEF LayersInv, MenuInv, FormInv

(* A click or a choice in a dialog, an alert or a question: the menu stays *)
(* as it is or closes, and what is kept stays.                             *)
LEMMA DialogClicks ==
    ASSUME LayersInv, menu' \in {menu, NoSite},
           NEW on \in {"page", "dialog"}, Layers!Presses(on),
           kept' = kept, sheet' = sheet, term' = term, held' = held, moved' = moved,
           edited' = edited, over' \in {over, "nothing"},
           layers' \in [alerts: 0..MaxAlerts, confirm: Cards \cup {NoSite}, account: BOOLEAN],
           layers'.confirm \in {layers.confirm, NoSite},
           waits' \subseteq Layers!Call,
           menu # NoSite \/ over = "form" => waits' = waits
    PROVE  LayersInv'
<1>1. /\ popup' \in [card: BOOLEAN, select: BOOLEAN] /\ ~popup'.card /\ ~popup'.select
      /\ focus' \in {"page", "search", "field"} /\ acts' \in 0..LayerEvents
  BY Pressing
<1>2. Layers!TypeOK'
  BY <1>1 DEF LayersInv, Layers!TypeOK
<1>3. MenuInv'
  BY <1>1 DEF LayersInv, MenuInv, Layers!Shown
<1>4. FormInv'
  BY DEF LayersInv, FormInv
<1> QED
  BY <1>1, <1>2, <1>3, <1>4 DEF LayersInv

LEMMA LayerRecord ==
    LayersInv => /\ layers \in [alerts: 0..MaxAlerts, confirm: Cards \cup {NoSite}, account: BOOLEAN]
                 /\ waits \subseteq Layers!Call /\ edited \in Cards \cup {NoSite}
  BY DEF LayersInv, Layers!TypeOK

LEMMA StepCloseDialog == ASSUME LayersInv, Layers!CloseDialog PROVE LayersInv'
<1>1. /\ Layers!Presses("dialog") /\ menu' = menu /\ over' = "nothing"
      /\ kept' = kept /\ sheet' = sheet /\ term' = term /\ held' = held /\ moved' = moved
      /\ edited' = edited /\ layers' = layers /\ waits' = waits
  BY DEF Layers!CloseDialog, Layers!InDialog, Layers!Clicks, Layers!MenuAfterClick
<1> QED
  BY <1>1, DialogClicks, LayerRecord

LEMMA StepSubmit == ASSUME LayersInv, NEW b \in BOOLEAN, Layers!HandleSubmit(b) PROVE LayersInv'
<1>1. /\ Layers!Presses("dialog") /\ menu' = menu /\ over = "form"
      /\ kept' = kept /\ sheet' = sheet /\ term' = term /\ held' = held /\ moved' = moved
      /\ edited' = edited
      /\ \/ over' = "nothing" /\ layers' = layers
            /\ waits' = waits \cup {[op |-> "save", site |-> edited]}
         \/ over' = over /\ waits' = waits /\ layers.alerts < MaxAlerts
            /\ layers' = [layers EXCEPT !.alerts = layers.alerts + 1]
  BY DEF Layers!HandleSubmit, Layers!InDialog, Layers!Clicks, Layers!MenuAfterClick
<1>2. /\ popup' \in [card: BOOLEAN, select: BOOLEAN] /\ ~popup'.card /\ ~popup'.select
      /\ focus' \in {"page", "search", "field"} /\ acts' \in 0..LayerEvents
  BY <1>1, Pressing
<1>3. menu = NoSite
  BY <1>1 DEF LayersInv, MenuInv
<1>4. /\ layers' \in [alerts: 0..MaxAlerts, confirm: Cards \cup {NoSite}, account: BOOLEAN]
      /\ layers'.confirm = layers.confirm
      /\ waits' \subseteq Layers!Call
      /\ over' = "form" => waits' = waits
  <2>1. [op |-> "save", site |-> edited] \in Layers!Call
    BY LayerRecord DEF Layers!Call
  <2> QED
    BY <1>1, <2>1, LayerRecord, Bounds
<1>5. Layers!TypeOK'
  BY <1>1, <1>2, <1>4 DEF LayersInv, Layers!TypeOK
<1> QED
  BY <1>1, <1>2, <1>3, <1>4, <1>5 DEF LayersInv, MenuInv, FormInv

LEMMA StepDismiss ==
    ASSUME LayersInv, NEW on \in {"dialog", "page"}, Layers!DismissAlert(on) PROVE LayersInv'
<1>1. /\ Layers!Presses(on) /\ menu' \in {menu, NoSite} /\ over' = over
      /\ kept' = kept /\ sheet' = sheet /\ term' = term /\ held' = held /\ moved' = moved
      /\ edited' = edited /\ waits' = waits
      /\ layers.alerts > 0 /\ layers' = [layers EXCEPT !.alerts = layers.alerts - 1]
  BY DEF Layers!DismissAlert, Layers!Clicks, Layers!MenuAfterClick
<1>2. /\ layers' \in [alerts: 0..MaxAlerts, confirm: Cards \cup {NoSite}, account: BOOLEAN]
      /\ layers'.confirm = layers.confirm
  BY <1>1, LayerRecord, Bounds
<1> QED
  BY <1>1, <1>2, DialogClicks, LayerRecord

LEMMA StepAnswer ==
    ASSUME LayersInv, NEW yes \in BOOLEAN, NEW on \in {"page", "dialog"},
           Layers!AnswerConfirm(yes, on)
    PROVE  LayersInv'
<1>1. /\ Layers!Presses(on) /\ menu' \in {menu, NoSite} /\ over' = over
      /\ kept' = kept /\ sheet' = sheet /\ term' = term /\ held' = held /\ moved' = moved
      /\ edited' = edited
      /\ layers.confirm # NoSite /\ layers' = [layers EXCEPT !.confirm = NoSite]
      /\ waits' \in {waits, waits \cup {[op |-> "delete", site |-> layers.confirm]}}
  BY DEF Layers!AnswerConfirm, Layers!Clicks, Layers!MenuAfterClick
<1>2. /\ layers' \in [alerts: 0..MaxAlerts, confirm: Cards \cup {NoSite}, account: BOOLEAN]
      /\ layers'.confirm = NoSite
      /\ [op |-> "delete", site |-> layers.confirm] \in Layers!Call
  BY <1>1, LayerRecord DEF Layers!Call
<1>3. menu = NoSite /\ over # "form"
  BY <1>1 DEF LayersInv, MenuInv, FormInv
<1>4. waits' \subseteq Layers!Call
  BY <1>1, <1>2, LayerRecord
<1> QED
  BY <1>1, <1>2, <1>3, <1>4, DialogClicks

LEMMA StepCloseAccount == ASSUME LayersInv, Layers!CloseAccount PROVE LayersInv'
<1>1. /\ Layers!Presses("dialog") /\ menu' = menu /\ over' = over
      /\ kept' = kept /\ sheet' = sheet /\ term' = term /\ held' = held /\ moved' = moved
      /\ edited' = edited /\ waits' = waits
      /\ layers' = [layers EXCEPT !.account = FALSE]
  BY DEF Layers!CloseAccount, Layers!Clicks, Layers!MenuAfterClick
<1>2. /\ layers' \in [alerts: 0..MaxAlerts, confirm: Cards \cup {NoSite}, account: BOOLEAN]
      /\ layers'.confirm = layers.confirm
  BY <1>1, LayerRecord
<1> QED
  BY <1>1, <1>2, DialogClicks, LayerRecord

LEMMA Act == ASSUME LayersInv, Layers!Acts \/ acts' = acts PROVE acts' \in 0..LayerEvents
  BY Bounds DEF LayersInv, Layers!TypeOK, Layers!Acts

LEMMA StepSelect == ASSUME LayersInv, Layers!ToggleSelect PROVE LayersInv'
<1>1. /\ over = "form" /\ Layers!Acts /\ focus' = "page"
      /\ popup' = [card |-> FALSE, select |-> ~popup.select]
      /\ kept' = kept /\ sheet' = sheet /\ term' = term /\ held' = held /\ menu' = menu
      /\ over' = over /\ edited' = edited /\ layers' = layers /\ waits' = waits /\ moved' = moved
  BY DEF Layers!ToggleSelect, Layers!Remembered
<1>2. popup' \in [card: BOOLEAN, select: BOOLEAN] /\ ~popup'.card
  BY <1>1
<1>3. menu = NoSite
  BY <1>1 DEF LayersInv, MenuInv
<1>4. Layers!TypeOK'
  BY <1>1, <1>2, Act DEF LayersInv, Layers!TypeOK
<1> QED
  BY <1>1, <1>2, <1>3, <1>4 DEF LayersInv, MenuInv, FormInv

LEMMA StepCard == ASSUME LayersInv, Layers!ToggleCard \/ Layers!OpenAccount PROVE LayersInv'
<1>1. /\ Layers!Acts /\ focus' = "page" /\ menu' = NoSite
      /\ \/ popup' = [card |-> ~popup.card, select |-> FALSE]
         \/ popup' = [popup EXCEPT !.card = FALSE]
      /\ layers' = layers \/ layers' = [layers EXCEPT !.account = TRUE]
      /\ kept' = kept /\ sheet' = sheet /\ term' = term /\ held' = held
      /\ over' = over /\ edited' = edited /\ waits' = waits /\ moved' = moved
  BY DEF Layers!ToggleCard, Layers!OpenAccount, Layers!MenuAfterClick
<1>2. popup \in [card: BOOLEAN, select: BOOLEAN]
  BY DEF LayersInv, Layers!TypeOK
<1>3. popup' \in [card: BOOLEAN, select: BOOLEAN] /\ ~(popup'.card /\ popup'.select)
  <2>1. CASE popup' = [card |-> ~popup.card, select |-> FALSE]
    <3>1. popup'.select = FALSE /\ popup' \in [card: BOOLEAN, select: BOOLEAN]
      BY <2>1
    <3> QED
      BY <3>1
  <2>2. CASE popup' = [popup EXCEPT !.card = FALSE]
    <3>1. popup'.card = FALSE /\ popup' \in [card: BOOLEAN, select: BOOLEAN]
      BY <1>2, <2>2
    <3> QED
      BY <3>1
  <2> QED
    BY <1>1, <2>1, <2>2
<1>4. /\ layers' \in [alerts: 0..MaxAlerts, confirm: Cards \cup {NoSite}, account: BOOLEAN]
      /\ layers'.confirm = layers.confirm
  BY <1>1, LayerRecord
<1>5. Layers!TypeOK'
  BY <1>1, <1>3, <1>4, Act DEF LayersInv, Layers!TypeOK
<1> QED
  BY <1>1, <1>3, <1>4, <1>5 DEF LayersInv, MenuInv, FormInv

LEMMA StepTab ==
    ASSUME LayersInv, NEW on \in {"page", "search", "field", "dialog"}, Layers!Tab(on) PROVE LayersInv'
<1>1. /\ Layers!Acts /\ focus' \in {"page", "search", "field"} /\ popup' = popup
      /\ kept' = kept /\ sheet' = sheet /\ term' = term /\ held' = held /\ menu' = menu
      /\ over' = over /\ edited' = edited /\ layers' = layers /\ waits' = waits /\ moved' = moved
  BY DEF Layers!Tab, Layers!Remembered
<1>2. Layers!TypeOK'
  BY <1>1, Act DEF LayersInv, Layers!TypeOK
<1> QED
  BY <1>1, <1>2 DEF LayersInv, MenuInv, FormInv, Layers!Shown

LEMMA StepType == ASSUME LayersInv, Layers!Type PROVE LayersInv'
<1>1. /\ Layers!Acts /\ focus' = focus /\ popup' = popup
      /\ term' = TRUE /\ moved' = (moved \/ menu # NoSite)
      /\ kept' = kept /\ sheet' = sheet /\ held' = held /\ menu' = menu
      /\ over' = over /\ edited' = edited /\ layers' = layers /\ waits' = waits
  BY DEF Layers!Type
<1>2. term' \in BOOLEAN /\ moved' \in BOOLEAN
  BY <1>1
<1>3. Layers!TypeOK'
  BY <1>1, <1>2, Act DEF LayersInv, Layers!TypeOK
<1> QED
  BY <1>1, <1>3 DEF LayersInv, MenuInv, FormInv

LEMMA StepEscape == ASSUME LayersInv, Layers!Escape PROVE LayersInv'
<1>1. /\ Layers!Acts /\ focus' = focus /\ popup' = popup /\ menu' = NoSite
      /\ kept' = kept /\ sheet' = sheet /\ held' = held /\ moved' = moved
      /\ over' = over /\ edited' = edited /\ layers' = layers /\ waits' = waits
  BY DEF Layers!Escape
<1>2. term' \in BOOLEAN
  BY DEF Layers!Escape
<1>3. Layers!TypeOK'
  BY <1>1, <1>2, Act DEF LayersInv, Layers!TypeOK
<1> QED
  BY <1>1, <1>3 DEF LayersInv, MenuInv, FormInv

LEMMA StepLoaded == ASSUME LayersInv, Layers!Loaded PROVE LayersInv'
<1>1. /\ sheet.loading /\ sheet' = [rows |-> kept, loading |-> FALSE]
      /\ focus' = focus /\ popup' = popup /\ menu' = menu /\ term' = term /\ acts' = acts
      /\ kept' = kept /\ held' = held /\ moved' = moved
      /\ over' = over /\ edited' = edited /\ layers' = layers /\ waits' = waits
  BY DEF Layers!Loaded
<1>2. /\ sheet' \in [rows: SUBSET Cards, loading: BOOLEAN] /\ sheet'.rows = kept
  BY <1>1 DEF LayersInv, Layers!TypeOK
<1>3. Layers!TypeOK'
  BY <1>1, <1>2 DEF LayersInv, Layers!TypeOK
<1> QED
  BY <1>1, <1>2, <1>3 DEF LayersInv, MenuInv, FormInv

(* A load begins.  It takes the list of a form with it, not the menu, and  *)
(* not the form.                                                           *)
LEMMA Loading ==
    ASSUME LayersInv, Layers!BeginsLoad, kept' \subseteq Cards, waits' \subseteq waits,
           moved' \in BOOLEAN, moved => moved',
           Layers!Acts \/ acts' = acts,
           menu # NoSite => moved',
           over = "form" /\ edited # NoSite /\ ~moved' => kept' = kept \/ edited \in kept'
    PROVE  LayersInv'
<1>1. /\ sheet' = [sheet EXCEPT !.loading = TRUE]
      /\ popup' = [popup EXCEPT !.select = FALSE]
      /\ held' = [held EXCEPT !.sorting = {}]
      /\ focus' = "page"
      /\ term' = term /\ menu' = menu /\ over' = over /\ edited' = edited /\ layers' = layers
  BY DEF Layers!BeginsLoad
<1>2. /\ sheet \in [rows: SUBSET Cards, loading: BOOLEAN] /\ popup \in [card: BOOLEAN, select: BOOLEAN]
      /\ held \in [folded: SUBSET Cards, sorting: SUBSET Cards]
  BY DEF LayersInv, Layers!TypeOK
<1>3. /\ sheet' \in [rows: SUBSET Cards, loading: BOOLEAN] /\ sheet'.loading
      /\ popup' \in [card: BOOLEAN, select: BOOLEAN] /\ popup'.card = popup.card /\ ~popup'.select
      /\ held' \in [folded: SUBSET Cards, sorting: SUBSET Cards]
  BY <1>1, <1>2
<1>4. Layers!TypeOK'
  BY <1>1, <1>3, Act DEF LayersInv, Layers!TypeOK
<1>5. MenuInv'
  BY <1>1, <1>3 DEF LayersInv, MenuInv
<1>6. FormInv'
  BY <1>1, <1>3 DEF LayersInv, FormInv
<1> QED
  BY <1>3, <1>4, <1>5, <1>6 DEF LayersInv

LEMMA StepItem ==
    ASSUME LayersInv, NEW c \in waits, Layers!DeleteItem(c) \/ Layers!SaveItem(c) PROVE LayersInv'
<1>1. /\ Layers!BeginsLoad /\ waits' = waits \ {c} /\ moved' = moved /\ acts' = acts
      /\ c.op # "open"
      /\ \/ kept' = kept
         \/ c.op = "delete" /\ kept' = kept \ {c.site}
  BY DEF Layers!DeleteItem, Layers!SaveItem
<1>2. kept' \subseteq Cards /\ moved \in BOOLEAN
  BY <1>1 DEF LayersInv, Layers!TypeOK
<1>3. menu # NoSite => moved
  BY <1>1 DEF LayersInv, MenuInv
<1>4. over = "form" /\ edited # NoSite /\ ~moved => kept' = kept
  BY <1>1 DEF LayersInv, FormInv
<1> QED
  BY <1>1, <1>2, <1>3, <1>4, Loading

LEMMA StepData == ASSUME LayersInv, NEW S \in SUBSET Cards, Layers!DataChanges(S) PROVE LayersInv'
<1>1. /\ Layers!BeginsLoad /\ Layers!Acts /\ waits' = waits /\ kept' = S
      /\ moved' = (moved \/ menu # NoSite \/ over = "form")
  BY DEF Layers!DataChanges
<1>2. moved' \in BOOLEAN
  BY <1>1
<1> QED
  BY <1>1, <1>2, Loading

LEMMA StepAnswered ==
    ASSUME LayersInv, NEW c \in waits,
           Layers!CallFails(c) \/ \E b \in BOOLEAN : Layers!LinkOpened(c, b)
    PROVE  LayersInv'
<1>1. /\ waits' = waits \ {c} /\ acts' = acts /\ moved' = moved
      /\ \/ layers' = layers
         \/ layers.alerts < MaxAlerts /\ layers' = [layers EXCEPT !.alerts = layers.alerts + 1]
      /\ kept' = kept /\ sheet' = sheet /\ term' = term /\ held' = held /\ menu' = menu
      /\ over' = over /\ edited' = edited /\ popup' = popup /\ focus' = focus
  BY DEF Layers!CallFails, Layers!LinkOpened
<1>2. /\ layers' \in [alerts: 0..MaxAlerts, confirm: Cards \cup {NoSite}, account: BOOLEAN]
      /\ layers'.confirm = layers.confirm
  BY <1>1, LayerRecord, Bounds
<1>3. Layers!TypeOK'
  BY <1>1, <1>2 DEF LayersInv, Layers!TypeOK
<1> QED
  BY <1>1, <1>2, <1>3 DEF LayersInv, MenuInv, FormInv, Layers!Shown

LEMMA LayersStep == LayersInv /\ Layers!Next => LayersInv'
<1> SUFFICES ASSUME LayersInv, Layers!Next PROVE LayersInv'
  OBVIOUS
<1>1. ASSUME NEW on \in {"page", "search", "dialog", "field"}, Layers!ClickPage(on) PROVE LayersInv'
  <2>1. on \in {"page", "search"}
    BY <1>1 DEF Layers!ClickPage
  <2> QED
    BY <1>1, <2>1, StepClickPage
<1>2. ASSUME NEW on \in {"page", "search", "dialog", "field"}, Layers!DismissAlert(on) PROVE LayersInv'
  <2>1. on \in {"dialog", "page"}
    BY <1>2 DEF Layers!DismissAlert
  <2> QED
    BY <1>2, <2>1, StepDismiss
<1>3. ASSUME NEW on \in {"page", "search", "dialog", "field"}, Layers!Tab(on) PROVE LayersInv'
  BY <1>3, StepTab
<1> QED
  BY <1>1, <1>2, <1>3, StepClearSearch, StepClickCard, StepSorting, StepOpenDialog, StepOpenMenu,
     StepChooseEdit, StepChooseDelete, StepCloseDialog, StepSubmit, StepAnswer, StepCloseAccount,
     StepSelect, StepCard, StepType, StepEscape, StepLoaded, StepItem, StepData, StepAnswered, Zenon
     DEF Layers!Next

LEMMA LayersAreSound ==
    ASSUME LayersInv
    PROVE  Layers!TypeOK /\ Layers!MenuIsOfACard /\ Layers!FormIsOfASite /\ Layers!OneAtATime
  BY DEF LayersInv, MenuInv, FormInv, Layers!MenuIsOfACard, Layers!FormIsOfASite, Layers!OneAtATime

-----------------------------------------------------------------------------
(* Dialogs: what opening one and taking one away does to a stack.          *)

IsFound(d) == d.kind = "found" /\ d.mine

Has(s, k) == \E i \in 1..Len(s) : s[i].kind = k

OneOfAKey(s) ==
    \A i, j \in 1..Len(s) : (s[i].kind = s[j].kind /\ s[i].kind \in Dialogs!Keyed) => i = j

NoFound(s)      == \A i \in 1..Len(s) : ~IsFound(s[i])
OneFound(s)     == \A i, j \in 1..Len(s) : IsFound(s[i]) /\ IsFound(s[j]) => i = j
OwnProgress(s)  == \A i \in 1..Len(s) : s[i].kind = "progress" => s[i].mine

(* t is s without its i-th dialog.                                         *)
Without(t, s, i) ==
    /\ t \in Seq(Dialogs!Dialog) /\ Len(t) = Len(s) - 1
    /\ \A j \in 1..Len(t) : t[j] = s[IF j < i THEN j ELSE j + 1]

LEMMA LowerPart ==
    ASSUME NEW s \in Seq(Dialogs!Dialog), NEW i \in 1..Len(s)
    PROVE  /\ SubSeq(s, 1, i - 1) \in Seq(Dialogs!Dialog) /\ Len(SubSeq(s, 1, i - 1)) = i - 1
           /\ \A j \in 1..(i - 1) : SubSeq(s, 1, i - 1)[j] = s[j]
  OBVIOUS

LEMMA ClosedIsWithout ==
    ASSUME NEW s \in Seq(Dialogs!Dialog), NEW i \in 1..Len(s)
    PROVE  Without(Dialogs!Closed(s, i), s, i)
<1> DEFINE f == SubSeq(s, 1, i - 1)
           g == SubSeq(s, i + 1, Len(s))
<1>1. /\ f \in Seq(Dialogs!Dialog) /\ Len(f) = i - 1
      /\ \A j \in 1..(i - 1) : f[j] = s[j]
  BY LowerPart
<1>2. /\ g \in Seq(Dialogs!Dialog) /\ Len(g) = Len(s) - i
      /\ \A j \in 1..(Len(s) - i) : g[j] = s[i + j]
  OBVIOUS
<1>3. Dialogs!Closed(s, i) = f \o g
  BY DEF Dialogs!Closed, Dialogs!RemoveAt
<1> HIDE DEF f, g
<1>4. /\ (f \o g) \in Seq(Dialogs!Dialog) /\ Len(f \o g) = Len(s) - 1
      /\ \A j \in 1..(Len(s) - 1) : (f \o g)[j] = IF j < i THEN f[j] ELSE g[j - (i - 1)]
  <2>1. /\ (f \o g) \in Seq(Dialogs!Dialog) /\ Len(f \o g) = Len(f) + Len(g)
        /\ \A j \in 1..(Len(f) + Len(g)) :
              (f \o g)[j] = IF j <= Len(f) THEN f[j] ELSE g[j - Len(f)]
    BY ONLY <1>1, <1>2, ConcatProperties
  <2>2. Len(f) + Len(g) = Len(s) - 1
    BY <1>1, <1>2
  <2>3. \A j \in 1..(Len(s) - 1) : j <= Len(f) <=> j < i
    BY <1>1
  <2> QED
    BY <1>1, <2>1, <2>2, <2>3
<1>5. \A j \in 1..(Len(s) - 1) : (f \o g)[j] = s[IF j < i THEN j ELSE j + 1]
  <2> SUFFICES ASSUME NEW j \in 1..(Len(s) - 1) PROVE (f \o g)[j] = s[IF j < i THEN j ELSE j + 1]
    OBVIOUS
  <2>1. CASE j < i
    BY <1>1, <1>4, <2>1
  <2>2. CASE ~(j < i)
    <3>1. j - (i - 1) \in 1..(Len(s) - i) /\ i + (j - (i - 1)) = j + 1
      BY <2>2
    <3> QED
      BY <1>2, <1>4, <2>2, <3>1
  <2> QED
    BY <2>1, <2>2
<1> QED
  BY <1>3, <1>4, <1>5 DEF Without

LEMMA PoppedIsWithout ==
    ASSUME NEW s \in Seq(Dialogs!Dialog), s # <<>>
    PROVE  Without(Dialogs!Popped(s), s, Len(s)) /\ Len(s) \in 1..Len(s)
<1>1. Len(s) \in Nat /\ Len(s) > 0
  OBVIOUS
<1>2. Dialogs!Popped(s) = SubSeq(s, 1, Len(s) - 1)
  BY DEF Dialogs!Popped, Dialogs!Front
<1> DEFINE t == SubSeq(s, 1, Len(s) - 1)
<1>3. /\ t \in Seq(Dialogs!Dialog) /\ Len(t) = Len(s) - 1
      /\ \A j \in 1..(Len(s) - 1) : t[j] = s[j]
  <2>1. Len(s) \in 1..Len(s)
    BY <1>1
  <2> QED
    BY <2>1, LowerPart
<1> HIDE DEF t
<1>4. \A j \in 1..Len(t) : t[j] = s[IF j < Len(s) THEN j ELSE j + 1]
  BY <1>1, <1>3
<1> QED
  BY <1>1, <1>2, <1>3, <1>4 DEF Without, t

LEMMA WithoutKeeps ==
    ASSUME NEW s \in Seq(Dialogs!Dialog), NEW i \in 1..Len(s), NEW t, Without(t, s, i)
    PROVE  /\ OneOfAKey(s) => OneOfAKey(t)
           /\ NoFound(s) => NoFound(t)
           /\ OneFound(s) => OneFound(t)
           /\ OwnProgress(s) => OwnProgress(t)
           /\ OneFound(s) /\ IsFound(s[i]) => NoFound(t)
           /\ \A k : Has(s, k) /\ s[i].kind # k => Has(t, k)
<1> DEFINE from(j) == IF j < i THEN j ELSE j + 1
<1>1. /\ t \in Seq(Dialogs!Dialog) /\ Len(t) = Len(s) - 1 /\ Len(s) \in Nat
      /\ \A j \in 1..Len(t) : t[j] = s[from(j)] /\ from(j) \in 1..Len(s) /\ from(j) # i
  BY DEF Without
<1>2. \A j, m \in 1..Len(t) : from(j) = from(m) => j = m
  BY <1>1
<1>3. \A m \in 1..Len(s) : m # i => \E j \in 1..Len(t) : from(j) = m
  <2> SUFFICES ASSUME NEW m \in 1..Len(s), m # i PROVE \E j \in 1..Len(t) : from(j) = m
    OBVIOUS
  <2>1. CASE m < i
    <3>1. m \in 1..Len(t) /\ from(m) = m
      BY <1>1, <2>1
    <3> QED
      BY <3>1
  <2>2. CASE ~(m < i)
    <3>1. (m - 1) \in 1..Len(t) /\ from(m - 1) = m
      BY <1>1, <2>2
    <3> QED
      BY <3>1
  <2> QED
    BY <2>1, <2>2
<1> HIDE DEF from
<1>4. OneOfAKey(s) => OneOfAKey(t)
  BY <1>1, <1>2 DEF OneOfAKey
<1>5. (NoFound(s) => NoFound(t)) /\ (OwnProgress(s) => OwnProgress(t))
  BY <1>1 DEF NoFound, OwnProgress
<1>6. OneFound(s) => OneFound(t)
  BY <1>1, <1>2 DEF OneFound
<1>7. OneFound(s) /\ IsFound(s[i]) => NoFound(t)
  BY <1>1 DEF OneFound, NoFound
<1>8. \A k : Has(s, k) /\ s[i].kind # k => Has(t, k)
  BY <1>1, <1>3 DEF Has
<1> QED
  BY <1>4, <1>5, <1>6, <1>7, <1>8

LEMMA HasIsAKind ==
    ASSUME NEW s \in Seq(Dialogs!Dialog), NEW k
    PROVE  k \in Dialogs!Kinds(s) <=> Has(s, k)
  BY DEF Dialogs!Kinds, Dialogs!Range, Has

LEMMA OpenedIsOver ==
    ASSUME NEW s \in Seq(Dialogs!Dialog), NEW d \in Dialogs!Dialog, NEW t, t = Dialogs!Opened(s, d)
    PROVE  /\ t \in Seq(Dialogs!Dialog) /\ Len(t) \in {Len(s), Len(s) + 1} /\ Len(t) > 0
           /\ d.kind \notin Dialogs!Keyed => t[Len(t)] = d
           /\ Has(t, d.kind) /\ \A k : Has(s, k) => Has(t, k)
           /\ OneOfAKey(s) => OneOfAKey(t)
           /\ d.kind # "progress" \/ d.mine => (OwnProgress(s) => OwnProgress(t))
           /\ ~IsFound(d) => (OneFound(s) => OneFound(t)) /\ (NoFound(s) => NoFound(t))
           /\ NoFound(s) => OneFound(t)
<1>1. CASE d.kind \in Dialogs!Keyed /\ Has(s, d.kind)
  <2>1. t = [i \in 1..Len(s) |-> IF s[i].kind = d.kind THEN d ELSE s[i]]
    BY <1>1, HasIsAKind DEF Dialogs!Opened
  <2>2. /\ t \in Seq(Dialogs!Dialog) /\ Len(t) = Len(s) /\ Len(s) \in Nat
        /\ \A i \in 1..Len(s) : t[i] = IF s[i].kind = d.kind THEN d ELSE s[i]
    BY <2>1
  <2>3. \A i \in 1..Len(s) : t[i].kind = s[i].kind
    BY <2>2
  <2>4. \A i \in 1..Len(s) : IsFound(t[i]) <=> IsFound(s[i])
    BY <1>1, <2>2 DEF IsFound, Dialogs!Keyed
  <2>5. Len(s) > 0
    BY <1>1, <2>2 DEF Has
  <2>6. OneOfAKey(s) => OneOfAKey(t)
    BY <2>2, <2>3 DEF OneOfAKey
  <2>7. (OneFound(s) => OneFound(t)) /\ (NoFound(s) => NoFound(t)) /\ (NoFound(s) => OneFound(t))
    BY <2>2, <2>4 DEF OneFound, NoFound
  <2>8. Has(t, d.kind) /\ \A k : Has(s, k) => Has(t, k)
    BY <1>1, <2>2, <2>3 DEF Has
  <2>9. d.kind # "progress" \/ d.mine => (OwnProgress(s) => OwnProgress(t))
    BY <2>2 DEF OwnProgress
  <2> QED
    BY <1>1, <2>2, <2>5, <2>6, <2>7, <2>8, <2>9
<1>2. CASE ~(d.kind \in Dialogs!Keyed /\ Has(s, d.kind))
  <2>1. t = Append(s, d)
    BY <1>2, HasIsAKind DEF Dialogs!Opened
  <2>2. /\ t \in Seq(Dialogs!Dialog) /\ Len(t) = Len(s) + 1 /\ Len(s) \in Nat
        /\ t[Len(t)] = d /\ \A i \in 1..Len(s) : t[i] = s[i]
    BY <2>1
  <2>3. \A i \in 1..Len(t) : i = Len(t) \/ i \in 1..Len(s)
    BY <2>2
  <2>4. OneOfAKey(s) => OneOfAKey(t)
    BY <1>2, <2>2, <2>3 DEF OneOfAKey, Has
  <2>5. /\ ~IsFound(d) => (OneFound(s) => OneFound(t)) /\ (NoFound(s) => NoFound(t))
        /\ NoFound(s) => OneFound(t)
    BY <2>2, <2>3 DEF OneFound, NoFound
  <2>6. Has(t, d.kind) /\ \A k : Has(s, k) => Has(t, k)
    BY <2>2 DEF Has
  <2>7. d.kind # "progress" \/ d.mine => (OwnProgress(s) => OwnProgress(t))
    BY <2>2, <2>3 DEF OwnProgress
  <2> QED
    BY <2>2, <2>4, <2>5, <2>6, <2>7
<1> QED
  BY <1>1, <1>2

-----------------------------------------------------------------------------
(* Dialogs: until a button under a dialog is pressed, an answer closes     *)
(* what is not its own, or a download that was given up is heard of, what  *)
(* runs for the page is one check or one download, and the stack has its   *)
(* dialogs.                                                                *)

Checking   == \E c \in checks : c.mine
ForPage(d)   == d.mine /\ ~d.cancelled
Downloading    == \E d \in downloads : ForPage(d)
Calm       == ~under /\ ~swept /\ ~haunted

DialogTypes ==
    /\ Dialogs!TypeOK
    /\ under \in BOOLEAN /\ loose \in BOOLEAN /\ swept \in BOOLEAN /\ haunted \in BOOLEAN
    /\ events \in Nat

StackInv == OneOfAKey(modals) /\ (~page.open => NoFound(modals))

ChecksInv ==
    /\ page.checking <=> Checking
    /\ ~loose => \A c \in checks : c.mine
    /\ checks # {} /\ ~loose /\ ~under /\ ~haunted =>
          Len(modals) > 0 /\ modals[Len(modals)].kind = "checking"
    /\ swept => loose \/ under \/ haunted

CalmInv ==
    Calm =>
        /\ \A d, e \in downloads : ForPage(d) /\ ForPage(e) => d = e
        /\ page.downloading <=> Downloading
        /\ Downloading => Has(modals, "progress") /\ ~Checking /\ NoFound(modals)
        /\ OwnProgress(modals) /\ OneFound(modals)
        /\ Checking => NoFound(modals)

DialogsInv == DialogTypes /\ StackInv /\ ChecksInv /\ CalmInv

LEMMA DialogsStart == Dialogs!Init => DialogsInv
<1> SUFFICES ASSUME Dialogs!Init PROVE DialogsInv
  OBVIOUS
<1>1. /\ modals = <<>> /\ page = [open |-> TRUE, checking |-> FALSE, downloading |-> FALSE]
      /\ checks = {} /\ downloads = {} /\ events = 0
  BY DEF Dialogs!Init, Dialogs!Fresh
<1>2. under = FALSE /\ loose = FALSE /\ swept = FALSE /\ haunted = FALSE
  BY DEF Dialogs!Init
<1>3. under \in BOOLEAN /\ loose \in BOOLEAN /\ swept \in BOOLEAN /\ haunted \in BOOLEAN
  BY <1>2
<1>4. page.open = TRUE /\ page.checking = FALSE /\ page.downloading = FALSE
  BY <1>1
<1>5. modals \in Seq(Dialogs!Dialog) /\ Len(modals) = 0
  BY <1>1
<1>6. DialogTypes
  <2>1. page \in [open : BOOLEAN, checking : BOOLEAN, downloading : BOOLEAN]
    BY <1>1
  <2>2. Len(modals) <= MaxDialogs /\ events \in Nat
    BY <1>1, <1>5, DesktopPageAssumption
  <2> QED
    BY <1>1, <1>3, <1>4, <1>5, <2>1, <2>2 DEF DialogTypes, Dialogs!TypeOK
<1>7. StackInv /\ OwnProgress(modals) /\ OneFound(modals)
  BY <1>4, <1>5 DEF StackInv, OneOfAKey, NoFound, OwnProgress, OneFound
<1>8. ~Checking /\ ~Downloading
  BY <1>1 DEF Checking, Downloading
<1> QED
  BY <1>1, <1>2, <1>4, <1>6, <1>7, <1>8 DEF DialogsInv, ChecksInv, CalmInv

LEMMA StepOpenFromMenu ==
    ASSUME DialogsInv, NEW k \in {"settings", "profile"}, Dialogs!OpenFromMenu(k) PROVE DialogsInv'
<1> DEFINE d == [kind |-> k, mine |-> TRUE]
<1>1. /\ Len(modals) < MaxDialogs /\ events' = events + 1 /\ modals' = Dialogs!Opened(modals, d)
      /\ loose' = (loose \/ checks # {})
      /\ UNCHANGED <<page, checks, downloads, under, swept, haunted>>
  BY DEF Dialogs!OpenFromMenu, Dialogs!Room, Dialogs!Event
<1>2. d \in Dialogs!Dialog /\ d.kind # "progress" /\ ~IsFound(d)
  BY DEF Dialogs!Dialog, Dialogs!Keyed, IsFound
<1>3. modals \in Seq(Dialogs!Dialog) /\ Len(modals) \in Nat
  BY DEF DialogsInv, DialogTypes, Dialogs!TypeOK
<1> HIDE DEF d
<1>4. /\ modals' \in Seq(Dialogs!Dialog) /\ Len(modals') \in {Len(modals), Len(modals) + 1}
      /\ \A j : Has(modals, j) => Has(modals', j)
      /\ OneOfAKey(modals) => OneOfAKey(modals')
      /\ OwnProgress(modals) => OwnProgress(modals')
      /\ (OneFound(modals) => OneFound(modals')) /\ (NoFound(modals) => NoFound(modals'))
  BY <1>1, <1>2, <1>3, OpenedIsOver
<1>5. DialogTypes'
  <2>1. loose' \in BOOLEAN
    BY <1>1
  <2>2. events' \in Nat /\ Len(modals') <= MaxDialogs
    BY <1>1, <1>3, <1>4, DesktopPageAssumption DEF DialogsInv, DialogTypes
  <2> QED
    BY <1>1, <1>4, <2>1, <2>2 DEF DialogsInv, DialogTypes, Dialogs!TypeOK
<1>6. StackInv'
  BY <1>1, <1>4 DEF DialogsInv, StackInv
<1>7. ChecksInv'
  BY <1>1 DEF DialogsInv, ChecksInv, Checking
<1>8. CalmInv'
  BY <1>1, <1>4 DEF DialogsInv, CalmInv, Calm, Checking, Downloading
<1> QED
  BY <1>5, <1>6, <1>7, <1>8 DEF DialogsInv

(* t has the dialog d in place of the i-th of s, or of its own key.        *)
Replaced(t, s, i, d) ==
    /\ t \in Seq(Dialogs!Dialog) /\ Len(t) <= Len(s) /\ Len(t) > 0
    /\ d.kind \notin Dialogs!Keyed => t[Len(t)] = d
    /\ Has(t, d.kind) /\ \A k : Has(s, k) /\ s[i].kind # k => Has(t, k)
    /\ OneOfAKey(s) => OneOfAKey(t)
    /\ d.kind # "progress" \/ d.mine => (OwnProgress(s) => OwnProgress(t))
    /\ ~IsFound(d) => /\ OneFound(s) => OneFound(t)
                      /\ NoFound(s) => NoFound(t)
                      /\ OneFound(s) /\ IsFound(s[i]) => NoFound(t)
    /\ NoFound(s) => OneFound(t)

LEMMA OpenedInPlace ==
    ASSUME NEW s \in Seq(Dialogs!Dialog), NEW i \in 1..Len(s), NEW r, Without(r, s, i),
           NEW d \in Dialogs!Dialog
    PROVE  Replaced(Dialogs!Opened(r, d), s, i, d)
<1> DEFINE t == Dialogs!Opened(r, d)
<1>1. r \in Seq(Dialogs!Dialog) /\ Len(r) = Len(s) - 1 /\ Len(s) \in Nat /\ Len(r) \in Nat
  BY DEF Without
<1>2. /\ OneOfAKey(s) => OneOfAKey(r)
      /\ NoFound(s) => NoFound(r)
      /\ OneFound(s) => OneFound(r)
      /\ OwnProgress(s) => OwnProgress(r)
      /\ OneFound(s) /\ IsFound(s[i]) => NoFound(r)
      /\ \A k : Has(s, k) /\ s[i].kind # k => Has(r, k)
  BY WithoutKeeps
<1>3. /\ t \in Seq(Dialogs!Dialog) /\ Len(t) \in {Len(r), Len(r) + 1} /\ Len(t) > 0
      /\ d.kind \notin Dialogs!Keyed => t[Len(t)] = d
      /\ Has(t, d.kind) /\ \A k : Has(r, k) => Has(t, k)
      /\ OneOfAKey(r) => OneOfAKey(t)
      /\ d.kind # "progress" \/ d.mine => (OwnProgress(r) => OwnProgress(t))
      /\ ~IsFound(d) => (OneFound(r) => OneFound(t)) /\ (NoFound(r) => NoFound(t))
      /\ NoFound(r) => OneFound(t)
  BY <1>1, OpenedIsOver
<1> HIDE DEF t
<1>4. Len(t) <= Len(s)
  BY <1>1, <1>3
<1>5. Replaced(t, s, i, d)
  BY <1>2, <1>3, <1>4 DEF Replaced
<1> QED
  BY <1>5 DEF t

(* A dialog is where the stack says, and pressing one that is covered is   *)
(* remembered.                                                             *)
LEMMA Presses ==
    ASSUME DialogsInv, NEW i \in DOMAIN modals, Dialogs!Pressed(i)
    PROVE  /\ modals \in Seq(Dialogs!Dialog) /\ Len(modals) \in Nat /\ i \in 1..Len(modals)
           /\ Len(modals) <= MaxDialogs /\ modals[i] \in Dialogs!Dialog
           /\ under' \in BOOLEAN /\ (under => under') /\ (~under' => i = Len(modals))
<1>1. modals \in Seq(Dialogs!Dialog) /\ Len(modals) <= MaxDialogs
  BY DEF DialogsInv, DialogTypes, Dialogs!TypeOK
<1>2. DOMAIN modals = 1..Len(modals) /\ Len(modals) \in Nat
  BY <1>1
<1>3. under' = (under \/ i # Len(modals))
  BY DEF Dialogs!Pressed
<1>4. under' \in BOOLEAN /\ (under => under') /\ (~under' => i = Len(modals))
  BY ONLY <1>3
<1>5. modals[i] \in Dialogs!Dialog
  BY <1>1, <1>2
<1> QED
  BY <1>1, <1>2, <1>4, <1>5

LEMMA StepOpenLogin ==
    ASSUME DialogsInv, NEW i \in DOMAIN modals, Dialogs!OpenLogin(i) PROVE DialogsInv'
<1> DEFINE d == [kind |-> "login", mine |-> TRUE]
           r == Dialogs!Closed(modals, i)
<1>1. /\ modals[i].kind = "profile" /\ events' = events + 1 /\ Dialogs!Pressed(i)
      /\ modals' = Dialogs!Opened(r, d)
      /\ UNCHANGED <<page, checks, downloads, loose, swept, haunted>>
  BY DEF Dialogs!OpenLogin, Dialogs!Event
<1>2. d \in Dialogs!Dialog /\ d.kind # "progress" /\ ~IsFound(d)
  BY DEF Dialogs!Dialog, Dialogs!Keyed, IsFound
<1> HIDE DEF d
<1>3. /\ modals \in Seq(Dialogs!Dialog) /\ Len(modals) \in Nat /\ i \in 1..Len(modals)
      /\ Len(modals) <= MaxDialogs
      /\ under' \in BOOLEAN /\ (under => under') /\ (~under' => i = Len(modals))
  BY <1>1, Presses
<1>4. Without(r, modals, i)
  BY <1>3, ClosedIsWithout
<1> HIDE DEF r
<1>5. Replaced(modals', modals, i, d)
  BY <1>1, <1>2, <1>3, <1>4, OpenedInPlace
<1>6. DialogTypes'
  <2>1. events' \in Nat /\ Len(modals') <= MaxDialogs
    BY <1>1, <1>3, <1>5, DesktopPageAssumption DEF DialogsInv, DialogTypes, Replaced
  <2> QED
    BY <1>1, <1>3, <1>5, <2>1 DEF DialogsInv, DialogTypes, Dialogs!TypeOK, Replaced
<1>7. StackInv'
  BY <1>1, <1>2, <1>5 DEF DialogsInv, StackInv, Replaced
<1>8. ChecksInv'
  BY <1>1, <1>3 DEF DialogsInv, ChecksInv, Checking
<1>9. CalmInv'
  BY <1>1, <1>2, <1>3, <1>5 DEF DialogsInv, CalmInv, Calm, Checking, Downloading, Replaced
<1> QED
  BY <1>6, <1>7, <1>8, <1>9 DEF DialogsInv

LEMMA EmptyStack ==
    /\ <<>> \in Seq(Dialogs!Dialog) /\ Len(<<>>) = 0
    /\ OneOfAKey(<<>>) /\ NoFound(<<>>) /\ OwnProgress(<<>>) /\ OneFound(<<>>)
    /\ \A k : ~Has(<<>>, k)
  BY DEF OneOfAKey, NoFound, OwnProgress, OneFound, Has

LEMMA StepNavigate == ASSUME DialogsInv, Dialogs!Navigate PROVE DialogsInv'
<1>1. /\ events' = events + 1 /\ modals' = <<>>
      /\ page' = [open |-> ~page.open, checking |-> FALSE, downloading |-> FALSE]
      /\ checks' = {[c EXCEPT !.mine = FALSE] : c \in checks}
      /\ downloads' = {[d EXCEPT !.mine = FALSE] : d \in downloads}
      /\ loose' = (loose \/ checks # {})
      /\ UNCHANGED <<under, swept, haunted>>
  BY DEF Dialogs!Navigate, Dialogs!Event, Dialogs!Left, Dialogs!Fresh
<1>2. /\ page \in [open : BOOLEAN, checking : BOOLEAN, downloading : BOOLEAN]
      /\ checks \subseteq [mine : BOOLEAN]
      /\ downloads \subseteq [id : Nat, mine : BOOLEAN, cancelled : BOOLEAN]
  BY DEF DialogsInv, DialogTypes, Dialogs!TypeOK
<1>3. /\ page' \in [open : BOOLEAN, checking : BOOLEAN, downloading : BOOLEAN]
      /\ ~page'.checking /\ ~page'.downloading
  BY <1>1, <1>2
<1>4. checks' \subseteq [mine : BOOLEAN] /\ \A c \in checks' : ~c.mine
  BY <1>1, <1>2
<1>5. /\ downloads' \subseteq [id : Nat, mine : BOOLEAN, cancelled : BOOLEAN]
      /\ \A d \in downloads' : ~d.mine
  BY <1>1, <1>2
<1>6. loose' \in BOOLEAN /\ (loose => loose') /\ (checks # {} => loose')
  BY <1>1
<1>7. checks' # {} => checks # {}
  BY <1>1
<1>8. ~Checking' /\ ~Downloading'
  BY <1>4, <1>5 DEF Checking, Downloading, ForPage
<1>9. DialogTypes'
  <2>1. events' \in Nat /\ Len(modals') <= MaxDialogs
    BY <1>1, EmptyStack, DesktopPageAssumption DEF DialogsInv, DialogTypes
  <2> QED
    BY <1>1, <1>3, <1>4, <1>5, <1>6, <2>1, EmptyStack DEF DialogsInv, DialogTypes, Dialogs!TypeOK
<1>10. StackInv'
  BY <1>1, EmptyStack DEF StackInv
<1>11. ChecksInv'
  BY <1>1, <1>3, <1>6, <1>7, <1>8 DEF DialogsInv, ChecksInv
<1>12. CalmInv'
  BY <1>1, <1>3, <1>8, EmptyStack DEF CalmInv, Downloading
<1> QED
  BY <1>9, <1>10, <1>11, <1>12 DEF DialogsInv

LEMMA StepCheckUpdate == ASSUME DialogsInv, Dialogs!CheckUpdate PROVE DialogsInv'
<1> DEFINE d == [kind |-> "checking", mine |-> TRUE]
<1>1. /\ page.open /\ ~page.checking /\ ~page.downloading
      /\ Len(modals) < MaxDialogs /\ events' = events + 1
      /\ checks' = checks \cup {[mine |-> TRUE]}
      /\ page' = [page EXCEPT !.checking = TRUE]
      /\ modals' = Dialogs!Opened(modals, d)
      /\ under' = (under \/ "found" \in Dialogs!Kinds(modals))
      /\ UNCHANGED <<downloads, loose, swept, haunted>>
  BY DEF Dialogs!CheckUpdate, Dialogs!Busy, Dialogs!Room, Dialogs!Event
<1>2. /\ d \in Dialogs!Dialog /\ d.kind = "checking" /\ ~IsFound(d) /\ d.kind \notin Dialogs!Keyed
  BY DEF Dialogs!Dialog, Dialogs!Keyed, Dialogs!Alerts, IsFound
<1>3. /\ modals \in Seq(Dialogs!Dialog) /\ Len(modals) \in Nat
      /\ page \in [open : BOOLEAN, checking : BOOLEAN, downloading : BOOLEAN]
      /\ checks \subseteq [mine : BOOLEAN]
  BY DEF DialogsInv, DialogTypes, Dialogs!TypeOK
<1> HIDE DEF d
<1>4. /\ modals' \in Seq(Dialogs!Dialog) /\ Len(modals') \in {Len(modals), Len(modals) + 1}
      /\ Len(modals') > 0 /\ modals'[Len(modals')] = d
      /\ \A j : Has(modals, j) => Has(modals', j)
      /\ OneOfAKey(modals) => OneOfAKey(modals')
      /\ OwnProgress(modals) => OwnProgress(modals')
      /\ (OneFound(modals) => OneFound(modals')) /\ (NoFound(modals) => NoFound(modals'))
  BY <1>1, <1>2, <1>3, OpenedIsOver
<1>5. under' \in BOOLEAN /\ (under => under')
  BY <1>1
<1>6. ~under' => NoFound(modals)
  BY <1>1, <1>3, HasIsAKind DEF Has, NoFound, IsFound
<1>7. /\ page' \in [open : BOOLEAN, checking : BOOLEAN, downloading : BOOLEAN]
      /\ page'.open /\ page'.checking /\ ~page'.downloading
  BY <1>1, <1>3
<1>8. /\ checks' \subseteq [mine : BOOLEAN] /\ Checking'
      /\ \A c \in checks' : c.mine \/ c \in checks
  <2>1. [mine |-> TRUE] \in [mine : BOOLEAN] /\ [mine |-> TRUE].mine
    OBVIOUS
  <2> QED
    BY <1>1, <1>3, <2>1 DEF Checking
<1>9. DialogTypes'
  <2>1. events' \in Nat /\ Len(modals') <= MaxDialogs
    BY <1>1, <1>3, <1>4, DesktopPageAssumption DEF DialogsInv, DialogTypes
  <2> QED
    BY <1>1, <1>4, <1>5, <1>7, <1>8, <2>1 DEF DialogsInv, DialogTypes, Dialogs!TypeOK
<1>10. StackInv'
  BY <1>4, <1>7 DEF DialogsInv, StackInv
<1>11. ChecksInv'
  BY <1>1, <1>2, <1>4, <1>5, <1>7, <1>8 DEF DialogsInv, ChecksInv
<1>12. CalmInv'
  BY <1>1, <1>4, <1>5, <1>6, <1>7 DEF DialogsInv, CalmInv, Calm, Downloading
<1> QED
  BY <1>9, <1>10, <1>11, <1>12 DEF DialogsInv

LEMMA StepCheckAnswers ==
    ASSUME DialogsInv, NEW c \in checks, NEW k \in {"found", "latest", "failed"},
           Dialogs!CheckAnswers(c, k)
    PROVE  DialogsInv'
<1> DEFINE d == [kind |-> k, mine |-> c.mine]
           r == Dialogs!Popped(modals)
<1>1. /\ checks' = checks \ {c} /\ modals' = Dialogs!Opened(r, d)
      /\ page' = IF c.mine THEN [page EXCEPT !.checking = FALSE] ELSE page
      /\ swept' = (swept \/ Dialogs!Sweeps(modals, "checking"))
      /\ UNCHANGED <<downloads, under, loose, haunted, events>>
  BY DEF Dialogs!CheckAnswers
<1>2. /\ modals \in Seq(Dialogs!Dialog) /\ Len(modals) \in Nat /\ Len(modals) <= MaxDialogs
      /\ page \in [open : BOOLEAN, checking : BOOLEAN, downloading : BOOLEAN]
      /\ ~page.open => ~page.checking
      /\ checks \subseteq [mine : BOOLEAN] /\ c.mine \in BOOLEAN
  BY DEF DialogsInv, DialogTypes, Dialogs!TypeOK
<1>3. /\ d \in Dialogs!Dialog /\ d.kind \notin Dialogs!Keyed /\ d.kind # "progress"
      /\ IsFound(d) => c.mine
  BY <1>2 DEF Dialogs!Dialog, Dialogs!Keyed, Dialogs!Alerts, IsFound
<1> HIDE DEF d
<1>4. /\ modals' \in Seq(Dialogs!Dialog) /\ Len(modals') <= MaxDialogs
      /\ OneOfAKey(modals) => OneOfAKey(modals')
      /\ OwnProgress(modals) => OwnProgress(modals')
      /\ ~IsFound(d) => (OneFound(modals) => OneFound(modals')) /\ (NoFound(modals) => NoFound(modals'))
      /\ NoFound(modals) => OneFound(modals')
      /\ ~Dialogs!Sweeps(modals, "checking") /\ Has(modals, "progress") => Has(modals', "progress")
  <2>1. CASE modals = <<>>
    <3>1. r = <<>>
      BY <2>1 DEF Dialogs!Popped
    <3>2. /\ modals' \in Seq(Dialogs!Dialog) /\ Len(modals') \in {Len(r), Len(r) + 1}
          /\ OneOfAKey(r) => OneOfAKey(modals')
          /\ OwnProgress(r) => OwnProgress(modals')
          /\ ~IsFound(d) => (OneFound(r) => OneFound(modals')) /\ (NoFound(r) => NoFound(modals'))
          /\ NoFound(r) => OneFound(modals')
      BY <1>1, <1>3, <3>1, EmptyStack, OpenedIsOver
    <3>3. Len(modals') <= MaxDialogs
      <4>1. Len(r) = 0
        BY <3>1, EmptyStack
      <4>2. Len(modals') \in {0, 1}
        BY ONLY <3>2, <4>1
      <4>3. MaxDialogs \in Nat \ {0}
        BY DesktopPageAssumption
      <4> QED
        BY ONLY <4>2, <4>3
    <3> QED
      BY <2>1, <3>1, <3>2, <3>3, EmptyStack
  <2>2. CASE modals # <<>>
    <3>1. Without(r, modals, Len(modals)) /\ Len(modals) \in 1..Len(modals)
      BY <1>2, <2>2, PoppedIsWithout
    <3>2. ~Dialogs!Sweeps(modals, "checking") => modals[Len(modals)].kind # "progress"
      BY <2>2 DEF Dialogs!Sweeps, Dialogs!Last
    <3> HIDE DEF r
    <3>3. Replaced(modals', modals, Len(modals), d)
      BY <1>1, <1>2, <1>3, <3>1, OpenedInPlace
    <3>4. Len(modals') <= MaxDialogs
      <4>1. Len(modals') \in Nat /\ MaxDialogs \in Nat /\ Len(modals') <= Len(modals)
        BY <3>3, DesktopPageAssumption DEF Replaced
      <4> QED
        BY <1>2, <4>1
    <3> QED
      BY <1>3, <3>2, <3>3, <3>4 DEF Replaced
  <2> QED
    BY <2>1, <2>2
<1>5. swept' \in BOOLEAN /\ (swept => swept') /\ (~swept' => ~Dialogs!Sweeps(modals, "checking"))
  BY <1>1
<1>6. swept' => swept \/ (Len(modals) > 0 => modals[Len(modals)].kind # "checking")
  BY <1>1 DEF Dialogs!Sweeps, Dialogs!Last
<1>7. /\ page' \in [open : BOOLEAN, checking : BOOLEAN, downloading : BOOLEAN]
      /\ page'.open = page.open /\ page'.downloading = page.downloading
      /\ c.mine => ~page'.checking
      /\ ~c.mine => page' = page
  BY <1>1, <1>2
<1>8. /\ Checking' => Checking
      /\ c.mine => Checking /\ ~Checking'
      /\ ~c.mine => (Checking' <=> Checking)
      /\ ~loose => checks' = {}
  <2>1. \A e \in checks : e.mine = c.mine => e = c
    BY <1>2
  <2>2. ~loose => \A e \in checks : e.mine = TRUE
    BY <1>2 DEF DialogsInv, ChecksInv
  <2> QED
    BY <1>1, <1>2, <2>1, <2>2 DEF Checking
<1>9. DialogTypes'
  <2>1. ~page'.open => ~page'.checking /\ ~page'.downloading
    BY <1>2, <1>7 DEF DialogsInv, DialogTypes, Dialogs!TypeOK
  <2> QED
    BY <1>1, <1>2, <1>4, <1>5, <1>7, <2>1 DEF DialogsInv, DialogTypes, Dialogs!TypeOK
<1>10. StackInv'
  BY <1>2, <1>3, <1>4, <1>7, <1>8 DEF DialogsInv, StackInv, ChecksInv
<1>11. ChecksInv'
  BY <1>1, <1>6, <1>7, <1>8 DEF DialogsInv, ChecksInv
<1>12. CalmInv'
  BY <1>1, <1>3, <1>4, <1>5, <1>7, <1>8 DEF DialogsInv, CalmInv, Calm, Downloading
<1> QED
  BY <1>9, <1>10, <1>11, <1>12 DEF DialogsInv

LEMMA OverItself ==
    ASSUME NEW s \in Seq(Dialogs!Dialog), NEW d \in Dialogs!Dialog, d.kind \in Dialogs!Keyed, Has(s, d.kind)
    PROVE  Len(Dialogs!Opened(s, d)) = Len(s)
<1>1. Dialogs!Opened(s, d) = [i \in 1..Len(s) |-> IF s[i].kind = d.kind THEN d ELSE s[i]]
  BY HasIsAKind DEF Dialogs!Opened
<1> QED
  BY <1>1

LEMMA StepStartDownload ==
    ASSUME DialogsInv, NEW i \in DOMAIN modals, Dialogs!StartDownload(i) PROVE DialogsInv'
<1> DEFINE d == [kind |-> "progress", mine |-> modals[i].mine]
           r == Dialogs!Closed(modals, i)
           n == [id |-> events, mine |-> modals[i].mine, cancelled |-> FALSE]
<1>1. /\ modals[i].kind = "found" /\ events' = events + 1 /\ Dialogs!Pressed(i)
      /\ downloads' = downloads \cup {n}
      /\ page' = IF modals[i].mine THEN [page EXCEPT !.downloading = TRUE] ELSE page
      /\ modals' = Dialogs!Opened(r, d)
      /\ haunted' = (haunted \/ ~modals[i].mine)
      /\ UNCHANGED <<checks, loose, swept>>
  BY DEF Dialogs!StartDownload, Dialogs!Event, Dialogs!Prepared
<1>2. /\ modals \in Seq(Dialogs!Dialog) /\ Len(modals) \in Nat /\ i \in 1..Len(modals)
      /\ Len(modals) <= MaxDialogs /\ modals[i] \in Dialogs!Dialog
      /\ under' \in BOOLEAN /\ (under => under') /\ (~under' => i = Len(modals))
  BY <1>1, Presses
<1>3. modals[i].mine \in BOOLEAN /\ (modals[i].mine => IsFound(modals[i]))
  BY <1>1, <1>2 DEF Dialogs!Dialog, IsFound
<1>4. /\ d \in Dialogs!Dialog /\ ~IsFound(d) /\ d.kind = "progress"
      /\ (modals[i].mine => d.mine)
  BY <1>3 DEF Dialogs!Dialog, Dialogs!Keyed, IsFound
<1>5. /\ n \in [id : Nat, mine : BOOLEAN, cancelled : BOOLEAN]
      /\ modals[i].mine => ForPage(n)
  BY <1>3 DEF DialogsInv, DialogTypes, ForPage
<1> HIDE DEF d, n
<1>6. Without(r, modals, i)
  BY <1>2, ClosedIsWithout
<1> HIDE DEF r
<1>7. Replaced(modals', modals, i, d)
  BY <1>1, <1>2, <1>4, <1>6, OpenedInPlace
<1>8. /\ haunted' \in BOOLEAN /\ (haunted => haunted') /\ (~haunted' => modals[i].mine)
  BY <1>1, <1>3
<1>9. /\ page \in [open : BOOLEAN, checking : BOOLEAN, downloading : BOOLEAN]
      /\ ~page.open => ~page.checking /\ ~page.downloading
      /\ downloads \subseteq [id : Nat, mine : BOOLEAN, cancelled : BOOLEAN]
  BY DEF DialogsInv, DialogTypes, Dialogs!TypeOK
<1>10. modals[i].mine => page.open
  BY <1>2, <1>3 DEF DialogsInv, StackInv, NoFound
<1>11. /\ page' \in [open : BOOLEAN, checking : BOOLEAN, downloading : BOOLEAN]
       /\ page'.open = page.open /\ page'.checking = page.checking
       /\ modals[i].mine => page'.downloading
       /\ ~modals[i].mine => page' = page
  BY <1>1, <1>9
<1>12. DialogTypes'
  <2>1. events' \in Nat
    BY <1>1 DEF DialogsInv, DialogTypes
  <2>2. modals' \in Seq(Dialogs!Dialog) /\ Len(modals') <= MaxDialogs
    <3>1. modals' \in Seq(Dialogs!Dialog) /\ Len(modals') <= Len(modals)
      BY <1>7 DEF Replaced
    <3>2. Len(modals') \in Nat /\ MaxDialogs \in Nat
      BY <3>1, DesktopPageAssumption
    <3> QED
      BY ONLY <1>2, <3>1, <3>2
  <2>3. ~page'.open => ~page'.checking /\ ~page'.downloading
    BY <1>9, <1>10, <1>11
  <2>4. downloads' \subseteq [id : Nat, mine : BOOLEAN, cancelled : BOOLEAN]
    BY <1>1, <1>5, <1>9
  <2>5. /\ checks' \subseteq [mine : BOOLEAN] /\ loose' \in BOOLEAN /\ swept' \in BOOLEAN
    BY <1>1 DEF DialogsInv, DialogTypes, Dialogs!TypeOK
  <2> QED
    BY <1>2, <1>8, <1>11, <2>1, <2>2, <2>3, <2>4, <2>5 DEF DialogTypes, Dialogs!TypeOK
<1>13. StackInv'
  BY <1>4, <1>7, <1>11 DEF DialogsInv, StackInv, Replaced
<1>14. ChecksInv'
  BY <1>1, <1>2, <1>8, <1>11 DEF DialogsInv, ChecksInv, Checking
<1>15. CalmInv'
  <2> SUFFICES ASSUME Calm' PROVE CalmInv'
    BY DEF CalmInv
  <2>1. Calm /\ modals[i].mine
    BY <1>1, <1>2, <1>8 DEF Calm
  <2>2. ~NoFound(modals) /\ IsFound(modals[i])
    BY <1>2, <1>3, <2>1 DEF NoFound
  <2>3. ~Downloading /\ ~Checking /\ OwnProgress(modals) /\ OneFound(modals)
    BY <2>1, <2>2 DEF DialogsInv, CalmInv
  <2>4. \A e \in downloads' : ForPage(e) => e = n
    BY <1>1, <2>3 DEF Downloading
  <2>5. Downloading' /\ page'.downloading
    BY <1>1, <1>5, <1>11, <2>1 DEF Downloading
  <2>6. ~Checking'
    BY <1>1, <2>3 DEF Checking
  <2>7. /\ Has(modals', "progress") /\ OwnProgress(modals') /\ OneFound(modals') /\ NoFound(modals')
    BY <1>4, <1>7, <2>1, <2>2, <2>3 DEF Replaced
  <2> QED
    BY <2>4, <2>5, <2>6, <2>7 DEF CalmInv
<1> QED
  BY <1>12, <1>13, <1>14, <1>15 DEF DialogsInv

(* A download that is heard of for the page leaves no check to be awaited. *)
LEMMA HeardOf ==
    ASSUME DialogsInv, NEW d \in downloads, Dialogs!Heard(d)
    PROVE  /\ haunted' \in BOOLEAN /\ (haunted => haunted')
           /\ ~haunted' => ForPage(d) /\ Downloading
           /\ ~under /\ ~loose /\ ~haunted' => checks = {}
           /\ d.mine \in BOOLEAN
<1>1. /\ downloads \subseteq [id : Nat, mine : BOOLEAN, cancelled : BOOLEAN]
      /\ checks \subseteq [mine : BOOLEAN] /\ haunted \in BOOLEAN
  BY DEF DialogsInv, DialogTypes, Dialogs!TypeOK
<1>2. d.mine \in BOOLEAN /\ d.cancelled \in BOOLEAN
  BY <1>1
<1>3. haunted' = (haunted \/ d.cancelled \/ ~d.mine)
  BY DEF Dialogs!Heard
<1>4. /\ haunted' \in BOOLEAN /\ (haunted => haunted')
      /\ (~haunted' => ForPage(d))
  BY <1>2, <1>3 DEF ForPage
<1>5. ~haunted' => Downloading
  BY <1>4 DEF Downloading
<1>6. ~under /\ ~loose /\ ~haunted' => Calm /\ Downloading
  BY <1>4, <1>5 DEF DialogsInv, ChecksInv, Calm
<1>7. ~under /\ ~loose /\ ~haunted' => ~Checking
  BY <1>6 DEF DialogsInv, CalmInv
<1>8. ~loose => \A c \in checks : c.mine
  BY DEF DialogsInv, ChecksInv
<1>9. ~under /\ ~loose /\ ~haunted' => checks = {}
  BY <1>7, <1>8 DEF Checking
<1> QED
  BY <1>2, <1>4, <1>5, <1>9

LEMMA StepProgress ==
    ASSUME DialogsInv, NEW d \in downloads, Dialogs!Progress(d) PROVE DialogsInv'
<1> DEFINE m == [kind |-> "progress", mine |-> d.mine]
<1>1. /\ "progress" \in Dialogs!Kinds(modals) \/ Len(modals) < MaxDialogs
      /\ modals' = Dialogs!Opened(modals, m) /\ Dialogs!Heard(d)
      /\ UNCHANGED <<page, checks, downloads, under, loose, swept, events>>
  BY DEF Dialogs!Progress, Dialogs!Room
<1>2. /\ haunted' \in BOOLEAN /\ (haunted => haunted')
      /\ ~haunted' => ForPage(d) /\ Downloading
      /\ ~under /\ ~loose /\ ~haunted' => checks = {}
      /\ d.mine \in BOOLEAN
  BY <1>1, HeardOf
<1>3. /\ modals \in Seq(Dialogs!Dialog) /\ Len(modals) \in Nat /\ Len(modals) <= MaxDialogs
  BY DEF DialogsInv, DialogTypes, Dialogs!TypeOK
<1>4. /\ m \in Dialogs!Dialog /\ m.kind = "progress" /\ m.kind \in Dialogs!Keyed /\ ~IsFound(m)
      /\ m.mine = d.mine
  BY <1>2 DEF Dialogs!Dialog, Dialogs!Keyed, IsFound
<1> HIDE DEF m
<1>5. /\ modals' \in Seq(Dialogs!Dialog) /\ Len(modals') \in {Len(modals), Len(modals) + 1}
      /\ Has(modals', "progress")
      /\ OneOfAKey(modals) => OneOfAKey(modals')
      /\ d.mine => (OwnProgress(modals) => OwnProgress(modals'))
      /\ (OneFound(modals) => OneFound(modals')) /\ (NoFound(modals) => NoFound(modals'))
  BY <1>1, <1>3, <1>4, OpenedIsOver
<1>6. "progress" \in Dialogs!Kinds(modals) => Len(modals') = Len(modals)
  <2>1. "progress" \in Dialogs!Kinds(modals) => Has(modals, m.kind)
    BY <1>3, <1>4, HasIsAKind
  <2> QED
    BY <1>1, <1>3, <1>4, <2>1, OverItself
<1>7. DialogTypes'
  <2>1. Len(modals') <= MaxDialogs
    <3>1. MaxDialogs \in Nat
      BY DesktopPageAssumption
    <3> QED
      BY <1>1, <1>3, <1>5, <1>6, <3>1
  <2> QED
    BY <1>1, <1>2, <1>5, <2>1 DEF DialogsInv, DialogTypes, Dialogs!TypeOK
<1>8. StackInv'
  BY <1>1, <1>5 DEF DialogsInv, StackInv
<1>9. ChecksInv'
  BY <1>1, <1>2 DEF DialogsInv, ChecksInv, Checking
<1>10. CalmInv'
  <2> SUFFICES ASSUME Calm' PROVE CalmInv'
    BY DEF CalmInv
  <2>1. Calm /\ d.mine
    BY <1>1, <1>2 DEF Calm, ForPage
  <2>2. (Downloading' <=> Downloading) /\ (Checking' <=> Checking)
    BY <1>1 DEF Downloading, Checking
  <2> QED
    BY <1>1, <1>5, <2>1, <2>2 DEF DialogsInv, CalmInv
<1> QED
  BY <1>7, <1>8, <1>9, <1>10 DEF DialogsInv

LEMMA StepDownloadEnds ==
    ASSUME DialogsInv, NEW d \in downloads, NEW k \in {"finished", "failed"}, Dialogs!DownloadEnds(d, k)
    PROVE  DialogsInv'
<1> DEFINE m == [kind |-> k, mine |-> d.mine]
<1>1. /\ Len(modals) < MaxDialogs /\ downloads' = downloads \ {d}
      /\ page' = IF d.mine THEN [page EXCEPT !.downloading = FALSE] ELSE page
      /\ modals' = Dialogs!Opened(modals, m) /\ Dialogs!Heard(d)
      /\ UNCHANGED <<checks, under, loose, swept, events>>
  BY DEF Dialogs!DownloadEnds, Dialogs!Room, Dialogs!CleanupDownload
<1>2. /\ haunted' \in BOOLEAN /\ (haunted => haunted')
      /\ ~haunted' => ForPage(d) /\ Downloading
      /\ ~under /\ ~loose /\ ~haunted' => checks = {}
      /\ d.mine \in BOOLEAN
  BY <1>1, HeardOf
<1>3. /\ modals \in Seq(Dialogs!Dialog) /\ Len(modals) \in Nat
      /\ page \in [open : BOOLEAN, checking : BOOLEAN, downloading : BOOLEAN]
      /\ ~page.open => ~page.checking /\ ~page.downloading
  BY DEF DialogsInv, DialogTypes, Dialogs!TypeOK
<1>4. m \in Dialogs!Dialog /\ m.kind # "progress" /\ ~IsFound(m)
  BY <1>2 DEF Dialogs!Dialog, Dialogs!Keyed, Dialogs!Alerts, IsFound
<1> HIDE DEF m
<1>5. /\ modals' \in Seq(Dialogs!Dialog) /\ Len(modals') \in {Len(modals), Len(modals) + 1}
      /\ \A j : Has(modals, j) => Has(modals', j)
      /\ OneOfAKey(modals) => OneOfAKey(modals')
      /\ OwnProgress(modals) => OwnProgress(modals')
      /\ (OneFound(modals) => OneFound(modals')) /\ (NoFound(modals) => NoFound(modals'))
  BY <1>1, <1>3, <1>4, OpenedIsOver
<1>6. /\ page' \in [open : BOOLEAN, checking : BOOLEAN, downloading : BOOLEAN]
      /\ page'.open = page.open /\ page'.checking = page.checking
      /\ page'.downloading => page.downloading
      /\ d.mine => ~page'.downloading
  BY <1>1, <1>3
<1>7. DialogTypes'
  <2>1. Len(modals') <= MaxDialogs
    <3>1. MaxDialogs \in Nat
      BY DesktopPageAssumption
    <3> QED
      BY <1>1, <1>3, <1>5, <3>1
  <2>2. ~page'.open => ~page'.checking /\ ~page'.downloading
    BY <1>3, <1>6
  <2> QED
    BY <1>1, <1>2, <1>5, <1>6, <2>1, <2>2 DEF DialogsInv, DialogTypes, Dialogs!TypeOK
<1>8. StackInv'
  BY <1>5, <1>6 DEF DialogsInv, StackInv
<1>9. ChecksInv'
  BY <1>1, <1>2, <1>6 DEF DialogsInv, ChecksInv, Checking
<1>10. CalmInv'
  <2> SUFFICES ASSUME Calm' PROVE CalmInv'
    BY DEF CalmInv
  <2>1. Calm /\ ForPage(d) /\ d.mine /\ Downloading
    BY <1>1, <1>2 DEF Calm, ForPage
  <2>2. \A e \in downloads : ForPage(e) => e = d
    BY <2>1 DEF DialogsInv, CalmInv
  <2>3. ~Downloading'
    BY <1>1, <2>2 DEF Downloading
  <2>4. \A e \in downloads' : ~ForPage(e)
    BY <1>1, <2>2
  <2>5. Checking' <=> Checking
    BY <1>1 DEF Checking
  <2> QED
    BY <1>5, <1>6, <2>1, <2>3, <2>4, <2>5 DEF DialogsInv, CalmInv
<1> QED
  BY <1>7, <1>8, <1>9, <1>10 DEF DialogsInv

LEMMA StepCancelDownload ==
    ASSUME DialogsInv, NEW i \in DOMAIN modals, Dialogs!CancelDownload(i) PROVE DialogsInv'
<1> DEFINE d == [kind |-> "cancelled", mine |-> modals[i].mine]
           r == Dialogs!Closed(modals, i)
           forget(e) == IF e.mine = modals[i].mine THEN [e EXCEPT !.cancelled = TRUE] ELSE e
<1>1. /\ modals[i].kind = "progress" /\ events' = events + 1 /\ Dialogs!Pressed(i)
      /\ downloads' = {forget(e) : e \in downloads}
      /\ page' = IF modals[i].mine THEN [page EXCEPT !.downloading = FALSE] ELSE page
      /\ modals' = Dialogs!Opened(r, d)
      /\ UNCHANGED <<checks, loose, swept, haunted>>
  BY DEF Dialogs!CancelDownload, Dialogs!Event, Dialogs!CleanupDownload
<1>2. /\ modals \in Seq(Dialogs!Dialog) /\ Len(modals) \in Nat /\ i \in 1..Len(modals)
      /\ Len(modals) <= MaxDialogs /\ modals[i] \in Dialogs!Dialog
      /\ under' \in BOOLEAN /\ (under => under') /\ (~under' => i = Len(modals))
  BY <1>1, Presses
<1>3. modals[i].mine \in BOOLEAN
  BY <1>2 DEF Dialogs!Dialog
<1>4. /\ d \in Dialogs!Dialog /\ ~IsFound(d) /\ d.kind # "progress"
  BY <1>3 DEF Dialogs!Dialog, Dialogs!Keyed, Dialogs!Alerts, IsFound
<1> HIDE DEF d
<1>5. Without(r, modals, i)
  BY <1>2, ClosedIsWithout
<1> HIDE DEF r
<1>6. Replaced(modals', modals, i, d)
  BY <1>1, <1>2, <1>4, <1>5, OpenedInPlace
<1>7. /\ page \in [open : BOOLEAN, checking : BOOLEAN, downloading : BOOLEAN]
      /\ ~page.open => ~page.checking /\ ~page.downloading
      /\ downloads \subseteq [id : Nat, mine : BOOLEAN, cancelled : BOOLEAN]
  BY DEF DialogsInv, DialogTypes, Dialogs!TypeOK
<1>8. /\ page' \in [open : BOOLEAN, checking : BOOLEAN, downloading : BOOLEAN]
      /\ page'.open = page.open /\ page'.checking = page.checking
      /\ page'.downloading => page.downloading
      /\ modals[i].mine => ~page'.downloading
  BY <1>1, <1>7
<1>9. \A e \in downloads : /\ forget(e) \in [id : Nat, mine : BOOLEAN, cancelled : BOOLEAN]
                           /\ modals[i].mine => ~ForPage(forget(e))
  <2> SUFFICES ASSUME NEW e \in downloads
               PROVE  /\ forget(e) \in [id : Nat, mine : BOOLEAN, cancelled : BOOLEAN]
                      /\ modals[i].mine => ~ForPage(forget(e))
    OBVIOUS
  <2>1. e \in [id : Nat, mine : BOOLEAN, cancelled : BOOLEAN] /\ e.mine \in BOOLEAN
    BY <1>7
  <2>2. CASE e.mine = modals[i].mine
    <3>1. forget(e) = [e EXCEPT !.cancelled = TRUE]
      BY <2>2
    <3>2. forget(e) \in [id : Nat, mine : BOOLEAN, cancelled : BOOLEAN] /\ forget(e).cancelled
      BY <2>1, <3>1
    <3> HIDE DEF forget
    <3> QED
      BY <3>2 DEF ForPage
  <2>3. CASE e.mine # modals[i].mine
    <3>1. forget(e) = e
      BY <2>3
    <3> HIDE DEF forget
    <3>2. modals[i].mine => ~e.mine
      BY <1>3, <2>1, <2>3
    <3> QED
      BY <2>1, <3>1, <3>2 DEF ForPage
  <2> QED
    BY <2>2, <2>3
<1> HIDE DEF forget
<1>10. DialogTypes'
  <2>1. events' \in Nat
    BY <1>1 DEF DialogsInv, DialogTypes
  <2>2. modals' \in Seq(Dialogs!Dialog) /\ Len(modals') <= MaxDialogs
    <3>1. modals' \in Seq(Dialogs!Dialog) /\ Len(modals') <= Len(modals)
      BY <1>6 DEF Replaced
    <3>2. Len(modals') \in Nat /\ MaxDialogs \in Nat
      BY <3>1, DesktopPageAssumption
    <3> QED
      BY ONLY <1>2, <3>1, <3>2
  <2>3. ~page'.open => ~page'.checking /\ ~page'.downloading
    BY <1>7, <1>8
  <2>4. downloads' \subseteq [id : Nat, mine : BOOLEAN, cancelled : BOOLEAN]
    BY <1>1, <1>9
  <2>5. /\ checks' \subseteq [mine : BOOLEAN] /\ loose' \in BOOLEAN /\ swept' \in BOOLEAN
        /\ haunted' \in BOOLEAN
    BY <1>1 DEF DialogsInv, DialogTypes, Dialogs!TypeOK
  <2> QED
    BY <1>2, <1>8, <2>1, <2>2, <2>3, <2>4, <2>5 DEF DialogTypes, Dialogs!TypeOK
<1>11. StackInv'
  BY <1>4, <1>6, <1>8 DEF DialogsInv, StackInv, Replaced
<1>12. ChecksInv'
  BY <1>1, <1>2, <1>8 DEF DialogsInv, ChecksInv, Checking
<1>13. CalmInv'
  <2> SUFFICES ASSUME Calm' PROVE CalmInv'
    BY DEF CalmInv
  <2>1. Calm
    BY <1>1, <1>2 DEF Calm
  <2>2. modals[i].mine
    BY <1>1, <1>2, <2>1 DEF DialogsInv, CalmInv, OwnProgress
  <2>3. \A e \in downloads' : ~ForPage(e)
    BY <1>1, <1>9, <2>2
  <2>4. ~Downloading' /\ ~page'.downloading
    BY <1>8, <2>2, <2>3 DEF Downloading
  <2>5. Checking' <=> Checking
    BY <1>1 DEF Checking
  <2> QED
    BY <1>4, <1>6, <2>1, <2>3, <2>4, <2>5 DEF DialogsInv, CalmInv, Replaced
<1> QED
  BY <1>10, <1>11, <1>12, <1>13 DEF DialogsInv

LEMMA StepRelaunch ==
    ASSUME DialogsInv, events' = events + 1, modals' = <<>>, page' = Dialogs!Fresh(FALSE),
           checks' = {}, downloads' = {}, UNCHANGED <<under, loose, swept, haunted>>
    PROVE  DialogsInv'
<1>1. /\ page' = [open |-> FALSE, checking |-> FALSE, downloading |-> FALSE]
      /\ page' \in [open : BOOLEAN, checking : BOOLEAN, downloading : BOOLEAN]
      /\ ~page'.checking /\ ~page'.downloading
  BY DEF Dialogs!Fresh
<1>2. ~Checking' /\ ~Downloading'
  BY DEF Checking, Downloading
<1>3. events' \in Nat /\ Len(modals') <= MaxDialogs
  BY EmptyStack, DesktopPageAssumption DEF DialogsInv, DialogTypes
<1>4. DialogTypes'
  BY <1>1, <1>3, EmptyStack DEF DialogsInv, DialogTypes, Dialogs!TypeOK
<1>5. StackInv' /\ ChecksInv' /\ CalmInv'
  BY <1>1, <1>2, EmptyStack DEF DialogsInv, StackInv, ChecksInv, CalmInv
<1> QED
  BY <1>4, <1>5 DEF DialogsInv

(* Installing fails: the dialogs that were closed are gone, one is there.  *)
LEMMA StepInstallFails ==
    ASSUME DialogsInv, NEW i \in DOMAIN modals, modals[i].kind = "finished", events' = events + 1,
           modals' = Dialogs!Opened(IF i = Len(modals) THEN Dialogs!Popped(modals)
                                    ELSE Dialogs!Closed(Dialogs!Popped(modals), i),
                                    [kind |-> "failed", mine |-> modals[i].mine]),
           swept' = (swept \/ Dialogs!Sweeps(modals, "finished")), Dialogs!Pressed(i),
           UNCHANGED <<page, checks, downloads, loose, haunted>>
    PROVE  DialogsInv'
<1> DEFINE d == [kind |-> "failed", mine |-> modals[i].mine]
           p == Dialogs!Popped(modals)
           q == Dialogs!Closed(p, i)
<1>1. /\ modals \in Seq(Dialogs!Dialog) /\ Len(modals) \in Nat /\ i \in 1..Len(modals)
      /\ Len(modals) <= MaxDialogs /\ modals[i] \in Dialogs!Dialog
      /\ under' \in BOOLEAN /\ (under => under') /\ (~under' => i = Len(modals))
  BY Presses
<1>2. i # Len(modals) => under'
  BY <1>1
<1>3. modals[i].mine \in BOOLEAN
  BY <1>1 DEF Dialogs!Dialog
<1>4. /\ d \in Dialogs!Dialog /\ ~IsFound(d) /\ d.kind # "progress"
  BY <1>3 DEF Dialogs!Dialog, Dialogs!Keyed, Dialogs!Alerts, IsFound
<1>5. modals' = Dialogs!Opened(IF i = Len(modals) THEN p ELSE q, d)
  OBVIOUS
<1> HIDE DEF d
<1>6. Without(p, modals, Len(modals)) /\ modals # <<>>
  <2>1. modals # <<>>
    BY <1>1
  <2> QED
    BY <1>1, <2>1, PoppedIsWithout
<1> HIDE DEF p
<1>7. p \in Seq(Dialogs!Dialog) /\ Len(p) = Len(modals) - 1
  BY <1>6 DEF Without
<1>8. /\ modals' \in Seq(Dialogs!Dialog) /\ Len(modals') <= Len(modals)
      /\ OneOfAKey(modals) => OneOfAKey(modals')
      /\ NoFound(modals) => NoFound(modals')
      /\ i = Len(modals) => Replaced(modals', modals, i, d)
  <2>1. CASE i = Len(modals)
    <3>1. Replaced(modals', modals, i, d)
      BY <1>1, <1>4, <1>5, <1>6, <2>1, OpenedInPlace
    <3> QED
      BY <1>4, <3>1 DEF Replaced
  <2>2. CASE i # Len(modals)
    <3>1. i \in 1..Len(p)
      BY <1>1, <1>7, <2>2
    <3>2. Without(q, p, i)
      BY <1>7, <3>1, ClosedIsWithout
    <3> HIDE DEF q
    <3>3. Replaced(modals', p, i, d)
      BY <1>4, <1>5, <1>7, <2>2, <3>1, <3>2, OpenedInPlace
    <3>4. /\ OneOfAKey(modals) => OneOfAKey(p)
          /\ NoFound(modals) => NoFound(p)
      <4>1. Len(modals) \in 1..Len(modals)
        BY <1>1
      <4> QED
        BY <1>1, <1>6, <4>1, WithoutKeeps
    <3>5. Len(modals') <= Len(modals)
      <4>1. Len(modals') \in Nat /\ Len(modals') <= Len(p)
        BY <3>3 DEF Replaced
      <4> QED
        BY <1>1, <1>7, <4>1
    <3> QED
      BY <1>4, <2>2, <3>3, <3>4, <3>5 DEF Replaced
  <2> QED
    BY <2>1, <2>2
<1>9. /\ swept' \in BOOLEAN /\ (swept => swept')
      /\ i = Len(modals) => swept' = swept
  <2>1. i = Len(modals) => ~Dialogs!Sweeps(modals, "finished")
    BY DEF Dialogs!Sweeps, Dialogs!Last
  <2>2. swept \in BOOLEAN
    BY DEF DialogsInv, DialogTypes
  <2> QED
    BY <2>1, <2>2
<1>10. DialogTypes'
  <2>1. events' \in Nat
    BY DEF DialogsInv, DialogTypes
  <2>2. modals' \in Seq(Dialogs!Dialog) /\ Len(modals') <= MaxDialogs
    <3>1. Len(modals') \in Nat /\ MaxDialogs \in Nat
      BY <1>8, DesktopPageAssumption
    <3> QED
      BY ONLY <1>1, <1>8, <3>1
  <2> QED
    BY <1>1, <1>9, <2>1, <2>2 DEF DialogsInv, DialogTypes, Dialogs!TypeOK
<1>11. StackInv'
  BY <1>8 DEF DialogsInv, StackInv
<1>12. ChecksInv'
  BY <1>1, <1>2, <1>9 DEF DialogsInv, ChecksInv, Checking
<1>13. CalmInv'
  <2> SUFFICES ASSUME Calm' PROVE CalmInv'
    BY DEF CalmInv
  <2>1. Calm /\ Replaced(modals', modals, i, d)
    BY <1>1, <1>8, <1>9 DEF Calm
  <2>2. (Downloading' <=> Downloading) /\ (Checking' <=> Checking)
    BY DEF Downloading, Checking
  <2> QED
    BY <1>4, <2>1, <2>2 DEF DialogsInv, CalmInv, Replaced
<1> QED
  BY <1>10, <1>11, <1>12, <1>13 DEF DialogsInv

LEMMA StepDismissDialog ==
    ASSUME DialogsInv, NEW i \in DOMAIN modals, Dialogs!Dismiss(i) PROVE DialogsInv'
<1>1. /\ modals[i].kind # "progress" /\ events' = events + 1 /\ Dialogs!Pressed(i)
      /\ modals' = Dialogs!Closed(modals, i)
      /\ loose' = (loose \/ modals[i].kind = "checking")
      /\ UNCHANGED <<page, checks, downloads, swept, haunted>>
  BY DEF Dialogs!Dismiss, Dialogs!Event
<1>2. /\ modals \in Seq(Dialogs!Dialog) /\ Len(modals) \in Nat /\ i \in 1..Len(modals)
      /\ Len(modals) <= MaxDialogs
      /\ under' \in BOOLEAN /\ (under => under') /\ (~under' => i = Len(modals))
  BY <1>1, Presses
<1>3. Without(modals', modals, i)
  BY <1>1, <1>2, ClosedIsWithout
<1>4. /\ OneOfAKey(modals) => OneOfAKey(modals')
      /\ NoFound(modals) => NoFound(modals')
      /\ OneFound(modals) => OneFound(modals')
      /\ OwnProgress(modals) => OwnProgress(modals')
      /\ Has(modals, "progress") => Has(modals', "progress")
  BY <1>1, <1>2, <1>3, WithoutKeeps
<1>5. /\ loose' \in BOOLEAN /\ (loose => loose')
      /\ ~loose' => modals[i].kind # "checking"
  BY <1>1
<1>6. DialogTypes'
  <2>1. events' \in Nat
    BY <1>1 DEF DialogsInv, DialogTypes
  <2>2. modals' \in Seq(Dialogs!Dialog) /\ Len(modals') <= MaxDialogs
    <3>1. modals' \in Seq(Dialogs!Dialog) /\ Len(modals') = Len(modals) - 1
      BY <1>3 DEF Without
    <3>2. MaxDialogs \in Nat
      BY DesktopPageAssumption
    <3> QED
      BY <1>2, <3>1, <3>2
  <2> QED
    BY <1>1, <1>2, <1>5, <2>1, <2>2 DEF DialogsInv, DialogTypes, Dialogs!TypeOK
<1>7. StackInv'
  BY <1>1, <1>4 DEF DialogsInv, StackInv
<1>8. ChecksInv'
  BY <1>1, <1>2, <1>5 DEF DialogsInv, ChecksInv, Checking
<1>9. CalmInv'
  BY <1>1, <1>2, <1>4 DEF DialogsInv, CalmInv, Calm, Checking, Downloading
<1> QED
  BY <1>6, <1>7, <1>8, <1>9 DEF DialogsInv

LEMMA DialogsStep == ASSUME DialogsInv, Dialogs!Next PROVE DialogsInv'
<1>1. CASE Dialogs!Navigate \/ Dialogs!CheckUpdate
  BY <1>1, StepNavigate, StepCheckUpdate
<1>2. CASE \E k \in {"settings", "profile"} : Dialogs!OpenFromMenu(k)
  BY <1>2, StepOpenFromMenu
<1>3. ASSUME NEW i \in DOMAIN modals, Dialogs!InstallAndRelaunch(i) PROVE DialogsInv'
  <2>1. modals[i].kind = "finished" /\ events' = events + 1
    BY <1>3 DEF Dialogs!InstallAndRelaunch, Dialogs!Event
  <2>2. CASE /\ modals' = <<>> /\ page' = Dialogs!Fresh(FALSE) /\ checks' = {} /\ downloads' = {}
             /\ UNCHANGED <<under, loose, swept, haunted>>
    BY <2>1, <2>2, StepRelaunch
  <2>3. CASE /\ modals' = Dialogs!Opened(IF i = Len(modals) THEN Dialogs!Popped(modals)
                                         ELSE Dialogs!Closed(Dialogs!Popped(modals), i),
                                         [kind |-> "failed", mine |-> modals[i].mine])
             /\ swept' = (swept \/ Dialogs!Sweeps(modals, "finished")) /\ Dialogs!Pressed(i)
             /\ UNCHANGED <<page, checks, downloads, loose, haunted>>
    BY <2>1, <2>3, StepInstallFails
  <2> QED
    BY <1>3, <2>2, <2>3 DEF Dialogs!InstallAndRelaunch
<1>4. CASE \E i \in DOMAIN modals :
             \/ Dialogs!OpenLogin(i) \/ Dialogs!StartDownload(i) \/ Dialogs!CancelDownload(i)
             \/ Dialogs!InstallAndRelaunch(i) \/ Dialogs!Dismiss(i)
  BY <1>3, <1>4, StepOpenLogin, StepStartDownload, StepCancelDownload, StepDismissDialog
<1>5. CASE \E c \in checks : \E k \in {"found", "latest", "failed"} : Dialogs!CheckAnswers(c, k)
  BY <1>5, StepCheckAnswers
<1>6. CASE \E d \in downloads :
             Dialogs!Progress(d) \/ \E k \in {"finished", "failed"} : Dialogs!DownloadEnds(d, k)
  BY <1>6, StepProgress, StepDownloadEnds
<1> QED
  BY <1>1, <1>2, <1>4, <1>5, <1>6 DEF Dialogs!Next

LEMMA DialogsAreSound ==
    ASSUME DialogsInv
    PROVE  /\ Dialogs!TypeOK /\ Dialogs!OneDialogPerKey /\ Dialogs!SweptOnlyIfLoose
           /\ Dialogs!ButtonTellsTheTruth /\ Dialogs!DownloadIsShown
<1>1. Dialogs!TypeOK /\ modals \in Seq(Dialogs!Dialog) /\ DOMAIN modals = 1..Len(modals)
  BY DEF DialogsInv, DialogTypes, Dialogs!TypeOK
<1>2. Dialogs!OneDialogPerKey
  BY <1>1 DEF DialogsInv, StackInv, OneOfAKey, Dialogs!OneDialogPerKey
<1>3. Dialogs!SweptOnlyIfLoose
  BY DEF DialogsInv, ChecksInv, Dialogs!SweptOnlyIfLoose
<1>4. Dialogs!Mine # {} <=> Downloading
  BY DEF Dialogs!Mine, Downloading, ForPage
<1>5. Dialogs!ButtonTellsTheTruth
  BY <1>4 DEF DialogsInv, ChecksInv, CalmInv, Calm, Checking, Dialogs!ButtonTellsTheTruth
<1>6. "progress" \in Dialogs!Kinds(modals) <=> Has(modals, "progress")
  BY <1>1, HasIsAKind
<1>7. Dialogs!DownloadIsShown
  BY <1>4, <1>6 DEF DialogsInv, CalmInv, Calm, Dialogs!DownloadIsShown
<1> QED
  BY <1>1, <1>2, <1>3, <1>5, <1>7

-----------------------------------------------------------------------------
(* Menus: of the builds under way the one that is not cancelled bears the  *)
(* label, and there is one until the menu does or a build has failed.      *)

MenusInv ==
    /\ Menus!TypeOK /\ events \in Nat
    /\ bar = [open |-> bar.open, hover |-> bar.hover, last |-> bar.last]
    /\ Menus!OneSubmenuWhileHovering
    /\ \A b \in builds : ~b.cancelled => b.label = label
    /\ native = label \/ failed \/ \E b \in builds : ~b.cancelled

LEMMA MenusStart == Menus!Init => MenusInv
<1> SUFFICES ASSUME Menus!Init PROVE MenusInv
  OBVIOUS
<1>1. /\ bar = [open |-> 0, hover |-> FALSE, last |-> 0]
      /\ label \in Labels /\ native = 0 /\ events = 0
      /\ builds = {[label |-> label, cancelled |-> FALSE, at |-> 0]}
  BY DEF Menus!Init, Menus!Closed, Menus!None
<1>2. failed = FALSE
  BY DEF Menus!Init
<1>3. bar.hover = FALSE /\ bar.open = 0 /\ bar.last = 0
  BY <1>1
<1>4. bar.hover \in BOOLEAN /\ failed \in BOOLEAN
  BY <1>2, <1>3
<1>5. builds \subseteq Menus!Build
  BY <1>1 DEF Menus!Build
<1>6. Menus!OneSubmenuWhileHovering
  BY <1>3 DEF Menus!OneSubmenuWhileHovering, Menus!None
<1> QED
  BY <1>1, <1>3, <1>4, <1>5, <1>6 DEF MenusInv, Menus!TypeOK, Menus!None

LEMMA StepBar ==
    ASSUME MenusInv,
           \/ Menus!LeaveMenus
           \/ \E i \in Folders \cup Leaves : Menus!HandleMenuItemClick(i) \/ Menus!HandleMouseEnter(i)
    PROVE  MenusInv'
<1>1. UNCHANGED <<label, builds, native, failed, events>>
  BY DEF Menus!LeaveMenus, Menus!HandleMenuItemClick, Menus!HandleMouseEnter, Menus!OfBar
<1>2. /\ bar.open \in Folders \cup {0} /\ bar.last \in Folders \cup {0} /\ bar.hover \in BOOLEAN
      /\ bar.hover <=> (bar.open # 0 /\ bar.last = bar.open)
      /\ bar = [open |-> bar.open, hover |-> bar.hover, last |-> bar.last]
  BY DEF MenusInv, Menus!TypeOK, Menus!OneSubmenuWhileHovering, Menus!None
<1> DEFINE BarIsOpenOrClosed ==
             /\ bar'.open \in Folders \cup {0} /\ bar'.last \in Folders \cup {0} /\ bar'.hover \in BOOLEAN
             /\ bar'.hover <=> (bar'.open # 0 /\ bar'.last = bar'.open)
             /\ bar' = [open |-> bar'.open, hover |-> bar'.hover, last |-> bar'.last]
<1>3. BarIsOpenOrClosed
  <2>1. CASE bar' = Menus!Closed
    <3>1. /\ bar'.open = 0 /\ bar'.hover = FALSE /\ bar'.last = 0
          /\ bar' = [open |-> bar'.open, hover |-> bar'.hover, last |-> bar'.last]
      BY <2>1 DEF Menus!Closed, Menus!None
    <3> QED
      BY <3>1
  <2>2. ASSUME NEW i \in Folders, bar' = [open |-> i, hover |-> TRUE, last |-> i]
        PROVE  BarIsOpenOrClosed
    <3>1. /\ bar'.open = i /\ bar'.hover = TRUE /\ bar'.last = i
          /\ bar' = [open |-> bar'.open, hover |-> bar'.hover, last |-> bar'.last]
      BY <2>2
    <3> QED
      BY <3>1, DesktopPageAssumption DEF Menus!None
  <2>3. ASSUME NEW i \in Folders \cup Leaves, Menus!HandleMouseEnter(i)
        PROVE  BarIsOpenOrClosed
    <3>1. bar.hover /\ bar' = IF i \in Folders THEN [bar EXCEPT !.open = i, !.last = i]
                              ELSE [bar EXCEPT !.open = bar.last]
      BY <2>3 DEF Menus!HandleMouseEnter
    <3>2. \/ /\ i \in Folders
             /\ bar' = [open |-> i, hover |-> bar.hover, last |-> i]
          \/ bar' = [open |-> bar.last, hover |-> bar.hover, last |-> bar.last]
      BY <3>1, <1>2
    <3>3. /\ bar'.hover = bar.hover /\ bar'.last = bar'.open /\ bar'.open \in Folders \cup {0}
          /\ bar'.open # 0
          /\ bar' = [open |-> bar'.open, hover |-> bar'.hover, last |-> bar'.last]
      BY <3>1, <3>2, <1>2, DesktopPageAssumption DEF Menus!None
    <3> QED
      BY <3>1, <3>3, <1>2
  <2> QED
    BY <2>1, <2>2, <2>3 DEF Menus!LeaveMenus, Menus!HandleMenuItemClick, Menus!CloseAllSubmenus
<1> QED
  BY <1>1, <1>3 DEF MenusInv, Menus!TypeOK, Menus!OneSubmenuWhileHovering, Menus!None

LEMMA MenusStep == MenusInv /\ Menus!Next => MenusInv'
<1>1. ASSUME MenusInv, NEW l \in Labels, Menus!LabelChanges(l) PROVE MenusInv'
  <2> DEFINE B == [label |-> l, cancelled |-> FALSE, at |-> events']
  <2>1. /\ events' = events + 1 /\ label' = l /\ bar' = bar /\ native' = native
        /\ builds' = {[b EXCEPT !.cancelled = TRUE] : b \in builds} \cup {B}
        /\ failed' = FALSE
    BY <1>1 DEF Menus!LabelChanges, Menus!Event
  <2>2. events' \in Nat /\ native' \in Labels \cup {0} /\ builds \subseteq Menus!Build
    BY <1>1, <2>1 DEF MenusInv, Menus!TypeOK, Menus!None
  <2>b. B \in Menus!Build /\ ~B.cancelled /\ B.label = l
    BY <2>2 DEF Menus!Build
  <2>c. \A b \in builds : [b EXCEPT !.cancelled = TRUE] \in Menus!Build
                         /\ [b EXCEPT !.cancelled = TRUE].cancelled
    BY <2>2 DEF Menus!Build
  <2> HIDE DEF B
  <2>3. builds' \subseteq Menus!Build
    BY <2>1, <2>b, <2>c
  <2>4. \A b \in builds' : ~b.cancelled => b.label = l
    BY <2>1, <2>b, <2>c
  <2>5. \E b \in builds' : ~b.cancelled
    BY <2>1, <2>b
  <2>6. failed' \in BOOLEAN
    BY <2>1
  <2> QED
    BY <1>1, <2>1, <2>2, <2>3, <2>4, <2>5, <2>6
       DEF MenusInv, Menus!TypeOK, Menus!OneSubmenuWhileHovering, Menus!None
<1>2. ASSUME MenusInv, NEW b \in builds, Menus!ApplyMenu(b) \/ Menus!BuildFails(b) PROVE MenusInv'
  <2>1. /\ events \in Nat /\ events' \in Nat /\ label' = label /\ bar' = bar /\ builds' = builds \ {b}
        /\ b \in Menus!Build /\ builds \subseteq Menus!Build
    BY <1>2 DEF Menus!ApplyMenu, Menus!BuildFails, Menus!Event, MenusInv, Menus!TypeOK
  <2>2. /\ native' \in Labels \cup {0} /\ failed' \in BOOLEAN
        /\ ~b.cancelled => native' = label \/ failed'
        /\ b.cancelled => native' = native /\ (failed => failed')
        /\ failed => failed'
    BY <1>2, <2>1
       DEF Menus!ApplyMenu, Menus!BuildFails, Menus!Discards, Menus!Build, MenusInv, Menus!TypeOK, Menus!None
  <2>3. native' = label \/ failed' \/ \E a \in builds' : ~a.cancelled
    BY <1>2, <2>1, <2>2 DEF MenusInv
  <2> QED
    BY <1>2, <2>1, <2>2, <2>3
       DEF MenusInv, Menus!TypeOK, Menus!OneSubmenuWhileHovering, Menus!None
<1> QED
  BY <1>1, <1>2, StepBar DEF Menus!Next

LEMMA MenusAreSound ==
    ASSUME MenusInv
    PROVE  Menus!TypeOK /\ Menus!OneSubmenuWhileHovering /\ Menus!MenuIsCurrent
  BY DEF MenusInv, Menus!MenuIsCurrent

-----------------------------------------------------------------------------
(* Settings: until handlers overlap, one is under way, or the loads of one *)
(* page; what is chosen is in the file, or on its way to it.               *)

Tasks == [op: {"load", "set", "autostart", "close"}, key: Settings!All, value: BOOLEAN,
          at: {"sent", "read", "writing", "tray"}, read: Settings!Config \cup {Settings!Torn}]

TasksOK ==
    /\ Settings!TypeOK
    /\ tasks \subseteq Tasks
    /\ \A t \in tasks : /\ t.op = "set" => t.key \in Settings!Keys
                        /\ t.op = "set" /\ t.at # "sent" => t.read # Settings!Torn
                        /\ t.op = "autostart" => t.key = "autostart"
    /\ window = "closed" => tasks = {}

Alone == \A t, u \in tasks : t = u \/ (t.op = "load" /\ u.op = "load")

(* What is kept of a key, in the file or by the system.                    *)
IsKept(k) == IF k = "autostart" THEN system ELSE Settings!Get(file, k)

AtRest ==
    (\A t \in tasks : t.op \in {"load", "close"}) =>
        /\ file # Settings!Torn
        /\ \A k \in Settings!All : chosen[k] <=> IsKept(k)
        /\ \A k \in ready : shown[k] <=> IsKept(k)

Sets ==
    \A t \in tasks : t.op = "set" =>
        /\ t.at \in {"sent", "read", "writing"}
        /\ t.at \in {"sent", "read"} => file # Settings!Torn
        /\ chosen[t.key] <=> t.value
        /\ chosen["autostart"] <=> system
        /\ \A k \in Settings!Keys \ {t.key} :
              chosen[k] <=> Settings!Get(IF t.at = "sent" THEN file ELSE t.read, k)
        /\ \A k \in ready : (k # t.key \/ k = "environment") => (shown[k] <=> chosen[k])

Autostarts ==
    \A t \in tasks : t.op = "autostart" =>
        /\ file # Settings!Torn
        /\ (chosen["autostart"] <=> t.value) /\ (t.value <=> ~system)
        /\ \A k \in Settings!Keys : chosen[k] <=> Settings!Get(file, k)
        /\ \A k \in ready \ {"autostart"} : shown[k] <=> chosen[k]

Closing ==
    /\ \A t \in tasks : t.op = "close" /\ t.at = "tray" => ~chosen["tray"]
    /\ window = "closed" => ~chosen["tray"]

SettingsInv == TasksOK /\ (~raced => Alone /\ AtRest /\ Sets /\ Autostarts /\ Closing)

LEMMA TornIsNoConfig ==
    /\ Settings!Torn \notin Settings!Config
    /\ \A c \in Settings!Config \cup {Settings!Torn} :
          /\ Settings!ReadConfig(c) \in Settings!Config
          /\ c # Settings!Torn => Settings!ReadConfig(c) = c
<1>1. \A c \in Settings!Config : DOMAIN c = Settings!Keys
  BY DEF Settings!Config
<1>2. DOMAIN Settings!Torn = {} /\ Settings!Keys # {}
  BY DEF Settings!Torn, Settings!Keys
<1>3. Settings!Torn \notin Settings!Config
  BY <1>1, <1>2
<1>4. Settings!Empty \in Settings!Config
  BY DEF Settings!Empty, Settings!Config, Settings!Unset
<1> QED
  BY <1>3, <1>4 DEF Settings!ReadConfig

LEMMA SettingsStart == Settings!Init => SettingsInv
<1> SUFFICES ASSUME Settings!Init PROVE SettingsInv
  OBVIOUS
<1> DEFINE l == Settings!NewTask("load", "environment", FALSE)
<1>1. /\ system \in BOOLEAN /\ shown = [k \in Settings!All |-> FALSE] /\ ready = {} /\ window = "open"
      /\ tasks = {l}
      /\ chosen = [k \in Settings!All |-> IF k = "autostart" THEN system ELSE Settings!Get(file, k)]
  BY DEF Settings!Init, Settings!Loads
<1>2. l \in Tasks /\ l.op = "load"
  <2>1. "environment" \in Settings!All /\ FALSE \in BOOLEAN
    BY DEF Settings!All, Settings!Keys
  <2> QED
    BY <2>1 DEF Settings!NewTask, Tasks
<1>3. file \in Settings!Config
  BY DEF Settings!Init, Settings!Empty, Settings!Config, Settings!Unset, Settings!Keys
<1>4. raced \in BOOLEAN
  <2>1. raced = FALSE
    BY DEF Settings!Init
  <2> QED
    BY <2>1
<1>5. chosen \in [Settings!All -> BOOLEAN] /\ \A k \in Settings!All : chosen[k] <=> IsKept(k)
  BY <1>1 DEF Settings!Get, IsKept
<1>6. shown \in [Settings!All -> BOOLEAN]
  BY <1>1
<1> HIDE DEF l
<1>7. TasksOK
  BY <1>1, <1>2, <1>3, <1>4, <1>5, <1>6 DEF TasksOK, Settings!TypeOK
<1> QED
  BY <1>1, <1>2, <1>3, <1>5, <1>7, TornIsNoConfig
     DEF SettingsInv, Alone, AtRest, Sets, Autostarts, Closing

(* A handler that begins leaves others behind, or is alone.                *)
LEMMA Begins ==
    ASSUME SettingsInv, NEW t \in Tasks, t.at = "sent",
           tasks' = tasks \cup {t}, raced' = (raced \/ Settings!Overlaps),
           window = "open", UNCHANGED <<file, system, ready, window>>,
           t.op = "set" => t.key \in Settings!Keys,
           t.op = "autostart" => t.key = "autostart",
           shown' \in [Settings!All -> BOOLEAN], chosen' \in [Settings!All -> BOOLEAN]
    PROVE  /\ TasksOK'
           /\ ~raced' => /\ ~raced /\ tasks = {} /\ tasks' = {t}
                         /\ file # Settings!Torn
                         /\ \A k \in Settings!All : chosen[k] <=> IsKept(k)
                         /\ \A k \in ready : shown[k] <=> IsKept(k)
<1>1. TasksOK'
  <2>1. raced' \in BOOLEAN
    BY DEF SettingsInv, TasksOK, Settings!TypeOK
  <2> QED
    BY <2>1 DEF SettingsInv, TasksOK, Settings!TypeOK
<1> QED
  BY <1>1 DEF SettingsInv, Settings!Overlaps, AtRest

LEMMA StepToggleEnvironment == ASSUME SettingsInv, Settings!ToggleEnvironment PROVE SettingsInv'
<1> DEFINE b == ~shown["environment"]
           t == Settings!NewTask("set", "environment", b)
<1>1. /\ window = "open" /\ tasks' = tasks \cup {t} /\ raced' = (raced \/ Settings!Overlaps)
      /\ shown' = [shown EXCEPT !["environment"] = b] /\ chosen' = [chosen EXCEPT !["environment"] = b]
      /\ UNCHANGED <<file, system, ready, window>>
  BY DEF Settings!ToggleEnvironment, Settings!Becomes
<1>2. /\ shown \in [Settings!All -> BOOLEAN] /\ chosen \in [Settings!All -> BOOLEAN]
      /\ system \in BOOLEAN /\ ready \subseteq Settings!All
      /\ {"environment", "autostart", "tray"} \subseteq Settings!All /\ "environment" \in Settings!Keys
  BY DEF SettingsInv, TasksOK, Settings!TypeOK, Settings!All, Settings!Keys
<1>3. t \in Tasks /\ t.op = "set" /\ t.key = "environment" /\ t.value = b /\ t.at = "sent"
  <2>1. b \in BOOLEAN
    OBVIOUS
  <2> QED
    BY <1>2, <2>1 DEF Settings!NewTask, Tasks
<1>4. /\ shown' \in [Settings!All -> BOOLEAN] /\ chosen' \in [Settings!All -> BOOLEAN]
      /\ shown'["environment"] = b /\ chosen'["environment"] = b
      /\ \A k \in Settings!All : k # "environment" => shown'[k] = shown[k] /\ chosen'[k] = chosen[k]
  BY <1>1, <1>2
<1> HIDE DEF t
<1>5. /\ TasksOK'
      /\ ~raced' => /\ ~raced /\ tasks = {} /\ tasks' = {t}
                    /\ file # Settings!Torn
                    /\ \A k \in Settings!All : chosen[k] <=> IsKept(k)
                    /\ \A k \in ready : shown[k] <=> IsKept(k)
  BY <1>1, <1>2, <1>3, <1>4, Begins
<1>6. ASSUME ~raced' PROVE Sets'
  <2>1. \A k \in Settings!Keys \ {"environment"} :
           k \in Settings!All /\ k # "autostart" /\ (chosen'[k] <=> Settings!Get(file, k))
    BY <1>4, <1>5, <1>6 DEF IsKept, Settings!All, Settings!Keys
  <2>2. \A k \in ready : shown'[k] <=> chosen'[k]
    BY <1>2, <1>4, <1>5, <1>6
  <2>3. chosen'["autostart"] <=> system
    BY <1>2, <1>4, <1>5, <1>6 DEF IsKept
  <2> QED
    BY <1>1, <1>3, <1>4, <1>5, <1>6, <2>1, <2>2, <2>3 DEF Sets
<1> QED
  BY <1>1, <1>3, <1>5, <1>6 DEF SettingsInv, Alone, AtRest, Autostarts, Closing

LEMMA StepHandleToggle ==
    ASSUME SettingsInv, NEW k \in Settings!All, Settings!HandleToggle(k) PROVE SettingsInv'
<1> DEFINE op == IF k = "autostart" THEN "autostart" ELSE "set"
           t == Settings!NewTask(op, k, ~shown[k])
<1>1. /\ window = "open" /\ tasks' = tasks \cup {t} /\ raced' = (raced \/ Settings!Overlaps)
      /\ shown' = shown /\ chosen' = [chosen EXCEPT ![k] = ~shown[k]]
      /\ k # "environment" /\ k \in ready
      /\ UNCHANGED <<file, system, ready, window>>
  BY DEF Settings!HandleToggle
<1>2. /\ shown \in [Settings!All -> BOOLEAN] /\ chosen \in [Settings!All -> BOOLEAN]
      /\ system \in BOOLEAN /\ ready \subseteq Settings!All
      /\ Settings!All = Settings!Keys \cup {"autostart"} /\ "autostart" \notin Settings!Keys
  BY DEF SettingsInv, TasksOK, Settings!TypeOK, Settings!All, Settings!Keys
<1>3. t \in Tasks /\ t.op = op /\ t.key = k /\ (t.value <=> ~shown[k]) /\ t.at = "sent"
  BY <1>2 DEF Settings!NewTask, Tasks
<1>4. /\ chosen' \in [Settings!All -> BOOLEAN] /\ (chosen'[k] <=> ~shown[k])
      /\ \A j \in Settings!All : j # k => chosen'[j] = chosen[j]
  BY <1>1, <1>2
<1>5. op = "autostart" <=> k = "autostart"
  OBVIOUS
<1>6. op \in {"set", "autostart"} /\ (op = "set" => k \in Settings!Keys)
  BY <1>2
<1> HIDE DEF t, op
<1>7. /\ TasksOK'
      /\ ~raced' => /\ ~raced /\ tasks = {} /\ tasks' = {t}
                    /\ file # Settings!Torn
                    /\ \A j \in Settings!All : chosen[j] <=> IsKept(j)
                    /\ \A j \in ready : shown[j] <=> IsKept(j)
  BY <1>1, <1>2, <1>3, <1>4, <1>5, <1>6, Begins
<1>8. ASSUME ~raced' PROVE Sets' /\ Autostarts'
  <2>1. /\ \A j \in Settings!Keys \ {k} : chosen'[j] <=> Settings!Get(file, j)
        /\ \A j \in ready \ {k} : shown[j] <=> chosen'[j]
    BY <1>2, <1>4, <1>7, <1>8 DEF IsKept
  <2>2. k # "autostart" => (chosen'["autostart"] <=> system)
    BY <1>2, <1>4, <1>7, <1>8 DEF IsKept
  <2>3. k = "autostart" => (t.value <=> ~system)
    BY <1>1, <1>2, <1>3, <1>7, <1>8 DEF IsKept
  <2>4. Sets'
    BY <1>1, <1>3, <1>4, <1>5, <1>7, <1>8, <2>1, <2>2 DEF Sets
  <2>5. Autostarts'
    BY <1>1, <1>2, <1>3, <1>4, <1>5, <1>7, <1>8, <2>1, <2>3 DEF Autostarts
  <2> QED
    BY <2>4, <2>5
<1> QED
  BY <1>1, <1>3, <1>6, <1>7, <1>8 DEF SettingsInv, Alone, AtRest, Closing

LEMMA StepCloseButton == ASSUME SettingsInv, Settings!CloseButton PROVE SettingsInv'
<1> DEFINE t == Settings!NewTask("close", "tray", FALSE)
<1>1. /\ window = "open" /\ tasks' = tasks \cup {t} /\ raced' = (raced \/ Settings!Overlaps)
      /\ UNCHANGED <<file, system, shown, ready, window, chosen>>
  BY DEF Settings!CloseButton
<1>2. t \in Tasks /\ t.op = "close" /\ t.at = "sent"
  BY DEF Settings!NewTask, Tasks, Settings!All, Settings!Keys
<1>3. shown \in [Settings!All -> BOOLEAN] /\ chosen \in [Settings!All -> BOOLEAN]
  BY DEF SettingsInv, TasksOK, Settings!TypeOK
<1> HIDE DEF t
<1>4. /\ TasksOK'
      /\ ~raced' => /\ ~raced /\ tasks = {} /\ tasks' = {t}
                    /\ file # Settings!Torn
                    /\ \A j \in Settings!All : chosen[j] <=> IsKept(j)
                    /\ \A j \in ready : shown[j] <=> IsKept(j)
  BY <1>1, <1>2, <1>3, Begins
<1> QED
  BY <1>1, <1>2, <1>4 DEF SettingsInv, Alone, AtRest, Sets, Autostarts, Closing, IsKept

LEMMA LoadsAreTasks ==
    ASSUME NEW ks \in SUBSET Settings!All
    PROVE  Settings!Loads(ks) \subseteq Tasks /\ \A t \in Settings!Loads(ks) : t.op = "load"
<1>1. ASSUME NEW k \in ks
      PROVE  /\ Settings!NewTask("load", k, FALSE) \in Tasks
             /\ Settings!NewTask("load", k, FALSE).op = "load"
  BY DEF Settings!NewTask, Tasks
<1> QED
  BY <1>1 DEF Settings!Loads

LEMMA StepOpenSettings == ASSUME SettingsInv, Settings!OpenSettings PROVE SettingsInv'
<1> DEFINE ls == Settings!Loads(Settings!All \ {"environment"})
<1>1. /\ window = "open" /\ raced' = (raced \/ Settings!Overlaps)
      /\ tasks' = {t \in tasks : t.op # "load" \/ t.key = "environment"} \cup ls
      /\ ready' = ready \cap {"environment"}
      /\ shown' = [k \in Settings!All |-> k = "environment" /\ shown[k]]
      /\ UNCHANGED <<file, system, window, chosen>>
  BY DEF Settings!OpenSettings
<1>2. ls \subseteq Tasks /\ \A t \in ls : t.op = "load"
  BY LoadsAreTasks
<1>3. /\ shown' \in [Settings!All -> BOOLEAN] /\ ready' \subseteq Settings!All
      /\ \A k \in ready' : shown'[k] <=> shown[k]
  BY <1>1 DEF SettingsInv, TasksOK, Settings!TypeOK
<1>4. raced' \in BOOLEAN
  BY <1>1 DEF SettingsInv, TasksOK, Settings!TypeOK
<1> HIDE DEF ls
<1>5. TasksOK'
  BY <1>1, <1>2, <1>3, <1>4 DEF SettingsInv, TasksOK, Settings!TypeOK
<1>6. ASSUME ~raced' PROVE Alone' /\ AtRest' /\ Sets' /\ Autostarts' /\ Closing'
  <2>1. ~raced /\ tasks = {} /\ tasks' = ls
    BY <1>1, <1>6 DEF Settings!Overlaps
  <2>2. AtRest'
    BY <1>1, <1>3, <2>1 DEF SettingsInv, AtRest, IsKept
  <2> QED
    BY <1>1, <1>2, <2>1, <2>2 DEF SettingsInv, Alone, Sets, Autostarts, Closing
<1> QED
  BY <1>5, <1>6 DEF SettingsInv

LEMMA StepReturn == ASSUME SettingsInv, Settings!Return PROVE SettingsInv'
<1>1. window' = "open" /\ UNCHANGED <<file, system, chosen, raced>>
  BY DEF Settings!Return
<1>2. CASE window = "closed"
  <2> DEFINE ls == Settings!Loads({"environment"})
  <2>1. /\ ready' = {} /\ tasks' = ls /\ shown' = [k \in Settings!All |-> FALSE]
        /\ tasks = {}
    BY <1>2 DEF Settings!Return, SettingsInv, TasksOK
  <2>2. ls \subseteq Tasks /\ \A t \in ls : t.op = "load"
    BY LoadsAreTasks DEF Settings!All, Settings!Keys
  <2>3. shown' \in [Settings!All -> BOOLEAN]
    BY <2>1
  <2> HIDE DEF ls
  <2>4. TasksOK'
    BY <1>1, <2>1, <2>2, <2>3 DEF SettingsInv, TasksOK, Settings!TypeOK
  <2>5. ~raced' => AtRest'
    BY <1>1, <2>1 DEF SettingsInv, AtRest, IsKept
  <2> QED
    BY <1>1, <2>1, <2>2, <2>4, <2>5 DEF SettingsInv, Alone, Sets, Autostarts, Closing
<1>3. CASE window # "closed"
  <2>1. UNCHANGED <<ready, tasks, shown>>
    BY <1>3 DEF Settings!Return
  <2> QED
    BY <1>1, <2>1
       DEF SettingsInv, TasksOK, Settings!TypeOK, Alone, AtRest, IsKept, Sets, Autostarts, Closing
<1> QED
  BY <1>2, <1>3

LEMMA Single ==
    ASSUME SettingsInv, ~raced, NEW t \in tasks, t.op # "load"
    PROVE  tasks = {t}
  BY DEF SettingsInv, Alone

(* What a handler has gone on to is a handler, and of the same key.        *)
LEMMA GoesOnWith ==
    ASSUME SettingsInv, NEW t \in tasks, NEW u \in Tasks, u.op = t.op, u.key = t.key,
           t.op = "set" => u.read # Settings!Torn,
           tasks' = (tasks \ {t}) \cup {u}, file' \in Settings!Config \cup {Settings!Torn},
           UNCHANGED <<system, shown, ready, window, chosen, raced>>
    PROVE  TasksOK'
  BY DEF SettingsInv, TasksOK, Settings!TypeOK

LEMMA StepSetReads ==
    ASSUME SettingsInv, NEW t \in tasks, Settings!SetReads(t) PROVE SettingsInv'
<1> DEFINE u == [t EXCEPT !.read = Settings!ReadConfig(file), !.at = "read"]
<1>1. /\ t.op = "set" /\ t.at = "sent" /\ tasks' = (tasks \ {t}) \cup {u}
      /\ UNCHANGED <<file, system, shown, ready, window, chosen, raced>>
  BY DEF Settings!SetReads
<1>2. /\ t \in Tasks /\ file \in Settings!Config \cup {Settings!Torn} /\ t.key \in Settings!Keys
  BY <1>1 DEF SettingsInv, TasksOK, Settings!TypeOK
<1>3. /\ Settings!ReadConfig(file) \in Settings!Config
      /\ file # Settings!Torn => Settings!ReadConfig(file) = file
      /\ Settings!ReadConfig(file) # Settings!Torn
  BY <1>2, TornIsNoConfig
<1>4. /\ u \in Tasks /\ u.op = "set" /\ u.key = t.key /\ u.value = t.value /\ u.at = "read"
      /\ u.read = Settings!ReadConfig(file)
  BY <1>1, <1>2, <1>3 DEF Tasks
<1> HIDE DEF u
<1>5. TasksOK'
  BY <1>1, <1>2, <1>3, <1>4, GoesOnWith
<1>6. ASSUME ~raced PROVE Alone' /\ AtRest' /\ Sets' /\ Autostarts' /\ Closing'
  <2>1. tasks = {t} /\ tasks' = {u}
    BY <1>1, <1>6, Single
  <2>2. Sets'
    BY <1>1, <1>3, <1>4, <1>6, <2>1 DEF SettingsInv, Sets
  <2> QED
    BY <1>1, <1>4, <1>6, <2>1, <2>2 DEF SettingsInv, Alone, AtRest, Autostarts, Closing
<1> QED
  BY <1>1, <1>5, <1>6 DEF SettingsInv

LEMMA StepSetTruncates ==
    ASSUME SettingsInv, NEW t \in tasks, Settings!SetTruncates(t) PROVE SettingsInv'
<1> DEFINE u == [t EXCEPT !.at = "writing"]
<1>1. /\ t.op = "set" /\ t.at = "read" /\ tasks' = (tasks \ {t}) \cup {u} /\ file' = Settings!Torn
      /\ UNCHANGED <<system, shown, ready, window, chosen, raced>>
  BY DEF Settings!SetTruncates
<1>2. t \in Tasks /\ t.read # Settings!Torn
  BY <1>1 DEF SettingsInv, TasksOK
<1>3. /\ u \in Tasks /\ u.op = "set" /\ u.key = t.key /\ u.value = t.value /\ u.at = "writing"
      /\ u.read = t.read
  BY <1>1, <1>2 DEF Tasks
<1> HIDE DEF u
<1>4. TasksOK'
  BY <1>1, <1>2, <1>3, GoesOnWith
<1>5. ASSUME ~raced PROVE Alone' /\ AtRest' /\ Sets' /\ Autostarts' /\ Closing'
  <2>1. tasks = {t} /\ tasks' = {u}
    BY <1>1, <1>5, Single
  <2>2. Sets'
    BY <1>1, <1>2, <1>3, <1>5, <2>1 DEF SettingsInv, Sets
  <2> QED
    BY <1>1, <1>3, <1>5, <2>1, <2>2 DEF SettingsInv, Alone, AtRest, Autostarts, Closing
<1> QED
  BY <1>1, <1>4, <1>5 DEF SettingsInv

LEMMA StepSetWrites ==
    ASSUME SettingsInv, NEW t \in tasks, Settings!SetWrites(t) PROVE SettingsInv'
<1>1. /\ t.op = "set" /\ t.at = "writing" /\ tasks' = tasks \ {t} /\ file' = Settings!Written(t)
      /\ shown' = [shown EXCEPT ![t.key] = IF t.key = "environment" THEN shown[t.key] ELSE t.value]
      /\ UNCHANGED <<system, ready, window, chosen, raced>>
  BY DEF Settings!SetWrites, Settings!Becomes
<1>2. /\ t \in Tasks /\ t.read \in Settings!Config /\ t.key \in Settings!Keys /\ t.value \in BOOLEAN
      /\ t.key \in Settings!All /\ t.key # "autostart"
      /\ shown \in [Settings!All -> BOOLEAN] /\ chosen \in [Settings!All -> BOOLEAN]
      /\ ready \subseteq Settings!All
  BY <1>1 DEF SettingsInv, TasksOK, Tasks, Settings!TypeOK, Settings!All, Settings!Keys
<1>3. /\ file' \in Settings!Config
      /\ Settings!Get(file', t.key) <=> t.value
      /\ \A k \in Settings!Keys \ {t.key} : Settings!Get(file', k) <=> Settings!Get(t.read, k)
  BY <1>1, <1>2 DEF Settings!Written, Settings!Config, Settings!Get
<1>4. /\ shown' \in [Settings!All -> BOOLEAN]
      /\ t.key # "environment" => (shown'[t.key] <=> t.value)
      /\ t.key = "environment" => shown' = shown
      /\ \A k \in Settings!All \ {t.key} : shown'[k] = shown[k]
  BY <1>1, <1>2
<1>5. TasksOK'
  BY <1>1, <1>3, <1>4 DEF SettingsInv, TasksOK, Settings!TypeOK
<1>6. ASSUME ~raced PROVE Alone' /\ AtRest' /\ Sets' /\ Autostarts' /\ Closing'
  <2>1. tasks = {t} /\ tasks' = {}
    BY <1>1, <1>6, Single
  <2>2. /\ chosen[t.key] <=> t.value
        /\ chosen["autostart"] <=> system
        /\ \A k \in Settings!Keys \ {t.key} : chosen[k] <=> Settings!Get(t.read, k)
        /\ \A k \in ready : (k # t.key \/ k = "environment") => (shown[k] <=> chosen[k])
    BY <1>1, <1>6 DEF SettingsInv, Sets
  <2>3. \A k \in Settings!All : chosen[k] <=> IsKept(k)'
    BY <1>1, <1>2, <1>3, <2>2 DEF IsKept, Settings!All
  <2>4. \A k \in ready : shown'[k] <=> chosen[k]
    BY <1>2, <1>4, <2>2
  <2>5. AtRest'
    BY <1>1, <1>2, <1>3, <2>3, <2>4, TornIsNoConfig DEF AtRest
  <2> QED
    BY <1>1, <1>6, <2>1, <2>5 DEF SettingsInv, Alone, Sets, Autostarts, Closing
<1> QED
  BY <1>1, <1>5, <1>6 DEF SettingsInv

LEMMA StepWriteFails ==
    ASSUME SettingsInv, NEW t \in tasks, Settings!WriteFails(t) PROVE SettingsInv'
<1>1. /\ t.op = "set" /\ tasks' = tasks \ {t}
      /\ shown' = [shown EXCEPT ![t.key] = IF t.key = "environment" THEN shown[t.key] ELSE t.value]
      /\ UNCHANGED <<file, system, ready, window, chosen>>
  BY DEF Settings!WriteFails, Settings!Becomes
<1>2. raced' = TRUE
  BY DEF Settings!WriteFails
<1>3. /\ t.value \in BOOLEAN /\ t.key \in Settings!All /\ shown \in [Settings!All -> BOOLEAN]
  BY DEF SettingsInv, TasksOK, Tasks, Settings!TypeOK
<1>4. shown' \in [Settings!All -> BOOLEAN]
  BY <1>1, <1>3
<1>5. raced' \in BOOLEAN
  BY <1>2
<1>6. TasksOK'
  BY <1>1, <1>4, <1>5 DEF SettingsInv, TasksOK, Settings!TypeOK
<1> QED
  BY <1>2, <1>6 DEF SettingsInv

LEMMA StepAutostart ==
    ASSUME SettingsInv, NEW t \in tasks, NEW done \in BOOLEAN,
           Settings!HandleAutostartToggle(t, done)
    PROVE  SettingsInv'
<1>1. /\ t.op = "autostart" /\ tasks' = tasks \ {t}
      /\ system' = IF done THEN t.value ELSE system
      /\ chosen' = IF done THEN chosen ELSE [chosen EXCEPT !["autostart"] = system]
      /\ shown' = [shown EXCEPT !["autostart"] = IF done THEN t.value ELSE ~t.value]
      /\ UNCHANGED <<file, ready, window, raced>>
  BY DEF Settings!HandleAutostartToggle, Settings!AutostartShown, Settings!Becomes
<1>2. /\ t.value \in BOOLEAN /\ system \in BOOLEAN
      /\ shown \in [Settings!All -> BOOLEAN] /\ chosen \in [Settings!All -> BOOLEAN]
      /\ ready \subseteq Settings!All
      /\ Settings!All = Settings!Keys \cup {"autostart"} /\ "autostart" \notin Settings!Keys
  BY DEF SettingsInv, TasksOK, Tasks, Settings!TypeOK, Settings!All, Settings!Keys
<1>3. /\ system' \in BOOLEAN
      /\ shown' \in [Settings!All -> BOOLEAN] /\ chosen' \in [Settings!All -> BOOLEAN]
      /\ \A k \in Settings!Keys : chosen'[k] = chosen[k] /\ shown'[k] = shown[k]
      /\ shown'["autostart"] <=> IF done THEN t.value ELSE ~t.value
      /\ chosen'["autostart"] <=> IF done THEN chosen["autostart"] ELSE system
      /\ system' <=> IF done THEN t.value ELSE system
  BY <1>1, <1>2
<1>4. TasksOK'
  BY <1>1, <1>3 DEF SettingsInv, TasksOK, Settings!TypeOK
<1>5. ASSUME ~raced PROVE Alone' /\ AtRest' /\ Sets' /\ Autostarts' /\ Closing'
  <2>1. tasks = {t} /\ tasks' = {}
    BY <1>1, <1>5, Single
  <2>2. /\ file # Settings!Torn
        /\ (chosen["autostart"] <=> t.value) /\ (t.value <=> ~system)
        /\ \A k \in Settings!Keys : chosen[k] <=> Settings!Get(file, k)
        /\ \A k \in ready \ {"autostart"} : shown[k] <=> chosen[k]
    BY <1>1, <1>5 DEF SettingsInv, Autostarts
  <2>3. (chosen'["autostart"] <=> system') /\ (shown'["autostart"] <=> system')
    BY <1>3, <2>2
  <2>4. AtRest'
    BY <1>1, <1>2, <1>3, <2>2, <2>3 DEF AtRest, IsKept
  <2>5. "tray" \in Settings!Keys
    BY DEF Settings!Keys
  <2> QED
    BY <1>1, <1>3, <1>5, <2>1, <2>4, <2>5 DEF SettingsInv, Alone, Sets, Autostarts, Closing
<1> QED
  BY <1>1, <1>4, <1>5 DEF SettingsInv

LEMMA StepLoadLands ==
    ASSUME SettingsInv, NEW t \in tasks, Settings!LoadLands(t) PROVE SettingsInv'
<1> DEFINE ks == IF t.key = "environment" THEN {"environment"} ELSE Settings!All \ {"environment"}
<1>1. /\ t.op = "load" /\ ready' = ready \cup ks
      /\ shown' = [k \in Settings!All |-> IF k \in ks THEN Settings!Loaded(k) ELSE shown[k]]
      /\ tasks' = tasks \ {l \in tasks : l.op = "load" /\ l.key \in ks}
      /\ UNCHANGED <<file, system, window, chosen, raced>>
  BY DEF Settings!LoadLands
<1>2. /\ system \in BOOLEAN /\ shown \in [Settings!All -> BOOLEAN] /\ ready \subseteq Settings!All
      /\ ks \subseteq Settings!All /\ file \in Settings!Config \cup {Settings!Torn}
  BY DEF SettingsInv, TasksOK, Settings!TypeOK, Settings!All, Settings!Keys
<1> HIDE DEF ks
<1>3. \A k \in Settings!All : Settings!Loaded(k) \in BOOLEAN
  BY <1>2 DEF Settings!Loaded, Settings!Get
<1>4. shown' \in [Settings!All -> BOOLEAN] /\ ready' \subseteq Settings!All
  BY <1>1, <1>2, <1>3
<1>5. TasksOK'
  BY <1>1, <1>4 DEF SettingsInv, TasksOK, Settings!TypeOK
<1>6. ASSUME ~raced PROVE Alone' /\ AtRest' /\ Sets' /\ Autostarts' /\ Closing'
  <2>1. \A u \in tasks : u.op = "load"
    BY <1>1, <1>6 DEF SettingsInv, Alone
  <2>2. /\ file # Settings!Torn
        /\ \A k \in Settings!All : chosen[k] <=> IsKept(k)
        /\ \A k \in ready : shown[k] <=> IsKept(k)
    BY <1>6, <2>1 DEF SettingsInv, AtRest
  <2>3. \A k \in Settings!All : Settings!Loaded(k) <=> IsKept(k)
    BY <1>2, <2>2, TornIsNoConfig DEF Settings!Loaded, IsKept
  <2>4. \A k \in ready' : shown'[k] <=> IsKept(k)
    BY <1>1, <1>2, <1>4, <2>2, <2>3
  <2>5. \A k : IsKept(k)' <=> IsKept(k)
    BY <1>1 DEF IsKept
  <2>6. AtRest'
    BY <1>1, <2>2, <2>4, <2>5 DEF AtRest
  <2> QED
    BY <1>1, <1>6, <2>1, <2>6 DEF SettingsInv, Alone, Sets, Autostarts, Closing
<1> QED
  BY <1>1, <1>5, <1>6 DEF SettingsInv

LEMMA StepHandleClose ==
    ASSUME SettingsInv, NEW t \in tasks, Settings!HandleClose(t) PROVE SettingsInv'
<1> DEFINE u == [t EXCEPT !.at = "tray"]
<1>1. /\ t.op = "close" /\ UNCHANGED <<file, system, shown, ready, chosen, raced>>
      /\ \/ Settings!ToTray /\ window' = "hidden" /\ tasks' = tasks \ {t}
         \/ ~Settings!ToTray /\ window' = window /\ tasks' = (tasks \ {t}) \cup {u}
         \/ t.at = "tray" /\ window' = "closed" /\ tasks' = {}
  BY DEF Settings!HandleClose
<1>2. t \in Tasks /\ file \in Settings!Config \cup {Settings!Torn} /\ window # "closed"
  BY DEF SettingsInv, TasksOK, Settings!TypeOK
<1>3. u \in Tasks /\ u.op = "close" /\ u.key = t.key /\ u.at = "tray"
  BY <1>1, <1>2 DEF Tasks
<1> HIDE DEF u
<1>4. TasksOK'
  BY <1>1, <1>2, <1>3 DEF SettingsInv, TasksOK, Settings!TypeOK
<1>5. ASSUME ~raced PROVE Alone' /\ AtRest' /\ Sets' /\ Autostarts' /\ Closing'
  <2>1. tasks = {t}
    BY <1>1, <1>5, Single
  <2>2. tasks' = {} \/ (~Settings!ToTray /\ tasks' = {u})
    BY <1>1, <2>1
  <2>3. /\ file # Settings!Torn
        /\ \A k \in Settings!All : chosen[k] <=> IsKept(k)
        /\ \A k \in ready : shown[k] <=> IsKept(k)
    BY <1>1, <1>5, <2>1 DEF SettingsInv, AtRest
  <2>4. AtRest'
    BY <1>1, <2>3 DEF AtRest, IsKept
  <2>5. Settings!ToTray <=> chosen["tray"]
    BY <1>2, <2>3, TornIsNoConfig DEF Settings!ToTray, IsKept, Settings!All, Settings!Keys
  <2>6. t.at = "tray" => ~chosen["tray"]
    BY <1>1, <1>5 DEF SettingsInv, Closing
  <2>7. Closing'
    BY <1>1, <1>2, <1>3, <2>2, <2>5, <2>6 DEF Closing
  <2> QED
    BY <1>3, <2>2, <2>4, <2>7 DEF Alone, Sets, Autostarts
<1> QED
  BY <1>1, <1>4, <1>5 DEF SettingsInv

LEMMA SettingsStep == SettingsInv /\ Settings!Next => SettingsInv'
  BY StepToggleEnvironment, StepHandleToggle, StepCloseButton, StepOpenSettings, StepReturn,
     StepSetReads, StepSetTruncates, StepSetWrites, StepWriteFails, StepAutostart, StepLoadLands,
     StepHandleClose
     DEF Settings!Next

LEMMA SettingsAreSound ==
    ASSUME SettingsInv
    PROVE  /\ Settings!TypeOK /\ Settings!ChosenAreKept /\ Settings!ShownAreKept
           /\ Settings!TrayKeepsTheApplication
<1>1. /\ Settings!TypeOK /\ tasks \subseteq Tasks
      /\ "autostart" \in Settings!All /\ Settings!Keys \subseteq Settings!All /\ "autostart" \notin Settings!Keys
  BY DEF SettingsInv, TasksOK, Settings!All, Settings!Keys
<1>2. ASSUME Settings!OfSettings = {}, ~raced
      PROVE  /\ file # Settings!Torn
             /\ \A k \in Settings!All : chosen[k] <=> IsKept(k)
             /\ \A k \in ready : shown[k] <=> IsKept(k)
  BY <1>1, <1>2 DEF SettingsInv, AtRest, Settings!OfSettings
<1>3. \A k : (Settings!Get(file, k)) \in BOOLEAN
  BY DEF Settings!Get
<1>4. \A k \in Settings!All : chosen[k] \in BOOLEAN /\ shown[k] \in BOOLEAN
  BY <1>1 DEF Settings!TypeOK
<1>5. system \in BOOLEAN /\ ready \subseteq Settings!All
  BY <1>1 DEF Settings!TypeOK
<1>6. Settings!ChosenAreKept
  BY <1>1, <1>2, <1>3, <1>4, <1>5 DEF Settings!ChosenAreKept, IsKept
<1>7. Settings!ShownAreKept
  BY <1>1, <1>2, <1>3, <1>4, <1>5 DEF Settings!ShownAreKept, IsKept
<1> QED
  BY <1>1, <1>6, <1>7 DEF Settings!TrayKeepsTheApplication, SettingsInv, Closing

-----------------------------------------------------------------------------
(* The page.                                                               *)

PageInv ==
    /\ part = "run" => RunInv
    /\ part = "layers" => LayersInv
    /\ part = "icons" => IconInv
    /\ part = "dialogs" => DialogsInv
    /\ part = "menus" => MenusInv
    /\ part = "settings" => SettingsInv

LEMMA PageStarts == PageInit => PageInv
<1>1. /\ PageInit /\ part = "run" => Runs!Init
      /\ PageInit /\ part = "layers" => Layers!Init
      /\ PageInit /\ part = "icons" => Icons!Init
  BY Zenon DEF PageInit
<1>2. /\ PageInit /\ part = "dialogs" => Dialogs!Init
      /\ PageInit /\ part = "menus" => Menus!Init
      /\ PageInit /\ part = "settings" => Settings!Init
  BY Zenon DEF PageInit
<1> QED
  BY <1>1, <1>2, RunStarts, LayersStart, IconsStart, DialogsStart, MenusStart, SettingsStart DEF PageInv

LEMMA PageStutters ==
    ASSUME PageInv, UNCHANGED PageVars
    PROVE  PageInv'
<1>1. UNCHANGED <<part, standing, fits, device, run, log, opened, word, cleared, trouble>>
  BY DEF PageVars, OfOthers, OfRuns
<1>2. UNCHANGED <<kept, sheet, term, held, menu, over, edited, layers, popup, focus, waits, moved, acts>>
  BY DEF PageVars, OfLaunchpad, OfLayers
<1>3. UNCHANGED <<user, named, disk, store, moves, sent, looks, blank, own, astray, turns>>
  BY DEF PageVars, OfLaunchpad, OfIcons
<1>4. RunInv => RunInv'
  <2>1. RunTypes => RunTypes'
    BY <1>1 DEF RunTypes, Runs!TypeOK
  <2>2. BoundInv => BoundInv'
    BY <1>1 DEF BoundInv, Runs!DroppedOnlyIfDeleted
  <2>3. WorkInv => WorkInv'
    BY <1>1 DEF WorkInv
  <2>4. DecideInv => DecideInv'
    BY <1>1 DEF DecideInv
  <2>5. EndInv => EndInv'
    BY <1>1 DEF EndInv, Runs!RefusalsAreObeyed, Runs!LogTellsTheEnd
  <2> QED
    BY <1>1, <2>1, <2>2, <2>3, <2>4, <2>5 DEF RunInv, Runs!OnlyFittingClientsSync
<1>5. LayersInv => LayersInv'
  <2>1. Layers!TypeOK => Layers!TypeOK'
    BY <1>2 DEF Layers!TypeOK
  <2> QED
    BY <1>2, <2>1 DEF LayersInv, MenuInv, FormInv, Layers!Shown
<1>6. IconInv => IconInv'
  <2>1. IconTypes => IconTypes'
    BY <1>3 DEF IconTypes, Icons!TypeOK
  <2> QED
    BY <1>3, <2>1 DEF IconInv, RunIsOfItsUser, Icons!FailedAreMissing
<1>7. UNCHANGED <<modals, page, checks, downloads, under, loose, swept, haunted, events>>
  BY DEF PageVars, OfOthers, OfDialogs, vars
<1>8. UNCHANGED <<bar, label, builds, native, failed, events>>
  BY DEF PageVars, OfOthers, OfMenus, vars
<1>9. UNCHANGED <<file, system, shown, ready, window, tasks, chosen, raced, events>>
  BY DEF PageVars, OfOthers, OfSettings, vars
<1>10. DialogsInv => DialogsInv'
  <2>1. DialogTypes => DialogTypes'
    BY <1>7 DEF DialogTypes, Dialogs!TypeOK
  <2>2. (Checking' <=> Checking) /\ (Downloading' <=> Downloading)
    BY <1>7 DEF Checking, Downloading
  <2>3. StackInv => StackInv'
    BY <1>7 DEF StackInv
  <2>4. ChecksInv => ChecksInv'
    BY <1>7, <2>2 DEF ChecksInv
  <2>5. CalmInv => CalmInv'
    BY <1>7, <2>2 DEF CalmInv, Calm
  <2> QED
    BY <2>1, <2>3, <2>4, <2>5 DEF DialogsInv
<1>11. MenusInv => MenusInv'
  <2>1. Menus!TypeOK => Menus!TypeOK'
    BY <1>8 DEF Menus!TypeOK
  <2> QED
    BY <1>8, <2>1 DEF MenusInv, Menus!OneSubmenuWhileHovering
<1>12. SettingsInv => SettingsInv'
  <2>1. TasksOK => TasksOK'
    BY <1>9 DEF TasksOK, Settings!TypeOK
  <2>2. (Alone => Alone') /\ (AtRest => AtRest')
    BY <1>9 DEF Alone, AtRest, IsKept
  <2>3. (Sets => Sets') /\ (Autostarts => Autostarts') /\ (Closing => Closing')
    BY <1>9 DEF Sets, Autostarts, Closing, IsKept
  <2> QED
    BY <1>9, <2>1, <2>2, <2>3 DEF SettingsInv
<1> QED
  BY <1>1, <1>4, <1>5, <1>6, <1>10, <1>11, <1>12 DEF PageInv

LEMMA PageSteps == PageInv /\ [PageNext]_PageVars => PageInv'
<1> SUFFICES ASSUME PageInv, PageNext PROVE PageInv'
  BY PageStutters
<1>1. part' = part
  BY DEF PageNext
<1>2. /\ part = "run" => Runs!Next
      /\ part = "layers" => Layers!Next
      /\ part = "icons" => Icons!Next
  BY Zenon DEF PageNext
<1>3. /\ part = "dialogs" => Dialogs!Next
      /\ part = "menus" => Menus!Next
      /\ part = "settings" => Settings!Next
  BY Zenon DEF PageNext
<1> QED
  BY <1>1, <1>2, <1>3, RunStep, LayersStep, IconsStep, DialogsStep, MenusStep, SettingsStep DEF PageInv

LEMMA PageStaysSound == PageSpec => []PageInv
  BY PageStarts, PageSteps, PTL DEF PageSpec

(* However many servers the address of the account may lead to, in         *)
(* whatever order accounts are disabled, deleted and cleaned, tokens       *)
(* expire, addresses change, commands fail and the application restarts:   *)
(* the data of an account leave the device only when the server that keeps *)
(* it has deleted it, a run that ends without a failure of the device ends *)
(* as the last word of the server asks, its log tells that end, a session  *)
(* is opened only where the client fits, a refusal keeps its code in every *)
(* form, and what is refused is not retried as it is.  The code is         *)
(* useSync.ts, syncApi.ts and appError.ts of the client and the handlers   *)
(* and errors of the server.                                               *)
THEOREM RunsEndAsTheServerSaid == PageSpec => []RunsHold
<1>1. PageInv => RunsHold
  BY RunsAreSound DEF PageInv, RunsHold
<1> QED
  BY <1>1, PageStaysSound, PTL

(* However many cards, accounts and files there are: the menu is of a card *)
(* on the page and the form of a site that is kept, unless the page was    *)
(* changed under them, and no two layers lie over each other.  The icons   *)
(* of an account's sites are all the server gets for it, unless the user   *)
(* was switched during a sync, and a card gives up only a file that is     *)
(* missing once the sync is through.  The code is Launchpad.tsx, the modal *)
(* context, DynamicIcon.tsx and useSync.ts of the client.                  *)
THEOREM LayersKeepApart == PageSpec => []LayersHold
<1>1. PageInv => LayersHold
  BY LayersAreSound, IconsAreSound DEF PageInv, LayersHold
<1> QED
  BY <1>1, PageStaysSound, PTL

(* Whatever dialogs lie over one another, however answers, events of       *)
(* downloads, builds of the menu, writes of the settings and acts of the   *)
(* user interleave: no two dialogs of one key are open, an answer closes   *)
(* somebody else's only when its own was taken away or covered, the page   *)
(* says of itself that it checks or downloads exactly while it does, and a *)
(* download shows its progress; the menu bears the last label unless a     *)
(* build failed; what is chosen in the settings is kept, and shown as it   *)
(* is kept, unless handlers overlapped.  The code is the modal store,      *)
(* CheckUpdatePage.tsx, the menus, settings.rs and the settings dialog.    *)
THEOREM TheWindowTellsTheTruth == PageSpec => []WindowHolds
<1>1. PageInv => WindowHolds
  BY DialogsAreSound, MenusAreSound, SettingsAreSound DEF PageInv, WindowHolds
<1> QED
  BY <1>1, PageStaysSound, PTL

-----------------------------------------------------------------------------
(* Preferences.                                                            *)

LEMMA EngineFacts ==
    /\ Own \subseteq Nat /\ 0 \notin Engines /\ 0 \notin Own
    /\ BuiltIn \subseteq Engines /\ Own \subseteq Engines /\ Engines = BuiltIn \cup Own
    /\ BuiltIn \cap Own = {} /\ Bing \in BuiltIn
<1>1. MaxEngines \in Nat
  BY DeskPreferencesAssumption
<1> QED
  BY <1>1 DEF Own, Engines, BuiltIn, Bing, Google

LEMMA LeastEngine ==
    ASSUME NEW T \in SUBSET Own, T # {} PROVE Min(T) \in T
<1> DEFINE Segments == {1..n : n \in T}
           R == StrictSubsetOrdering(Nat)
<1>0. T \subseteq Nat
  BY EngineFacts
<1>1. Segments \subseteq FiniteSubsetsOf(Nat) /\ Segments # {}
  <2>1. ASSUME NEW n \in T PROVE 1..n \in FiniteSubsetsOf(Nat)
    <3>1. n \in Int /\ 1 \in Int /\ 1..n \subseteq Nat
      BY <1>0
    <3>2. IsFiniteSet(1..n)
      BY <3>1, FS_Interval
    <3> QED
      BY <3>1, <3>2 DEF FiniteSubsetsOf
  <2> QED
    BY <2>1
<1>2. IsWellFoundedOn(R, FiniteSubsetsOf(Nat))
  BY FS_StrictSubsetOrderingWellFounded
<1> HIDE DEF Segments, R
<1>3. \E x \in Segments : \A y \in Segments : ~(<<y, x>> \in R)
  BY <1>1, <1>2, WFMin
<1>4. PICK m \in T : \A y \in Segments : ~(<<y, 1..m>> \in R)
  BY <1>3 DEF Segments
<1>5. ASSUME NEW n \in T, n < m PROVE FALSE
  <2>1. n \in Nat /\ m \in Nat
    BY <1>0
  <2>2. 1..n \in Segments /\ 1..n \subseteq 1..m /\ 1..n \subseteq Nat /\ 1..m \subseteq Nat
    BY <1>5, <2>1 DEF Segments
  <2>3. m \in 1..m /\ m \notin 1..n
    <3>1. 1 <= m
      BY <2>1, EngineFacts
    <3> QED
      BY <1>5, <2>1, <3>1
  <2> QED
    BY <1>4, <2>2, <2>3 DEF R, StrictSubsetOrdering
<1>6. \E k \in T : \A n \in T : k <= n
  BY <1>0, <1>5
<1> QED
  BY <1>6 DEF Min

(* Calls: a load or a refresh reads, the others write.                     *)
Request ==
    [op : {"load", "refresh", "choose", "save", "delete"},
     at : {"sent", "engines", "default", "loaded"}, user : Users,
     saw : Engines \cup {0}, about : Engines \cup {0}, name : Names \cup {"built in"},
     rows : SUBSET Listed, wasActive : BOOLEAN, mounted : BOOLEAN]
Asks(c) ==
    /\ c \in Request
    /\ c.op \in {"choose", "save", "delete"} => c.at = "sent"
    /\ c.op \in {"load", "refresh"} => c.mounted
    /\ c.op = "choose" => c.about \in Engines
    /\ c.op = "save" => c.about \in Own \cup {0} /\ c.name \in Names
    /\ c.op = "delete" => c.about \in Own
    /\ c.at = "default" => c.about \in Own \cup {0}
Reads(c) == c.op \in {"load", "refresh"} /\ c.at # "loaded"

EnginesOK ==
    /\ rows \in [Own -> Row] /\ default \in [Users -> Own \cup {0}]
    /\ \A u \in Users : default[u] # 0 => rows[default[u]].live /\ rows[default[u]].owner = u
ScreenOK ==
    /\ active \in Users /\ engine \in Engines /\ list \subseteq Listed /\ loading \in BOOLEAN
    /\ modal \in [open : BOOLEAN, editing : Own \cup {0}]
ChoicesOK == chosen \in Engines \cup {0} /\ raced \in BOOLEAN /\ crossed \in BOOLEAN
FoldOK ==
    /\ stored \in [Users -> SUBSET Sections] /\ folded = stored
    /\ fold = [key |-> active, groups |-> stored[active]]

PrefTypes == EnginesOK /\ ScreenOK /\ (\A c \in calls : Asks(c)) /\ ChoicesOK

(* The rows of a user, in a table that may be the one after a step.        *)
AreRows(R, s, u) ==
    R = {[engine |-> e, name |-> "built in"] : e \in BuiltIn} \cup
        {[engine |-> e, name |-> s[e].name] : e \in {f \in Own : s[f].live /\ s[f].owner = u}}
Knows(R, s, u) ==
    Known(R) = BuiltIn \cup {e \in Own : s[e].live /\ s[e].owner = u} /\ R \subseteq Listed

LEMMA KnownRows ==
    ASSUME NEW s \in [Own -> Row], NEW u, NEW R, AreRows(R, s, u)
    PROVE  Knows(R, s, u)
<1>1. \A e \in Own : s[e].name \in Names
  BY DEF Row
<1>2. ASSUME NEW r \in R
      PROVE  r \in Listed /\ r.engine \in BuiltIn \cup {x \in Own : s[x].live /\ s[x].owner = u}
  <2>1. CASE r \in {[engine |-> e, name |-> "built in"] : e \in BuiltIn}
    <3>1. PICK e \in BuiltIn : r = [engine |-> e, name |-> "built in"]
      BY <2>1
    <3>2. e \in Engines /\ r.engine = e
      BY <3>1, EngineFacts
    <3> QED
      BY <3>1, <3>2 DEF Listed
  <2>2. CASE r \in {[engine |-> e, name |-> s[e].name] : e \in {f \in Own : s[f].live /\ s[f].owner = u}}
    <3>1. PICK e \in Own : s[e].live /\ s[e].owner = u /\ r = [engine |-> e, name |-> s[e].name]
      BY <2>2
    <3>2. e \in Engines /\ r.engine = e /\ s[e].name \in Names
      BY <3>1, <1>1, EngineFacts
    <3> QED
      BY <3>1, <3>2 DEF Listed
  <2> QED
    BY <2>1, <2>2 DEF AreRows
<1>3. ASSUME NEW e \in Known(R)
      PROVE  e \in BuiltIn \cup {x \in Own : s[x].live /\ s[x].owner = u}
  <2>1. PICK r \in R : e = r.engine
    BY DEF Known
  <2> QED
    BY <2>1, <1>2
<1>4. ASSUME NEW e \in BuiltIn PROVE e \in Known(R)
  <2> DEFINE r == [engine |-> e, name |-> "built in"]
  <2>1. r \in R
    BY DEF AreRows
  <2>2. r.engine = e
    OBVIOUS
  <2> HIDE DEF r
  <2> QED
    BY <2>1, <2>2 DEF Known
<1>5. ASSUME NEW e \in Own, s[e].live, s[e].owner = u PROVE e \in Known(R)
  <2> DEFINE r == [engine |-> e, name |-> s[e].name]
  <2>1. r \in R
    BY <1>5 DEF AreRows
  <2>2. r.engine = e
    OBVIOUS
  <2> HIDE DEF r
  <2> QED
    BY <2>1, <2>2 DEF Known
<1> QED
  BY <1>2, <1>3, <1>4, <1>5 DEF Knows

LEMMA RowsKnown ==
    ASSUME NEW u, rows \in [Own -> Row]
    PROVE  /\ Known(RowsOf(u)) = BuiltIn \cup {e \in Own : rows[e].live /\ rows[e].owner = u}
           /\ RowsOf(u) \subseteq Listed
<1>1. AreRows(RowsOf(u), rows, u)
  BY DEF RowsOf, AreRows
<1>2. Knows(RowsOf(u), rows, u)
  BY <1>1, KnownRows
<1> QED
  BY <1>2 DEF Knows

LEMMA KnownIsListed ==
    ASSUME NEW l \in SUBSET Listed PROVE Known(l) \subseteq Engines
  BY DEF Known, Listed

Made(n, op, at, u, saw, about) ==
    /\ n \in Request /\ n.op = op /\ n.at = at /\ n.user = u /\ n.saw = saw /\ n.about = about
    /\ n.mounted

IsNew(n, op, u, e, m) ==
    /\ n \in Request /\ n.op = op /\ n.at = "sent" /\ n.user = u /\ n.saw = e
    /\ n.about = 0 /\ n.mounted = m

LEMMA FieldsOf ==
    ASSUME NEW op \in {"load", "refresh", "choose", "save", "delete"}, NEW u \in Users,
           NEW e \in Engines, NEW w \in BOOLEAN, NEW m \in BOOLEAN,
           NEW n, n = [op |-> op, at |-> "sent", user |-> u, saw |-> e, about |-> 0,
                       name |-> "built in", rows |-> {}, wasActive |-> w, mounted |-> m]
    PROVE  IsNew(n, op, u, e, m)
<1>1. n \in Request
  BY DEF Request
<1>2. n.op = op /\ n.at = "sent" /\ n.user = u /\ n.saw = e /\ n.about = 0
  OBVIOUS
<1>3. n.mounted = m
  OBVIOUS
<1> QED
  BY <1>1, <1>2, <1>3 DEF IsNew

LEMMA NewMade ==
    ASSUME ScreenOK, NEW op \in {"load", "refresh", "choose", "save", "delete"},
           NEW n, n = NewCall(op)
    PROVE  Made(n, op, "sent", active, engine, 0)
<1>1. active \in Users /\ engine \in Engines
  BY DEF ScreenOK
<1>2. n = [op |-> op, at |-> "sent", user |-> active, saw |-> engine, about |-> 0,
           name |-> "built in", rows |-> {}, wasActive |-> FALSE, mounted |-> TRUE]
  BY Zenon DEF NewCall
<1>3. FALSE \in BOOLEAN /\ TRUE \in BOOLEAN
  OBVIOUS
<1> DEFINE T == TRUE
           F == FALSE
<1>4. T \in BOOLEAN /\ F \in BOOLEAN
  OBVIOUS
<1>5. n = [op |-> op, at |-> "sent", user |-> active, saw |-> engine, about |-> 0,
           name |-> "built in", rows |-> {}, wasActive |-> F, mounted |-> T]
  BY Zenon, <1>2 DEF T, F
<1>6. T
  OBVIOUS
<1> HIDE DEF T, F
<1>7. IsNew(n, op, active, engine, T)
  BY <1>1, <1>4, <1>5, FieldsOf
<1>8. n.mounted
  BY Zenon, <1>6, <1>7 DEF IsNew
<1> QED
  BY <1>7, <1>8 DEF Made, IsNew

LEMMA LoadMade ==
    ASSUME ScreenOK, NEW op \in {"load", "refresh"}, NEW u \in Users, NEW e \in Engines \cup {0}
    PROVE  Made([NewCall(op) EXCEPT !.user = u, !.saw = e], op, "sent", u, e, 0)
<1> DEFINE b == NewCall(op)
           n == [b EXCEPT !.user = u, !.saw = e]
<1>1. Made(b, op, "sent", active, engine, 0)
  BY NewMade
<1> HIDE DEF b
<1>2. n \in Request /\ n.user = u /\ n.saw = e /\ n.op = b.op /\ n.at = b.at /\ n.about = b.about
  BY <1>1 DEF Made, Request
<1>3. n.mounted = b.mounted
  BY <1>1 DEF Made, Request
<1> HIDE DEF n
<1>4. Made(n, op, "sent", u, e, 0)
  BY <1>1, <1>2, <1>3 DEF Made
<1> QED
  BY <1>4 DEF n, b

LEMMA LoadedMade ==
    ASSUME ScreenOK
    PROVE  Made([NewCall("load") EXCEPT !.at = "loaded", !.saw = 0], "load", "loaded", active, 0, 0)
<1> DEFINE b == NewCall("load")
           n == [b EXCEPT !.at = "loaded", !.saw = 0]
<1>1. Made(b, "load", "sent", active, engine, 0)
  BY NewMade
<1> HIDE DEF b
<1>2. n \in Request /\ n.at = "loaded" /\ n.saw = 0 /\ n.op = b.op /\ n.user = b.user /\ n.about = b.about
  BY <1>1 DEF Made, Request
<1>3. n.mounted = b.mounted
  BY <1>1 DEF Made, Request
<1> HIDE DEF n
<1>4. Made(n, "load", "loaded", active, 0, 0)
  BY <1>1, <1>2, <1>3 DEF Made
<1> QED
  BY <1>4 DEF n, b

LEMMA ChoiceMade ==
    ASSUME ScreenOK, NEW u \in Users, NEW e \in Engines
    PROVE  /\ Made([NewCall("choose") EXCEPT !.about = e, !.saw = 0], "choose", "sent", active, 0, e)
           /\ Made([NewCall("choose") EXCEPT !.user = u, !.about = e, !.saw = 0], "choose", "sent", u, 0, e)
<1> DEFINE b == NewCall("choose")
           n == [b EXCEPT !.about = e, !.saw = 0]
           m == [b EXCEPT !.user = u, !.about = e, !.saw = 0]
<1>1. Made(b, "choose", "sent", active, engine, 0)
  BY NewMade
<1> HIDE DEF b
<1>2. n \in Request /\ n.at = b.at /\ n.saw = 0 /\ n.op = b.op /\ n.user = b.user /\ n.about = e
  BY <1>1 DEF Made, Request
<1>3. m \in Request /\ m.at = b.at /\ m.saw = 0 /\ m.op = b.op /\ m.user = u /\ m.about = e
  BY <1>1 DEF Made, Request
<1>4. n.mounted = b.mounted /\ m.mounted = b.mounted
  BY <1>1 DEF Made, Request
<1> HIDE DEF n, m
<1>5. Made(n, "choose", "sent", active, 0, e)
  BY <1>1, <1>2, <1>4 DEF Made
<1>6. Made(m, "choose", "sent", u, 0, e)
  BY <1>1, <1>3, <1>4 DEF Made
<1> QED
  BY <1>5, <1>6 DEF n, m, b

LEMMA SaveMade ==
    ASSUME ScreenOK, NEW e \in Engines \cup {0}, NEW x \in Names
    PROVE  LET n == [NewCall("save") EXCEPT !.about = e, !.name = x]
           IN  Made(n, "save", "sent", active, engine, e) /\ n.name = x
<1> DEFINE b == NewCall("save")
           n == [b EXCEPT !.about = e, !.name = x]
<1>1. Made(b, "save", "sent", active, engine, 0)
  BY NewMade
<1> HIDE DEF b
<1>2. /\ n \in Request /\ n.at = b.at /\ n.saw = b.saw /\ n.op = b.op /\ n.user = b.user
      /\ n.about = e /\ n.name = x
  BY <1>1 DEF Made, Request
<1>3. n.mounted = b.mounted
  BY <1>1 DEF Made, Request
<1> HIDE DEF n
<1>4. Made(n, "save", "sent", active, engine, e) /\ n.name = x
  BY <1>1, <1>2, <1>3 DEF Made
<1> QED
  BY <1>4 DEF n, b

LEMMA DeletionMade ==
    ASSUME ScreenOK, NEW e \in Engines, NEW w \in BOOLEAN,
           NEW n, n = [NewCall("delete") EXCEPT !.about = e, !.wasActive = w]
    PROVE  Made(n, "delete", "sent", active, engine, e) /\ (n.wasActive <=> w)
<1> DEFINE b == NewCall("delete")
<1>1. Made(b, "delete", "sent", active, engine, 0)
  BY NewMade
<1>2. n = [b EXCEPT !.about = e, !.wasActive = w]
  OBVIOUS
<1> HIDE DEF b
<1>3. /\ n \in Request /\ n.at = b.at /\ n.saw = b.saw /\ n.op = b.op /\ n.user = b.user /\ n.about = e
  BY <1>1, <1>2 DEF Made, Request
<1>4. n.mounted = b.mounted
  BY <1>1, <1>2 DEF Made, Request
<1>5. n.wasActive = w
  BY <1>1, <1>2 DEF Made, Request
<1> QED
  BY <1>1, <1>3, <1>4, <1>5 DEF Made

(* What loads and changes of the engine in use leave behind.               *)
Modals == [open : BOOLEAN, editing : Own \cup {0}]
LoadBegun(rest, u, e) ==
    /\ rest \subseteq calls'
    /\ \A c \in calls' : c \in rest \/ Made(c, "load", "sent", u, e, 0)
    /\ \E c \in calls' : Made(c, "load", "sent", u, e, 0)
    /\ loading' \in BOOLEAN /\ modal' \in Modals
Using(rest, e) ==
    /\ engine' = e
    /\ rest \subseteq calls'
    /\ \A c \in calls' : c \in rest \/ Made(c, "load", "sent", active, e, 0)
    /\ loading' \in BOOLEAN /\ modal' \in Modals

LEMMA LoadsDoes ==
    ASSUME ScreenOK, NEW rest, NEW u \in Users, NEW e \in Engines, Loads(rest, u, e)
    PROVE  LoadBegun(rest, u, e)
<1> DEFINE n == [NewCall("load") EXCEPT !.user = u, !.saw = e]
<1>1. Made(n, "load", "sent", u, e, 0)
  BY LoadMade
<1>2. calls' = rest \cup {n} /\ loading' = TRUE /\ modal' = [modal EXCEPT !.editing = 0]
  BY DEF Loads
<1>3. modal' \in Modals
  BY <1>2 DEF ScreenOK, Modals
<1>4. loading' \in BOOLEAN
  BY <1>2
<1> HIDE DEF n
<1> QED
  BY <1>1, <1>2, <1>3, <1>4 DEF LoadBegun

LEMMA UsesDoes ==
    ASSUME ScreenOK, NEW rest, NEW e \in Engines, Uses(rest, e)
    PROVE  Using(rest, e)
<1>1. engine' = e /\ active \in Users
  BY DEF Uses, ScreenOK
<1>2. CASE e # engine
  <2>1. Loads(rest, active, e)
    BY <1>2 DEF Uses
  <2>2. LoadBegun(rest, active, e)
    BY <1>1, <2>1, LoadsDoes
  <2> QED
    BY <1>1, <2>2 DEF LoadBegun, Using
<1>3. CASE e = engine
  <2>1. calls' = rest /\ loading' = loading /\ modal' = modal
    BY <1>3 DEF Uses
  <2>2. loading' \in BOOLEAN /\ modal' \in Modals
    BY <2>1 DEF ScreenOK, Modals
  <2> QED
    BY <1>1, <2>1, <2>2 DEF Using
<1> QED
  BY <1>2, <1>3

(* A call that went one step further.                                      *)
Keeps(n, c) ==
    /\ n \in Request /\ n.op = c.op /\ n.user = c.user /\ n.saw = c.saw
    /\ n.wasActive = c.wasActive /\ n.mounted = c.mounted
HasRead(n, c) == Keeps(n, c) /\ n.at = "engines" /\ n.rows = RowsOf(c.user) /\ n.about = c.about
HasDefault(n, c) == Keeps(n, c) /\ n.at = "default" /\ n.rows = c.rows /\ n.about = default[c.user]

LEMMA EnginesReadDoes ==
    ASSUME NEW c \in Request, EnginesOK, NEW n, n = [c EXCEPT !.rows = RowsOf(c.user), !.at = "engines"]
    PROVE  HasRead(n, c)
<1> DEFINE R == RowsOf(c.user)
<1>1. R \subseteq Listed
  BY RowsKnown DEF EnginesOK
<1>2. n = [c EXCEPT !.rows = R, !.at = "engines"]
  OBVIOUS
<1> HIDE DEF R
<1>3. n \in Request /\ n.op = c.op /\ n.user = c.user /\ n.saw = c.saw /\ n.about = c.about
      /\ n.rows = R /\ n.at = "engines"
  BY <1>1, <1>2 DEF Request
<1>4. n.wasActive = c.wasActive
  BY <1>2 DEF Request
<1>5. n.mounted = c.mounted
  BY <1>2 DEF Request
<1> QED
  BY <1>3, <1>4, <1>5 DEF HasRead, Keeps, R

LEMMA DefaultDoes ==
    ASSUME NEW c \in Request, EnginesOK, NEW n, n = [c EXCEPT !.about = default[c.user], !.at = "default"]
    PROVE  HasDefault(n, c)
<1> DEFINE d == default[c.user]
<1>1. d \in Engines \cup {0}
  BY EngineFacts DEF EnginesOK, Request
<1>2. n = [c EXCEPT !.about = d, !.at = "default"]
  OBVIOUS
<1> HIDE DEF d
<1>3. n \in Request /\ n.op = c.op /\ n.user = c.user /\ n.saw = c.saw /\ n.about = d
      /\ n.rows = c.rows /\ n.at = "default"
  BY <1>1, <1>2 DEF Request
<1>4. n.wasActive = c.wasActive
  BY <1>2 DEF Request
<1>5. n.mounted = c.mounted
  BY <1>2 DEF Request
<1> QED
  BY <1>3, <1>4, <1>5 DEF HasDefault, Keeps, d

LEMMA LeftAlone ==
    ASSUME NEW c \in Request, NEW n, n = [c EXCEPT !.mounted = FALSE]
    PROVE  n \in Request /\ n.op = c.op /\ n.at = c.at /\ n.about = c.about /\ n.name = c.name
  BY DEF Request

LEMMA RereadDoes ==
    ASSUME ScreenOK, NEW c \in Request
    PROVE  /\ \A n \in Refresh(c) : Made(n, "refresh", "sent", c.user, c.saw, 0)
           /\ c.mounted => \E n \in Refresh(c) : Made(n, "refresh", "sent", c.user, c.saw, 0)
<1> DEFINE n == [NewCall("refresh") EXCEPT !.user = c.user, !.saw = c.saw]
<1>1. c.user \in Users /\ c.saw \in Engines \cup {0}
  BY DEF Request
<1>2. Made(n, "refresh", "sent", c.user, c.saw, 0)
  BY <1>1, LoadMade
<1>3. Refresh(c) = IF c.mounted THEN {n} ELSE {}
  BY DEF Refresh
<1> HIDE DEF n
<1> QED
  BY <1>2, <1>3

(* Types.                                                                  *)
LEMMA MadeAsks ==
    ASSUME NEW n, NEW op, NEW u, NEW s, NEW a,
           \/ op \in {"load", "refresh"} /\ (Made(n, op, "sent", u, s, a) \/ Made(n, op, "loaded", u, s, a))
           \/ Made(n, "choose", "sent", u, s, a) /\ a \in Engines
           \/ Made(n, "delete", "sent", u, s, a) /\ a \in Own
           \/ Made(n, "save", "sent", u, s, a) /\ a \in Own \cup {0} /\ n.name \in Names
    PROVE  Asks(n)
  BY DEF Made, Asks

LEMMA LoadingAsks ==
    ASSUME NEW rest, NEW u, NEW e, LoadBegun(rest, u, e), \A c \in rest : Asks(c)
    PROVE  \A c \in calls' : Asks(c)
  BY MadeAsks DEF LoadBegun

LEMMA UsingAsks ==
    ASSUME NEW rest, NEW e, Using(rest, e), \A c \in rest : Asks(c)
    PROVE  \A c \in calls' : Asks(c)
  BY MadeAsks DEF Using

LEMMA RefreshAsks ==
    ASSUME ScreenOK, NEW c, Asks(c)
    PROVE  \A n \in Refresh(c) : Asks(n)
  BY RereadDoes, MadeAsks DEF Asks

(* What a load ends with is an engine.                                     *)
LEMMA InUseIsEngine ==
    ASSUME ScreenOK, NEW c, Asks(c), c.at = "default" PROVE InUse(c) \in Engines
  BY EngineFacts DEF InUse, ScreenOK, Asks

LEMMA LoadReads ==
    ASSUME PrefTypes, NEW c \in calls, ReadEngines(c) PROVE PrefTypes'
<1> DEFINE n == [c EXCEPT !.rows = RowsOf(c.user), !.at = "engines"]
<1>1. Asks(c) /\ c \in Request /\ c.op \in {"load", "refresh"}
  BY DEF PrefTypes, Asks, ReadEngines
<1>2. HasRead(n, c)
  BY <1>1, EnginesReadDoes DEF PrefTypes
<1>3. calls' = (calls \ {c}) \cup {n}
  BY DEF ReadEngines
<1> HIDE DEF n
<1>4. Asks(n)
  BY <1>1, <1>2 DEF Asks, HasRead, Keeps
<1>5. \A d \in calls' : Asks(d)
  BY <1>3, <1>4 DEF PrefTypes
<1>6. crossed' \in BOOLEAN
  BY DEF ReadEngines, PrefTypes, ChoicesOK
<1> QED
  BY <1>5, <1>6 DEF ReadEngines, PrefTypes, EnginesOK, ScreenOK, ChoicesOK

LEMMA DefaultRead ==
    ASSUME PrefTypes, NEW c \in calls, ReadDefault(c) PROVE PrefTypes'
<1> DEFINE n == [c EXCEPT !.about = default[c.user], !.at = "default"]
<1>1. Asks(c) /\ c \in Request /\ c.op \in {"load", "refresh"}
  BY DEF PrefTypes, Asks, ReadDefault, Request
<1>2. HasDefault(n, c)
  BY <1>1, DefaultDoes DEF PrefTypes
<1>3. calls' = (calls \ {c}) \cup {n}
  BY DEF ReadDefault
<1> HIDE DEF n
<1>4. default[c.user] \in Own \cup {0}
  BY <1>1 DEF PrefTypes, EnginesOK, Request
<1>5. Asks(n)
  BY <1>1, <1>2, <1>4 DEF Asks, HasDefault, Keeps
<1>6. \A d \in calls' : Asks(d)
  BY <1>3, <1>5 DEF PrefTypes
<1>7. raced' \in BOOLEAN
  BY DEF ReadDefault, PrefTypes, ChoicesOK
<1> QED
  BY <1>6, <1>7 DEF ReadDefault, PrefTypes, EnginesOK, ScreenOK, ChoicesOK

LEMMA EnginesLoad ==
    ASSUME PrefTypes, NEW c \in calls, LoadSearchEngines(c) PROVE PrefTypes'
<1> DEFINE n == [NewCall("load") EXCEPT !.at = "loaded", !.saw = 0]
           rest == (calls \ {c}) \cup (IF c.op = "load" THEN {n} ELSE {})
<1>1. Asks(c) /\ c.at = "default" /\ c.rows \subseteq Listed /\ ScreenOK
  BY DEF PrefTypes, Asks, LoadSearchEngines, Request
<1>2. InUse(c) \in Engines
  BY <1>1, InUseIsEngine
<1>3. Made(n, "load", "loaded", active, 0, 0)
  BY <1>1, LoadedMade
<1>4. Uses(rest, InUse(c)) /\ list' = c.rows
  BY DEF LoadSearchEngines
<1> HIDE DEF n
<1>5. \A d \in rest : Asks(d)
  BY <1>3, MadeAsks DEF PrefTypes
<1> HIDE DEF rest
<1>6. Using(rest, InUse(c))
  BY <1>1, <1>2, <1>4, UsesDoes
<1>7. \A d \in calls' : Asks(d)
  BY <1>5, <1>6, UsingAsks
<1>8. EnginesOK' /\ ChoicesOK'
  BY DEF LoadSearchEngines, PrefTypes, EnginesOK, ChoicesOK
<1>9. ScreenOK'
  BY <1>1, <1>2, <1>4, <1>6 DEF LoadSearchEngines, Using, ScreenOK, Modals
<1> QED
  BY <1>7, <1>8, <1>9 DEF PrefTypes

LEMMA EngineChanges ==
    ASSUME PrefTypes, NEW e \in Engines, HandleActiveEngineChange(e) PROVE PrefTypes'
<1> DEFINE n == [NewCall("choose") EXCEPT !.about = e, !.saw = 0]
           rest == calls \cup {n}
<1>1. Made(n, "choose", "sent", active, 0, e)
  BY ChoiceMade DEF PrefTypes, ScreenOK
<1>2. Uses(rest, e) /\ chosen' = e
  BY DEF HandleActiveEngineChange
<1> HIDE DEF n
<1>3. \A d \in rest : Asks(d)
  BY <1>1, MadeAsks DEF PrefTypes
<1> HIDE DEF rest
<1>4. Using(rest, e)
  BY <1>2, UsesDoes DEF PrefTypes
<1>5. \A d \in calls' : Asks(d)
  BY <1>3, <1>4, UsingAsks
<1>6. EnginesOK'
  BY DEF HandleActiveEngineChange, PrefTypes, EnginesOK
<1>7. ScreenOK'
  BY <1>4 DEF HandleActiveEngineChange, PrefTypes, Using, ScreenOK, Modals
<1>8. raced' \in BOOLEAN /\ crossed' \in BOOLEAN
  BY DEF HandleActiveEngineChange, PrefTypes, ChoicesOK, Overlaps
<1> QED
  BY <1>2, <1>5, <1>6, <1>7, <1>8 DEF PrefTypes, ChoicesOK

LEMMA ChoiceWritten ==
    ASSUME PrefTypes, NEW c \in calls, SetActiveSearchEngine(c) PROVE PrefTypes'
<1>1. Asks(c) /\ c.user \in Users
  BY DEF PrefTypes, Asks, Request
<1>2. default' = [default EXCEPT ![c.user] = NewDefault(c)] /\ rows' = rows /\ calls' = calls \ {c}
  BY DEF SetActiveSearchEngine
<1>3. NewDefault(c) \in Own \cup {0}
  BY DEF NewDefault
<1>4. NewDefault(c) # 0 => rows[NewDefault(c)].live /\ rows[NewDefault(c)].owner = c.user
  BY DEF NewDefault
<1> DEFINE d == NewDefault(c)
<1> HIDE DEF d
<1>5. default' \in [Users -> Own \cup {0}]
  BY <1>1, <1>2, <1>3 DEF PrefTypes, EnginesOK
<1>6. ASSUME NEW u \in Users, default'[u] # 0
      PROVE  rows'[default'[u]].live /\ rows'[default'[u]].owner = u
  <2>1. CASE u = c.user
    <3>1. default'[u] = NewDefault(c)
      BY <1>2, <2>1 DEF PrefTypes, EnginesOK
    <3> QED
      BY <1>2, <1>4, <1>6, <2>1, <3>1
  <2>2. CASE u # c.user
    <3>1. default'[u] = default[u]
      BY <1>2, <2>2 DEF PrefTypes, EnginesOK
    <3> QED
      BY <1>2, <1>6, <3>1 DEF PrefTypes, EnginesOK
  <2> QED
    BY <2>1, <2>2
<1>7. EnginesOK'
  BY <1>2, <1>5, <1>6 DEF PrefTypes, EnginesOK
<1> QED
  BY <1>2, <1>7 DEF SetActiveSearchEngine, PrefTypes, ScreenOK, ChoicesOK

LEMMA SaveSent ==
    ASSUME PrefTypes, NEW x \in Names, HandleSubmit(x) PROVE PrefTypes'
<1> DEFINE n == [NewCall("save") EXCEPT !.about = modal.editing, !.name = x]
<1>1. modal.editing \in Own \cup {0} /\ modal.editing \in Engines \cup {0}
  BY EngineFacts DEF PrefTypes, ScreenOK
<1>2. Made(n, "save", "sent", active, engine, modal.editing) /\ n.name = x
  BY <1>1, SaveMade DEF PrefTypes
<1>3. calls' = calls \cup {n}
  BY DEF HandleSubmit
<1> HIDE DEF n
<1>4. Asks(n)
  BY <1>1, <1>2, MadeAsks
<1>5. crossed' \in BOOLEAN
  BY DEF HandleSubmit, PrefTypes, ChoicesOK, Overlaps
<1> QED
  BY <1>3, <1>4, <1>5 DEF HandleSubmit, PrefTypes, EnginesOK, ScreenOK, ChoicesOK

(* A row comes into a free place, has a new name, or goes.                 *)
RowIn(k, u, x) ==
    /\ k \in Own /\ ~rows[k].live /\ rows' \in [Own -> Row]
    /\ \A e \in Own : e # k => rows'[e] = rows[e]
    /\ rows'[k].live /\ rows'[k].owner = u /\ rows'[k].name = x
SameRows ==
    /\ rows' \in [Own -> Row]
    /\ \A e \in Own : rows'[e].live = rows[e].live /\ rows'[e].owner = rows[e].owner
RowOut(k) ==
    /\ rows' \in [Own -> Row] /\ ~rows'[k].live
    /\ \A e \in Own : e # k => rows'[e] = rows[e]

LEMMA EngineWritten ==
    ASSUME EnginesOK, Free # {}, NEW u \in Users, NEW x \in Names,
           rows' = [rows EXCEPT ![Min(Free)] = [live |-> TRUE, owner |-> u, name |-> x]]
    PROVE  RowIn(Min(Free), u, x)
<1>1. Free \in SUBSET Own
  BY DEF Free
<1>2. Min(Free) \in Free
  BY <1>1, LeastEngine
<1> DEFINE k == Min(Free)
           r == [live |-> TRUE, owner |-> u, name |-> x]
<1>3. k \in Own /\ ~rows[k].live
  BY <1>2 DEF Free
<1>4. r \in Row /\ r.owner = u /\ r.name = x
  BY DEF Row
<1>5. r.live
  OBVIOUS
<1>6. rows' = [rows EXCEPT ![k] = r]
  OBVIOUS
<1> HIDE DEF k, r
<1>7. rows' \in [Own -> Row] /\ rows'[k] = r /\ \A e \in Own \ {k} : rows'[e] = rows[e]
  BY <1>3, <1>4, <1>6 DEF EnginesOK
<1>8. rows'[k].live /\ rows'[k].owner = u /\ rows'[k].name = x
  BY <1>4, <1>5, <1>7
<1> QED
  BY <1>3, <1>7, <1>8 DEF k, RowIn

LEMMA NameWritten ==
    ASSUME EnginesOK, NEW k \in Own, NEW x \in Names,
           rows' = [rows EXCEPT ![k].name = x]
    PROVE  SameRows
<1>1. rows[k] \in Row
  BY DEF EnginesOK
<1> DEFINE r == [rows[k] EXCEPT !.name = x]
<1>2. r \in Row /\ r.owner = rows[k].owner
  BY <1>1 DEF Row
<1>3. r.live = rows[k].live
  BY <1>1 DEF Row
<1>4. rows' = [rows EXCEPT ![k] = r]
  BY DEF EnginesOK
<1> HIDE DEF r
<1>5. rows' \in [Own -> Row]
  BY <1>2, <1>4 DEF EnginesOK
<1>6. \A e \in Own : e # k => rows'[e] = rows[e]
  BY <1>4 DEF EnginesOK
<1>7. rows'[k] = r
  BY <1>4 DEF EnginesOK
<1> QED
  BY <1>2, <1>3, <1>5, <1>6, <1>7 DEF SameRows

LEMMA RowLeft ==
    ASSUME EnginesOK, NEW k \in Own, rows' = [rows EXCEPT ![k].live = FALSE]
    PROVE  RowOut(k)
<1>1. rows[k] \in Row
  BY DEF EnginesOK
<1> DEFINE r == [rows[k] EXCEPT !.live = FALSE]
<1>2. r \in Row
  BY <1>1 DEF Row
<1>3. ~r.live
  BY <1>1 DEF Row
<1>4. rows' = [rows EXCEPT ![k] = r]
  BY DEF EnginesOK
<1> HIDE DEF r
<1>5. rows' \in [Own -> Row] /\ rows'[k] = r
  BY <1>2, <1>4 DEF EnginesOK
<1>6. \A e \in Own : e # k => rows'[e] = rows[e]
  BY <1>4 DEF EnginesOK
<1> QED
  BY <1>3, <1>5, <1>6 DEF RowOut

LEMMA SavedRows ==
    ASSUME EnginesOK, NEW c, Asks(c), c.op = "save", SaveSearchEngine(c)
    PROVE  rows' = rows \/ (\E k \in Own : RowIn(k, c.user, c.name)) \/ SameRows
<1>1. c.user \in Users /\ c.name \in Names /\ c.about \in Own \cup {0}
  BY DEF Asks, Request
<1>2. CASE c.about = 0 /\ Free # {}
           /\ rows' = [rows EXCEPT ![Min(Free)] = [live |-> TRUE, owner |-> c.user, name |-> c.name]]
  <2>1. RowIn(Min(Free), c.user, c.name)
    BY <1>1, <1>2, EngineWritten
  <2> QED
    BY <2>1 DEF RowIn
<1>3. CASE c.about \in Own
           /\ rows' = [rows EXCEPT ![c.about].name = IF rows[c.about].owner = c.user THEN c.name ELSE @]
  <2> DEFINE x == IF rows[c.about].owner = c.user THEN c.name ELSE rows[c.about].name
  <2>1. rows' = [rows EXCEPT ![c.about].name = x]
    BY <1>3
  <2>2. x \in Names
    BY <1>1, <1>3 DEF EnginesOK, Row
  <2> HIDE DEF x
  <2> QED
    BY <1>3, <2>1, <2>2, NameWritten
<1> QED
  BY <1>1, <1>2, <1>3 DEF SaveSearchEngine

LEMMA Saved ==
    ASSUME PrefTypes, NEW c \in calls, SaveSearchEngine(c) PROVE PrefTypes'
<1>1. Asks(c) /\ c.op = "save" /\ c.user \in Users /\ c.name \in Names /\ c.about \in Own \cup {0} /\ c \in Request
  BY DEF PrefTypes, Asks, Request, SaveSearchEngine
<1>2. /\ UNCHANGED <<default, active, engine, list, loading, chosen, raced, crossed>>
      /\ \/ calls' = calls \ {c} /\ UNCHANGED <<rows, modal>>
         \/ /\ IF c.about = 0
               THEN Free # {} /\ rows' = [rows EXCEPT ![Min(Free)] = [live |-> TRUE, owner |-> c.user, name |-> c.name]]
               ELSE rows' = [rows EXCEPT ![c.about].name = IF rows[c.about].owner = c.user THEN c.name ELSE @]
            /\ calls' = (calls \ {c}) \cup Refresh(c)
            /\ modal' = IF c.mounted THEN [modal EXCEPT !.editing = 0] ELSE modal
  BY DEF SaveSearchEngine
<1>3. \A d \in calls' : Asks(d)
  BY <1>1, <1>2, RefreshAsks DEF PrefTypes
<1>4. modal' \in Modals
  BY <1>2 DEF PrefTypes, ScreenOK, Modals
<1>5. rows' = rows \/ (\E k \in Own : RowIn(k, c.user, c.name)) \/ SameRows
  BY <1>1, <1>2, SavedRows DEF PrefTypes, SaveSearchEngine
<1>6. EnginesOK'
  BY <1>2, <1>5, EngineFacts DEF PrefTypes, EnginesOK, RowIn, SameRows
<1> QED
  BY <1>2, <1>3, <1>4, <1>6 DEF PrefTypes, ScreenOK, ChoicesOK, Modals

LEMMA DeletionSent ==
    ASSUME PrefTypes, NEW e \in Engines, HandleDelete(e) PROVE PrefTypes'
<1> DEFINE w == ActiveSearchEngine = e
           n == [NewCall("delete") EXCEPT !.about = e, !.wasActive = w]
<1>1. e \in Own
  BY EngineFacts DEF HandleDelete
<1>2. w \in BOOLEAN
  OBVIOUS
<1>3. calls' = calls \cup {n}
  BY Zenon DEF HandleDelete
<1> HIDE DEF w
<1>4. Made(n, "delete", "sent", active, engine, e)
  BY <1>2, DeletionMade DEF PrefTypes
<1> HIDE DEF n
<1>5. Asks(n)
  BY <1>1, <1>4, MadeAsks
<1>6. crossed' \in BOOLEAN /\ raced' \in BOOLEAN
  BY DEF HandleDelete, PrefTypes, ChoicesOK, Overlaps
<1> QED
  BY <1>3, <1>5, <1>6 DEF HandleDelete, PrefTypes, EnginesOK, ScreenOK, ChoicesOK

(* The handler of a deletion, with the choice and the load it may begin.   *)
Deletes(c) ==
    /\ RowOut(c.about)
    /\ default' = [u \in Users |-> IF default[u] = c.about THEN 0 ELSE default[u]]
    /\ \A d \in calls' :
          \/ d \in calls \ {c} \/ Made(d, "refresh", "sent", c.user, c.saw, 0)
          \/ c.wasActive /\ Made(d, "choose", "sent", c.user, 0, Bing)
          \/ c.wasActive /\ Made(d, "load", "sent", active, Bing, 0)
    /\ c.mounted => \E d \in calls' : Made(d, "refresh", "sent", c.user, c.saw, 0)
    /\ engine' = (IF c.wasActive /\ c.mounted THEN Bing ELSE engine)
    /\ loading' \in BOOLEAN /\ modal' \in Modals

LEMMA RemovalDoes ==
    ASSUME PrefTypes, NEW c \in calls, DeleteSearchEngine(c) PROVE Deletes(c)
<1> DEFINE reset == [NewCall("choose") EXCEPT !.user = c.user, !.about = Bing, !.saw = 0]
           rest == (calls \ {c}) \cup Refresh(c)
<1>1. Asks(c) /\ c.op = "delete" /\ c.user \in Users /\ c.about \in Own /\ c \in Request /\ ScreenOK /\ EnginesOK
  BY DEF PrefTypes, Asks, Request, DeleteSearchEngine
<1>2. Bing \in Engines
  BY EngineFacts
<1>3. Made(reset, "choose", "sent", c.user, 0, Bing)
  BY <1>1, <1>2, ChoiceMade
<1>4. RowOut(c.about)
  BY <1>1, RowLeft DEF DeleteSearchEngine
<1>5. /\ \A n \in Refresh(c) : Made(n, "refresh", "sent", c.user, c.saw, 0)
      /\ c.mounted => \E n \in Refresh(c) : Made(n, "refresh", "sent", c.user, c.saw, 0)
  BY <1>1, RereadDoes
<1>6. IF ~c.wasActive THEN calls' = rest /\ UNCHANGED <<engine, loading, modal>>
      ELSE IF c.mounted THEN Uses(rest \cup {reset}, Bing)
      ELSE calls' = rest \cup {reset} /\ UNCHANGED <<engine, loading, modal>>
  BY DEF DeleteSearchEngine
<1>7. default' = [u \in Users |-> IF default[u] = c.about THEN 0 ELSE default[u]]
  BY DEF DeleteSearchEngine
<1> DEFINE both == rest \cup {reset}
<1> HIDE DEF reset
<1>8. /\ \A d \in rest : d \in calls \ {c} \/ Made(d, "refresh", "sent", c.user, c.saw, 0)
      /\ c.mounted => \E d \in rest : Made(d, "refresh", "sent", c.user, c.saw, 0)
  BY <1>5
<1>9. /\ \A d \in both : d \in calls \ {c} \/ Made(d, "refresh", "sent", c.user, c.saw, 0)
                         \/ Made(d, "choose", "sent", c.user, 0, Bing)
      /\ c.mounted => \E d \in both : Made(d, "refresh", "sent", c.user, c.saw, 0)
  BY <1>3, <1>8
<1>10. loading \in BOOLEAN /\ modal \in Modals
  BY <1>1 DEF ScreenOK, Modals
<1> HIDE DEF rest
<1>11. CASE ~c.wasActive
  <2>1. calls' = rest /\ engine' = engine /\ loading' = loading /\ modal' = modal
    BY <1>6, <1>11
  <2> QED
    BY <1>4, <1>7, <1>8, <1>10, <1>11, <2>1 DEF Deletes
<1>12. CASE c.wasActive /\ ~c.mounted
  <2>1. calls' = both /\ engine' = engine /\ loading' = loading /\ modal' = modal
    BY <1>6, <1>12
  <2> HIDE DEF both
  <2> QED
    BY <1>4, <1>7, <1>9, <1>10, <1>12, <2>1 DEF Deletes
<1>13. CASE c.wasActive /\ c.mounted
  <2>1. Uses(both, Bing)
    BY <1>6, <1>13
  <2> HIDE DEF both
  <2>2. Using(both, Bing)
    BY <1>1, <1>2, <2>1, UsesDoes
  <2>3. \A d \in calls' :
          \/ d \in calls \ {c} \/ Made(d, "refresh", "sent", c.user, c.saw, 0)
          \/ Made(d, "choose", "sent", c.user, 0, Bing)
          \/ Made(d, "load", "sent", active, Bing, 0)
    BY <1>9, <2>2 DEF Using
  <2>4. \E d \in calls' : Made(d, "refresh", "sent", c.user, c.saw, 0)
    BY <1>9, <1>13, <2>2 DEF Using
  <2> QED
    BY <1>4, <1>7, <1>13, <2>2, <2>3, <2>4 DEF Deletes, Using
<1> QED
  BY <1>11, <1>12, <1>13

LEMMA Deleted ==
    ASSUME PrefTypes, NEW c \in calls, DeleteSearchEngine(c) PROVE PrefTypes'
<1>1. Asks(c) /\ c.op = "delete" /\ c.about \in Own
  BY DEF PrefTypes, Asks, DeleteSearchEngine
<1>2. Deletes(c)
  BY RemovalDoes
<1>3. Bing \in Engines
  BY EngineFacts
<1>4. \A d \in calls' : Asks(d)
  BY <1>2, <1>3, MadeAsks DEF PrefTypes, Deletes
<1>5. EnginesOK'
  BY <1>1, <1>2, EngineFacts DEF PrefTypes, EnginesOK, Deletes, RowOut
<1>6. ScreenOK'
  BY <1>2, <1>3 DEF PrefTypes, ScreenOK, Deletes, Modals, DeleteSearchEngine
<1>7. ChoicesOK'
  BY DEF PrefTypes, ChoicesOK, DeleteSearchEngine
<1> QED
  BY <1>4, <1>5, <1>6, <1>7 DEF PrefTypes

LEMMA UserSwitched ==
    ASSUME PrefTypes, NEW u \in Users, SwitchActiveUser(u) PROVE PrefTypes'
<1>1. Loads(calls, u, engine) /\ active' = u
  BY DEF SwitchActiveUser
<1>2. LoadBegun(calls, u, engine)
  BY <1>1, LoadsDoes DEF PrefTypes, ScreenOK
<1>3. \A d \in calls' : Asks(d)
  BY <1>2, LoadingAsks DEF PrefTypes
<1>4. ChoicesOK'
  BY DEF SwitchActiveUser, PrefTypes, ChoicesOK, Overlaps
<1> QED
  BY <1>1, <1>2, <1>3, <1>4 DEF SwitchActiveUser, PrefTypes, EnginesOK, ScreenOK, LoadBegun, Modals

LEMMA Reentered ==
    ASSUME PrefTypes, Reenter PROVE PrefTypes'
<1> DEFINE n == NewCall("load")
           Left(c) == [c EXCEPT !.mounted = FALSE]
           left == {d \in calls : d.op \in {"choose", "save", "delete"}}
<1>1. Made(n, "load", "sent", active, engine, 0)
  BY NewMade DEF PrefTypes
<1>2. calls' = {Left(c) : c \in left} \cup {n}
  BY DEF Reenter
<1>3. ASSUME NEW c \in left PROVE Asks(Left(c))
  <2>1. Asks(c) /\ c \in Request /\ c.op \in {"choose", "save", "delete"}
    BY DEF PrefTypes, Asks
  <2> DEFINE d == Left(c)
  <2>2. d \in Request /\ d.op = c.op /\ d.at = c.at /\ d.about = c.about /\ d.name = c.name
    BY <2>1, LeftAlone
  <2> HIDE DEF d
  <2>3. Asks(d)
    BY <2>1, <2>2 DEF Asks
  <2> QED
    BY <2>3 DEF d
<1>4. Asks(n)
  BY <1>1, MadeAsks
<1> HIDE DEF n, Left, left
<1>5. \A d \in calls' : Asks(d)
  BY <1>2, <1>3, <1>4
<1>6. ChoicesOK'
  BY DEF Reenter, PrefTypes, ChoicesOK, Overlaps
<1>7. modal' \in [open : BOOLEAN, editing : Own \cup {0}]
  BY DEF Reenter, NoModal
<1> QED
  BY <1>5, <1>6, <1>7 DEF Reenter, PrefTypes, EnginesOK, ScreenOK

LEMMA RowsSynced ==
    ASSUME PrefTypes, NEW x \in Names, NEW d \in BOOLEAN, Synced(x, d) PROVE PrefTypes'
<1>1. /\ Loads(calls, active, engine) /\ Free # {}
      /\ rows' = [rows EXCEPT ![Min(Free)] = [live |-> TRUE, owner |-> active, name |-> x]]
      /\ default' = [default EXCEPT ![active] = IF d THEN Min(Free) ELSE @]
      /\ active \in Users /\ engine \in Engines
  BY DEF Synced, PrefTypes, ScreenOK
<1>2. LoadBegun(calls, active, engine)
  BY <1>1, LoadsDoes DEF PrefTypes
<1>3. \A c \in calls' : Asks(c)
  BY <1>2, LoadingAsks DEF PrefTypes
<1>4. RowIn(Min(Free), active, x)
  BY <1>1, EngineWritten DEF PrefTypes
<1>5. EnginesOK'
  BY <1>1, <1>4, EngineFacts DEF PrefTypes, EnginesOK, RowIn
<1>6. ChoicesOK'
  BY DEF Synced, PrefTypes, ChoicesOK, Overlaps
<1> QED
  BY <1>2, <1>3, <1>5, <1>6 DEF Synced, PrefTypes, ScreenOK, LoadBegun, Modals

(* The rest of the steps.                                                  *)
OfDialog ==
    \/ OpenModal \/ CloseModal \/ CancelEdit
    \/ \E e \in Engines : HandleEditClick(e)
OfEnds ==
    \E c \in calls : LoadEnds(c) \/ CallFails(c)

LEMMA ModalTypes ==
    ASSUME PrefTypes, OfDialog PROVE PrefTypes'
<1>0. NoModal \in Modals /\ [NoModal EXCEPT !.open = TRUE] \in Modals /\ modal \in Modals
  BY DEF PrefTypes, ScreenOK, Modals, NoModal
<1>1. modal' \in Modals
  <2>1. CASE OpenModal \/ CloseModal
    BY <1>0, <2>1 DEF OpenModal, CloseModal
  <2>2. CASE CancelEdit
    BY <1>0, <2>2 DEF CancelEdit, Modals
  <2>3. ASSUME NEW e \in Engines, HandleEditClick(e) PROVE modal' \in Modals
    <3>1. e \in Own /\ modal' = [modal EXCEPT !.editing = e]
      BY <2>3, EngineFacts DEF HandleEditClick
    <3> QED
      BY <1>0, <3>1 DEF Modals
  <2> QED
    BY <2>1, <2>2, <2>3 DEF OfDialog
<1>2. UNCHANGED <<rows, default, active, engine, list, loading, calls, chosen, raced, crossed>>
  BY DEF OfDialog, OpenModal, CloseModal, CancelEdit, HandleEditClick
<1> QED
  BY <1>1, <1>2 DEF PrefTypes, EnginesOK, ScreenOK, ChoicesOK, Modals

LEMMA EndTypes ==
    ASSUME PrefTypes, OfEnds PROVE PrefTypes'
<1>1. /\ UNCHANGED <<rows, default, active, engine, list, modal, chosen>>
      /\ loading' = FALSE \/ loading' = loading
      /\ calls' \subseteq calls
  BY DEF OfEnds, LoadEnds, CallFails
<1>2. raced' \in BOOLEAN /\ crossed' \in BOOLEAN
  BY DEF OfEnds, LoadEnds, CallFails, PrefTypes, ChoicesOK
<1> QED
  BY <1>1, <1>2 DEF PrefTypes, EnginesOK, ScreenOK, ChoicesOK

LEMMA PrefTypesStep ==
    ASSUME PrefTypes, Next PROVE PrefTypes'
<1>1. CASE \E g \in Sections : Folds(g)
  BY <1>1 DEF Folds, PrefTypes, EnginesOK, ScreenOK, ChoicesOK
<1>2. CASE OfDialog \/ OfEnds
  BY <1>2, ModalTypes, EndTypes
<1>3. CASE Reenter \/ (\E u \in Users : SwitchActiveUser(u))
  BY <1>3, Reentered, UserSwitched
<1>4. CASE \E e \in Engines : HandleActiveEngineChange(e) \/ HandleDelete(e)
  BY <1>4, EngineChanges, DeletionSent
<1>5. CASE \E n \in Names : HandleSubmit(n) \/ \E d \in BOOLEAN : Synced(n, d)
  BY <1>5, SaveSent, RowsSynced
<1>6. CASE \E c \in calls : \/ ReadEngines(c) \/ ReadDefault(c) \/ LoadSearchEngines(c)
                            \/ SetActiveSearchEngine(c) \/ SaveSearchEngine(c) \/ DeleteSearchEngine(c)
  BY <1>6, LoadReads, DefaultRead, EnginesLoad, ChoiceWritten, Saved, Deleted
<1> QED
  BY Zenon, <1>1, <1>2, <1>3, <1>4, <1>5, <1>6 DEF Next, OfDialog, OfEnds

(* Folding: what the page shows is what is stored for the active user.     *)
LEMMA Restored ==
    ASSUME FoldOK, NEW u \in Users, Restores(u), active' = u
    PROVE  FoldOK'
<1>1. fold' = [key |-> u, groups |-> stored[u]] /\ folded' = folded
  BY DEF Restores
<1>2. stored' = [stored EXCEPT ![u] = stored[u]]
  BY DEF Restores, Persisted
<1>3. stored' = stored
  BY <1>2 DEF FoldOK
<1> QED
  BY <1>1, <1>3 DEF FoldOK

LEMMA FoldStep ==
    ASSUME FoldOK, ScreenOK, Next PROVE FoldOK'
<1>1. CASE UNCHANGED <<active, fold, stored, folded>>
  BY <1>1 DEF FoldOK
<1>2. ASSUME NEW g \in Sections, Folds(g) PROVE FoldOK'
  <2> DEFINE S == stored[active]
             T == IF g \in S THEN S \ {g} ELSE S \cup {g}
  <2>1. active \in Users /\ S \subseteq Sections
    BY DEF FoldOK, ScreenOK
  <2>2. fold.key = active /\ fold.groups = S /\ folded[active] = S /\ CollapsedGroups = S
    BY DEF FoldOK, CollapsedGroups
  <2>3. T \subseteq Sections
    BY <2>1
  <2>4. fold' = [fold EXCEPT !.groups = T] /\ stored' = Persisted(fold', active)
        /\ folded' = [folded EXCEPT ![active] = T] /\ active' = active
    BY <1>2, <2>2 DEF Folds
  <2> HIDE DEF S, T
  <2>5. fold' = [key |-> active, groups |-> T]
    BY <2>4 DEF FoldOK
  <2>6. stored' = [stored EXCEPT ![active] = T]
    BY <2>4, <2>5 DEF Persisted
  <2> QED
    BY <2>1, <2>3, <2>4, <2>5, <2>6 DEF FoldOK
<1>3. CASE Reenter
  BY <1>3, Restored DEF Reenter, ScreenOK
<1>4. ASSUME NEW u \in Users, SwitchActiveUser(u) PROVE FoldOK'
  BY <1>4, Restored DEF SwitchActiveUser
<1>5. CASE \/ OpenModal \/ CloseModal \/ CancelEdit
           \/ \E e \in Engines : HandleActiveEngineChange(e) \/ HandleEditClick(e) \/ HandleDelete(e)
           \/ \E n \in Names : HandleSubmit(n) \/ \E d \in BOOLEAN : Synced(n, d)
  BY <1>1, <1>5 DEF OpenModal, CloseModal, CancelEdit, HandleActiveEngineChange, HandleEditClick,
         HandleDelete, HandleSubmit, Synced, Remembered
<1>6. CASE \E c \in calls :
              \/ ReadEngines(c) \/ ReadDefault(c) \/ LoadSearchEngines(c) \/ LoadEnds(c)
              \/ SetActiveSearchEngine(c) \/ SaveSearchEngine(c) \/ DeleteSearchEngine(c) \/ CallFails(c)
  BY <1>1, <1>6 DEF ReadEngines, ReadDefault, LoadSearchEngines, LoadEnds, SetActiveSearchEngine,
         SaveSearchEngine, DeleteSearchEngine, CallFails, Remembered
<1> QED
  BY Zenon, <1>2, <1>3, <1>4, <1>5, <1>6 DEF Next

(* The list: unless a load was crossed, every call is of the active user   *)
(* and of this page, has read its rows, and one still reads if the list is *)
(* not of them.                                                            *)
OfPage(c) ==
    /\ c.user = active /\ c.mounted
    /\ c.at \in {"engines", "default"} => c.rows = RowsOf(active)
ListOK ==
    /\ \A c \in calls : OfPage(c)
    /\ list = RowsOf(active) \/ \E c \in calls : Reads(c)
    /\ \A c \in calls : c.op \in {"save", "delete"} => calls = {c}
ListInv == ~crossed => ListOK

LEMMA SameRowsOf ==
    ASSUME rows' = rows, NEW u PROVE RowsOf(u)' = RowsOf(u)
  BY DEF RowsOf

(* One load, begun when nothing else ran.                                  *)
LEMMA AloneListed ==
    ASSUME NEW u, NEW e, LoadBegun({}, u, e), active' = u PROVE ListOK'
<1>1. \A c \in calls' : Made(c, "load", "sent", u, e, 0)
  BY DEF LoadBegun
<1>2. \E c \in calls' : Made(c, "load", "sent", u, e, 0)
  BY DEF LoadBegun
<1>3. \E c \in calls' : Reads(c)
  BY <1>2 DEF Made, Reads
<1> QED
  BY <1>1, <1>3 DEF Made, ListOK, OfPage, Reads

LEMMA ReadListed ==
    ASSUME PrefTypes, ListInv, NEW c \in calls, ReadEngines(c), ~crossed' PROVE ListOK'
<1>0. PICK n : n = [c EXCEPT !.rows = RowsOf(c.user), !.at = "engines"]
  OBVIOUS
<1>1. Asks(c) /\ c \in Request /\ c.op \in {"load", "refresh"}
  BY DEF PrefTypes, Asks, ReadEngines
<1>2. HasRead(n, c)
  BY <1>0, <1>1, EnginesReadDoes DEF PrefTypes
<1>3. calls' = (calls \ {c}) \cup {n} /\ rows' = rows /\ active' = active /\ list' = list
  BY <1>0 DEF ReadEngines
<1>4. RowsOf(active)' = RowsOf(active)
  BY <1>3, SameRowsOf DEF RowsOf
<1>5. Reads(n)
  BY <1>1, <1>2 DEF Reads, HasRead, Keeps
<1>6. c.user = active /\ \A d \in calls \ {c} : OfPage(d) /\ d.op \notin {"save", "delete"}
  BY <1>1 DEF ReadEngines, ListInv, ListOK, OfPage
<1>7. c.mounted
  BY <1>1 DEF Asks
<1>8. OfPage(n)'
  BY <1>2, <1>3, <1>4, <1>6, <1>7 DEF OfPage, HasRead, Keeps
<1>9. \A d \in calls \ {c} : OfPage(d)'
  BY <1>3, <1>4, <1>6 DEF OfPage
<1> QED
  BY <1>1, <1>2, <1>3, <1>5, <1>6, <1>8, <1>9 DEF ListOK, HasRead, Keeps

LEMMA DefaultListed ==
    ASSUME PrefTypes, ListOK, NEW c \in calls, ReadDefault(c) PROVE ListOK'
<1>0. PICK n : n = [c EXCEPT !.about = default[c.user], !.at = "default"]
  OBVIOUS
<1>1. Asks(c) /\ c \in Request /\ c.op \in {"load", "refresh"} /\ c.at = "engines"
  BY DEF PrefTypes, Asks, ReadDefault, Request
<1>2. HasDefault(n, c)
  BY <1>0, <1>1, DefaultDoes DEF PrefTypes
<1>3. calls' = (calls \ {c}) \cup {n} /\ rows' = rows /\ active' = active /\ list' = list
  BY <1>0 DEF ReadDefault
<1>4. RowsOf(active)' = RowsOf(active)
  BY <1>3, SameRowsOf DEF RowsOf
<1>5. Reads(n)
  BY <1>1, <1>2 DEF Reads, HasDefault, Keeps
<1>6. OfPage(c) /\ \A d \in calls \ {c} : OfPage(d) /\ d.op \notin {"save", "delete"}
  BY <1>1 DEF ListOK
<1>8. OfPage(n)'
  BY <1>1, <1>2, <1>3, <1>4, <1>6 DEF OfPage, HasDefault, Keeps
<1>9. \A d \in calls \ {c} : OfPage(d)'
  BY <1>3, <1>4, <1>6 DEF OfPage
<1> QED
  BY <1>1, <1>2, <1>3, <1>5, <1>6, <1>8, <1>9 DEF ListOK, HasDefault, Keeps

(* The load itself, and what it leaves behind.                             *)
Left(c) ==
    /\ list' = c.rows /\ engine' = InUse(c) /\ InUse(c) \in Engines
    /\ \A d \in calls' : \/ d \in calls \ {c} \/ Made(d, "load", "loaded", active, 0, 0)
                         \/ Made(d, "load", "sent", active, InUse(c), 0)
    /\ calls \ {c} \subseteq calls'

LEMMA LoadDoes ==
    ASSUME PrefTypes, NEW c \in calls, LoadSearchEngines(c) PROVE Left(c)
<1> DEFINE n == [NewCall("load") EXCEPT !.at = "loaded", !.saw = 0]
           rest == (calls \ {c}) \cup (IF c.op = "load" THEN {n} ELSE {})
<1>1. Asks(c) /\ c.at = "default" /\ ScreenOK
  BY DEF PrefTypes, Asks, LoadSearchEngines
<1>2. InUse(c) \in Engines
  BY <1>1, InUseIsEngine
<1>3. Made(n, "load", "loaded", active, 0, 0)
  BY <1>1, LoadedMade
<1>4. Uses(rest, InUse(c)) /\ list' = c.rows
  BY DEF LoadSearchEngines
<1> HIDE DEF n
<1>5. /\ \A d \in rest : d \in calls \ {c} \/ Made(d, "load", "loaded", active, 0, 0)
      /\ calls \ {c} \subseteq rest
  BY <1>3
<1> HIDE DEF rest
<1>6. Using(rest, InUse(c))
  BY <1>1, <1>2, <1>4, UsesDoes
<1> QED
  BY <1>2, <1>4, <1>5, <1>6 DEF Left, Using

LEMMA LoadListed ==
    ASSUME PrefTypes, ListOK, NEW c \in calls, LoadSearchEngines(c) PROVE ListOK'
<1>1. Asks(c) /\ c.at = "default" /\ c.op \in {"load", "refresh"}
  BY DEF PrefTypes, Asks, LoadSearchEngines, Request
<1>2. Left(c) /\ active' = active /\ rows' = rows
  BY LoadDoes DEF LoadSearchEngines
<1>3. RowsOf(active)' = RowsOf(active)
  BY <1>2, SameRowsOf DEF RowsOf
<1>4. c.rows = RowsOf(active) /\ \A d \in calls \ {c} : OfPage(d) /\ d.op \notin {"save", "delete"}
  BY <1>1 DEF ListOK, OfPage
<1>5. \A d \in calls' : OfPage(d)' /\ d.op \notin {"save", "delete"}
  BY <1>2, <1>3, <1>4 DEF Left, Made, OfPage
<1> QED
  BY <1>2, <1>3, <1>4, <1>5 DEF ListOK, Left

LEMMA ChangeListed ==
    ASSUME PrefTypes, ListInv, NEW e \in Engines, HandleActiveEngineChange(e), ~crossed'
    PROVE  ListOK' /\ ListOK /\ calls = {}
<1> DEFINE n == [NewCall("choose") EXCEPT !.about = e, !.saw = 0]
           rest == calls \cup {n}
<1>0. calls = {} /\ ListOK /\ ScreenOK /\ active \in Users
  BY DEF HandleActiveEngineChange, ListInv, Overlaps, PrefTypes, ScreenOK
<1>1. Made(n, "choose", "sent", active, 0, e)
  BY <1>0, ChoiceMade
<1>2. Uses(rest, e) /\ active' = active /\ rows' = rows /\ list' = list
  BY DEF HandleActiveEngineChange
<1> HIDE DEF n
<1>3. \A d \in rest : Made(d, "choose", "sent", active, 0, e)
  BY <1>0, <1>1
<1> HIDE DEF rest
<1>4. Using(rest, e)
  BY <1>0, <1>2, UsesDoes
<1>5. RowsOf(active)' = RowsOf(active)
  BY <1>2, SameRowsOf DEF RowsOf
<1>6. \A d \in calls' : Made(d, "choose", "sent", active, 0, e) \/ Made(d, "load", "sent", active, e, 0)
  BY <1>3, <1>4 DEF Using
<1>7. \A d \in calls' : OfPage(d)' /\ d.op \notin {"save", "delete"}
  BY <1>2, <1>6 DEF OfPage, Made
<1>8. list = RowsOf(active)
  BY <1>0 DEF ListOK
<1> QED
  BY <1>0, <1>2, <1>5, <1>7, <1>8 DEF ListOK

LEMMA ChoiceListed ==
    ASSUME PrefTypes, ListOK, NEW c \in calls, SetActiveSearchEngine(c) PROVE ListOK'
<1>1. calls' = calls \ {c} /\ active' = active /\ rows' = rows /\ list' = list /\ c.op = "choose"
  BY DEF SetActiveSearchEngine
<1>2. RowsOf(active)' = RowsOf(active)
  BY <1>1, SameRowsOf DEF RowsOf
<1> QED
  BY <1>1, <1>2 DEF ListOK, OfPage, Reads

LEMMA EndListed ==
    ASSUME PrefTypes, ListInv, OfEnds, ~crossed' PROVE ListOK' /\ ListOK
<1>1. PICK c \in calls : LoadEnds(c) \/ CallFails(c)
  BY DEF OfEnds
<1>2. calls' = calls \ {c} /\ active' = active /\ rows' = rows /\ list' = list
      /\ (c.at = "loaded" \/ c.op = "save") /\ ListOK
  BY <1>1 DEF LoadEnds, CallFails, ListInv
<1>3. RowsOf(active)' = RowsOf(active)
  BY <1>2, SameRowsOf DEF RowsOf
<1>4. ~Reads(c)
  BY <1>2 DEF Reads
<1> QED
  BY <1>2, <1>3, <1>4 DEF ListOK, OfPage, Reads

LEMMA SaveListed ==
    ASSUME PrefTypes, ListInv, NEW x \in Names, HandleSubmit(x), ~crossed'
    PROVE  ListOK' /\ ListOK /\ calls = {}
<1>0. modal.editing \in Engines \cup {0}
  BY EngineFacts DEF PrefTypes, ScreenOK
<1>1. PICK n : n = [NewCall("save") EXCEPT !.about = modal.editing, !.name = x]
  OBVIOUS
<1>2. Made(n, "save", "sent", active, engine, modal.editing)
  BY <1>0, <1>1, SaveMade DEF PrefTypes
<1>3. calls = {} /\ ListOK /\ calls' = {n} /\ active' = active /\ rows' = rows /\ list' = list
  BY <1>1 DEF HandleSubmit, Overlaps, ListInv
<1>4. RowsOf(active)' = RowsOf(active)
  BY <1>3, SameRowsOf DEF RowsOf
<1>5. OfPage(n)'
  BY <1>2, <1>3 DEF Made, OfPage
<1> QED
  BY <1>3, <1>4, <1>5 DEF ListOK

LEMMA RemovalBegins ==
    ASSUME PrefTypes, NEW e \in Engines, HandleDelete(e), NEW w \in BOOLEAN, w = (ActiveSearchEngine = e)
    PROVE  \E n : Made(n, "delete", "sent", active, engine, e) /\ n.wasActive = w /\ calls' = calls \cup {n}
<1>1. PICK n : n = [NewCall("delete") EXCEPT !.about = e, !.wasActive = w]
  OBVIOUS
<1>2. Made(n, "delete", "sent", active, engine, e) /\ (n.wasActive <=> w)
  BY <1>1, DeletionMade DEF PrefTypes
<1>3. calls' = calls \cup {n}
  BY Zenon, <1>1 DEF HandleDelete
<1>4. n.wasActive \in BOOLEAN
  BY <1>2 DEF Made, Request
<1>5. n.wasActive = w
  BY <1>2, <1>4
<1> QED
  BY <1>2, <1>3, <1>5

LEMMA DeletionListed ==
    ASSUME PrefTypes, ListInv, NEW e \in Engines, HandleDelete(e), ~crossed'
    PROVE  ListOK' /\ ListOK /\ calls = {}
<1>1. PICK w \in BOOLEAN : w = (ActiveSearchEngine = e)
  OBVIOUS
<1>2. PICK n : Made(n, "delete", "sent", active, engine, e) /\ calls' = calls \cup {n}
  BY <1>1, RemovalBegins
<1>3. calls = {} /\ ListOK /\ calls' = {n} /\ active' = active /\ rows' = rows /\ list' = list
  BY <1>2 DEF HandleDelete, Overlaps, ListInv
<1>4. RowsOf(active)' = RowsOf(active)
  BY <1>3, SameRowsOf DEF RowsOf
<1>5. OfPage(n)'
  BY <1>2, <1>3 DEF Made, OfPage
<1> QED
  BY <1>3, <1>4, <1>5 DEF ListOK

(* A save: the rows as they were, or a refresh reads them.                 *)
Saves(c) ==
    \/ rows' = rows /\ calls' = calls \ {c}
    \/ /\ \A d \in calls' : d \in calls \ {c} \/ Made(d, "refresh", "sent", c.user, c.saw, 0)
       /\ calls \ {c} \subseteq calls'
       /\ c.mounted => \E d \in calls' : Made(d, "refresh", "sent", c.user, c.saw, 0)

LEMMA SaveDoes ==
    ASSUME PrefTypes, NEW c \in calls, SaveSearchEngine(c) PROVE Saves(c)
<1>1. c \in Request /\ ScreenOK
  BY DEF PrefTypes, Asks
<1>2. /\ \A n \in Refresh(c) : Made(n, "refresh", "sent", c.user, c.saw, 0)
      /\ c.mounted => \E n \in Refresh(c) : Made(n, "refresh", "sent", c.user, c.saw, 0)
  BY <1>1, RereadDoes
<1>3. \/ rows' = rows /\ calls' = calls \ {c}
      \/ calls' = (calls \ {c}) \cup Refresh(c)
  BY DEF SaveSearchEngine
<1> QED
  BY <1>2, <1>3 DEF Saves

LEMMA SavedListed ==
    ASSUME PrefTypes, ListOK, NEW c \in calls, SaveSearchEngine(c) PROVE ListOK'
<1>1. Asks(c) /\ c.op = "save" /\ c.at = "sent" /\ calls = {c} /\ OfPage(c) /\ Saves(c)
  BY SaveDoes DEF PrefTypes, Asks, SaveSearchEngine, ListOK
<1>2. active' = active /\ list' = list
  BY DEF SaveSearchEngine
<1>3. CASE rows' = rows /\ calls' = calls \ {c}
  <2>1. RowsOf(active)' = RowsOf(active)
    BY <1>2, <1>3, SameRowsOf DEF RowsOf
  <2>2. ~Reads(c)
    BY <1>1 DEF Reads
  <2> QED
    BY <1>1, <1>2, <1>3, <2>1, <2>2 DEF ListOK
<1>4. CASE /\ \A d \in calls' : d \in calls \ {c} \/ Made(d, "refresh", "sent", c.user, c.saw, 0)
           /\ c.mounted => \E d \in calls' : Made(d, "refresh", "sent", c.user, c.saw, 0)
  <2>1. \A d \in calls' : Made(d, "refresh", "sent", active, c.saw, 0)
    BY <1>1, <1>4 DEF OfPage
  <2>2. \E d \in calls' : Made(d, "refresh", "sent", active, c.saw, 0)
    BY <1>1, <1>4 DEF OfPage
  <2>3. \E d \in calls' : Reads(d)
    BY <2>2 DEF Made, Reads
  <2>4. \A d \in calls' : OfPage(d)' /\ d.op \notin {"save", "delete"}
    BY <1>2, <2>1 DEF Made, OfPage
  <2> QED
    BY <2>3, <2>4 DEF ListOK, Reads
<1> QED
  BY <1>1, <1>3, <1>4 DEF Saves

LEMMA DeletedListed ==
    ASSUME PrefTypes, ListOK, NEW c \in calls, DeleteSearchEngine(c) PROVE ListOK'
<1>1. Asks(c) /\ c.op = "delete" /\ calls = {c} /\ OfPage(c) /\ Deletes(c)
  BY RemovalDoes DEF PrefTypes, DeleteSearchEngine, ListOK
<1>2. active' = active /\ list' = list
  BY DEF DeleteSearchEngine
<1>3. c.user = active /\ c.mounted
  BY <1>1 DEF OfPage
<1>4. \A d \in calls' : \/ Made(d, "refresh", "sent", active, c.saw, 0)
                        \/ Made(d, "choose", "sent", active, 0, Bing)
                        \/ Made(d, "load", "sent", active, Bing, 0)
  BY <1>1, <1>3 DEF Deletes
<1>5. \E d \in calls' : Made(d, "refresh", "sent", active, c.saw, 0)
  BY <1>1, <1>3 DEF Deletes
<1>6. \E d \in calls' : Reads(d)
  BY <1>5 DEF Made, Reads
<1>7. \A d \in calls' : OfPage(d)' /\ d.op \notin {"save", "delete"}
  BY <1>2, <1>4 DEF Made, OfPage
<1> QED
  BY <1>6, <1>7 DEF ListOK, Reads

LEMMA SwitchListed ==
    ASSUME PrefTypes, NEW u \in Users, SwitchActiveUser(u), calls = {}
    PROVE  ListOK' /\ LoadBegun({}, u, engine)
<1>1. Loads({}, u, engine) /\ active' = u /\ ScreenOK /\ engine \in Engines
  BY DEF SwitchActiveUser, PrefTypes, ScreenOK
<1>2. LoadBegun({}, u, engine)
  BY <1>1, LoadsDoes
<1> QED
  BY <1>1, <1>2, AloneListed

LEMMA SyncListed ==
    ASSUME PrefTypes, NEW x \in Names, NEW d \in BOOLEAN, Synced(x, d), calls = {}
    PROVE  ListOK' /\ LoadBegun({}, active, engine)
<1>1. Loads({}, active, engine) /\ active' = active /\ ScreenOK /\ engine \in Engines /\ active \in Users
  BY DEF Synced, PrefTypes, ScreenOK
<1>2. LoadBegun({}, active, engine)
  BY <1>1, LoadsDoes
<1> QED
  BY <1>1, <1>2, AloneListed

LEMMA ReentryListed ==
    ASSUME PrefTypes, Reenter, calls = {}
    PROVE  ListOK' /\ LoadBegun({}, active, engine)
<1>1. PICK n : n = NewCall("load")
  OBVIOUS
<1>2. Made(n, "load", "sent", active, engine, 0)
  BY <1>1, NewMade DEF PrefTypes
<1>3. calls' = {n} /\ active' = active /\ loading' = TRUE /\ modal' = NoModal
  BY <1>1 DEF Reenter
<1>4. modal' \in Modals
  BY <1>3 DEF NoModal, Modals
<1>5. loading' \in BOOLEAN
  BY <1>3
<1>6. LoadBegun({}, active, engine)
  BY <1>2, <1>3, <1>4, <1>5 DEF LoadBegun
<1> QED
  BY <1>3, <1>6, AloneListed

(* A step after which nothing is crossed, of which nothing was, or alone.  *)
LEMMA StillListed ==
    ASSUME ListInv, UNCHANGED <<rows, active, list, calls, crossed>>
    PROVE  ListInv'
<1>1. RowsOf(active)' = RowsOf(active)
  BY SameRowsOf DEF RowsOf
<1> QED
  BY <1>1 DEF ListInv, ListOK, OfPage, Reads

Still == OfDialog \/ \E g \in Sections : Folds(g)

LEMMA StillSame ==
    ASSUME Still
    PROVE  UNCHANGED <<rows, default, active, engine, list, calls, chosen, raced, crossed>>
  BY DEF Still, OfDialog, OpenModal, CloseModal, CancelEdit, HandleEditClick, Folds

LEMMA ListStep ==
    ASSUME PrefTypes, ListInv, Next PROVE ListInv'
<1>1. CASE Still
  BY <1>1, StillSame, StillListed
<1>2. ASSUME ~crossed' PROVE ListOK' \/ Still
  <2>1. CASE Reenter
    BY <1>2, <2>1, ReentryListed DEF Reenter, Overlaps
  <2>2. ASSUME NEW u \in Users, SwitchActiveUser(u) PROVE ListOK'
    BY <1>2, <2>2, SwitchListed DEF SwitchActiveUser, Overlaps
  <2>3. ASSUME NEW e \in Engines, HandleActiveEngineChange(e) \/ HandleDelete(e) PROVE ListOK'
    BY <1>2, <2>3, ChangeListed, DeletionListed
  <2>4. ASSUME NEW n \in Names, HandleSubmit(n) PROVE ListOK'
    BY <1>2, <2>4, SaveListed
  <2>5. ASSUME NEW n \in Names, NEW d \in BOOLEAN, Synced(n, d) PROVE ListOK'
    BY <1>2, <2>5, SyncListed DEF Synced, Overlaps
  <2>6. CASE OfEnds
    BY <1>2, <2>6, EndListed
  <2>7. ASSUME NEW c \in calls, ReadEngines(c) PROVE ListOK'
    BY <1>2, <2>7, ReadListed
  <2>8. ASSUME NEW c \in calls,
               \/ ReadDefault(c) \/ LoadSearchEngines(c) \/ SetActiveSearchEngine(c)
               \/ SaveSearchEngine(c) \/ DeleteSearchEngine(c)
        PROVE  ListOK'
    <3>1. ListOK
      BY <1>2, <2>8 DEF ListInv, ReadDefault, LoadSearchEngines, SetActiveSearchEngine,
             SaveSearchEngine, DeleteSearchEngine
    <3> QED
      BY <2>8, <3>1, DefaultListed, LoadListed, ChoiceListed, SavedListed, DeletedListed
  <2> QED
    BY Zenon, <2>1, <2>2, <2>3, <2>4, <2>5, <2>6, <2>7, <2>8 DEF Next, Still, OfDialog, OfEnds
<1> QED
  BY <1>1, <1>2 DEF ListInv

(* The engine in use: unless something overlapped the last load or the     *)
(* last choice, it is the default, or one of the active user's or built    *)
(* in, or a load is still about to settle it.                              *)
Mine == Known(RowsOf(active))
Good == engine \in Mine /\ (default[active] # 0 => engine = default[active])
Settles(c) ==
    /\ c.op = "choose" => c.about = engine /\ engine \in Mine /\ \A d \in calls : d.at # "default"
    /\ c.at = "default" => c.about = default[active]
    /\ c.op = "delete" => (c.wasActive <=> engine = c.about)
EngineOK ==
    /\ engine \in Mine \/ \A c \in calls : Reads(c) => c.saw = engine
    /\ Good \/ \E c \in calls : Reads(c) \/ c.op = "choose"
    /\ \A c \in calls : Settles(c)
EngineInv == (~crossed /\ ~raced) => EngineOK

LEMMA MineIs ==
    ASSUME EnginesOK PROVE Mine = BuiltIn \cup {e \in Own : rows[e].live /\ rows[e].owner = active}
  BY RowsKnown DEF EnginesOK, Mine

LEMMA MineNext ==
    ASSUME rows' \in [Own -> Row]
    PROVE  Mine' = BuiltIn \cup {e \in Own : rows'[e].live /\ rows'[e].owner = active'}
<1> DEFINE R == RowsOf(active)'
<1>1. AreRows(R, rows', active')
  BY DEF RowsOf, AreRows
<1>2. Mine' = Known(R)
  BY DEF Mine
<1> HIDE DEF R
<1>3. Knows(R, rows', active')
  BY <1>1, KnownRows
<1> QED
  BY <1>2, <1>3 DEF Knows

LEMMA SameMine ==
    ASSUME rows' = rows, active' = active PROVE Mine' = Mine
  BY SameRowsOf DEF Mine, RowsOf

LEMMA BingIsMine ==
    ASSUME EnginesOK PROVE Bing \in Mine
  BY MineIs, EngineFacts

(* One load, which saw the engine in use.                                  *)
LEMMA AloneSettles ==
    ASSUME NEW u, LoadBegun({}, u, engine), active' = u, engine' = engine PROVE EngineOK'
<1>1. \A c \in calls' : Made(c, "load", "sent", u, engine, 0)
  BY DEF LoadBegun
<1>2. \E c \in calls' : Made(c, "load", "sent", u, engine, 0)
  BY DEF LoadBegun
<1>3. \E c \in calls' : Reads(c)
  BY <1>2 DEF Made, Reads
<1>4. \A c \in calls' : c.saw = engine' /\ c.op # "choose" /\ c.op # "delete" /\ c.at # "default"
  BY <1>1 DEF Made
<1> QED
  BY <1>3, <1>4 DEF EngineOK, Settles, Reads

LEMMA ReadSettles ==
    ASSUME PrefTypes, ListInv, EngineInv, NEW c \in calls, ReadEngines(c), ~crossed', ~raced'
    PROVE  EngineOK'
<1>0. PICK n : n = [c EXCEPT !.rows = RowsOf(c.user), !.at = "engines"]
  OBVIOUS
<1>1. Asks(c) /\ c \in Request /\ c.op \in {"load", "refresh"} /\ c.at = "sent"
  BY DEF PrefTypes, Asks, ReadEngines
<1>2. HasRead(n, c)
  BY <1>0, <1>1, EnginesReadDoes DEF PrefTypes
<1>3. calls' = (calls \ {c}) \cup {n} /\ UNCHANGED <<rows, default, active, engine, raced>>
  BY <1>0 DEF ReadEngines
<1>4. Mine' = Mine /\ (Good <=> Good')
  BY <1>3, SameMine DEF Good
<1>5. Reads(n) /\ Reads(c) /\ n.saw = c.saw /\ n.at = "engines" /\ n.op = c.op
  BY <1>1, <1>2 DEF Reads, HasRead, Keeps
<1>6. CASE ~crossed
  <2>1. EngineOK
    BY <1>3, <1>6 DEF EngineInv
  <2>2. \A d \in calls \ {c} : Settles(d)'
    BY <1>3, <1>4, <1>5, <2>1 DEF EngineOK, Settles
  <2>3. Settles(n)'
    BY <1>1, <1>5 DEF Settles
  <2>4. engine' \in Mine' \/ \A d \in calls' : Reads(d) => d.saw = engine'
    BY <1>3, <1>4, <1>5, <2>1 DEF EngineOK
  <2> QED
    BY <1>3, <1>5, <2>2, <2>3, <2>4 DEF EngineOK, Reads
<1>7. CASE calls = {c} /\ c.saw = engine
  <2>1. calls' = {n}
    BY <1>3, <1>7
  <2>2. Settles(n)'
    BY <1>1, <1>5 DEF Settles
  <2> QED
    BY <1>3, <1>5, <1>7, <2>1, <2>2 DEF EngineOK, Reads
<1> QED
  BY <1>6, <1>7 DEF ReadEngines

LEMMA DefaultSettles ==
    ASSUME PrefTypes, ListOK, EngineOK, NEW c \in calls, ReadDefault(c), ~raced' PROVE EngineOK'
<1>0. PICK n : n = [c EXCEPT !.about = default[c.user], !.at = "default"]
  OBVIOUS
<1>1. Asks(c) /\ c \in Request /\ c.op \in {"load", "refresh"} /\ c.at = "engines" /\ c.user = active
  BY DEF PrefTypes, Asks, ReadDefault, Request, ListOK, OfPage
<1>2. HasDefault(n, c)
  BY <1>0, <1>1, DefaultDoes DEF PrefTypes
<1>3. calls' = (calls \ {c}) \cup {n} /\ UNCHANGED <<rows, default, active, engine>>
  BY <1>0 DEF ReadDefault
<1>4. Mine' = Mine
  BY <1>3, SameMine
<1>5. /\ Reads(n) /\ Reads(c) /\ n.saw = c.saw /\ n.op = c.op /\ n.about = default[active]
  BY <1>1, <1>2 DEF Reads, HasDefault, Keeps
<1>6. \A d \in calls : d.op # "choose" /\ d.op # "delete"
  BY DEF ReadDefault
<1>7. \A d \in calls' : Settles(d)'
  BY <1>3, <1>5, <1>6 DEF EngineOK, Settles
<1>8. engine' \in Mine' \/ \A d \in calls' : Reads(d) => d.saw = engine'
  BY <1>3, <1>4, <1>5 DEF EngineOK
<1> QED
  BY <1>3, <1>5, <1>7, <1>8 DEF EngineOK, Reads

LEMMA LoadSettles ==
    ASSUME PrefTypes, ListOK, EngineOK, NEW c \in calls, LoadSearchEngines(c) PROVE EngineOK'
<1>1. Asks(c) /\ c.at = "default" /\ c.op \in {"load", "refresh"} /\ Reads(c) /\ EnginesOK /\ active \in Users
  BY DEF PrefTypes, Asks, LoadSearchEngines, Request, Reads, ScreenOK
<1>2. Left(c) /\ UNCHANGED <<active, rows, default>>
  BY LoadDoes DEF LoadSearchEngines
<1>3. c.rows = RowsOf(active) /\ \A d \in calls : d.op \notin {"save", "delete"}
  BY <1>1 DEF ListOK, OfPage
<1>4. c.about = default[active] /\ \A d \in calls : d.op # "choose"
  BY <1>1 DEF EngineOK, Settles
<1>5. Mine' = Mine /\ Mine = BuiltIn \cup {e \in Own : rows[e].live /\ rows[e].owner = active}
  BY <1>1, <1>2, SameMine, MineIs
<1>6. InUse(c) \in Mine /\ (default[active] # 0 => InUse(c) = default[active])
  <2>1. CASE c.about # 0
    BY <1>1, <1>4, <1>5, <2>1 DEF InUse, EnginesOK
  <2>2. CASE c.about = 0 /\ c.saw \notin Known(c.rows)
    BY <1>1, <1>4, <2>2, BingIsMine DEF InUse
  <2>3. CASE c.about = 0 /\ c.saw \in Known(c.rows)
    <3>1. c.saw \in Mine /\ InUse(c) = engine
      BY <1>3, <2>3 DEF Mine, InUse
    <3> QED
      BY <1>1, <1>4, <2>3, <3>1 DEF EngineOK
  <2> QED
    BY <2>1, <2>2, <2>3
<1>7. Good'
  BY <1>2, <1>5, <1>6 DEF Good, Left
<1>8. \A d \in calls' : /\ d.op \notin {"choose", "delete"}
                        /\ d.at = "default" => d.about = default[active]
  BY <1>2, <1>3, <1>4 DEF Left, Made, EngineOK, Settles
<1> QED
  BY <1>2, <1>7, <1>8 DEF EngineOK, Settles, Good

LEMMA ChangeDoes ==
    ASSUME PrefTypes, NEW e \in Engines, HandleActiveEngineChange(e), calls = {}, ListOK
    PROVE  /\ \A d \in calls' : Made(d, "choose", "sent", active, 0, e) \/ Made(d, "load", "sent", active, e, 0)
           /\ \E d \in calls' : Made(d, "choose", "sent", active, 0, e)
           /\ engine' = e /\ e \in Mine /\ Mine' = Mine
<1>0. ScreenOK /\ active \in Users
  BY DEF PrefTypes, ScreenOK
<1>1. PICK n : n = [NewCall("choose") EXCEPT !.about = e, !.saw = 0]
  OBVIOUS
<1>2. Made(n, "choose", "sent", active, 0, e)
  BY <1>0, <1>1, ChoiceMade
<1>3. Uses({n}, e) /\ active' = active /\ rows' = rows /\ e \in Known(list)
  BY <1>1 DEF HandleActiveEngineChange
<1>4. Using({n}, e)
  BY <1>0, <1>3, UsesDoes
<1>5. list = RowsOf(active)
  BY DEF ListOK
<1> QED
  BY <1>2, <1>3, <1>4, <1>5, SameMine DEF Using, Mine

LEMMA ChangeSettles ==
    ASSUME PrefTypes, ListInv, NEW e \in Engines, HandleActiveEngineChange(e), ~crossed' PROVE EngineOK'
<1>1. calls = {} /\ ListOK
  BY ChangeListed
<1>2. /\ \A d \in calls' : Made(d, "choose", "sent", active, 0, e) \/ Made(d, "load", "sent", active, e, 0)
      /\ \E d \in calls' : Made(d, "choose", "sent", active, 0, e)
      /\ engine' = e /\ e \in Mine /\ Mine' = Mine
  BY <1>1, ChangeDoes
<1>3. \A d \in calls' : /\ d.op # "delete" /\ d.at # "default"
                        /\ d.op = "choose" => d.about = e
  BY <1>2 DEF Made
<1>4. \E d \in calls' : d.op = "choose"
  BY <1>2 DEF Made
<1> QED
  BY <1>2, <1>3, <1>4 DEF EngineOK, Settles

LEMMA ChoiceSettles ==
    ASSUME PrefTypes, ListOK, EngineOK, NEW c \in calls, SetActiveSearchEngine(c) PROVE EngineOK'
<1>1. /\ c.op = "choose" /\ c.user = active /\ c.about = engine /\ engine \in Mine
      /\ \A d \in calls : d.at # "default"
      /\ EnginesOK /\ active \in Users
  BY DEF SetActiveSearchEngine, ListOK, OfPage, EngineOK, Settles, PrefTypes, ScreenOK
<1>2. calls' = calls \ {c} /\ UNCHANGED <<rows, active, engine>>
      /\ default' = [default EXCEPT ![c.user] = NewDefault(c)]
  BY DEF SetActiveSearchEngine
<1>3. Mine' = Mine /\ Mine = BuiltIn \cup {e \in Own : rows[e].live /\ rows[e].owner = active}
  BY <1>1, <1>2, SameMine, MineIs
<1>4. default'[active] = NewDefault(c)
  BY <1>1, <1>2 DEF EnginesOK
<1>5. NewDefault(c) # 0 => NewDefault(c) = engine
  BY <1>1 DEF NewDefault
<1>6. Good'
  BY <1>1, <1>2, <1>3, <1>4, <1>5 DEF Good
<1>7. \A d \in calls' : Settles(d)'
  BY <1>1, <1>2, <1>3 DEF Settles, EngineOK
<1> QED
  BY <1>6, <1>7 DEF EngineOK, Good

LEMMA EndSettles ==
    ASSUME PrefTypes, ListInv, EngineInv, OfEnds, ~crossed', ~raced' PROVE EngineOK'
<1>1. PICK c \in calls : LoadEnds(c) \/ CallFails(c)
  BY DEF OfEnds
<1>2. /\ calls' = calls \ {c} /\ UNCHANGED <<rows, default, active, engine>>
      /\ c.at = "loaded" \/ (c.op = "save" /\ EngineOK)
  BY <1>1 DEF LoadEnds, CallFails, ListInv, EngineInv
<1>3. EngineOK /\ c.op # "choose" /\ ~Reads(c)
  BY <1>1, <1>2 DEF LoadEnds, CallFails, EngineInv, PrefTypes, Asks, Reads
<1>4. Mine' = Mine /\ (Good <=> Good')
  BY <1>2, SameMine DEF Good
<1>5. \A d \in calls' : Settles(d)'
  BY <1>2, <1>3, <1>4 DEF EngineOK, Settles
<1> QED
  BY <1>2, <1>3, <1>4, <1>5 DEF EngineOK, Reads

LEMMA SaveSettles ==
    ASSUME PrefTypes, ListInv, EngineInv, NEW x \in Names, HandleSubmit(x), ~crossed', ~raced'
    PROVE  EngineOK'
<1>0. modal.editing \in Engines \cup {0}
  BY EngineFacts DEF PrefTypes, ScreenOK
<1>1. PICK n : n = [NewCall("save") EXCEPT !.about = modal.editing, !.name = x]
  OBVIOUS
<1>2. Made(n, "save", "sent", active, engine, modal.editing)
  BY <1>0, <1>1, SaveMade DEF PrefTypes
<1>3. calls = {} /\ EngineOK /\ calls' = {n} /\ UNCHANGED <<rows, default, active, engine>>
  BY <1>1 DEF HandleSubmit, Overlaps, EngineInv
<1>4. Mine' = Mine /\ (Good <=> Good') /\ Good
  BY <1>3, SameMine DEF Good, EngineOK
<1>5. n.op = "save" /\ n.at = "sent"
  BY <1>2 DEF Made
<1> QED
  BY <1>3, <1>4, <1>5 DEF EngineOK, Settles, Reads, Good

LEMMA DeletionSettles ==
    ASSUME PrefTypes, ListInv, EngineInv, NEW e \in Engines, HandleDelete(e), ~crossed', ~raced'
    PROVE  EngineOK'
<1>1. PICK w \in BOOLEAN : w = (ActiveSearchEngine = e)
  OBVIOUS
<1>2. PICK n : Made(n, "delete", "sent", active, engine, e) /\ n.wasActive = w /\ calls' = calls \cup {n}
  BY <1>1, RemovalBegins
<1>3. calls = {} /\ ListOK /\ EngineOK /\ calls' = {n} /\ UNCHANGED <<rows, default, active, engine>>
  BY <1>2 DEF HandleDelete, Overlaps, ListInv, EngineInv
<1>4. Mine' = Mine /\ (Good <=> Good') /\ Good
  BY <1>3, SameMine DEF Good, EngineOK
<1>5. list = RowsOf(active)
  BY <1>3 DEF ListOK
<1>6. ActiveSearchEngine = engine
  BY <1>4, <1>5 DEF Good, Mine, ActiveSearchEngine
<1>7. n.op = "delete" /\ n.at = "sent" /\ n.about = e
  BY <1>2 DEF Made
<1>8. n.wasActive <=> engine = e
  BY <1>1, <1>2, <1>6
<1>9. Settles(n)'
  BY <1>3, <1>7, <1>8 DEF Settles
<1> QED
  BY <1>3, <1>4, <1>7, <1>9 DEF EngineOK, Reads, Good

LEMMA SavedSettles ==
    ASSUME PrefTypes, ListOK, EngineOK, NEW c \in calls, SaveSearchEngine(c) PROVE EngineOK'
<1>1. /\ Asks(c) /\ c.op = "save" /\ c.at = "sent" /\ calls = {c} /\ OfPage(c) /\ Saves(c) /\ EnginesOK
  BY SaveDoes DEF PrefTypes, Asks, SaveSearchEngine, ListOK
<1>2. UNCHANGED <<default, active, engine>>
  BY DEF SaveSearchEngine
<1>3. Good
  BY <1>1 DEF EngineOK, Reads
<1>4. rows' = rows \/ (\E k \in Own : RowIn(k, c.user, c.name)) \/ SameRows
  BY <1>1, SavedRows
<1>5. Mine \subseteq Mine'
  <2>1. Mine = BuiltIn \cup {e \in Own : rows[e].live /\ rows[e].owner = active}
    BY <1>1, MineIs
  <2>2. rows' \in [Own -> Row]
    BY <1>1, <1>4 DEF EnginesOK, RowIn, SameRows
  <2>3. Mine' = BuiltIn \cup {e \in Own : rows'[e].live /\ rows'[e].owner = active'}
    BY <2>2, MineNext
  <2>4. \A e \in Own : rows[e].live => rows'[e].live /\ rows'[e].owner = rows[e].owner
    BY <1>4 DEF RowIn, SameRows
  <2> QED
    BY <1>2, <2>1, <2>3, <2>4
<1>6. Good'
  BY <1>2, <1>3, <1>5 DEF Good
<1>7. \A d \in calls' : d.op = "refresh" /\ d.at = "sent"
  BY <1>1 DEF Saves, Made
<1> QED
  BY <1>6, <1>7 DEF EngineOK, Settles, Good

LEMMA DeletedSettles ==
    ASSUME PrefTypes, ListOK, EngineOK, NEW c \in calls, DeleteSearchEngine(c) PROVE EngineOK'
<1>1. /\ Asks(c) /\ c.op = "delete" /\ c.at = "sent" /\ calls = {c} /\ OfPage(c) /\ Deletes(c) /\ EnginesOK
      /\ c.about \in Own /\ active \in Users
  BY RemovalDoes DEF PrefTypes, Asks, DeleteSearchEngine, ListOK, ScreenOK
<1>2. active' = active /\ c.user = active /\ c.mounted /\ (c.wasActive <=> engine = c.about)
  BY <1>1 DEF DeleteSearchEngine, OfPage, EngineOK, Settles
<1>3. Good
  BY <1>1 DEF EngineOK, Reads
<1>4. Mine = BuiltIn \cup {e \in Own : rows[e].live /\ rows[e].owner = active}
  BY <1>1, MineIs
<1>5. Mine' = BuiltIn \cup {e \in Own : rows'[e].live /\ rows'[e].owner = active}
  BY <1>1, <1>2, MineNext DEF Deletes, RowOut
<1>6. engine' \in Mine' /\ (c.wasActive => engine' = Bing)
  <2>1. CASE c.wasActive
    BY <1>1, <1>2, <1>5, <2>1, EngineFacts DEF Deletes
  <2>2. CASE ~c.wasActive
    <3>1. engine' = engine /\ engine # c.about
      BY <1>1, <1>2, <2>2 DEF Deletes
    <3> QED
      BY <1>1, <1>3, <1>4, <1>5, <2>2, <3>1 DEF Good, Deletes, RowOut
  <2> QED
    BY <2>1, <2>2
<1>7. \A d \in calls' : /\ d.at = "sent" /\ d.op # "delete"
                        /\ d.op = "choose" => c.wasActive /\ d.about = Bing
  BY <1>1 DEF Deletes, Made
<1>8. \E d \in calls' : Reads(d)
  BY <1>1, <1>2 DEF Deletes, Made, Reads
<1> QED
  BY <1>6, <1>7, <1>8 DEF EngineOK, Settles

LEMMA EngineStep ==
    ASSUME PrefTypes, ListInv, EngineInv, Next PROVE EngineInv'
<1>1. CASE Still
  <2>1. UNCHANGED <<rows, default, active, engine, list, calls, chosen, raced, crossed>>
    BY <1>1, StillSame
  <2>2. Mine' = Mine
    BY <2>1, SameMine
  <2> QED
    BY <2>1, <2>2 DEF EngineInv, EngineOK, Good, Settles, Reads
<1>2. ASSUME ~crossed', ~raced' PROVE EngineOK' \/ Still
  <2>1. CASE Reenter
    BY <1>2, <2>1, ReentryListed, AloneSettles DEF Reenter, Overlaps
  <2>2. ASSUME NEW u \in Users, SwitchActiveUser(u) PROVE EngineOK'
    BY <1>2, <2>2, SwitchListed, AloneSettles DEF SwitchActiveUser, Overlaps
  <2>3. ASSUME NEW e \in Engines, HandleActiveEngineChange(e) \/ HandleDelete(e) PROVE EngineOK'
    BY <1>2, <2>3, ChangeSettles, DeletionSettles
  <2>4. ASSUME NEW n \in Names, HandleSubmit(n) PROVE EngineOK'
    BY <1>2, <2>4, SaveSettles
  <2>5. ASSUME NEW n \in Names, NEW d \in BOOLEAN, Synced(n, d) PROVE EngineOK'
    BY <1>2, <2>5, SyncListed, AloneSettles DEF Synced, Overlaps
  <2>6. CASE OfEnds
    BY <1>2, <2>6, EndSettles
  <2>7. ASSUME NEW c \in calls, ReadEngines(c) PROVE EngineOK'
    BY <1>2, <2>7, ReadSettles
  <2>8. ASSUME NEW c \in calls,
               \/ ReadDefault(c) \/ LoadSearchEngines(c) \/ SetActiveSearchEngine(c)
               \/ SaveSearchEngine(c) \/ DeleteSearchEngine(c)
        PROVE  EngineOK'
    <3>1. ListOK /\ EngineOK
      BY <1>2, <2>8 DEF ListInv, EngineInv, ReadDefault, LoadSearchEngines, SetActiveSearchEngine,
             SaveSearchEngine, DeleteSearchEngine
    <3> QED
      BY <1>2, <2>8, <3>1, DefaultSettles, LoadSettles, ChoiceSettles, SavedSettles, DeletedSettles
  <2> QED
    BY Zenon, <2>1, <2>2, <2>3, <2>4, <2>5, <2>6, <2>7, <2>8 DEF Next, Still, OfDialog, OfEnds
<1> QED
  BY <1>1, <1>2 DEF EngineInv


(* The choice: unless something overlapped it, the engine in use is the    *)
(* one chosen last, every call is of the active user and has seen it, and  *)
(* it is the default, or is about to become it, if it is not built in.     *)
OfOwn(e) == IF e \in Own THEN e ELSE 0
OfChoice(c) ==
    /\ c.user = active
    /\ (Reads(c) \/ c.op \in {"save", "delete"}) => c.saw = chosen
    /\ c.op = "choose" => c.about = chosen
    /\ c.at \in {"engines", "default"} => chosen \in Known(c.rows)
    /\ c.at = "default" => c.about = OfOwn(chosen)
    /\ (c.op = "delete" /\ c.wasActive) => c.about = chosen
ChoiceOK ==
    /\ engine = chosen /\ chosen \in Mine
    /\ \A c \in calls : OfChoice(c)
    /\ (\A c \in calls : c.op # "choose") => default[active] = OfOwn(chosen)
ChoiceInv == (~raced /\ chosen # 0) => ChoiceOK

LEMMA ReadKeeps ==
    ASSUME PrefTypes, ChoiceOK, NEW c \in calls, ReadEngines(c) PROVE ChoiceOK'
<1>0. PICK n : n = [c EXCEPT !.rows = RowsOf(c.user), !.at = "engines"]
  OBVIOUS
<1>1. Asks(c) /\ c \in Request /\ c.op \in {"load", "refresh"} /\ c.at = "sent"
  BY DEF PrefTypes, Asks, ReadEngines
<1>2. HasRead(n, c)
  BY <1>0, <1>1, EnginesReadDoes DEF PrefTypes
<1>3. calls' = (calls \ {c}) \cup {n} /\ UNCHANGED <<rows, default, active, engine, chosen>>
  BY <1>0 DEF ReadEngines
<1>4. Mine' = Mine
  BY <1>3, SameMine
<1>5. c.user = active /\ c.saw = chosen
  BY <1>1 DEF ChoiceOK, OfChoice, Reads
<1>6. n.op = c.op /\ n.user = active /\ n.saw = chosen /\ n.at = "engines" /\ n.rows = RowsOf(active)
  BY <1>2, <1>5 DEF HasRead, Keeps
<1>7. OfChoice(n)'
  BY <1>1, <1>3, <1>6 DEF OfChoice, ChoiceOK, Mine
<1>8. \A d \in calls \ {c} : OfChoice(d)'
  BY <1>3 DEF ChoiceOK, OfChoice, Reads
<1> QED
  BY <1>1, <1>3, <1>4, <1>6, <1>7, <1>8 DEF ChoiceOK

LEMMA DefaultKeeps ==
    ASSUME PrefTypes, ChoiceOK, NEW c \in calls, ReadDefault(c), ~raced' PROVE ChoiceOK'
<1>0. PICK n : n = [c EXCEPT !.about = default[c.user], !.at = "default"]
  OBVIOUS
<1>1. Asks(c) /\ c \in Request /\ c.op \in {"load", "refresh"} /\ c.at = "engines"
  BY DEF PrefTypes, Asks, ReadDefault, Request
<1>2. HasDefault(n, c)
  BY <1>0, <1>1, DefaultDoes DEF PrefTypes
<1>3. calls' = (calls \ {c}) \cup {n} /\ UNCHANGED <<rows, default, active, engine, chosen>>
  BY <1>0 DEF ReadDefault
<1>4. Mine' = Mine
  BY <1>3, SameMine
<1>5. c.user = active /\ c.saw = chosen /\ chosen \in Known(c.rows)
  BY <1>1 DEF ChoiceOK, OfChoice, Reads
<1>6. default[active] = OfOwn(chosen)
  BY DEF ReadDefault, ChoiceOK
<1>7. /\ n.op = c.op /\ n.user = active /\ n.saw = chosen /\ n.at = "default" /\ n.rows = c.rows
      /\ n.about = OfOwn(chosen)
  BY <1>2, <1>5, <1>6 DEF HasDefault, Keeps
<1>8. OfChoice(n)'
  BY <1>1, <1>3, <1>5, <1>7 DEF OfChoice
<1>9. \A d \in calls \ {c} : OfChoice(d)'
  BY <1>3 DEF ChoiceOK, OfChoice, Reads
<1> QED
  BY <1>3, <1>4, <1>6, <1>8, <1>9 DEF ChoiceOK

LEMMA LoadKeeps ==
    ASSUME PrefTypes, ChoiceOK, chosen # 0, NEW c \in calls, LoadSearchEngines(c) PROVE ChoiceOK'
<1>1. Asks(c) /\ c.at = "default" /\ c.op \in {"load", "refresh"} /\ Reads(c)
  BY DEF PrefTypes, Asks, LoadSearchEngines, Request, Reads
<1>2. Left(c) /\ UNCHANGED <<active, rows, default, chosen>>
  BY LoadDoes DEF LoadSearchEngines
<1>3. c.saw = chosen /\ chosen \in Known(c.rows) /\ c.about = OfOwn(chosen) /\ engine = chosen
  BY <1>1 DEF ChoiceOK, OfChoice
<1>4. InUse(c) = chosen
  BY <1>3 DEF InUse, OfOwn
<1>5. Mine' = Mine
  BY <1>2, SameMine
<1>6. \A d \in calls' : OfChoice(d)'
  BY <1>2, <1>4 DEF Left, Made, ChoiceOK, OfChoice, Reads
<1>7. (\A d \in calls' : d.op # "choose") => \A d \in calls : d.op # "choose"
  BY <1>1, <1>2 DEF Left
<1> QED
  BY <1>2, <1>3, <1>4, <1>5, <1>6, <1>7 DEF ChoiceOK, Left

LEMMA ChangeKeeps ==
    ASSUME PrefTypes, ListInv, NEW e \in Engines, HandleActiveEngineChange(e), ~raced' PROVE ChoiceOK'
<1>1. calls = {} /\ ListOK
  BY DEF HandleActiveEngineChange, Overlaps, ListInv
<1>2. /\ \A d \in calls' : Made(d, "choose", "sent", active, 0, e) \/ Made(d, "load", "sent", active, e, 0)
      /\ \E d \in calls' : Made(d, "choose", "sent", active, 0, e)
      /\ engine' = e /\ e \in Mine /\ Mine' = Mine
  BY <1>1, ChangeDoes
<1>3. chosen' = e /\ active' = active
  BY DEF HandleActiveEngineChange
<1>4. \A d \in calls' : OfChoice(d)'
  BY <1>2, <1>3 DEF Made, OfChoice, Reads
<1>5. \E d \in calls' : d.op = "choose"
  BY <1>2 DEF Made
<1> QED
  BY <1>2, <1>3, <1>4, <1>5 DEF ChoiceOK

LEMMA ChoiceKeeps ==
    ASSUME PrefTypes, ChoiceOK, NEW c \in calls, SetActiveSearchEngine(c) PROVE ChoiceOK'
<1>1. c.user = active /\ c.about = chosen /\ chosen \in Mine /\ EnginesOK /\ active \in Users
  BY DEF SetActiveSearchEngine, ChoiceOK, OfChoice, PrefTypes, ScreenOK
<1>2. calls' = calls \ {c} /\ UNCHANGED <<rows, active, engine, chosen>>
      /\ default' = [default EXCEPT ![c.user] = NewDefault(c)]
  BY DEF SetActiveSearchEngine
<1>3. Mine' = Mine /\ Mine = BuiltIn \cup {e \in Own : rows[e].live /\ rows[e].owner = active}
  BY <1>1, <1>2, SameMine, MineIs
<1>4. default'[active] = NewDefault(c)
  BY <1>1, <1>2 DEF EnginesOK
<1>5. NewDefault(c) = OfOwn(chosen)
  BY <1>1, <1>3, EngineFacts DEF NewDefault, OfOwn
<1>6. \A d \in calls' : OfChoice(d)'
  BY <1>2 DEF OfChoice, ChoiceOK, Reads
<1> QED
  BY <1>2, <1>3, <1>4, <1>5, <1>6 DEF ChoiceOK

LEMMA EndKeeps ==
    ASSUME PrefTypes, ChoiceOK, OfEnds, ~raced' PROVE ChoiceOK'
<1>1. PICK c \in calls : LoadEnds(c) \/ CallFails(c)
  BY DEF OfEnds
<1>2. /\ calls' = calls \ {c} /\ UNCHANGED <<rows, default, active, engine, chosen>>
      /\ c.op # "choose"
  BY <1>1 DEF LoadEnds, CallFails, PrefTypes, Asks
<1>3. Mine' = Mine
  BY <1>2, SameMine
<1>4. \A d \in calls' : OfChoice(d)'
  BY <1>2 DEF OfChoice, ChoiceOK, Reads
<1> QED
  BY <1>2, <1>3, <1>4 DEF ChoiceOK

LEMMA SaveKeeps ==
    ASSUME PrefTypes, ChoiceOK, NEW x \in Names, HandleSubmit(x) PROVE ChoiceOK'
<1>0. modal.editing \in Engines \cup {0}
  BY EngineFacts DEF PrefTypes, ScreenOK
<1>1. PICK n : n = [NewCall("save") EXCEPT !.about = modal.editing, !.name = x]
  OBVIOUS
<1>2. Made(n, "save", "sent", active, engine, modal.editing)
  BY <1>0, <1>1, SaveMade DEF PrefTypes
<1>3. calls' = calls \cup {n} /\ UNCHANGED <<rows, default, active, engine, chosen>>
  BY <1>1 DEF HandleSubmit
<1>4. Mine' = Mine
  BY <1>3, SameMine
<1>5. OfChoice(n)'
  BY <1>2, <1>3 DEF Made, OfChoice, ChoiceOK
<1>6. \A d \in calls : OfChoice(d)'
  BY <1>3 DEF OfChoice, ChoiceOK, Reads
<1> QED
  BY <1>3, <1>4, <1>5, <1>6 DEF ChoiceOK

LEMMA DeletionKeeps ==
    ASSUME PrefTypes, ChoiceOK, NEW e \in Engines, HandleDelete(e) PROVE ChoiceOK'
<1>1. PICK w \in BOOLEAN : w = (ActiveSearchEngine = e)
  OBVIOUS
<1>2. PICK n : Made(n, "delete", "sent", active, engine, e) /\ n.wasActive = w /\ calls' = calls \cup {n}
  BY <1>1, RemovalBegins
<1>3. UNCHANGED <<rows, default, active, engine, chosen>> /\ e \notin BuiltIn
  BY DEF HandleDelete
<1>4. Mine' = Mine
  BY <1>3, SameMine
<1>5. n.wasActive => e = engine
  BY <1>1, <1>2, <1>3, EngineFacts DEF ActiveSearchEngine
<1>6. OfChoice(n)'
  BY <1>2, <1>3, <1>5 DEF Made, OfChoice, ChoiceOK
<1>7. \A d \in calls : OfChoice(d)'
  BY <1>3 DEF OfChoice, ChoiceOK, Reads
<1> QED
  BY <1>2, <1>3, <1>4, <1>6, <1>7 DEF ChoiceOK

(* Rows come and change their names: none of a user's goes.                *)
LEMMA MineStays ==
    ASSUME EnginesOK, active' = active, NEW u, NEW x,
           rows' = rows \/ (\E k \in Own : RowIn(k, u, x)) \/ SameRows
    PROVE  Mine \subseteq Mine'
<1>1. Mine = BuiltIn \cup {e \in Own : rows[e].live /\ rows[e].owner = active}
  BY MineIs
<1>2. rows' \in [Own -> Row]
  BY DEF EnginesOK, RowIn, SameRows
<1>3. Mine' = BuiltIn \cup {e \in Own : rows'[e].live /\ rows'[e].owner = active'}
  BY <1>2, MineNext
<1>4. \A e \in Own : rows[e].live => rows'[e].live /\ rows'[e].owner = rows[e].owner
  BY DEF RowIn, SameRows
<1> QED
  BY <1>1, <1>3, <1>4

LEMMA SavedKeeps ==
    ASSUME PrefTypes, ChoiceOK, NEW c \in calls, SaveSearchEngine(c) PROVE ChoiceOK'
<1>1. Asks(c) /\ c.op = "save" /\ Saves(c) /\ EnginesOK /\ c.user = active /\ c.saw = chosen
  BY SaveDoes DEF PrefTypes, SaveSearchEngine, ChoiceOK, OfChoice
<1>2. UNCHANGED <<default, active, engine, chosen>>
  BY DEF SaveSearchEngine
<1>3. rows' = rows \/ (\E k \in Own : RowIn(k, c.user, c.name)) \/ SameRows
  BY <1>1, SavedRows
<1>4. Mine \subseteq Mine'
  BY <1>1, <1>2, <1>3, MineStays
<1>5. \A d \in calls' : d \in calls \ {c} \/ Made(d, "refresh", "sent", active, chosen, 0)
  BY <1>1 DEF Saves
<1>6. \A d \in calls' : OfChoice(d)'
  BY <1>2, <1>5 DEF Made, OfChoice, ChoiceOK, Reads
<1>7. (\A d \in calls' : d.op # "choose") => \A d \in calls : d.op # "choose"
  BY <1>1 DEF Saves
<1> QED
  BY <1>2, <1>4, <1>6, <1>7 DEF ChoiceOK

LEMMA DeletedKeeps ==
    ASSUME PrefTypes, ChoiceOK, NEW c \in calls, DeleteSearchEngine(c), chosen' # 0 PROVE ChoiceOK'
<1>1. /\ Asks(c) /\ c.op = "delete" /\ Deletes(c) /\ EnginesOK /\ c.about \in Own /\ active \in Users
      /\ c.user = active /\ c.saw = chosen /\ (c.wasActive => c.about = chosen)
  BY RemovalDoes DEF PrefTypes, Asks, DeleteSearchEngine, ScreenOK, ChoiceOK, OfChoice
<1>2. active' = active /\ chosen' = chosen /\ chosen # c.about
  BY DEF DeleteSearchEngine
<1>3. ~c.wasActive /\ engine' = engine
  BY <1>1, <1>2 DEF Deletes
<1>4. Mine = BuiltIn \cup {e \in Own : rows[e].live /\ rows[e].owner = active}
  BY <1>1, MineIs
<1>5. Mine' = BuiltIn \cup {e \in Own : rows'[e].live /\ rows'[e].owner = active}
  BY <1>1, <1>2, MineNext DEF Deletes, RowOut
<1>6. chosen \in Mine'
  BY <1>1, <1>2, <1>4, <1>5 DEF ChoiceOK, Deletes, RowOut
<1>7. \A d \in calls' : d \in calls \ {c} \/ Made(d, "refresh", "sent", active, chosen, 0)
  BY <1>1, <1>3 DEF Deletes
<1>8. \A d \in calls' : OfChoice(d)'
  BY <1>2, <1>7 DEF Made, OfChoice, ChoiceOK, Reads
<1>9. ASSUME \A d \in calls' : d.op # "choose" PROVE \A d \in calls : d.op # "choose"
  <2>1. calls \ {c} \subseteq calls'
    BY DEF DeleteSearchEngine, Uses, Loads
  <2> QED
    BY <1>1, <1>9, <2>1
<1>10. default[active] = OfOwn(chosen) => default'[active] = OfOwn(chosen)
  BY <1>1, <1>2, EngineFacts DEF Deletes, OfOwn
<1> QED
  BY <1>2, <1>3, <1>6, <1>8, <1>9, <1>10 DEF ChoiceOK

(* One load, which saw the engine in use, of the user who chose it.        *)
LEMMA AloneKeeps ==
    ASSUME ChoiceOK, calls = {}, LoadBegun({}, active, engine), Mine \subseteq Mine',
           UNCHANGED <<default, active, engine, chosen>>
    PROVE  ChoiceOK'
<1>1. \A c \in calls' : Made(c, "load", "sent", active, engine, 0)
  BY DEF LoadBegun
<1>2. \A c \in calls' : OfChoice(c)'
  BY <1>1 DEF Made, OfChoice, ChoiceOK
<1> QED
  BY <1>2 DEF ChoiceOK

LEMMA ChoiceStep ==
    ASSUME PrefTypes, ListInv, ChoiceInv, Next PROVE ChoiceInv'
<1>1. CASE Still
  <2>1. UNCHANGED <<rows, default, active, engine, list, calls, chosen, raced, crossed>>
    BY <1>1, StillSame
  <2>2. Mine' = Mine
    BY <2>1, SameMine
  <2> QED
    BY <2>1, <2>2 DEF ChoiceInv, ChoiceOK, OfChoice, Reads
<1>2. ASSUME ~raced', chosen' # 0 PROVE ChoiceOK' \/ Still
  <2>1. CASE Reenter
    <3>1. calls = {} /\ ChoiceOK /\ rows' = rows /\ UNCHANGED <<default, active, engine, chosen>>
      BY <1>2, <2>1 DEF Reenter, Overlaps, ChoiceInv
    <3>2. Mine' = Mine
      BY <3>1, SameMine
    <3> QED
      BY <2>1, <3>1, <3>2, ReentryListed, AloneKeeps
  <2>2. ASSUME NEW u \in Users, SwitchActiveUser(u) PROVE FALSE
    BY <1>2, <2>2 DEF SwitchActiveUser
  <2>3. ASSUME NEW e \in Engines, HandleActiveEngineChange(e) PROVE ChoiceOK'
    BY <1>2, <2>3, ChangeKeeps
  <2>4. ASSUME NEW e \in Engines, HandleDelete(e) PROVE ChoiceOK'
    <3>1. ChoiceOK
      BY <1>2, <2>4 DEF HandleDelete, ChoiceInv
    <3> QED
      BY <2>4, <3>1, DeletionKeeps
  <2>5. ASSUME NEW n \in Names, HandleSubmit(n) PROVE ChoiceOK'
    <3>1. ChoiceOK
      BY <1>2, <2>5 DEF HandleSubmit, ChoiceInv
    <3> QED
      BY <2>5, <3>1, SaveKeeps
  <2>6. ASSUME NEW n \in Names, NEW d \in BOOLEAN, Synced(n, d) PROVE ChoiceOK'
    <3>1. calls = {} /\ ChoiceOK /\ ~d /\ EnginesOK /\ active \in Users
      BY <1>2, <2>6 DEF Synced, Overlaps, ChoiceInv, PrefTypes, ScreenOK
    <3>2. UNCHANGED <<active, engine, chosen>>
      BY <2>6, <3>1 DEF Synced
    <3>3. default' = default
      BY <2>6, <3>1 DEF Synced, EnginesOK
    <3>4. RowIn(Min(Free), active, n)
      BY <2>6, <3>1, EngineWritten DEF Synced
    <3>5. Mine \subseteq Mine'
      <4>1. \E k \in Own : RowIn(k, active, n)
        BY <3>4 DEF RowIn
      <4> QED
        BY <3>1, <3>2, <4>1, MineStays
    <3>6. LoadBegun({}, active, engine)
      BY <2>6, <3>1, SyncListed
    <3> QED
      BY <3>1, <3>2, <3>3, <3>5, <3>6, AloneKeeps
  <2>7. CASE OfEnds
    <3>0. PICK c \in calls : LoadEnds(c) \/ CallFails(c)
      BY <2>7 DEF OfEnds
    <3>1. ChoiceOK
      <4>1. CASE LoadEnds(c)
        BY <1>2, <4>1 DEF LoadEnds, ChoiceInv
      <4>2. CASE CallFails(c)
        BY <1>2, <4>2 DEF CallFails, ChoiceInv
      <4> QED
        BY <3>0, <4>1, <4>2
    <3> QED
      BY <1>2, <2>7, <3>1, EndKeeps
  <2>8. ASSUME NEW c \in calls,
               \/ ReadEngines(c) \/ ReadDefault(c) \/ LoadSearchEngines(c) \/ SetActiveSearchEngine(c)
               \/ SaveSearchEngine(c) \/ DeleteSearchEngine(c)
        PROVE  ChoiceOK'
    <3>1. ChoiceOK /\ chosen # 0
      BY <1>2, <2>8 DEF ChoiceInv, ReadEngines, ReadDefault, LoadSearchEngines, SetActiveSearchEngine,
             SaveSearchEngine, DeleteSearchEngine
    <3> QED
      BY <1>2, <2>8, <3>1, ReadKeeps, DefaultKeeps, LoadKeeps, ChoiceKeeps, SavedKeeps, DeletedKeeps
  <2> QED
    BY Zenon, <2>1, <2>2, <2>3, <2>4, <2>5, <2>6, <2>7, <2>8 DEF Next, Still, OfDialog, OfEnds
<1> QED
  BY <1>1, <1>2 DEF ChoiceInv

PrefInv == PrefTypes /\ FoldOK /\ ListInv /\ EngineInv /\ ChoiceInv

LEMMA PrefStart ==
    ASSUME Init PROVE PrefInv
<1>1. active \in Users /\ engine \in BuiltIn
  BY DEF Init
<1>2. EnginesOK
  <2> DEFINE F == FALSE
             T == TRUE
             Of(b) == {[live |-> b, owner |-> u, name |-> n] : u \in Users, n \in Names}
  <2>0. F \in BOOLEAN /\ T \in BOOLEAN
    OBVIOUS
  <2>1. rows \in [Own -> Row]
    <3>1. rows \in [Own -> Of(F) \cup Of(T)]
      BY DEF Init
    <3> HIDE DEF F, T
    <3>2. ASSUME NEW b \in BOOLEAN PROVE Of(b) \subseteq Row
      BY DEF Row
    <3> HIDE DEF Of
    <3> QED
      BY <2>0, <3>1, <3>2
  <2>2. PICK e \in Own \cup {0} :
          (e # 0 => rows[e].live) /\ default = [u \in Users |-> IF e # 0 /\ rows[e].owner = u THEN e ELSE 0]
    BY DEF Init
  <2> QED
    BY <2>1, <2>2 DEF EnginesOK
<1>3. ScreenOK
  BY <1>1, EngineFacts DEF Init, ScreenOK, NoModal
<1>4. PICK n : n = NewCall("load")
  OBVIOUS
<1>5. Made(n, "load", "sent", active, engine, 0) /\ calls = {n}
  BY <1>3, <1>4, NewMade DEF Init
<1>6. Asks(n)
  BY <1>5, MadeAsks
<1>7. ChoicesOK /\ ~crossed /\ ~raced /\ chosen = 0
  BY DEF Init, ChoicesOK
<1>8. PrefTypes
  BY <1>2, <1>3, <1>5, <1>6, <1>7 DEF PrefTypes
<1>9. FoldOK
  BY DEF Init, FoldOK
<1>10. Reads(n) /\ n.op = "load" /\ n.at = "sent" /\ n.user = active /\ n.mounted /\ n.saw = engine
  BY <1>5 DEF Made, Reads
<1>11. ListOK
  BY <1>5, <1>10 DEF ListOK, OfPage
<1>12. EngineOK
  BY <1>5, <1>10 DEF EngineOK, Settles
<1> QED
  BY <1>7, <1>8, <1>9, <1>11, <1>12 DEF PrefInv, ListInv, EngineInv, ChoiceInv

LEMMA PrefStep ==
    ASSUME PrefInv, Next PROVE PrefInv'
  BY PrefTypesStep, FoldStep, ListStep, EngineStep, ChoiceStep DEF PrefInv, PrefTypes

LEMMA PrefSame ==
    ASSUME PrefInv,
           UNCHANGED <<rows, default, active, engine, list, loading, modal, Remembered,
                       calls, chosen, raced, crossed>>
    PROVE  PrefInv'
<1>1. RowsOf(active)' = RowsOf(active) /\ Mine' = Mine
  BY SameRowsOf, SameMine DEF RowsOf
<1>2. PrefTypes' /\ FoldOK'
  BY DEF PrefInv, PrefTypes, EnginesOK, ScreenOK, ChoicesOK, FoldOK, Remembered
<1>3. ListInv' /\ EngineInv' /\ ChoiceInv'
  BY <1>1 DEF PrefInv, ListInv, ListOK, OfPage, Reads, EngineInv, EngineOK, Good, Settles,
         ChoiceInv, ChoiceOK, OfChoice
<1> QED
  BY <1>2, <1>3 DEF PrefInv

LEMMA PreferencesAreSound ==
    ASSUME PrefInv PROVE TypeOK /\ EngineIsTheUsers /\ ChoiceIsKept /\ FoldingStaysWithItsUser
<1>1. TypeOK
  BY DEF PrefInv, PrefTypes, EnginesOK, ScreenOK, ChoicesOK, FoldOK, TypeOK
<1>2. EngineIsTheUsers
  BY DEF PrefInv, ListInv, ListOK, EngineInv, EngineOK, Good, Mine, EngineIsTheUsers
<1>3. ChoiceIsKept
  BY DEF PrefInv, ChoiceInv, ChoiceOK, ChoiceIsKept
<1>4. FoldingStaysWithItsUser
  BY DEF PrefInv, PrefTypes, FoldOK, FoldingStaysWithItsUser, CollapsedGroups
<1> QED
  BY <1>1, <1>2, <1>3, <1>4

-----------------------------------------------------------------------------
(* Accounts.                                                               *)

(* Sessions with an address of their own user, and settings of that kind.  *)
Proper  == {s \in Signed!Session : s.address \in Signed!AddressesOf(s.user)}
Entered == [address : Signed!Address, of : Signed!All, busy : BOOLEAN, deleting : BOOLEAN]
Fills(f) == f \in Entered /\ f.address \in Signed!AddressesOf(f.of) \cup {Signed!NoAddress}

Steps(op) ==
    CASE op = "login" -> {"sent", "saved", "list", "read"}
      [] op \in {"logout", "delete"} -> {"sent", "list", "read"}
      [] op = "address" -> {"sent", "saved"}
      [] op = "refresh" -> {"sent", "saved", "refused", "cleared"}
      [] op \in {"start", "check"} -> {"list", "read"}
AtAll == {"sent", "saved", "refused", "cleared", "list", "read"}
Waiting ==
    [op : {"login", "logout", "delete", "address", "refresh", "start", "check"}, at : AtAll,
     about : Signed!All, address : Signed!Address, own : BOOLEAN, read : SUBSET Proper, mounted : BOOLEAN]

(* A handler that waits: for whom, with an address of that account.        *)
Waits(c) ==
    /\ c \in Waiting /\ c.at \in Steps(c.op)
    /\ c.op # "start" => c.about \in Accounts
    /\ c.address \in Signed!AddressesOf(c.about) \cup {Signed!NoAddress}
    /\ c.op \in {"login", "address", "refresh"} => c.address \in Signed!AddressesOf(c.about)

TableOK(t) ==
    /\ t \in [Signed!All -> Signed!Row]
    /\ \A u \in Signed!All : ~t[u].here => t[u] = Signed!NoRow
    /\ t[Anonymous] = [here |-> TRUE, signedIn |-> TRUE, address |-> Signed!NoAddress]
    /\ \A u \in Signed!All : t[u].here => t[u].address \in Signed!AddressesOf(u)
PageOK ==
    /\ list \subseteq Proper /\ active \in Proper
    /\ \A s \in asked : s \in Proper /\ s.user \in Accounts
    /\ Fills(form) /\ form.of = active.user
HistoryOK ==
    /\ meant \in Signed!All /\ crossed \in BOOLEAN /\ slipped \in BOOLEAN
    /\ out \subseteq Accounts /\ removed \subseteq Accounts /\ revived \subseteq removed

AccountTypes == TableOK(table) /\ PageOK /\ (\A c \in calls : Waits(c)) /\ HistoryOK

LEMMA AddressFacts ==
    /\ Signed!NoAddress \in Signed!Address
    /\ \A u \in Signed!All : Signed!AddressesOf(u) \subseteq Signed!Address
    /\ Signed!AddressesOf(Anonymous) = {Signed!NoAddress}
    /\ Anonymous \in Signed!All /\ Accounts \subseteq Signed!All
    /\ Signed!NobodyActive \in Proper
    /\ Signed!NobodyActive.user = Anonymous /\ Signed!NobodyActive.address = Signed!NoAddress
<1>1. Anonymous \in Signed!All /\ Accounts \subseteq Signed!All
  BY DEF Signed!All
<1>2. Signed!AddressesOf(Anonymous) = {Signed!NoAddress}
  BY DEF Signed!AddressesOf
<1>3. \A u \in Signed!All : Signed!AddressesOf(u) \subseteq Signed!Address
  BY DEF Signed!Address
<1>4. Signed!NoAddress \in Signed!Address
  BY <1>1, <1>2, <1>3
<1>5. Signed!NobodyActive = [user |-> Anonymous, address |-> Signed!NoAddress]
  BY DEF Signed!NobodyActive
<1> QED
  BY <1>1, <1>2, <1>3, <1>4, <1>5 DEF Proper, Signed!Session

LEMMA SignedInIs ==
    ASSUME AccountTypes
    PROVE  /\ Signed!SignedIn \subseteq Proper
           /\ \A s \in Signed!Session :
                 s \in Signed!SignedIn <=> table[s.user].signedIn /\ table[s.user].address = s.address
           /\ \A u \in Signed!All : table[u].signedIn <=> u \in Signed!UsersOf(Signed!SignedIn)
<1>1. \A u \in Signed!All : /\ table[u] \in Signed!Row
                            /\ ~table[u].here => table[u] = Signed!NoRow
                            /\ table[u].here => table[u].address \in Signed!AddressesOf(u)
  BY DEF AccountTypes, TableOK
<1>2. \A u \in Signed!All : table[u].signedIn => table[u].here
  BY <1>1 DEF Signed!NoRow
<1>3. ASSUME NEW s \in Signed!SignedIn
      PROVE  s \in Proper /\ table[s.user].signedIn /\ table[s.user].address = s.address
  <2>1. PICK u \in Signed!All : /\ table[u].here /\ table[u].signedIn
                                /\ s = [user |-> u, address |-> table[u].address]
    BY <1>3 DEF Signed!SignedIn
  <2>2. s.user = u /\ s.address = table[u].address /\ s \in Signed!Session
    BY <1>1, <2>1 DEF Signed!Session, Signed!Row
  <2> QED
    BY <1>1, <2>1, <2>2 DEF Proper
<1>4. ASSUME NEW s \in Signed!Session, table[s.user].signedIn, table[s.user].address = s.address
      PROVE  s \in Signed!SignedIn
  <2>1. s.user \in Signed!All /\ s = [user |-> s.user, address |-> table[s.user].address]
    BY <1>4 DEF Signed!Session
  <2> QED
    BY <1>2, <1>4, <2>1 DEF Signed!SignedIn
<1>5. ASSUME NEW u \in Signed!All PROVE table[u].signedIn <=> u \in Signed!UsersOf(Signed!SignedIn)
  <2>1. u \in Signed!UsersOf(Signed!SignedIn) <=> \E s \in Signed!SignedIn : s.user = u
    BY DEF Signed!UsersOf
  <2>2. table[u].signedIn => \E s \in Signed!SignedIn : s.user = u
    <3> DEFINE s == [user |-> u, address |-> table[u].address]
    <3>1. s.user = u /\ s.address = table[u].address /\ s \in Signed!Session
      BY <1>1 DEF Signed!Session, Signed!Row
    <3> HIDE DEF s
    <3> QED
      BY <1>4, <3>1
  <2>3. (\E s \in Signed!SignedIn : s.user = u) => table[u].signedIn
    BY <1>3
  <2> QED
    BY <2>1, <2>2, <2>3
<1> QED
  BY <1>3, <1>4, <1>5 DEF Proper


LEMMA StepsOf ==
    /\ Steps("login") = {"sent", "saved", "list", "read"}
    /\ Steps("logout") = {"sent", "list", "read"} /\ Steps("delete") = {"sent", "list", "read"}
    /\ Steps("address") = {"sent", "saved"}
    /\ Steps("refresh") = {"sent", "saved", "refused", "cleared"}
    /\ Steps("start") = {"list", "read"} /\ Steps("check") = {"list", "read"}
  BY DEF Steps

(* A call after its next step, and one that begins.                        *)
SameBut(n, c) ==
    /\ n.op = c.op /\ n.about = c.about /\ n.address = c.address
    /\ n.own = c.own /\ n.mounted = c.mounted

Stepped(n, c, at, r) == Waits(n) /\ SameBut(n, c) /\ n.at = at /\ n.read = r

LEMMA StepOfCall ==
    ASSUME NEW c, Waits(c), NEW at \in Steps(c.op)
    PROVE  Stepped([c EXCEPT !.at = at], c, at, c.read)
<1> DEFINE n == [c EXCEPT !.at = at]
<1>1. c.op \in {"login", "logout", "delete", "address", "refresh", "start", "check"}
  BY DEF Waits, Waiting
<1>2. at \in AtAll
  BY <1>1, StepsOf DEF AtAll
<1>3. n \in Waiting /\ SameBut(n, c) /\ n.at = at /\ n.read = c.read
  BY <1>2 DEF Waits, Waiting, SameBut
<1> HIDE DEF n
<1>4. Waits(n)
  BY <1>3 DEF Waits, SameBut
<1>5. Stepped(n, c, at, c.read)
  BY <1>3, <1>4 DEF Stepped
<1> QED
  BY <1>5 DEF n

LEMMA ReadOfCall ==
    ASSUME NEW c, Waits(c), "read" \in Steps(c.op), NEW r \in SUBSET Proper
    PROVE  Stepped([c EXCEPT !.read = r, !.at = "read"], c, "read", r)
<1> DEFINE n == [c EXCEPT !.read = r, !.at = "read"]
<1>1. n \in Waiting /\ SameBut(n, c) /\ n.at = "read" /\ n.read = r
  BY DEF Waits, Waiting, SameBut, AtAll
<1> HIDE DEF n
<1>2. Waits(n)
  BY <1>1 DEF Waits, SameBut
<1>3. Stepped(n, c, "read", r)
  BY <1>1, <1>2 DEF Stepped
<1> QED
  BY <1>3 DEF n

BegunAt(op, a, at) == [Signed!NewCall(op, a) EXCEPT !.at = at]

Begun(n, op, a, at) ==
    /\ Waits(n) /\ n.op = op /\ n.at = at /\ n.about = a.user /\ n.address = a.address
    /\ n.own = TRUE /\ n.read = {} /\ n.mounted = TRUE

LEMMA NewCalls ==
    ASSUME NEW op \in {"login", "logout", "delete", "address", "refresh", "start", "check"},
           NEW a \in Proper, NEW at \in Steps(op),
           op # "start" => a.user \in Accounts
    PROVE  Begun(BegunAt(op, a, at), op, a, at)
<1> DEFINE n == BegunAt(op, a, at)
<1>1. a.user \in Signed!All /\ a.address \in Signed!Address /\ a.address \in Signed!AddressesOf(a.user)
  BY DEF Proper, Signed!Session
<1>2. at \in AtAll
  BY StepsOf DEF AtAll
<1> DEFINE b == Signed!NewCall(op, a)
<1>3. b = [op |-> op, at |-> "sent", about |-> a.user, address |-> a.address, own |-> TRUE,
           read |-> {}, mounted |-> TRUE]
  BY DEF Signed!NewCall
<1>6. /\ b.op = op /\ b.about = a.user /\ b.address = a.address /\ b.read = {}
      /\ b.own = TRUE /\ b.mounted = TRUE
  BY <1>3
<1>7. b \in Waiting
  BY <1>1, <1>3 DEF Waiting, AtAll
<1>8. n = [b EXCEPT !.at = at]
  BY DEF BegunAt
<1> HIDE DEF b, n
<1>9. n \in Waiting /\ n.at = at
  BY <1>2, <1>7, <1>8 DEF Waiting
<1>10. SameBut(n, b) /\ n.read = b.read
  BY <1>7, <1>8 DEF Waiting, SameBut
<1>4. /\ n \in Waiting /\ n.op = op /\ n.at = at /\ n.about = a.user /\ n.address = a.address
      /\ n.own = TRUE /\ n.read = {} /\ n.mounted = TRUE
  BY <1>6, <1>9, <1>10 DEF SameBut
<1>5. Waits(n)
  BY <1>1, <1>4 DEF Waits
<1> QED
  BY <1>4, <1>5 DEF n, Begun

LEMMA ChecksAre ==
    ASSUME NEW a \in Proper
    PROVE  /\ \A c \in Signed!Checks(a) :
                 Waits(c) /\ c.op = "check" /\ c.at = "list" /\ c.about = a.user
           /\ \A c, d \in Signed!Checks(a) : c = d
           /\ a.user = Anonymous => Signed!Checks(a) = {}
           /\ a.user # Anonymous => Signed!Checks(a) # {}
<1>1. a.user \in Signed!All
  BY DEF Proper, Signed!Session
<1>2. a.user # Anonymous => a.user \in Accounts
  BY <1>1 DEF Signed!All
<1>3. "list" \in Steps("check")
  BY StepsOf
<1> DEFINE n == BegunAt("check", a, "list")
<1>5. Signed!Checks(a) = IF a.user = Anonymous THEN {} ELSE {n}
  BY DEF Signed!Checks, BegunAt
<1> HIDE DEF n
<1>4. ASSUME a.user \in Accounts
      PROVE  Waits(n) /\ n.op = "check" /\ n.at = "list" /\ n.about = a.user
  <2>1. Begun(n, "check", a, "list")
    BY <1>3, <1>4, NewCalls DEF n
  <2> QED
    BY <2>1 DEF Begun
<1> QED
  BY <1>2, <1>4, <1>5

LEMMA PutsIn ==
    ASSUME NEW a \in Proper, NEW l \in SUBSET Proper, NEW m,
           m = {IF s.user = a.user THEN a ELSE s : s \in l}
    PROVE  /\ m \subseteq Proper
           /\ \A s : s.user # a.user => (s \in m <=> s \in l)
           /\ a \in m <=> \E s \in l : s.user = a.user
           /\ \A s \in m : s.user = a.user => s = a
  OBVIOUS

LEMMA ShowsFills ==
    ASSUME NEW a \in Proper, NEW f, Fills(f)
    PROVE  Fills(Signed!Shows(f, a)) /\ Signed!Shows(f, a).of = a.user
<1>1. a.user \in Signed!All /\ a.address \in Signed!Address /\ a.address \in Signed!AddressesOf(a.user)
  BY DEF Proper, Signed!Session
<1> DEFINE g == [f EXCEPT !.of = a.user, !.address = a.address]
<1>2. g \in Entered /\ g.of = a.user /\ g.address = a.address
  BY <1>1 DEF Fills, Entered
<1>3. Signed!Shows(f, a) = IF f.of = a.user THEN f ELSE g
  BY DEF Signed!Shows
<1> HIDE DEF g
<1> QED
  BY <1>1, <1>2, <1>3 DEF Fills

(* Whoever becomes active, the page is in order.                           *)
LEMMA ActiveSet ==
    ASSUME PageOK, NEW a \in Proper, NEW rest, \A c \in rest : Waits(c),
           NEW l \in SUBSET Proper, NEW f, Fills(f), Signed!SetActive(a, rest, l, f), asked' = asked
    PROVE  PageOK' /\ (\A c \in calls' : Waits(c)) /\ active' = a /\ calls' = rest \cup Signed!Checks(a)
<1>1. /\ active' = a /\ list' = {IF s.user = a.user THEN a ELSE s : s \in l}
      /\ form' = Signed!Shows(f, a) /\ calls' = rest \cup Signed!Checks(a)
  BY DEF Signed!SetActive
<1>2. list' \subseteq Proper
  BY <1>1, PutsIn
<1>3. Fills(form') /\ form'.of = active'.user
  BY <1>1, ShowsFills
<1>4. \A c \in calls' : Waits(c)
  BY <1>1, ChecksAre
<1> QED
  BY <1>1, <1>2, <1>3, <1>4 DEF PageOK

(* One row is written, the others stay.                                    *)
Writes(t, u, here, signedIn, address) ==
    /\ TableOK(t)
    /\ \A v \in Signed!All : v # u => t[v] = table[v]
    /\ t[u].here <=> here
    /\ t[u].signedIn <=> signedIn
    /\ t[u].address = address

LEMMA RowWritten ==
    ASSUME TableOK(table), NEW u \in Accounts, NEW r \in Signed!Row,
           ~r.here => r = Signed!NoRow, r.here => r.address \in Signed!AddressesOf(u),
           NEW t, t = [table EXCEPT ![u] = r]
    PROVE  Writes(t, u, r.here, r.signedIn, r.address)
<1>1. u \in Signed!All /\ u # Anonymous
  BY DesktopPageAssumption DEF Signed!All
<1>2. t \in [Signed!All -> Signed!Row] /\ t[u] = r /\ \A v \in Signed!All : v # u => t[v] = table[v]
  BY <1>1 DEF TableOK
<1>3. t[Anonymous] = table[Anonymous]
  BY <1>1, <1>2 DEF Signed!All
<1>4. TableOK(t)
  BY <1>1, <1>2, <1>3 DEF TableOK
<1> QED
  BY <1>2, <1>4 DEF Writes

LEMMA RowsAre ==
    ASSUME TableOK(table), NEW u \in Accounts
    PROVE  /\ u \in Signed!All /\ table \in [Signed!All -> Signed!Row] /\ table[u] \in Signed!Row
           /\ table[u] = [here |-> table[u].here, signedIn |-> table[u].signedIn, address |-> table[u].address]
           /\ table[u].here \in BOOLEAN /\ table[u].signedIn \in BOOLEAN
           /\ table[u].signedIn => table[u].here
           /\ ~table[u].here => table[u] = Signed!NoRow
           /\ table[u].here => table[u].address \in Signed!AddressesOf(u)
<1>1. u \in Signed!All /\ table \in [Signed!All -> Signed!Row]
  BY DEF Signed!All, TableOK
<1>2. table[u] \in Signed!Row
  BY <1>1
<1> QED
  BY <1>1, <1>2 DEF TableOK, Signed!Row, Signed!NoRow

LEMMA SavedOK ==
    ASSUME TableOK(table), NEW u \in Accounts, NEW a \in Signed!AddressesOf(u)
    PROVE  Writes(Signed!Saved(u, a), u, TRUE, table[u].signedIn, a)
<1> DEFINE r == [table[u] EXCEPT !.here = TRUE, !.address = a]
<1>1. a \in Signed!Address
  BY RowsAre, AddressFacts
<1>2. r \in Signed!Row
  BY <1>1, RowsAre DEF Signed!Row
<1>3. r.here /\ r.address = a
  BY RowsAre DEF Signed!Row
<1>4. r.signedIn = table[u].signedIn
  BY RowsAre DEF Signed!Row
<1>5. Signed!Saved(u, a) = [table EXCEPT ![u] = r]
  BY RowsAre DEF Signed!Saved
<1> HIDE DEF r
<1>6. Writes(Signed!Saved(u, a), u, r.here, r.signedIn, r.address)
  BY <1>2, <1>3, <1>5, RowWritten
<1> QED
  BY <1>3, <1>4, <1>6 DEF Writes

LEMMA SignInOK ==
    ASSUME TableOK(table), NEW u \in Accounts, NEW b \in BOOLEAN, b => table[u].here,
           NEW t, t = [table EXCEPT ![u].signedIn = b]
    PROVE  Writes(t, u, table[u].here, b, table[u].address)
<1> DEFINE r == [table[u] EXCEPT !.signedIn = b]
<1>1. r \in Signed!Row
  BY RowsAre DEF Signed!Row
<1>2. r.here = table[u].here /\ r.address = table[u].address
  BY RowsAre DEF Signed!Row
<1>3. r.signedIn = b
  BY RowsAre DEF Signed!Row
<1>4. ~table[u].here => r = Signed!NoRow
  <2> SUFFICES ASSUME ~table[u].here PROVE r = Signed!NoRow
    OBVIOUS
  <2>1. table[u] = Signed!NoRow /\ b = FALSE
    BY RowsAre
  <2>2. /\ Signed!NoRow.here = FALSE
        /\ Signed!NoRow.address = Signed!NoAddress
    BY Zenon DEF Signed!NoRow
  <2>3. r.here = FALSE /\ r.address = Signed!NoAddress /\ r.signedIn = FALSE
    BY <1>2, <1>3, <2>1, <2>2, Zenon
  <2>4. r = [here |-> r.here, signedIn |-> r.signedIn, address |-> r.address]
    BY <1>1 DEF Signed!Row
  <2> HIDE DEF r
  <2> QED
    BY <2>3, <2>4, Zenon DEF Signed!NoRow
<1>5. t = [table EXCEPT ![u] = r]
  BY RowsAre
<1> HIDE DEF r
<1>6. Writes(t, u, r.here, r.signedIn, r.address)
  BY <1>1, <1>2, <1>4, <1>5, RowsAre, RowWritten
<1> QED
  BY <1>2, <1>3, <1>6 DEF Writes

LEMMA GoneOK ==
    ASSUME TableOK(table), NEW u \in Accounts, NEW t, t = [table EXCEPT ![u] = Signed!NoRow]
    PROVE  Writes(t, u, FALSE, FALSE, Signed!NoAddress)
<1>1. Signed!NoRow = [here |-> FALSE, signedIn |-> FALSE, address |-> Signed!NoAddress]
  BY DEF Signed!NoRow
<1>2. Signed!NoRow \in Signed!Row /\ ~Signed!NoRow.here /\ ~Signed!NoRow.signedIn /\ Signed!NoRow.address = Signed!NoAddress
  BY <1>1, AddressFacts DEF Signed!Row
<1>3. Writes(t, u, Signed!NoRow.here, Signed!NoRow.signedIn, Signed!NoRow.address)
  BY <1>2, RowWritten
<1> QED
  BY <1>2, <1>3 DEF Writes

-----------------------------------------------------------------------------
(* What the handlers do with the calls and the table.                      *)

Moves(c, at, r) == \E n : Stepped(n, c, at, r) /\ calls' = (calls \ {c}) \cup {n}

LEMMA CallsMove ==
    ASSUME NEW c \in calls, Waits(c), NEW at \in Steps(c.op), Signed!Answered(c, at)
    PROVE  Moves(c, at, c.read)
<1>1. Stepped([c EXCEPT !.at = at], c, at, c.read)
  BY StepOfCall
<1>2. calls' = (calls \ {c}) \cup {[c EXCEPT !.at = at]}
  BY DEF Signed!Answered
<1> HIDE DEF Signed!Answered
<1> QED
  BY <1>1, <1>2 DEF Moves

LEMMA MovedWait ==
    ASSUME \A c \in calls : Waits(c), NEW c, NEW at, NEW r, Moves(c, at, r)
    PROVE  \A d \in calls' : Waits(d)
  BY DEF Moves, Stepped

LEMMA CallFacts ==
    ASSUME AccountTypes, NEW c \in calls
    PROVE  /\ Waits(c) /\ c.at \in Steps(c.op) /\ c.about \in Signed!All /\ c.read \in SUBSET Proper
           /\ c.op # "start" => c.about \in Accounts
           /\ c.op \in {"login", "address", "refresh"} => c.address \in Signed!AddressesOf(c.about)
           /\ c.own \in BOOLEAN /\ c.mounted \in BOOLEAN
  BY DEF AccountTypes, Waits, Waiting

LEMMA SessionOfCall ==
    ASSUME AccountTypes, NEW c \in calls, c.op \in {"login", "address", "refresh"}
    PROVE  /\ [user |-> c.about, address |-> c.address] \in Proper
           /\ [user |-> c.about, address |-> c.address].user = c.about
           /\ [user |-> c.about, address |-> c.address].address = c.address
<1>1. /\ c.about \in Signed!All /\ c.address \in Signed!AddressesOf(c.about)
      /\ c.address \in Signed!Address
  BY CallFacts, AddressFacts DEF Waits, Waiting
<1> QED
  BY <1>1 DEF Proper, Signed!Session

LEMMA LoginSavesDoes ==
    ASSUME AccountTypes, NEW c \in calls, Signed!LoginSaves(c)
    PROVE  /\ Moves(c, "saved", c.read)
           /\ Writes(table', c.about, TRUE, table[c.about].signedIn, c.address)
<1>1. c.op = "login" /\ Signed!Answered(c, "saved") /\ table' = Signed!Saved(c.about, c.address)
  BY DEF Signed!LoginSaves
<1>2. "saved" \in Steps(c.op)
  BY <1>1, StepsOf
<1> QED
  BY <1>1, <1>2, CallFacts, CallsMove, SavedOK DEF AccountTypes

LEMMA StatusDoes ==
    ASSUME AccountTypes, NEW c \in calls, Signed!SetUserLoginStatus(c)
    PROVE  /\ Moves(c, "list", c.read)
           /\ Writes(table', c.about, table[c.about].here,
                     c.op = "login" /\ table[c.about].here, table[c.about].address)
<1>1. /\ c.op \in {"login", "logout"} /\ Signed!Answered(c, "list")
      /\ table' = [table EXCEPT ![c.about].signedIn = (c.op = "login" /\ table[c.about].here)]
  BY DEF Signed!SetUserLoginStatus, Signed!StatusSet
<1>2. "list" \in Steps(c.op) /\ c.about \in Accounts /\ Waits(c)
  BY <1>1, StepsOf, CallFacts
<1>3. Moves(c, "list", c.read)
  BY <1>1, <1>2, CallsMove
<1> DEFINE b == c.op = "login" /\ table[c.about].here
<1>4. b \in BOOLEAN /\ (b => table[c.about].here)
  OBVIOUS
<1>5. table' = [table EXCEPT ![c.about].signedIn = b]
  BY <1>1
<1>6. TableOK(table)
  BY DEF AccountTypes
<1> HIDE DEF b
<1>7. Writes(table', c.about, table[c.about].here, b, table[c.about].address)
  BY <1>2, <1>4, <1>5, <1>6, SignInOK
<1> QED
  BY <1>3, <1>7 DEF b

LEMMA DeletionDoes ==
    ASSUME AccountTypes, NEW c \in calls, Signed!DeleteUserWithData(c)
    PROVE  Moves(c, "list", c.read) /\ Writes(table', c.about, FALSE, FALSE, Signed!NoAddress)
<1>1. /\ c.op = "delete" /\ Signed!Answered(c, "list")
      /\ table' = [table EXCEPT ![c.about] = Signed!NoRow]
  BY DEF Signed!DeleteUserWithData
<1>2. "list" \in Steps(c.op)
  BY <1>1, StepsOf
<1> QED
  BY <1>1, <1>2, CallFacts, CallsMove, GoneOK DEF AccountTypes

LEMMA AddressDoes ==
    ASSUME AccountTypes, NEW c \in calls, Signed!UpdateUserServerAddress(c)
    PROVE  /\ Moves(c, "saved", c.read)
           /\ Writes(table', c.about, table[c.about].here, table[c.about].signedIn,
                     IF table[c.about].here THEN c.address ELSE table[c.about].address)
<1>1. /\ c.op = "address" /\ Signed!Answered(c, "saved")
      /\ table' = IF table[c.about].here THEN Signed!Saved(c.about, c.address) ELSE table
  BY DEF Signed!UpdateUserServerAddress, Signed!AddressSaved
<1>2. "saved" \in Steps(c.op) /\ c.about \in Accounts /\ c.address \in Signed!AddressesOf(c.about)
  BY <1>1, StepsOf, CallFacts
<1>3. Moves(c, "saved", c.read)
  BY <1>1, <1>2, CallFacts, CallsMove
<1>4. TableOK(table)
  BY DEF AccountTypes
<1>5. CASE table[c.about].here
  <2>1. Writes(table', c.about, TRUE, table[c.about].signedIn, c.address)
    BY <1>1, <1>2, <1>4, <1>5, SavedOK
  <2> QED
    BY <1>3, <1>5, <2>1 DEF Writes
<1>6. CASE ~table[c.about].here
  BY <1>1, <1>3, <1>4, <1>6 DEF Writes
<1> QED
  BY <1>5, <1>6

LEMMA RefreshDoes ==
    ASSUME AccountTypes, NEW c \in calls, NEW at \in {"saved", "refused"}, Signed!RefreshSaves(c, at)
    PROVE  /\ Moves(c, at, c.read)
           /\ Writes(table', c.about, TRUE, table[c.about].signedIn, c.address)
<1>1. c.op = "refresh" /\ Signed!Answered(c, at) /\ table' = Signed!Saved(c.about, c.address)
  BY DEF Signed!RefreshSaves
<1>2. at \in Steps(c.op)
  BY <1>1, StepsOf
<1> QED
  BY <1>1, <1>2, CallFacts, CallsMove, SavedOK DEF AccountTypes

LEMMA ClearingDoes ==
    ASSUME AccountTypes, NEW c \in calls, Signed!ClearInvalidSession(c)
    PROVE  /\ Moves(c, "cleared", c.read)
           /\ Writes(table', c.about, table[c.about].here, FALSE, table[c.about].address)
<1>1. /\ c.op = "refresh" /\ Signed!Answered(c, "cleared")
      /\ table' = [table EXCEPT ![c.about].signedIn = FALSE]
  BY DEF Signed!ClearInvalidSession
<1>2. "cleared" \in Steps(c.op) /\ c.about \in Accounts
  BY <1>1, StepsOf, CallFacts
<1>3. TableOK(table) /\ FALSE \in BOOLEAN /\ (FALSE => table[c.about].here)
  BY DEF AccountTypes
<1>4. Moves(c, "cleared", c.read)
  BY <1>1, <1>2, CallFacts, CallsMove
<1>5. Writes(table', c.about, table[c.about].here, FALSE, table[c.about].address)
  BY <1>1, <1>2, <1>3, SignInOK
<1> QED
  BY <1>4, <1>5

LEMMA ListSteps ==
    ASSUME NEW c, Waits(c), c.at = "list"
    PROVE  "read" \in Steps(c.op)
<1>1. c.op \in {"login", "logout", "delete", "address", "refresh", "start", "check"} /\ c.at \in Steps(c.op)
  BY DEF Waits, Waiting
<1> QED
  BY <1>1, StepsOf

LEMMA ReadDoes ==
    ASSUME AccountTypes, NEW c \in calls, Signed!ReadUsers(c)
    PROVE  Moves(c, "read", Signed!SignedIn)
<1>1. /\ c.at = "list"
      /\ calls' = (calls \ {c}) \cup {[c EXCEPT !.read = Signed!SignedIn, !.at = "read"]}
  BY DEF Signed!ReadUsers, Signed!Rest
<1>2. Signed!SignedIn \in SUBSET Proper /\ Waits(c) /\ "read" \in Steps(c.op)
  BY <1>1, SignedInIs, CallFacts, ListSteps
<1>3. Stepped([c EXCEPT !.read = Signed!SignedIn, !.at = "read"], c, "read", Signed!SignedIn)
  BY <1>2, ReadOfCall
<1> QED
  BY <1>1, <1>3 DEF Moves

LEMMA NoReadDoes ==
    ASSUME AccountTypes, NEW c \in calls, Signed!ReadFails(c)
    PROVE  Moves(c, "read", c.read)
<1>1. c.at = "list" /\ Signed!Answered(c, "read")
  BY DEF Signed!ReadFails
<1> QED
  BY <1>1, CallFacts, ListSteps, CallsMove

-----------------------------------------------------------------------------
(* Types, and rows of deleted accounts.                                    *)

LEMMA PageKept ==
    ASSUME AccountTypes, UNCHANGED <<active, list, form, asked>> PROVE PageOK'
  BY DEF AccountTypes, PageOK

LEMMA TableKept ==
    ASSUME AccountTypes, table' = table PROVE TableOK(table')
  BY DEF AccountTypes

LEMMA DeletedKept ==
    ASSUME Signed!DeletedStayAway, UNCHANGED <<table, removed, revived>>
    PROVE  Signed!DeletedStayAway'
  BY DEF Signed!DeletedStayAway

LEMMA TypesAfterWrite ==
    ASSUME AccountTypes, NEW c \in calls, NEW at, NEW r, Moves(c, at, r),
           UNCHANGED <<active, list, form, asked>>, TableOK(table'), HistoryOK'
    PROVE  AccountTypes'
<1>1. \A d \in calls' : Waits(d)
  BY MovedWait DEF AccountTypes
<1> QED
  BY <1>1, PageKept DEF AccountTypes

(* A row that is written signs nobody in who was deleted.                  *)
LEMMA DeletedAfterWrite ==
    ASSUME AccountTypes, Signed!DeletedStayAway, NEW u \in Accounts, NEW h, NEW s, NEW a,
           Writes(table', u, h, s, a), removed' \subseteq removed \cup {u},
           \A v \in removed' : v # u => (v \in revived => v \in revived'),
           u \in removed' => ~s /\ (h => u \in revived')
    PROVE  Signed!DeletedStayAway'
<1> SUFFICES ASSUME NEW v \in removed'
             PROVE  ~table'[v].signedIn /\ (table'[v].here => v \in revived')
  BY DEF Signed!DeletedStayAway
<1>1. CASE v = u
  BY <1>1 DEF Writes
<1>2. CASE v # u
  <2>1. v \in removed /\ v \in Signed!All
    BY <1>2 DEF AccountTypes, HistoryOK, Signed!All
  <2>2. table'[v] = table[v]
    BY <1>2, <2>1 DEF Writes
  <2> QED
    BY <1>2, <2>1, <2>2 DEF Signed!DeletedStayAway
<1> QED
  BY <1>1, <1>2

LEMMA LoginSavesTyped ==
    ASSUME AccountTypes, Signed!DeletedStayAway, NEW c \in calls, Signed!LoginSaves(c)
    PROVE  AccountTypes' /\ Signed!DeletedStayAway'
<1>1. /\ c.op = "login" /\ removed' = removed \ {c.about} /\ revived' = revived \ {c.about}
      /\ UNCHANGED <<active, list, form, asked, meant, crossed, slipped, out>>
  BY DEF Signed!LoginSaves
<1>2. /\ Moves(c, "saved", c.read) /\ c.about \in Accounts
      /\ Writes(table', c.about, TRUE, table[c.about].signedIn, c.address)
  BY <1>1, LoginSavesDoes, CallFacts
<1>3. TableOK(table') /\ HistoryOK'
  BY <1>1, <1>2 DEF Writes, AccountTypes, HistoryOK
<1>4. AccountTypes'
  BY <1>1, <1>2, <1>3, TypesAfterWrite
<1>5. Signed!DeletedStayAway'
  BY <1>1, <1>2, DeletedAfterWrite
<1> QED
  BY <1>4, <1>5

LEMMA StatusTyped ==
    ASSUME AccountTypes, Signed!DeletedStayAway, NEW c \in calls, Signed!SetUserLoginStatus(c)
    PROVE  AccountTypes' /\ Signed!DeletedStayAway'
<1>1. /\ c.op \in {"login", "logout"}
      /\ removed' = removed \ Signed!UsersOf(Signed!SignedIn')
      /\ revived' = revived \ Signed!UsersOf(Signed!SignedIn')
      /\ UNCHANGED <<active, list, form, asked, meant, crossed, slipped, out>>
  BY DEF Signed!SetUserLoginStatus
<1> DEFINE s == c.op = "login" /\ table[c.about].here
<1>2. /\ Moves(c, "list", c.read) /\ c.about \in Accounts
      /\ Writes(table', c.about, table[c.about].here, s, table[c.about].address)
  BY <1>1, StatusDoes, CallFacts
<1> HIDE DEF s
<1>3. TableOK(table') /\ HistoryOK'
  BY <1>1, <1>2 DEF Writes, AccountTypes, HistoryOK
<1>4. AccountTypes'
  BY <1>1, <1>2, <1>3, TypesAfterWrite
<1>5. ASSUME NEW u \in Signed!All, table'[u].signedIn
      PROVE  u \in Signed!UsersOf(Signed!SignedIn')
  <2> DEFINE n == [user |-> u, address |-> table'[u].address]
  <2>1. table'[u].here
    BY <1>3, <1>5 DEF TableOK, Signed!NoRow
  <2>2. n \in Signed!SignedIn'
    BY <1>5, <2>1 DEF Signed!SignedIn
  <2>3. n.user = u
    OBVIOUS
  <2> HIDE DEF n
  <2> QED
    BY <2>2, <2>3 DEF Signed!UsersOf
<1>6. ASSUME NEW v \in removed'
      PROVE  ~table'[v].signedIn /\ (table'[v].here => v \in revived')
  <2>1. v \in removed /\ v \in Signed!All /\ v \notin Signed!UsersOf(Signed!SignedIn')
    BY <1>1, <1>6 DEF AccountTypes, HistoryOK, Signed!All
  <2>2. ~table'[v].signedIn
    BY <1>5, <2>1
  <2>3. table'[v].here => table[v].here
    BY <1>2, <2>1 DEF Writes
  <2>4. table[v].here => v \in revived
    BY <2>1 DEF Signed!DeletedStayAway
  <2> QED
    BY <1>1, <2>1, <2>2, <2>3, <2>4
<1>7. Signed!DeletedStayAway'
  BY <1>6 DEF Signed!DeletedStayAway
<1> QED
  BY <1>4, <1>7

LEMMA DeletionTyped ==
    ASSUME AccountTypes, Signed!DeletedStayAway, NEW c \in calls, Signed!DeleteUserWithData(c)
    PROVE  AccountTypes' /\ Signed!DeletedStayAway'
<1>1. /\ c.op = "delete" /\ removed' = removed \cup {c.about} /\ revived' = revived \ {c.about}
      /\ UNCHANGED <<active, list, form, asked, meant, crossed, slipped, out>>
  BY DEF Signed!DeleteUserWithData
<1>2. /\ Moves(c, "list", c.read) /\ c.about \in Accounts
      /\ Writes(table', c.about, FALSE, FALSE, Signed!NoAddress)
  BY <1>1, DeletionDoes, CallFacts
<1>3. TableOK(table') /\ HistoryOK'
  BY <1>1, <1>2 DEF Writes, AccountTypes, HistoryOK
<1>4. AccountTypes'
  BY <1>1, <1>2, <1>3, TypesAfterWrite
<1>5. Signed!DeletedStayAway'
  BY <1>1, <1>2, DeletedAfterWrite
<1> QED
  BY <1>4, <1>5

LEMMA AddressTyped ==
    ASSUME AccountTypes, Signed!DeletedStayAway, NEW c \in calls, Signed!UpdateUserServerAddress(c)
    PROVE  AccountTypes' /\ Signed!DeletedStayAway'
<1>1. /\ c.op = "address"
      /\ UNCHANGED <<active, list, form, asked, meant, crossed, slipped, out, removed, revived>>
  BY DEF Signed!UpdateUserServerAddress, Signed!Ghosts
<1> DEFINE a == IF table[c.about].here THEN c.address ELSE table[c.about].address
<1>2. /\ Moves(c, "saved", c.read) /\ c.about \in Accounts
      /\ Writes(table', c.about, table[c.about].here, table[c.about].signedIn, a)
  BY <1>1, AddressDoes, CallFacts
<1> HIDE DEF a
<1>3. TableOK(table') /\ HistoryOK'
  BY <1>1, <1>2 DEF Writes, AccountTypes, HistoryOK
<1>4. AccountTypes'
  BY <1>1, <1>2, <1>3, TypesAfterWrite
<1>5. c.about \in removed => ~table[c.about].signedIn /\ (table[c.about].here => c.about \in revived)
  BY DEF Signed!DeletedStayAway
<1>6. Signed!DeletedStayAway'
  BY <1>1, <1>2, <1>5, DeletedAfterWrite
<1> QED
  BY <1>4, <1>6

LEMMA RefreshTyped ==
    ASSUME AccountTypes, Signed!DeletedStayAway, NEW c \in calls, NEW at \in {"saved", "refused"},
           Signed!RefreshSaves(c, at)
    PROVE  AccountTypes' /\ Signed!DeletedStayAway'
<1>1. /\ c.op = "refresh" /\ revived' = revived \cup ({c.about} \cap removed)
      /\ UNCHANGED <<active, list, form, asked, meant, crossed, slipped, out, removed>>
  BY DEF Signed!RefreshSaves
<1>2. /\ Moves(c, at, c.read) /\ c.about \in Accounts
      /\ Writes(table', c.about, TRUE, table[c.about].signedIn, c.address)
  BY <1>1, RefreshDoes, CallFacts
<1>3. TableOK(table') /\ HistoryOK'
  BY <1>1, <1>2 DEF Writes, AccountTypes, HistoryOK
<1>4. AccountTypes'
  BY <1>1, <1>2, <1>3, TypesAfterWrite
<1>5. c.about \in removed => ~table[c.about].signedIn
  BY DEF Signed!DeletedStayAway
<1>6. Signed!DeletedStayAway'
  BY <1>1, <1>2, <1>5, DeletedAfterWrite
<1> QED
  BY <1>4, <1>6

LEMMA ClearingTyped ==
    ASSUME AccountTypes, Signed!DeletedStayAway, NEW c \in calls, Signed!ClearInvalidSession(c)
    PROVE  AccountTypes' /\ Signed!DeletedStayAway'
<1>1. /\ c.op = "refresh"
      /\ UNCHANGED <<active, list, form, asked, meant, crossed, slipped, out, removed, revived>>
  BY DEF Signed!ClearInvalidSession, Signed!Ghosts
<1>2. /\ Moves(c, "cleared", c.read) /\ c.about \in Accounts
      /\ Writes(table', c.about, table[c.about].here, FALSE, table[c.about].address)
  BY <1>1, ClearingDoes, CallFacts
<1>3. TableOK(table') /\ HistoryOK'
  BY <1>1, <1>2 DEF Writes, AccountTypes, HistoryOK
<1>4. AccountTypes'
  BY <1>1, <1>2, <1>3, TypesAfterWrite
<1>5. c.about \in removed => (table[c.about].here => c.about \in revived)
  BY DEF Signed!DeletedStayAway
<1>6. Signed!DeletedStayAway'
  BY <1>1, <1>2, <1>5, DeletedAfterWrite
<1> QED
  BY <1>4, <1>6

LEMMA ReadingTyped ==
    ASSUME AccountTypes, Signed!DeletedStayAway, NEW c \in calls,
           Signed!ReadUsers(c) \/ Signed!ReadFails(c)
    PROVE  AccountTypes' /\ Signed!DeletedStayAway'
<1>1. /\ UNCHANGED <<table, active, list, form, asked, meant, removed, revived>>
      /\ out' \subseteq out
  BY DEF Signed!ReadUsers, Signed!ReadFails
<1>2. crossed' \in BOOLEAN
  BY DEF Signed!ReadUsers, Signed!ReadFails, AccountTypes, HistoryOK
<1>3. slipped' \in BOOLEAN
  <2>1. CASE Signed!ReadUsers(c)
    BY <2>1 DEF Signed!ReadUsers, AccountTypes, HistoryOK
  <2>2. CASE Signed!ReadFails(c)
    <3>1. slipped' = (slipped \/ c.op \in {"check", "logout"})
      BY <2>2 DEF Signed!ReadFails
    <3> QED
      BY <3>1
  <2> QED
    BY <2>1, <2>2
<1>4. TableOK(table') /\ HistoryOK'
  BY <1>1, <1>2, <1>3 DEF AccountTypes, HistoryOK
<1>5. \E r : Moves(c, "read", r)
  BY ReadDoes, NoReadDoes
<1>6. AccountTypes'
  BY <1>1, <1>4, <1>5, TypesAfterWrite
<1> QED
  BY <1>1, <1>6, DeletedKept

LEMMA TypesAfterLanding ==
    ASSUME AccountTypes, Signed!DeletedStayAway, PageOK', \A d \in calls' : Waits(d), HistoryOK',
           UNCHANGED <<table, removed, revived>>
    PROVE  AccountTypes' /\ Signed!DeletedStayAway'
<1>1. TableOK(table')
  BY TableKept
<1> QED
  BY <1>1, DeletedKept DEF AccountTypes

LEMMA Lists ==
    ASSUME AccountTypes PROVE list \in SUBSET Proper /\ Fills(form) /\ PageOK /\ active \in Proper
  BY DEF AccountTypes, PageOK

LEMMA OffSet ==
    ASSUME AccountTypes, NEW rest, \A d \in rest : Waits(d), NEW l \in SUBSET Proper,
           Signed!SetOff(rest, l, form), asked' = asked
    PROVE  PageOK' /\ (\A d \in calls' : Waits(d))
  BY DEF Signed!SetOff, AccountTypes, PageOK

LEMMA RestWaits ==
    ASSUME AccountTypes, NEW c PROVE \A d \in Signed!Rest(c) : Waits(d)
  BY DEF AccountTypes, Signed!Rest

(* A flag of the settings falls, the rest stays as filled in.              *)
LEMMA FlagFalls ==
    ASSUME NEW f, Fills(f)
    PROVE  /\ Fills([f EXCEPT !.busy = FALSE]) /\ [f EXCEPT !.busy = FALSE].of = f.of
           /\ Fills([f EXCEPT !.deleting = FALSE]) /\ [f EXCEPT !.deleting = FALSE].of = f.of
           /\ Fills([f EXCEPT !.busy = TRUE]) /\ [f EXCEPT !.busy = TRUE].of = f.of
           /\ Fills([f EXCEPT !.deleting = TRUE]) /\ [f EXCEPT !.deleting = TRUE].of = f.of
  BY DEF Fills, Entered

LEMMA LoginTyped ==
    ASSUME AccountTypes, Signed!DeletedStayAway, NEW c \in calls, Signed!LoginLands(c)
    PROVE  AccountTypes' /\ Signed!DeletedStayAway'
<1> DEFINE a == [user |-> c.about, address |-> c.address]
<1>1. /\ c.op = "login" /\ Signed!SetActive(a, Signed!Rest(c), c.read, form)
      /\ slipped' = FALSE
      /\ UNCHANGED <<table, asked, meant, crossed, out, removed, revived>>
  BY DEF Signed!LoginLands, Signed!Lands, Signed!Refreshed
<1>2. a \in Proper /\ c.read \in SUBSET Proper
  BY <1>1, SessionOfCall, CallFacts
<1> HIDE DEF a
<1>3. PageOK' /\ (\A d \in calls' : Waits(d))
  BY <1>1, <1>2, Lists, RestWaits, ActiveSet
<1>4. HistoryOK'
  BY <1>1 DEF AccountTypes, HistoryOK
<1> QED
  BY <1>1, <1>3, <1>4, TypesAfterLanding

LEMMA LogoutTyped ==
    ASSUME AccountTypes, Signed!DeletedStayAway, NEW c \in calls, Signed!LogoutLands(c)
    PROVE  AccountTypes' /\ Signed!DeletedStayAway'
<1>1. /\ \/ Signed!SetActive(Signed!NobodyActive, Signed!Rest(c), c.read, form)
         \/ Signed!SetOff(Signed!Rest(c), c.read, form)
      /\ UNCHANGED <<table, asked, meant, crossed, out, removed, revived>>
  BY DEF Signed!LogoutLands, Signed!Lands
<1>2. slipped' = FALSE \/ slipped' = (slipped \/ active.user = c.about)
  BY DEF Signed!LogoutLands
<1>3. slipped' \in BOOLEAN
  BY <1>2
<1>4. PageOK' /\ (\A d \in calls' : Waits(d))
  BY <1>1, CallFacts, AddressFacts, Lists, RestWaits, ActiveSet, OffSet
<1>5. HistoryOK'
  BY <1>1, <1>3 DEF AccountTypes, HistoryOK
<1> QED
  BY <1>1, <1>4, <1>5, TypesAfterLanding

LEMMA DeleteLandsTyped ==
    ASSUME AccountTypes, Signed!DeletedStayAway, NEW c \in calls, Signed!DeleteLands(c)
    PROVE  AccountTypes' /\ Signed!DeletedStayAway'
<1> DEFINE f == IF c.mounted THEN [form EXCEPT !.deleting = FALSE] ELSE form
<1>1. /\ Signed!SetActive(Signed!NobodyActive, Signed!Rest(c), c.read, f)
      /\ slipped' = FALSE
      /\ UNCHANGED <<table, asked, meant, crossed, out, removed, revived>>
  BY DEF Signed!DeleteLands, Signed!Lands, Signed!Successor
<1>2. Fills(f)
  BY Lists, FlagFalls
<1> HIDE DEF f
<1>3. PageOK' /\ (\A d \in calls' : Waits(d))
  BY <1>1, <1>2, CallFacts, AddressFacts, Lists, RestWaits, ActiveSet
<1>4. HistoryOK'
  BY <1>1 DEF AccountTypes, HistoryOK
<1> QED
  BY <1>1, <1>3, <1>4, TypesAfterLanding

LEMMA AddressLandsTyped ==
    ASSUME AccountTypes, Signed!DeletedStayAway, NEW c \in calls, Signed!AddressLands(c)
    PROVE  AccountTypes' /\ Signed!DeletedStayAway'
<1> DEFINE a == [user |-> c.about, address |-> c.address]
           g == Signed!Shows(form, a)
           f == IF c.mounted THEN [g EXCEPT !.busy = FALSE] ELSE g
<1>1. /\ c.op = "address" /\ Signed!SetActive(a, Signed!Rest(c), list, f)
      /\ slipped' = FALSE
      /\ UNCHANGED <<table, asked, meant, crossed, out, removed, revived>>
  BY DEF Signed!AddressLands, Signed!Lands
<1>2. a \in Proper
  BY <1>1, SessionOfCall
<1> HIDE DEF a
<1>3. Fills(g)
  BY <1>2, Lists, ShowsFills
<1> HIDE DEF g
<1>4. Fills(f)
  BY <1>3, FlagFalls
<1> HIDE DEF f
<1>5. PageOK' /\ (\A d \in calls' : Waits(d))
  BY <1>1, <1>2, <1>4, Lists, RestWaits, ActiveSet
<1>6. HistoryOK'
  BY <1>1 DEF AccountTypes, HistoryOK
<1> QED
  BY <1>1, <1>5, <1>6, TypesAfterLanding

LEMMA RefreshLandsTyped ==
    ASSUME AccountTypes, Signed!DeletedStayAway, NEW c \in calls, Signed!RefreshLands(c)
    PROVE  AccountTypes' /\ Signed!DeletedStayAway'
<1> DEFINE a == [user |-> c.about, address |-> c.address]
<1>1. /\ c.op = "refresh"
      /\ \/ Signed!SetActive(a, Signed!Rest(c), list, form)
         \/ Signed!SetActive(Signed!NobodyActive, Signed!Rest(c), list, form)
      /\ slipped' = FALSE /\ UNCHANGED <<table, asked, crossed, removed, revived>>
      /\ out' \subseteq out \cup {c.about} /\ meant' \in {meant, Anonymous}
  BY DEF Signed!RefreshLands
<1>2. a \in Proper /\ c.about \in Accounts
  BY <1>1, SessionOfCall, CallFacts
<1> HIDE DEF a
<1>3. PageOK' /\ (\A d \in calls' : Waits(d))
  BY <1>1, <1>2, AddressFacts, Lists, RestWaits, ActiveSet
<1>4. HistoryOK'
  BY <1>1, <1>2, AddressFacts DEF AccountTypes, HistoryOK
<1> QED
  BY <1>1, <1>3, <1>4, TypesAfterLanding

LEMMA LooksTyped ==
    ASSUME AccountTypes, Signed!DeletedStayAway, NEW c \in calls,
           Signed!StartLands(c) \/ Signed!ValidateActiveUser(c)
    PROVE  AccountTypes' /\ Signed!DeletedStayAway'
<1>1. /\ \/ Signed!SetActive(Signed!NobodyActive, Signed!Rest(c), list, form)
         \/ Signed!SetOff(Signed!Rest(c), c.read, form)
         \/ Signed!SetOff(Signed!Rest(c), list, form)
      /\ UNCHANGED <<table, asked, meant, crossed, out, removed, revived>>
  BY DEF Signed!StartLands, Signed!ValidateActiveUser, Signed!Lands
<1>2. slipped' \in {slipped, FALSE}
  BY DEF Signed!StartLands, Signed!ValidateActiveUser
<1>3. PageOK' /\ (\A d \in calls' : Waits(d))
  BY <1>1, CallFacts, AddressFacts, Lists, RestWaits, ActiveSet, OffSet
<1>4. HistoryOK'
  BY <1>1, <1>2 DEF AccountTypes, HistoryOK
<1> QED
  BY <1>1, <1>3, <1>4, TypesAfterLanding

LEMMA FailureTyped ==
    ASSUME AccountTypes, Signed!DeletedStayAway, NEW c \in calls, Signed!CallFails(c)
    PROVE  AccountTypes' /\ Signed!DeletedStayAway'
<1>1. /\ calls' = calls \ {c}
      /\ UNCHANGED <<table, active, list, asked, meant, out, removed, revived>>
  BY DEF Signed!CallFails, Signed!Rest
<1>2. crossed' = TRUE /\ slipped' = (slipped \/ c.op = "refresh")
  BY DEF Signed!CallFails
<1>3. form' \in {form, [form EXCEPT !.busy = FALSE], [form EXCEPT !.deleting = FALSE]}
  BY DEF Signed!CallFails
<1>4. Fills(form') /\ form'.of = form.of
  BY <1>3, Lists, FlagFalls
<1>5. PageOK' /\ (\A d \in calls' : Waits(d))
  BY <1>1, <1>4 DEF AccountTypes, PageOK
<1>6. crossed' \in BOOLEAN /\ slipped' \in BOOLEAN
  BY <1>2
<1>7. HistoryOK'
  BY <1>1, <1>6 DEF AccountTypes, HistoryOK
<1> QED
  BY <1>1, <1>5, <1>7, TypesAfterLanding

-----------------------------------------------------------------------------
(* What the user does.                                                     *)

Sent(n, op, u, a) ==
    Waits(n) /\ n.op = op /\ n.at = "sent" /\ n.about = u /\ n.address = a

LEMMA NewCallSent ==
    ASSUME NEW op \in {"login", "delete", "address", "refresh"}, NEW a \in Proper, a.user \in Accounts
    PROVE  Sent(Signed!NewCall(op, a), op, a.user, a.address)
<1>1. "sent" \in Steps(op)
  BY StepsOf
<1>2. /\ a.user \in Signed!All /\ a.address \in Signed!Address
      /\ a.address \in Signed!AddressesOf(a.user)
  BY DEF Proper, Signed!Session
<1> DEFINE n == Signed!NewCall(op, a)
<1>3. n = [op |-> op, at |-> "sent", about |-> a.user, address |-> a.address, own |-> TRUE,
           read |-> {}, mounted |-> TRUE]
  BY DEF Signed!NewCall
<1>4. n \in Waiting
  BY <1>2, <1>3 DEF Waiting, AtAll
<1>5. n.op = op /\ n.at = "sent" /\ n.about = a.user /\ n.address = a.address
  BY <1>3
<1> HIDE DEF n
<1>6. Waits(n)
  BY <1>1, <1>2, <1>4, <1>5 DEF Waits
<1>7. Sent(n, op, a.user, a.address)
  BY <1>5, <1>6 DEF Sent
<1> QED
  BY <1>7 DEF n

LEMMA CallIs ==
    ASSUME NEW op \in {"login", "logout", "delete", "address", "refresh"}, NEW a \in Proper,
           NEW n, n = Signed!NewCall(op, a)
    PROVE  n \in Waiting /\ n.op = op /\ n.at = "sent" /\ n.address = a.address
<1>1. n = [op |-> op, at |-> "sent", about |-> a.user, address |-> a.address, own |-> TRUE,
           read |-> {}, mounted |-> TRUE]
  BY DEF Signed!NewCall
<1>2. a.user \in Signed!All /\ a.address \in Signed!Address
  BY DEF Proper, Signed!Session
<1> QED
  BY <1>1, <1>2 DEF Waiting, AtAll

LEMMA LogoutSent ==
    ASSUME NEW u \in Accounts, NEW o \in BOOLEAN,
           NEW n, n = [Signed!NewCall("logout", Signed!NobodyActive) EXCEPT !.about = u, !.own = o]
    PROVE  Sent(n, "logout", u, Signed!NoAddress) /\ (n.own <=> o)
<1> DEFINE b == Signed!NewCall("logout", Signed!NobodyActive)
<1>1. b \in Waiting /\ b.op = "logout" /\ b.at = "sent"
      /\ b.address = Signed!NobodyActive.address
  BY CallIs, AddressFacts
<1>4. b.op = "logout" /\ b.at = "sent" /\ b.address = Signed!NoAddress
  BY <1>1, AddressFacts
<1>5. n = [b EXCEPT !.about = u, !.own = o]
  OBVIOUS
<1> HIDE DEF b
<1>6. u \in Signed!All
  BY DEF Signed!All
<1>7. n \in Waiting /\ n.about = u /\ n.op = b.op /\ n.at = b.at /\ n.address = b.address
  BY <1>1, <1>5, <1>6 DEF Waiting
<1>8. n.own = o
  BY <1>1, <1>5 DEF Waiting
<1>9. "sent" \in Steps("logout")
  BY StepsOf
<1>10. Waits(n)
  BY <1>4, <1>7, <1>9 DEF Waits
<1> QED
  BY <1>4, <1>7, <1>8, <1>10 DEF Sent

LEMMA AddressSent ==
    ASSUME NEW a \in Proper, a.user \in Accounts, NEW x \in Signed!AddressesOf(a.user),
           NEW n, n = [Signed!NewCall("address", a) EXCEPT !.address = x]
    PROVE  Sent(n, "address", a.user, x)
<1> DEFINE b == Signed!NewCall("address", a)
<1>1. Sent(b, "address", a.user, a.address)
  BY NewCallSent
<1>2. n = [b EXCEPT !.address = x]
  OBVIOUS
<1> HIDE DEF b
<1>3. a.user \in Signed!All /\ x \in Signed!Address
  BY AddressFacts DEF Signed!All
<1>4. b \in Waiting
  BY <1>1 DEF Sent, Waits
<1>5. n \in Waiting /\ n.address = x /\ n.op = b.op /\ n.at = b.at /\ n.about = b.about
  BY <1>2, <1>3, <1>4 DEF Waiting
<1>6. Waits(n)
  BY <1>1, <1>5 DEF Waits, Sent
<1> QED
  BY <1>1, <1>5, <1>6 DEF Sent

(* A handler begins: what it is and what is meant by it.                   *)
Starts(n, who) ==
    /\ calls' = calls \cup {n} /\ meant' = who
    /\ crossed' = (calls # {} \/ slipped \/ (crossed /\ n.op = "address"))

LEMMA ActiveFacts ==
    ASSUME AccountTypes
    PROVE  /\ active.user \in Signed!All /\ active.address \in Signed!AddressesOf(active.user)
           /\ active.user # Anonymous => active.user \in Accounts
           /\ \A s \in list : s.user \in Signed!All
  BY DEF AccountTypes, PageOK, Proper, Signed!Session, Signed!All

LEMMA LoginBegins ==
    ASSUME AccountTypes, NEW u \in Accounts, NEW a, Signed!Login(u, a)
    PROVE  \E n : Sent(n, "login", u, a) /\ Starts(n, u)
<1> DEFINE s == [user |-> u, address |-> a]
<1>1. a \in Signed!AddressesOf(u) /\ Signed!Begins(Signed!NewCall("login", s), u)
  BY DEF Signed!Login
<1>2. s \in Proper /\ s.user = u /\ s.address = a
  BY <1>1, AddressFacts DEF Proper, Signed!Session
<1> HIDE DEF s
<1>3. Sent(Signed!NewCall("login", s), "login", u, a)
  BY <1>2, NewCallSent
<1>4. Starts(Signed!NewCall("login", s), u)
  BY <1>1 DEF Signed!Begins, Signed!Overlaps, Starts
<1> QED
  BY <1>3, <1>4

LEMMA LogoutBegins ==
    ASSUME AccountTypes, NEW u \in Accounts, Signed!LogoutUser(u)
    PROVE  \E n : /\ Sent(n, "logout", u, Signed!NoAddress) /\ (n.own <=> u = active.user)
                  /\ Starts(n, IF u = active.user THEN Anonymous ELSE active.user)
<1> DEFINE o == u = active.user
           n == [Signed!NewCall("logout", Signed!NobodyActive) EXCEPT !.about = u, !.own = o]
<1>1. Signed!Begins(n, IF o THEN Anonymous ELSE active.user)
  BY DEF Signed!LogoutUser
<1>2. o \in BOOLEAN
  OBVIOUS
<1> HIDE DEF o
<1>3. n = [Signed!NewCall("logout", Signed!NobodyActive) EXCEPT !.about = u, !.own = o]
  OBVIOUS
<1> HIDE DEF n
<1>4. Sent(n, "logout", u, Signed!NoAddress) /\ (n.own <=> o)
  BY <1>2, <1>3, LogoutSent
<1>5. Starts(n, IF o THEN Anonymous ELSE active.user)
  BY <1>1 DEF Signed!Begins, Signed!Overlaps, Starts
<1> QED
  BY <1>4, <1>5 DEF o

LEMMA DeletionBegins ==
    ASSUME AccountTypes, NEW s \in asked, Signed!DeleteUser(s)
    PROVE  \E n : Sent(n, "delete", s.user, s.address) /\ Starts(n, Anonymous)
<1>1. Signed!Begins(Signed!NewCall("delete", s), Anonymous)
  BY DEF Signed!DeleteUser
<1>2. s \in Proper /\ s.user \in Accounts
  BY DEF AccountTypes, PageOK
<1>3. Sent(Signed!NewCall("delete", s), "delete", s.user, s.address)
  BY <1>2, NewCallSent
<1>4. Starts(Signed!NewCall("delete", s), Anonymous)
  BY <1>1 DEF Signed!Begins, Signed!Overlaps, Starts
<1> QED
  BY <1>3, <1>4

LEMMA RefreshBegins ==
    ASSUME AccountTypes, Signed!RefreshActiveSession
    PROVE  /\ active.user \in Accounts
           /\ \E n : Sent(n, "refresh", active.user, active.address) /\ calls' = calls \cup {n}
<1>1. active.user # Anonymous /\ calls' = calls \cup {Signed!NewCall("refresh", active)}
  BY DEF Signed!RefreshActiveSession
<1>2. active \in Proper /\ active.user \in Accounts
  BY <1>1, ActiveFacts, Lists
<1> QED
  BY <1>1, <1>2, NewCallSent

LEMMA UpdateBegins ==
    ASSUME AccountTypes, Signed!HandleServerAddressUpdate, form.address # Signed!NoAddress
    PROVE  /\ active.user \in Accounts /\ form' = [form EXCEPT !.busy = TRUE]
           /\ \E n : Sent(n, "address", active.user, form.address) /\ Starts(n, active.user)
<1> DEFINE n == [Signed!NewCall("address", active) EXCEPT !.address = form.address]
<1>1. active.user # Anonymous /\ form' = [form EXCEPT !.busy = TRUE] /\ Signed!Begins(n, active.user)
  BY DEF Signed!HandleServerAddressUpdate, Signed!CanEditServerAddress
<1>2. active \in Proper /\ active.user \in Accounts
  BY <1>1, ActiveFacts, Lists
<1>3. form.address \in Signed!AddressesOf(active.user)
  BY DEF AccountTypes, PageOK, Fills
<1>4. n = [Signed!NewCall("address", active) EXCEPT !.address = form.address]
  OBVIOUS
<1> HIDE DEF n
<1>5. Sent(n, "address", active.user, form.address)
  BY <1>2, <1>3, <1>4, AddressSent
<1>6. Starts(n, active.user)
  BY <1>1 DEF Signed!Begins, Signed!Overlaps, Starts
<1> QED
  BY <1>1, <1>2, <1>5, <1>6

LEMMA TypesAfterStart ==
    ASSUME AccountTypes, Signed!DeletedStayAway, NEW n, Waits(n), NEW who \in Signed!All, Starts(n, who),
           PageOK', UNCHANGED <<table, slipped, out, removed, revived>>
    PROVE  AccountTypes' /\ Signed!DeletedStayAway'
<1>1. \A d \in calls' : Waits(d)
  BY DEF Starts, AccountTypes
<1>2. crossed' \in BOOLEAN
  BY DEF Starts
<1>3. HistoryOK'
  BY <1>2 DEF Starts, AccountTypes, HistoryOK
<1> QED
  BY <1>1, <1>3, TypesAfterLanding

LEMMA UserTyped ==
    ASSUME AccountTypes, Signed!DeletedStayAway
    PROVE  /\ \A u \in Accounts : \A a : Signed!Login(u, a) => AccountTypes' /\ Signed!DeletedStayAway'
           /\ \A u \in Accounts : Signed!LogoutUser(u) => AccountTypes' /\ Signed!DeletedStayAway'
           /\ \A s \in asked : Signed!DeleteUser(s) => AccountTypes' /\ Signed!DeletedStayAway'
           /\ Signed!HandleServerAddressUpdate => AccountTypes' /\ Signed!DeletedStayAway'
           /\ Signed!RefreshActiveSession => AccountTypes' /\ Signed!DeletedStayAway'
<1>1. ASSUME NEW u \in Accounts, NEW a, Signed!Login(u, a)
      PROVE  AccountTypes' /\ Signed!DeletedStayAway'
  <2>1. UNCHANGED <<table, active, list, form, asked, slipped, out, removed, revived>>
    BY <1>1 DEF Signed!Login
  <2>2. u \in Signed!All /\ \E n : Waits(n) /\ Starts(n, u)
    BY <1>1, LoginBegins DEF Sent, Signed!All
  <2> QED
    BY <2>1, <2>2, PageKept, TypesAfterStart
<1>2. ASSUME NEW u \in Accounts, Signed!LogoutUser(u)
      PROVE  AccountTypes' /\ Signed!DeletedStayAway'
  <2>1. UNCHANGED <<table, active, list, form, asked, slipped, out, removed, revived>>
    BY <1>2 DEF Signed!LogoutUser
  <2> DEFINE who == IF u = active.user THEN Anonymous ELSE active.user
  <2>2. who \in Signed!All /\ \E n : Waits(n) /\ Starts(n, who)
    BY <1>2, LogoutBegins, ActiveFacts, AddressFacts DEF Sent
  <2> HIDE DEF who
  <2> QED
    BY <2>1, <2>2, PageKept, TypesAfterStart
<1>3. ASSUME NEW s \in asked, Signed!DeleteUser(s)
      PROVE  AccountTypes' /\ Signed!DeletedStayAway'
  <2>1. /\ UNCHANGED <<table, active, list, slipped, out, removed, revived>>
        /\ asked' = asked \ {s} /\ form' = [form EXCEPT !.deleting = TRUE]
    BY <1>3 DEF Signed!DeleteUser
  <2>2. Fills(form') /\ form'.of = form.of
    BY <2>1, Lists, FlagFalls
  <2>3. PageOK'
    BY <2>1, <2>2 DEF AccountTypes, PageOK
  <2>4. \E n : Waits(n) /\ Starts(n, Anonymous)
    BY <1>3, DeletionBegins DEF Sent
  <2> QED
    BY <2>1, <2>3, <2>4, AddressFacts, TypesAfterStart
<1>4. ASSUME Signed!HandleServerAddressUpdate PROVE AccountTypes' /\ Signed!DeletedStayAway'
  <2>1. UNCHANGED <<table, active, list, asked, slipped, out, removed, revived>>
    BY <1>4 DEF Signed!HandleServerAddressUpdate
  <2>2. CASE form.address = Signed!NoAddress
    <3>1. UNCHANGED <<form, calls, meant, crossed>>
      BY <1>4, <2>2 DEF Signed!HandleServerAddressUpdate
    <3>2. PageOK' /\ (\A d \in calls' : Waits(d)) /\ HistoryOK'
      BY <2>1, <3>1 DEF AccountTypes, PageOK, HistoryOK
    <3> QED
      BY <2>1, <3>2, TypesAfterLanding
  <2>3. CASE form.address # Signed!NoAddress
    <3>1. /\ active.user \in Signed!All /\ form' = [form EXCEPT !.busy = TRUE]
          /\ \E n : Waits(n) /\ Starts(n, active.user)
      BY <1>4, <2>3, UpdateBegins, ActiveFacts DEF Sent
    <3>2. Fills(form') /\ form'.of = form.of
      BY <3>1, Lists, FlagFalls
    <3>3. PageOK'
      BY <2>1, <3>2 DEF AccountTypes, PageOK
    <3> QED
      BY <2>1, <3>1, <3>3, TypesAfterStart
  <2> QED
    BY <2>2, <2>3
<1>5. ASSUME Signed!RefreshActiveSession PROVE AccountTypes' /\ Signed!DeletedStayAway'
  <2>1. /\ UNCHANGED <<table, active, list, form, asked, meant, slipped, out, removed, revived>>
        /\ crossed' = (crossed \/ calls # {})
    BY <1>5 DEF Signed!RefreshActiveSession, Signed!Overlaps
  <2>2. \A d \in calls' : Waits(d)
    BY <1>5, RefreshBegins DEF Sent, AccountTypes
  <2>3. crossed' \in BOOLEAN
    BY <2>1
  <2>4. HistoryOK'
    BY <2>1, <2>3 DEF AccountTypes, HistoryOK
  <2> QED
    BY <2>1, <2>2, <2>4, PageKept, TypesAfterLanding
<1> QED
  BY <1>1, <1>2, <1>3, <1>4, <1>5

LEMMA SwitchTyped ==
    ASSUME AccountTypes, Signed!DeletedStayAway, NEW s \in list, Signed!HandleSwitch(s)
    PROVE  AccountTypes' /\ Signed!DeletedStayAway'
<1>1. /\ Signed!SetActive(s, calls, list, form)
      /\ meant' = (IF table[s.user].signedIn THEN s.user ELSE Anonymous)
      /\ slipped' = FALSE /\ UNCHANGED <<table, asked, out, removed, revived>>
  BY DEF Signed!HandleSwitch
<1>2. crossed' = (calls # {} \/ crossed)
  BY DEF Signed!HandleSwitch, Signed!Overlaps
<1>3. crossed' \in BOOLEAN
  BY <1>2
<1>4. s \in Proper /\ s.user \in Signed!All /\ \A d \in calls : Waits(d)
  BY ActiveFacts, Lists DEF AccountTypes
<1>5. PageOK' /\ (\A d \in calls' : Waits(d))
  BY <1>1, <1>4, Lists, ActiveSet
<1>6. HistoryOK'
  BY <1>1, <1>3, <1>4, AddressFacts DEF AccountTypes, HistoryOK
<1> QED
  BY <1>1, <1>5, <1>6, TypesAfterLanding

LEMMA SettingsTyped ==
    ASSUME AccountTypes, Signed!DeletedStayAway,
           \/ \E a \in Signed!Address : Signed!TypeAddress(a)
           \/ Signed!HandleDeleteAccount
           \/ \E s \in asked : Signed!Cancel(s)
    PROVE  AccountTypes' /\ Signed!DeletedStayAway'
<1>1. UNCHANGED <<table, active, list, calls, meant, crossed, slipped, out, removed, revived>>
  BY DEF Signed!TypeAddress, Signed!HandleDeleteAccount, Signed!Cancel, Signed!Ghosts
<1>2. ASSUME \E a \in Signed!Address : Signed!TypeAddress(a) PROVE PageOK'
  <2>1. PICK a \in Signed!Address : Signed!TypeAddress(a)
    BY <1>2
  <2>2. /\ a \in Signed!AddressesOf(active.user) \cup {Signed!NoAddress}
        /\ form' = [form EXCEPT !.address = a] /\ asked' = asked
    BY <2>1 DEF Signed!TypeAddress
  <2>3. form \in Entered /\ form.of = active.user
    BY DEF AccountTypes, PageOK, Fills
  <2>4. form' \in Entered /\ form'.address = a /\ form'.of = form.of
    BY <2>2, <2>3 DEF Entered
  <2> QED
    BY <1>1, <2>2, <2>3, <2>4 DEF AccountTypes, PageOK, Fills
<1>3. ASSUME Signed!HandleDeleteAccount PROVE PageOK'
  <2>1. asked' = asked \cup {active} /\ active.user # Anonymous /\ form' = form
    BY <1>3 DEF Signed!HandleDeleteAccount, Signed!CanEditServerAddress
  <2> QED
    BY <1>1, <2>1, ActiveFacts DEF AccountTypes, PageOK
<1>4. ASSUME \E s \in asked : Signed!Cancel(s) PROVE PageOK'
  <2>1. asked' \subseteq asked /\ form' = form
    BY <1>4 DEF Signed!Cancel
  <2> QED
    BY <1>1, <2>1 DEF AccountTypes, PageOK
<1>5. PageOK'
  BY <1>2, <1>3, <1>4
<1>6. (\A d \in calls' : Waits(d)) /\ HistoryOK'
  BY <1>1 DEF AccountTypes, HistoryOK
<1> QED
  BY <1>1, <1>5, <1>6, TypesAfterLanding

Like(n, c) ==
    /\ n.op = c.op /\ n.at = c.at /\ n.about = c.about /\ n.address = c.address
    /\ n.own = c.own /\ n.read = c.read

LEMMA Remounted ==
    ASSUME NEW c, Waits(c), NEW b \in BOOLEAN, NEW n, n = [c EXCEPT !.mounted = b]
    PROVE  Waits(n) /\ Like(n, c)
<1>1. n \in Waiting /\ Like(n, c)
  BY DEF Waits, Waiting, Like
<1> QED
  BY <1>1 DEF Waits, Like

LEMMA EmptyFills ==
    ASSUME NEW a \in Proper
    PROVE  Fills(Signed!EmptyForm(a)) /\ Signed!EmptyForm(a).of = a.user
<1>1. a.user \in Signed!All
  BY DEF Proper, Signed!Session
<1> DEFINE f == Signed!EmptyForm(a)
<1>2. f = [address |-> Signed!NoAddress, of |-> a.user, busy |-> FALSE, deleting |-> FALSE]
  BY DEF Signed!EmptyForm
<1>3. f \in Entered
  BY <1>1, <1>2, AddressFacts DEF Entered
<1>4. f.address = Signed!NoAddress /\ f.of = a.user
  BY <1>2
<1> HIDE DEF f
<1>5. Fills(f) /\ f.of = a.user
  BY <1>3, <1>4 DEF Fills
<1> QED
  BY <1>5 DEF f

(* The settings are entered again: each call goes on, with its page or     *)
(* without.                                                                *)
Resumed(c) == [c EXCEPT !.mounted = c.op \notin {"address", "delete"}]

LEMMA ReenterDoes ==
    ASSUME AccountTypes, Signed!Reenter
    PROVE  /\ calls' = {Resumed(c) : c \in calls}
           /\ \A c \in calls : Waits(Resumed(c)) /\ Like(Resumed(c), c)
<1>1. calls' = {Resumed(c) : c \in calls}
  BY DEF Signed!Reenter, Resumed
<1>2. ASSUME NEW c \in calls PROVE Waits(Resumed(c)) /\ Like(Resumed(c), c)
  <2> DEFINE b == c.op \notin {"address", "delete"}
  <2>1. b \in BOOLEAN /\ Waits(c)
    BY DEF AccountTypes
  <2>2. Resumed(c) = [c EXCEPT !.mounted = b]
    BY DEF Resumed
  <2> HIDE DEF b
  <2> QED
    BY <2>1, <2>2, Remounted
<1> QED
  BY <1>1, <1>2

(* The application has started: the list is read, the account looked up.   *)
LEMMA RestartDoes ==
    ASSUME AccountTypes, Signed!Restart
    PROVE  \E n : /\ Waits(n) /\ n.op = "start" /\ n.at = "list"
                  /\ calls' = {n} \cup Signed!Checks(active)
<1> DEFINE n == BegunAt("start", Signed!NobodyActive, "list")
<1>1. calls' = {n} \cup Signed!Checks(active)
  BY DEF Signed!Restart, Signed!StartsWith, BegunAt
<1>2. Begun(n, "start", Signed!NobodyActive, "list")
  BY StepsOf, AddressFacts, NewCalls DEF n
<1> HIDE DEF n
<1> QED
  BY <1>1, <1>2 DEF Begun

LEMMA LifeTyped ==
    ASSUME AccountTypes, Signed!DeletedStayAway, Signed!Reenter \/ Signed!Restart
    PROVE  AccountTypes' /\ Signed!DeletedStayAway'
<1>1. ASSUME Signed!Reenter PROVE AccountTypes' /\ Signed!DeletedStayAway'
  <2>1. /\ form' = Signed!EmptyForm(active) /\ asked' = {}
        /\ UNCHANGED <<table, active, list, meant, crossed, slipped, out, removed, revived>>
    BY <1>1 DEF Signed!Reenter, Signed!Ghosts
  <2>2. PageOK'
    BY <2>1, Lists, EmptyFills DEF PageOK
  <2>3. \A d \in calls' : Waits(d)
    BY <1>1, ReenterDoes
  <2>4. HistoryOK'
    BY <2>1 DEF AccountTypes, HistoryOK
  <2> QED
    BY <2>1, <2>2, <2>3, <2>4, TypesAfterLanding
<1>2. ASSUME Signed!Restart PROVE AccountTypes' /\ Signed!DeletedStayAway'
  <2>1. /\ form' = Signed!EmptyForm(active) /\ asked' = {} /\ list' = {}
        /\ meant' \in {active.user, Anonymous}
        /\ crossed' = FALSE /\ slipped' = FALSE /\ out' = {}
        /\ UNCHANGED <<table, active, removed, revived>>
    BY <1>2 DEF Signed!Restart
  <2>2. PageOK'
    BY <2>1, Lists, EmptyFills DEF PageOK
  <2>3. \A d \in calls' : Waits(d)
    BY <1>2, RestartDoes, Lists, ChecksAre
  <2>4. HistoryOK'
    BY <2>1, ActiveFacts, AddressFacts DEF AccountTypes, HistoryOK
  <2> QED
    BY <2>1, <2>2, <2>3, <2>4, TypesAfterLanding
<1> QED
  BY <1>1, <1>2

LEMMA AccountsTyped ==
    ASSUME AccountTypes, Signed!DeletedStayAway, Signed!Next
    PROVE  AccountTypes' /\ Signed!DeletedStayAway'
<1>1. CASE \E c \in calls :
              \/ Signed!LoginSaves(c) \/ Signed!SetUserLoginStatus(c) \/ Signed!DeleteUserWithData(c)
              \/ Signed!UpdateUserServerAddress(c) \/ Signed!ClearInvalidSession(c)
              \/ Signed!RefreshSaves(c, "saved") \/ Signed!RefreshSaves(c, "refused")
              \/ Signed!ReadUsers(c) \/ Signed!ReadFails(c)
              \/ Signed!LoginLands(c) \/ Signed!LogoutLands(c) \/ Signed!DeleteLands(c) \/ Signed!AddressLands(c)
              \/ Signed!RefreshLands(c) \/ Signed!StartLands(c) \/ Signed!ValidateActiveUser(c)
              \/ Signed!CallFails(c)
  BY <1>1, LoginSavesTyped, StatusTyped, DeletionTyped, AddressTyped, ClearingTyped, RefreshTyped,
     ReadingTyped, LoginTyped, LogoutTyped, DeleteLandsTyped, AddressLandsTyped, RefreshLandsTyped,
     LooksTyped, FailureTyped
<1> QED
  BY <1>1, UserTyped, SwitchTyped, SettingsTyped, LifeTyped DEF Signed!Next

-----------------------------------------------------------------------------
(* Whoever is active is signed in, or a handler that waits will see to it. *)

Covers(c, u) ==
    \/ c.op = "check" /\ c.about = u
         /\ \/ c.at = "list"
            \/ c.at = "read" /\ u \notin Signed!UsersOf(c.read) /\ Anonymous \in Signed!UsersOf(c.read)
    \/ c.op = "logout" /\ c.about = u /\ c.at \in {"list", "read"}
    \/ c.op = "delete" /\ c.at \in {"list", "read"}
    \/ c.op = "refresh" /\ c.at = "cleared"

ActiveInv == ~slipped => table[active.user].signedIn \/ \E c \in calls : Covers(c, active.user)

LEMMA AnonymousStays ==
    ASSUME AccountTypes PROVE table[Anonymous].signedIn /\ table[Anonymous].address = Signed!NoAddress
  BY DEF AccountTypes, TableOK

LEMMA ActiveAfterSet ==
    ASSUME AccountTypes, NEW a \in Proper, NEW rest, NEW l, NEW f, Signed!SetActive(a, rest, l, f),
           table' = table
    PROVE  ActiveInv'
<1>1. active' = a /\ calls' = rest \cup Signed!Checks(a)
  BY DEF Signed!SetActive
<1>2. CASE a.user = Anonymous
  BY <1>1, <1>2, AnonymousStays DEF ActiveInv
<1>3. CASE a.user # Anonymous
  <2>1. PICK c \in Signed!Checks(a) : TRUE
    BY <1>3, ChecksAre
  <2>2. Covers(c, a.user)
    BY ChecksAre DEF Covers
  <2> QED
    BY <1>1, <2>2 DEF ActiveInv
<1> QED
  BY <1>2, <1>3

(* A step of one handler, while the same account stays active.             *)
LEMMA ActiveAfterMove ==
    ASSUME ActiveInv, NEW c \in calls, NEW at, NEW r, Moves(c, at, r), active' = active,
           slipped => slipped',
           \A n : Stepped(n, c, at, r) /\ Covers(c, active.user) /\ ~slipped' =>
                     Covers(n, active.user) \/ table'[active.user].signedIn,
           \A n : Stepped(n, c, at, r) /\ table[active.user].signedIn =>
                     table'[active.user].signedIn \/ Covers(n, active.user)
    PROVE  ActiveInv'
<1>1. PICK n : Stepped(n, c, at, r) /\ calls' = (calls \ {c}) \cup {n}
  BY DEF Moves
<1> QED
  BY <1>1 DEF ActiveInv

LEMMA WritesKeepActive ==
    ASSUME AccountTypes, NEW u \in Accounts, NEW h, NEW s, NEW a, Writes(table', u, h, s, a)
    PROVE  /\ active.user # u => table'[active.user] = table[active.user]
           /\ active.user = u => (table'[active.user].signedIn <=> s)
  BY ActiveFacts DEF Writes

LEMMA WritesActive ==
    ASSUME AccountTypes, ActiveInv, NEW c \in calls,
           \/ Signed!LoginSaves(c) \/ Signed!SetUserLoginStatus(c) \/ Signed!DeleteUserWithData(c)
           \/ Signed!UpdateUserServerAddress(c) \/ Signed!ClearInvalidSession(c)
           \/ \E at \in {"saved", "refused"} : Signed!RefreshSaves(c, at)
    PROVE  ActiveInv'
<1>1. ASSUME Signed!LoginSaves(c) PROVE ActiveInv'
  <2>1. c.op = "login" /\ active' = active /\ slipped' = slipped
    BY <1>1 DEF Signed!LoginSaves
  <2>2. /\ Moves(c, "saved", c.read) /\ c.about \in Accounts
        /\ Writes(table', c.about, TRUE, table[c.about].signedIn, c.address)
    BY <1>1, <2>1, LoginSavesDoes, CallFacts
  <2>3. table[active.user].signedIn => table'[active.user].signedIn
    BY <2>2, WritesKeepActive
  <2>4. ~Covers(c, active.user)
    BY <2>1 DEF Covers
  <2> QED
    BY <2>1, <2>2, <2>3, <2>4, ActiveAfterMove
<1>2. ASSUME Signed!SetUserLoginStatus(c) PROVE ActiveInv'
  <2> DEFINE s == c.op = "login" /\ table[c.about].here
  <2>1. /\ \/ c.op = "login" /\ c.at = "saved"
           \/ c.op = "logout" /\ c.at = "sent"
        /\ active' = active /\ slipped' = slipped
    BY <1>2 DEF Signed!SetUserLoginStatus
  <2>2. /\ Moves(c, "list", c.read) /\ c.about \in Accounts
        /\ Writes(table', c.about, table[c.about].here, s, table[c.about].address)
    BY <1>2, <2>1, StatusDoes, CallFacts
  <2>3. active.user = c.about /\ table[active.user].signedIn => table[c.about].here
    BY <2>2, RowsAre DEF AccountTypes
  <2>4. table[active.user].signedIn =>
           table'[active.user].signedIn \/ (c.op = "logout" /\ active.user = c.about)
    <3> HIDE DEF s
    <3>1. /\ active.user # c.about => table'[active.user] = table[active.user]
          /\ active.user = c.about => (table'[active.user].signedIn <=> s)
      BY <2>2, WritesKeepActive
    <3> QED
      BY <2>1, <2>3, <3>1 DEF s
  <2> HIDE DEF s
  <2>5. ~Covers(c, active.user)
    BY <2>1 DEF Covers
  <2>6. \A n : Stepped(n, c, "list", c.read) /\ c.op = "logout" /\ active.user = c.about =>
                  Covers(n, active.user)
    BY DEF Stepped, SameBut, Covers
  <2> QED
    BY <2>1, <2>2, <2>4, <2>5, <2>6, ActiveAfterMove
<1>3. ASSUME Signed!DeleteUserWithData(c) PROVE ActiveInv'
  <2>1. c.op = "delete" /\ active' = active /\ slipped' = slipped
    BY <1>3 DEF Signed!DeleteUserWithData
  <2>2. Moves(c, "list", c.read)
    BY <1>3, DeletionDoes
  <2>3. \A n : Stepped(n, c, "list", c.read) => Covers(n, active.user)
    BY <2>1 DEF Stepped, SameBut, Covers
  <2> QED
    BY <2>1, <2>2, <2>3, ActiveAfterMove
<1>4. ASSUME Signed!UpdateUserServerAddress(c) PROVE ActiveInv'
  <2>1. c.op = "address" /\ active' = active /\ slipped' = slipped
    BY <1>4 DEF Signed!UpdateUserServerAddress, Signed!Ghosts
  <2> DEFINE a == IF table[c.about].here THEN c.address ELSE table[c.about].address
  <2>2. /\ Moves(c, "saved", c.read) /\ c.about \in Accounts
        /\ Writes(table', c.about, table[c.about].here, table[c.about].signedIn, a)
    BY <1>4, <2>1, AddressDoes, CallFacts
  <2> HIDE DEF a
  <2>3. table[active.user].signedIn => table'[active.user].signedIn
    BY <2>2, WritesKeepActive
  <2>4. ~Covers(c, active.user)
    BY <2>1 DEF Covers
  <2> QED
    BY <2>1, <2>2, <2>3, <2>4, ActiveAfterMove
<1>5. ASSUME Signed!ClearInvalidSession(c) PROVE ActiveInv'
  <2>1. c.op = "refresh" /\ active' = active /\ slipped' = slipped
    BY <1>5 DEF Signed!ClearInvalidSession, Signed!Ghosts
  <2>2. Moves(c, "cleared", c.read)
    BY <1>5, ClearingDoes
  <2>3. \A n : Stepped(n, c, "cleared", c.read) => Covers(n, active.user)
    BY <2>1 DEF Stepped, SameBut, Covers
  <2> QED
    BY <2>1, <2>2, <2>3, ActiveAfterMove
<1>6. ASSUME NEW at \in {"saved", "refused"}, Signed!RefreshSaves(c, at) PROVE ActiveInv'
  <2>1. c.op = "refresh" /\ c.at = "sent" /\ active' = active /\ slipped' = slipped
    BY <1>6 DEF Signed!RefreshSaves
  <2>2. /\ Moves(c, at, c.read) /\ c.about \in Accounts
        /\ Writes(table', c.about, TRUE, table[c.about].signedIn, c.address)
    BY <1>6, <2>1, RefreshDoes, CallFacts
  <2>3. table[active.user].signedIn => table'[active.user].signedIn
    BY <2>2, WritesKeepActive
  <2>4. ~Covers(c, active.user)
    BY <2>1 DEF Covers
  <2> QED
    BY <2>1, <2>2, <2>3, <2>4, ActiveAfterMove
<1> QED
  BY <1>1, <1>2, <1>3, <1>4, <1>5, <1>6

LEMMA ReadsActive ==
    ASSUME AccountTypes, ActiveInv, NEW c \in calls, Signed!ReadUsers(c) \/ Signed!ReadFails(c)
    PROVE  ActiveInv'
<1>1. c.at = "list" /\ table' = table /\ active' = active
  BY DEF Signed!ReadUsers, Signed!ReadFails
<1>2. ASSUME Signed!ReadUsers(c) PROVE ActiveInv'
  <2>1. Moves(c, "read", Signed!SignedIn) /\ slipped' = slipped
    BY <1>2, ReadDoes DEF Signed!ReadUsers
  <2>2. /\ table[active.user].signedIn <=> active.user \in Signed!UsersOf(Signed!SignedIn)
        /\ Anonymous \in Signed!UsersOf(Signed!SignedIn)
    BY SignedInIs, ActiveFacts, AnonymousStays, AddressFacts
  <2>3. \A n : Stepped(n, c, "read", Signed!SignedIn) /\ Covers(c, active.user) =>
                  Covers(n, active.user) \/ table[active.user].signedIn
    BY <1>1, <2>2 DEF Stepped, SameBut, Covers
  <2> QED
    BY <1>1, <2>1, <2>3, ActiveAfterMove
<1>3. ASSUME Signed!ReadFails(c) PROVE ActiveInv'
  <2>1. Moves(c, "read", c.read) /\ slipped' = (slipped \/ c.op \in {"check", "logout"})
    BY <1>3, NoReadDoes DEF Signed!ReadFails
  <2>2. \A n : Stepped(n, c, "read", c.read) /\ Covers(c, active.user) /\ ~slipped' => Covers(n, active.user)
    BY <1>1, <2>1 DEF Stepped, SameBut, Covers
  <2>3. slipped => slipped'
    BY <2>1
  <2> QED
    BY <1>1, <2>1, <2>2, <2>3, ActiveAfterMove
<1> QED
  BY <1>2, <1>3

(* Calls that are left behind, of which none covered.                      *)
LEMMA ActiveAfterRest ==
    ASSUME ActiveInv, NEW c, calls \ {c} \subseteq calls', table' = table, active' = active,
           slipped => slipped', ~slipped' => ~Covers(c, active.user)
    PROVE  ActiveInv'
  BY DEF ActiveInv

LEMMA LandsActive ==
    ASSUME AccountTypes, ActiveInv, NEW c \in calls,
           \/ Signed!LoginLands(c) \/ Signed!LogoutLands(c) \/ Signed!DeleteLands(c) \/ Signed!AddressLands(c)
           \/ Signed!RefreshLands(c) \/ Signed!StartLands(c) \/ Signed!ValidateActiveUser(c)
           \/ Signed!CallFails(c)
    PROVE  ActiveInv'
<1> DEFINE a == [user |-> c.about, address |-> c.address]
<1>1. Signed!NobodyActive \in Proper /\ (c.op \in {"login", "address", "refresh"} => a \in Proper)
  BY SessionOfCall, AddressFacts
<1>2. ASSUME Signed!LoginLands(c) PROVE ActiveInv'
  <2>1. c.op = "login" /\ table' = table /\ Signed!SetActive(a, Signed!Rest(c), Signed!Refreshed(c), form)
    BY <1>2 DEF Signed!LoginLands, Signed!Lands
  <2> HIDE DEF a
  <2> QED
    BY <1>1, <2>1, ActiveAfterSet
<1>3. ASSUME Signed!LogoutLands(c) PROVE ActiveInv'
  <2>1. c.op = "logout" /\ table' = table
    BY <1>3 DEF Signed!LogoutLands, Signed!Lands
  <2>2. CASE c.own /\ Anonymous \in Signed!UsersOf(c.read)
    BY <1>1, <1>3, <2>1, <2>2, ActiveAfterSet DEF Signed!LogoutLands
  <2>3. CASE ~(c.own /\ Anonymous \in Signed!UsersOf(c.read))
    <3>1. /\ Signed!SetOff(Signed!Rest(c), c.read, form)
          /\ slipped' = (slipped \/ active.user = c.about)
      BY <1>3, <2>3 DEF Signed!LogoutLands
    <3>2. calls' = calls \ {c} /\ active' = active
      BY <3>1 DEF Signed!SetOff, Signed!Rest
    <3>3. (slipped => slipped') /\ (~slipped' => ~Covers(c, active.user))
      BY <2>1, <3>1 DEF Covers
    <3> QED
      BY <2>1, <3>2, <3>3, ActiveAfterRest
  <2> QED
    BY <2>2, <2>3
<1>4. ASSUME Signed!DeleteLands(c) PROVE ActiveInv'
  BY <1>1, <1>4, ActiveAfterSet DEF Signed!DeleteLands, Signed!Lands, Signed!Successor
<1>5. ASSUME Signed!AddressLands(c) PROVE ActiveInv'
  <2>1. c.op = "address" /\ table' = table /\ \E f : Signed!SetActive(a, Signed!Rest(c), list, f)
    BY <1>5 DEF Signed!AddressLands, Signed!Lands
  <2> HIDE DEF a
  <2> QED
    BY <1>1, <2>1, ActiveAfterSet
<1>6. ASSUME Signed!RefreshLands(c) PROVE ActiveInv'
  <2>1. /\ c.op = "refresh" /\ table' = table
        /\ \/ Signed!SetActive(a, Signed!Rest(c), list, form)
           \/ Signed!SetActive(Signed!NobodyActive, Signed!Rest(c), list, form)
    BY <1>6 DEF Signed!RefreshLands
  <2> HIDE DEF a
  <2> QED
    BY <1>1, <2>1, ActiveAfterSet
<1>7. ASSUME Signed!StartLands(c) PROVE ActiveInv'
  <2>1. c.op = "start" /\ table' = table /\ active' = active /\ calls' = calls \ {c} /\ slipped' = slipped
    BY <1>7 DEF Signed!StartLands, Signed!Lands, Signed!SetOff, Signed!Rest
  <2> QED
    BY <2>1, ActiveAfterRest DEF Covers
<1>8. ASSUME Signed!ValidateActiveUser(c) PROVE ActiveInv'
  <2>1. c.op = "check" /\ c.at = "read" /\ table' = table
    BY <1>8 DEF Signed!ValidateActiveUser, Signed!Lands
  <2>2. CASE c.about \notin Signed!UsersOf(c.read) /\ Anonymous \in Signed!UsersOf(c.read)
    BY <1>1, <1>8, <2>1, <2>2, ActiveAfterSet DEF Signed!ValidateActiveUser
  <2>3. CASE ~(c.about \notin Signed!UsersOf(c.read) /\ Anonymous \in Signed!UsersOf(c.read))
    <3>1. active' = active /\ calls' = calls \ {c} /\ slipped' = slipped
      BY <1>8, <2>3 DEF Signed!ValidateActiveUser, Signed!SetOff, Signed!Rest
    <3>2. ~Covers(c, active.user)
      BY <2>1, <2>3 DEF Covers
    <3> QED
      BY <2>1, <3>1, <3>2, ActiveAfterRest
  <2> QED
    BY <2>2, <2>3
<1>9. ASSUME Signed!CallFails(c) PROVE ActiveInv'
  <2>1. /\ c.at \notin {"list", "read", "cleared"} /\ calls' = calls \ {c}
        /\ table' = table /\ active' = active
    BY <1>9 DEF Signed!CallFails, Signed!Rest
  <2>2. slipped' = (slipped \/ c.op = "refresh")
    BY <1>9 DEF Signed!CallFails
  <2>3. (slipped => slipped') /\ ~Covers(c, active.user)
    BY <2>1, <2>2 DEF Covers
  <2> QED
    BY <2>1, <2>3, ActiveAfterRest
<1> QED
  BY <1>2, <1>3, <1>4, <1>5, <1>6, <1>7, <1>8, <1>9

LEMMA UserActive ==
    ASSUME AccountTypes, ActiveInv, Signed!Next,
           ~\E c \in calls :
              \/ Signed!LoginSaves(c) \/ Signed!SetUserLoginStatus(c) \/ Signed!DeleteUserWithData(c)
              \/ Signed!UpdateUserServerAddress(c) \/ Signed!ClearInvalidSession(c)
              \/ Signed!RefreshSaves(c, "saved") \/ Signed!RefreshSaves(c, "refused")
              \/ Signed!ReadUsers(c) \/ Signed!ReadFails(c)
              \/ Signed!LoginLands(c) \/ Signed!LogoutLands(c) \/ Signed!DeleteLands(c) \/ Signed!AddressLands(c)
              \/ Signed!RefreshLands(c) \/ Signed!StartLands(c) \/ Signed!ValidateActiveUser(c)
              \/ Signed!CallFails(c)
    PROVE  ActiveInv'
<1>1. ASSUME calls \subseteq calls', UNCHANGED <<table, active, slipped>> PROVE ActiveInv'
  BY <1>1 DEF ActiveInv
<1>2. ASSUME Signed!HandleServerAddressUpdate PROVE ActiveInv'
  <2>1. UNCHANGED <<table, active, slipped>> /\ calls \subseteq calls'
    BY <1>2 DEF Signed!HandleServerAddressUpdate, Signed!Begins
  <2> QED
    BY <1>1, <2>1
<1>3. ASSUME \/ Signed!HandleDeleteAccount \/ \E s \in asked : Signed!Cancel(s)
             \/ \E x \in Signed!Address : Signed!TypeAddress(x)
      PROVE  ActiveInv'
  <2>1. UNCHANGED <<table, active, slipped, calls>>
    BY <1>3 DEF Signed!HandleDeleteAccount, Signed!Cancel, Signed!TypeAddress, Signed!Ghosts
  <2> QED
    BY <1>1, <2>1
<1>4. ASSUME Signed!RefreshActiveSession PROVE ActiveInv'
  <2>1. UNCHANGED <<table, active, slipped>> /\ calls \subseteq calls'
    BY <1>4 DEF Signed!RefreshActiveSession
  <2> QED
    BY <1>1, <2>1
<1>5. ASSUME NEW s \in asked, Signed!DeleteUser(s) PROVE ActiveInv'
  <2>1. UNCHANGED <<table, active, slipped>> /\ calls \subseteq calls'
    BY <1>5 DEF Signed!DeleteUser, Signed!Begins
  <2> QED
    BY <1>1, <2>1
<1>6. ASSUME NEW u \in Accounts, Signed!LogoutUser(u) \/ \E x \in Signed!AddressesOf(u) : Signed!Login(u, x)
      PROVE  ActiveInv'
  <2>1. UNCHANGED <<table, active, slipped>> /\ calls \subseteq calls'
    BY <1>6 DEF Signed!LogoutUser, Signed!Login, Signed!Begins
  <2> QED
    BY <1>1, <2>1
<1>7. ASSUME NEW s \in list, Signed!HandleSwitch(s) PROVE ActiveInv'
  <2>1. table' = table /\ Signed!SetActive(s, calls, list, form) /\ s \in Proper
    BY <1>7, Lists DEF Signed!HandleSwitch
  <2> QED
    BY <2>1, ActiveAfterSet
<1>8. ASSUME Signed!Reenter PROVE ActiveInv'
  <2>1. UNCHANGED <<table, active, slipped>>
    BY <1>8 DEF Signed!Reenter, Signed!Ghosts
  <2>2. /\ calls' = {Resumed(c) : c \in calls}
        /\ \A c \in calls : Like(Resumed(c), c)
    BY <1>8, ReenterDoes
  <2>3. ASSUME NEW c \in calls, Covers(c, active.user) PROVE \E n \in calls' : Covers(n, active.user)
    BY <2>2, <2>3 DEF Like, Covers
  <2> QED
    BY <2>1, <2>3 DEF ActiveInv
<1>9. ASSUME Signed!Restart PROVE ActiveInv'
  <2>1. table' = table /\ active' = active /\ Signed!Checks(active) \subseteq calls'
    BY <1>9, RestartDoes DEF Signed!Restart
  <2>2. active \in Proper
    BY Lists
  <2>3. CASE active.user = Anonymous
    BY <2>1, <2>3, AnonymousStays DEF ActiveInv
  <2>4. CASE active.user # Anonymous
    <3>1. PICK c \in Signed!Checks(active) : TRUE
      BY <2>2, <2>4, ChecksAre
    <3>2. Covers(c, active.user)
      BY <2>2, ChecksAre DEF Covers
    <3> QED
      BY <2>1, <3>2 DEF ActiveInv
  <2> QED
    BY <2>3, <2>4
<1> QED
  BY <1>2, <1>3, <1>4, <1>5, <1>6, <1>7, <1>8, <1>9 DEF Signed!Next

LEMMA AccountsActive ==
    ASSUME AccountTypes, ActiveInv, Signed!Next PROVE ActiveInv'
  BY WritesActive, ReadsActive, LandsActive, UserActive

-----------------------------------------------------------------------------
(* While nothing overlaps: one handler that works for what is meant, or    *)
(* none but those that look at the table.                                  *)

IsIn(s) == table[s.user].signedIn /\ table[s.user].address = s.address
Matches(l, o) == \A s \in Proper : s.user \notin o => (s \in l <=> IsIn(s))

WorkOps == {"login", "logout", "delete", "address", "refresh"}

Works(c) ==
    /\ c.op \in WorkOps
    /\ c.at = "read" => c.read = Signed!SignedIn
    /\ c.op = "login" =>
          /\ meant = c.about
          /\ c.at # "sent" => table[c.about].here /\ table[c.about].address = c.address
          /\ c.at \in {"list", "read"} => table[c.about].signedIn
    /\ c.op = "logout" =>
          IF c.own THEN meant = Anonymous
          ELSE meant = active.user /\ active.user # c.about /\ table[active.user].signedIn
    /\ c.op = "delete" => meant = Anonymous
    /\ c.op \in {"address", "refresh"} =>
          /\ c.at \in {"sent", "saved"} =>
                meant = active.user /\ active.user = c.about /\ table[c.about].signedIn
          /\ c.at = "sent" => Matches(list, out)
          /\ c.at # "sent" => Matches(list, out \cup {c.about})
          /\ c.at = "saved" => /\ c.about \in Signed!UsersOf(list) \cup out
                               /\ table[c.about].address = c.address
Busy == \E c \in calls : calls = {c} /\ Works(c)

Idle ==
    /\ \A c \in calls : /\ c.op \in {"check", "start"}
                        /\ c.op = "check" => c.about = active.user
                        /\ c.at = "read" => c.read = Signed!SignedIn
    /\ \A c, d \in calls : c.op = "check" /\ d.op = "check" => c = d
    /\ meant = IF table[active.user].signedIn THEN active.user ELSE Anonymous
    /\ (\A c \in calls : c.op # "start") => Matches(list, out)

QuietInv == ~crossed => ~slipped /\ (Busy \/ Idle)

LEMMA BusyWith ==
    ASSUME QuietInv, ~crossed, NEW c \in calls, c.op \in WorkOps
    PROVE  ~slipped /\ calls = {c} /\ Works(c)
  BY DEF QuietInv, Busy, Idle, WorkOps

LEMMA IdleWith ==
    ASSUME QuietInv, ~crossed, \A c \in calls : c.op \notin WorkOps
    PROVE  ~slipped /\ Idle
  BY DEF QuietInv, Busy, Works

LEMMA IdleBeside ==
    ASSUME QuietInv, ~crossed, NEW c \in calls, c.op \in {"check", "start"}
    PROVE  ~slipped /\ Idle
  BY DEF QuietInv, Busy, Works, WorkOps

LEMMA ReadMatches ==
    ASSUME AccountTypes, NEW o PROVE Matches(Signed!SignedIn, o)
<1>1. \A s \in Signed!Session : s \in Signed!SignedIn <=> IsIn(s)
  BY SignedInIs DEF IsIn
<1> QED
  BY <1>1 DEF Matches, Proper

LEMMA SameSession ==
    ASSUME NEW s \in Proper, NEW a \in Proper, s.user = a.user, s.address = a.address PROVE s = a
  BY DEF Proper, Signed!Session

(* A list in which the active account has been put as it is.               *)
LEMMA PutMatches ==
    ASSUME NEW a \in Proper, NEW l \in SUBSET Proper, NEW o, Matches(l, o \cup {a.user}),
           a.user \notin o => IsIn(a) /\ \E s \in l : s.user = a.user,
           NEW m, m = {IF s.user = a.user THEN a ELSE s : s \in l}
    PROVE  Matches(m, o)
<1> SUFFICES ASSUME NEW s \in Proper, s.user \notin o PROVE s \in m <=> IsIn(s)
  BY DEF Matches
<1>1. CASE s.user # a.user
  BY <1>1, PutsIn DEF Matches
<1>2. CASE s.user = a.user
  <2>1. s \in m <=> s = a
    BY <1>2, PutsIn
  <2>2. IsIn(s) <=> s.address = a.address
    BY <1>2 DEF IsIn
  <2> QED
    BY <1>2, <2>1, <2>2, SameSession
<1> QED
  BY <1>1, <1>2

LEMMA NobodyIsIn ==
    ASSUME AccountTypes
    PROVE  /\ IsIn(Signed!NobodyActive)
           /\ \A o : Matches(list, o) /\ Anonymous \notin o => \E s \in list : s.user = Anonymous
<1>1. IsIn(Signed!NobodyActive)
  BY AnonymousStays, AddressFacts DEF IsIn
<1> QED
  BY <1>1, AddressFacts DEF Matches

LEMMA FewerOut ==
    ASSUME NEW l, NEW o, NEW x, Matches(l, o) PROVE Matches(l, o \cup x)
  BY DEF Matches

(* A landing leaves nobody but the look at whoever has become active.      *)
LEMMA LandsIdle ==
    ASSUME AccountTypes, NEW a \in Proper, active' = a, calls' = Signed!Checks(a), table' = table,
           Matches(list', out'), ~slipped',
           meant' = IF table[a.user].signedIn THEN a.user ELSE Anonymous
    PROVE  QuietInv'
<1>1. Matches(list, out)'
  BY DEF Matches, IsIn
<1>2. /\ \A c \in calls' : c.op = "check" /\ c.about = active'.user /\ c.at = "list"
      /\ \A c, d \in calls' : c = d
  BY ChecksAre
<1>3. Idle'
  BY <1>1, <1>2 DEF Idle
<1> QED
  BY <1>3 DEF QuietInv

(* The only handler takes a step.                                          *)
LEMMA BusyMoves ==
    ASSUME NEW c, calls = {c}, NEW at, NEW r, Moves(c, at, r), ~slipped',
           \A n : Stepped(n, c, at, r) => Works(n)'
    PROVE  QuietInv'
<1>1. PICK n : Stepped(n, c, at, r) /\ calls' = {n}
  BY DEF Moves
<1> QED
  BY <1>1 DEF QuietInv, Busy

(* Other rows than the one written are in or out as they were.             *)
LEMMA OthersMatch ==
    ASSUME AccountTypes, NEW u, NEW h, NEW s, NEW a, Writes(table', u, h, s, a), list' = list, out' = out,
           Matches(list, out) \/ Matches(list, out \cup {u})
    PROVE  Matches(list, out \cup {u})'
<1>1. \A x \in Proper : x.user # u => (IsIn(x) <=> IsIn(x)')
  BY DEF Writes, IsIn, Proper, Signed!Session
<1> QED
  BY <1>1 DEF Matches

LEMMA KeptMatches ==
    ASSUME NEW o, Matches(list, o), list' = list, table' = table PROVE Matches(list, o)'
  BY DEF Matches, IsIn

(* Who is signed in is in a list that matches.                             *)
LEMMA RegisteredIn ==
    ASSUME AccountTypes, NEW u \in Accounts, table[u].signedIn, Matches(list, out)
    PROVE  u \in Signed!UsersOf(list) \cup out
<1> DEFINE s == [user |-> u, address |-> table[u].address]
<1>1. u \in Signed!All /\ table[u].address \in Signed!AddressesOf(u)
  BY RowsAre DEF AccountTypes
<1>2. s \in Proper /\ s.user = u /\ s.address = table[u].address
  BY <1>1, AddressFacts DEF Proper, Signed!Session
<1> HIDE DEF s
<1>3. u \notin out => s \in list
  BY <1>2 DEF Matches, IsIn
<1> QED
  BY <1>2, <1>3 DEF Signed!UsersOf

LEMMA LoginSavesQuiet ==
    ASSUME AccountTypes, QuietInv, NEW c \in calls, Signed!LoginSaves(c) PROVE QuietInv'
<1>1. /\ c.op = "login" /\ UNCHANGED <<active, list, meant, crossed, slipped, out>>
  BY DEF Signed!LoginSaves
<1> SUFFICES ASSUME ~crossed PROVE QuietInv'
  BY <1>1 DEF QuietInv
<1>2. ~slipped /\ calls = {c} /\ Works(c)
  BY <1>1, BusyWith DEF WorkOps
<1>3. /\ Moves(c, "saved", c.read)
      /\ Writes(table', c.about, TRUE, table[c.about].signedIn, c.address)
  BY LoginSavesDoes
<1>4. ASSUME NEW n, Stepped(n, c, "saved", c.read) PROVE Works(n)'
  <2>1. n.op = "login" /\ n.at = "saved" /\ n.about = c.about /\ n.address = c.address
    BY <1>1, <1>4 DEF Stepped, SameBut
  <2>2. meant' = n.about /\ table'[n.about].here /\ table'[n.about].address = n.address
    BY <1>1, <1>2, <1>3, <2>1 DEF Works, Writes
  <2> QED
    BY <2>1, <2>2 DEF Works, WorkOps
<1> QED
  BY <1>1, <1>2, <1>3, <1>4, BusyMoves

LEMMA StatusQuiet ==
    ASSUME AccountTypes, QuietInv, NEW c \in calls, Signed!SetUserLoginStatus(c) PROVE QuietInv'
<1>1. /\ \/ c.op = "login" /\ c.at = "saved"
         \/ c.op = "logout" /\ c.at = "sent"
      /\ UNCHANGED <<active, list, meant, crossed, slipped, out>>
  BY DEF Signed!SetUserLoginStatus
<1> SUFFICES ASSUME ~crossed PROVE QuietInv'
  BY <1>1 DEF QuietInv
<1>2. ~slipped /\ calls = {c} /\ Works(c)
  BY <1>1, BusyWith DEF WorkOps
<1> DEFINE s == c.op = "login" /\ table[c.about].here
<1>3. /\ Moves(c, "list", c.read) /\ c.about \in Accounts
      /\ Writes(table', c.about, table[c.about].here, s, table[c.about].address)
  BY <1>1, StatusDoes, CallFacts
<1>4. ASSUME NEW n, Stepped(n, c, "list", c.read) PROVE Works(n)'
  <2>1. /\ n.op = c.op /\ n.at = "list" /\ n.about = c.about /\ n.address = c.address /\ n.own = c.own
    BY <1>4 DEF Stepped, SameBut
  <2>2. CASE c.op = "login"
    <3>1. s /\ table[c.about].here /\ table[c.about].address = c.address /\ meant = c.about
      BY <1>1, <1>2, <2>2 DEF Works
    <3> HIDE DEF s
    <3>2. /\ table'[c.about].here /\ table'[c.about].signedIn
          /\ table'[c.about].address = c.address /\ meant' = c.about
      BY <1>1, <1>3, <3>1 DEF Writes
    <3> QED
      BY <2>1, <2>2, <3>2 DEF Works, WorkOps
  <2>3. CASE c.op = "logout"
    <3> HIDE DEF s
    <3>1. ~c.own => table'[active.user].signedIn
      BY <1>2, <1>3, <2>3, WritesKeepActive DEF Works
    <3>2. IF n.own THEN meant' = Anonymous
          ELSE meant' = active'.user /\ active'.user # n.about /\ table'[active'.user].signedIn
      BY <1>1, <1>2, <2>1, <2>3, <3>1 DEF Works
    <3> QED
      BY <2>1, <2>3, <3>2 DEF Works, WorkOps
  <2> QED
    BY <1>1, <2>2, <2>3
<1> QED
  BY <1>1, <1>2, <1>3, <1>4, BusyMoves

LEMMA DeletionQuiet ==
    ASSUME AccountTypes, QuietInv, NEW c \in calls, Signed!DeleteUserWithData(c) PROVE QuietInv'
<1>1. /\ c.op = "delete" /\ UNCHANGED <<active, list, meant, crossed, slipped, out>>
  BY DEF Signed!DeleteUserWithData
<1> SUFFICES ASSUME ~crossed PROVE QuietInv'
  BY <1>1 DEF QuietInv
<1>2. ~slipped /\ calls = {c} /\ Works(c)
  BY <1>1, BusyWith DEF WorkOps
<1>3. Moves(c, "list", c.read)
  BY DeletionDoes
<1>4. ASSUME NEW n, Stepped(n, c, "list", c.read) PROVE Works(n)'
  BY <1>1, <1>2, <1>4 DEF Stepped, SameBut, Works, WorkOps
<1> QED
  BY <1>1, <1>2, <1>3, <1>4, BusyMoves

LEMMA AddressQuiet ==
    ASSUME AccountTypes, QuietInv, NEW c \in calls, Signed!UpdateUserServerAddress(c) PROVE QuietInv'
<1>1. c.op = "address" /\ c.at = "sent" /\ UNCHANGED <<active, list, meant, crossed, slipped, out>>
  BY DEF Signed!UpdateUserServerAddress, Signed!Ghosts
<1> SUFFICES ASSUME ~crossed PROVE QuietInv'
  BY <1>1 DEF QuietInv
<1>2. ~slipped /\ calls = {c} /\ Works(c)
  BY <1>1, BusyWith DEF WorkOps
<1> DEFINE a == IF table[c.about].here THEN c.address ELSE table[c.about].address
<1>3. /\ Moves(c, "saved", c.read) /\ c.about \in Accounts
      /\ Writes(table', c.about, table[c.about].here, table[c.about].signedIn, a)
  BY <1>1, AddressDoes, CallFacts
<1>4. /\ meant = active.user /\ active.user = c.about /\ table[c.about].signedIn /\ table[c.about].here
      /\ Matches(list, out)
  BY <1>1, <1>2, <1>3, RowsAre DEF Works, AccountTypes
<1>5. a = c.address
  BY <1>4
<1> HIDE DEF a
<1>6. c.about \in Signed!UsersOf(list) \cup out
  BY <1>3, <1>4, RegisteredIn
<1>7. Matches(list, out \cup {c.about})'
  BY <1>1, <1>3, <1>4, OthersMatch
<1>8. ASSUME NEW n, Stepped(n, c, "saved", c.read) PROVE Works(n)'
  <2>1. n.op = "address" /\ n.at = "saved" /\ n.about = c.about /\ n.address = c.address
    BY <1>1, <1>8 DEF Stepped, SameBut
  <2>2. /\ meant' = active'.user /\ active'.user = n.about /\ table'[n.about].signedIn
        /\ table'[n.about].address = n.address /\ n.about \in Signed!UsersOf(list') \cup out'
    BY <1>1, <1>3, <1>4, <1>5, <1>6, <2>1 DEF Writes
  <2>3. Matches(list, out \cup {n.about})'
    BY <1>7, <2>1 DEF Matches, IsIn
  <2> QED
    BY <2>1, <2>2, <2>3 DEF Works, WorkOps
<1> QED
  BY <1>1, <1>2, <1>3, <1>8, BusyMoves

LEMMA RefreshQuiet ==
    ASSUME AccountTypes, QuietInv, NEW c \in calls, NEW at \in {"saved", "refused"},
           Signed!RefreshSaves(c, at) PROVE QuietInv'
<1>1. c.op = "refresh" /\ c.at = "sent" /\ UNCHANGED <<active, list, meant, crossed, slipped, out>>
  BY DEF Signed!RefreshSaves
<1> SUFFICES ASSUME ~crossed PROVE QuietInv'
  BY <1>1 DEF QuietInv
<1>2. ~slipped /\ calls = {c} /\ Works(c)
  BY <1>1, BusyWith DEF WorkOps
<1>3. /\ Moves(c, at, c.read) /\ c.about \in Accounts
      /\ Writes(table', c.about, TRUE, table[c.about].signedIn, c.address)
  BY <1>1, RefreshDoes, CallFacts
<1>4. /\ meant = active.user /\ active.user = c.about /\ table[c.about].signedIn /\ Matches(list, out)
  BY <1>1, <1>2 DEF Works
<1>6. c.about \in Signed!UsersOf(list) \cup out
  BY <1>3, <1>4, RegisteredIn
<1>7. Matches(list, out \cup {c.about})'
  BY <1>1, <1>3, <1>4, OthersMatch
<1>8. ASSUME NEW n, Stepped(n, c, at, c.read) PROVE Works(n)'
  <2>1. n.op = "refresh" /\ n.at = at /\ n.about = c.about /\ n.address = c.address
    BY <1>1, <1>8 DEF Stepped, SameBut
  <2>2. /\ meant' = active'.user /\ active'.user = n.about /\ table'[n.about].signedIn
        /\ table'[n.about].address = n.address /\ n.about \in Signed!UsersOf(list') \cup out'
    BY <1>1, <1>3, <1>4, <1>6, <2>1 DEF Writes
  <2>3. Matches(list, out \cup {n.about})'
    BY <1>7, <2>1 DEF Matches, IsIn
  <2> QED
    BY <2>1, <2>2, <2>3 DEF Works, WorkOps
<1> QED
  BY <1>1, <1>2, <1>3, <1>8, BusyMoves

LEMMA ClearingQuiet ==
    ASSUME AccountTypes, QuietInv, NEW c \in calls, Signed!ClearInvalidSession(c) PROVE QuietInv'
<1>1. c.op = "refresh" /\ c.at = "refused" /\ UNCHANGED <<active, list, meant, crossed, slipped, out>>
  BY DEF Signed!ClearInvalidSession, Signed!Ghosts
<1> SUFFICES ASSUME ~crossed PROVE QuietInv'
  BY <1>1 DEF QuietInv
<1>2. ~slipped /\ calls = {c} /\ Works(c)
  BY <1>1, BusyWith DEF WorkOps
<1>3. /\ Moves(c, "cleared", c.read)
      /\ Writes(table', c.about, table[c.about].here, FALSE, table[c.about].address)
  BY ClearingDoes
<1>4. Matches(list, out \cup {c.about})
  BY <1>1, <1>2 DEF Works
<1>5. Matches(list, out \cup {c.about})'
  BY <1>1, <1>3, <1>4, OthersMatch
<1>6. ASSUME NEW n, Stepped(n, c, "cleared", c.read) PROVE Works(n)'
  <2>1. n.op = "refresh" /\ n.at = "cleared" /\ n.about = c.about
    BY <1>1, <1>6 DEF Stepped, SameBut
  <2>2. Matches(list, out \cup {n.about})'
    BY <1>5, <2>1 DEF Matches, IsIn
  <2> QED
    BY <2>1, <2>2 DEF Works, WorkOps
<1> QED
  BY <1>1, <1>2, <1>3, <1>6, BusyMoves

LEMMA ReadsQuiet ==
    ASSUME AccountTypes, QuietInv, NEW c \in calls, Signed!ReadUsers(c) PROVE QuietInv'
<1>1. /\ c.at = "list" /\ UNCHANGED <<table, active, list, meant, crossed, slipped>>
      /\ out' = IF c.op = "check" THEN out ELSE {}
  BY DEF Signed!ReadUsers
<1> SUFFICES ASSUME ~crossed PROVE QuietInv'
  BY <1>1 DEF QuietInv
<1>2. Moves(c, "read", Signed!SignedIn) /\ Signed!SignedIn' = Signed!SignedIn
  BY <1>1, ReadDoes DEF Signed!SignedIn
<1>3. Waits(c) /\ c.op \in WorkOps \cup {"check", "start"}
  BY CallFacts DEF Waits, Waiting, WorkOps
<1>4. CASE c.op \in WorkOps
  <2>1. ~slipped /\ calls = {c} /\ Works(c) /\ c.op \notin {"address", "refresh"}
    BY <1>1, <1>3, <1>4, BusyWith, StepsOf DEF Waits
  <2>2. ASSUME NEW n, Stepped(n, c, "read", Signed!SignedIn) PROVE Works(n)'
    <3>1. /\ n.op = c.op /\ n.at = "read" /\ n.about = c.about /\ n.address = c.address /\ n.own = c.own
          /\ n.read = Signed!SignedIn'
      BY <1>2, <2>2 DEF Stepped, SameBut
    <3> QED
      BY <1>1, <2>1, <3>1 DEF Works
  <2> QED
    BY <1>1, <1>2, <2>1, <2>2, BusyMoves
<1>5. CASE c.op \in {"check", "start"}
  <2>1. ~slipped /\ Idle
    BY <1>5, IdleBeside
  <2>2. PICK n : Stepped(n, c, "read", Signed!SignedIn) /\ calls' = (calls \ {c}) \cup {n}
    BY <1>2 DEF Moves
  <2>3. n.op = c.op /\ n.about = c.about /\ n.read = Signed!SignedIn'
    BY <1>2, <2>2 DEF Stepped, SameBut
  <2>4. \A d \in calls' : /\ d.op \in {"check", "start"}
                          /\ d.op = "check" => d.about = active'.user
                          /\ d.at = "read" => d.read = Signed!SignedIn'
    BY <1>1, <1>2, <1>5, <2>1, <2>2, <2>3 DEF Idle
  <2>5. \A d, e \in calls' : d.op = "check" /\ e.op = "check" => d = e
    BY <2>1, <2>2, <2>3 DEF Idle
  <2>6. ASSUME \A d \in calls' : d.op # "start" PROVE Matches(list, out)'
    <3>1. c.op = "check" /\ out' = out /\ \A d \in calls : d.op # "start"
      BY <1>1, <1>5, <2>2, <2>3, <2>6
    <3> QED
      BY <1>1, <2>1, <3>1 DEF Idle, Matches, IsIn
  <2>7. Idle'
    BY <1>1, <2>1, <2>4, <2>5, <2>6 DEF Idle
  <2> QED
    BY <1>1, <2>1, <2>7 DEF QuietInv
<1> QED
  BY <1>3, <1>4, <1>5

LEMMA LoginQuiet ==
    ASSUME AccountTypes, QuietInv, NEW c \in calls, Signed!LoginLands(c) PROVE QuietInv'
<1> DEFINE a == [user |-> c.about, address |-> c.address]
<1>1. /\ c.op = "login" /\ c.at = "read" /\ Signed!SetActive(a, Signed!Rest(c), c.read, form)
      /\ slipped' = FALSE /\ UNCHANGED <<table, meant, crossed, out>>
  BY DEF Signed!LoginLands, Signed!Lands, Signed!Refreshed
<1> SUFFICES ASSUME ~crossed PROVE QuietInv'
  BY <1>1 DEF QuietInv
<1>2. calls = {c} /\ Works(c)
  BY <1>1, BusyWith DEF WorkOps
<1>3. a \in Proper /\ a.user = c.about /\ a.address = c.address
  BY <1>1, SessionOfCall
<1> HIDE DEF a
<1>4. /\ c.read = Signed!SignedIn /\ meant = c.about
      /\ table[c.about].signedIn /\ table[c.about].address = c.address
  BY <1>1, <1>2 DEF Works
<1>5. IsIn(a) /\ \E s \in Signed!SignedIn : s.user = a.user
  BY <1>3, <1>4, CallFacts, SignedInIs DEF IsIn, Signed!UsersOf
<1>6. /\ active' = a /\ calls' = Signed!Checks(a)
      /\ list' = {IF s.user = a.user THEN a ELSE s : s \in Signed!SignedIn}
  BY <1>1, <1>2, <1>4 DEF Signed!SetActive, Signed!Rest
<1>7. Matches(list', out')
  BY <1>3, <1>5, <1>6, SignedInIs, ReadMatches, PutMatches
<1> QED
  BY <1>1, <1>3, <1>4, <1>6, <1>7, LandsIdle

(* The anonymous user's turn, with the list as it was read.                *)
LEMMA NobodysTurn ==
    ASSUME AccountTypes, NEW f, Signed!SetActive(Signed!NobodyActive, {}, Signed!SignedIn, f),
           UNCHANGED <<table, out>>, ~slipped', meant' = Anonymous
    PROVE  QuietInv'
<1> DEFINE a == Signed!NobodyActive
<1>1. a \in Proper /\ a.user = Anonymous /\ IsIn(a) /\ table[Anonymous].signedIn
  BY AddressFacts, NobodyIsIn, AnonymousStays
<1>2. /\ active' = a /\ calls' = Signed!Checks(a)
      /\ list' = {IF s.user = a.user THEN a ELSE s : s \in Signed!SignedIn}
  BY DEF Signed!SetActive
<1> HIDE DEF a
<1>3. \E s \in Signed!SignedIn : s.user = a.user
  BY <1>1, AddressFacts, SignedInIs DEF Signed!UsersOf
<1>4. Matches(list', out')
  BY <1>1, <1>2, <1>3, SignedInIs, ReadMatches, PutMatches
<1> QED
  BY <1>1, <1>2, <1>4, LandsIdle

LEMMA DeleteQuiet ==
    ASSUME AccountTypes, QuietInv, NEW c \in calls, Signed!DeleteLands(c) PROVE QuietInv'
<1> DEFINE f == IF c.mounted THEN [form EXCEPT !.deleting = FALSE] ELSE form
<1>1. /\ c.op = "delete" /\ c.at = "read"
      /\ Signed!SetActive(Signed!NobodyActive, Signed!Rest(c), c.read, f)
      /\ slipped' = FALSE /\ UNCHANGED <<table, meant, crossed, out>>
  BY DEF Signed!DeleteLands, Signed!Lands, Signed!Successor
<1> HIDE DEF f
<1> SUFFICES ASSUME ~crossed PROVE QuietInv'
  BY <1>1 DEF QuietInv
<1>2. calls = {c} /\ Works(c)
  BY <1>1, BusyWith DEF WorkOps
<1>3. c.read = Signed!SignedIn /\ meant = Anonymous /\ Signed!Rest(c) = {}
  BY <1>1, <1>2 DEF Works, Signed!Rest
<1> QED
  BY <1>1, <1>3, NobodysTurn

LEMMA LogoutQuiet ==
    ASSUME AccountTypes, QuietInv, NEW c \in calls, Signed!LogoutLands(c) PROVE QuietInv'
<1>1. /\ c.op = "logout" /\ c.at = "read" /\ UNCHANGED <<table, meant, crossed, out>>
  BY DEF Signed!LogoutLands, Signed!Lands
<1> SUFFICES ASSUME ~crossed PROVE QuietInv'
  BY <1>1 DEF QuietInv
<1>2. ~slipped /\ calls = {c} /\ Works(c)
  BY <1>1, BusyWith DEF WorkOps
<1>3. c.read = Signed!SignedIn /\ Signed!Rest(c) = {} /\ Anonymous \in Signed!UsersOf(c.read)
  BY <1>1, <1>2, SignedInIs, AnonymousStays, AddressFacts DEF Works, Signed!Rest
<1>4. CASE c.own
  <2>1. Signed!SetActive(Signed!NobodyActive, {}, Signed!SignedIn, form) /\ slipped' = FALSE
    BY <1>3, <1>4 DEF Signed!LogoutLands
  <2>2. meant' = Anonymous
    BY <1>1, <1>2, <1>4 DEF Works
  <2> QED
    BY <1>1, <2>1, <2>2, NobodysTurn
<1>5. CASE ~c.own
  <2>1. Signed!SetOff({}, Signed!SignedIn, form) /\ slipped' = (slipped \/ active.user = c.about)
    BY <1>3, <1>5 DEF Signed!LogoutLands
  <2>2. calls' = {} /\ list' = Signed!SignedIn /\ active' = active
    BY <2>1 DEF Signed!SetOff
  <2>3. meant = active.user /\ active.user # c.about /\ table[active.user].signedIn
    BY <1>1, <1>2, <1>5 DEF Works
  <2>4. ~slipped'
    BY <1>2, <2>1, <2>3
  <2>5. Matches(list, out)'
    BY <1>1, <2>2, ReadMatches DEF Matches, IsIn
  <2>6. Idle'
    BY <1>1, <2>2, <2>3, <2>5 DEF Idle
  <2> QED
    BY <2>4, <2>6 DEF QuietInv
<1> QED
  BY <1>4, <1>5

LEMMA AddressLandsQuiet ==
    ASSUME AccountTypes, QuietInv, NEW c \in calls,
           Signed!AddressLands(c) \/ (c.at = "saved" /\ Signed!RefreshLands(c))
    PROVE  QuietInv'
<1> DEFINE a == [user |-> c.about, address |-> c.address]
<1>1. /\ c.op \in {"address", "refresh"} /\ c.at = "saved"
      /\ \E f : Signed!SetActive(a, Signed!Rest(c), list, f)
      /\ slipped' = FALSE /\ UNCHANGED <<table, meant, crossed, out>>
  BY DEF Signed!AddressLands, Signed!RefreshLands, Signed!Lands
<1> SUFFICES ASSUME ~crossed PROVE QuietInv'
  BY <1>1 DEF QuietInv
<1>2. calls = {c} /\ Works(c)
  BY <1>1, BusyWith DEF WorkOps
<1>3. a \in Proper /\ a.user = c.about /\ a.address = c.address
  BY <1>1, SessionOfCall
<1> HIDE DEF a
<1>4. /\ meant = c.about /\ table[c.about].signedIn /\ table[c.about].address = c.address
      /\ Matches(list, out \cup {c.about}) /\ c.about \in Signed!UsersOf(list) \cup out
  BY <1>1, <1>2 DEF Works
<1>5. IsIn(a) /\ (a.user \notin out => \E s \in list : s.user = a.user)
  BY <1>3, <1>4 DEF IsIn, Signed!UsersOf
<1>6. /\ active' = a /\ calls' = Signed!Checks(a)
      /\ list' = {IF s.user = a.user THEN a ELSE s : s \in list}
  BY <1>1, <1>2 DEF Signed!SetActive, Signed!Rest
<1>7. Matches(list', out')
  BY <1>1, <1>3, <1>4, <1>5, <1>6, Lists, PutMatches
<1> QED
  BY <1>1, <1>3, <1>4, <1>6, <1>7, LandsIdle

LEMMA RefusedQuiet ==
    ASSUME AccountTypes, QuietInv, NEW c \in calls, c.at # "saved", Signed!RefreshLands(c) PROVE QuietInv'
<1> DEFINE a == Signed!NobodyActive
<1>1. /\ c.op = "refresh" /\ c.at = "cleared" /\ Signed!SetActive(a, Signed!Rest(c), list, form)
      /\ out' = out \cup {c.about} /\ meant' = Anonymous
      /\ slipped' = FALSE /\ UNCHANGED <<table, crossed>>
  BY DEF Signed!RefreshLands
<1> SUFFICES ASSUME ~crossed PROVE QuietInv'
  BY <1>1 DEF QuietInv
<1>2. calls = {c} /\ Works(c)
  BY <1>1, BusyWith DEF WorkOps
<1>3. a \in Proper /\ a.user = Anonymous /\ IsIn(a) /\ table[Anonymous].signedIn
  BY AddressFacts, NobodyIsIn, AnonymousStays
<1>4. Matches(list, out') /\ Anonymous \notin out'
  BY <1>1, <1>2, CallFacts, DesktopPageAssumption DEF Works, AccountTypes, HistoryOK
<1>5. \E s \in list : s.user = Anonymous
  BY <1>4, NobodyIsIn
<1>6. /\ active' = a /\ calls' = Signed!Checks(a)
      /\ list' = {IF s.user = a.user THEN a ELSE s : s \in list}
  BY <1>1, <1>2 DEF Signed!SetActive, Signed!Rest
<1> HIDE DEF a
<1>7. Matches(list, out' \cup {a.user})
  BY <1>4, FewerOut
<1>8. Matches(list', out')
  BY <1>3, <1>5, <1>6, <1>7, Lists, PutMatches
<1> QED
  BY <1>1, <1>3, <1>6, <1>8, LandsIdle

LEMMA StartQuiet ==
    ASSUME AccountTypes, QuietInv, NEW c \in calls, Signed!StartLands(c) PROVE QuietInv'
<1>1. /\ c.op = "start" /\ c.at = "read" /\ calls' = calls \ {c} /\ list' = c.read
      /\ UNCHANGED <<table, active, meant, crossed, out, slipped>>
  BY DEF Signed!StartLands, Signed!Lands, Signed!SetOff, Signed!Rest
<1> SUFFICES ASSUME ~crossed PROVE QuietInv'
  BY <1>1 DEF QuietInv
<1>2. ~slipped /\ Idle /\ Signed!SignedIn' = Signed!SignedIn
  BY <1>1, IdleBeside DEF Signed!SignedIn
<1>3. c.read = Signed!SignedIn
  BY <1>1, <1>2 DEF Idle
<1>4. Matches(list, out)'
  BY <1>1, <1>3, ReadMatches DEF Matches, IsIn
<1>5. Idle'
  BY <1>1, <1>2, <1>4 DEF Idle
<1> QED
  BY <1>1, <1>2, <1>5 DEF QuietInv

LEMMA LooksQuiet ==
    ASSUME AccountTypes, QuietInv, NEW c \in calls, Signed!ValidateActiveUser(c) PROVE QuietInv'
<1>1. c.op = "check" /\ c.at = "read" /\ UNCHANGED <<table, meant, crossed, out>>
  BY DEF Signed!ValidateActiveUser, Signed!Lands
<1> SUFFICES ASSUME ~crossed PROVE QuietInv'
  BY <1>1 DEF QuietInv
<1>2. ~slipped /\ Idle /\ Signed!SignedIn' = Signed!SignedIn
  BY <1>1, IdleBeside DEF Signed!SignedIn
<1>3. c.read = Signed!SignedIn /\ c.about = active.user
  BY <1>1, <1>2 DEF Idle
<1>4. \A d \in calls \ {c} : d.op = "start"
  BY <1>1, <1>2 DEF Idle
<1>5. CASE c.about \notin Signed!UsersOf(c.read) /\ Anonymous \in Signed!UsersOf(c.read)
  <2> DEFINE a == Signed!NobodyActive
  <2>1. Signed!SetActive(a, Signed!Rest(c), list, form) /\ slipped' = FALSE
    BY <1>5 DEF Signed!ValidateActiveUser
  <2>2. a \in Proper /\ a.user = Anonymous /\ IsIn(a) /\ table[Anonymous].signedIn
    BY AddressFacts, NobodyIsIn, AnonymousStays
  <2>3. /\ active' = a /\ calls' = calls \ {c}
        /\ list' = {IF s.user = a.user THEN a ELSE s : s \in list}
    BY <2>1, <2>2, ChecksAre DEF Signed!SetActive, Signed!Rest
  <2> HIDE DEF a
  <2>4. ~table[active.user].signedIn
    BY <1>3, <1>5, ActiveFacts, SignedInIs
  <2>5. meant = Anonymous
    BY <1>2, <2>4 DEF Idle
  <2>6. ASSUME \A d \in calls' : d.op # "start" PROVE Matches(list, out)'
    <3>1. \A d \in calls : d.op # "start"
      BY <1>1, <2>3, <2>6
    <3>2. Matches(list, out) /\ Anonymous \notin out
      BY <1>2, <3>1, DesktopPageAssumption DEF Idle, AccountTypes, HistoryOK
    <3>3. \E s \in list : s.user = Anonymous
      BY <3>2, NobodyIsIn
    <3>4. Matches(list, out \cup {a.user})
      BY <3>2, FewerOut
    <3>5. Matches(list', out)
      BY <2>2, <2>3, <3>3, <3>4, Lists, PutMatches
    <3> QED
      BY <1>1, <3>5 DEF Matches, IsIn
  <2>7. \A d \in calls' : d.op = "start" /\ (d.at = "read" => d.read = Signed!SignedIn')
    BY <1>2, <1>4, <2>3 DEF Idle
  <2>8. Idle'
    BY <1>1, <2>2, <2>3, <2>5, <2>6, <2>7 DEF Idle
  <2> QED
    BY <2>1, <2>8 DEF QuietInv
<1>6. CASE ~(c.about \notin Signed!UsersOf(c.read) /\ Anonymous \in Signed!UsersOf(c.read))
  <2>1. active' = active /\ list' = list /\ calls' = calls \ {c} /\ slipped' = slipped
    BY <1>6 DEF Signed!ValidateActiveUser, Signed!SetOff, Signed!Rest
  <2>2. ASSUME \A d \in calls' : d.op # "start" PROVE Matches(list, out)'
    <3>1. \A d \in calls : d.op # "start"
      BY <1>1, <2>1, <2>2
    <3> QED
      BY <1>1, <1>2, <2>1, <3>1 DEF Idle, Matches, IsIn
  <2>3. Idle'
    BY <1>1, <1>2, <2>1, <2>2 DEF Idle
  <2> QED
    BY <1>2, <2>1, <2>3 DEF QuietInv
<1> QED
  BY <1>5, <1>6

LEMMA QuietStutters ==
    ASSUME QuietInv, UNCHANGED <<table, active, list, calls, meant, crossed, slipped, out>>
    PROVE  QuietInv'
<1>1. /\ \A o : Matches(list, o) => Matches(list, o)'
      /\ Signed!SignedIn' = Signed!SignedIn
  BY DEF Matches, IsIn, Signed!SignedIn
<1>2. ASSUME NEW c, Works(c) PROVE Works(c)'
  <2>1. /\ Matches(list, out) => Matches(list, out)'
        /\ Matches(list, out \cup {c.about}) => Matches(list, out \cup {c.about})'
    BY DEF Matches, IsIn
  <2> QED
    BY <1>1, <1>2, <2>1 DEF Works
<1>3. Matches(list, out) => Matches(list, out)'
  BY DEF Matches, IsIn
<1>4. (Busy => Busy') /\ (Idle => Idle')
  BY <1>1, <1>2, <1>3 DEF Busy, Idle
<1> QED
  BY <1>4 DEF QuietInv

(* A handler that begins while no other waits.                             *)
LEMMA StartsQuiet ==
    ASSUME NEW n, NEW who, Starts(n, who), slipped' = slipped,
           calls = {} /\ ~slipped /\ (n.op = "address" => ~crossed) => Works(n)'
    PROVE  QuietInv'
<1>1. crossed' = (calls # {} \/ slipped \/ (crossed /\ n.op = "address")) /\ calls' = calls \cup {n}
  BY DEF Starts
<1> SUFFICES ASSUME ~crossed' PROVE ~slipped' /\ Busy'
  BY DEF QuietInv
<1>2. calls = {} /\ ~slipped /\ (n.op = "address" => ~crossed)
  BY <1>1
<1> QED
  BY <1>1, <1>2 DEF Busy

LEMMA UserQuiet ==
    ASSUME AccountTypes, ActiveInv, QuietInv
    PROVE  /\ \A u \in Accounts : \A a : Signed!Login(u, a) => QuietInv'
           /\ \A u \in Accounts : Signed!LogoutUser(u) => QuietInv'
           /\ \A s \in asked : Signed!DeleteUser(s) => QuietInv'
           /\ Signed!HandleServerAddressUpdate => QuietInv'
           /\ Signed!RefreshActiveSession => QuietInv'
           /\ \A s \in list : Signed!HandleSwitch(s) => QuietInv'
<1>0. calls = {} /\ ~slipped => table[active.user].signedIn
  BY DEF ActiveInv
<1>a. calls = {} /\ ~slipped /\ ~crossed => meant = active.user /\ Matches(list, out)
  <2>1. calls = {} /\ ~crossed => Idle
    BY IdleWith
  <2> QED
    BY <1>0, <2>1 DEF Idle
<1>1. ASSUME NEW u \in Accounts, NEW a, Signed!Login(u, a) PROVE QuietInv'
  <2>1. slipped' = slipped
    BY <1>1 DEF Signed!Login
  <2>2. PICK n : Sent(n, "login", u, a) /\ Starts(n, u)
    BY <1>1, LoginBegins
  <2>3. Works(n)'
    BY <2>2 DEF Sent, Starts, Works, WorkOps
  <2> QED
    BY <2>1, <2>2, <2>3, StartsQuiet
<1>2. ASSUME NEW u \in Accounts, Signed!LogoutUser(u) PROVE QuietInv'
  <2>1. slipped' = slipped /\ table' = table /\ active' = active
    BY <1>2 DEF Signed!LogoutUser
  <2> DEFINE who == IF u = active.user THEN Anonymous ELSE active.user
  <2>2. PICK n : Sent(n, "logout", u, Signed!NoAddress) /\ (n.own <=> u = active.user) /\ Starts(n, who)
    BY <1>2, LogoutBegins
  <2>3. ASSUME calls = {}, ~slipped PROVE Works(n)'
    <3>1. IF n.own THEN meant' = Anonymous
          ELSE meant' = active'.user /\ active'.user # n.about /\ table'[active'.user].signedIn
      BY <1>0, <2>1, <2>2, <2>3 DEF Sent, Starts
    <3> QED
      BY <2>2, <3>1 DEF Sent, Works, WorkOps
  <2> HIDE DEF who
  <2> QED
    BY <2>1, <2>2, <2>3, StartsQuiet
<1>3. ASSUME NEW s \in asked, Signed!DeleteUser(s) PROVE QuietInv'
  <2>1. slipped' = slipped
    BY <1>3 DEF Signed!DeleteUser
  <2>2. PICK n : Sent(n, "delete", s.user, s.address) /\ Starts(n, Anonymous)
    BY <1>3, DeletionBegins
  <2>3. Works(n)'
    BY <2>2 DEF Sent, Starts, Works, WorkOps
  <2> QED
    BY <2>1, <2>2, <2>3, StartsQuiet
<1>4. ASSUME Signed!HandleServerAddressUpdate PROVE QuietInv'
  <2>1. UNCHANGED <<table, active, list, slipped, out>>
    BY <1>4 DEF Signed!HandleServerAddressUpdate
  <2>2. CASE form.address = Signed!NoAddress
    <3>1. UNCHANGED <<calls, meant, crossed>>
      BY <1>4, <2>2 DEF Signed!HandleServerAddressUpdate
    <3> QED
      BY <2>1, <3>1, QuietStutters
  <2>3. CASE form.address # Signed!NoAddress
    <3>1. PICK n : Sent(n, "address", active.user, form.address) /\ Starts(n, active.user)
      BY <1>4, <2>3, UpdateBegins
    <3>2. ASSUME calls = {}, ~slipped, ~crossed PROVE Works(n)'
      <4>1. meant' = active'.user /\ active'.user = n.about /\ table'[n.about].signedIn
        BY <1>0, <2>1, <3>1, <3>2 DEF Sent, Starts
      <4>2. Matches(list, out)'
        BY <1>a, <2>1, <3>2 DEF Matches, IsIn
      <4> QED
        BY <3>1, <4>1, <4>2 DEF Sent, Works, WorkOps
    <3>3. n.op = "address"
      BY <3>1 DEF Sent
    <3> QED
      BY <2>1, <3>1, <3>2, <3>3, StartsQuiet
  <2> QED
    BY <2>2, <2>3
<1>5. ASSUME Signed!RefreshActiveSession PROVE QuietInv'
  <2>1. /\ UNCHANGED <<table, active, list, meant, slipped, out>>
        /\ crossed' = (crossed \/ calls # {})
    BY <1>5 DEF Signed!RefreshActiveSession, Signed!Overlaps
  <2>2. PICK n : Sent(n, "refresh", active.user, active.address) /\ calls' = calls \cup {n}
    BY <1>5, RefreshBegins
  <2> SUFFICES ASSUME ~crossed' PROVE ~slipped' /\ Busy'
    BY DEF QuietInv
  <2>3. ~crossed /\ calls = {}
    BY <2>1
  <2>4. ~slipped
    BY <2>3 DEF QuietInv
  <2>5. meant' = active'.user /\ active'.user = n.about /\ table'[n.about].signedIn
    BY <1>0, <1>a, <2>1, <2>2, <2>3, <2>4 DEF Sent
  <2>6. Matches(list, out)'
    BY <1>a, <2>1, <2>3, <2>4 DEF Matches, IsIn
  <2>7. Works(n)'
    BY <2>2, <2>5, <2>6 DEF Sent, Works, WorkOps
  <2> QED
    BY <2>1, <2>2, <2>3, <2>4, <2>7 DEF Busy
<1>6. ASSUME NEW s \in list, Signed!HandleSwitch(s) PROVE QuietInv'
  <2>1. /\ Signed!SetActive(s, calls, list, form)
        /\ meant' = (IF table[s.user].signedIn THEN s.user ELSE Anonymous)
        /\ slipped' = FALSE /\ UNCHANGED <<table, out>>
    BY <1>6 DEF Signed!HandleSwitch
  <2>2. crossed' = (calls # {} \/ crossed)
    BY <1>6 DEF Signed!HandleSwitch, Signed!Overlaps
  <2> SUFFICES ASSUME ~crossed' PROVE QuietInv'
    BY DEF QuietInv
  <2>3. calls = {} /\ ~crossed
    BY <2>2
  <2>4. Matches(list, out) /\ s \in Proper
    BY <2>3, Lists, IdleWith DEF Idle
  <2>5. /\ active' = s /\ calls' = Signed!Checks(s)
        /\ list' = {IF x.user = s.user THEN s ELSE x : x \in list}
    BY <2>1, <2>3 DEF Signed!SetActive
  <2>6. Matches(list, out \cup {s.user})
    BY <2>4, FewerOut
  <2>7. s.user \notin out => IsIn(s) /\ \E x \in list : x.user = s.user
    BY <2>4 DEF Matches
  <2>8. Matches(list', out')
    BY <2>1, <2>4, <2>5, <2>6, <2>7, Lists, PutMatches
  <2> QED
    BY <2>1, <2>4, <2>5, <2>8, LandsIdle
<1> QED
  BY <1>1, <1>2, <1>3, <1>4, <1>5, <1>6

LEMMA LifeQuiet ==
    ASSUME AccountTypes, QuietInv, Signed!Reenter \/ Signed!Restart PROVE QuietInv'
<1>1. ASSUME Signed!Reenter PROVE QuietInv'
  <2>1. UNCHANGED <<table, active, list, meant, crossed, slipped, out>>
    BY <1>1 DEF Signed!Reenter, Signed!Ghosts
  <2>2. /\ calls' = {Resumed(c) : c \in calls}
        /\ \A c \in calls : Like(Resumed(c), c)
    BY <1>1, ReenterDoes
  <2>3. Signed!SignedIn' = Signed!SignedIn
    BY <2>1 DEF Signed!SignedIn
  <2>4. ASSUME Busy PROVE Busy'
    <3>1. PICK c \in calls : calls = {c} /\ Works(c)
      BY <2>4 DEF Busy
    <3>2. calls' = {Resumed(c)} /\ Like(Resumed(c), c)
      BY <2>2, <3>1
    <3> DEFINE n == Resumed(c)
    <3> HIDE DEF n
    <3>3. n.op = c.op /\ n.at = c.at /\ n.about = c.about /\ n.address = c.address /\ n.own = c.own /\ n.read = c.read
      BY <3>2 DEF Like, n
    <3>4. /\ Matches(list, out) => Matches(list, out)'
          /\ Matches(list, out \cup {c.about}) => Matches(list, out \cup {n.about})'
      BY <2>1, <3>3 DEF Matches, IsIn
    <3>5. Works(n)'
      BY <2>1, <2>3, <3>1, <3>3, <3>4 DEF Works
    <3> QED
      BY <3>2, <3>5 DEF Busy, n
  <2>5. ASSUME Idle PROVE Idle'
    <3>1. \A n \in calls' : /\ n.op \in {"check", "start"}
                            /\ n.op = "check" => n.about = active'.user
                            /\ n.at = "read" => n.read = Signed!SignedIn'
      BY <2>1, <2>2, <2>3, <2>5 DEF Idle, Like
    <3>2. \A d, e \in calls' : d.op = "check" /\ e.op = "check" => d = e
      BY <2>2, <2>5 DEF Idle, Like
    <3>3. ASSUME \A d \in calls' : d.op # "start" PROVE Matches(list, out)'
      <4>1. \A d \in calls : d.op # "start"
        BY <2>2, <3>3 DEF Like
      <4> QED
        BY <2>1, <2>5, <4>1 DEF Idle, Matches, IsIn
    <3> QED
      BY <2>1, <2>5, <3>1, <3>2, <3>3 DEF Idle
  <2> QED
    BY <2>1, <2>4, <2>5 DEF QuietInv
<1>2. ASSUME Signed!Restart PROVE QuietInv'
  <2>1. /\ meant' = (IF table[active.user].signedIn THEN active.user ELSE Anonymous)
        /\ slipped' = FALSE /\ UNCHANGED <<table, active>>
    BY <1>2 DEF Signed!Restart
  <2>2. PICK n : /\ n.op = "start" /\ n.at = "list"
                 /\ calls' = {n} \cup Signed!Checks(active)
    BY <1>2, RestartDoes
  <2>3. /\ \A c \in Signed!Checks(active) : c.op = "check" /\ c.at = "list" /\ c.about = active.user
        /\ \A c, d \in Signed!Checks(active) : c = d
    BY Lists, ChecksAre
  <2>4. Idle'
    BY <2>1, <2>2, <2>3 DEF Idle
  <2> QED
    BY <2>1, <2>4 DEF QuietInv
<1> QED
  BY <1>1, <1>2

LEMMA AccountsQuiet ==
    ASSUME AccountTypes, ActiveInv, QuietInv, Signed!Next PROVE QuietInv'
<1>1. CASE \E c \in calls :
              \/ Signed!LoginSaves(c) \/ Signed!SetUserLoginStatus(c) \/ Signed!DeleteUserWithData(c)
              \/ Signed!UpdateUserServerAddress(c) \/ Signed!ClearInvalidSession(c)
              \/ Signed!RefreshSaves(c, "saved") \/ Signed!RefreshSaves(c, "refused")
              \/ Signed!ReadUsers(c) \/ Signed!ReadFails(c)
              \/ Signed!LoginLands(c) \/ Signed!LogoutLands(c) \/ Signed!DeleteLands(c) \/ Signed!AddressLands(c)
              \/ Signed!RefreshLands(c) \/ Signed!StartLands(c) \/ Signed!ValidateActiveUser(c)
              \/ Signed!CallFails(c)
  <2>1. PICK c \in calls :
              \/ Signed!LoginSaves(c) \/ Signed!SetUserLoginStatus(c) \/ Signed!DeleteUserWithData(c)
              \/ Signed!UpdateUserServerAddress(c) \/ Signed!ClearInvalidSession(c)
              \/ Signed!RefreshSaves(c, "saved") \/ Signed!RefreshSaves(c, "refused")
              \/ Signed!ReadUsers(c) \/ Signed!ReadFails(c)
              \/ Signed!LoginLands(c) \/ Signed!LogoutLands(c) \/ Signed!DeleteLands(c) \/ Signed!AddressLands(c)
              \/ Signed!RefreshLands(c) \/ Signed!StartLands(c) \/ Signed!ValidateActiveUser(c)
              \/ Signed!CallFails(c)
    BY <1>1
  <2>2. Signed!ReadFails(c) \/ Signed!CallFails(c) => QuietInv'
    BY DEF Signed!ReadFails, Signed!CallFails, QuietInv
  <2>3. Signed!RefreshLands(c) => QuietInv'
    BY AddressLandsQuiet, RefusedQuiet
  <2> QED
    BY <2>1, <2>2, <2>3, LoginSavesQuiet, StatusQuiet, DeletionQuiet, AddressQuiet, ClearingQuiet,
       RefreshQuiet, ReadsQuiet, LoginQuiet, LogoutQuiet, DeleteQuiet, AddressLandsQuiet,
       StartQuiet, LooksQuiet
<1>2. CASE \/ Signed!HandleDeleteAccount \/ \E s \in asked : Signed!Cancel(s)
           \/ \E x \in Signed!Address : Signed!TypeAddress(x)
  <2>1. UNCHANGED <<table, active, list, calls, meant, crossed, slipped, out>>
    BY <1>2 DEF Signed!HandleDeleteAccount, Signed!Cancel, Signed!TypeAddress, Signed!Ghosts
  <2> QED
    BY <2>1, QuietStutters
<1> QED
  BY <1>1, <1>2, UserQuiet, LifeQuiet DEF Signed!Next

-----------------------------------------------------------------------------
AccountsInv == AccountTypes /\ Signed!DeletedStayAway /\ ActiveInv /\ QuietInv

LEMMA AccountsStart == Signed!Init => AccountsInv
<1> SUFFICES ASSUME Signed!Init PROVE AccountsInv
  OBVIOUS
<1>1. TableOK(table)
  <2>1. ASSUME NEW u \in Signed!All
        PROVE  /\ ~table[u].here => table[u] = Signed!NoRow
               /\ table[u].here => table[u].address \in Signed!AddressesOf(u)
    <3>1. CASE u = Anonymous
      <4>1. table[u] = [here |-> TRUE, signedIn |-> TRUE, address |-> Signed!NoAddress]
        BY <3>1 DEF Signed!Init
      <4> QED
        BY <3>1, <4>1, AddressFacts
    <3>2. CASE u # Anonymous
      <4>1. u \in Accounts
        BY <3>2 DEF Signed!All
      <4>2. table[u] = Signed!NoRow \/ (table[u].here /\ table[u].address = <<u, 1>>)
        BY <4>1 DEF Signed!Init
      <4>3. <<u, 1>> \in Signed!AddressesOf(u)
        BY <3>2 DEF Signed!AddressesOf
      <4>4. ~Signed!NoRow.here
        BY DEF Signed!NoRow
      <4> QED
        BY <4>2, <4>3, <4>4
    <3> QED
      BY <3>1, <3>2
  <2> QED
    BY <2>1 DEF Signed!Init, TableOK
<1>2. AccountTypes => list = Signed!SignedIn
  BY DEF Signed!Init
<1>3. Signed!SignedIn \subseteq Proper
  <2>1. ASSUME NEW s \in Signed!SignedIn PROVE s \in Proper
    <3>1. PICK u \in Signed!All : table[u].here /\ s = [user |-> u, address |-> table[u].address]
      BY <2>1 DEF Signed!SignedIn
    <3>2. table[u].address \in Signed!AddressesOf(u)
      BY <1>1, <3>1 DEF TableOK
    <3> QED
      BY <3>1, <3>2, AddressFacts DEF Proper, Signed!Session
  <2> QED
    BY <2>1
<1>4. active \in Proper /\ list \subseteq Proper /\ active.user \in Signed!All
  BY <1>3 DEF Signed!Init, Proper, Signed!Session
<1>5. form = Signed!EmptyForm(active) /\ asked = {} /\ calls = {}
  BY DEF Signed!Init
<1>6. PageOK
  BY <1>4, <1>5, EmptyFills DEF PageOK
<1>7. meant = active.user /\ crossed = FALSE /\ slipped = FALSE /\ out = {} /\ removed = {} /\ revived = {}
  BY DEF Signed!Init
<1>8. AccountTypes
  BY <1>1, <1>4, <1>5, <1>6, <1>7 DEF AccountTypes, HistoryOK
<1>9. active \in Signed!SignedIn /\ list = Signed!SignedIn
  BY DEF Signed!Init
<1>10. table[active.user].signedIn
  BY <1>4, <1>8, <1>9, SignedInIs DEF Proper
<1>11. Idle
  BY <1>5, <1>7, <1>8, <1>9, <1>10, ReadMatches DEF Idle
<1> QED
  BY <1>7, <1>8, <1>10, <1>11 DEF AccountsInv, Signed!DeletedStayAway, ActiveInv, QuietInv

LEMMA AccountsStep == AccountsInv /\ Signed!Next => AccountsInv'
  BY AccountsTyped, AccountsActive, AccountsQuiet DEF AccountsInv

LEMMA AccountsAreSound ==
    ASSUME AccountsInv
    PROVE  /\ Signed!TypeOK /\ Signed!ActiveIsSignedIn /\ Signed!ListIsTheTable
           /\ Signed!AddressesStayWithTheirUser /\ Signed!MeantIsActive /\ Signed!DeletedStayAway
<1>1. AccountTypes
  BY DEF AccountsInv
<1>2. Signed!TypeOK
  <2>1. active \in Signed!Session /\ list \subseteq Signed!Session /\ asked \subseteq Signed!Session
    BY <1>1 DEF AccountTypes, PageOK, Proper
  <2>2. form \in [address : Signed!Address, of : Signed!All, busy : BOOLEAN, deleting : BOOLEAN]
    BY <1>1 DEF AccountTypes, PageOK, Fills, Entered
  <2> QED
    BY <1>1, <2>1, <2>2 DEF AccountTypes, TableOK, HistoryOK, Signed!TypeOK
<1>3. Signed!ActiveIsSignedIn
  BY DEF AccountsInv, ActiveInv, Signed!ActiveIsSignedIn
<1>4. ASSUME calls = {}, ~crossed PROVE ~slipped /\ Idle /\ Matches(list, out)
  BY <1>4, IdleWith DEF AccountsInv, Idle
<1>5. Signed!ListIsTheTable
  <2> SUFFICES ASSUME calls = {}, ~crossed
               PROVE  {s \in list : s.user \notin out} = {s \in Signed!SignedIn : s.user \notin out}
    BY DEF Signed!ListIsTheTable
  <2>1. Matches(list, out) /\ Matches(Signed!SignedIn, out)
    BY <1>1, <1>4, ReadMatches
  <2>2. list \subseteq Proper /\ Signed!SignedIn \subseteq Proper
    BY <1>1, SignedInIs, Lists
  <2> QED
    BY <2>1, <2>2 DEF Matches
<1>6. Signed!AddressesStayWithTheirUser
  <2>1. \A u \in Accounts : table[u].address \in Signed!AddressesOf(u) \cup {Signed!NoAddress}
    <3>1. Signed!NoRow.address = Signed!NoAddress
      BY DEF Signed!NoRow
    <3> QED
      BY <1>1, <3>1, RowsAre DEF AccountTypes
  <2>2. \A s \in list \cup {active} : s.address \in Signed!AddressesOf(s.user)
    BY <1>1, Lists DEF Proper
  <2>3. \A c \in calls : c.address \in Signed!AddressesOf(c.about) \cup {Signed!NoAddress}
    BY <1>1 DEF AccountTypes, Waits
  <2> QED
    BY <2>1, <2>2, <2>3 DEF Signed!AddressesStayWithTheirUser
<1>7. Signed!MeantIsActive
  <2> SUFFICES ASSUME calls = {}, ~crossed PROVE active.user = meant
    BY DEF Signed!MeantIsActive
  <2>1. ~slipped /\ Idle
    BY <1>4
  <2>2. table[active.user].signedIn
    BY <2>1 DEF AccountsInv, ActiveInv
  <2> QED
    BY <2>1, <2>2 DEF Idle
<1> QED
  BY <1>2, <1>3, <1>5, <1>6, <1>7 DEF AccountsInv

-----------------------------------------------------------------------------
(* The page.                                                               *)

UserInv ==
    /\ part = "preferences" => PrefInv
    /\ part = "accounts" => AccountsInv

LEMMA UserStarts == PageInit => UserInv
<1>1. /\ PageInit /\ part = "preferences" => Init
      /\ PageInit /\ part = "accounts" => Signed!Init
  BY Zenon DEF PageInit
<1> QED
  BY <1>1, PrefStart, AccountsStart DEF UserInv

LEMMA UserStutters ==
    ASSUME UserInv, UNCHANGED PageVars
    PROVE  UserInv'
<1>1. part' = part
  BY DEF PageVars
<1>2. UNCHANGED <<rows, default, active, engine, list, loading, modal, Remembered,
                   calls, chosen, raced, crossed>>
  BY DEF PageVars, OfOthers, vars
<1>3. PrefInv => PrefInv'
  BY <1>2, PrefSame
<1>4. UNCHANGED <<table, form, asked, meant, slipped, out, removed, revived, active, list, calls, crossed>>
  BY <1>2 DEF PageVars, OfOthers, OfAccounts
<1>5. AccountsInv => AccountsInv'
  <2>1. AccountTypes => AccountTypes'
    BY <1>4 DEF AccountTypes, PageOK, HistoryOK
  <2>2. Signed!DeletedStayAway => Signed!DeletedStayAway'
    BY <1>4 DEF Signed!DeletedStayAway
  <2>3. ActiveInv => ActiveInv'
    BY <1>4 DEF ActiveInv
  <2>4. QuietInv => QuietInv'
    BY <1>4, QuietStutters
  <2> QED
    BY <2>1, <2>2, <2>3, <2>4 DEF AccountsInv
<1> QED
  BY <1>1, <1>3, <1>5 DEF UserInv

LEMMA UserSteps == UserInv /\ [PageNext]_PageVars => UserInv'
<1> SUFFICES ASSUME UserInv, PageNext PROVE UserInv'
  BY UserStutters
<1>1. part' = part
  BY DEF PageNext
<1>2. /\ part = "preferences" => Next
      /\ part = "accounts" => Signed!Next
  BY Zenon DEF PageNext
<1> QED
  BY <1>1, <1>2, PrefStep, AccountsStep DEF UserInv

LEMMA UserStaysSound == PageSpec => []UserInv
  BY UserStarts, UserSteps, PTL DEF PageSpec

(* However many accounts, servers, engines and groups there are, in        *)
(* whatever order handlers, refreshes of tokens, synchronisations and the  *)
(* users interleave. At rest, unless something overlapped, the engine in   *)
(* use is the default of the active user, or one of that user's or built   *)
(* in, and is the one chosen last; what a user folds stays with that user  *)
(* always. At rest the active account is signed in, unless another handler *)
(* signed it out as it became active; it is the one the last act meant,    *)
(* and the list is that of the table, if acts did not overlap. Whatever    *)
(* overlaps, an address stays with its account, and a deleted account      *)
(* comes back only by a refresh of its tokens that was under way, and      *)
(* signed out. The code is the launchpad page of the client with its       *)
(* hooks, the contexts of the accounts and the commands they call.         *)
THEOREM EveryUserKeepsTheirOwn == PageSpec => []AccountsHold
<1>1. UserInv => AccountsHold
  BY PreferencesAreSound, AccountsAreSound DEF UserInv, AccountsHold
<1> QED
  BY <1>1, UserStaysSound, PTL
============================================================================

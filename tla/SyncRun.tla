------------------------------- MODULE SyncRun -------------------------------
(***************************************************************************)
(* One run of the synchronisation after another on a device: what is asked *)
(* of the server in which order, how each refusal travels, and what comes  *)
(* of it for the account on the device: it is kept, signed out, or deleted *)
(* with its data.  What the run transfers is in SyncSession.               *)
(***************************************************************************)
EXTENDS AppErrors

CONSTANTS
    Instances,  \* servers the address of the account may lead to
    MaxEvents   \* bound: runs, acts of the administrator, expiries, failures

VARIABLES
    standing,  \* [Instances -> Standing]     the account on each server
    fits,      \* [Instances -> Fit]          what each server thinks of the client
    device,    \* [here, signedIn, active, address, bound, fresh]
    run,       \* [at, error, resent, caught] startSync
    log,       \* {"none", "running", "success", "failed"}   the row of its session
    opened,    \* Instances \cup {0}    history: where the run opened a session
    word,      \* Refusal \cup {OK}     history: the last word of a server
    cleared,   \* BOOLEAN               history: a refresh was refused
    trouble,   \* BOOLEAN               history: a command of the device failed
    events     \* Nat

History == <<opened, word, cleared, trouble>>
vars == <<standing, fits, device, run, log, History, events>>

-----------------------------------------------------------------------------
(* Values                                                                  *)

Standing == {"good", "disabled", "deleted", "cleaned", "unknown"}
Fit      == {"fits", "old protocol", "old version", "unreadable"}
OK       == Refused("OK", 200, "other")
NoError  == [code |-> "none", says |-> "other"]
Idle     == [at |-> "idle", error |-> NoError, resent |-> FALSE, caught |-> FALSE]
Device   == [here : BOOLEAN, signedIn : BOOLEAN, active : BOOLEAN,
             address : Instances, bound : Instances, fresh : BOOLEAN]

Steps    == {"verify", "refresh", "compat", "start", "log", "chunks", "complete", "apply", "close",
             "drop", "sign out", "failed", "done"}

Event == events < MaxEvents /\ events' = events + 1

(* An account that signed in at one server; others do not know it.         *)
Init ==
    /\ \E i \in Instances :
        /\ standing = [j \in Instances |-> IF j = i THEN "good" ELSE "unknown"]
        /\ device = [here |-> TRUE, signedIn |-> TRUE, active |-> TRUE,
                     address |-> i, bound |-> i, fresh |-> TRUE]
    /\ fits \in [Instances -> Fit]
    /\ run = Idle /\ log = "none"
    /\ opened = 0 /\ word = OK /\ cleared = FALSE /\ trouble = FALSE
    /\ events = 0

Goes(at) == run' = [run EXCEPT !.at = at, !.resent = FALSE]

-----------------------------------------------------------------------------
(* The answers of the server at the address                                *)

(* A token is good on the instance that issued it, until it expires.       *)
ValidateServerInstance == device.address = device.bound

(* A server with a secret of its own does not look at the time of a token  *)
(* of another.                                                             *)
TokenRefusals ==
    (IF device.fresh THEN {} ELSE {TokenExpired})
        \cup (IF ValidateServerInstance THEN {} ELSE {InvalidToken})

StandingRefusals ==
    CASE standing[device.address] \in {"unknown", "cleaned"} -> {UserNotFound}
      [] standing[device.address] = "deleted"  -> {UserDeleted}
      [] standing[device.address] = "disabled" -> {UserDisabled}
      [] OTHER -> {}

CheckAuthStatus == IF TokenRefusals # {} THEN TokenRefusals ELSE StandingRefusals

(* The protocol is looked at before the version.                           *)
CheckCompatibility ==
    CASE fits[device.address] = "unreadable"   -> {BadRequest}
      [] fits[device.address] = "old protocol" -> {ProtocolMismatch}
      [] fits[device.address] = "old version"  -> {VersionMismatch}
      [] OTHER -> {}

(* The token of the refresh is known to the server that issued it, until   *)
(* the account is cleaned.                                                 *)
RefreshUserTokens ==
    IF device.address # device.bound \/ standing[device.bound] = "cleaned" THEN {InvalidToken}
    ELSE IF standing[device.bound] = "deleted" THEN {InvalidToken, UserDeleted}
    ELSE StandingRefusals

-----------------------------------------------------------------------------
(* What the run makes of an error                                          *)

(* The message is looked at before the code, since an error the run itself *)
(* has thrown has no other trace of the server's.                          *)
AccountDeleted(e)  == e.says \in {"deleted", "not found"} \/ e.code \in {"AuthUserDeleted", "AuthUserNotFound"}
AccountDisabled(e) == e.says = "disabled" \/ e.code = "AuthUserDisabled"
TokenExpires_ByCode(e) == e.code = "AuthTokenExpired"
TokenExpires(e) == e.says = "expired" \/ e.code = "AuthTokenExpired"

Handler(e) ==
    IF AccountDeleted(e) THEN "drop"
    ELSE IF AccountDisabled(e) \/ TokenExpires(e) THEN "sign out"
    ELSE "failed"

Caught(e) ==
    run' = [at |-> Handler(e), error |-> [code |-> e.code, says |-> e.says], resent |-> FALSE, caught |-> TRUE]

(* throw new Error(...message...)                                          *)
Plain(r) == [code |-> "none", says |-> r.says]

(* An answer to /sync/start or /sync/complete that is not a success: these *)
(* resolve, so the code is at hand; what is not recognised is thrown.      *)
Resolved(r) ==
    IF r.code \in {"AuthTokenExpired", "AuthUserDisabled", "AuthUserDeleted", "AuthUserNotFound"}
    THEN run' = [at |-> Handler([code |-> r.code, says |-> "other"]), error |-> NoError,
                 resent |-> FALSE, caught |-> FALSE]
    ELSE Caught(Plain(r))

-----------------------------------------------------------------------------
(* The run                                                                 *)

StartSync ==
    /\ run = Idle /\ device.active /\ device.signedIn
    /\ Event
    /\ run' = [Idle EXCEPT !.at = "verify"]
    /\ opened' = 0 /\ word' = OK /\ cleared' = FALSE /\ trouble' = FALSE /\ log' = "none"
    /\ UNCHANGED <<standing, fits, device>>

(* checkTokenAndUserRecord: the command rejects with the server's text, and *)
(* the session layer refreshes once and sends it again.                    *)
ShouldRetryWithRefresh(e) == e.code \in {"AuthTokenExpired", "AuthTokenInvalid"}

CheckTokenAndUser ==
    /\ run.at = "verify"
    /\ \/ /\ CheckAuthStatus = {}
          /\ word' = OK
          /\ Goes("compat")
       \/ \E r \in CheckAuthStatus :
            LET e == CallTauri(r, "text")
            IN /\ word' = r
               /\ IF ShouldRetryWithRefresh(e) /\ ~run.resent
                  THEN Goes("refresh") ELSE Caught(e)
    /\ UNCHANGED <<standing, fits, device, log, opened, cleared, trouble, events>>

(* Refused, the account is signed out before the run hears of it.          *)
RefreshActiveSession ==
    /\ run.at = "refresh"
    /\ \/ /\ RefreshUserTokens = {}
          /\ device' = [device EXCEPT !.fresh = TRUE]
          /\ run' = [run EXCEPT !.at = "verify", !.resent = TRUE]
          /\ UNCHANGED <<word, cleared>>
       \/ \E r \in RefreshUserTokens :
            /\ device' = [device EXCEPT !.signedIn = FALSE, !.active = FALSE]
            /\ Caught(NormalizeAppException(r, "body", "AuthTokenExpired"))
            /\ word' = r /\ cleared' = TRUE
    /\ UNCHANGED <<standing, fits, log, opened, trouble, events>>

CheckServerCompatibility == CheckCompatibility

CompatAnswered ==
    /\ run.at = "compat"
    /\ \/ CheckServerCompatibility = {} /\ word' = OK /\ Goes("start")
       \/ \E r \in CheckServerCompatibility : word' = r /\ Caught(Plain(r))
    /\ UNCHANGED <<standing, fits, device, log, opened, cleared, trouble, events>>

(* The instance that answers must be the one the account is bound to.      *)
EnsureExpectedServerInstance == device.address = device.bound

SyncStart ==
    /\ run.at = "start"
    /\ \/ /\ TokenRefusals = {}
          /\ opened' = device.address /\ word' = OK
          /\ IF EnsureExpectedServerInstance THEN Goes("log") ELSE Caught(NoError)
       \/ \E r \in TokenRefusals : word' = r /\ Resolved(r) /\ UNCHANGED opened
    /\ UNCHANGED <<standing, fits, device, log, cleared, trouble, events>>

(* A log that cannot be written is a log that is missing.                  *)
CreateSyncLog ==
    /\ run.at = "log"
    /\ \/ log' = "running" /\ UNCHANGED <<trouble, events>>
       \/ UNCHANGED log /\ trouble' = TRUE /\ Event
    /\ Goes("chunks")
    /\ UNCHANGED <<standing, fits, device, opened, word, cleared>>

(* After three attempts the refusal is an error with a text.               *)
SendDataInChunks ==
    /\ run.at = "chunks"
    /\ \/ TokenRefusals = {} /\ word' = OK /\ Goes("complete")
       \/ \E r \in TokenRefusals : word' = r /\ Caught(Plain(r))
    /\ UNCHANGED <<standing, fits, device, log, opened, cleared, trouble, events>>

SyncComplete ==
    /\ run.at = "complete"
    /\ \/ TokenRefusals = {} /\ word' = OK /\ Goes("apply")
       \/ \E r \in TokenRefusals \cup {Sqlx} : word' = r /\ Resolved(r)
    /\ UNCHANGED <<standing, fits, device, log, opened, cleared, trouble, events>>

ApplySyncResult ==
    /\ run.at = "apply"
    /\ Goes("close")
    /\ UNCHANGED <<standing, fits, device, log, History, events>>

(* Nobody answers, or a command of the device fails.                       *)
Fails ==
    /\ run.at \in {"verify", "refresh", "compat", "start", "chunks", "complete", "apply"}
    /\ Event
    /\ trouble' = TRUE
    /\ Caught(NoError)
    /\ UNCHANGED <<standing, fits, device, log, opened, word, cleared>>

-----------------------------------------------------------------------------
(* The end of a run                                                        *)

(* A command of the device that fails is passed over: nothing is repeated. *)
Passes(done) == IF done THEN UNCHANGED <<trouble, events>> ELSE trouble' = TRUE /\ Event

(* finalizeSyncLog, of a run that opened a session.                        *)
FinalizeSyncLog(status, written) ==
    /\ written \/ log = "running"
    /\ log' = IF written /\ log = "running" THEN status ELSE log

(* Only a run whose error was caught comes to its log.                     *)
LogsFailure(written) ==
    IF run.caught THEN FinalizeSyncLog("failed", written) ELSE written /\ UNCHANGED log

Close ==
    /\ run.at = "close"
    /\ \E written \in BOOLEAN : FinalizeSyncLog("success", written) /\ Passes(written)
    /\ Goes("done")
    /\ UNCHANGED <<standing, fits, device, opened, word, cleared>>

(* What a refusal does to the account, and to the log: each may fail.      *)
Ending(changed) ==
    /\ \E done, written \in BOOLEAN :
         /\ device' = IF done THEN changed ELSE device
         /\ LogsFailure(written)
         /\ Passes(done /\ written)
    /\ Goes("done")
    /\ UNCHANGED <<standing, fits, opened, word, cleared>>

(* handleAccountDeletedOnServer                                            *)
Dropped == [device EXCEPT !.here = FALSE, !.signedIn = FALSE, !.active = FALSE]
HandleAccountDeleted == run.at = "drop" /\ Ending(Dropped)

(* handleAccountDisabledOnServer, handleTokenExpiredOnServer               *)
SignedOut == [device EXCEPT !.signedIn = FALSE, !.active = FALSE]
HandleSignedOut == run.at = "sign out" /\ Ending(SignedOut)

HandleFailed ==
    /\ run.at = "failed"
    /\ \E written \in BOOLEAN : LogsFailure(written) /\ Passes(written)
    /\ Goes("done")
    /\ UNCHANGED <<standing, fits, device, opened, word, cleared>>

(* The button of the overlay.                                              *)
ResetSyncState ==
    /\ run.at = "done"
    /\ run' = Idle
    /\ UNCHANGED <<standing, fits, device, log, History, events>>

-----------------------------------------------------------------------------
(* Around the run                                                          *)

SetStanding(i, s) ==
    /\ <<standing[i], s>> \in {<<"good", "disabled">>, <<"good", "deleted">>,
                               <<"disabled", "good">>, <<"disabled", "deleted">>,
                               <<"deleted", "cleaned">>}
    /\ Event
    /\ standing' = [standing EXCEPT ![i] = s]
    /\ UNCHANGED <<fits, device, run, log, History>>

AccessExpires ==
    /\ device.fresh
    /\ Event
    /\ device' = [device EXCEPT !.fresh = FALSE]
    /\ UNCHANGED <<standing, fits, run, log, History>>

(* The overlay is over the page while a run lasts.                         *)
UpdateServerAddress(i) ==
    /\ run = Idle /\ device.active /\ i # device.address
    /\ Event
    /\ device' = [device EXCEPT !.address = i]
    /\ UNCHANGED <<standing, fits, run, log, History>>

SignIn ==
    /\ run = Idle /\ ~device.active /\ standing[device.bound] = "good"
    /\ Event
    /\ device' = [here |-> TRUE, signedIn |-> TRUE, active |-> TRUE, fresh |-> TRUE,
                  address |-> device.bound, bound |-> device.bound]
    /\ UNCHANGED <<standing, fits, run, log, History>>

Restart ==
    /\ run # Idle
    /\ Event
    /\ run' = Idle
    /\ trouble' = TRUE
    /\ UNCHANGED <<standing, fits, device, log, opened, word, cleared>>

-----------------------------------------------------------------------------
(* The specification                                                       *)

Next ==
    \/ StartSync \/ CheckTokenAndUser \/ RefreshActiveSession \/ CompatAnswered \/ SyncStart
    \/ CreateSyncLog \/ SendDataInChunks \/ SyncComplete \/ ApplySyncResult \/ Fails
    \/ Close \/ HandleAccountDeleted \/ HandleSignedOut \/ HandleFailed \/ ResetSyncState
    \/ AccessExpires \/ SignIn \/ Restart
    \/ \E i \in Instances : UpdateServerAddress(i) \/ \E s \in Standing : SetStanding(i, s)

Spec == Init /\ [][Next]_vars

-----------------------------------------------------------------------------
(* Properties                                                              *)

(* Every variable has its type; the data of an account that is gone is not *)
(* signed in.                                                              *)
TypeOK ==
    /\ standing \in [Instances -> Standing] /\ fits \in [Instances -> Fit]
    /\ device \in Device /\ (device.signedIn => device.here)
    /\ run.at \in Steps \cup {"idle"} /\ run.resent \in BOOLEAN /\ run.caught \in BOOLEAN
    /\ log \in {"none", "running", "success", "failed"}
    /\ opened \in Instances \cup {0} /\ word \in Refusals \cup {OK}

(* The data of an account leaves the device only when the server that      *)
(* keeps the account has deleted it: not when the address leads to another *)
(* server, which never heard of it, and not for what an error says.        *)
DroppedOnlyIfDeleted == device.here \/ standing[device.bound] \in {"deleted", "cleaned"}

(* When a run has ended and nothing failed on the device, what came of it  *)
(* is what the code of the server's last word asks for, although half of   *)
(* the refusals reach the decision as a text without a code.               *)
RefusalsAreObeyed ==
    (run.at = "done" /\ ~trouble) =>
        /\ ~device.here <=> word.code \in {"AuthUserDeleted", "AuthUserNotFound"}
        /\ (device.here /\ ~device.signedIn) <=>
             (cleared \/ word.code \in {"AuthUserDisabled", "AuthTokenExpired"})
                /\ word.code \notin {"AuthUserDeleted", "AuthUserNotFound"}

(* A session is opened, and data sent, only where the client fits: the     *)
(* server does not look again.                                             *)
OnlyFittingClientsSync == opened # 0 => fits[opened] = "fits"

(* The log of a run that has ended tells its end, unless the device failed *)
(* to write it or /sync/complete answered that the token had expired.      *)
LogTellsTheEnd ==
    (run.at = "done" /\ opened # 0 /\ ~trouble) =>
        \/ log = "success" /\ word = OK
        \/ log = "failed" /\ word # OK
        \/ log = "running" /\ word = TokenExpired
=============================================================================

---- MODULE DesktopSession ----
(***************************************************************************)
(* Who is signed in on one desktop client, and with which tokens: the      *)
(* session layer of the client (authSession.ts), the account operations of *)
(* its user interface (AuthContext.tsx), the requests of a sync run, and   *)
(* the server's login, refresh and account administration.                 *)
(*                                                                         *)
(* An access token and the refresh token issued with it always travel      *)
(* together, so one value of Token stands for the pair. The server keeps   *)
(* refresh tokens as rows; an access token is judged by its age alone.     *)
(***************************************************************************)
EXTENDS Integers, FiniteSets

CONSTANTS
  Users,      \* accounts of one server
  Anon,       \* the anonymous user of the device
  Begun,      \* who may be signed in already at the start (Anon: nobody)
  NoToken,    \* an empty token field
  Unlisted,   \* a user availableUsers does not show
  NoSlot,     \* no request for tokens
  Slots,      \* requests for tokens the server may be handling at once
  MaxTokens,  \* bound: pairs of tokens ever issued
  MaxEvents   \* bound: expiries, faults and acts of the administrator

Token == [user : Users, n : 1..MaxTokens]

ASSUME UsersAssumption == Anon \notin Users /\ Begun \subseteq Users \cup {Anon}
ASSUME TokenAssumption ==
  NoToken \notin Token /\ Unlisted \notin Token \cup {NoToken} /\ NoSlot \notin Slots
ASSUME BoundsAssumption == MaxTokens \in Nat \ {0} /\ MaxEvents \in Nat

VARIABLES
  \* the server
  account,    \* per user: "enabled", "disabled", "deleted" or "gone"
  rows,       \* refresh_tokens
  expired,    \* access tokens past their lifetime
  issued,     \* how many pairs were issued
  renamed,    \* users whose name was changed and who were not told yet
  calls,      \* requests to /api/login and /api/refresh
  \* the device
  users,      \* the users table: is_logged_in and the tokens
  active,     \* localStorage.activeUser
  listed,     \* availableUsers of AuthContext
  flight,     \* refreshInFlight
  sync,       \* the sync run
  login,      \* the login form's request
  leaving,    \* a logout or deletion being carried out
  told,       \* a "user-rename" event not yet handled
  watch,      \* runs of RootLayout's validateActiveUser
  \* bookkeeping
  troubled,   \* users for whom an answer with new tokens was lost
  events

server == <<account, rows, expired, issued, renamed, calls>>
device == <<users, active, listed, flight, sync, login, leaving, told, watch>>
vars == <<server, device, troubled, events>>

Session(u, t) == [user |-> u, tok |-> t]
Anonymous == Session(Anon, NoToken)

NoCall == [pc |-> "free"]
Call == {NoCall} \cup
  [pc : {"find", "user", "revoke", "create", "refused", "ok"}, kind : {"login", "refresh"},
   user : Users, tok : Token \cup {NoToken}, entitled : BOOLEAN]

NoFlight == [pc |-> "none"]
NoTask == [pc |-> "none"]

Steps == {"check", "start", "complete", "icon"}
NextStep == [check |-> "start", start |-> "complete", complete |-> "icon"]

\* Requests whose command rejects on a refusal; /sync/start, /sync/chunk and
\* /sync/complete resolve with the refusal as an ordinary answer.
Rejecting == {"check", "icon"}
\* Icon transfers do not say for which user they are made.
Expecting == Steps \ {"icon"}

IdleSync == [pc |-> "idle", step |-> "check", user |-> Anon, first |-> NoToken, tok |-> NoToken]
IdleLogin == [pc |-> "idle", user |-> Anon, call |-> NoSlot, tok |-> NoToken]

\* A device nobody signed in on, or one where u signed in some time ago: u's
\* access token may be old, the account shut or renamed, since.
Init ==
  \E u \in Begun :
    LET tokens == {[user |-> x, n |-> 1] : x \in {u} \cap Users}
        tok(x) == IF x = u THEN [user |-> u, n |-> 1] ELSE NoToken
    IN
    /\ rows = tokens /\ issued = Cardinality(tokens)
    /\ expired \in SUBSET tokens
    /\ renamed \in SUBSET ({u} \cap Users)
    /\ \E status \in {"enabled", "disabled", "deleted"} :
         account = [x \in Users |-> IF x = u THEN status ELSE "enabled"]
    /\ calls = [c \in Slots |-> NoCall]
    /\ users = [x \in Users |-> [in |-> x = u, tok |-> tok(x)]]
    /\ active = IF u = Anon THEN Anonymous ELSE Session(u, tok(u))
    /\ listed = [x \in Users |-> IF x = u THEN tok(u) ELSE Unlisted]
    /\ flight = NoFlight /\ sync = IdleSync /\ login = IdleLogin
    /\ leaving = NoTask /\ told = NoTask /\ watch = {}
    /\ troubled = {} /\ events = 0

Event == events < MaxEvents /\ events' = events + 1

-----------------------------------------------------------------------------
(* The server: login, refresh, administration.                              *)

\* One statement of a handler: call c moves on, other calls stay.
Moves(c, pc) == calls' = [calls EXCEPT ![c].pc = pc]

\* RefreshToken::find_valid_by_token.
FindValid(c) ==
  /\ calls[c].pc = "find"
  /\ Moves(c, IF calls[c].tok \in rows THEN "user" ELSE "refused")
  /\ UNCHANGED <<account, rows, expired, issued, renamed, device, troubled, events>>

\* Mutant: the account is not looked at.
GetUser_Unchecked(c) ==
  /\ calls[c].pc = "user"
  /\ Moves(c, IF calls[c].kind = "refresh" THEN "revoke" ELSE "create")
  /\ UNCHANGED <<account, rows, expired, issued, renamed, device, troubled, events>>

\* get_user_by_uuid and the checks of deleted_at and disabled_at.
GetUser(c) ==
  /\ calls[c].pc = "user"
  /\ Moves(c, IF account[calls[c].user] # "enabled" THEN "refused"
              ELSE IF calls[c].kind = "refresh" THEN "revoke" ELSE "create")
  /\ UNCHANGED <<account, rows, expired, issued, renamed, device, troubled, events>>

\* RefreshToken::revoke_token.
Revoke(c) ==
  /\ calls[c].pc = "revoke"
  /\ rows' = rows \ {calls[c].tok}
  /\ Moves(c, "create")
  /\ UNCHANGED <<account, expired, issued, renamed, device, troubled, events>>

\* RefreshToken::create; the foreign key refuses a row for a removed user.
\* At the bound the statement fails, as it may at any time (HandlerFails).
Create(c) ==
  /\ calls[c].pc = "create"
  /\ \/ /\ account[calls[c].user] = "gone" \/ issued = MaxTokens
        /\ Moves(c, "refused")
        /\ UNCHANGED <<rows, issued>>
     \/ /\ account[calls[c].user] # "gone" /\ issued < MaxTokens
        /\ LET t == [user |-> calls[c].user, n |-> issued + 1] IN
             /\ rows' = rows \cup {t}
             /\ calls' = [calls EXCEPT ![c].pc = "ok", ![c].tok = t]
        /\ issued' = issued + 1
  /\ UNCHANGED <<account, expired, renamed, device, troubled, events>>

\* A statement of the handler fails; what was done before stays done.
HandlerFails(c) ==
  /\ calls[c].pc \in {"find", "user", "revoke", "create"}
  /\ Event
  /\ Moves(c, "refused")
  /\ UNCHANGED <<account, rows, expired, issued, renamed, device, troubled>>

Waiting(c) ==
  \/ flight.pc = "asked" /\ flight.call = c
  \/ login.pc = "asked" /\ login.call = c

\* A handler whose answer nobody waits for any more ends.
Forgotten(c) ==
  /\ calls[c].pc \in {"refused", "ok"} /\ ~Waiting(c)
  /\ calls' = [calls EXCEPT ![c] = NoCall]
  /\ UNCHANGED <<account, rows, expired, issued, renamed, device, troubled, events>>

AccessExpires ==
  /\ \E t \in ({active.tok} \cup {users[u].tok : u \in Users}) \ (expired \cup {NoToken}) :
       expired' = expired \cup {t}
  /\ Event
  /\ UNCHANGED <<account, rows, issued, renamed, calls, device, troubled>>

\* The administrator disables, enables, deletes (two statements: the mark,
\* then the clean-up transaction) and finally removes an account.
SetAccount(u, status) ==
  /\ account' = [account EXCEPT ![u] = status]
  /\ calls' = [c \in Slots |-> IF calls[c].pc # "free" /\ calls[c].user = u /\ status = "enabled"
                                 THEN [calls[c] EXCEPT !.entitled = TRUE] ELSE calls[c]]

SetUserDisabled(u) ==
  /\ Event
  /\ \/ account[u] = "enabled" /\ SetAccount(u, "disabled")
     \/ account[u] = "disabled" /\ SetAccount(u, "enabled")
  /\ UNCHANGED <<rows, expired, issued, renamed, device, troubled>>

SoftDelete(u) ==
  /\ account[u] \in {"enabled", "disabled"}
  /\ Event
  /\ SetAccount(u, "deleted")
  /\ UNCHANGED <<rows, expired, issued, renamed, device, troubled>>

CleanupUserData(u) ==
  /\ account[u] = "deleted"
  /\ rows' = {t \in rows : t.user # u}
  /\ \/ UNCHANGED <<account, calls>>
     \/ SetAccount(u, "gone")
  /\ rows' # rows \/ account' # account
  /\ UNCHANGED <<expired, issued, renamed, device, troubled, events>>

ChangeUsername(u) ==
  /\ account[u] = "enabled" /\ u \notin renamed
  /\ Event
  /\ renamed' = renamed \cup {u}
  /\ UNCHANGED <<account, rows, expired, issued, calls, device, troubled>>

\* A client asks: a login with the right password, or a refresh.
Asks(c, kind, u, t) ==
  /\ calls[c] = NoCall
  /\ calls' = [calls EXCEPT ![c] =
       [pc |-> IF kind = "login" THEN "user" ELSE "find", kind |-> kind, user |-> u, tok |-> t,
        entitled |-> account[u] = "enabled"]]
-----------------------------------------------------------------------------
(* The device: what every change of the active user does.                   *)

\* Mutant: the active user is validated at the start only.
Watching_Nobody(user) == {}

\* The newest run of validateActiveUser, for the user just made active. An
\* older one, a single read of the local table, is taken to be over.
Watching(user) == {[user |-> u, pc |-> "look"] : u \in {user} \cap Users}

\* setActiveSessionUser with AuthContext's listener and RootLayout's effect:
\* the list keeps the user's newest tokens, a validation starts.
SetActive(s, list) ==
  /\ active' = s
  /\ listed' = [u \in Users |-> IF u = s.user /\ list[u] # Unlisted THEN s.tok ELSE list[u]]
  /\ watch' = Watching(s.user)

\* get_all_users: who is signed in, according to the table.
Snapshot == [u \in Users |-> IF users[u].in THEN users[u].tok ELSE Unlisted]

\* Mutant: the new tokens are not written.
SaveUser_Forgets(u, t) == UNCHANGED users

\* save_user leaves is_logged_in alone; a row it has to insert starts at 0.
SaveUser(u, t) == users' = [users EXCEPT ![u].tok = t]
SetLoginStatus(u, in) == users' = [users EXCEPT ![u].in = in]
DeleteUser(u) == users' = [users EXCEPT ![u] = [in |-> FALSE, tok |-> NoToken]]

\* requireAuthenticatedUser on session s, for a request that may name its user.
Authenticated(s, expected) ==
  s.user # Anon /\ s.tok # NoToken /\ expected \in {Anon, s.user}

\* Mutant: no request names its user.
Expected_Anybody(step, u) == Anon

Expected(step, u) == IF step \in Expecting THEN u ELSE Anon

\* Mutant: a run that can not go on is left where it is.
Sends_Stops(s, step, pc, a) ==
  IF Authenticated(a, Expected(step, s.user))
    THEN [s EXCEPT !.pc = pc, !.step = step, !.tok = a.tok] ELSE [s EXCEPT !.pc = "stopped"]

\* The sync run s sends its next request with session a, or gives up.
Sends(s, step, pc, a) ==
  IF Authenticated(a, Expected(step, s.user))
    THEN [s EXCEPT !.pc = pc, !.step = step, !.tok = a.tok,
                   !.first = IF step = "check" THEN @ ELSE NoToken]
    ELSE IdleSync

\* Mutant: a refresh that fails wakes nobody.
Settles_OnlyIfRefreshed(refreshed, a) ==
  /\ flight' = NoFlight
  /\ sync' = IF sync.pc # "held" \/ refreshed = NoFlight THEN sync
              ELSE Sends(sync, sync.step, "resent", a)
  /\ login' = IF login.pc = "held" THEN IdleLogin ELSE login

\* Whoever awaits the refresh goes on: the sync run repeats its request with
\* the active session a, the login form repeats a login that fails again.
Settles(refreshed, a) ==
  /\ flight' = NoFlight
  /\ sync' = IF sync.pc # "held" THEN sync
              ELSE IF refreshed = NoFlight
                        \/ Expected(sync.step, sync.user) \notin {Anon, refreshed.user}
                THEN IdleSync
              ELSE Sends(sync, sync.step, "resent", a)
  /\ login' = IF login.pc = "held" THEN IdleLogin ELSE login

-----------------------------------------------------------------------------
(* performTokenRefresh and refreshActiveSession.                            *)

\* Join the refresh under way, or start one for the active session.
Refresh(expected) ==
  \/ (flight # NoFlight /\ UNCHANGED <<flight, calls>>)
  \/ /\ flight = NoFlight
     /\ Authenticated(active, expected)
     /\ \E c \in Slots :
          /\ Asks(c, "refresh", active.user, active.tok)
          /\ flight' = [pc |-> "asked", user |-> active.user, tok |-> active.tok, call |-> c]

CannotRefresh(expected) == flight = NoFlight /\ ~Authenticated(active, expected)

RefreshAnswered ==
  /\ flight.pc = "asked"
  /\ calls[flight.call].pc \in {"ok", "refused"}
  /\ flight' = IF calls[flight.call].pc = "ok"
                 THEN [flight EXCEPT !.pc = "save", !.call = NoSlot, !.tok = calls[flight.call].tok]
                 ELSE [flight EXCEPT !.pc = "clear", !.call = NoSlot]
  /\ calls' = [calls EXCEPT ![flight.call] = NoCall]
  /\ UNCHANGED <<account, rows, expired, issued, renamed, users, active, listed, sync, login, leaving,
                 told, watch, troubled, events>>

\* The user whose tokens are being replaced, until the table says so.
Unsettled == {u \in Users : flight.pc \in {"asked", "save", "clear"} /\ flight.user = u}

\* The connection breaks: the answer, whatever it will be, is lost.
RefreshLost ==
  /\ flight.pc = "asked"
  /\ Event
  /\ troubled' = troubled \cup Unsettled
  /\ Settles(NoFlight, active)
  /\ UNCHANGED <<server, users, active, listed, leaving, told, watch>>

RefreshSaved ==
  /\ flight.pc = "save"
  /\ SaveUser(flight.user, flight.tok)
  /\ troubled' = troubled \ {flight.user}
  /\ flight' = [flight EXCEPT !.pc = "publish"]
  /\ UNCHANGED <<server, active, listed, sync, login, leaving, told, watch, events>>

RefreshPublished ==
  /\ flight.pc = "publish"
  /\ LET a == Session(flight.user, flight.tok) IN SetActive(a, listed) /\ Settles(flight, a)
  /\ UNCHANGED <<server, users, leaving, told, troubled, events>>

\* Mutant: the refused tokens stay in the table, and the user signed in.
RefreshCleared_KeepsTokens ==
  /\ flight.pc = "clear"
  /\ flight' = [flight EXCEPT !.pc = "leave"]
  /\ UNCHANGED <<server, users, active, listed, sync, login, leaving, told, watch, troubled, events>>

\* clearInvalidSession: two writes to the table, then the active user.
RefreshCleared ==
  /\ flight.pc = "clear"
  /\ users' = [users EXCEPT ![flight.user] = [in |-> FALSE, tok |-> NoToken]]
  /\ flight' = [flight EXCEPT !.pc = "leave"]
  /\ UNCHANGED <<server, active, listed, sync, login, leaving, told, watch, troubled, events>>

RefreshGivenUp ==
  /\ flight.pc = "leave"
  /\ SetActive(Anonymous, listed)
  /\ Settles(NoFlight, Anonymous)
  /\ UNCHANGED <<server, users, leaving, told, troubled, events>>

-----------------------------------------------------------------------------
(* The login form, the account switcher and logout.                         *)

\* The overlay of a sync run covers the interface.
Interface == sync.pc = "idle"

\* A login as u; apiClient first looks at the session it is called in.
LoginAsked(u) ==
  /\ Interface /\ login.pc = "idle"
  /\ active.user = Anon \/ active.tok # NoToken
  /\ issued < MaxTokens
  /\ \E c \in Slots :
       /\ Asks(c, "login", u, NoToken)
       /\ login' = [pc |-> "asked", user |-> u, call |-> c, tok |-> NoToken]
  /\ UNCHANGED <<account, rows, expired, issued, renamed, users, active, listed, flight, sync, leaving,
                 told, watch, troubled, events>>

LoginAnswered ==
  /\ login.pc = "asked"
  /\ calls[login.call].pc \in {"ok", "refused"}
  /\ login' = IF calls[login.call].pc = "ok"
                THEN [login EXCEPT !.pc = "save", !.call = NoSlot, !.tok = calls[login.call].tok]
                ELSE IdleLogin
  /\ calls' = [calls EXCEPT ![login.call] = NoCall]
  /\ UNCHANGED <<account, rows, expired, issued, renamed, users, active, listed, flight, sync, leaving,
                 told, watch, troubled, events>>

\* A wrong password (401) makes apiClient refresh the session it was called in.
WrongPassword ==
  /\ Interface /\ login.pc = "idle"
  /\ active.user # Anon /\ active.tok # NoToken
  /\ login' = [IdleLogin EXCEPT !.pc = "wrong", !.user = active.user]
  /\ UNCHANGED <<server, users, active, listed, flight, sync, leaving, told, watch, troubled, events>>

WrongPasswordAnswered ==
  /\ login.pc = "wrong"
  /\ \/ /\ Refresh(login.user)
        /\ login' = [IdleLogin EXCEPT !.pc = "held"]
     \/ /\ CannotRefresh(login.user)
        /\ login' = IdleLogin
        /\ UNCHANGED <<flight, calls>>
  /\ UNCHANGED <<account, rows, expired, issued, renamed, users, active, listed, sync, leaving,
                 told, watch, troubled, events>>

\* The request times out after eight seconds.
LoginLost ==
  /\ login.pc \in {"asked", "wrong"}
  /\ Event
  /\ login' = IdleLogin
  /\ UNCHANGED <<server, users, active, listed, flight, sync, leaving, told, watch, troubled>>

\* The tokens and is_logged_in are written one after the other.
LoginSaved ==
  /\ login.pc = "save"
  /\ users' = [users EXCEPT ![login.user] = [in |-> TRUE, tok |-> login.tok]]
  /\ troubled' = troubled \ {login.user}
  /\ login' = [login EXCEPT !.pc = "list"]
  /\ UNCHANGED <<server, active, listed, flight, sync, leaving, told, watch, events>>

LoginFinished ==
  /\ login.pc = "list"
  /\ SetActive(Session(login.user, login.tok), Snapshot)
  /\ login' = IdleLogin
  /\ UNCHANGED <<server, users, flight, sync, leaving, told, troubled, events>>

SwitchActiveUser(u) ==
  /\ Interface
  /\ active.user # u /\ listed[u] # Unlisted
  /\ SetActive(Session(u, listed[u]), listed)
  /\ UNCHANGED <<server, users, flight, sync, login, leaving, told, troubled, events>>

\* logoutUser, and with "delete" deleteUser of the active user.
Leave(u, pc, demote) == leaving' = [pc |-> pc, user |-> u, demote |-> demote]

LogoutAsked(u) ==
  /\ Interface /\ leaving = NoTask
  /\ \/ (listed[u] # Unlisted \/ active.user = u) /\ Leave(u, "signout", active.user = u)
     \/ active.user = u /\ Leave(u, "delete", TRUE)
  /\ UNCHANGED <<server, users, active, listed, flight, sync, login, told, watch, troubled, events>>

LeaveWritten ==
  /\ leaving.pc \in {"signout", "delete"}
  /\ IF leaving.pc = "delete" THEN DeleteUser(leaving.user) ELSE SetLoginStatus(leaving.user, FALSE)
  /\ leaving' = [leaving EXCEPT !.pc = "list"]
  /\ UNCHANGED <<server, active, listed, flight, sync, login, told, watch, troubled, events>>

LeaveFinished ==
  /\ leaving.pc = "list"
  /\ IF leaving.demote THEN SetActive(Anonymous, Snapshot)
     ELSE listed' = Snapshot /\ UNCHANGED <<active, watch>>
  /\ leaving' = NoTask
  /\ UNCHANGED <<server, users, flight, sync, login, told, troubled, events>>

\* validateActiveUser reads the table, then acts on what it read.
Validate(w) ==
  /\ w \in watch
  /\ \/ /\ w.pc = "look"
        /\ watch' = IF users[w.user].in THEN {} ELSE {[w EXCEPT !.pc = "demote"]}
        /\ UNCHANGED <<active, listed>>
     \/ /\ w.pc = "demote"
        /\ active' = Anonymous /\ watch' = {}
        /\ UNCHANGED listed
  /\ UNCHANGED <<server, users, flight, sync, login, leaving, told, troubled, events>>

-----------------------------------------------------------------------------
(* The requests of a sync run.                                              *)

SyncAsked ==
  /\ Interface /\ leaving = NoTask
  /\ Authenticated(active, Anon)
  /\ sync' = Sends([IdleSync EXCEPT !.user = active.user, !.first = active.tok],
                   "check", "sent", active)
  /\ UNCHANGED <<server, users, active, listed, flight, login, leaving, told, watch, troubled, events>>

Pending == sync.pc \in {"sent", "resent"}
Expired == sync.tok \in expired
Shut == sync.step = "check" /\ account[sync.tok.user] # "enabled" /\ ~Expired

SyncAnswered ==
  /\ Pending /\ ~Expired /\ ~Shut
  /\ sync' = IF sync.step = "icon" THEN IdleSync
              ELSE Sends(sync, NextStep[sync.step], "sent", active)
  /\ IF sync.step = "check" /\ sync.user \in renamed
       THEN told' = [pc |-> "store", user |-> sync.user, tok |-> sync.first]
       ELSE UNCHANGED told
  /\ UNCHANGED <<server, users, active, listed, flight, login, leaving, watch, troubled, events>>

\* A rejected command makes runWithActiveSessionRetry refresh, once.
SyncRefreshes ==
  /\ sync.pc = "sent" /\ Expired /\ sync.step \in Rejecting
  /\ LET expected == Expected(sync.step, sync.user) IN
       \/ Refresh(expected) /\ sync' = [sync EXCEPT !.pc = "held"]
       \/ CannotRefresh(expected) /\ sync' = IdleSync /\ UNCHANGED <<flight, calls>>
  /\ UNCHANGED <<account, rows, expired, issued, renamed, users, active, listed, login, leaving, told,
                 watch, troubled, events>>

\* handleTokenExpiredOnServer: a refusal no refresh followed signs the user out.
SyncSignsOut ==
  /\ Pending /\ Expired
  /\ sync.step \notin Rejecting \/ sync.pc = "resent"
  /\ sync' = IdleSync
  /\ IF sync.step = "icon" THEN UNCHANGED leaving
     ELSE leaving = NoTask /\ Leave(sync.user, "signout", TRUE)
  /\ UNCHANGED <<server, users, active, listed, flight, login, told, watch, troubled, events>>

\* handleAccountDisabledOnServer and handleAccountDeletedOnServer.
SyncShutOut ==
  /\ Pending /\ Shut
  /\ leaving = NoTask
  /\ sync' = IdleSync
  /\ Leave(sync.user, IF account[sync.user] = "disabled" THEN "signout" ELSE "delete", TRUE)
  /\ UNCHANGED <<server, users, active, listed, flight, login, told, watch, troubled, events>>

SyncFails ==
  /\ Pending
  /\ Event
  /\ sync' = IdleSync
  /\ UNCHANGED <<server, users, active, listed, flight, login, leaving, told, watch, troubled>>

\* The "user-rename" listener: it stores the name, then makes active the user
\* the run was started with, under the new name, and reads the list again.
RenameHandled ==
  /\ told.pc = "store"
  /\ SetActive(Session(told.user, told.tok), listed)
  /\ told' = [told EXCEPT !.pc = "list"]
  /\ renamed' = renamed \ {told.user}
  /\ UNCHANGED <<account, rows, expired, issued, calls, users, flight, sync, login, leaving, troubled,
                 events>>

RenameListed ==
  /\ told.pc = "list"
  /\ listed' = Snapshot /\ told' = NoTask
  /\ UNCHANGED <<server, users, active, flight, sync, login, leaving, watch, troubled, events>>

-----------------------------------------------------------------------------

\* The window is closed and opened again; localStorage and the table remain.
Restart ==
  /\ Event
  /\ troubled' = troubled \cup Unsettled
  /\ flight' = NoFlight /\ sync' = IdleSync /\ login' = IdleLogin
  /\ leaving' = NoTask /\ told' = NoTask
  /\ listed' = Snapshot
  /\ watch' = Watching(active.user)
  /\ UNCHANGED <<server, users, active>>

Handler(c) == FindValid(c) \/ GetUser(c) \/ Revoke(c) \/ Create(c) \/ Forgotten(c)
Flight == RefreshAnswered \/ RefreshSaved \/ RefreshPublished \/ RefreshCleared \/ RefreshGivenUp
Form == LoginAnswered \/ WrongPasswordAnswered \/ LoginSaved \/ LoginFinished
Leaving == LeaveWritten \/ LeaveFinished
Run == SyncAnswered \/ SyncRefreshes \/ SyncSignsOut \/ SyncShutOut
Rename == RenameHandled \/ RenameListed
Choices == SyncAsked \/ WrongPassword \/
  (\E u \in Users : LoginAsked(u) \/ SwitchActiveUser(u) \/ LogoutAsked(u))
Faults == AccessExpires \/ RefreshLost \/ LoginLost \/ SyncFails \/ Restart \/
  (\E c \in Slots : HandlerFails(c))
Administration == \E u \in Users :
  SetUserDisabled(u) \/ SoftDelete(u) \/ CleanupUserData(u) \/ ChangeUsername(u)

Next ==
  \/ \E c \in Slots : Handler(c)
  \/ Flight \/ Form \/ Leaving \/ Run \/ Rename
  \/ \E w \in watch : Validate(w)
  \/ Choices \/ Faults \/ Administration

Spec == Init /\ [][Next]_vars

-----------------------------------------------------------------------------

\* Every variable has its type.
TypeOK ==
  /\ account \in [Users -> {"enabled", "disabled", "deleted", "gone"}]
  /\ rows \subseteq Token /\ expired \subseteq Token /\ issued \in 0..MaxTokens
  /\ renamed \subseteq Users /\ calls \in [Slots -> Call]
  /\ users \in [Users -> [in : BOOLEAN, tok : Token \cup {NoToken}]]
  /\ active \in [user : Users \cup {Anon}, tok : Token \cup {NoToken}]
  /\ listed \in [Users -> Token \cup {NoToken, Unlisted}]
  /\ flight = NoFlight \/ flight \in
       [pc : {"asked", "save", "publish", "clear", "leave"}, user : Users, tok : Token,
        call : Slots \cup {NoSlot}]
  /\ sync \in [pc : {"idle", "sent", "held", "resent"}, step : Steps, user : Users \cup {Anon},
                first : Token \cup {NoToken}, tok : Token \cup {NoToken}]
  /\ login \in [pc : {"idle", "asked", "wrong", "held", "save", "list"},
                 user : Users \cup {Anon}, call : Slots \cup {NoSlot}, tok : Token \cup {NoToken}]
  /\ leaving = NoTask \/ leaving \in [pc : {"signout", "delete", "list"}, user : Users, demote : BOOLEAN]
  /\ told = NoTask \/ told \in [pc : {"store", "list"}, user : Users, tok : Token]
  /\ watch \subseteq [user : Users, pc : {"look", "demote"}]
  /\ troubled \subseteq Users /\ events \in 0..MaxEvents

\* The refresh token the device keeps for a signed-in user is one the server
\* will take, or the refresh replacing it is still on its way (performTokenRefresh
\* and the rotation of refresh_user_tokens), unless an answer was lost.
ServerHoldsTheToken == \A u \in Users :
  users[u].in /\ users[u].tok # NoToken /\ account[u] \notin {"deleted", "gone"} /\ u \notin troubled
    => users[u].tok \in rows \/ (flight # NoFlight /\ flight.user = u)

\* No request that arrived after an account was shut, and was answered before
\* it was opened again, leaves a new refresh token.
NoTokensForTheShut == [][\A t \in rows' \ rows :
  \E c \in Slots : calls[c].pc = "create" /\ calls[c].user = t.user /\ calls[c].entitled]_vars

\* A sync run only ever shows the server a token of the user it runs for.
RequestsStayWithTheirUser ==
  sync.pc \in {"sent", "resent"} /\ sync.step \in Expecting => sync.tok.user = sync.user

-----------------------------------------------------------------------------
(* Progress: handlers, the steps of a refresh, of a login and of a logout, *)
(* the answers to a run and the validation go on by themselves; users, the *)
(* administrator and faults need not act.                                  *)

Fairness ==
  /\ \A c \in Slots : WF_vars(Handler(c))
  /\ WF_vars(Flight) /\ WF_vars(Form) /\ WF_vars(Leaving) /\ WF_vars(Run)
  /\ WF_vars(Rename) /\ WF_vars(\E w \in watch : Validate(w))

FairSpec == Spec /\ Fairness

\* A sync run and a login come to an end, whoever waits for whose refresh.
RequestsEnd ==
  /\ (sync.pc # "idle") ~> (sync.pc = "idle")
  /\ (login.pc # "idle") ~> (login.pc = "idle")

\* Something begun before is about to make u active: a refresh that ends, or
\* the listener of "user-rename".
Returning(u) == (flight.pc = "publish" /\ flight.user = u) \/ (told.pc = "store" /\ told.user = u)

\* Logout prevails: a user the table calls signed out, whom an older refresh or
\* a change of name makes active again, does not stay active, because every
\* change of the active user is validated against the table (validateActiveUser).
LogoutPrevails == \A u \in Users :
  (Returning(u) /\ ~users[u].in) ~> (~Returning(u) /\ (active.user # u \/ users[u].in))
====

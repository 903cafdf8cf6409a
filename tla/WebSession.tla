----------------------------- MODULE WebSession -----------------------------
(***************************************************************************)
(* The session of the web page: localStorage, which the tabs of a browser  *)
(* share, what each tab remembers of it, and the refreshes by which an     *)
(* expired access token is replaced while requests wait.  The page keeps a *)
(* list of accounts to switch between.                                     *)
(*                                                                         *)
(* An access token and the refresh token issued with it are one value.     *)
(* The server's side of a refresh is cut into its statements in            *)
(* DesktopSession; here it is found valid in one step and rotated in       *)
(* another.                                                                *)
(***************************************************************************)
EXTENDS Naturals, FiniteSets, Functions

CONSTANTS
    Tabs,         \* tabs of one browser
    Users,        \* accounts of the server
    Requests,     \* names of the requests a tab may have under way
    NoToken,      \* null
    NoUser,       \* null
    MaxTokens,    \* bound: pairs of tokens issued
    MaxEvents     \* bound: acts of the user and the administrator, access
                  \*        tokens that expire, failures of network and server

VARIABLES
    owner,     \* [Tokens -> Users or NoUser]  whom a pair was issued to
    rows,      \* SUBSET Tokens                refresh tokens that are valid
    expired,   \* SUBSET Tokens                access tokens that are not
    shut,      \* SUBSET Users                 disabled accounts
    stored,    \* Pair                         localStorage: the current session
    accounts,  \* [Users -> Token]             localStorage: the saved accounts
    cache,     \* [Tabs -> Pair]               the variables of tokenStore
    page,      \* [Tabs -> Page]
    shown,     \* [Tabs -> Users or NoUser]    whose page it is
    listed,    \* [Tabs -> [Users -> Token]]   the accounts it was drawn with
    req,       \* [Tabs -> [Requests -> Request]]
    calls,     \* SUBSET Call                  logins and refreshes under way
    due,       \* [Tabs -> SUBSET Timer]       timers of the control center
    crossed,   \* SUBSET Tabs                  history: tabs whose session was
               \*                              exchanged under a request
    troubled,  \* SUBSET Users                 history: lost the answer to a refresh
    events     \* Nat

vars == <<owner, rows, expired, shut, stored, accounts, cache, page, shown, listed, req,
          calls, due, crossed, troubled, events>>

-----------------------------------------------------------------------------
(* Values                                                                  *)

Tokens == 1..MaxTokens
Token  == Tokens \cup {NoToken}
Pair   == [access: Token, refresh: Token]
NoPair == [access |-> NoToken, refresh |-> NoToken]
Both(k) == [access |-> k, refresh |-> k]

Nobody == [u \in Users |-> NoToken]

Page == {"closed", "boot", "login", "app"}

(* A request of a page carries a token; refused, it waits for the refresh, *)
(* and is sent again.                                                      *)
Request == [at: {"idle", "sent", "waits", "again"}, for: {"data", "username"},
            token: Token, user: Users \cup {NoUser}]
IdleRequest == [at |-> "idle", for |-> "data", token |-> NoToken, user |-> NoUser]

(* What a call to /api/login or /api/refresh is for.  A tab that was       *)
(* reloaded does not hear of its calls any more.                           *)
Purpose == {"login", "boot", "flight", "switch", "none"}
Call == [tab: Tabs, for: Purpose, user: Users \cup {NoUser}, old: Token,
         at: {"asked", "found", "answered", "refused", "failed"}, new: Token]

Timer == {"reload", "logout"}

ASSUME WebSessionAssumption ==
    /\ NoToken \notin Nat
    /\ NoUser \notin Users
    /\ IsFiniteSet(Users) /\ Users # {}
    /\ MaxTokens \in Nat /\ MaxTokens >= Cardinality(Users)
    /\ MaxEvents \in Nat

Issued == {k \in Tokens : owner[k] # NoUser}

(* Every account has signed in before, one of them last; no tab is open.   *)
Init ==
    /\ accounts \in {f \in [Users -> 1..Cardinality(Users)] : IsInjective(f)}
    /\ owner = [k \in Tokens |-> IF k <= Cardinality(Users)
                                 THEN CHOOSE u \in Users : accounts[u] = k ELSE NoUser]
    /\ rows = 1..Cardinality(Users)
    /\ expired = {}
    /\ shut = {}
    /\ stored = Both(Cardinality(Users))
    /\ cache = [t \in Tabs |-> NoPair]
    /\ page = [t \in Tabs |-> "closed"]
    /\ shown = [t \in Tabs |-> NoUser]
    /\ listed = [t \in Tabs |-> Nobody]
    /\ req = [t \in Tabs |-> [q \in Requests |-> IdleRequest]]
    /\ calls = {}
    /\ due = [t \in Tabs |-> {}]
    /\ crossed = {}
    /\ troubled = {}
    /\ events = 0

Event == events < MaxEvents /\ events' = events + 1
Quiet == UNCHANGED events

Server  == <<owner, rows, expired, shut>>
Browser == <<stored, accounts, cache>>

-----------------------------------------------------------------------------
(* tokenStore                                                              *)

(* The getters look at the variable and then at localStorage.              *)
AccessOf(t)  == IF cache[t].access # NoToken THEN cache[t].access ELSE stored.access
RefreshOf(t) == IF cache[t].refresh # NoToken THEN cache[t].refresh ELSE stored.refresh

SetCurrentUserSession(t, k) ==
    /\ stored' = Both(k)
    /\ cache' = [cache EXCEPT ![t] = Both(k)]
    /\ accounts' = [accounts EXCEPT ![owner[k]] = k]

ClearUserAccessToken(t) ==
    /\ stored' = NoPair
    /\ cache' = [cache EXCEPT ![t] = NoPair]

Remove(us) == accounts' = [u \in Users |-> IF u \in us THEN NoToken ELSE accounts[u]]

(* The account of the access token goes, or the one with the refresh token. *)
ClearInvalidUserSession(t) ==
    /\ Remove(IF AccessOf(t) # NoToken THEN {owner[AccessOf(t)]}
              ELSE {u \in Users : accounts[u] = RefreshOf(t) /\ RefreshOf(t) # NoToken})
    /\ ClearUserAccessToken(t)

Leave(t) ==
    /\ page' = [page EXCEPT ![t] = "login"]
    /\ shown' = [shown EXCEPT ![t] = NoUser]
    /\ listed' = [listed EXCEPT ![t] = Nobody]

Enter(t, k) ==
    /\ page' = [page EXCEPT ![t] = "app"]
    /\ shown' = [shown EXCEPT ![t] = owner[k]]
    /\ UNCHANGED listed

(* onLogout of AppShell.                                                   *)
HandleLogout(t) == ClearUserAccessToken(t) /\ Leave(t) /\ UNCHANGED accounts

-----------------------------------------------------------------------------
(* The server                                                              *)

Ask(t, for, u, k) ==
    [tab |-> t, for |-> for, user |-> u, old |-> k, at |-> "asked", new |-> NoToken]
Step(c, at) == calls' = (calls \ {c}) \cup {[c EXCEPT !.at = at]}

ServerOnly == UNCHANGED <<expired, shut, Browser, page, shown, listed, req, due, crossed, troubled>>

(* find_valid_by_token and the state of the account, or the password.      *)
FindValid(c) ==
    /\ c.at = "asked"
    /\ LET login == c.old = NoToken
           u == IF login THEN c.user ELSE owner[c.old]
       IN IF u \notin shut /\ (login \/ c.old \in rows)
          THEN calls' = (calls \ {c}) \cup {[c EXCEPT !.at = "found", !.user = u]}
          ELSE Step(c, "refused")
    /\ Quiet
    /\ UNCHANGED <<owner, rows>>
    /\ ServerOnly

(* The old token is revoked and a new pair issued; once MaxTokens are, the  *)
(* transaction fails.                                                      *)
Rotate(c) ==
    /\ c.at = "found"
    /\ \/ \E k \in Tokens \ Issued :
             /\ \A j \in Tokens \ Issued : k <= j
             /\ owner' = [owner EXCEPT ![k] = c.user]
             /\ rows' = (rows \ {c.old}) \cup {k}
             /\ calls' = (calls \ {c}) \cup {[c EXCEPT !.at = "answered", !.new = k]}
       \/ Issued = Tokens /\ Step(c, "refused") /\ UNCHANGED <<owner, rows>>
    /\ Quiet
    /\ ServerOnly

-----------------------------------------------------------------------------
(* A tab opens or reloads: SessionBootstrap refreshes before it shows.     *)

Mine(t) == {c \in calls : c.tab = t /\ c.for # "none"}

Unheard_Heard(t) == calls

(* Answers under way to the page that was are heard by nobody.             *)
Unheard(t) == (calls \ Mine(t)) \cup {[c EXCEPT !.for = "none"] : c \in Mine(t)}

Boot(t) ==
    /\ cache' = [cache EXCEPT ![t] = [access |-> NoToken, refresh |-> stored.refresh]]
    /\ page' = [page EXCEPT ![t] = IF stored.refresh = NoToken THEN "login" ELSE "boot"]
    /\ calls' = Unheard(t) \cup (IF stored.refresh = NoToken THEN {}
                                 ELSE {Ask(t, "boot", NoUser, stored.refresh)})
    /\ troubled' = troubled \cup {owner[c.old] : c \in {d \in Mine(t) : d.old # NoToken}}
    /\ shown' = [shown EXCEPT ![t] = NoUser]
    /\ req' = [req EXCEPT ![t] = [q \in Requests |-> IdleRequest]]
    /\ due' = [due EXCEPT ![t] = {}]
    /\ crossed' = crossed \ {t}
    /\ listed' = [listed EXCEPT ![t] = Nobody]
    /\ UNCHANGED <<Server, stored, accounts>>

OpenTab(t) == (IF page[t] = "closed" THEN Quiet ELSE Event) /\ Boot(t)
Reload(t)  == "reload" \in due[t] /\ Quiet /\ Boot(t)

Forgotten(c) ==
    /\ c.for = "none"
    /\ c.at \in {"answered", "refused", "failed"}
    /\ calls' = calls \ {c}
    /\ Quiet
    /\ UNCHANGED <<Server, Browser, page, shown, listed, req, due, crossed, troubled>>

(* A continuation of the call takes it off.                                *)
Ends(c, for, at) ==
    /\ c.for = for
    /\ c.at \in at
    /\ calls' = calls \ {c}
    /\ Quiet
    /\ UNCHANGED <<Server, troubled>>

SessionRestored(c) ==
    /\ Ends(c, "boot", {"answered"})
    /\ SetCurrentUserSession(c.tab, c.new)
    /\ Enter(c.tab, c.new)
    /\ UNCHANGED <<req, due, crossed>>

(* Whatever went wrong, the session is taken for invalid.                  *)
RestoreFailed(c) ==
    /\ Ends(c, "boot", {"refused", "failed"})
    /\ ClearInvalidUserSession(c.tab)
    /\ Leave(c.tab)
    /\ UNCHANGED <<req, due, crossed>>

-----------------------------------------------------------------------------
(* Requests: executeResponse and refreshAccessToken.                       *)

Put(t, q, at, k) == req' = [req EXCEPT ![t][q].at = at, ![t][q].token = k]
RequestOver(t, q) == req' = [req EXCEPT ![t][q] = IdleRequest]

SendRequest(t, q, for) ==
    /\ page[t] = "app"
    /\ req[t][q].at = "idle"
    /\ AccessOf(t) # NoToken
    /\ cache' = [cache EXCEPT ![t].access = AccessOf(t)]
    /\ req' = [req EXCEPT ![t][q] = [at |-> "sent", for |-> for, token |-> AccessOf(t),
                                      user |-> shown[t]]]
    /\ IF for = "username" THEN Event ELSE Quiet
    /\ UNCHANGED <<Server, stored, accounts, page, shown, listed, calls, due, crossed, troubled>>

UnderWay(t, q) == req[t][q].at \in {"sent", "again"}

(* A new name sets a timer to sign out, whoever is signed in by then.      *)
RequestAnswered(t, q) ==
    /\ UnderWay(t, q)
    /\ req[t][q].token \notin expired
    /\ RequestOver(t, q)
    /\ due' = IF req[t][q].for = "username" THEN [due EXCEPT ![t] = @ \cup {"logout"}] ELSE due
    /\ Quiet
    /\ UNCHANGED <<Server, Browser, page, shown, listed, calls, crossed, troubled>>

(* The handlers of the page answer an authentication error by a logout,    *)
(* whoever is signed in by then.                                           *)
AuthError(t, qs) ==
    /\ HandleLogout(t)
    /\ req' = [req EXCEPT ![t] = [q \in Requests |-> IF q \in qs THEN IdleRequest ELSE req[t][q]]]
    /\ crossed' = IF \E q \in Requests \ qs : req[t][q].at # "idle" THEN crossed \cup {t} ELSE crossed

RefusedAgain(t, q) ==
    /\ req[t][q].at = "again"
    /\ req[t][q].token \in expired
    /\ AuthError(t, {q})
    /\ Quiet
    /\ UNCHANGED <<Server, calls, due, troubled>>

Flight(t) == {c \in Mine(t) : c.for = "flight"}
Waiting(t) == {q \in Requests : req[t][q].at = "waits"}

(* The first to be refused starts the refresh, the others join it.         *)
MustRefresh(t) == Flight(t) = {} /\ RefreshOf(t) # NoToken

RefusedFirst(t, q) ==
    /\ req[t][q].at = "sent"
    /\ req[t][q].token \in expired
    /\ Flight(t) # {} \/ RefreshOf(t) # NoToken
    /\ Put(t, q, "waits", NoToken)
    /\ IF MustRefresh(t)
       THEN /\ cache' = [cache EXCEPT ![t].refresh = RefreshOf(t)]
            /\ calls' = calls \cup {Ask(t, "flight", NoUser, RefreshOf(t))}
       ELSE UNCHANGED <<cache, calls>>
    /\ Quiet
    /\ UNCHANGED <<Server, stored, accounts, page, shown, listed, due, crossed, troubled>>

(* Without a refresh token the session is cleared and the request fails.   *)
RefusedWithoutSession(t, q) ==
    /\ req[t][q].at = "sent"
    /\ req[t][q].token \in expired
    /\ Flight(t) = {} /\ RefreshOf(t) = NoToken
    /\ ClearInvalidUserSession(t)
    /\ Leave(t)
    /\ RequestOver(t, q)
    /\ Quiet
    /\ UNCHANGED <<Server, calls, due, crossed, troubled>>

(* The waiting requests go on when the last step of the refresh is done.   *)
Refreshed(c) ==
    /\ Ends(c, "flight", {"answered"})
    /\ SetCurrentUserSession(c.tab, c.new)
    /\ req' = [req EXCEPT ![c.tab] =
           [q \in Requests |-> IF q \in Waiting(c.tab)
                               THEN [@[q] EXCEPT !.at = "again", !.token = c.new] ELSE @[q]]]
    /\ UNCHANGED <<page, shown, listed, due, crossed>>

RefreshRefused(c) ==
    /\ Ends(c, "flight", {"refused"})
    /\ ClearInvalidUserSession(c.tab)
    /\ Leave(c.tab)
    /\ req' = [req EXCEPT ![c.tab] =
           [q \in Requests |-> IF q \in Waiting(c.tab) THEN IdleRequest ELSE @[q]]]
    /\ UNCHANGED <<due, crossed>>

(* A rejected fetch is an error of the waiting requests, and no more.      *)
RefreshFailed(c) ==
    /\ Ends(c, "flight", {"failed"})
    /\ req' = [req EXCEPT ![c.tab] =
           [q \in Requests |-> IF q \in Waiting(c.tab) THEN IdleRequest ELSE @[q]]]
    /\ UNCHANGED <<Browser, page, shown, listed, due, crossed>>

-----------------------------------------------------------------------------
(* Acts of the user                                                        *)

Login(t, u) ==
    /\ Event
    /\ page[t] = "login"
    /\ \A c \in Mine(t) : c.for # "login"
    /\ calls' = calls \cup {Ask(t, "login", u, NoToken)}
    /\ UNCHANGED <<Server, Browser, page, shown, listed, req, due, crossed, troubled>>

Crossing(t, others) ==
    crossed' = IF others # {} \/ \E q \in Requests : req[t][q].at # "idle"
               THEN crossed \cup {t} ELSE crossed

LoggedIn(c) ==
    /\ Ends(c, "login", {"answered"})
    /\ SetCurrentUserSession(c.tab, c.new)
    /\ Enter(c.tab, c.new)
    /\ Crossing(c.tab, Mine(c.tab) \ {c})
    /\ UNCHANGED <<req, due>>

LoginFailed(c) ==
    /\ Ends(c, "login", {"refused", "failed"})
    /\ UNCHANGED <<Browser, page, shown, listed, req, due, crossed>>

(* Back to the page by the history of the tab: ProtectedRoute looks for an *)
(* access token, which another tab may have stored.                        *)
Revisit(t) ==
    /\ Event
    /\ page[t] = "login"
    /\ AccessOf(t) # NoToken
    /\ cache' = [cache EXCEPT ![t].access = AccessOf(t)]
    /\ Enter(t, AccessOf(t))
    /\ Crossing(t, Mine(t))
    /\ UNCHANGED <<Server, stored, accounts, req, calls, due, troubled>>

Logout(t) ==
    /\ Event
    /\ page[t] = "app"
    /\ HandleLogout(t)
    /\ Crossing(t, Mine(t))
    /\ UNCHANGED <<Server, req, calls, due, troubled>>

LogoutDue(t) ==
    /\ "logout" \in due[t]
    /\ due' = [due EXCEPT ![t] = @ \ {"logout"}]
    /\ HandleLogout(t)
    /\ Crossing(t, Mine(t))
    /\ Quiet
    /\ UNCHANGED <<Server, req, calls, troubled>>

(* The list of accounts is read when the control center is drawn.          *)
OpenControlCenter(t) ==
    /\ Event
    /\ page[t] = "app"
    /\ listed' = [listed EXCEPT ![t] = accounts]
    /\ UNCHANGED <<Server, Browser, page, shown, req, calls, due, crossed, troubled>>

(* Another account than the page's, to which no switch is under way.       *)
Offers(t, u) ==
    /\ page[t] = "app"
    /\ u # shown[t] /\ listed[t][u] # NoToken
    /\ \A c \in Mine(t) : c.for = "switch" => c.user # u

(* handleSwitchAccount: the page is that of the old account until it       *)
(* reloads.                                                                *)
SwitchAccount(t, u) ==
    /\ Event
    /\ Offers(t, u)
    /\ calls' = calls \cup {Ask(t, "switch", u, listed[t][u])}
    /\ UNCHANGED <<Server, Browser, page, shown, listed, req, due, crossed, troubled>>

Switched(c) ==
    /\ Ends(c, "switch", {"answered"})
    /\ SetCurrentUserSession(c.tab, c.new)
    /\ due' = [due EXCEPT ![c.tab] = @ \cup {"reload"}]
    /\ crossed' = crossed \cup {c.tab}
    /\ UNCHANGED <<page, shown, listed, req>>

SwitchFailed(c) ==
    /\ Ends(c, "switch", {"refused", "failed"})
    /\ Remove({owner[c.old]})
    /\ UNCHANGED <<stored, cache, page, shown, listed, req, due, crossed>>

RemoveStoredAccount(t, u) ==
    /\ Event
    /\ Offers(t, u)
    /\ Remove({u})
    /\ UNCHANGED <<Server, stored, cache, page, shown, listed, req, calls, due, crossed, troubled>>

-----------------------------------------------------------------------------
(* The environment                                                         *)

Disable(u) ==
    /\ Event
    /\ u \notin shut
    /\ shut' = shut \cup {u}
    /\ UNCHANGED <<owner, rows, expired, Browser, page, shown, listed, req, calls, due, crossed, troubled>>

Expire(k) ==
    /\ Event
    /\ k \in Issued \ expired
    /\ expired' = expired \cup {k}
    /\ UNCHANGED <<owner, rows, shut, Browser, page, shown, listed, req, calls, due, crossed, troubled>>

(* A call fails at the server, or its request or its answer is lost.       *)
CallFails(c) ==
    /\ Event
    /\ \/ c.at \in {"asked", "found"} /\ (Step(c, "refused") \/ Step(c, "failed"))
       \/ c.at = "answered" /\ Step(c, "failed")
    /\ troubled' = IF c.at = "answered" /\ c.old # NoToken
                   THEN troubled \cup {owner[c.old]} ELSE troubled
    /\ UNCHANGED <<Server, Browser, page, shown, listed, req, due, crossed>>

RequestFails(t, q) ==
    /\ Event
    /\ UnderWay(t, q)
    /\ RequestOver(t, q)
    /\ UNCHANGED <<Server, Browser, page, shown, listed, calls, due, crossed, troubled>>

-----------------------------------------------------------------------------
(* The specification                                                       *)

Handle(c) == FindValid(c) \/ Rotate(c)
Hear(c) ==
    \/ SessionRestored(c) \/ RestoreFailed(c)
    \/ Refreshed(c) \/ RefreshRefused(c) \/ RefreshFailed(c)
    \/ LoggedIn(c) \/ LoginFailed(c)
    \/ Switched(c) \/ SwitchFailed(c)
    \/ Forgotten(c)

Answer(t, q) ==
    \/ RequestAnswered(t, q) \/ RefusedFirst(t, q)
    \/ RefusedWithoutSession(t, q) \/ RefusedAgain(t, q)

UserActs(t) ==
    \/ OpenTab(t) \/ Revisit(t) \/ Logout(t) \/ OpenControlCenter(t)
    \/ \E u \in Users : Login(t, u) \/ SwitchAccount(t, u) \/ RemoveStoredAccount(t, u)

Next ==
    \/ \E c \in calls : Handle(c) \/ Hear(c) \/ CallFails(c)
    \/ \E t \in Tabs :
        \/ UserActs(t) \/ Reload(t) \/ LogoutDue(t)
        \/ \E q \in Requests :
               SendRequest(t, q, "data") \/ SendRequest(t, q, "username")
               \/ Answer(t, q) \/ RequestFails(t, q)
    \/ \E u \in Users : Disable(u)
    \/ \E k \in Tokens : Expire(k)

Spec == Init /\ [][Next]_vars

-----------------------------------------------------------------------------
(* Properties                                                              *)

(* Every variable has its type.                                            *)
TypeOK ==
    /\ owner \in [Tokens -> Users \cup {NoUser}]
    /\ rows \subseteq Issued /\ expired \subseteq Issued
    /\ shut \subseteq Users /\ troubled \subseteq Users
    /\ stored \in Pair
    /\ accounts \in [Users -> Token]
    /\ cache \in [Tabs -> Pair]
    /\ page \in [Tabs -> Page]
    /\ shown \in [Tabs -> Users \cup {NoUser}]
    /\ listed \in [Tabs -> [Users -> Token]]
    /\ req \in [Tabs -> [Requests -> Request]]
    /\ calls \subseteq Call
    /\ due \in [Tabs -> SUBSET Timer]
    /\ crossed \subseteq Tabs
    /\ events \in 0..MaxEvents

Refreshing(u) == \E c \in calls : c.old # NoToken /\ owner[c.old] = u

(* What the browser keeps for an account is a token the server takes, as   *)
(* long as no answer with a newer one is under way or was lost: however    *)
(* many tabs refresh it, and whichever of them sign out.                   *)
SavedSessionsAreGood ==
    \A u \in Users \ troubled :
        accounts[u] # NoToken /\ ~Refreshing(u) => accounts[u] \in rows /\ owner[accounts[u]] = u

Open == {t \in Tabs : page[t] # "closed"}
Alone(t) == Open = {t} /\ t \notin crossed

(* A tab that is the only one keeps a session the server takes, and shows  *)
(* the user it belongs to.                                                 *)
TabKeepsItsSession ==
    \A t \in Tabs :
        Alone(t) /\ page[t] = "app" /\ shown[t] \notin troubled /\ Mine(t) = {} =>
            cache[t].refresh \in rows /\ owner[cache[t].refresh] = shown[t]

(* A request of the only tab never carries the token of an account other   *)
(* than the one whose page made it, however often it is repeated, unless   *)
(* the session was exchanged while it was under way.                       *)
RequestsStayWithTheirPage ==
    \A t \in Tabs, q \in Requests :
        Alone(t) /\ UnderWay(t, q) => owner[req[t][q].token] = req[t][q].user

(* A request that waits for a refresh waits for one that is under way:     *)
(* whatever becomes of the refresh, and whoever signs in or out meanwhile, *)
(* the request goes on.                                                    *)
NobodyWaitsForNothing == \A t \in Tabs : Waiting(t) # {} => Flight(t) # {}
=============================================================================

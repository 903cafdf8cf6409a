------------------------ MODULE DesktopSessionProofs ------------------------
(***************************************************************************)
(* Proofs about DesktopSession for any number of users, requests and       *)
(* tokens, and for any number of faults: types, requests that stay with    *)
(* their user, no tokens for the shut, and a device that keeps the tokens  *)
(* the server still takes.                                                 *)
(***************************************************************************)
EXTENDS DesktopSession, FiniteSetTheorems, TLAPS

-----------------------------------------------------------------------------
(* The inductive invariant: types, and whose every token is.               *)

Sessions == [user : Users \cup {Anon}, tok : Token \cup {NoToken}]

Request ==
    [pc : {"find", "user", "revoke", "create", "refused", "ok"}, kind : {"login", "refresh"},
     user : Users, tok : Token \cup {NoToken}, entitled : BOOLEAN]

Flights ==
    [pc : {"asked", "save", "publish", "clear", "leave"}, user : Users, tok : Token,
     call : Slots \cup {NoSlot}]

SyncRuns ==
    [pc : {"idle", "sent", "held", "resent"}, step : Steps, user : Users \cup {Anon},
     first : Token \cup {NoToken}, tok : Token \cup {NoToken}]

Logins ==
    [pc : {"idle", "asked", "wrong", "held", "save", "list"}, user : Users \cup {Anon},
     call : Slots \cup {NoSlot}, tok : Token \cup {NoToken}]

Tasks == [pc : {"signout", "delete", "list"}, user : Users, demote : BOOLEAN]
Renames == [pc : {"store", "list"}, user : Users, tok : Token]

TokensOf(u) == {t \in Token : t.user = u}

ServerOK ==
    /\ account \in [Users -> {"enabled", "disabled", "deleted", "gone"}]
    /\ rows \subseteq Token /\ expired \subseteq Token /\ issued \in 0 .. MaxTokens
    /\ renamed \subseteq Users

(* A handler that is past its look at the account may go on, whatever the  *)
(* administrator does since.                                               *)
CallsOK ==
    /\ calls \in [Slots -> {NoCall} \cup Request]
    /\ \A c \in Slots : calls[c].pc = "ok" => calls[c].tok \in TokensOf(calls[c].user)
    /\ \A c \in Slots : calls[c].pc \in {"revoke", "create"} => calls[c].entitled
    /\ \A c \in Slots :
          calls[c].pc # "free" /\ account[calls[c].user] = "enabled" => calls[c].entitled

UsersOK ==
    /\ users \in [Users -> [in : BOOLEAN, tok : Token \cup {NoToken}]]
    /\ \A u \in Users : users[u].tok \in TokensOf(u) \cup {NoToken}

ActiveOK == active \in Sessions /\ active.tok \in TokensOf(active.user) \cup {NoToken}

ListedOK ==
    /\ listed \in [Users -> Token \cup {NoToken, Unlisted}]
    /\ \A u \in Users : listed[u] \in TokensOf(u) \cup {NoToken, Unlisted}

(* Who waits for a call waits for one of its own kind and user.            *)
Asked(c, kind, u) ==
    c \in Slots /\ calls[c] \in Request /\ calls[c].kind = kind /\ calls[c].user = u

FlightOK ==
    \/ flight = NoFlight
    \/ /\ flight \in Flights /\ flight.tok.user = flight.user
       /\ flight.pc = "asked" => Asked(flight.call, "refresh", flight.user)

LoginOK ==
    /\ login \in Logins
    /\ login.pc = "asked" => login.user \in Users /\ Asked(login.call, "login", login.user)
    /\ login.pc \in {"save", "list"} =>
          login.user \in Users /\ login.tok \in TokensOf(login.user)

SyncOK ==
    /\ sync \in SyncRuns
    /\ sync.pc # "idle" =>
        /\ sync.user \in Users
        /\ sync.step = "check" => sync.first \in TokensOf(sync.user)
    /\ sync.pc \in {"sent", "resent"} =>
        /\ sync.tok \in Token
        /\ sync.step \in Expecting => sync.tok.user = sync.user

LeavingOK == leaving = NoTask \/ leaving \in Tasks
ToldOK == told = NoTask \/ (told \in Renames /\ told.tok.user = told.user)
WatchOK == watch \subseteq [user : Users, pc : {"look", "demote"}]
BookOK == troubled \subseteq Users /\ events \in 0 .. MaxEvents

OwnInv ==
    /\ ServerOK /\ CallsOK /\ UsersOK /\ ActiveOK /\ ListedOK /\ FlightOK /\ LoginOK /\ SyncOK
    /\ LeavingOK /\ ToldOK /\ WatchOK /\ BookOK

LEMMA Tokens ==
    /\ NoToken \notin Token /\ Unlisted \notin Token /\ Unlisted # NoToken
    /\ \A u : TokensOf(u) \subseteq Token
    /\ \A t \in Token : t \in TokensOf(t.user) /\ t.user \in Users
    /\ \A u : \A t \in TokensOf(u) : t.user = u
    /\ TokensOf(Anon) = {}
  BY TokenAssumption, UsersAssumption DEF TokensOf, Token

LEMMA Records ==
    /\ Call = {NoCall} \cup Request
    /\ NoCall.pc = "free" /\ (\A r \in Request : r.pc # "free")
    /\ NoFlight.pc = "none" /\ (\A f \in Flights : f.pc # "none")
    /\ NoTask.pc = "none" /\ (\A x \in Tasks : x.pc # "none") /\ (\A x \in Renames : x.pc # "none")
    /\ IdleSync \in SyncRuns /\ IdleSync.pc = "idle"
    /\ IdleLogin \in Logins /\ IdleLogin.pc = "idle"
    /\ Anonymous \in Sessions /\ Anonymous.user = Anon /\ Anonymous.tok = NoToken
  BY DEF Call, Request, NoCall, NoFlight, Flights, NoTask, Tasks, Renames, IdleSync, SyncRuns, Steps,
         IdleLogin, Logins, Anonymous, Session, Sessions

LEMMA OwnTypes == OwnInv => TypeOK
<1> SUFFICES ASSUME OwnInv PROVE TypeOK
  OBVIOUS
<1>1. calls \in [Slots -> Call]
  BY Records DEF OwnInv, CallsOK
<1> QED
  BY <1>1
  DEF OwnInv, TypeOK, ServerOK, UsersOK, ActiveOK, Sessions, ListedOK, FlightOK, Flights, LoginOK,
      Logins, SyncOK, SyncRuns, LeavingOK, Tasks, ToldOK, Renames, WatchOK, BookOK

-----------------------------------------------------------------------------
(* What the shared parts of the actions preserve.                          *)

(* Calls that keep their user and kind leave whoever waits for them be.    *)
CallsKept ==
    \A c \in Slots : Waiting(c) /\ calls[c] \in Request =>
        calls'[c] \in Request /\ calls'[c].kind = calls[c].kind /\ calls'[c].user = calls[c].user

LEMMA WaitersKept ==
    ASSUME FlightOK, LoginOK, CallsKept, UNCHANGED <<flight, login>>
    PROVE  FlightOK' /\ LoginOK'
<1>1. FlightOK'
  BY DEF FlightOK, CallsKept, Asked, Waiting
<1>2. LoginOK'
  BY DEF LoginOK, CallsKept, Asked, Waiting
<1> QED
  BY <1>1, <1>2

LEMMA MovesOK ==
    ASSUME CallsOK, NEW c \in Slots, calls[c].pc # "free",
           NEW pc \in {"find", "user", "revoke", "create", "refused"}, Moves(c, pc),
           pc \in {"revoke", "create"} => calls[c].entitled, UNCHANGED account
    PROVE  CallsOK' /\ CallsKept
<1>1. calls[c] \in Request
  BY Records DEF CallsOK
<1>2. /\ calls'[c] = [calls[c] EXCEPT !.pc = pc]
      /\ \A d \in Slots : d # c => calls'[d] = calls[d]
      /\ calls' \in [Slots -> {NoCall} \cup Request]
  <2>1. [calls[c] EXCEPT !.pc = pc] \in Request
    BY <1>1 DEF Request
  <2> QED
    BY <2>1 DEF Moves, CallsOK
<1>3. /\ calls'[c].pc = pc /\ calls'[c].user = calls[c].user /\ calls'[c].kind = calls[c].kind
      /\ calls'[c] \in Request
  BY <1>1, <1>2 DEF Request
<1>4. calls'[c].entitled <=> calls[c].entitled
  BY <1>1, <1>2 DEF Request
<1>5. CallsOK'
  BY <1>2, <1>3, <1>4 DEF CallsOK
<1>6. CallsKept
  BY <1>2, <1>3 DEF CallsKept
<1> QED
  BY <1>5, <1>6

LEMMA FreedOK ==
    ASSUME CallsOK, NEW c \in Slots, calls' = [calls EXCEPT ![c] = NoCall], UNCHANGED account
    PROVE  CallsOK' /\ \A d \in Slots : d # c => calls'[d] = calls[d]
  BY Records DEF CallsOK

LEMMA AsksOK ==
    ASSUME ServerOK, CallsOK, NEW c \in Slots, NEW kind \in {"login", "refresh"}, NEW u \in Users,
           NEW t \in Token \cup {NoToken}, Asks(c, kind, u, t), UNCHANGED account
    PROVE  /\ CallsOK'
           /\ calls'[c] \in Request /\ calls'[c].kind = kind /\ calls'[c].user = u
           /\ \A d \in Slots : calls[d] \in Request => calls'[d] = calls[d]
<1> DEFINE new == [pc |-> IF kind = "login" THEN "user" ELSE "find", kind |-> kind, user |-> u,
                   tok |-> t, entitled |-> account[u] = "enabled"]
<1>1. calls[c] = NoCall /\ calls' = [calls EXCEPT ![c] = new]
  BY DEF Asks
<1>2. new \in Request
  BY DEF Request
<1>3. calls'[c] = new /\ \A d \in Slots : d # c => calls'[d] = calls[d]
  BY <1>1 DEF CallsOK
<1>4. calls' \in [Slots -> {NoCall} \cup Request]
  BY <1>1, <1>2 DEF CallsOK
<1>5. new.pc \in {"user", "find"} /\ new.user = u /\ new.kind = kind
  OBVIOUS
<1>6. account[u] = "enabled" => new.entitled
  OBVIOUS
<1> HIDE DEF new
<1>7. CallsOK'
  BY <1>3, <1>4, <1>5, <1>6 DEF CallsOK
<1> QED
  BY <1>1, <1>2, <1>3, <1>5, <1>7, Records

LEMMA SetActiveOK ==
    ASSUME NEW s \in Sessions, s.tok \in TokensOf(s.user) \cup {NoToken},
           NEW list \in [Users -> Token \cup {NoToken, Unlisted}],
           \A u \in Users : list[u] \in TokensOf(u) \cup {NoToken, Unlisted},
           SetActive(s, list)
    PROVE  ActiveOK' /\ ListedOK' /\ WatchOK'
<1>1. ActiveOK'
  BY DEF SetActive, ActiveOK
<1>2. ListedOK'
  BY Tokens DEF SetActive, ListedOK, Sessions
<1>3. WatchOK'
  BY DEF SetActive, Watching, WatchOK
<1> QED
  BY <1>1, <1>2, <1>3

LEMMA SnapshotOK ==
    ASSUME UsersOK
    PROVE  /\ Snapshot \in [Users -> Token \cup {NoToken, Unlisted}]
           /\ \A u \in Users : Snapshot[u] \in TokensOf(u) \cup {NoToken, Unlisted}
  BY Tokens DEF UsersOK, Snapshot

(* The next request of a run bears a token of its user, or the run ends.   *)
LEMMA SendsOK ==
    ASSUME NEW s \in SyncRuns, s.user \in Users, NEW a \in Sessions,
           a.tok \in TokensOf(a.user) \cup {NoToken},
           NEW step \in Steps, NEW pc \in {"sent", "resent"},
           step = "check" => s.first \in TokensOf(s.user),
           sync' = Sends(s, step, pc, a)
    PROVE  SyncOK'
<1>1. CASE ~Authenticated(a, Expected(step, s.user))
  BY <1>1, Records DEF Sends, SyncOK
<1>2. CASE Authenticated(a, Expected(step, s.user))
  <2>1. sync' = [s EXCEPT !.pc = pc, !.step = step, !.tok = a.tok,
                          !.first = IF step = "check" THEN @ ELSE NoToken]
    BY <1>2 DEF Sends
  <2>2. a.tok \in Token /\ a.tok.user = a.user
    BY <1>2, Tokens DEF Authenticated
  <2>3. step \in Expecting => a.user = s.user
    BY <1>2, UsersAssumption DEF Authenticated, Expected
  <2>4. sync' \in SyncRuns
    BY <2>1, <2>2 DEF SyncRuns
  <2>5. /\ sync'.pc = pc /\ sync'.step = step /\ sync'.tok = a.tok /\ sync'.user = s.user
        /\ step = "check" => sync'.first = s.first
    BY <2>1 DEF SyncRuns
  <2> QED
    BY <2>2, <2>3, <2>4, <2>5 DEF SyncOK
<1> QED
  BY <1>1, <1>2

LEMMA SettlesOK ==
    ASSUME SyncOK, LoginOK, NEW refreshed, NEW a \in Sessions,
           a.tok \in TokensOf(a.user) \cup {NoToken}, Settles(refreshed, a), UNCHANGED calls
    PROVE  FlightOK' /\ SyncOK' /\ LoginOK'
<1>1. FlightOK'
  BY DEF Settles, FlightOK
<1>2. LoginOK'
  BY Records DEF Settles, LoginOK, Asked
<1>3. SyncOK'
  <2>1. CASE sync' = sync
    BY <2>1 DEF SyncOK
  <2>2. CASE sync' = IdleSync
    BY <2>2, Records DEF SyncOK
  <2>3. CASE sync.pc = "held" /\ sync' = Sends(sync, sync.step, "resent", a)
    <3>1. sync.user \in Users /\ sync \in SyncRuns /\ sync.step \in Steps
          /\ (sync.step = "check" => sync.first \in TokensOf(sync.user))
      BY <2>3 DEF SyncOK, SyncRuns
    <3> QED
      BY <2>3, <3>1, SendsOK
  <2> QED
    BY <2>1, <2>2, <2>3 DEF Settles
<1> QED
  BY <1>1, <1>2, <1>3

(* Joining or starting a refresh.                                          *)
LEMMA RefreshOK ==
    ASSUME OwnInv, NEW expected, Refresh(expected), UNCHANGED account
    PROVE  /\ CallsOK' /\ FlightOK'
           /\ \A c \in Slots : calls[c] \in Request => calls'[c] = calls[c]
<1>1. CASE UNCHANGED <<flight, calls>>
  BY <1>1 DEF OwnInv, CallsOK, FlightOK, Asked
<1>2. CASE \E c \in Slots :
              /\ Asks(c, "refresh", active.user, active.tok)
              /\ flight' = [pc |-> "asked", user |-> active.user, tok |-> active.tok, call |-> c]
              /\ Authenticated(active, expected)
  <2>1. PICK c \in Slots :
            /\ Asks(c, "refresh", active.user, active.tok)
            /\ flight' = [pc |-> "asked", user |-> active.user, tok |-> active.tok, call |-> c]
            /\ Authenticated(active, expected)
    BY <1>2
  <2>2. active.user \in Users /\ active.tok \in Token /\ active.tok.user = active.user
    BY <2>1, Tokens DEF Authenticated, OwnInv, ActiveOK, Sessions
  <2>3. /\ CallsOK'
        /\ calls'[c] \in Request /\ calls'[c].kind = "refresh" /\ calls'[c].user = active.user
        /\ \A d \in Slots : calls[d] \in Request => calls'[d] = calls[d]
    BY <2>1, <2>2, AsksOK DEF OwnInv
  <2> QED
    BY <2>1, <2>2, <2>3 DEF FlightOK, Flights, Asked
<1> QED
  BY <1>1, <1>2 DEF Refresh

(* What a step leaves alone keeps its part of the invariant.               *)
LEMMA Frames ==
    ASSUME OwnInv
    PROVE  /\ UNCHANGED <<account, rows, expired, issued, renamed>> => ServerOK'
           /\ UNCHANGED <<account, calls>> => CallsOK'
           /\ UNCHANGED calls => CallsKept
           /\ UNCHANGED users => UsersOK'
           /\ UNCHANGED active => ActiveOK'
           /\ UNCHANGED listed => ListedOK'
           /\ UNCHANGED <<flight, calls>> => FlightOK'
           /\ UNCHANGED <<login, calls>> => LoginOK'
           /\ UNCHANGED <<flight, login>> /\ CallsKept => FlightOK' /\ LoginOK'
           /\ UNCHANGED sync => SyncOK'
           /\ UNCHANGED leaving => LeavingOK'
           /\ UNCHANGED told => ToldOK'
           /\ UNCHANGED watch => WatchOK'
           /\ UNCHANGED troubled /\ (UNCHANGED events \/ Event) => BookOK'
<1> USE DEF OwnInv
<1>1. UNCHANGED <<account, rows, expired, issued, renamed>> => ServerOK'
  BY DEF ServerOK
<1>2. UNCHANGED <<account, calls>> => CallsOK'
  BY DEF CallsOK
<1>3. UNCHANGED calls => CallsKept
  BY DEF CallsKept
<1>4. (UNCHANGED users => UsersOK') /\ (UNCHANGED active => ActiveOK') /\ (UNCHANGED listed => ListedOK')
  BY DEF UsersOK, ActiveOK, ListedOK
<1>5. (UNCHANGED <<flight, calls>> => FlightOK') /\ (UNCHANGED <<login, calls>> => LoginOK')
  BY DEF FlightOK, LoginOK, Asked
<1>6. UNCHANGED <<flight, login>> /\ CallsKept => FlightOK' /\ LoginOK'
  BY WaitersKept
<1>7. (UNCHANGED sync => SyncOK') /\ (UNCHANGED leaving => LeavingOK') /\ (UNCHANGED told => ToldOK')
      /\ (UNCHANGED watch => WatchOK')
  BY DEF SyncOK, LeavingOK, ToldOK, WatchOK
<1>8. UNCHANGED troubled /\ (UNCHANGED events \/ Event) => BookOK'
  BY BoundsAssumption DEF BookOK, Event
<1> QED
  BY <1>1, <1>2, <1>3, <1>4, <1>5, <1>6, <1>7, <1>8

-----------------------------------------------------------------------------
(* The invariant is inductive.                                             *)

LEMMA OwnInit == Init => OwnInv
<1> SUFFICES ASSUME Init PROVE OwnInv
  OBVIOUS
<1> DEFINE tokens(u) == {[user |-> x, n |-> 1] : x \in {u} \cap Users}
<1> DEFINE tok(u, x) == IF x = u THEN [user |-> u, n |-> 1] ELSE NoToken
<1>1. PICK u \in Begun :
        /\ rows = tokens(u) /\ issued = Cardinality(tokens(u))
        /\ expired \in SUBSET tokens(u)
        /\ renamed \in SUBSET ({u} \cap Users)
        /\ \E status \in {"enabled", "disabled", "deleted"} :
              account = [x \in Users |-> IF x = u THEN status ELSE "enabled"]
        /\ calls = [c \in Slots |-> NoCall]
        /\ users = [x \in Users |-> [in |-> x = u, tok |-> tok(u, x)]]
        /\ active = IF u = Anon THEN Anonymous ELSE Session(u, tok(u, u))
        /\ listed = [x \in Users |-> IF x = u THEN tok(u, u) ELSE Unlisted]
        /\ flight = NoFlight /\ sync = IdleSync /\ login = IdleLogin
        /\ leaving = NoTask /\ told = NoTask /\ watch = {}
        /\ troubled = {} /\ events = 0
  BY DEF Init
<1>2. u \in Users \/ u = Anon
  BY UsersAssumption
<1>3. u \in Users => [user |-> u, n |-> 1] \in TokensOf(u)
  BY BoundsAssumption DEF TokensOf, Token
<1>4. tokens(u) \subseteq Token
  BY <1>3, Tokens
<1>5. issued \in 0 .. MaxTokens
  <2>1. CASE u \in Users
    <3>1. tokens(u) = {[user |-> u, n |-> 1]}
      BY <2>1
    <3>2. Cardinality({[user |-> u, n |-> 1]}) = 1
      BY FS_Singleton
    <3>3. issued = 1
      BY <1>1, <3>1, <3>2, Zenon
    <3> QED
      BY <3>3, BoundsAssumption
  <2>2. CASE u = Anon
    <3>1. tokens(u) = {}
      BY <2>2, UsersAssumption
    <3> QED
      BY <1>1, <3>1, FS_EmptySet, BoundsAssumption
  <2> QED
    BY <1>2, <2>1, <2>2
<1>6. ServerOK
  BY <1>1, <1>4, <1>5 DEF ServerOK
<1>7. CallsOK
  BY <1>1, Records DEF CallsOK
<1>8. UsersOK
  BY <1>1, <1>3, Tokens DEF UsersOK
<1>9. ActiveOK
  BY <1>1, <1>2, <1>3, Tokens, Records DEF ActiveOK, Session, Sessions
<1>10. ListedOK
  BY <1>1, <1>3, Tokens DEF ListedOK
<1>11. FlightOK /\ LoginOK /\ SyncOK /\ LeavingOK /\ ToldOK
  BY <1>1, Records DEF FlightOK, LoginOK, SyncOK, LeavingOK, ToldOK
<1>12. WatchOK /\ BookOK
  BY <1>1, BoundsAssumption DEF WatchOK, BookOK
<1> QED
  BY <1>6, <1>7, <1>8, <1>9, <1>10, <1>11, <1>12 DEF OwnInv

LEMMA OwnHandler ==
    ASSUME OwnInv, NEW c \in Slots, Handler(c) \/ HandlerFails(c)
    PROVE  OwnInv'
<1> USE DEF OwnInv
<1> DEFINE Same == UNCHANGED <<users, active, listed, flight, login, sync, leaving, told, watch, troubled>>
<1>1. CASE FindValid(c)
  <2>1. Same /\ UNCHANGED <<account, rows, expired, issued, renamed, events>>
    BY <1>1 DEF FindValid, device
  <2>2. CallsOK' /\ CallsKept
    BY <1>1, <2>1, MovesOK DEF FindValid
  <2> QED
    BY <2>1, <2>2, Frames
<1>2. CASE GetUser(c)
  <2>1. Same /\ UNCHANGED <<account, rows, expired, issued, renamed, events>>
    BY <1>2 DEF GetUser, device
  <2>2. account[calls[c].user] = "enabled" => calls[c].entitled
    BY <1>2 DEF GetUser, CallsOK
  <2>3. calls[c].pc = "user"
    BY <1>2 DEF GetUser
  <2>4. \/ Moves(c, "refused")
        \/ account[calls[c].user] = "enabled" /\ (Moves(c, "revoke") \/ Moves(c, "create"))
    <3>1. CASE account[calls[c].user] # "enabled"
      BY <1>2, <3>1 DEF GetUser
    <3>2. CASE account[calls[c].user] = "enabled" /\ calls[c].kind = "refresh"
      BY <1>2, <3>2 DEF GetUser
    <3>3. CASE account[calls[c].user] = "enabled" /\ calls[c].kind # "refresh"
      BY <1>2, <3>3 DEF GetUser
    <3> QED
      BY <3>1, <3>2, <3>3
  <2>5. CallsOK' /\ CallsKept
    <3>1. CASE Moves(c, "refused")
      BY <2>1, <2>3, <3>1, MovesOK
    <3>2. CASE calls[c].entitled /\ Moves(c, "revoke")
      BY <2>1, <2>3, <3>2, MovesOK
    <3>3. CASE calls[c].entitled /\ Moves(c, "create")
      BY <2>1, <2>3, <3>3, MovesOK
    <3> QED
      BY <2>2, <2>4, <3>1, <3>2, <3>3
  <2> QED
    BY <2>1, <2>5, Frames
<1>3. CASE Revoke(c)
  <2>1. Same /\ UNCHANGED <<account, expired, issued, renamed, events>> /\ rows' \subseteq rows
    BY <1>3 DEF Revoke, device
  <2>2. CallsOK' /\ CallsKept
    BY <1>3, <2>1, MovesOK DEF Revoke, CallsOK
  <2>3. ServerOK'
    BY <2>1 DEF ServerOK
  <2> QED
    BY <2>1, <2>2, <2>3, Frames
<1>4. CASE Create(c)
  <2>1. Same /\ UNCHANGED <<account, expired, renamed, events>>
    BY <1>4 DEF Create, device
  <2>2. CASE Moves(c, "refused") /\ UNCHANGED <<rows, issued>>
    <3>1. CallsOK' /\ CallsKept
      BY <1>4, <2>1, <2>2, MovesOK DEF Create
    <3> QED
      BY <2>1, <2>2, <3>1, Frames
  <2>3. CASE issued < MaxTokens /\ ~(Moves(c, "refused") /\ UNCHANGED <<rows, issued>>)
    <3> DEFINE t == [user |-> calls[c].user, n |-> issued + 1]
    <3>1. /\ rows' = rows \cup {t} /\ issued' = issued + 1
          /\ calls' = [calls EXCEPT ![c].pc = "ok", ![c].tok = t]
          /\ calls[c].pc = "create"
      BY <1>4, <2>3 DEF Create
    <3>2. calls[c] \in Request
      BY <3>1, Records DEF CallsOK
    <3>3. issued \in 0 .. MaxTokens /\ MaxTokens \in Nat
      BY BoundsAssumption DEF ServerOK
    <3>4. t \in TokensOf(calls[c].user)
      BY <2>3, <3>2, <3>3 DEF TokensOf, Token, Request
    <3>5. ServerOK'
      BY <2>1, <2>3, <3>1, <3>3, <3>4, Tokens DEF ServerOK
    <3> HIDE DEF t
    <3>6. /\ calls'[c] = [calls[c] EXCEPT !.pc = "ok", !.tok = t]
          /\ \A d \in Slots : d # c => calls'[d] = calls[d]
          /\ DOMAIN calls' = Slots
      BY <3>1 DEF CallsOK
    <3>7. /\ calls'[c] \in Request /\ calls'[c].pc = "ok" /\ calls'[c].tok = t
          /\ calls'[c].user = calls[c].user /\ calls'[c].kind = calls[c].kind
          /\ calls[c].entitled => calls'[c].entitled
      <4>1. t \in Token
        BY <3>4, Tokens
      <4>2. calls'[c] = [pc |-> "ok", kind |-> calls[c].kind, user |-> calls[c].user, tok |-> t,
                         entitled |-> calls[c].entitled]
        BY <3>2, <3>6 DEF Request
      <4> QED
        BY <3>2, <4>1, <4>2 DEF Request
    <3>8. CallsKept
      BY <3>6, <3>7 DEF CallsKept
    <3>9. calls[c].entitled
      BY <3>1 DEF CallsOK
    <3>10. calls' \in [Slots -> {NoCall} \cup Request]
      BY <3>1, <3>6, <3>7 DEF CallsOK
    <3>11. CallsOK'
      BY <2>1, <3>4, <3>6, <3>7, <3>9, <3>10 DEF CallsOK
    <3> QED
      BY <2>1, <3>5, <3>8, <3>11, Frames
  <2> QED
    BY <1>4, <2>2, <2>3 DEF Create
<1>5. CASE HandlerFails(c)
  <2>1. Same /\ UNCHANGED <<account, rows, expired, issued, renamed>> /\ Event
    BY <1>5 DEF HandlerFails, device
  <2>2. CallsOK' /\ CallsKept
    BY <1>5, <2>1, MovesOK DEF HandlerFails
  <2> QED
    BY <2>1, <2>2, Frames
<1>6. CASE Forgotten(c)
  <2>1. Same /\ UNCHANGED <<account, rows, expired, issued, renamed, events>>
    BY <1>6 DEF Forgotten, device
  <2>2. CallsOK' /\ CallsKept
    BY <1>6, <2>1, FreedOK DEF Forgotten, CallsKept
  <2> QED
    BY <2>1, <2>2, Frames
<1> QED
  BY <1>1, <1>2, <1>3, <1>4, <1>5, <1>6 DEF Handler

LEMMA SetAccountOK ==
    ASSUME OwnInv, NEW u \in Users, NEW status \in {"enabled", "disabled", "deleted", "gone"},
           SetAccount(u, status)
    PROVE  /\ CallsOK' /\ CallsKept
           /\ account' \in [Users -> {"enabled", "disabled", "deleted", "gone"}]
<1> USE DEF OwnInv
<1>1. account' = [account EXCEPT ![u] = status]
  BY DEF SetAccount
<1>2. account' \in [Users -> {"enabled", "disabled", "deleted", "gone"}]
  BY <1>1 DEF ServerOK
<1>3. ASSUME NEW c \in Slots
      PROVE  calls'[c] = IF calls[c].pc # "free" /\ calls[c].user = u /\ status = "enabled"
                           THEN [calls[c] EXCEPT !.entitled = TRUE] ELSE calls[c]
  BY DEF SetAccount
<1>4. ASSUME NEW c \in Slots, calls[c] \in Request
      PROVE  /\ calls'[c] \in Request
             /\ calls'[c].pc = calls[c].pc /\ calls'[c].user = calls[c].user
             /\ calls'[c].kind = calls[c].kind /\ calls'[c].tok = calls[c].tok
             /\ calls[c].entitled => calls'[c].entitled
             /\ calls[c].user = u /\ status = "enabled" => calls'[c].entitled
  <2>1. CASE calls[c].user = u /\ status = "enabled"
    <3>1. calls'[c] = [calls[c] EXCEPT !.entitled = TRUE]
      BY <1>3, <1>4, <2>1, Records
    <3> QED
      BY <1>4, <3>1 DEF Request
  <2>2. CASE ~(calls[c].user = u /\ status = "enabled")
    <3>1. calls'[c] = calls[c]
      BY <1>3, <2>2
    <3> QED
      BY <1>4, <2>2, <3>1
  <2> QED
    BY <2>1, <2>2
<1>5. \A c \in Slots : calls[c] \notin Request => calls'[c] = NoCall /\ calls[c] = NoCall
  BY <1>3, Records DEF CallsOK
<1>6. CallsKept
  BY <1>4 DEF CallsKept
<1>7. calls' \in [Slots -> {NoCall} \cup Request]
  BY <1>4, <1>5 DEF SetAccount
<1>8. \A c \in Slots : calls[c] \in Request => calls[c].user \in Users
  BY DEF Request
<1>9. ASSUME NEW c \in Slots
      PROVE  /\ calls'[c].pc = "ok" => calls'[c].tok \in TokensOf(calls'[c].user)
             /\ calls'[c].pc \in {"revoke", "create"} => calls'[c].entitled
             /\ calls'[c].pc # "free" /\ account'[calls'[c].user] = "enabled" => calls'[c].entitled
  <2>1. CASE calls[c] \in Request
    <3>1. calls[c].user # u \/ status # "enabled" =>
             (account'[calls[c].user] = "enabled" => account[calls[c].user] = "enabled")
      BY <1>1, <1>8, <2>1 DEF ServerOK
    <3>2. calls[c].pc # "free"
      BY <2>1, Records
    <3> QED
      BY <1>4, <2>1, <3>1, <3>2 DEF CallsOK
  <2>2. CASE calls[c] \notin Request
    BY <1>5, <2>2, Records
  <2> QED
    BY <2>1, <2>2
<1>10. CallsOK'
  BY <1>7, <1>9 DEF CallsOK
<1> QED
  BY <1>2, <1>6, <1>10

LEMMA OwnAdministration ==
    ASSUME OwnInv, Administration \/ AccessExpires
    PROVE  OwnInv'
<1> USE DEF OwnInv
<1> DEFINE Same == UNCHANGED <<users, active, listed, flight, login, sync, leaving, told, watch, troubled>>
<1>1. ASSUME NEW u \in Users, SetUserDisabled(u) \/ SoftDelete(u)
      PROVE  OwnInv'
  <2>1. Same /\ UNCHANGED <<rows, expired, issued, renamed>> /\ Event
    BY <1>1 DEF SetUserDisabled, SoftDelete, device
  <2>2. CallsOK' /\ CallsKept /\ account' \in [Users -> {"enabled", "disabled", "deleted", "gone"}]
    BY <1>1, SetAccountOK DEF SetUserDisabled, SoftDelete
  <2>3. ServerOK'
    BY <2>1, <2>2 DEF ServerOK
  <2> QED
    BY <2>1, <2>2, <2>3, Frames
<1>2. ASSUME NEW u \in Users, CleanupUserData(u)
      PROVE  OwnInv'
  <2>1. Same /\ UNCHANGED <<expired, issued, renamed, events>> /\ rows' \subseteq rows
    BY <1>2 DEF CleanupUserData, device
  <2>2. CASE UNCHANGED <<account, calls>>
    <3>1. ServerOK'
      BY <2>1, <2>2 DEF ServerOK
    <3> QED
      BY <2>1, <2>2, <3>1, Frames
  <2>3. CASE SetAccount(u, "gone")
    <3>1. CallsOK' /\ CallsKept /\ account' \in [Users -> {"enabled", "disabled", "deleted", "gone"}]
      BY <2>3, SetAccountOK
    <3>2. ServerOK'
      BY <2>1, <3>1 DEF ServerOK
    <3> QED
      BY <2>1, <3>1, <3>2, Frames
  <2> QED
    BY <1>2, <2>2, <2>3 DEF CleanupUserData
<1>3. ASSUME NEW u \in Users, ChangeUsername(u)
      PROVE  OwnInv'
  <2>1. Same /\ UNCHANGED <<account, rows, expired, issued, calls>> /\ Event
        /\ renamed' = renamed \cup {u}
    BY <1>3 DEF ChangeUsername, device
  <2>2. ServerOK'
    BY <2>1 DEF ServerOK
  <2> QED
    BY <2>1, <2>2, Frames
<1>4. CASE AccessExpires
  <2>1. Same /\ UNCHANGED <<account, rows, issued, renamed, calls>> /\ Event
    BY <1>4 DEF AccessExpires, device
  <2>2. expired' \subseteq Token
    BY <1>4 DEF AccessExpires, ServerOK, ActiveOK, Sessions, UsersOK
  <2>3. ServerOK'
    BY <2>1, <2>2 DEF ServerOK
  <2> QED
    BY <2>1, <2>3, Frames
<1> QED
  BY <1>1, <1>2, <1>3, <1>4 DEF Administration

LEMMA OwnFlight ==
    ASSUME OwnInv, Flight \/ RefreshLost
    PROVE  OwnInv'
<1> USE DEF OwnInv
<1> DEFINE Same == UNCHANGED <<account, rows, expired, issued, renamed, leaving, told>>
<1>1. CASE RefreshAnswered
  <2> DEFINE c == flight.call
  <2>1. /\ Same /\ UNCHANGED <<users, active, listed, sync, login, watch, troubled, events>>
        /\ flight.pc = "asked" /\ calls' = [calls EXCEPT ![c] = NoCall]
        /\ calls[c].pc \in {"ok", "refused"}
    BY <1>1 DEF RefreshAnswered
  <2>2. flight \in Flights /\ flight.tok.user = flight.user /\ Asked(c, "refresh", flight.user)
    BY <2>1, Records DEF FlightOK
  <2>3. CallsOK' /\ \A d \in Slots : d # c => calls'[d] = calls[d]
    BY <2>1, <2>2, FreedOK DEF Asked
  <2>4. FlightOK'
    <3>1. CASE calls[c].pc = "ok"
      <4>1. flight' = [flight EXCEPT !.pc = "save", !.call = NoSlot, !.tok = calls[c].tok]
        BY <1>1, <3>1 DEF RefreshAnswered
      <4>2. calls[c].tok \in TokensOf(flight.user)
        BY <2>2, <3>1 DEF CallsOK, Asked
      <4>3. calls[c].tok \in Token /\ calls[c].tok.user = flight.user
        BY <4>2, Tokens
      <4>4. flight' \in Flights /\ flight'.pc = "save" /\ flight'.tok.user = flight'.user
        BY <2>2, <4>1, <4>3 DEF Flights
      <4> QED
        BY <4>4 DEF FlightOK
    <3>2. CASE calls[c].pc # "ok"
      <4>1. flight' = [flight EXCEPT !.pc = "clear", !.call = NoSlot]
        BY <1>1, <3>2 DEF RefreshAnswered
      <4>2. flight' \in Flights /\ flight'.pc = "clear" /\ flight'.tok.user = flight'.user
        BY <2>2, <4>1 DEF Flights
      <4> QED
        BY <4>2 DEF FlightOK
    <3> QED
      BY <3>1, <3>2
  <2>5. LoginOK'
    <3>1. login.pc = "asked" => login.call # c
      BY <2>2 DEF LoginOK, Asked
    <3> QED
      BY <2>1, <2>3, <3>1 DEF LoginOK, Asked
  <2> QED
    BY <2>1, <2>3, <2>4, <2>5, Frames
<1>2. CASE RefreshLost
  <2>1. Same /\ UNCHANGED <<calls, users, active, listed, watch>> /\ Event
        /\ Settles(NoFlight, active) /\ troubled' = troubled \cup Unsettled
    BY <1>2 DEF RefreshLost, server
  <2>2. FlightOK' /\ SyncOK' /\ LoginOK'
    BY <2>1, SettlesOK DEF ActiveOK
  <2>3. BookOK'
    BY <2>1, BoundsAssumption DEF BookOK, Event, Unsettled
  <2> QED
    BY <2>1, <2>2, <2>3, Frames
<1>3. CASE RefreshSaved
  <2>1. /\ Same /\ UNCHANGED <<calls, active, listed, sync, login, watch, events>>
        /\ flight.pc = "save" /\ flight' = [flight EXCEPT !.pc = "publish"]
        /\ users' = [users EXCEPT ![flight.user].tok = flight.tok]
        /\ troubled' = troubled \ {flight.user}
    BY <1>3 DEF RefreshSaved, server, SaveUser
  <2>2. flight \in Flights /\ flight.tok \in TokensOf(flight.user) /\ flight.user \in Users
    BY <2>1, Records, Tokens DEF FlightOK, Flights
  <2>3. FlightOK'
    <3>1. flight' \in Flights /\ flight'.pc = "publish" /\ flight'.tok = flight.tok
          /\ flight'.user = flight.user
      BY <2>1, <2>2 DEF Flights
    <3> QED
      BY <2>2, <3>1, Tokens DEF FlightOK
  <2>4. UsersOK'
    BY <2>1, <2>2, Tokens DEF UsersOK
  <2>5. BookOK'
    BY <2>1 DEF BookOK
  <2> QED
    BY <2>1, <2>3, <2>4, <2>5, Frames
<1>4. CASE RefreshPublished
  <2> DEFINE a == Session(flight.user, flight.tok)
  <2>1. Same /\ UNCHANGED <<calls, users, troubled, events>> /\ flight.pc = "publish"
        /\ SetActive(a, listed) /\ Settles(flight, a)
    BY <1>4 DEF RefreshPublished, server
  <2>2. flight \in Flights /\ flight.tok \in TokensOf(flight.user) /\ flight.user \in Users
    BY <2>1, Records, Tokens DEF FlightOK, Flights
  <2>3. a \in Sessions /\ a.tok \in TokensOf(a.user) \cup {NoToken}
    BY <2>2, Tokens DEF Session, Sessions
  <2> HIDE DEF a
  <2>4. FlightOK' /\ SyncOK' /\ LoginOK'
    BY <2>1, <2>3, SettlesOK
  <2>5. ActiveOK' /\ ListedOK' /\ WatchOK'
    BY <2>1, <2>3, SetActiveOK DEF ListedOK
  <2> QED
    BY <2>1, <2>4, <2>5, Frames
<1>5. CASE RefreshCleared
  <2>1. /\ Same /\ UNCHANGED <<calls, active, listed, sync, login, watch, troubled, events>>
        /\ flight.pc = "clear" /\ flight' = [flight EXCEPT !.pc = "leave"]
        /\ users' = [users EXCEPT ![flight.user] = [in |-> FALSE, tok |-> NoToken]]
    BY <1>5 DEF RefreshCleared, server
  <2>2. flight \in Flights /\ flight.tok.user = flight.user
    BY <2>1, Records DEF FlightOK
  <2>3. FlightOK'
    <3>1. flight' \in Flights /\ flight'.pc = "leave" /\ flight'.tok.user = flight'.user
      BY <2>1, <2>2 DEF Flights
    <3> QED
      BY <3>1 DEF FlightOK
  <2>4. UsersOK'
    <3>1. [in |-> FALSE, tok |-> NoToken] \in [in : BOOLEAN, tok : Token \cup {NoToken}]
      OBVIOUS
    <3> QED
      BY <2>1, <3>1 DEF UsersOK
  <2> QED
    BY <2>1, <2>3, <2>4, Frames
<1>6. CASE RefreshGivenUp
  <2>1. Same /\ UNCHANGED <<calls, users, troubled, events>>
        /\ SetActive(Anonymous, listed) /\ Settles(NoFlight, Anonymous)
    BY <1>6 DEF RefreshGivenUp, server
  <2>2. Anonymous \in Sessions /\ Anonymous.tok \in TokensOf(Anonymous.user) \cup {NoToken}
    BY Records
  <2>3. FlightOK' /\ SyncOK' /\ LoginOK'
    BY <2>1, <2>2, SettlesOK
  <2>4. ActiveOK' /\ ListedOK' /\ WatchOK'
    BY <2>1, <2>2, SetActiveOK DEF ListedOK
  <2> QED
    BY <2>1, <2>3, <2>4, Frames
<1> QED
  BY <1>1, <1>2, <1>3, <1>4, <1>5, <1>6 DEF Flight

LEMMA OwnForm ==
    ASSUME OwnInv, Form \/ LoginLost \/ WrongPassword \/ \E u \in Users : LoginAsked(u)
    PROVE  OwnInv'
<1> USE DEF OwnInv
<1> DEFINE Same == UNCHANGED <<account, rows, expired, issued, renamed, sync, leaving, told>>
<1>1. CASE LoginAnswered
  <2> DEFINE c == login.call
  <2>1. /\ Same /\ UNCHANGED <<users, active, listed, flight, watch, troubled, events>>
        /\ login.pc = "asked" /\ calls' = [calls EXCEPT ![c] = NoCall]
        /\ calls[c].pc \in {"ok", "refused"}
    BY <1>1 DEF LoginAnswered
  <2>2. login \in Logins /\ login.user \in Users /\ Asked(c, "login", login.user)
    BY <2>1 DEF LoginOK
  <2>3. CallsOK' /\ \A d \in Slots : d # c => calls'[d] = calls[d]
    BY <2>1, <2>2, FreedOK DEF Asked
  <2>4. LoginOK'
    <3>1. CASE calls[c].pc = "ok"
      <4>1. login' = [login EXCEPT !.pc = "save", !.call = NoSlot, !.tok = calls[c].tok]
        BY <1>1, <3>1 DEF LoginAnswered
      <4>2. calls[c].tok \in TokensOf(login.user)
        BY <2>2, <3>1 DEF CallsOK, Asked
      <4>3. /\ login' \in Logins /\ login'.pc = "save" /\ login'.user = login.user
            /\ login'.tok = calls[c].tok
        BY <2>2, <4>1, <4>2, Tokens DEF Logins
      <4> QED
        BY <2>2, <4>2, <4>3 DEF LoginOK
    <3>2. CASE calls[c].pc # "ok"
      BY <1>1, <3>2, Records DEF LoginAnswered, LoginOK
    <3> QED
      BY <3>1, <3>2
  <2>5. FlightOK'
    <3>1. flight # NoFlight /\ flight.pc = "asked" => flight.call # c
      BY <2>2 DEF FlightOK, Asked
    <3> QED
      BY <2>1, <2>3, <3>1 DEF FlightOK, Asked
  <2> QED
    BY <2>1, <2>3, <2>4, <2>5, Frames
<1>2. CASE WrongPasswordAnswered
  <2>1. Same /\ UNCHANGED <<users, active, listed, watch, troubled, events>>
    BY <1>2 DEF WrongPasswordAnswered
  <2>2. CASE Refresh(login.user) /\ login' = [IdleLogin EXCEPT !.pc = "held"]
    <3>1. CallsOK' /\ FlightOK'
      BY <2>1, <2>2, RefreshOK
    <3>2. login' \in Logins /\ login'.pc = "held"
      BY <2>2 DEF IdleLogin, Logins
    <3>3. LoginOK'
      BY <3>2 DEF LoginOK
    <3> QED
      BY <2>1, <3>1, <3>3, Frames
  <2>3. CASE login' = IdleLogin /\ UNCHANGED <<flight, calls>>
    <3>1. LoginOK'
      BY <2>3, Records DEF LoginOK
    <3> QED
      BY <2>1, <2>3, <3>1, Frames
  <2> QED
    BY <1>2, <2>2, <2>3 DEF WrongPasswordAnswered
<1>3. CASE LoginLost \/ WrongPassword
  <2>1. Same /\ UNCHANGED <<calls, users, active, listed, flight, watch, troubled>>
        /\ (UNCHANGED events \/ Event)
    BY <1>3 DEF LoginLost, WrongPassword, server
  <2>2. login' \in Logins /\ login'.pc \in {"idle", "wrong"}
    BY <1>3, Records DEF LoginLost, WrongPassword, IdleLogin, Logins, ActiveOK, Sessions
  <2>3. LoginOK'
    BY <2>2 DEF LoginOK
  <2> QED
    BY <2>1, <2>3, Frames
<1>4. CASE LoginSaved
  <2>1. /\ Same /\ UNCHANGED <<calls, active, listed, flight, watch, events>>
        /\ login.pc = "save" /\ login' = [login EXCEPT !.pc = "list"]
        /\ users' = [users EXCEPT ![login.user] = [in |-> TRUE, tok |-> login.tok]]
        /\ troubled' = troubled \ {login.user}
    BY <1>4 DEF LoginSaved, server
  <2>2. login \in Logins /\ login.user \in Users /\ login.tok \in TokensOf(login.user)
    BY <2>1 DEF LoginOK
  <2>3. LoginOK'
    <3>1. login' \in Logins /\ login'.pc = "list" /\ login'.tok = login.tok /\ login'.user = login.user
      BY <2>1, <2>2 DEF Logins
    <3> QED
      BY <2>2, <3>1 DEF LoginOK
  <2>4. UsersOK'
    <3>1. [in |-> TRUE, tok |-> login.tok] \in [in : BOOLEAN, tok : Token \cup {NoToken}]
      BY <2>2, Tokens
    <3> QED
      BY <2>1, <2>2, <3>1 DEF UsersOK
  <2>5. BookOK'
    BY <2>1 DEF BookOK
  <2> QED
    BY <2>1, <2>3, <2>4, <2>5, Frames
<1>5. CASE LoginFinished
  <2> DEFINE a == Session(login.user, login.tok)
  <2>1. Same /\ UNCHANGED <<calls, users, flight, troubled, events>> /\ login.pc = "list"
        /\ SetActive(a, Snapshot) /\ login' = IdleLogin
    BY <1>5 DEF LoginFinished, server
  <2>2. login.user \in Users /\ login.tok \in TokensOf(login.user)
    BY <2>1 DEF LoginOK
  <2>3. a \in Sessions /\ a.tok \in TokensOf(a.user) \cup {NoToken}
    BY <2>2, Tokens DEF Session, Sessions
  <2> HIDE DEF a
  <2>4. LoginOK'
    BY <2>1, Records DEF LoginOK
  <2>5. ActiveOK' /\ ListedOK' /\ WatchOK'
    BY <2>1, <2>3, SetActiveOK, SnapshotOK
  <2> QED
    BY <2>1, <2>4, <2>5, Frames
<1>6. ASSUME NEW u \in Users, LoginAsked(u)
      PROVE  OwnInv'
  <2>1. Same /\ UNCHANGED <<users, active, listed, flight, watch, troubled, events>>
    BY <1>6 DEF LoginAsked
  <2>2. PICK c \in Slots :
            /\ Asks(c, "login", u, NoToken)
            /\ login' = [pc |-> "asked", user |-> u, call |-> c, tok |-> NoToken]
    BY <1>6 DEF LoginAsked
  <2>3. /\ CallsOK'
        /\ calls'[c] \in Request /\ calls'[c].kind = "login" /\ calls'[c].user = u
        /\ \A d \in Slots : calls[d] \in Request => calls'[d] = calls[d]
    BY <2>1, <2>2, AsksOK
  <2>4. LoginOK'
    BY <2>2, <2>3 DEF LoginOK, Logins, Asked
  <2>5. FlightOK'
    BY <2>1, <2>3 DEF FlightOK, Asked
  <2> QED
    BY <2>1, <2>3, <2>4, <2>5, Frames
<1> QED
  BY <1>1, <1>2, <1>3, <1>4, <1>5, <1>6 DEF Form

LEMMA LeaveOK ==
    ASSUME NEW u \in Users, NEW pc \in {"signout", "delete", "list"}, NEW demote \in BOOLEAN,
           Leave(u, pc, demote)
    PROVE  LeavingOK'
<1>1. [pc |-> pc, user |-> u, demote |-> demote] \in Tasks
  BY DEF Tasks
<1> QED
  BY <1>1 DEF Leave, LeavingOK

LEMMA OwnLeaving ==
    ASSUME OwnInv,
           \/ Leaving \/ Rename \/ Restart \/ SyncFails
           \/ \E u \in Users : SwitchActiveUser(u) \/ LogoutAsked(u)
           \/ \E w \in watch : Validate(w)
    PROVE  OwnInv'
<1> USE DEF OwnInv
<1> DEFINE Same == UNCHANGED <<account, rows, expired, issued, calls>>
<1>1. ASSUME NEW u \in Users, SwitchActiveUser(u)
      PROVE  OwnInv'
  <2> DEFINE a == Session(u, listed[u])
  <2>1. Same /\ UNCHANGED <<renamed, users, flight, sync, login, leaving, told, troubled, events>>
        /\ listed[u] # Unlisted /\ SetActive(a, listed)
    BY <1>1 DEF SwitchActiveUser, server
  <2>2. a \in Sessions /\ a.tok \in TokensOf(a.user) \cup {NoToken}
    BY <2>1, Tokens DEF Session, Sessions, ListedOK
  <2> HIDE DEF a
  <2>3. ActiveOK' /\ ListedOK' /\ WatchOK'
    BY <2>1, <2>2, SetActiveOK DEF ListedOK
  <2> QED
    BY <2>1, <2>3, Frames
<1>2. ASSUME NEW u \in Users, LogoutAsked(u)
      PROVE  OwnInv'
  <2>1. Same /\ UNCHANGED <<renamed, users, active, listed, flight, sync, login, told, watch, troubled,
                            events>>
    BY <1>2 DEF LogoutAsked, server
  <2>2. \E pc \in {"signout", "delete"} : \E demote \in BOOLEAN : Leave(u, pc, demote)
    <3>1. (active.user = u) \in BOOLEAN
      OBVIOUS
    <3> QED
      BY <1>2, <3>1, Zenon DEF LogoutAsked
  <2>3. LeavingOK'
    BY <2>2, LeaveOK
  <2> QED
    BY <2>1, <2>3, Frames
<1>3. CASE LeaveWritten
  <2>1. Same /\ UNCHANGED <<renamed, active, listed, flight, sync, login, told, watch, troubled, events>>
        /\ leaving.pc \in {"signout", "delete"} /\ leaving' = [leaving EXCEPT !.pc = "list"]
    BY <1>3 DEF LeaveWritten, server
  <2>2. leaving \in Tasks
    BY <2>1, Records DEF LeavingOK
  <2>3. LeavingOK'
    BY <2>1, <2>2 DEF LeavingOK, Tasks
  <2>4. leaving.user \in Users
    BY <2>2 DEF Tasks
  <2>5. UsersOK'
    <3>1. CASE leaving.pc = "delete"
      <4>1. users' = [users EXCEPT ![leaving.user] = [in |-> FALSE, tok |-> NoToken]]
        BY <1>3, <3>1 DEF LeaveWritten, DeleteUser
      <4>2. [in |-> FALSE, tok |-> NoToken] \in [in : BOOLEAN, tok : Token \cup {NoToken}]
        OBVIOUS
      <4> QED
        BY <4>1, <4>2 DEF UsersOK
    <3>2. CASE leaving.pc # "delete"
      <4>1. users' = [users EXCEPT ![leaving.user] = [users[leaving.user] EXCEPT !.in = FALSE]]
        BY <1>3, <3>2 DEF LeaveWritten, SetLoginStatus
      <4>2. users[leaving.user] \in [in : BOOLEAN, tok : Token \cup {NoToken}]
        BY <2>4 DEF UsersOK
      <4>3. /\ [users[leaving.user] EXCEPT !.in = FALSE] \in [in : BOOLEAN, tok : Token \cup {NoToken}]
            /\ [users[leaving.user] EXCEPT !.in = FALSE].tok = users[leaving.user].tok
        BY <4>2
      <4> QED
        BY <4>1, <4>3 DEF UsersOK
    <3> QED
      BY <3>1, <3>2
  <2> QED
    BY <2>1, <2>3, <2>5, Frames
<1>4. CASE LeaveFinished
  <2>1. Same /\ UNCHANGED <<renamed, users, flight, sync, login, told, troubled, events>>
        /\ leaving' = NoTask
    BY <1>4 DEF LeaveFinished, server
  <2>2. LeavingOK'
    BY <2>1 DEF LeavingOK
  <2>3. ActiveOK' /\ ListedOK' /\ WatchOK'
    <3>1. CASE SetActive(Anonymous, Snapshot)
      BY <3>1, Records, SetActiveOK, SnapshotOK
    <3>2. CASE listed' = Snapshot /\ UNCHANGED <<active, watch>>
      BY <3>2, SnapshotOK, Frames DEF ListedOK
    <3> QED
      BY <1>4, <3>1, <3>2 DEF LeaveFinished
  <2> QED
    BY <2>1, <2>2, <2>3, Frames
<1>5. ASSUME NEW w \in watch, Validate(w)
      PROVE  OwnInv'
  <2>1. Same /\ UNCHANGED <<renamed, users, listed, flight, sync, login, leaving, told, troubled, events>>
        /\ (active' = active \/ active' = Anonymous)
        /\ (watch' = {} \/ watch' = {[w EXCEPT !.pc = "demote"]})
    BY <1>5 DEF Validate, server
  <2>2. w \in [user : Users, pc : {"look", "demote"}]
    BY DEF WatchOK
  <2>3. [w EXCEPT !.pc = "demote"] \in [user : Users, pc : {"look", "demote"}]
    BY <2>2
  <2>4. WatchOK'
    BY <2>1, <2>3 DEF WatchOK
  <2>5. ActiveOK'
    BY <2>1, Records DEF ActiveOK
  <2> QED
    BY <2>1, <2>4, <2>5, Frames
<1>6. CASE RenameHandled
  <2> DEFINE a == Session(told.user, told.tok)
  <2>1. Same /\ UNCHANGED <<users, flight, sync, login, leaving, troubled, events>>
        /\ told.pc = "store" /\ told' = [told EXCEPT !.pc = "list"]
        /\ renamed' = renamed \ {told.user} /\ SetActive(a, listed)
    BY <1>6 DEF RenameHandled
  <2>2. told \in Renames /\ told.tok.user = told.user
    BY <2>1, Records DEF ToldOK
  <2>3. told' \in Renames /\ told'.tok = told.tok /\ told'.user = told.user
    BY <2>1, <2>2 DEF Renames
  <2>4. ToldOK'
    BY <2>2, <2>3 DEF ToldOK
  <2>5. ServerOK'
    BY <2>1 DEF ServerOK
  <2>6. told.tok \in TokensOf(told.user) /\ told.user \in Users
    BY <2>2, Tokens DEF Renames
  <2>7. a \in Sessions /\ a.tok \in TokensOf(a.user) \cup {NoToken}
    BY <2>6, Tokens DEF Session, Sessions
  <2> HIDE DEF a
  <2>8. ActiveOK' /\ ListedOK' /\ WatchOK'
    BY <2>1, <2>7, SetActiveOK DEF ListedOK
  <2> QED
    BY <2>1, <2>4, <2>5, <2>8, Frames
<1>7. CASE RenameListed
  <2>1. Same /\ UNCHANGED <<renamed, users, active, flight, sync, login, leaving, watch, troubled, events>>
        /\ listed' = Snapshot /\ told' = NoTask
    BY <1>7 DEF RenameListed, server
  <2>2. ListedOK' /\ ToldOK'
    BY <2>1, SnapshotOK DEF ListedOK, ToldOK
  <2> QED
    BY <2>1, <2>2, Frames
<1>8. CASE Restart
  <2>1. Same /\ UNCHANGED <<renamed, users, active>> /\ Event
        /\ troubled' = troubled \cup Unsettled
        /\ flight' = NoFlight /\ sync' = IdleSync /\ login' = IdleLogin
        /\ leaving' = NoTask /\ told' = NoTask /\ listed' = Snapshot
        /\ watch' = Watching(active.user)
    BY <1>8 DEF Restart, server
  <2>2. FlightOK' /\ LeavingOK' /\ ToldOK'
    BY <2>1 DEF FlightOK, LeavingOK, ToldOK
  <2>3. SyncOK' /\ LoginOK'
    BY <2>1, Records DEF SyncOK, LoginOK
  <2>4. ListedOK' /\ WatchOK'
    BY <2>1, SnapshotOK DEF ListedOK, WatchOK, Watching
  <2>5. BookOK'
    BY <2>1, BoundsAssumption DEF BookOK, Event, Unsettled
  <2> QED
    BY <2>1, <2>2, <2>3, <2>4, <2>5, Frames
<1>9. CASE SyncFails
  <2>1. Same /\ UNCHANGED <<renamed, users, active, listed, flight, login, leaving, told, watch, troubled>>
        /\ Event /\ sync' = IdleSync
    BY <1>9 DEF SyncFails, server
  <2>2. SyncOK'
    BY <2>1, Records DEF SyncOK
  <2> QED
    BY <2>1, <2>2, Frames
<1> QED
  BY <1>1, <1>2, <1>3, <1>4, <1>5, <1>6, <1>7, <1>8, <1>9 DEF Leaving, Rename

LEMMA OwnRun ==
    ASSUME OwnInv, Run \/ SyncAsked
    PROVE  OwnInv'
<1> USE DEF OwnInv
<1> DEFINE Same == UNCHANGED <<account, rows, expired, issued, renamed, users, active, listed, login, watch,
                               troubled, events>>
<1>1. CASE SyncAsked
  <2> DEFINE s == [IdleSync EXCEPT !.user = active.user, !.first = active.tok]
  <2>1. Same /\ UNCHANGED <<calls, flight, leaving, told>>
        /\ Authenticated(active, Anon) /\ sync' = Sends(s, "check", "sent", active)
    BY <1>1 DEF SyncAsked, server
  <2>2. active \in Sessions /\ active.user \in Users /\ active.tok \in TokensOf(active.user)
    BY <2>1 DEF Authenticated, ActiveOK, Sessions
  <2>3. s \in SyncRuns /\ s.user = active.user /\ s.first = active.tok
    BY <2>2, Tokens DEF IdleSync, SyncRuns, Steps
  <2> HIDE DEF s
  <2>4. SyncOK'
    <3>1. "check" \in Steps
      BY DEF Steps
    <3> QED
      BY <2>1, <2>2, <2>3, <3>1, SendsOK
  <2> QED
    BY <2>1, <2>4, Frames
<1>2. CASE SyncAnswered
  <2>1. Same /\ UNCHANGED <<calls, flight, leaving>> /\ Pending
    BY <1>2 DEF SyncAnswered, server
  <2>2. sync \in SyncRuns /\ sync.user \in Users
    BY <2>1 DEF SyncOK, Pending
  <2>3. SyncOK'
    <3>1. CASE sync.step = "icon"
      BY <1>2, <3>1, Records DEF SyncAnswered, SyncOK
    <3>2. CASE sync.step # "icon"
      <4>1. sync' = Sends(sync, NextStep[sync.step], "sent", active)
        BY <1>2, <3>2 DEF SyncAnswered
      <4>2. NextStep[sync.step] \in Steps /\ NextStep[sync.step] # "check"
        BY <2>2, <3>2 DEF SyncRuns, Steps, NextStep
      <4> QED
        BY <2>2, <4>1, <4>2, SendsOK DEF ActiveOK
    <3> QED
      BY <3>1, <3>2
  <2>4. ToldOK'
    <3>1. CASE sync.step = "check" /\ sync.user \in renamed
      <4>1. told' = [pc |-> "store", user |-> sync.user, tok |-> sync.first]
        BY <1>2, <3>1 DEF SyncAnswered
      <4>2. sync.first \in Token /\ sync.first.user = sync.user
        BY <2>1, <3>1, Tokens DEF SyncOK, Pending
      <4> QED
        BY <2>2, <4>1, <4>2 DEF ToldOK, Renames
    <3>2. CASE ~(sync.step = "check" /\ sync.user \in renamed)
      BY <1>2, <3>2, Frames DEF SyncAnswered
    <3> QED
      BY <3>1, <3>2
  <2> QED
    BY <2>1, <2>3, <2>4, Frames
<1>3. CASE SyncRefreshes
  <2> DEFINE expected == Expected(sync.step, sync.user)
  <2>1. Same /\ UNCHANGED <<leaving, told>> /\ sync.pc = "sent"
    BY <1>3 DEF SyncRefreshes
  <2>2. CASE Refresh(expected) /\ sync' = [sync EXCEPT !.pc = "held"]
    <3>1. CallsOK' /\ FlightOK' /\ \A c \in Slots : calls[c] \in Request => calls'[c] = calls[c]
      BY <2>1, <2>2, RefreshOK
    <3>2. LoginOK'
      BY <2>1, <3>1 DEF LoginOK, Asked
    <3>3. sync \in SyncRuns
      BY DEF SyncOK
    <3>4. sync' \in SyncRuns /\ sync'.pc = "held" /\ sync'.user = sync.user /\ sync'.step = sync.step
          /\ sync'.first = sync.first
      BY <2>2, <3>3 DEF SyncRuns
    <3>5. SyncOK'
      BY <2>1, <3>4 DEF SyncOK
    <3> QED
      BY <2>1, <3>1, <3>2, <3>5, Frames
  <2>3. CASE sync' = IdleSync /\ UNCHANGED <<flight, calls>>
    <3>1. SyncOK'
      BY <2>3, Records DEF SyncOK
    <3> QED
      BY <2>1, <2>3, <3>1, Frames
  <2> QED
    BY <1>3, <2>2, <2>3 DEF SyncRefreshes
<1>4. CASE SyncSignsOut \/ SyncShutOut
  <2>1. Same /\ UNCHANGED <<calls, flight, told>> /\ Pending /\ sync' = IdleSync
    BY <1>4 DEF SyncSignsOut, SyncShutOut, server
  <2>2. SyncOK'
    BY <2>1, Records DEF SyncOK
  <2>3. sync.user \in Users
    BY <2>1 DEF SyncOK, Pending
  <2>4. leaving' = leaving \/ \E pc \in {"signout", "delete"} : Leave(sync.user, pc, TRUE)
    BY <1>4 DEF SyncSignsOut, SyncShutOut
  <2>5. LeavingOK'
    <3>1. CASE leaving' = leaving
      BY <3>1, Frames
    <3> QED
      BY <2>3, <2>4, <3>1, LeaveOK
  <2> QED
    BY <2>1, <2>2, <2>5, Frames
<1> QED
  BY <1>1, <1>2, <1>3, <1>4 DEF Run

LEMMA OwnStuttering == ASSUME OwnInv, UNCHANGED vars PROVE OwnInv'
<1>1. UNCHANGED <<account, rows, expired, issued, renamed, calls, users, active, listed, flight, sync, login,
                  leaving, told, watch, troubled, events>>
  BY DEF vars, server, device
<1> QED
  BY <1>1, Frames DEF OwnInv

LEMMA OwnNext == OwnInv /\ [Next]_vars => OwnInv'
<1> SUFFICES ASSUME OwnInv, [Next]_vars PROVE OwnInv'
  OBVIOUS
<1>1. ASSUME NEW c \in Slots, Handler(c) \/ HandlerFails(c) PROVE OwnInv'
  BY <1>1, OwnHandler
<1>2. CASE Flight \/ RefreshLost
  BY <1>2, OwnFlight
<1>3. CASE Form \/ LoginLost \/ WrongPassword \/ \E u \in Users : LoginAsked(u)
  BY <1>3, OwnForm
<1>4. CASE \/ Leaving \/ Rename \/ Restart \/ SyncFails
           \/ \E u \in Users : SwitchActiveUser(u) \/ LogoutAsked(u)
           \/ \E w \in watch : Validate(w)
  BY <1>4, OwnLeaving
<1>5. CASE Run \/ SyncAsked
  BY <1>5, OwnRun
<1>6. CASE Administration \/ AccessExpires
  BY <1>6, OwnAdministration
<1>7. CASE UNCHANGED vars
  BY <1>7, OwnStuttering
<1> QED
  BY <1>1, <1>2, <1>3, <1>4, <1>5, <1>6, <1>7 DEF Next, Choices, Faults

(* Every variable keeps its type, the requests and the waiting parts of    *)
(* the session layer (authSession.ts) and the tokens they carry included.  *)
THEOREM DesktopTypes == Spec => []TypeOK
<1>1. Spec => []OwnInv
  BY OwnInit, OwnNext, PTL DEF Spec
<1> QED
  BY <1>1, OwnTypes, PTL

(* Whoever signs in, out or over while a sync run is under way, the run's  *)
(* requests show the server a token of the user it was started for         *)
(* (requireAuthenticatedUser with the user a request names).               *)
THEOREM RequestsStay == Spec => []RequestsStayWithTheirUser
<1>1. Spec => []OwnInv
  BY OwnInit, OwnNext, PTL DEF Spec
<1>2. OwnInv => RequestsStayWithTheirUser
  BY DEF OwnInv, SyncOK, RequestsStayWithTheirUser
<1> QED
  BY <1>1, <1>2, PTL

(* A row of refresh_tokens is written only by a handler that has found its *)
(* account open at or after the time it was asked, however the             *)
(* administrator's acts fall between its statements (refresh_user_tokens). *)
THEOREM NoTokensForShut == Spec => NoTokensForTheShut
<1> DEFINE New == \A t \in rows' \ rows :
                     \E c \in Slots : calls[c].pc = "create" /\ calls[c].user = t.user /\ calls[c].entitled
<1>1. Spec => []OwnInv
  BY OwnInit, OwnNext, PTL DEF Spec
<1>2. OwnInv /\ [Next]_vars => [New]_vars
  <2> SUFFICES ASSUME OwnInv, Next, NEW t \in rows' \ rows
               PROVE  \E c \in Slots : calls[c].pc = "create" /\ calls[c].user = t.user /\ calls[c].entitled
    OBVIOUS
  <2>1. ASSUME NEW c \in Slots, Create(c)
        PROVE  calls[c].pc = "create" /\ calls[c].user = t.user /\ calls[c].entitled
    <3>1. calls[c].pc = "create" /\ rows' = rows \cup {[user |-> calls[c].user, n |-> issued + 1]}
      BY <2>1 DEF Create
    <3> QED
      BY <3>1 DEF OwnInv, CallsOK
  <2>2. ASSUME NEW c \in Slots, FindValid(c) \/ GetUser(c) \/ Revoke(c) \/ Forgotten(c) \/ HandlerFails(c)
        PROVE  FALSE
    BY <2>2 DEF FindValid, GetUser, Revoke, Forgotten, HandlerFails
  <2>3. ASSUME Flight \/ Form PROVE FALSE
    BY <2>3 DEF Flight, Form, RefreshAnswered, RefreshSaved, RefreshPublished, RefreshCleared, RefreshGivenUp,
                LoginAnswered, WrongPasswordAnswered, LoginSaved, LoginFinished, server
  <2>4. ASSUME Leaving \/ Run \/ Rename PROVE FALSE
    BY <2>4 DEF Leaving, LeaveWritten, LeaveFinished, Run, SyncAnswered, SyncRefreshes, SyncSignsOut,
                SyncShutOut, Rename, RenameHandled, RenameListed, server
  <2>5. ASSUME Choices \/ \E w \in watch : Validate(w) PROVE FALSE
    BY <2>5 DEF Choices, SyncAsked, WrongPassword, LoginAsked, SwitchActiveUser, LogoutAsked, Validate, server
  <2>6. ASSUME AccessExpires \/ RefreshLost \/ LoginLost \/ SyncFails \/ Restart PROVE FALSE
    BY <2>6 DEF AccessExpires, RefreshLost, LoginLost, SyncFails, Restart, server
  <2>7. ASSUME Administration PROVE FALSE
    BY <2>7 DEF Administration, SetUserDisabled, SoftDelete, CleanupUserData, ChangeUsername
  <2> QED
    BY <2>1, <2>2, <2>3, <2>4, <2>5, <2>6, <2>7 DEF Next, Handler, Faults
<1> QED
  BY <1>1, <1>2, PTL DEF Spec, NoTokensForTheShut

-----------------------------------------------------------------------------
(* Which tokens the server still takes.                                    *)

Lost(u) == account[u] \in {"deleted", "gone"}

(* Handlers that may still revoke the token they were asked with.          *)
Working(c) == calls[c].pc \in {"find", "user", "revoke"}

(* Tokens some part of the device may ask with, or has asked with.         *)
Shown(t) ==
    \/ active.tok = t
    \/ \E u \in Users : users[u].tok = t \/ listed[u] = t
    \/ sync.pc # "idle" /\ sync.first = t
    \/ told # NoTask /\ told.tok = t
    \/ login.pc = "list" /\ login.tok = t
    \/ flight.pc = "publish" /\ flight.tok = t
    \/ \E c \in Slots : Working(c) /\ calls[c].tok = t

(* New tokens on their way to the table: in an answer, or in what awaits   *)
(* it on the device.                                                       *)
Carries(kind, c, t) ==
    \/ kind = "call" /\ c \in Slots /\ calls[c].pc = "ok" /\ calls[c].tok = t
    \/ kind = "flight" /\ c = NoSlot /\ flight.pc = "save" /\ flight.tok = t
    \/ kind = "login" /\ c = NoSlot /\ login.pc = "save" /\ login.tok = t

Carriers == {"call", "flight", "login"} \X (Slots \cup {NoSlot})

(* New tokens are still good: nobody can ask with them, so nobody can have *)
(* them revoked, and each is carried once.                                 *)
FreshInv ==
    /\ \A t \in Token : Shown(t) => t.n <= issued
    /\ \A p \in Carriers : \A t \in Token : Carries(p[1], p[2], t) =>
          /\ t.n <= issued /\ ~Shown(t)
          /\ t \in rows \/ Lost(t.user)
    /\ \A p, q \in Carriers : \A t \in Token :
          Carries(p[1], p[2], t) /\ Carries(q[1], q[2], t) => p = q

(* A refresh of tokens the table holds is awaited, or its end was lost.    *)
WorkInv == \A c \in Slots :
    /\ calls[c].pc \in {"find", "revoke"} => calls[c].kind = "refresh"
    /\ Working(c) /\ calls[c].kind = "refresh" =>
          /\ calls[c].tok \in TokensOf(calls[c].user)
          /\ \/ flight.pc = "asked" /\ flight.call = c
             \/ calls[c].user \in troubled
             \/ users[calls[c].user].tok # calls[c].tok

Replacing(u) == flight.pc \in {"asked", "save", "clear"} /\ flight.user = u

KeptInv == \A u \in Users :
    users[u].in /\ users[u].tok # NoToken /\ ~Lost(u) /\ u \notin troubled =>
        users[u].tok \in rows \/ Replacing(u)

TokenInv == FreshInv /\ WorkInv /\ KeptInv

LEMMA TokensHeld == ASSUME OwnInv, KeptInv PROVE ServerHoldsTheToken
  BY DEF KeptInv, Replacing, Lost, NoFlight, ServerHoldsTheToken

-----------------------------------------------------------------------------
(* What the steps have in common.                                          *)

LEMMA FreshFrame ==
    ASSUME FreshInv, issued' = issued,
           \A t \in Token : Shown(t)' => Shown(t),
           \A c \in Slots : calls'[c].pc = "ok" => calls[c].pc = "ok" /\ calls'[c].tok = calls[c].tok,
           flight'.pc = "save" => flight' = flight,
           login'.pc = "save" => login' = login,
           \A t \in Token : t \in rows => t \in rows' \/ Shown(t) \/ Lost(t.user)',
           \A u \in Users : Lost(u) => Lost(u)'
    PROVE  FreshInv'
<1>1. ASSUME NEW p \in Carriers, NEW t \in Token, Carries(p[1], p[2], t)'
      PROVE  Carries(p[1], p[2], t)
  BY <1>1 DEF Carries
<1>2. \A t \in Token : Shown(t)' => t.n <= issued'
  BY DEF FreshInv
<1>3. ASSUME NEW p \in Carriers, NEW t \in Token, Carries(p[1], p[2], t)'
      PROVE  t.n <= issued' /\ ~Shown(t)' /\ (t \in rows' \/ Lost(t.user)')
  <2>1. Carries(p[1], p[2], t)
    BY <1>1, <1>3
  <2>2. t.n <= issued /\ ~Shown(t) /\ (t \in rows \/ Lost(t.user))
    BY <2>1 DEF FreshInv
  <2>3. t.user \in Users
    BY Tokens
  <2> QED
    BY <2>2, <2>3
<1>4. ASSUME NEW p \in Carriers, NEW q \in Carriers, NEW t \in Token,
             Carries(p[1], p[2], t)', Carries(q[1], q[2], t)'
      PROVE  p = q
  <2>1. Carries(p[1], p[2], t) /\ Carries(q[1], q[2], t)
    BY <1>1, <1>4
  <2> QED
    BY <2>1 DEF FreshInv
<1> QED
  BY <1>2, <1>3, <1>4 DEF FreshInv

LEMMA WorkFrame ==
    ASSUME WorkInv,
           \A c \in Slots : Working(c)' =>
              /\ Working(c)
              /\ calls'[c].kind = calls[c].kind /\ calls'[c].user = calls[c].user
              /\ calls'[c].tok = calls[c].tok
              /\ calls'[c].pc \in {"find", "revoke"} => calls[c].kind = "refresh"
              /\ flight.pc = "asked" /\ flight.call = c =>
                    (flight'.pc = "asked" /\ flight'.call = c) \/ calls[c].user \in troubled',
           troubled \subseteq troubled',
           \A u \in Users : users'[u].tok \in {users[u].tok, NoToken}
    PROVE  WorkInv'
<1>1. ASSUME NEW c \in Slots, calls'[c].pc \in {"find", "revoke"}
      PROVE  calls'[c].kind = "refresh"
  BY <1>1 DEF Working
<1>2. ASSUME NEW c \in Slots, Working(c)', calls'[c].kind = "refresh"
      PROVE  /\ calls'[c].tok \in TokensOf(calls'[c].user)
             /\ \/ flight'.pc = "asked" /\ flight'.call = c
                \/ calls'[c].user \in troubled'
                \/ users'[calls'[c].user].tok # calls'[c].tok
  <2>1. /\ Working(c) /\ calls[c].kind = "refresh"
        /\ calls'[c].user = calls[c].user /\ calls'[c].tok = calls[c].tok
    BY <1>2
  <2>2. /\ calls[c].tok \in TokensOf(calls[c].user)
        /\ \/ flight.pc = "asked" /\ flight.call = c
           \/ calls[c].user \in troubled
           \/ users[calls[c].user].tok # calls[c].tok
    BY <2>1 DEF WorkInv
  <2>3. calls[c].user \in Users /\ calls[c].tok # NoToken
    BY <2>2, Tokens
  <2> QED
    BY <1>2, <2>1, <2>2, <2>3
<1> QED
  BY <1>1, <1>2 DEF WorkInv

LEMMA KeptFrame ==
    ASSUME KeptInv,
           \A u \in Users :
              /\ users'[u].in => users[u].in
              /\ users'[u].tok \in {users[u].tok, NoToken}
              /\ Lost(u) => Lost(u)'
              /\ users[u].tok \in rows =>
                    users[u].tok \in rows' \/ Lost(u)' \/ Replacing(u) \/ u \in troubled
              /\ Replacing(u) => Replacing(u)' \/ u \in troubled' \/ ~users'[u].in,
           troubled \subseteq troubled'
    PROVE  KeptInv'
  BY DEF KeptInv

(* Steps that leave the table, the server and a refresh under way alone.   *)
LEMMA QuietOK ==
    ASSUME OwnInv, TokenInv, UNCHANGED <<account, rows, issued, calls, users, troubled>>,
           \/ flight' = flight
           \/ flight.pc \notin {"asked", "save", "clear"} /\ flight' = NoFlight,
           login'.pc = "save" => login' = login,
           \A t \in Token : Shown(t)' => Shown(t)
    PROVE  TokenInv'
<1>1. FreshInv'
  <2>1. flight'.pc = "save" => flight' = flight
    BY DEF NoFlight
  <2> QED
    BY <2>1, FreshFrame DEF TokenInv, Lost
<1>2. WorkInv'
  BY WorkFrame DEF TokenInv, Working, WorkInv
<1>3. KeptInv'
  BY KeptFrame DEF TokenInv, Lost, Replacing
<1> QED
  BY <1>1, <1>2, <1>3 DEF TokenInv

LEMMA SnapshotShows ==
    ASSUME NEW t \in Token, NEW u \in Users, Snapshot[u] = t PROVE users[u].tok = t
  BY Tokens DEF Snapshot

LEMMA SetActiveShows ==
    ASSUME NEW t \in Token, NEW s, NEW list, SetActive(s, list),
           active'.tok = t \/ \E u \in Users : listed'[u] = t
    PROVE  s.tok = t \/ \E u \in Users : list[u] = t
  BY DEF SetActive

LEMMA SendsShows ==
    ASSUME NEW s \in SyncRuns, NEW step \in Steps, NEW pc \in {"sent", "resent"}, NEW a,
           sync' = Sends(s, step, pc, a), sync'.pc # "idle"
    PROVE  sync'.first \in {s.first, NoToken}
<1>1. sync' = [s EXCEPT !.pc = pc, !.step = step, !.tok = a.tok,
                        !.first = IF step = "check" THEN @ ELSE NoToken]
  BY Records DEF Sends
<1> QED
  BY <1>1 DEF SyncRuns

LEMMA SettlesShows ==
    ASSUME SyncOK, NEW refreshed, NEW a, Settles(refreshed, a), sync'.pc # "idle"
    PROVE  sync.pc # "idle" /\ sync'.first \in {sync.first, NoToken}
<1>1. CASE sync' = sync
  BY <1>1
<1>2. CASE sync' = IdleSync
  BY <1>2, Records
<1>3. CASE sync.pc = "held" /\ sync' = Sends(sync, sync.step, "resent", a)
  <2>1. sync \in SyncRuns /\ sync.step \in Steps
    BY DEF SyncOK, SyncRuns
  <2> QED
    BY <1>3, <2>1, SendsShows
<1> QED
  BY <1>1, <1>2, <1>3 DEF Settles

-----------------------------------------------------------------------------
(* Every step keeps the tokens good.                                       *)

LEMMA QuietSteps ==
    ASSUME OwnInv, TokenInv,
           \/ RefreshPublished \/ RefreshGivenUp \/ LoginFinished \/ LoginLost \/ WrongPassword
           \/ LeaveFinished \/ Rename \/ SyncAsked \/ SyncAnswered \/ SyncSignsOut \/ SyncShutOut
           \/ SyncFails \/ AccessExpires \/ UNCHANGED vars
           \/ \E u \in Users : SwitchActiveUser(u) \/ LogoutAsked(u) \/ ChangeUsername(u)
           \/ \E w \in watch : Validate(w)
    PROVE  TokenInv'
<1> USE DEF OwnInv
<1> DEFINE Same == UNCHANGED <<account, rows, issued, calls, users, troubled>>
<1>1. CASE RefreshPublished
  <2> DEFINE a == Session(flight.user, flight.tok)
  <2>1. Same /\ UNCHANGED <<told>> /\ flight.pc = "publish" /\ SetActive(a, listed) /\ Settles(flight, a)
    BY <1>1 DEF RefreshPublished, server
  <2>2. flight' = NoFlight /\ login' \in {login, IdleLogin}
    BY <2>1 DEF Settles
  <2>3. a.tok = flight.tok
    BY DEF Session
  <2> HIDE DEF a
  <2>4. ASSUME NEW t \in Token, Shown(t)' PROVE Shown(t)
    <3>1. active'.tok = t \/ (\E u \in Users : listed'[u] = t) =>
             flight.tok = t \/ \E u \in Users : listed[u] = t
      BY <2>1, <2>3, SetActiveShows
    <3>2. sync'.pc # "idle" => sync.pc # "idle" /\ sync'.first \in {sync.first, NoToken}
      BY <2>1, SettlesShows
    <3>3. flight'.pc # "publish" /\ (login'.pc = "list" => login' = login)
      BY <2>2, Records DEF NoFlight
    <3>4. \A c \in Slots : Working(c)' => Working(c) /\ calls'[c].tok = calls[c].tok
      BY <2>1 DEF Working
    <3> QED
      BY <2>1, <2>4, <3>1, <3>2, <3>3, <3>4, Tokens DEF Shown
  <2>5. login'.pc = "save" => login' = login
    BY <2>2, Records
  <2> QED
    BY <2>1, <2>2, <2>4, <2>5, QuietOK
<1>2. CASE RefreshGivenUp
  <2>1. Same /\ UNCHANGED <<told>> /\ flight.pc = "leave" /\ SetActive(Anonymous, listed)
        /\ Settles(NoFlight, Anonymous)
    BY <1>2 DEF RefreshGivenUp, server
  <2>2. flight' = NoFlight /\ login' \in {login, IdleLogin}
    BY <2>1 DEF Settles
  <2>3. ASSUME NEW t \in Token, Shown(t)' PROVE Shown(t)
    <3>1. active'.tok = t \/ (\E u \in Users : listed'[u] = t) => \E u \in Users : listed[u] = t
      BY <2>1, Records, Tokens, SetActiveShows
    <3>2. sync'.pc # "idle" => sync.pc # "idle" /\ sync'.first \in {sync.first, NoToken}
      BY <2>1, SettlesShows
    <3>3. flight'.pc # "publish" /\ (login'.pc = "list" => login' = login)
      BY <2>2, Records DEF NoFlight
    <3>4. \A c \in Slots : Working(c)' => Working(c) /\ calls'[c].tok = calls[c].tok
      BY <2>1 DEF Working
    <3> QED
      BY <2>1, <2>3, <3>1, <3>2, <3>3, <3>4, Tokens DEF Shown
  <2>4. login'.pc = "save" => login' = login
    BY <2>2, Records
  <2> QED
    BY <2>1, <2>2, <2>3, <2>4, QuietOK
<1>3. CASE LoginFinished
  <2> DEFINE a == Session(login.user, login.tok)
  <2>1. Same /\ UNCHANGED <<flight, sync, told>> /\ login.pc = "list" /\ SetActive(a, Snapshot)
        /\ login' = IdleLogin
    BY <1>3 DEF LoginFinished, server
  <2>2. a.tok = login.tok
    BY DEF Session
  <2> HIDE DEF a
  <2>3. ASSUME NEW t \in Token, Shown(t)' PROVE Shown(t)
    <3>1. active'.tok = t \/ (\E u \in Users : listed'[u] = t) =>
             login.tok = t \/ \E u \in Users : users[u].tok = t
      BY <2>1, <2>2, SetActiveShows, SnapshotShows
    <3>2. login'.pc # "list"
      BY <2>1, Records
    <3>3. \A c \in Slots : Working(c)' => Working(c) /\ calls'[c].tok = calls[c].tok
      BY <2>1 DEF Working
    <3> QED
      BY <2>1, <2>3, <3>1, <3>2, <3>3 DEF Shown
  <2> QED
    BY <2>1, <2>3, Records, QuietOK
<1>4. CASE LoginLost \/ WrongPassword
  <2>1. Same /\ UNCHANGED <<active, listed, flight, sync, told>>
    BY <1>4 DEF LoginLost, WrongPassword, server
  <2>2. login'.pc \in {"idle", "wrong"}
    <3>1. CASE LoginLost
      BY <3>1, Records DEF LoginLost
    <3>2. CASE WrongPassword
      <4>1. login' = [IdleLogin EXCEPT !.pc = "wrong", !.user = active.user]
        BY <3>2 DEF WrongPassword
      <4> QED
        BY <4>1 DEF IdleLogin
    <3> QED
      BY <1>4, <3>1, <3>2
  <2>3. ASSUME NEW t \in Token, Shown(t)' PROVE Shown(t)
    BY <2>1, <2>2, <2>3 DEF Shown, Working
  <2> QED
    BY <2>1, <2>2, <2>3, QuietOK
<1>5. CASE LeaveFinished \/ RenameListed
  <2>1. Same /\ UNCHANGED <<flight, sync, login>> /\ (told' = told \/ told' = NoTask)
    BY <1>5 DEF LeaveFinished, RenameListed, server
  <2>2. SetActive(Anonymous, Snapshot) \/ (listed' = Snapshot /\ UNCHANGED active)
    BY <1>5 DEF LeaveFinished, RenameListed
  <2>3. ASSUME NEW t \in Token, Shown(t)' PROVE Shown(t)
    <3>1. active'.tok = t \/ (\E u \in Users : listed'[u] = t) =>
             active.tok = t \/ \E u \in Users : users[u].tok = t
      BY <2>2, Records, Tokens, SetActiveShows, SnapshotShows
    <3>2. \A c \in Slots : Working(c)' => Working(c) /\ calls'[c].tok = calls[c].tok
      BY <2>1 DEF Working
    <3> QED
      BY <2>1, <2>3, <3>1, <3>2 DEF Shown
  <2> QED
    BY <2>1, <2>3, QuietOK
<1>6. CASE RenameHandled
  <2> DEFINE a == Session(told.user, told.tok)
  <2>1. Same /\ UNCHANGED <<flight, sync, login>> /\ told.pc = "store" /\ told' = [told EXCEPT !.pc = "list"]
        /\ SetActive(a, listed)
    BY <1>6 DEF RenameHandled
  <2>2. told \in Renames /\ told # NoTask
    BY <2>1, Records DEF ToldOK
  <2>3. told'.tok = told.tok
    BY <2>1, <2>2 DEF Renames
  <2>4. a.tok = told.tok
    BY DEF Session
  <2> HIDE DEF a
  <2>5. ASSUME NEW t \in Token, Shown(t)' PROVE Shown(t)
    <3>1. active'.tok = t \/ (\E u \in Users : listed'[u] = t) =>
             told.tok = t \/ \E u \in Users : listed[u] = t
      BY <2>1, <2>4, SetActiveShows
    <3>2. \A c \in Slots : Working(c)' => Working(c) /\ calls'[c].tok = calls[c].tok
      BY <2>1 DEF Working
    <3> QED
      BY <2>1, <2>2, <2>3, <2>5, <3>1, <3>2 DEF Shown
  <2> QED
    BY <2>1, <2>5, QuietOK
<1>7. CASE SyncAsked
  <2> DEFINE s == [IdleSync EXCEPT !.user = active.user, !.first = active.tok]
  <2>1. Same /\ UNCHANGED <<active, listed, flight, login, told>>
        /\ sync' = Sends(s, "check", "sent", active) /\ Authenticated(active, Anon)
    BY <1>7 DEF SyncAsked, server
  <2>2. active \in Sessions
    BY DEF ActiveOK
  <2>3. s \in SyncRuns /\ s.first = active.tok
    BY <2>2 DEF IdleSync, SyncRuns, Steps, Sessions
  <2> HIDE DEF s
  <2>4. sync'.pc # "idle" => sync'.first \in {active.tok, NoToken}
    <3>1. "check" \in Steps
      BY DEF Steps
    <3> QED
      BY <2>1, <2>3, <3>1, SendsShows
  <2>5. ASSUME NEW t \in Token, Shown(t)' PROVE Shown(t)
    BY <2>1, <2>4, <2>5, Tokens DEF Shown, Working
  <2> QED
    BY <2>1, <2>5, QuietOK
<1>8. CASE SyncAnswered
  <2>1. Same /\ UNCHANGED <<active, listed, flight, login>> /\ sync.pc # "idle"
    BY <1>8 DEF SyncAnswered, Pending, server
  <2>2. sync'.pc # "idle" => sync'.first \in {sync.first, NoToken}
    <3>1. CASE sync.step = "icon"
      BY <1>8, <3>1, Records DEF SyncAnswered
    <3>2. CASE sync.step # "icon"
      <4>1. sync' = Sends(sync, NextStep[sync.step], "sent", active)
        BY <1>8, <3>2 DEF SyncAnswered
      <4>2. sync \in SyncRuns /\ NextStep[sync.step] \in Steps
        BY <3>2 DEF SyncOK, SyncRuns, Steps, NextStep
      <4> QED
        BY <4>1, <4>2, SendsShows
    <3> QED
      BY <3>1, <3>2
  <2>3. told' = told \/ told'.tok = sync.first
    BY <1>8 DEF SyncAnswered
  <2>4. ASSUME NEW t \in Token, Shown(t)' PROVE Shown(t)
    BY <2>1, <2>2, <2>3, <2>4, Tokens DEF Shown, Working
  <2> QED
    BY <2>1, <2>4, QuietOK
<1>9. CASE SyncSignsOut \/ SyncShutOut \/ SyncFails
  <2>1. Same /\ UNCHANGED <<active, listed, flight, login, told>> /\ sync' = IdleSync
    BY <1>9 DEF SyncSignsOut, SyncShutOut, SyncFails, server
  <2>2. ASSUME NEW t \in Token, Shown(t)' PROVE Shown(t)
    BY <2>1, <2>2, Records DEF Shown, Working
  <2> QED
    BY <2>1, <2>2, QuietOK
<1>10. CASE AccessExpires \/ UNCHANGED vars
            \/ \E u \in Users : LogoutAsked(u) \/ ChangeUsername(u)
  <2>1. Same /\ UNCHANGED <<active, listed, flight, login, told, sync>>
    BY <1>10 DEF AccessExpires, LogoutAsked, ChangeUsername, vars, device, server
  <2>2. ASSUME NEW t \in Token, Shown(t)' PROVE Shown(t)
    BY <2>1, <2>2 DEF Shown, Working
  <2> QED
    BY <2>1, <2>2, QuietOK
<1>11. ASSUME NEW u \in Users, SwitchActiveUser(u)
       PROVE  TokenInv'
  <2> DEFINE a == Session(u, listed[u])
  <2>1. Same /\ UNCHANGED <<flight, sync, login, told>> /\ SetActive(a, listed)
    BY <1>11 DEF SwitchActiveUser, server
  <2>2. a.tok = listed[u]
    BY DEF Session
  <2> HIDE DEF a
  <2>3. ASSUME NEW t \in Token, Shown(t)' PROVE Shown(t)
    <3>1. active'.tok = t \/ (\E v \in Users : listed'[v] = t) => \E v \in Users : listed[v] = t
      BY <2>1, <2>2, SetActiveShows
    <3>2. \A c \in Slots : Working(c)' => Working(c) /\ calls'[c].tok = calls[c].tok
      BY <2>1 DEF Working
    <3> QED
      BY <2>1, <2>3, <3>1, <3>2 DEF Shown
  <2> QED
    BY <2>1, <2>3, QuietOK
<1>12. ASSUME NEW w \in watch, Validate(w)
       PROVE  TokenInv'
  <2>1. Same /\ UNCHANGED <<listed, flight, sync, login, told>> /\ active' \in {active, Anonymous}
    BY <1>12 DEF Validate, server
  <2>2. ASSUME NEW t \in Token, Shown(t)' PROVE Shown(t)
    BY <2>1, <2>2, Records, Tokens DEF Shown, Working
  <2> QED
    BY <2>1, <2>2, QuietOK
<1> QED
  BY <1>1, <1>2, <1>3, <1>4, <1>5, <1>6, <1>7, <1>8, <1>9, <1>10, <1>11, <1>12 DEF Rename

(* A refresh that is joined, or starts with the tokens made active.        *)
LEMMA RefreshKeeps ==
    ASSUME OwnInv, TokenInv, NEW expected, Refresh(expected),
           UNCHANGED <<account, rows, issued, users, troubled, active, listed, told>>,
           login' = login \/ login'.pc = "held",
           sync'.pc # "idle" => sync.pc # "idle" /\ sync'.first = sync.first
    PROVE  TokenInv'
<1> USE DEF OwnInv
<1>1. CASE UNCHANGED <<flight, calls>>
  <2>1. ASSUME NEW t \in Token, Shown(t)' PROVE Shown(t)
    BY <1>1, <2>1 DEF Shown, Working
  <2> QED
    BY <1>1, <2>1, QuietOK
<1>2. CASE ~UNCHANGED <<flight, calls>>
  <2>1. PICK c \in Slots :
            /\ Asks(c, "refresh", active.user, active.tok)
            /\ flight' = [pc |-> "asked", user |-> active.user, tok |-> active.tok, call |-> c]
            /\ flight = NoFlight /\ Authenticated(active, expected)
    BY <1>2 DEF Refresh
  <2> DEFINE new == [pc |-> "find", kind |-> "refresh", user |-> active.user, tok |-> active.tok,
                     entitled |-> account[active.user] = "enabled"]
  <2>2. calls[c] = NoCall /\ calls' = [calls EXCEPT ![c] = new]
    BY <2>1 DEF Asks
  <2>3. /\ new.pc = "find" /\ new.kind = "refresh" /\ new.tok = active.tok
        /\ new.user = active.user
    OBVIOUS
  <2>4. calls'[c] = new /\ \A d \in Slots : d # c => calls'[d] = calls[d]
    BY <2>2 DEF CallsOK
  <2> HIDE DEF new
  <2>5. /\ active.user \in Users /\ active.tok \in TokensOf(active.user)
    BY <2>1 DEF Authenticated, ActiveOK, Sessions
  <2>6. flight.pc = "none" /\ flight'.pc = "asked" /\ flight'.call = c
    BY <2>1 DEF NoFlight
  <2>7. ASSUME NEW t \in Token, Shown(t)' PROVE Shown(t)
    <3>1. \A d \in Slots : Working(d)' /\ calls'[d].tok = t =>
             active.tok = t \/ (Working(d) /\ calls[d].tok = t)
      BY <2>3, <2>4 DEF Working
    <3> QED
      BY <2>6, <2>7, <3>1 DEF Shown
  <2>8. FreshInv'
    <3>1. \A d \in Slots : calls'[d].pc = "ok" => calls[d].pc = "ok" /\ calls'[d].tok = calls[d].tok
      BY <2>3, <2>4
    <3> QED
      BY <2>6, <2>7, <3>1, FreshFrame DEF TokenInv, Lost
  <2>9. WorkInv'
    <3>1. ASSUME NEW d \in Slots, d # c
          PROVE  /\ calls'[d].pc \in {"find", "revoke"} => calls'[d].kind = "refresh"
                 /\ Working(d)' /\ calls'[d].kind = "refresh" =>
                       /\ calls'[d].tok \in TokensOf(calls'[d].user)
                       /\ \/ calls'[d].user \in troubled'
                          \/ users'[calls'[d].user].tok # calls'[d].tok
      BY <2>4, <2>6, <3>1 DEF TokenInv, WorkInv, Working
    <3>2. calls'[c].kind = "refresh" /\ calls'[c].tok \in TokensOf(calls'[c].user)
      BY <2>3, <2>4, <2>5
    <3> QED
      BY <2>6, <3>1, <3>2 DEF WorkInv
  <2>10. KeptInv'
    BY <2>6, KeptFrame DEF TokenInv, Replacing, Lost
  <2> QED
    BY <2>8, <2>9, <2>10 DEF TokenInv
<1> QED
  BY <1>1, <1>2

LEMMA AskingSteps ==
    ASSUME OwnInv, TokenInv,
           WrongPasswordAnswered \/ SyncRefreshes \/ \E u \in Users : LoginAsked(u)
    PROVE  TokenInv'
<1> USE DEF OwnInv
<1> DEFINE Same == UNCHANGED <<account, rows, issued, users, troubled, active, listed, told>>
<1>1. CASE WrongPasswordAnswered
  <2>1. Same /\ UNCHANGED sync /\ login.pc = "wrong"
    BY <1>1 DEF WrongPasswordAnswered
  <2>2. CASE Refresh(login.user) /\ login' = [IdleLogin EXCEPT !.pc = "held"]
    <3>1. login'.pc = "held"
      BY <2>2 DEF IdleLogin
    <3> QED
      BY <2>1, <2>2, <3>1, RefreshKeeps
  <2>3. CASE login' = IdleLogin /\ UNCHANGED <<flight, calls>>
    <3>1. ASSUME NEW t \in Token, Shown(t)' PROVE Shown(t)
      BY <2>1, <2>3, <3>1, Records DEF Shown, Working
    <3> QED
      BY <2>1, <2>3, <3>1, Records, QuietOK
  <2> QED
    BY <1>1, <2>2, <2>3 DEF WrongPasswordAnswered
<1>2. CASE SyncRefreshes
  <2> DEFINE expected == Expected(sync.step, sync.user)
  <2>1. Same /\ UNCHANGED login /\ sync.pc = "sent"
    BY <1>2 DEF SyncRefreshes
  <2>2. CASE Refresh(expected) /\ sync' = [sync EXCEPT !.pc = "held"]
    <3>1. sync'.first = sync.first
      BY <2>2 DEF SyncOK, SyncRuns
    <3> QED
      BY <2>1, <2>2, <3>1, RefreshKeeps
  <2>3. CASE sync' = IdleSync /\ UNCHANGED <<flight, calls>>
    <3>1. ASSUME NEW t \in Token, Shown(t)' PROVE Shown(t)
      BY <2>1, <2>3, <3>1, Records DEF Shown, Working
    <3> QED
      BY <2>1, <2>3, <3>1, QuietOK
  <2> QED
    BY <1>2, <2>2, <2>3 DEF SyncRefreshes
<1>3. ASSUME NEW u \in Users, LoginAsked(u)
      PROVE  TokenInv'
  <2>1. Same /\ UNCHANGED <<flight, sync>>
    BY <1>3 DEF LoginAsked
  <2>2. PICK c \in Slots :
            /\ Asks(c, "login", u, NoToken)
            /\ login' = [pc |-> "asked", user |-> u, call |-> c, tok |-> NoToken]
    BY <1>3 DEF LoginAsked
  <2> DEFINE new == [pc |-> "user", kind |-> "login", user |-> u, tok |-> NoToken,
                     entitled |-> account[u] = "enabled"]
  <2>3. calls[c] = NoCall /\ calls' = [calls EXCEPT ![c] = new]
    BY <2>2 DEF Asks
  <2>4. new.pc = "user" /\ new.kind = "login" /\ new.tok = NoToken
    OBVIOUS
  <2>5. calls'[c] = new /\ \A d \in Slots : d # c => calls'[d] = calls[d]
    BY <2>3 DEF CallsOK
  <2> HIDE DEF new
  <2>6. login'.pc = "asked"
    BY <2>2
  <2>7. ASSUME NEW t \in Token, Shown(t)' PROVE Shown(t)
    <3>1. \A d \in Slots : Working(d)' /\ calls'[d].tok = t => Working(d) /\ calls[d].tok = t
      BY <2>4, <2>5, Tokens DEF Working
    <3> QED
      BY <2>1, <2>6, <2>7, <3>1 DEF Shown
  <2>8. FreshInv'
    <3>1. \A d \in Slots : calls'[d].pc = "ok" => calls[d].pc = "ok" /\ calls'[d].tok = calls[d].tok
      BY <2>4, <2>5
    <3> QED
      BY <2>1, <2>6, <2>7, <3>1, FreshFrame DEF TokenInv, Lost
  <2>9. WorkInv'
    <3>1. ASSUME NEW d \in Slots, d # c
          PROVE  /\ calls'[d].pc \in {"find", "revoke"} => calls'[d].kind = "refresh"
                 /\ Working(d)' /\ calls'[d].kind = "refresh" =>
                       /\ calls'[d].tok \in TokensOf(calls'[d].user)
                       /\ \/ flight'.pc = "asked" /\ flight'.call = d
                          \/ calls'[d].user \in troubled'
                          \/ users'[calls'[d].user].tok # calls'[d].tok
      BY <2>1, <2>5, <3>1 DEF TokenInv, WorkInv, Working
    <3> QED
      BY <2>4, <2>5, <3>1 DEF WorkInv
  <2>10. KeptInv'
    BY <2>1, KeptFrame DEF TokenInv, Replacing, Lost
  <2> QED
    BY <2>8, <2>9, <2>10 DEF TokenInv
<1> QED
  BY <1>1, <1>2, <1>3

-----------------------------------------------------------------------------
(* An answer passes from the call to who awaits it.                        *)

LEMMA HandsOver ==
    ASSUME FreshInv, NEW c \in Slots, NEW kind \in {"flight", "login"},
           UNCHANGED <<account, rows, issued>>, \A t \in Token : Shown(t)' => Shown(t),
           calls'[c].pc # "ok", \A d \in Slots : d # c => calls'[d] = calls[d],
           kind = "flight" =>
              /\ login' = login /\ flight.pc # "save"
              /\ flight'.pc = "save" => calls[c].pc = "ok" /\ flight'.tok = calls[c].tok,
           kind = "login" =>
              /\ flight' = flight /\ login.pc # "save"
              /\ login'.pc = "save" => calls[c].pc = "ok" /\ login'.tok = calls[c].tok
    PROVE  FreshInv'
<1> DEFINE From(p) == IF p = <<kind, NoSlot>> THEN <<"call", c>> ELSE p
<1>1. ASSUME NEW p \in Carriers, NEW t \in Token, Carries(p[1], p[2], t)'
      PROVE  From(p) \in Carriers /\ Carries(From(p)[1], From(p)[2], t) /\ p # <<"call", c>>
  <2>1. p = <<p[1], p[2]>> /\ p[1] \in {"call", "flight", "login"} /\ p[2] \in Slots \cup {NoSlot}
    BY DEF Carriers
  <2>2. p # <<"call", c>>
    BY <1>1, <2>1 DEF Carries
  <2>3. CASE p = <<kind, NoSlot>>
    <3>1. Carries("call", c, t)
      BY <1>1, <2>1, <2>3 DEF Carries
    <3>2. <<"call", c>> \in Carriers
      BY DEF Carriers
    <3> QED
      BY <2>2, <2>3, <3>1, <3>2
  <2>4. CASE p # <<kind, NoSlot>>
    <3>1. Carries(p[1], p[2], t)
      BY <1>1, <2>1, <2>2, <2>4 DEF Carries
    <3> QED
      BY <2>2, <2>4, <3>1
  <2> QED
    BY <2>3, <2>4
<1>2. \A p, q \in Carriers : p # <<"call", c>> /\ q # <<"call", c>> /\ From(p) = From(q) => p = q
  OBVIOUS
<1> HIDE DEF From
<1>3. \A t \in Token : Shown(t)' => t.n <= issued'
  BY DEF FreshInv
<1>4. ASSUME NEW p \in Carriers, NEW t \in Token, Carries(p[1], p[2], t)'
      PROVE  t.n <= issued' /\ ~Shown(t)' /\ (t \in rows' \/ Lost(t.user)')
  <2>1. t.n <= issued /\ ~Shown(t) /\ (t \in rows \/ Lost(t.user))
    BY <1>1, <1>4 DEF FreshInv
  <2> QED
    BY <2>1 DEF Lost
<1>5. ASSUME NEW p \in Carriers, NEW q \in Carriers, NEW t \in Token,
             Carries(p[1], p[2], t)', Carries(q[1], q[2], t)'
      PROVE  p = q
  <2>1. /\ From(p) \in Carriers /\ Carries(From(p)[1], From(p)[2], t) /\ p # <<"call", c>>
        /\ From(q) \in Carriers /\ Carries(From(q)[1], From(q)[2], t) /\ q # <<"call", c>>
    BY <1>1, <1>5
  <2>2. From(p) = From(q)
    BY <2>1 DEF FreshInv
  <2> QED
    BY <1>2, <2>1, <2>2
<1> QED
  BY <1>3, <1>4, <1>5 DEF FreshInv

LEMMA AnsweredSteps ==
    ASSUME OwnInv, TokenInv, RefreshAnswered \/ LoginAnswered
    PROVE  TokenInv'
<1> USE DEF OwnInv
<1> DEFINE Same == UNCHANGED <<account, rows, issued, users, troubled, active, listed, told, sync>>
<1>1. CASE RefreshAnswered
  <2> DEFINE c == flight.call
  <2>1. /\ Same /\ UNCHANGED login /\ flight.pc = "asked"
        /\ calls[c].pc \in {"ok", "refused"} /\ calls' = [calls EXCEPT ![c] = NoCall]
    BY <1>1 DEF RefreshAnswered
  <2>2. flight \in Flights /\ c \in Slots
    BY <2>1, Records DEF FlightOK, Asked
  <2>3. calls'[c].pc = "free" /\ \A d \in Slots : d # c => calls'[d] = calls[d]
    BY <2>1, <2>2, Records DEF CallsOK
  <2>4. /\ flight'.pc \in {"save", "clear"} /\ flight'.user = flight.user
        /\ flight'.pc = "save" => calls[c].pc = "ok" /\ flight'.tok = calls[c].tok
    BY <1>1, <2>2 DEF RefreshAnswered, Flights
  <2> HIDE DEF c
  <2>5. ASSUME NEW t \in Token, Shown(t)' PROVE Shown(t)
    BY <2>1, <2>3, <2>4, <2>5 DEF Shown, Working
  <2>6. FreshInv'
    BY <2>1, <2>2, <2>3, <2>4, <2>5, HandsOver DEF TokenInv
  <2>7. WorkInv'
    <3>1. \A d \in Slots : Working(d)' => Working(d) /\ calls'[d] = calls[d] /\ d # c
      BY <2>3 DEF Working
    <3>2. \A d \in Slots : calls[d].pc \in {"find", "revoke"} => calls[d].kind = "refresh"
      BY DEF TokenInv, WorkInv
    <3> QED
      BY <2>1, <3>1, <3>2, WorkFrame DEF TokenInv, c
  <2>8. KeptInv'
    BY <2>1, <2>4, KeptFrame DEF TokenInv, Replacing, Lost
  <2> QED
    BY <2>6, <2>7, <2>8 DEF TokenInv
<1>2. CASE LoginAnswered
  <2> DEFINE c == login.call
  <2>1. /\ Same /\ UNCHANGED flight /\ login.pc = "asked"
        /\ calls[c].pc \in {"ok", "refused"} /\ calls' = [calls EXCEPT ![c] = NoCall]
    BY <1>2 DEF LoginAnswered
  <2>2. login \in Logins /\ c \in Slots
    BY <2>1 DEF LoginOK, Asked
  <2>3. calls'[c].pc = "free" /\ \A d \in Slots : d # c => calls'[d] = calls[d]
    BY <2>1, <2>2, Records DEF CallsOK
  <2>4. /\ login'.pc \in {"save", "idle"}
        /\ login'.pc = "save" => calls[c].pc = "ok" /\ login'.tok = calls[c].tok
    BY <1>2, <2>2, Records DEF LoginAnswered, Logins
  <2> HIDE DEF c
  <2>5. ASSUME NEW t \in Token, Shown(t)' PROVE Shown(t)
    BY <2>1, <2>3, <2>4, <2>5 DEF Shown, Working
  <2>6. FreshInv'
    BY <2>1, <2>2, <2>3, <2>4, <2>5, HandsOver DEF TokenInv
  <2>7. WorkInv'
    <3>1. \A d \in Slots : Working(d)' => Working(d) /\ calls'[d] = calls[d]
      BY <2>3 DEF Working
    <3>2. \A d \in Slots : calls[d].pc \in {"find", "revoke"} => calls[d].kind = "refresh"
      BY DEF TokenInv, WorkInv
    <3> QED
      BY <2>1, <3>1, <3>2, WorkFrame DEF TokenInv
  <2>8. KeptInv'
    BY <2>1, KeptFrame DEF TokenInv, Replacing, Lost
  <2> QED
    BY <2>6, <2>7, <2>8 DEF TokenInv
<1> QED
  BY <1>1, <1>2

-----------------------------------------------------------------------------
(* What is written to the table.                                           *)

LEMMA Saves ==
    ASSUME OwnInv, TokenInv, NEW kind \in {"flight", "login"}, NEW u \in Users, NEW new \in TokensOf(u),
           Carries(kind, NoSlot, new), UNCHANGED <<account, rows, issued, calls>>,
           users'[u].tok = new, \A v \in Users : v # u => users'[v] = users[v],
           troubled' = troubled \ {u},
           \A t \in Token : Shown(t)' => Shown(t) \/ t = new,
           \A p \in Carriers, t \in Token :
              Carries(p[1], p[2], t)' => Carries(p[1], p[2], t) /\ p # <<kind, NoSlot>>,
           flight.pc = "asked" => flight' = flight,
           \A v \in Users : v # u /\ Replacing(v) => Replacing(v)'
    PROVE  TokenInv'
<1> USE DEF OwnInv
<1>1. <<kind, NoSlot>> \in Carriers /\ <<kind, NoSlot>>[1] = kind /\ <<kind, NoSlot>>[2] = NoSlot
  BY DEF Carriers
<1>2. new \in Token /\ new.user = u
  BY Tokens
<1>3. new.n <= issued /\ ~Shown(new) /\ (new \in rows \/ Lost(u))
  BY <1>1, <1>2 DEF TokenInv, FreshInv
<1>4. FreshInv'
  <2>1. \A t \in Token : Shown(t)' => t.n <= issued'
    BY <1>3 DEF TokenInv, FreshInv
  <2>2. ASSUME NEW p \in Carriers, NEW t \in Token, Carries(p[1], p[2], t)'
        PROVE  t.n <= issued' /\ ~Shown(t)' /\ (t \in rows' \/ Lost(t.user)')
    <3>1. Carries(p[1], p[2], t) /\ p # <<kind, NoSlot>>
      BY <2>2
    <3>2. t.n <= issued /\ ~Shown(t) /\ (t \in rows \/ Lost(t.user))
      BY <3>1 DEF TokenInv, FreshInv
    <3>3. t # new
      BY <1>1, <1>2, <3>1 DEF TokenInv, FreshInv
    <3> QED
      BY <3>2, <3>3 DEF Lost
  <2>3. ASSUME NEW p \in Carriers, NEW q \in Carriers, NEW t \in Token,
               Carries(p[1], p[2], t)', Carries(q[1], q[2], t)'
        PROVE  p = q
    <3>1. Carries(p[1], p[2], t) /\ Carries(q[1], q[2], t)
      BY <2>3
    <3> QED
      BY <3>1 DEF TokenInv, FreshInv
  <2> QED
    BY <2>1, <2>2, <2>3 DEF FreshInv
<1>5. WorkInv'
  <2>1. ASSUME NEW c \in Slots, Working(c), calls[c].kind = "refresh"
        PROVE  /\ calls[c].tok \in TokensOf(calls[c].user)
               /\ \/ flight'.pc = "asked" /\ flight'.call = c
                  \/ calls[c].user \in troubled'
                  \/ users'[calls[c].user].tok # calls[c].tok
    <3>1. /\ calls[c].tok \in TokensOf(calls[c].user)
          /\ \/ flight.pc = "asked" /\ flight.call = c
             \/ calls[c].user \in troubled
             \/ users[calls[c].user].tok # calls[c].tok
      BY <2>1 DEF TokenInv, WorkInv
    <3>2. calls[c].user \in Users
      BY <3>1, Tokens
    <3>3. CASE calls[c].user = u
      <4>1. calls[c].tok # new
        BY <1>3, <2>1 DEF Shown
      <4> QED
        BY <3>1, <3>3, <4>1
    <3>4. CASE calls[c].user # u
      BY <3>1, <3>2, <3>4
    <3> QED
      BY <3>3, <3>4
  <2> QED
    BY <2>1 DEF TokenInv, WorkInv, Working
<1>6. KeptInv'
  BY <1>3 DEF TokenInv, KeptInv, Lost
<1> QED
  BY <1>4, <1>5, <1>6 DEF TokenInv

LEMMA SavingSteps ==
    ASSUME OwnInv, TokenInv, RefreshSaved \/ LoginSaved
    PROVE  TokenInv'
<1> USE DEF OwnInv
<1> DEFINE Same == UNCHANGED <<account, rows, issued, calls, active, listed, told, sync>>
<1>1. CASE RefreshSaved
  <2>1. /\ Same /\ UNCHANGED login /\ flight.pc = "save" /\ flight' = [flight EXCEPT !.pc = "publish"]
        /\ users' = [users EXCEPT ![flight.user].tok = flight.tok]
        /\ troubled' = troubled \ {flight.user}
    BY <1>1 DEF RefreshSaved, SaveUser, server
  <2>2. flight \in Flights /\ flight.user \in Users /\ flight.tok \in TokensOf(flight.user)
    BY <2>1, Records, Tokens DEF FlightOK, Flights
  <2>3. flight'.pc = "publish" /\ flight'.tok = flight.tok /\ flight'.user = flight.user
    BY <2>1, <2>2 DEF Flights
  <2>4. users'[flight.user].tok = flight.tok /\ \A v \in Users : v # flight.user => users'[v] = users[v]
    BY <2>1, <2>2 DEF UsersOK
  <2>5. ASSUME NEW t \in Token, Shown(t)' PROVE Shown(t) \/ t = flight.tok
    BY <2>1, <2>3, <2>4, <2>5 DEF Shown, Working
  <2>6. ASSUME NEW p \in Carriers, NEW t \in Token, Carries(p[1], p[2], t)'
        PROVE  Carries(p[1], p[2], t) /\ p # <<"flight", NoSlot>>
    BY <2>1, <2>3, <2>6 DEF Carries
  <2>7. Carries("flight", NoSlot, flight.tok)
    BY <2>1 DEF Carries
  <2>8. \A v \in Users : v # flight.user /\ Replacing(v) => Replacing(v)'
    BY DEF Replacing
  <2> QED
    BY <2>1, <2>2, <2>4, <2>5, <2>6, <2>7, <2>8, Saves
<1>2. CASE LoginSaved
  <2>1. /\ Same /\ UNCHANGED flight /\ login.pc = "save" /\ login' = [login EXCEPT !.pc = "list"]
        /\ users' = [users EXCEPT ![login.user] = [in |-> TRUE, tok |-> login.tok]]
        /\ troubled' = troubled \ {login.user}
    BY <1>2 DEF LoginSaved, server
  <2>2. login \in Logins /\ login.user \in Users /\ login.tok \in TokensOf(login.user)
    BY <2>1 DEF LoginOK
  <2>3. login'.pc = "list" /\ login'.tok = login.tok
    BY <2>1, <2>2 DEF Logins
  <2>4. users'[login.user].tok = login.tok /\ \A v \in Users : v # login.user => users'[v] = users[v]
    BY <2>1, <2>2 DEF UsersOK
  <2>5. ASSUME NEW t \in Token, Shown(t)' PROVE Shown(t) \/ t = login.tok
    BY <2>1, <2>3, <2>4, <2>5 DEF Shown, Working
  <2>6. ASSUME NEW p \in Carriers, NEW t \in Token, Carries(p[1], p[2], t)'
        PROVE  Carries(p[1], p[2], t) /\ p # <<"login", NoSlot>>
    BY <2>1, <2>3, <2>6 DEF Carries
  <2>7. Carries("login", NoSlot, login.tok)
    BY <2>1 DEF Carries
  <2>8. \A v \in Users : Replacing(v) => Replacing(v)'
    BY <2>1 DEF Replacing
  <2> QED
    BY <2>1, <2>2, <2>4, <2>5, <2>6, <2>7, <2>8, Saves
<1> QED
  BY <1>1, <1>2

LEMMA ClearingSteps ==
    ASSUME OwnInv, TokenInv, RefreshCleared \/ LeaveWritten
    PROVE  TokenInv'
<1> USE DEF OwnInv
<1> DEFINE Same == UNCHANGED <<account, rows, issued, calls, active, listed, told, sync, login, troubled>>
<1>1. PICK u \in Users :
        /\ Same
        /\ \A v \in Users : v # u => users'[v] = users[v]
        /\ ~users'[u].in /\ users'[u].tok \in {users[u].tok, NoToken}
        /\ \/ flight' = flight
           \/ flight.pc = "clear" /\ flight.user = u /\ flight'.pc = "leave"
  <2>1. CASE RefreshCleared
    <3>1. /\ Same /\ flight.pc = "clear" /\ flight' = [flight EXCEPT !.pc = "leave"]
          /\ users' = [users EXCEPT ![flight.user] = [in |-> FALSE, tok |-> NoToken]]
      BY <2>1 DEF RefreshCleared, server
    <3>2. flight \in Flights /\ flight.user \in Users
      BY <3>1, Records DEF FlightOK, Flights
    <3>3. flight'.pc = "leave"
      BY <3>1, <3>2 DEF Flights
    <3>4. /\ users'[flight.user] = [in |-> FALSE, tok |-> NoToken]
          /\ \A v \in Users : v # flight.user => users'[v] = users[v]
      BY <3>1, <3>2 DEF UsersOK
    <3>5. ~users'[flight.user].in /\ users'[flight.user].tok = NoToken
      BY <3>4
    <3> QED
      BY <3>1, <3>2, <3>3, <3>4, <3>5
  <2>2. CASE LeaveWritten
    <3>1. Same /\ UNCHANGED flight /\ leaving.pc \in {"signout", "delete"}
      BY <2>2 DEF LeaveWritten, server
    <3>2. leaving.user \in Users
      BY <3>1, Records DEF LeavingOK, Tasks
    <3>3. /\ \A v \in Users : v # leaving.user => users'[v] = users[v]
          /\ ~users'[leaving.user].in
          /\ users'[leaving.user].tok \in {users[leaving.user].tok, NoToken}
      <4>1. CASE DeleteUser(leaving.user)
        <5>1. users'[leaving.user] = [in |-> FALSE, tok |-> NoToken]
          BY <3>2, <4>1 DEF DeleteUser, UsersOK
        <5>2. \A v \in Users : v # leaving.user => users'[v] = users[v]
          BY <3>2, <4>1 DEF DeleteUser, UsersOK
        <5> QED
          BY <5>1, <5>2
      <4>2. CASE SetLoginStatus(leaving.user, FALSE)
        <5>1. users[leaving.user] \in [in : BOOLEAN, tok : Token \cup {NoToken}]
          BY <3>2 DEF UsersOK
        <5>2. users'[leaving.user] = [users[leaving.user] EXCEPT !.in = FALSE]
          BY <3>2, <4>2 DEF SetLoginStatus, UsersOK
        <5>3. \A v \in Users : v # leaving.user => users'[v] = users[v]
          BY <3>2, <4>2 DEF SetLoginStatus, UsersOK
        <5> QED
          BY <5>1, <5>2, <5>3
      <4> QED
        BY <2>2, <4>1, <4>2 DEF LeaveWritten
    <3> QED
      BY <3>1, <3>2, <3>3
  <2> QED
    BY <2>1, <2>2
<1>2. ASSUME NEW t \in Token, Shown(t)' PROVE Shown(t)
  BY <1>1, <1>2, Tokens DEF Shown, Working
<1>3. FreshInv'
  BY <1>1, <1>2, FreshFrame DEF TokenInv, Lost
<1>4. WorkInv'
  <2>1. \A c \in Slots : calls[c].pc \in {"find", "revoke"} => calls[c].kind = "refresh"
    BY DEF TokenInv, WorkInv
  <2> QED
    BY <1>1, <2>1, WorkFrame DEF TokenInv, Working
<1>5. KeptInv'
  BY <1>1 DEF TokenInv, KeptInv, Lost, Replacing
<1> QED
  BY <1>3, <1>4, <1>5 DEF TokenInv

(* The refresh loses its answer: its user is troubled.                     *)
LEMMA LosingSteps ==
    ASSUME OwnInv, TokenInv, RefreshLost \/ Restart
    PROVE  TokenInv'
<1> USE DEF OwnInv
<1>1. /\ UNCHANGED <<account, rows, issued, calls, users, active>>
      /\ flight' = NoFlight /\ login' \in {login, IdleLogin}
      /\ troubled' = troubled \cup Unsettled
      /\ listed' = listed \/ listed' = Snapshot
      /\ told' = told \/ told' = NoTask
  BY DEF RefreshLost, Restart, Settles, server
<1>2. sync'.pc # "idle" => sync.pc # "idle" /\ sync'.first \in {sync.first, NoToken}
  <2>1. CASE RefreshLost
    BY <2>1, SettlesShows DEF RefreshLost
  <2>2. CASE Restart
    BY <2>2, Records DEF Restart
  <2> QED
    BY <2>1, <2>2
<1>3. flight'.pc = "none" /\ (login'.pc # "idle" => login' = login)
  BY <1>1, Records
<1>4. ASSUME NEW t \in Token, Shown(t)' PROVE Shown(t)
  <2>1. (\E u \in Users : listed'[u] = t) => \E u \in Users : users[u].tok = t \/ listed[u] = t
    BY <1>1, SnapshotShows
  <2> QED
    BY <1>1, <1>2, <1>3, <1>4, <2>1, Tokens DEF Shown, Working
<1>5. FreshInv'
  BY <1>1, <1>3, <1>4, FreshFrame DEF TokenInv, Lost
<1>6. ASSUME NEW u \in Users, Replacing(u) PROVE u \in troubled'
  BY <1>1, <1>6 DEF Replacing, Unsettled
<1>7. WorkInv'
  <2>1. \A c \in Slots : calls[c].pc \in {"find", "revoke"} => calls[c].kind = "refresh"
    BY DEF TokenInv, WorkInv
  <2>2. ASSUME flight.pc = "asked"
        PROVE  Replacing(flight.user) /\ flight.user \in Users /\ calls[flight.call].user = flight.user
    BY <2>2, Records DEF FlightOK, Flights, Asked, Replacing
  <2>3. \A c \in Slots : flight.pc = "asked" /\ flight.call = c => calls[c].user \in troubled'
    BY <1>6, <2>2
  <2> QED
    BY <1>1, <2>1, <2>3, WorkFrame DEF TokenInv, Working
<1>8. KeptInv'
  BY <1>1, <1>6, KeptFrame DEF TokenInv, Lost
<1> QED
  BY <1>5, <1>7, <1>8 DEF TokenInv

-----------------------------------------------------------------------------
(* The handlers of the server and the administrator.                       *)

LEMMA MovesKeeps ==
    ASSUME OwnInv, TokenInv, NEW c \in Slots, Working(c) \/ calls[c].pc = "create",
           NEW pc \in {"find", "user", "revoke", "create", "refused"}, Moves(c, pc),
           pc = "find" \/ pc = "user" => Working(c),
           pc = "revoke" => Working(c) /\ calls[c].kind = "refresh",
           pc # "find",
           UNCHANGED <<account, issued, users, troubled, active, listed, told, sync, login, flight>>,
           \A t \in Token : t \in rows => t \in rows' \/ Shown(t),
           \A u \in Users : users[u].tok \in rows =>
              users[u].tok \in rows' \/ Replacing(u) \/ u \in troubled
    PROVE  TokenInv'
<1> USE DEF OwnInv
<1>1. calls[c] \in Request
  BY Records DEF CallsOK, Working
<1>2. /\ calls'[c] = [calls[c] EXCEPT !.pc = pc] /\ \A d \in Slots : d # c => calls'[d] = calls[d]
  BY DEF Moves, CallsOK
<1>3. /\ calls'[c].pc = pc /\ calls'[c].user = calls[c].user /\ calls'[c].kind = calls[c].kind
      /\ calls'[c].tok = calls[c].tok
  BY <1>1, <1>2 DEF Request
<1>4. \A d \in Slots : Working(d)' =>
         Working(d) /\ calls'[d].tok = calls[d].tok /\ calls'[d].user = calls[d].user
         /\ calls'[d].kind = calls[d].kind
  BY <1>2, <1>3 DEF Working
<1>5. ASSUME NEW t \in Token, Shown(t)' PROVE Shown(t)
  BY <1>4, <1>5 DEF Shown
<1>6. FreshInv'
  <2>1. \A d \in Slots : calls'[d].pc = "ok" => calls[d].pc = "ok" /\ calls'[d].tok = calls[d].tok
    BY <1>2, <1>3
  <2> QED
    BY <1>5, <2>1, FreshFrame DEF TokenInv, Lost
<1>7. WorkInv'
  <2>1. \A d \in Slots : calls'[d].pc \in {"find", "revoke"} => calls[d].kind = "refresh"
    BY <1>2, <1>3 DEF TokenInv, WorkInv
  <2> QED
    BY <1>4, <2>1, WorkFrame DEF TokenInv
<1>8. KeptInv'
  BY KeptFrame DEF TokenInv, Lost, Replacing
<1> QED
  BY <1>6, <1>7, <1>8 DEF TokenInv

LEMMA HandlerSteps ==
    ASSUME OwnInv, TokenInv, NEW c \in Slots, Handler(c) \/ HandlerFails(c)
    PROVE  TokenInv'
<1> USE DEF OwnInv
<1> DEFINE Same == UNCHANGED <<account, users, troubled, active, listed, told, sync, login, flight>>
<1>1. CASE FindValid(c)
  <2>1. Same /\ UNCHANGED <<rows, issued>> /\ calls[c].pc = "find"
    BY <1>1 DEF FindValid, device
  <2>2. Moves(c, "user") \/ Moves(c, "refused")
    BY <1>1 DEF FindValid
  <2> QED
    BY <2>1, <2>2, MovesKeeps DEF Working
<1>2. CASE GetUser(c)
  <2>1. Same /\ UNCHANGED <<rows, issued>> /\ calls[c].pc = "user"
    BY <1>2 DEF GetUser, device
  <2>2. \/ Moves(c, "refused") \/ Moves(c, "create")
        \/ calls[c].kind = "refresh" /\ Moves(c, "revoke")
    <3>1. CASE account[calls[c].user] # "enabled"
      BY <1>2, <3>1 DEF GetUser
    <3>2. CASE account[calls[c].user] = "enabled" /\ calls[c].kind = "refresh"
      BY <1>2, <3>2 DEF GetUser
    <3>3. CASE account[calls[c].user] = "enabled" /\ calls[c].kind # "refresh"
      BY <1>2, <3>3 DEF GetUser
    <3> QED
      BY <3>1, <3>2, <3>3
  <2> QED
    BY <2>1, <2>2, MovesKeeps DEF Working
<1>3. CASE Revoke(c)
  <2>1. Same /\ UNCHANGED issued /\ calls[c].pc = "revoke" /\ Moves(c, "create")
        /\ rows' = rows \ {calls[c].tok}
    BY <1>3 DEF Revoke, device
  <2>2. Working(c) /\ calls[c].kind = "refresh"
    BY <2>1 DEF Working, TokenInv, WorkInv
  <2>3. /\ calls[c].tok \in TokensOf(calls[c].user)
        /\ \/ flight.pc = "asked" /\ flight.call = c
           \/ calls[c].user \in troubled
           \/ users[calls[c].user].tok # calls[c].tok
    BY <2>2 DEF TokenInv, WorkInv
  <2>4. \A t \in Token : t \in rows => t \in rows' \/ Shown(t)
    BY <2>1, <2>2 DEF Shown
  <2>5. ASSUME NEW u \in Users, users[u].tok = calls[c].tok
        PROVE  Replacing(u) \/ u \in troubled
    <3>1. u = calls[c].user
      BY <2>3, <2>5, Tokens DEF UsersOK
    <3>2. flight.pc = "asked" /\ flight.call = c => flight.user = calls[c].user
      BY Records DEF FlightOK, Asked
    <3> QED
      BY <2>3, <2>5, <3>1, <3>2 DEF Replacing
  <2>6. \A u \in Users : users[u].tok \in rows =>
           users[u].tok \in rows' \/ Replacing(u) \/ u \in troubled
    BY <2>1, <2>5
  <2> QED
    BY <2>1, <2>2, <2>4, <2>6, MovesKeeps
<1>4. CASE Create(c)
  <2>1. Same /\ calls[c].pc = "create"
    BY <1>4 DEF Create, device
  <2>2. CASE Moves(c, "refused") /\ UNCHANGED <<rows, issued>>
    BY <2>1, <2>2, MovesKeeps
  <2>3. CASE ~(Moves(c, "refused") /\ UNCHANGED <<rows, issued>>)
    <3> DEFINE t == [user |-> calls[c].user, n |-> issued + 1]
    <3>1. /\ rows' = rows \cup {t} /\ issued' = issued + 1 /\ issued < MaxTokens
          /\ calls' = [calls EXCEPT ![c].pc = "ok", ![c].tok = t]
      BY <1>4, <2>3 DEF Create
    <3>2. calls[c] \in Request /\ issued \in 0 .. MaxTokens /\ MaxTokens \in Nat
      BY <2>1, Records, BoundsAssumption DEF CallsOK, ServerOK
    <3>3. t \in Token /\ t.n = issued + 1
      BY <3>1, <3>2 DEF Token, Request
    <3> HIDE DEF t
    <3>4. calls'[c] = [calls[c] EXCEPT !.pc = "ok", !.tok = t]
          /\ \A d \in Slots : d # c => calls'[d] = calls[d]
      BY <3>1 DEF CallsOK
    <3>5. calls'[c].pc = "ok" /\ calls'[c].tok = t
      BY <3>2, <3>4 DEF Request
    <3>6. \A d \in Slots : Working(d)' => Working(d) /\ calls'[d] = calls[d]
      BY <3>4, <3>5 DEF Working
    <3>7. ASSUME NEW x \in Token, Shown(x)' PROVE Shown(x)
      BY <2>1, <3>6, <3>7 DEF Shown
    <3>8. \A x \in Token : x.n \in Nat
      BY DEF Token
    <3>9. ASSUME NEW p \in Carriers, NEW x \in Token, Carries(p[1], p[2], x)'
          PROVE  \/ Carries(p[1], p[2], x) /\ x # t
                 \/ p = <<"call", c>> /\ x = t
      <4>1. p = <<p[1], p[2]>>
        BY DEF Carriers
      <4>2. CASE p = <<"call", c>>
        BY <3>5, <3>9, <4>2 DEF Carries
      <4>3. CASE p # <<"call", c>>
        <5>1. Carries(p[1], p[2], x)
          BY <2>1, <3>4, <3>9, <4>1, <4>3 DEF Carries
        <5>2. x.n <= issued
          BY <5>1 DEF TokenInv, FreshInv
        <5>3. x # t
          BY <3>2, <3>3, <5>2
        <5> QED
          BY <5>1, <5>3
      <4> QED
        BY <4>2, <4>3
    <3>10. FreshInv'
      <4>1. ASSUME NEW x \in Token, Shown(x)' PROVE x.n <= issued'
        <5>1. x.n <= issued
          BY <3>7, <4>1 DEF TokenInv, FreshInv
        <5> QED
          BY <3>1, <3>2, <3>8, <5>1
      <4>2. ASSUME NEW p \in Carriers, NEW x \in Token, Carries(p[1], p[2], x)'
            PROVE  x.n <= issued' /\ ~Shown(x)' /\ (x \in rows' \/ Lost(x.user)')
        <5>1. CASE x = t
          <6>1. Shown(x) => x.n <= issued
            BY DEF TokenInv, FreshInv
          <6>2. x.n = issued + 1
            BY <3>3, <5>1
          <6>3. ~Shown(x)'
            BY <3>2, <3>7, <6>1, <6>2
          <6> QED
            BY <3>1, <3>2, <5>1, <6>2, <6>3
        <5>2. CASE x # t
          <6>1. x.n <= issued /\ ~Shown(x) /\ (x \in rows \/ Lost(x.user))
            BY <3>9, <4>2, <5>2 DEF TokenInv, FreshInv
          <6> QED
            BY <2>1, <3>1, <3>2, <3>7, <3>8, <6>1 DEF Lost
        <5> QED
          BY <5>1, <5>2
      <4>3. ASSUME NEW p \in Carriers, NEW q \in Carriers, NEW x \in Token,
                   Carries(p[1], p[2], x)', Carries(q[1], q[2], x)'
            PROVE  p = q
        <5>1. CASE x = t
          BY <3>9, <4>3, <5>1
        <5>2. CASE x # t
          <6>1. Carries(p[1], p[2], x) /\ Carries(q[1], q[2], x)
            BY <3>9, <4>3, <5>2
          <6> QED
            BY <6>1 DEF TokenInv, FreshInv
        <5> QED
          BY <5>1, <5>2
      <4> QED
        BY <4>1, <4>2, <4>3 DEF FreshInv
    <3>11. WorkInv'
      <4>1. \A d \in Slots : calls'[d].pc \in {"find", "revoke"} => calls'[d].kind = "refresh"
        BY <3>4, <3>5 DEF TokenInv, WorkInv
      <4> QED
        BY <2>1, <3>6, <4>1, WorkFrame DEF TokenInv
    <3>12. KeptInv'
      BY <2>1, <3>1, KeptFrame DEF TokenInv, Lost, Replacing
    <3> QED
      BY <3>10, <3>11, <3>12 DEF TokenInv
  <2> QED
    BY <2>2, <2>3
<1>5. CASE HandlerFails(c)
  <2>1. Same /\ UNCHANGED <<rows, issued>> /\ calls[c].pc \in {"find", "user", "revoke", "create"}
        /\ Moves(c, "refused")
    BY <1>5 DEF HandlerFails, device
  <2> QED
    BY <2>1, MovesKeeps DEF Working
<1>6. CASE Forgotten(c)
  <2>1. Same /\ UNCHANGED <<rows, issued>> /\ ~Waiting(c) /\ calls' = [calls EXCEPT ![c] = NoCall]
    BY <1>6 DEF Forgotten, device
  <2>2. calls'[c].pc = "free" /\ \A d \in Slots : d # c => calls'[d] = calls[d]
    BY <2>1, Records DEF CallsOK
  <2>3. ASSUME NEW t \in Token, Shown(t)' PROVE Shown(t)
    BY <2>1, <2>2, <2>3 DEF Shown, Working
  <2>4. FreshInv'
    <3>1. \A d \in Slots : calls'[d].pc = "ok" => calls[d].pc = "ok" /\ calls'[d].tok = calls[d].tok
      BY <2>2
    <3> QED
      BY <2>1, <2>3, <3>1, FreshFrame DEF TokenInv, Lost
  <2>5. WorkInv'
    <3>1. \A d \in Slots : Working(d)' => Working(d) /\ calls'[d] = calls[d]
      BY <2>2 DEF Working
    <3>2. \A d \in Slots : calls[d].pc \in {"find", "revoke"} => calls[d].kind = "refresh"
      BY DEF TokenInv, WorkInv
    <3> QED
      BY <2>1, <3>1, <3>2, WorkFrame DEF TokenInv
  <2>6. KeptInv'
    BY <2>1, KeptFrame DEF TokenInv, Lost, Replacing
  <2> QED
    BY <2>4, <2>5, <2>6 DEF TokenInv
<1> QED
  BY <1>1, <1>2, <1>3, <1>4, <1>5, <1>6 DEF Handler

LEMMA SetAccountKeeps ==
    ASSUME OwnInv, TokenInv, NEW u \in Users, NEW status \in {"enabled", "disabled", "deleted", "gone"},
           \/ SetAccount(u, status) \/ UNCHANGED <<account, calls>>,
           account[u] \in {"deleted", "gone"} => status \in {"deleted", "gone"},
           UNCHANGED <<issued, users, troubled, active, listed, told, sync, login, flight>>,
           \A t \in Token : t \in rows => t \in rows' \/ Lost(t.user)'
    PROVE  TokenInv'
<1> USE DEF OwnInv
<1>1. \A v \in Users : Lost(v) => Lost(v)'
  BY DEF SetAccount, Lost, ServerOK
<1>2. ASSUME NEW c \in Slots
      PROVE  /\ calls'[c].pc = calls[c].pc
             /\ calls[c] \in Request => /\ calls'[c].user = calls[c].user /\ calls'[c].tok = calls[c].tok
                                        /\ calls'[c].kind = calls[c].kind
             /\ calls[c] \notin Request => calls'[c] = calls[c]
  <2>1. CASE calls[c] \in Request
    <3>1. calls'[c] = calls[c] \/ calls'[c] = [calls[c] EXCEPT !.entitled = TRUE]
      BY DEF SetAccount
    <3> QED
      BY <2>1, <3>1 DEF Request
  <2>2. CASE calls[c] \notin Request
    <3>1. calls[c] = NoCall
      BY <2>2 DEF CallsOK
    <3> QED
      BY <2>2, <3>1, Records DEF SetAccount
  <2> QED
    BY <2>1, <2>2
<1>3. ASSUME NEW c \in Slots, calls[c].pc # "free"
      PROVE  /\ calls'[c].pc = calls[c].pc /\ calls'[c].user = calls[c].user
             /\ calls'[c].tok = calls[c].tok /\ calls'[c].kind = calls[c].kind
  BY <1>2, <1>3
<1>4. \A c \in Slots : Working(c)' =>
         Working(c) /\ calls'[c].tok = calls[c].tok /\ calls'[c].user = calls[c].user
         /\ calls'[c].kind = calls[c].kind
  BY <1>2, <1>3 DEF Working
<1>5. ASSUME NEW t \in Token, Shown(t)' PROVE Shown(t)
  BY <1>4, <1>5 DEF Shown
<1>6. FreshInv'
  <2>1. \A c \in Slots : calls'[c].pc = "ok" => calls[c].pc = "ok" /\ calls'[c].tok = calls[c].tok
    BY <1>2, <1>3
  <2> QED
    BY <1>1, <1>5, <2>1, FreshFrame DEF TokenInv
<1>7. WorkInv'
  <2>1. \A c \in Slots : calls'[c].pc \in {"find", "revoke"} => calls[c].kind = "refresh"
    BY <1>2 DEF TokenInv, WorkInv
  <2> QED
    BY <1>4, <2>1, WorkFrame DEF TokenInv
<1>8. KeptInv'
  <2>1. ASSUME NEW v \in Users, users[v].tok \in rows
        PROVE  users[v].tok \in rows' \/ Lost(v)'
    <3>1. users[v].tok \in Token /\ users[v].tok.user = v
      BY <2>1, Tokens DEF ServerOK, UsersOK
    <3> QED
      BY <2>1, <3>1
  <2> QED
    BY <1>1, <2>1, KeptFrame DEF TokenInv, Replacing
<1> QED
  BY <1>6, <1>7, <1>8 DEF TokenInv

LEMMA AccountSteps ==
    ASSUME OwnInv, TokenInv, NEW u \in Users, SetUserDisabled(u) \/ SoftDelete(u) \/ CleanupUserData(u)
    PROVE  TokenInv'
<1> DEFINE Same == UNCHANGED <<issued, users, troubled, active, listed, told, sync, login, flight>>
<1>1. CASE SetUserDisabled(u) \/ SoftDelete(u)
  <2>1. Same /\ UNCHANGED rows /\ account[u] \in {"enabled", "disabled"}
    BY <1>1 DEF SetUserDisabled, SoftDelete, device
  <2>2. \E status \in {"enabled", "disabled", "deleted", "gone"} : SetAccount(u, status)
    BY <1>1 DEF SetUserDisabled, SoftDelete
  <2> QED
    BY <2>1, <2>2, SetAccountKeeps
<1>2. CASE CleanupUserData(u)
  <2>1. Same /\ account[u] = "deleted" /\ rows' = {t \in rows : t.user # u}
        /\ (SetAccount(u, "gone") \/ UNCHANGED <<account, calls>>)
    BY <1>2 DEF CleanupUserData, device
  <2>2. Lost(u)'
    BY <2>1 DEF SetAccount, Lost, OwnInv, ServerOK
  <2>3. \A t \in Token : t \in rows => t \in rows' \/ Lost(t.user)'
    BY <2>1, <2>2
  <2> QED
    BY <2>1, <2>3, SetAccountKeeps
<1> QED
  BY <1>1, <1>2

-----------------------------------------------------------------------------

LEMMA TokenInit == Init => TokenInv
<1> SUFFICES ASSUME Init PROVE TokenInv
  OBVIOUS
<1> DEFINE tokens(u) == {[user |-> x, n |-> 1] : x \in {u} \cap Users}
<1> DEFINE tok(u, x) == IF x = u THEN [user |-> u, n |-> 1] ELSE NoToken
<1>1. PICK u \in Begun :
        /\ rows = tokens(u) /\ issued = Cardinality(tokens(u))
        /\ calls = [c \in Slots |-> NoCall]
        /\ users = [x \in Users |-> [in |-> x = u, tok |-> tok(u, x)]]
        /\ active = IF u = Anon THEN Anonymous ELSE Session(u, tok(u, u))
        /\ listed = [x \in Users |-> IF x = u THEN tok(u, u) ELSE Unlisted]
        /\ flight = NoFlight /\ sync = IdleSync /\ login = IdleLogin
        /\ leaving = NoTask /\ told = NoTask
  BY DEF Init
<1>2. /\ \A c \in Slots : calls[c].pc = "free"
      /\ flight.pc = "none" /\ login.pc = "idle" /\ sync.pc = "idle" /\ told = NoTask
  BY <1>1, Records
<1>3. u \in Users => tokens(u) = {[user |-> u, n |-> 1]}
  OBVIOUS
<1>4. FreshInv
  <2>1. ASSUME NEW t \in Token, Shown(t) PROVE t.n <= issued
    <3>1. active.tok = t \/ \E x \in Users : users[x].tok = t \/ listed[x] = t
      BY <1>2, <2>1 DEF Shown, Working
    <3>2. u \in Users /\ t = [user |-> u, n |-> 1]
      <4>1. CASE active.tok = t
        BY <1>1, <4>1, Records, Tokens, UsersAssumption DEF Session
      <4>2. ASSUME NEW x \in Users, users[x].tok = t \/ listed[x] = t
            PROVE  u \in Users /\ t = [user |-> u, n |-> 1]
        BY <1>1, <4>2, Tokens
      <4> QED
        BY <3>1, <4>1, <4>2
    <3>3. Cardinality({[user |-> u, n |-> 1]}) = 1
      BY FS_Singleton
    <3>4. issued = 1
      BY <1>1, <1>3, <3>2, <3>3, Zenon
    <3> QED
      BY <3>2, <3>4
  <2> QED
    BY <1>2, <2>1 DEF FreshInv, Carries
<1>5. WorkInv
  BY <1>2 DEF WorkInv, Working
<1>6. KeptInv
  <2>1. ASSUME NEW x \in Users, users[x].tok # NoToken PROVE users[x].tok \in rows
    BY <1>1, <2>1
  <2> QED
    BY <2>1 DEF KeptInv
<1> QED
  BY <1>4, <1>5, <1>6 DEF TokenInv

LEMMA TokenNext == OwnInv /\ TokenInv /\ [Next]_vars => TokenInv'
<1> SUFFICES ASSUME OwnInv, TokenInv, [Next]_vars PROVE TokenInv'
  OBVIOUS
<1>1. ASSUME NEW c \in Slots, Handler(c) \/ HandlerFails(c) PROVE TokenInv'
  BY <1>1, HandlerSteps
<1>2. CASE Flight \/ RefreshLost
  BY <1>2, QuietSteps, AnsweredSteps, SavingSteps, ClearingSteps, LosingSteps DEF Flight
<1>3. CASE Form \/ LoginLost \/ WrongPassword \/ \E u \in Users : LoginAsked(u)
  BY <1>3, QuietSteps, AnsweredSteps, AskingSteps, SavingSteps DEF Form
<1>4. CASE \/ Leaving \/ Rename \/ Restart \/ SyncFails
           \/ \E u \in Users : SwitchActiveUser(u) \/ LogoutAsked(u)
           \/ \E w \in watch : Validate(w)
  BY <1>4, QuietSteps, ClearingSteps, LosingSteps DEF Leaving
<1>5. CASE Run \/ SyncAsked
  BY <1>5, QuietSteps, AskingSteps DEF Run
<1>6. CASE Administration \/ AccessExpires
  BY <1>6, QuietSteps, AccountSteps DEF Administration
<1>7. CASE UNCHANGED vars
  BY <1>7, QuietSteps
<1> QED
  BY <1>1, <1>2, <1>3, <1>4, <1>5, <1>6, <1>7 DEF Next, Choices, Faults

(* Whatever expires, fails or is shut, and however logins, refreshes, runs *)
(* and sign-outs interleave: the token the table keeps for a signed-in     *)
(* user is in refresh_tokens, or the refresh that replaces it is under way *)
(* (performTokenRefresh, refresh_user_tokens), unless an answer with new   *)
(* tokens was lost or the account deleted.                                 *)
THEOREM TheServerHoldsTheToken == Spec => []ServerHoldsTheToken
<1>1. Spec => []OwnInv
  BY OwnInit, OwnNext, PTL DEF Spec
<1>2. Spec => []TokenInv
  BY <1>1, TokenInit, TokenNext, PTL DEF Spec
<1>3. OwnInv /\ TokenInv => ServerHoldsTheToken
  BY TokensHeld DEF TokenInv
<1> QED
  BY <1>1, <1>2, <1>3, PTL
=============================================================================

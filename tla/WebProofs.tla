------------------------------ MODULE WebProofs ------------------------------
(***************************************************************************)
(* What MCWebPage checks of the web page, for any number of tabs,          *)
(* accounts, sites, requests and tokens: the session, the preferences, the *)
(* layers, the traces, and what the acts of its user mean.                 *)
(*                                                                         *)
(* First the session.  Its inductive invariant says, in this order: whom   *)
(* every token of the browser belongs to; that an answer under way carries *)
(* a token nobody has seen; what the answers that nobody will hear have    *)
(* cost; which calls and requests a page can have; and what a tab that is  *)
(* alone shows.                                                            *)
(***************************************************************************)
EXTENDS MCWebPage, Sequences, FiniteSetTheorems, WellFoundedInduction, TLAPS

(***************************************************************************)
(* The invariant                                                           *)
(***************************************************************************)

Real(k) == k # NoToken => k \in Issued

ServerOK ==
    /\ owner \in [Tokens -> Users \cup {NoUser}]
    /\ rows \subseteq Issued /\ expired \subseteq Issued
    /\ shut \subseteq Users

StoredOK ==
    /\ stored \in Pair
    /\ stored.access = stored.refresh /\ Real(stored.access)
CacheOK ==
    /\ cache \in [Tabs -> Pair]
    /\ \A t \in Tabs : Real(cache[t].access) /\ Real(cache[t].refresh)
AccountsOK ==
    /\ accounts \in [Users -> Token]
    /\ \A u \in Users : accounts[u] # NoToken => accounts[u] \in Issued /\ owner[accounts[u]] = u
BrowserOK == StoredOK /\ CacheOK /\ AccountsOK

PageOK ==
    /\ page \in [Tabs -> Page]
    /\ shown \in [Tabs -> Users \cup {NoUser}]
    /\ listed \in [Tabs -> [Users -> Token]]
    /\ \A t \in Tabs, u \in Users : Real(listed[t][u])

RequestsOK ==
    /\ req \in [Tabs -> [Requests -> Request]]
    /\ \A t \in Tabs, q \in Requests : Real(req[t][q].token)

RestOK ==
    /\ due \in [Tabs -> SUBSET Timer]
    /\ crossed \subseteq Tabs
    /\ troubled \subseteq Users
    /\ events \in 0..MaxEvents

(* A call of a tab names a token but for a login, and once it is found     *)
(* valid the account it is for; the answer is a token of that account.     *)
CallOK(c) ==
    /\ c \in Call
    /\ Real(c.old) /\ Real(c.new)
    /\ c.for = "login" => c.old = NoToken
    /\ c.for \in {"boot", "flight", "switch"} => c.old # NoToken
    /\ c.old = NoToken => c.user \in Users
    /\ c.at \in {"found", "answered"} =>
           c.user \in Users /\ (c.old # NoToken => owner[c.old] = c.user)
    /\ c.at = "answered" => c.new # NoToken /\ owner[c.new] = c.user

CallsOK == \A c \in calls : CallOK(c)

Own == ServerOK /\ BrowserOK /\ PageOK /\ RequestsOK /\ RestOK /\ CallsOK

-----------------------------------------------------------------------------
(* Tokens and calls                                                        *)

LEMMA NullIsNoToken == NoToken \notin Tokens /\ NoUser \notin Users /\ Issued \subseteq Tokens
  BY WebSessionAssumption DEF Tokens, Issued

(* A step of a call, as an operator that hides the record.                 *)
Silent(c)      == [c EXCEPT !.for = "none"]
Turned(c, a)   == [c EXCEPT !.at = a]
Found(c, u)    == [c EXCEPT !.at = "found", !.user = u]
Answered(c, k) == [c EXCEPT !.at = "answered", !.new = k]

LEMMA CallFields ==
  ASSUME NEW c \in Call, NEW u \in Users, NEW k \in Tokens,
         NEW a \in {"asked", "found", "answered", "refused", "failed"}
  PROVE  /\ Silent(c) \in Call /\ Silent(c).tab = c.tab /\ Silent(c).for = "none"
         /\ Silent(c).user = c.user /\ Silent(c).old = c.old /\ Silent(c).at = c.at
         /\ Silent(c).new = c.new
         /\ Turned(c, a) \in Call /\ Turned(c, a).tab = c.tab /\ Turned(c, a).for = c.for
         /\ Turned(c, a).user = c.user /\ Turned(c, a).old = c.old /\ Turned(c, a).at = a
         /\ Turned(c, a).new = c.new
         /\ Found(c, u) \in Call /\ Found(c, u).tab = c.tab /\ Found(c, u).for = c.for
         /\ Found(c, u).user = u /\ Found(c, u).old = c.old /\ Found(c, u).at = "found"
         /\ Found(c, u).new = c.new
         /\ Answered(c, k) \in Call /\ Answered(c, k).tab = c.tab /\ Answered(c, k).for = c.for
         /\ Answered(c, k).user = c.user /\ Answered(c, k).old = c.old
         /\ Answered(c, k).at = "answered" /\ Answered(c, k).new = k
  BY DEF Silent, Turned, Found, Answered, Call, Purpose, Token

LEMMA AskFields ==
  ASSUME NEW t \in Tabs, NEW for \in Purpose, NEW u \in Users \cup {NoUser}, NEW k \in Token
  PROVE  /\ Ask(t, for, u, k) \in Call /\ Ask(t, for, u, k).tab = t
         /\ Ask(t, for, u, k).for = for /\ Ask(t, for, u, k).user = u
         /\ Ask(t, for, u, k).old = k /\ Ask(t, for, u, k).at = "asked"
         /\ Ask(t, for, u, k).new = NoToken
  BY DEF Ask, Call, Token

LEMMA NoPairIsAPair ==
  /\ NoPair \in Pair /\ NoPair.access = NoToken /\ NoPair.refresh = NoToken
  /\ \A k \in Token : Both(k) \in Pair /\ Both(k).access = k /\ Both(k).refresh = k
  BY DEF NoPair, Both, Pair, Token

(* What becomes of a call while it is under way: it fails, it is found     *)
(* valid, or its token is exchanged for the first that was never issued.   *)
Stepped(c, d) ==
    /\ calls' = (calls \ {c}) \cup {d}
    /\ d.tab = c.tab /\ d.for = c.for /\ d.old = c.old

Refusal(c, d) ==
    /\ d.at \in {"refused", "failed"} /\ d.user = c.user /\ d.new = c.new
    /\ owner' = owner /\ rows' = rows
    /\ \/ troubled' = troubled
       \/ /\ c.old # NoToken /\ c.at = "answered"
          /\ troubled' = troubled \cup {owner[c.old]}
    /\ c.at = "answered" /\ c.old # NoToken => owner[c.old] \in troubled'

Finding(c, d) ==
    /\ c.at = "asked" /\ d.at = "found" /\ d.new = c.new
    /\ d.user \in Users /\ (c.old # NoToken => d.user = owner[c.old])
    /\ owner' = owner /\ rows' = rows /\ troubled' = troubled

Renewal(c, d) ==
    /\ c.at = "found" /\ d.at = "answered" /\ d.user = c.user
    /\ d.new \in Tokens \ Issued
    /\ owner' = [owner EXCEPT ![d.new] = c.user]
    /\ rows' = (rows \ {c.old}) \cup {d.new}
    /\ troubled' = troubled

Elsewhere == UNCHANGED <<expired, shut, stored, accounts, cache, page, shown, listed, req, due, crossed>>

LEMMA HandledCalls ==
  ASSUME Own, NEW c \in calls, Handle(c) \/ CallFails(c)
  PROVE  /\ \E d \in Call : Stepped(c, d) /\ (Refusal(c, d) \/ Finding(c, d) \/ Renewal(c, d))
         /\ Elsewhere /\ events' \in 0..MaxEvents
<1> USE DEF Own
<1>1. CallOK(c) /\ c \in Call
  BY DEF CallsOK, CallOK
<1>2. events' \in 0..MaxEvents
  <2>1. Quiet \/ Event
    BY DEF Handle, FindValid, Rotate, CallFails
  <2> QED
    BY <2>1, WebSessionAssumption DEF Quiet, Event, RestOK
<1>3. Elsewhere
  BY DEF Handle, FindValid, Rotate, CallFails, ServerOnly, Server, Browser, Elsewhere
<1>4. \A a \in {"refused", "failed"} :
        /\ Turned(c, a) \in Call /\ Turned(c, a).tab = c.tab /\ Turned(c, a).for = c.for
        /\ Turned(c, a).user = c.user /\ Turned(c, a).old = c.old /\ Turned(c, a).at = a
        /\ Turned(c, a).new = c.new
  BY <1>1 DEF Call, Turned, Purpose, Token
<1>5. CASE FindValid(c)
  <2> DEFINE u == IF c.old = NoToken THEN c.user ELSE owner[c.old]
  <2>1. troubled' = troubled /\ owner' = owner /\ rows' = rows /\ c.at = "asked"
    BY <1>5 DEF FindValid, ServerOnly
  <2>2. u \in Users /\ (c.old # NoToken => u = owner[c.old])
    <3>1. CASE c.old = NoToken
      BY <1>1, <3>1 DEF CallOK
    <3>2. CASE c.old # NoToken
      BY <1>1, <3>2 DEF CallOK, Real, ServerOK, Issued
    <3> QED
      BY <3>1, <3>2
  <2>3. CASE calls' = (calls \ {c}) \cup {[c EXCEPT !.at = "found", !.user = u]}
    <3>1. calls' = (calls \ {c}) \cup {Found(c, u)}
      BY <2>3 DEF Found
    <3>2. /\ Found(c, u) \in Call /\ Found(c, u).tab = c.tab /\ Found(c, u).for = c.for
          /\ Found(c, u).user = u /\ Found(c, u).old = c.old /\ Found(c, u).at = "found"
          /\ Found(c, u).new = c.new
      <4> HIDE DEF u
      <4> QED
        BY <1>1, <2>2 DEF Call, Found, Purpose, Token
    <3>3. Stepped(c, Found(c, u)) /\ Finding(c, Found(c, u))
      <4> HIDE DEF u
      <4> QED
        BY <2>1, <2>2, <3>1, <3>2 DEF Stepped, Finding
    <3> QED
      BY <1>2, <1>3, <3>2, <3>3
  <2>4. CASE calls' = (calls \ {c}) \cup {Turned(c, "refused")}
    <3>1. Stepped(c, Turned(c, "refused")) /\ Refusal(c, Turned(c, "refused"))
      BY <1>4, <2>1, <2>4 DEF Stepped, Refusal
    <3> QED
      BY <1>2, <1>3, <1>4, <3>1
  <2> QED
    BY <1>5, <2>3, <2>4 DEF FindValid, Step, Turned
<1>6. CASE Rotate(c)
  <2>1. troubled' = troubled /\ c.at = "found" /\ c.user \in Users
    BY <1>1, <1>6 DEF Rotate, ServerOnly, CallOK
  <2>2. ASSUME NEW k \in Tokens \ Issued,
               owner' = [owner EXCEPT ![k] = c.user],
               rows' = (rows \ {c.old}) \cup {k},
               calls' = (calls \ {c}) \cup {[c EXCEPT !.at = "answered", !.new = k]}
        PROVE  \E d \in Call : Stepped(c, d) /\ Renewal(c, d)
    <3>1. calls' = (calls \ {c}) \cup {Answered(c, k)}
      BY <2>2 DEF Answered
    <3>2. /\ Answered(c, k) \in Call /\ Answered(c, k).tab = c.tab
          /\ Answered(c, k).for = c.for /\ Answered(c, k).user = c.user
          /\ Answered(c, k).old = c.old /\ Answered(c, k).at = "answered"
          /\ Answered(c, k).new = k
      BY <1>1 DEF Answered, Call, Purpose, Token
    <3> QED
      BY <2>1, <2>2, <3>1, <3>2 DEF Stepped, Renewal
  <2>3. CASE /\ calls' = (calls \ {c}) \cup {Turned(c, "refused")}
             /\ owner' = owner /\ rows' = rows
    <3>1. Stepped(c, Turned(c, "refused")) /\ Refusal(c, Turned(c, "refused"))
      BY <1>4, <2>1, <2>3 DEF Stepped, Refusal
    <3> QED
      BY <1>2, <1>3, <1>4, <3>1
  <2>4. \/ calls' = (calls \ {c}) \cup {Turned(c, "refused")} /\ owner' = owner /\ rows' = rows
        \/ \E k \in Tokens \ Issued :
               /\ owner' = [owner EXCEPT ![k] = c.user]
               /\ rows' = (rows \ {c.old}) \cup {k}
               /\ calls' = (calls \ {c}) \cup {[c EXCEPT !.at = "answered", !.new = k]}
    BY <1>6, Zenon DEF Rotate, Step, Turned
  <2> QED
    BY <1>2, <1>3, <2>2, <2>3, <2>4
<1>7. CASE CallFails(c)
  <2>1. /\ owner' = owner /\ rows' = rows
        /\ troubled' = IF c.at = "answered" /\ c.old # NoToken
                       THEN troubled \cup {owner[c.old]} ELSE troubled
    BY <1>7 DEF CallFails, Server
  <2>2. PICK a \in {"refused", "failed"} : calls' = (calls \ {c}) \cup {Turned(c, a)}
    BY <1>7 DEF CallFails, Step, Turned
  <2>3. Stepped(c, Turned(c, a)) /\ Refusal(c, Turned(c, a))
    BY <1>4, <2>1, <2>2 DEF Stepped, Refusal
  <2> QED
    BY <1>2, <1>3, <1>4, <2>3
<1> QED
  BY <1>5, <1>6, <1>7 DEF Handle

(* A token stays with the account it was issued to.                        *)
Lasting == \A k \in Issued : k \in Issued' /\ owner'[k] = owner[k]

LEMMA RenewalLasts ==
  ASSUME Own, NEW c \in calls, NEW d \in Call, Renewal(c, d)
  PROVE  /\ Lasting /\ owner' \in [Tokens -> Users \cup {NoUser}]
         /\ d.new \in Issued' /\ owner'[d.new] = c.user /\ c.user \in Users
         /\ Issued' = Issued \cup {d.new}
<1>1. c.user \in Users
  BY DEF Own, CallsOK, CallOK, Renewal
<1>2. d.new \in Tokens \ Issued /\ owner' = [owner EXCEPT ![d.new] = c.user]
  BY DEF Renewal
<1>3. owner \in [Tokens -> Users \cup {NoUser}]
  BY DEF Own, ServerOK
<1> QED
  BY <1>1, <1>2, <1>3, NullIsNoToken DEF Lasting, Issued

LEMMA CallStaysOK ==
  ASSUME Lasting, NEW c, CallOK(c)
  PROVE  CallOK(c)'
BY DEF Lasting, CallOK, Real

LEMMA HandledStaysOwn ==
  ASSUME Own, NEW c \in calls, NEW d \in Call, Stepped(c, d),
         Refusal(c, d) \/ Finding(c, d) \/ Renewal(c, d),
         Elsewhere, events' \in 0..MaxEvents
  PROVE  Own'
<1>1. CallOK(c) /\ c \in Call
  BY DEF Own, CallsOK, CallOK
<1>2. /\ Lasting /\ owner' \in [Tokens -> Users \cup {NoUser}]
      /\ rows' \subseteq Issued' /\ troubled' \subseteq Users
  <2>1. CASE Renewal(c, d)
    BY <2>1, RenewalLasts DEF Own, ServerOK, RestOK, Renewal
  <2>2. CASE Refusal(c, d) \/ Finding(c, d)
    <3>1. owner' = owner /\ rows' = rows /\ Issued' = Issued
      BY <2>2 DEF Refusal, Finding, Issued
    <3>2. c.old # NoToken => owner[c.old] \in Users
      BY <1>1, NullIsNoToken DEF CallOK, Real, Issued, Own, ServerOK
    <3> QED
      BY <2>2, <3>1, <3>2 DEF Lasting, Own, ServerOK, RestOK, Refusal, Finding
  <2> QED
    BY <2>1, <2>2
<1>3. ServerOK' /\ RestOK'
  BY <1>2 DEF Own, ServerOK, RestOK, Elsewhere, Lasting
<1>4. BrowserOK'
  BY <1>2 DEF Own, BrowserOK, StoredOK, CacheOK, AccountsOK, Elsewhere, Lasting, Real
<1>5. PageOK' /\ RequestsOK'
  BY <1>2 DEF Own, PageOK, RequestsOK, Elsewhere, Lasting, Real
<1>6. CallOK(d)'
  <2>1. CallOK(c)'
    BY <1>1, <1>2, CallStaysOK
  <2>2. Real(d.old)' /\ d.for = c.for /\ d.old = c.old
    BY <2>1 DEF CallOK, Stepped
  <2>3. CASE Renewal(c, d)
    <3>1. d.new \in Issued' /\ owner'[d.new] = c.user /\ d.user = c.user /\ c.at = "found"
      BY <2>3, RenewalLasts DEF Renewal
    <3>2. d.new # NoToken
      BY <2>3, NullIsNoToken DEF Renewal
    <3> QED
      BY <2>1, <2>2, <3>1, <3>2 DEF CallOK, Real
  <2>4. CASE Refusal(c, d)
    BY <2>1, <2>2, <2>4 DEF CallOK, Refusal
  <2>5. CASE Finding(c, d)
    <3>1. owner' = owner /\ Issued' = Issued
      BY <2>5 DEF Finding, Issued
    <3> QED
      BY <2>1, <2>2, <2>5, <3>1 DEF CallOK, Finding
  <2> QED
    BY <2>3, <2>4, <2>5
<1>7. CallsOK'
  <2>1. \A e \in calls : CallOK(e)'
    BY <1>2, CallStaysOK DEF Own, CallsOK
  <2> QED
    BY <1>6, <2>1 DEF CallsOK, Stepped
<1> QED
  BY <1>3, <1>4, <1>5, <1>7 DEF Own

-----------------------------------------------------------------------------
(* What the operators of tokenStore and of the page do to the invariant    *)

LEMMA TokensInUse ==
  ASSUME Own, NEW t \in Tabs
  PROVE  /\ AccessOf(t) \in Token /\ Real(AccessOf(t))
         /\ RefreshOf(t) \in Token /\ Real(RefreshOf(t))
BY DEF AccessOf, RefreshOf, Own, BrowserOK, StoredOK, CacheOK, Pair

LEMMA SettingIsSound ==
  ASSUME Own, owner' = owner, NEW t \in Tabs, NEW k \in Issued, SetCurrentUserSession(t, k)
  PROVE  BrowserOK'
<1>1. k \in Token /\ k # NoToken /\ owner[k] \in Users /\ Issued' = Issued
  BY NullIsNoToken DEF Issued, Token, Own, ServerOK
<1>2. StoredOK' /\ CacheOK'
  BY <1>1, NoPairIsAPair
     DEF SetCurrentUserSession, Own, BrowserOK, StoredOK, CacheOK, Real
<1>3. AccountsOK'
  BY <1>1 DEF SetCurrentUserSession, Own, BrowserOK, AccountsOK
<1> QED
  BY <1>2, <1>3 DEF BrowserOK

LEMMA ClearingIsSound ==
  ASSUME Own, owner' = owner, NEW t \in Tabs, ClearUserAccessToken(t)
  PROVE  StoredOK' /\ CacheOK'
<1>1. Issued' = Issued
  BY DEF Issued
<1> QED
  BY <1>1, NoPairIsAPair DEF ClearUserAccessToken, Own, BrowserOK, StoredOK, CacheOK, Real

LEMMA RemovingIsSound ==
  ASSUME Own, owner' = owner, NEW us, Remove(us)
  PROVE  /\ AccountsOK'
         /\ \A u \in Users : accounts'[u] # NoToken => accounts'[u] = accounts[u]
<1>1. Issued' = Issued
  BY DEF Issued
<1> QED
  BY <1>1 DEF Remove, Own, BrowserOK, AccountsOK, Token

LEMMA InvalidatingIsSound ==
  ASSUME Own, owner' = owner, NEW t \in Tabs, ClearInvalidUserSession(t)
  PROVE  /\ BrowserOK'
         /\ \A u \in Users : accounts'[u] # NoToken => accounts'[u] = accounts[u]
<1>1. \E us : Remove(us)
  BY DEF ClearInvalidUserSession
<1>2. AccountsOK' /\ \A u \in Users : accounts'[u] # NoToken => accounts'[u] = accounts[u]
  BY <1>1, RemovingIsSound
<1>3. StoredOK' /\ CacheOK'
  BY ClearingIsSound DEF ClearInvalidUserSession
<1> QED
  BY <1>2, <1>3 DEF BrowserOK

LEMMA LeavingIsSound ==
  ASSUME Own, owner' = owner, NEW t \in Tabs, Leave(t)
  PROVE  PageOK'
<1>1. Nobody \in [Users -> Token] /\ \A u \in Users : Nobody[u] = NoToken
  BY DEF Nobody, Token
<1>2. Issued' = Issued
  BY DEF Issued
<1> QED
  BY <1>1, <1>2 DEF Leave, Own, PageOK, Page, Real

LEMMA EnteringIsSound ==
  ASSUME Own, owner' = owner, NEW t \in Tabs, NEW k \in Issued, Enter(t, k)
  PROVE  PageOK'
<1>1. Issued' = Issued /\ k \in Tokens
  BY NullIsNoToken DEF Issued
<1> QED
  BY <1>1 DEF Enter, Own, PageOK, Page, Real, ServerOK

(* A request in another step, as an operator that hides the record.        *)
PutOff(r, a, k) == [r EXCEPT !.at = a, !.token = k]

LEMMA RequestFields ==
  /\ IdleRequest \in Request /\ IdleRequest.at = "idle" /\ IdleRequest.token = NoToken
  /\ \A r \in Request, k \in Token, a \in {"idle", "sent", "waits", "again"} :
        /\ PutOff(r, a, k) \in Request /\ PutOff(r, a, k).at = a
        /\ PutOff(r, a, k).token = k /\ PutOff(r, a, k).user = r.user
        /\ PutOff(r, a, k).for = r.for
BY DEF IdleRequest, PutOff, Request, Token

LEMMA OneRequestChanges ==
  ASSUME Own, owner' = owner, NEW t \in Tabs, NEW q \in Requests, NEW r \in Request,
         Real(r.token), req' = [req EXCEPT ![t][q] = r]
  PROVE  /\ RequestsOK'
         /\ \A s \in Tabs, p \in Requests :
               req'[s][p] = IF s = t /\ p = q THEN r ELSE req[s][p]
<1>1. Issued' = Issued
  BY DEF Issued
<1>2. \A s \in Tabs, p \in Requests :
         req'[s][p] = IF s = t /\ p = q THEN r ELSE req[s][p]
  BY DEF Own, RequestsOK
<1>3. req' \in [Tabs -> [Requests -> Request]]
  BY DEF Own, RequestsOK
<1> QED
  BY <1>1, <1>2, <1>3 DEF Own, RequestsOK, Real

LEMMA RequestsOfATabChange ==
  ASSUME Own, owner' = owner, NEW t \in Tabs, NEW f \in [Requests -> Request],
         \A q \in Requests : Real(f[q].token), req' = [req EXCEPT ![t] = f]
  PROVE  /\ RequestsOK'
         /\ \A s \in Tabs, p \in Requests :
               req'[s][p] = IF s = t THEN f[p] ELSE req[s][p]
<1>1. Issued' = Issued
  BY DEF Issued
<1> QED
  BY <1>1 DEF Own, RequestsOK, Real

(* A page hears of a call, or nobody does.                                 *)
Hearing(c) ==
    /\ calls' = calls \ {c}
    /\ UNCHANGED <<Server, troubled, events>>

LEMMA HearingsAre ==
  ASSUME NEW c \in calls, Hear(c)
  PROVE  Hearing(c)
<1>1. ASSUME NEW for, NEW at, Ends(c, for, at)
      PROVE  Hearing(c)
  BY <1>1 DEF Ends, Quiet, Hearing
<1>2. CASE SessionRestored(c) \/ RestoreFailed(c)
  BY <1>1, <1>2 DEF SessionRestored, RestoreFailed
<1>3. CASE Refreshed(c) \/ RefreshRefused(c) \/ RefreshFailed(c)
  BY <1>1, <1>3 DEF Refreshed, RefreshRefused, RefreshFailed
<1>4. CASE LoggedIn(c) \/ LoginFailed(c)
  BY <1>1, <1>4 DEF LoggedIn, LoginFailed
<1>5. CASE Switched(c) \/ SwitchFailed(c)
  BY <1>1, <1>5 DEF Switched, SwitchFailed
<1>6. CASE Forgotten(c)
  BY <1>6 DEF Forgotten, Quiet, Hearing, Server
<1> QED
  BY <1>2, <1>3, <1>4, <1>5, <1>6 DEF Hear

(* What a page has become of its waiting requests when the refresh is over. *)
Resumed(c) ==
    [q \in Requests |-> IF q \in Waiting(c.tab) THEN PutOff(req[c.tab][q], "again", c.new)
                        ELSE req[c.tab][q]]
GivenUp(t, qs) == [q \in Requests |-> IF q \in qs THEN IdleRequest ELSE req[t][q]]

LEMMA GivingUpIsSound ==
  ASSUME Own, owner' = owner, NEW t \in Tabs, NEW qs, req' = [req EXCEPT ![t] = GivenUp(t, qs)]
  PROVE  /\ RequestsOK'
         /\ \A s \in Tabs, p \in Requests :
               req'[s][p] = IF s = t /\ p \in qs THEN IdleRequest ELSE req[s][p]
<1>1. /\ GivenUp(t, qs) \in [Requests -> Request]
      /\ \A q \in Requests : Real(GivenUp(t, qs)[q].token)
      /\ \A q \in Requests : GivenUp(t, qs)[q] = IF q \in qs THEN IdleRequest ELSE req[t][q]
  BY RequestFields DEF GivenUp, Own, RequestsOK, Real
<1>2. /\ RequestsOK'
      /\ \A s \in Tabs, p \in Requests :
            req'[s][p] = IF s = t THEN GivenUp(t, qs)[p] ELSE req[s][p]
  BY <1>1, RequestsOfATabChange
<1> QED
  BY <1>1, <1>2

LEMMA ResumingIsSound ==
  ASSUME Own, owner' = owner, NEW c \in calls, c.at = "answered",
         req' = [req EXCEPT ![c.tab] = Resumed(c)]
  PROVE  /\ RequestsOK'
         /\ \A s \in Tabs, p \in Requests :
               req'[s][p] = IF s = c.tab /\ p \in Waiting(s)
                            THEN PutOff(req[s][p], "again", c.new) ELSE req[s][p]
<1>0. c.tab \in Tabs /\ c.new \in Token /\ Real(c.new)
  BY DEF Own, CallsOK, CallOK, Call
<1>1. /\ Resumed(c) \in [Requests -> Request]
      /\ \A q \in Requests : Real(Resumed(c)[q].token)
      /\ \A q \in Requests : Resumed(c)[q] = IF q \in Waiting(c.tab)
                                             THEN PutOff(req[c.tab][q], "again", c.new)
                                             ELSE req[c.tab][q]
  <2>1. \A q \in Requests :
           /\ req[c.tab][q] \in Request /\ Real(req[c.tab][q].token)
           /\ PutOff(req[c.tab][q], "again", c.new) \in Request
           /\ PutOff(req[c.tab][q], "again", c.new).token = c.new
    <3> TAKE q \in Requests
    <3>1. req[c.tab][q] \in Request /\ Real(req[c.tab][q].token)
      BY <1>0 DEF Own, RequestsOK
    <3>2. "again" \in {"idle", "sent", "waits", "again"}
      OBVIOUS
    <3> QED
      BY <1>0, <3>1, <3>2, RequestFields
  <2>2. \A q \in Requests : Resumed(c)[q] = IF q \in Waiting(c.tab)
                                          THEN PutOff(req[c.tab][q], "again", c.new)
                                          ELSE req[c.tab][q]
    BY DEF Resumed
  <2>3. Resumed(c) \in [Requests -> Request]
    BY <2>1 DEF Resumed
  <2>4. \A q \in Requests : Real(Resumed(c)[q].token)
    BY <1>0, <2>1, <2>2 DEF Real
  <2> QED
    BY <2>2, <2>3, <2>4
<1>2. /\ RequestsOK'
      /\ \A s \in Tabs, p \in Requests :
            req'[s][p] = IF s = c.tab THEN Resumed(c)[p] ELSE req[s][p]
  BY <1>0, <1>1, RequestsOfATabChange
<1> QED
  BY <1>1, <1>2

LEMMA HeardStaysOwn ==
  ASSUME Own, NEW c \in calls, Hear(c)
  PROVE  Own'
<1>1. /\ CallOK(c) /\ c \in Call /\ c.tab \in Tabs
      /\ c.at = "answered" => c.new \in Issued /\ c.new \in Tokens
  BY NullIsNoToken DEF Own, CallsOK, CallOK, Call, Real
<1>2. /\ calls' = calls \ {c}
      /\ owner' = owner /\ rows' = rows /\ expired' = expired /\ shut' = shut
      /\ troubled' = troubled /\ events' = events /\ Issued' = Issued
  BY HearingsAre DEF Hearing, Server, Issued
<1>3. ServerOK' /\ CallsOK'
  BY <1>2 DEF Own, ServerOK, CallsOK, CallOK, Real
<1>4. SUFFICES BrowserOK' /\ PageOK' /\ RequestsOK' /\ due' \in [Tabs -> SUBSET Timer]
               /\ crossed' \subseteq Tabs
  BY <1>2, <1>3 DEF Own, RestOK
<1>5. /\ UNCHANGED Browser => BrowserOK'
      /\ UNCHANGED <<stored, cache>> => StoredOK' /\ CacheOK'
      /\ UNCHANGED <<page, shown, listed>> => PageOK'
      /\ UNCHANGED req => RequestsOK'
      /\ UNCHANGED due => due' \in [Tabs -> SUBSET Timer]
      /\ UNCHANGED crossed => crossed' \subseteq Tabs
  BY <1>2 DEF Own, BrowserOK, StoredOK, CacheOK, AccountsOK, PageOK, RequestsOK, RestOK, Real, Browser
<1>6. CASE SessionRestored(c)
  <2>1. c.new \in Issued /\ SetCurrentUserSession(c.tab, c.new) /\ Enter(c.tab, c.new)
    BY <1>1, <1>6 DEF SessionRestored, Ends
  <2>2. BrowserOK' /\ PageOK'
    BY <1>1, <1>2, <2>1, SettingIsSound, EnteringIsSound
  <2> QED
    BY <1>5, <1>6, <2>2 DEF SessionRestored
<1>7. CASE RestoreFailed(c)
  <2>1. BrowserOK' /\ PageOK'
    BY <1>1, <1>2, <1>7, InvalidatingIsSound, LeavingIsSound DEF RestoreFailed
  <2> QED
    BY <1>5, <1>7, <2>1 DEF RestoreFailed
<1>8. CASE Refreshed(c)
  <2>1. c.at = "answered" /\ c.new \in Issued /\ SetCurrentUserSession(c.tab, c.new)
    BY <1>1, <1>8 DEF Refreshed, Ends
  <2>2. BrowserOK'
    BY <1>1, <1>2, <2>1, SettingIsSound
  <2>3. req' = [req EXCEPT ![c.tab] = Resumed(c)]
    BY <1>1, <1>8 DEF Refreshed, Resumed, PutOff, Own, RequestsOK
  <2>4. RequestsOK'
    BY <1>2, <2>1, <2>3, ResumingIsSound
  <2> QED
    BY <1>5, <1>8, <2>2, <2>4 DEF Refreshed
<1>9. CASE RefreshRefused(c)
  <2>1. BrowserOK' /\ PageOK'
    BY <1>1, <1>2, <1>9, InvalidatingIsSound, LeavingIsSound DEF RefreshRefused
  <2>2. req' = [req EXCEPT ![c.tab] = GivenUp(c.tab, Waiting(c.tab))]
    BY <1>1, <1>9 DEF RefreshRefused, GivenUp, Own, RequestsOK
  <2>3. RequestsOK'
    BY <1>1, <1>2, <2>2, GivingUpIsSound
  <2> QED
    BY <1>5, <1>9, <2>1, <2>3 DEF RefreshRefused
<1>10. CASE RefreshFailed(c)
  <2>1. req' = [req EXCEPT ![c.tab] = GivenUp(c.tab, Waiting(c.tab))]
    BY <1>1, <1>10 DEF RefreshFailed, GivenUp, Own, RequestsOK
  <2>2. RequestsOK'
    BY <1>1, <1>2, <2>1, GivingUpIsSound
  <2> QED
    BY <1>5, <1>10, <2>2 DEF RefreshFailed
<1>11. CASE LoggedIn(c)
  <2>1. c.new \in Issued /\ SetCurrentUserSession(c.tab, c.new) /\ Enter(c.tab, c.new)
    BY <1>1, <1>11 DEF LoggedIn, Ends
  <2>2. BrowserOK' /\ PageOK'
    BY <1>1, <1>2, <2>1, SettingIsSound, EnteringIsSound
  <2>3. crossed' \subseteq Tabs
    BY <1>1, <1>11 DEF LoggedIn, Crossing, Own, RestOK
  <2> QED
    BY <1>5, <1>11, <2>2, <2>3 DEF LoggedIn
<1>12. CASE LoginFailed(c) \/ Forgotten(c)
  BY <1>5, <1>12 DEF LoginFailed, Forgotten
<1>13. CASE Switched(c)
  <2>1. c.new \in Issued /\ SetCurrentUserSession(c.tab, c.new)
    BY <1>1, <1>13 DEF Switched, Ends
  <2>2. BrowserOK'
    BY <1>1, <1>2, <2>1, SettingIsSound
  <2>3. crossed' \subseteq Tabs /\ due' \in [Tabs -> SUBSET Timer]
    BY <1>1, <1>13 DEF Switched, Own, RestOK, Timer
  <2> QED
    BY <1>5, <1>13, <2>2, <2>3 DEF Switched
<1>14. CASE SwitchFailed(c)
  <2>1. AccountsOK'
    BY <1>2, <1>14, RemovingIsSound DEF SwitchFailed
  <2>2. StoredOK' /\ CacheOK'
    BY <1>5, <1>14 DEF SwitchFailed
  <2> QED
    BY <1>5, <1>14, <2>1, <2>2 DEF SwitchFailed, BrowserOK
<1> QED
  BY <1>6, <1>7, <1>8, <1>9, <1>10, <1>11, <1>12, <1>13, <1>14 DEF Hear

(* A page that goes is not answered any more: its calls are silent.        *)
LEMMA BootedCalls ==
  ASSUME Own, NEW t \in Tabs, Boot(t)
  PROVE  /\ \A d \in calls' :
               \/ d \in calls /\ d \notin Mine(t)
               \/ \E c \in Mine(t) : d = Silent(c)
               \/ stored.refresh # NoToken /\ d = Ask(t, "boot", NoUser, stored.refresh)
         /\ \A d \in calls : d \notin Mine(t) => d \in calls'
         /\ \A c \in Mine(t) : c.old # NoToken => owner[c.old] \in troubled'
         /\ troubled \subseteq troubled'
         /\ stored.refresh # NoToken => Ask(t, "boot", NoUser, stored.refresh) \in calls'
         /\ owner' = owner /\ rows' = rows /\ Issued' = Issued
         /\ stored' = stored /\ accounts' = accounts
<1>1. calls' = ((calls \ Mine(t)) \cup {Silent(c) : c \in Mine(t)})
               \cup (IF stored.refresh = NoToken THEN {}
                     ELSE {Ask(t, "boot", NoUser, stored.refresh)})
  BY Zenon DEF Boot, Unheard, Silent
<1>2. troubled' = troubled \cup {owner[c.old] : c \in {d \in Mine(t) : d.old # NoToken}}
  BY DEF Boot
<1>3. owner' = owner /\ rows' = rows /\ Issued' = Issued /\ stored' = stored /\ accounts' = accounts
  BY DEF Boot, Server, Issued
<1>4. Mine(t) \subseteq calls
  BY DEF Mine
<1> DEFINE silent == {Silent(c) : c \in Mine(t)}
<1>5. \A d \in silent : \E c \in Mine(t) : d = Silent(c)
  BY Zenon
<1>6. \A c \in Mine(t) : c.old # NoToken => owner[c.old] \in troubled'
  BY <1>2, Zenon
<1>7. troubled \subseteq troubled'
  BY <1>2, Zenon
<1> HIDE DEF silent
<1>8. calls' = ((calls \ Mine(t)) \cup silent)
               \cup (IF stored.refresh = NoToken THEN {}
                     ELSE {Ask(t, "boot", NoUser, stored.refresh)})
  BY <1>1 DEF silent
<1> QED
  BY <1>3, <1>4, <1>5, <1>6, <1>7, <1>8

LEMMA BootStaysOwn ==
  ASSUME Own, NEW t \in Tabs, Boot(t), events' \in 0..MaxEvents
  PROVE  Own'
<1>1. /\ owner' = owner /\ Issued' = Issued /\ rows' = rows
      /\ stored' = stored /\ accounts' = accounts
  BY BootedCalls
<1>2. expired' = expired /\ shut' = shut
  BY DEF Boot, Server
<1>3. stored.refresh \in Token /\ Real(stored.refresh)
  BY DEF Own, BrowserOK, StoredOK, Pair
<1>4. ServerOK' /\ StoredOK' /\ AccountsOK'
  BY <1>1, <1>2 DEF Own, ServerOK, BrowserOK, StoredOK, AccountsOK, Real
<1>5. CacheOK'
  <2>1. [access |-> NoToken, refresh |-> stored.refresh] \in Pair
    BY <1>3 DEF Pair, Token
  <2>2. cache' = [cache EXCEPT ![t] = [access |-> NoToken, refresh |-> stored.refresh]]
    BY DEF Boot
  <2> QED
    BY <1>1, <1>3, <2>1, <2>2 DEF Own, BrowserOK, CacheOK, Real
<1>6. PageOK'
  <2>1. Nobody \in [Users -> Token] /\ \A u \in Users : Nobody[u] = NoToken
    BY DEF Nobody, Token
  <2>2. /\ page' = [page EXCEPT ![t] = IF stored.refresh = NoToken THEN "login" ELSE "boot"]
        /\ shown' = [shown EXCEPT ![t] = NoUser]
        /\ listed' = [listed EXCEPT ![t] = Nobody]
    BY DEF Boot
  <2> QED
    BY <1>1, <2>1, <2>2 DEF Own, PageOK, Page, Real
<1>7. RequestsOK'
  <2>1. req' = [req EXCEPT ![t] = [q \in Requests |-> IdleRequest]]
    BY DEF Boot
  <2>2. GivenUp(t, Requests) = [q \in Requests |-> IdleRequest]
    BY DEF GivenUp
  <2> QED
    BY <1>1, <2>1, <2>2, GivingUpIsSound
<1>8. RestOK'
  <2>1. \A c \in Mine(t) : c.old # NoToken => owner[c.old] \in Users
    BY NullIsNoToken DEF Own, CallsOK, CallOK, Mine, Real, Issued, ServerOK
  <2>2. troubled' \subseteq Users
    <3>1. troubled' = troubled \cup {owner[c.old] : c \in {d \in Mine(t) : d.old # NoToken}}
      BY DEF Boot
    <3>2. \A u \in troubled' : u \in troubled \/ \E c \in Mine(t) : c.old # NoToken /\ u = owner[c.old]
      BY <3>1, Zenon
    <3> QED
      BY <2>1, <3>2 DEF Own, RestOK
  <2>3. crossed' \subseteq Tabs /\ due' \in [Tabs -> SUBSET Timer]
    BY DEF Boot, Own, RestOK
  <2> QED
    BY <2>2, <2>3 DEF RestOK
<1>9. CallsOK'
  <2> SUFFICES ASSUME NEW d \in calls' PROVE CallOK(d)'
    BY DEF CallsOK
  <2>1. CASE d \in calls
    BY <1>1, <2>1 DEF Own, CallsOK, CallOK, Real
  <2>2. ASSUME NEW c \in Mine(t), d = Silent(c)
        PROVE  CallOK(d)'
    <3>1. CallOK(c) /\ c \in Call
      BY DEF Mine, Own, CallsOK, CallOK
    <3>2. /\ d \in Call /\ d.for = "none" /\ d.user = c.user /\ d.old = c.old /\ d.at = c.at
          /\ d.new = c.new
      BY <2>2, <3>1 DEF Silent, Call, Purpose, Token
    <3> QED
      BY <1>1, <3>1, <3>2 DEF CallOK, Real
  <2>3. CASE stored.refresh # NoToken /\ d = Ask(t, "boot", NoUser, stored.refresh)
    <3>1. /\ d \in Call /\ d.for = "boot" /\ d.old = stored.refresh /\ d.at = "asked"
          /\ d.new = NoToken
      BY <1>3, <2>3 DEF Ask, Call, Purpose, Token
    <3> QED
      BY <1>1, <1>3, <2>3, <3>1 DEF CallOK, Real
  <2> QED
    BY <2>1, <2>2, <2>3, BootedCalls
<1> QED
  BY <1>4, <1>5, <1>6, <1>7, <1>8, <1>9 DEF Own, BrowserOK

LEMMA FramesKeepOwn ==
  ASSUME Own, owner' = owner
  PROVE  /\ Issued' = Issued
         /\ UNCHANGED Server => ServerOK'
         /\ UNCHANGED <<stored, cache>> => StoredOK' /\ CacheOK'
         /\ UNCHANGED stored => StoredOK'
         /\ UNCHANGED accounts => AccountsOK'
         /\ UNCHANGED <<page, shown, listed>> => PageOK'
         /\ UNCHANGED req => RequestsOK'
         /\ UNCHANGED calls => CallsOK'
<1>1. Issued' = Issued
  BY DEF Issued
<1>2. UNCHANGED calls => CallsOK'
  BY <1>1 DEF Own, CallsOK, CallOK, Real
<1> QED
  BY <1>1, <1>2
     DEF Own, BrowserOK, StoredOK, CacheOK, AccountsOK, PageOK, RequestsOK, Real, Server, ServerOK

LEMMA CachingIsSound ==
  ASSUME Own, owner' = owner, NEW t \in Tabs, stored' = stored, accounts' = accounts,
         \/ cache' = [cache EXCEPT ![t].access = AccessOf(t)]
         \/ cache' = [cache EXCEPT ![t].refresh = RefreshOf(t)]
  PROVE  BrowserOK'
<1>1. Issued' = Issued
  BY DEF Issued
<1>2. cache' \in [Tabs -> Pair]
  BY TokensInUse DEF Own, BrowserOK, CacheOK, Pair
<1>3. \A s \in Tabs : Real(cache'[s].access) /\ Real(cache'[s].refresh)
  BY TokensInUse DEF Own, BrowserOK, CacheOK, Pair
<1> QED
  BY <1>1, <1>2, <1>3 DEF Own, BrowserOK, StoredOK, CacheOK, AccountsOK, Real

LEMMA AskingIsSound ==
  ASSUME Own, owner' = owner, NEW d, CallOK(d), calls' = calls \cup {d}
  PROVE  CallsOK'
BY DEF Own, CallsOK, CallOK, Real, Issued

LEMMA SentStaysOwn ==
  ASSUME Own, NEW t \in Tabs, NEW q \in Requests, NEW for \in {"data", "username"},
         SendRequest(t, q, for), events' \in 0..MaxEvents
  PROVE  Own'
<1>1. UNCHANGED <<owner, rows, expired, shut, stored, accounts, page, shown, listed, calls, due,
                  crossed, troubled>>
  BY DEF SendRequest, Server
<1>2. BrowserOK'
  BY <1>1, CachingIsSound DEF SendRequest
<1> DEFINE r == [at |-> "sent", for |-> for, token |-> AccessOf(t), user |-> shown[t]]
<1>3. r \in Request /\ Real(r.token)
  BY TokensInUse DEF Request, Own, PageOK
<1>4. req' = [req EXCEPT ![t][q] = r]
  BY DEF SendRequest
<1>5. RequestsOK'
  <2> HIDE DEF r
  <2> QED
    BY <1>1, <1>3, <1>4, OneRequestChanges
<1> QED
  BY <1>1, <1>2, <1>5, FramesKeepOwn DEF Own, RestOK, Server

LEMMA OverIsSound ==
  ASSUME Own, owner' = owner, NEW t \in Tabs, NEW q \in Requests, RequestOver(t, q)
  PROVE  /\ RequestsOK'
         /\ \A s \in Tabs, p \in Requests :
               req'[s][p] = IF s = t /\ p = q THEN IdleRequest ELSE req[s][p]
<1>1. req' = [req EXCEPT ![t][q] = IdleRequest]
  BY DEF RequestOver
<1>2. IdleRequest \in Request /\ Real(IdleRequest.token)
  BY RequestFields DEF Real
<1> QED
  BY <1>1, <1>2, OneRequestChanges

LEMMA WaitingIsSound ==
  ASSUME Own, owner' = owner, NEW t \in Tabs, NEW q \in Requests, Put(t, q, "waits", NoToken)
  PROVE  /\ RequestsOK'
         /\ \A s \in Tabs, p \in Requests :
               req'[s][p] = IF s = t /\ p = q THEN PutOff(req[t][q], "waits", NoToken) ELSE req[s][p]
<1> DEFINE r == PutOff(req[t][q], "waits", NoToken)
<1>1. req[t][q] \in Request
  BY DEF Own, RequestsOK
<1>2. r \in Request /\ r.token = NoToken
  BY <1>1, RequestFields DEF Token
<1>3. req' = [req EXCEPT ![t][q] = r]
  BY <1>1 DEF Put, PutOff, Own, RequestsOK
<1> HIDE DEF r
<1>4. /\ RequestsOK'
      /\ \A s \in Tabs, p \in Requests : req'[s][p] = IF s = t /\ p = q THEN r ELSE req[s][p]
  BY <1>2, <1>3, OneRequestChanges DEF Real
<1> QED
  BY <1>4 DEF r

LEMMA AnsweredStaysOwn ==
  ASSUME Own, NEW t \in Tabs, NEW q \in Requests, Answer(t, q)
  PROVE  Own'
<1>1. CASE RequestAnswered(t, q)
  <2>1. UNCHANGED <<owner, rows, expired, shut, stored, accounts, cache, page, shown, listed,
                    calls, crossed, troubled, events>>
    BY <1>1 DEF RequestAnswered, Server, Browser, Quiet
  <2>2. RequestsOK'
    BY <1>1, <2>1, OverIsSound DEF RequestAnswered
  <2>3. due' \in [Tabs -> SUBSET Timer]
    BY <1>1 DEF RequestAnswered, Own, RestOK, Timer
  <2> QED
    BY <2>1, <2>2, <2>3, FramesKeepOwn DEF Own, RestOK, Server, BrowserOK
<1>2. CASE RefusedFirst(t, q)
  <2>1. UNCHANGED <<owner, rows, expired, shut, stored, accounts, page, shown, listed, due,
                    crossed, troubled, events>>
    BY <1>2 DEF RefusedFirst, Server, Quiet
  <2>2. RequestsOK'
    BY <1>2, <2>1, WaitingIsSound DEF RefusedFirst
  <2>3. BrowserOK' /\ CallsOK'
    <3>1. CASE MustRefresh(t)
      <4>1. /\ cache' = [cache EXCEPT ![t].refresh = RefreshOf(t)]
            /\ calls' = calls \cup {Ask(t, "flight", NoUser, RefreshOf(t))}
        BY <1>2, <3>1 DEF RefusedFirst
      <4>2. RefreshOf(t) # NoToken /\ RefreshOf(t) \in Token /\ Real(RefreshOf(t))
        BY <3>1, TokensInUse DEF MustRefresh
      <4>3. CallOK(Ask(t, "flight", NoUser, RefreshOf(t)))
        BY <4>2, AskFields DEF CallOK, Real, Purpose
      <4> QED
        BY <2>1, <4>1, <4>3, CachingIsSound, AskingIsSound
    <3>2. CASE ~MustRefresh(t)
      BY <1>2, <2>1, <3>2, FramesKeepOwn DEF RefusedFirst, BrowserOK
    <3> QED
      BY <3>1, <3>2
  <2> QED
    BY <2>1, <2>2, <2>3, FramesKeepOwn DEF Own, RestOK, Server
<1>3. CASE RefusedWithoutSession(t, q)
  <2>1. UNCHANGED <<owner, rows, expired, shut, calls, due, crossed, troubled, events>>
    BY <1>3 DEF RefusedWithoutSession, Server, Quiet
  <2>2. BrowserOK' /\ PageOK' /\ RequestsOK'
    BY <1>3, <2>1, InvalidatingIsSound, LeavingIsSound, OverIsSound DEF RefusedWithoutSession
  <2> QED
    BY <2>1, <2>2, FramesKeepOwn DEF Own, RestOK, Server
<1>4. CASE RefusedAgain(t, q)
  <2>1. UNCHANGED <<owner, rows, expired, shut, accounts, calls, due, troubled, events>>
    BY <1>4 DEF RefusedAgain, AuthError, HandleLogout, Server, Quiet
  <2>2. StoredOK' /\ CacheOK' /\ PageOK'
    BY <1>4, <2>1, ClearingIsSound, LeavingIsSound DEF RefusedAgain, AuthError, HandleLogout
  <2>3. req' = [req EXCEPT ![t] = GivenUp(t, {q})]
    BY <1>4 DEF RefusedAgain, AuthError, GivenUp
  <2>4. RequestsOK'
    BY <2>1, <2>3, GivingUpIsSound
  <2>5. crossed' \subseteq Tabs
    BY <1>4 DEF RefusedAgain, AuthError, Own, RestOK
  <2> QED
    BY <2>1, <2>2, <2>4, <2>5, FramesKeepOwn DEF Own, RestOK, Server, BrowserOK
<1> QED
  BY <1>1, <1>2, <1>3, <1>4 DEF Answer

LEMMA EventsAreBounded ==
  ASSUME Own, Event \/ Quiet
  PROVE  events' \in 0..MaxEvents
BY WebSessionAssumption DEF Event, Quiet, Own, RestOK

LEMMA ActedStaysOwn ==
  ASSUME Own, NEW t \in Tabs, UserActs(t) \/ Reload(t) \/ LogoutDue(t)
  PROVE  Own'
<1>1. CASE OpenTab(t) \/ Reload(t)
  BY <1>1, BootStaysOwn, EventsAreBounded DEF OpenTab, Reload
<1>2. CASE Revisit(t)
  <2>1. /\ UNCHANGED <<owner, rows, expired, shut, stored, accounts, req, calls, due, troubled>>
        /\ Event
    BY <1>2 DEF Revisit, Server
  <2>2. BrowserOK'
    BY <1>2, <2>1, CachingIsSound DEF Revisit
  <2>3. PageOK'
    BY <1>2, <2>1, TokensInUse, EnteringIsSound DEF Revisit, Real
  <2>4. crossed' \subseteq Tabs
    BY <1>2 DEF Revisit, Crossing, Own, RestOK
  <2> QED
    BY <2>1, <2>2, <2>3, <2>4, FramesKeepOwn, EventsAreBounded DEF Own, RestOK, Server
<1>3. CASE Logout(t) \/ LogoutDue(t)
  <2>1. /\ UNCHANGED <<owner, rows, expired, shut, accounts, req, calls, troubled>>
        /\ Event \/ Quiet
    BY <1>3 DEF Logout, LogoutDue, HandleLogout, Server
  <2>2. StoredOK' /\ CacheOK' /\ PageOK'
    BY <1>3, <2>1, ClearingIsSound, LeavingIsSound DEF Logout, LogoutDue, HandleLogout
  <2>3. crossed' \subseteq Tabs /\ due' \in [Tabs -> SUBSET Timer]
    BY <1>3 DEF Logout, LogoutDue, Crossing, Own, RestOK
  <2> QED
    BY <2>1, <2>2, <2>3, FramesKeepOwn, EventsAreBounded DEF Own, RestOK, Server, BrowserOK
<1>4. CASE OpenControlCenter(t)
  <2>1. /\ UNCHANGED <<owner, rows, expired, shut, stored, accounts, cache, page, shown, req,
                       calls, due, crossed, troubled>>
        /\ Event /\ listed' = [listed EXCEPT ![t] = accounts]
    BY <1>4 DEF OpenControlCenter, Server, Browser
  <2>2. PageOK'
    BY <2>1 DEF Own, PageOK, BrowserOK, AccountsOK, Real, Issued
  <2> QED
    BY <2>1, <2>2, FramesKeepOwn, EventsAreBounded DEF Own, RestOK, Server, BrowserOK
<1>5. ASSUME NEW u \in Users, Login(t, u)
      PROVE  Own'
  <2>1. /\ UNCHANGED <<owner, rows, expired, shut, stored, accounts, cache, page, shown, listed,
                       req, due, crossed, troubled>>
        /\ Event /\ calls' = calls \cup {Ask(t, "login", u, NoToken)}
    BY <1>5 DEF Login, Server, Browser
  <2>2. CallOK(Ask(t, "login", u, NoToken))
    BY AskFields DEF CallOK, Real, Purpose, Token
  <2> QED
    BY <2>1, <2>2, AskingIsSound, FramesKeepOwn, EventsAreBounded DEF Own, RestOK, Server, BrowserOK
<1>6. ASSUME NEW u \in Users, SwitchAccount(t, u)
      PROVE  Own'
  <2>1. /\ UNCHANGED <<owner, rows, expired, shut, stored, accounts, cache, page, shown, listed,
                       req, due, crossed, troubled>>
        /\ Event /\ calls' = calls \cup {Ask(t, "switch", u, listed[t][u])}
        /\ listed[t][u] # NoToken
    BY <1>6 DEF SwitchAccount, Offers, Server, Browser
  <2>2. listed[t][u] \in Token /\ Real(listed[t][u])
    BY DEF Own, PageOK
  <2>3. CallOK(Ask(t, "switch", u, listed[t][u]))
    BY <2>1, <2>2, AskFields DEF CallOK, Real, Purpose
  <2> QED
    BY <2>1, <2>3, AskingIsSound, FramesKeepOwn, EventsAreBounded DEF Own, RestOK, Server, BrowserOK
<1>7. ASSUME NEW u \in Users, RemoveStoredAccount(t, u)
      PROVE  Own'
  <2>1. /\ UNCHANGED <<owner, rows, expired, shut, stored, cache, page, shown, listed,
                       req, calls, due, crossed, troubled>>
        /\ Event /\ Remove({u})
    BY <1>7 DEF RemoveStoredAccount, Server
  <2>2. AccountsOK'
    BY <2>1, RemovingIsSound
  <2> QED
    BY <2>1, <2>2, FramesKeepOwn, EventsAreBounded DEF Own, RestOK, Server, BrowserOK
<1> QED
  BY <1>1, <1>2, <1>3, <1>4, <1>5, <1>6, <1>7 DEF UserActs

LEMMA WorldStaysOwn ==
  ASSUME Own
  PROVE  /\ \A u \in Users : Disable(u) => Own'
         /\ \A k \in Tokens : Expire(k) => Own'
         /\ \A t \in Tabs, q \in Requests : RequestFails(t, q) => Own'
<1>1. ASSUME NEW u \in Users, Disable(u)
      PROVE  Own'
  <2>1. /\ UNCHANGED <<owner, rows, expired, stored, accounts, cache, page, shown, listed,
                       req, calls, due, crossed, troubled>>
        /\ Event /\ shut' = shut \cup {u}
    BY <1>1 DEF Disable, Browser
  <2>2. ServerOK'
    BY <2>1 DEF Own, ServerOK, Issued
  <2> QED
    BY <2>1, <2>2, FramesKeepOwn, EventsAreBounded DEF Own, RestOK, BrowserOK
<1>2. ASSUME NEW k \in Tokens, Expire(k)
      PROVE  Own'
  <2>1. /\ UNCHANGED <<owner, rows, shut, stored, accounts, cache, page, shown, listed,
                       req, calls, due, crossed, troubled>>
        /\ Event /\ expired' = expired \cup {k} /\ k \in Issued
    BY <1>2 DEF Expire, Browser
  <2>2. ServerOK'
    BY <2>1 DEF Own, ServerOK, Issued
  <2> QED
    BY <2>1, <2>2, FramesKeepOwn, EventsAreBounded DEF Own, RestOK, BrowserOK
<1>3. ASSUME NEW t \in Tabs, NEW q \in Requests, RequestFails(t, q)
      PROVE  Own'
  <2>1. /\ UNCHANGED <<owner, rows, expired, shut, stored, accounts, cache, page, shown, listed,
                       calls, due, crossed, troubled>>
        /\ Event /\ RequestOver(t, q)
    BY <1>3 DEF RequestFails, Server, Browser
  <2>2. RequestsOK'
    BY <2>1, OverIsSound
  <2> QED
    BY <2>1, <2>2, FramesKeepOwn, EventsAreBounded DEF Own, RestOK, Server, BrowserOK
<1> QED
  BY <1>1, <1>2, <1>3

-----------------------------------------------------------------------------
(* Answers that nobody has seen                                            *)

(* Where the browser keeps a refresh token.                                *)
Kept(k) ==
    \/ stored.refresh = k
    \/ \E t \in Tabs : cache[t].refresh = k
    \/ \E u \in Users : accounts[u] = k
    \/ \E t \in Tabs, u \in Users : listed[t][u] = k

Held(k) == Kept(k) \/ \E c \in calls : c.old = k

(* The token of an answer is good and nobody holds it, and no two answers  *)
(* carry the same.                                                         *)
Fresh ==
    \A c \in calls :
        /\ c.at = "answered" => c.new \in rows /\ ~Held(c.new)
        /\ \A d \in calls : c.new = d.new /\ c.new # NoToken => c = d

(* The answer to a call nobody listens to is lost.                         *)
Unheeded == \A c \in calls : c.for = "none" /\ c.old # NoToken => owner[c.old] \in troubled

(* What is kept of an account is good, or the answer that replaces it is   *)
(* on its way to a page.                                                   *)
Carrying(k) == \E c \in calls : c.for # "none" /\ c.at = "answered" /\ c.old = k

Saved ==
    \A u \in Users \ troubled :
        accounts[u] # NoToken => accounts[u] \in rows \/ Carrying(accounts[u])

(* A step of a page that has heard nothing.                                *)
PageStep ==
    /\ owner' = owner /\ rows' = rows /\ troubled \subseteq troubled'
    /\ \A k \in Tokens : Kept(k)' => Kept(k)
    /\ \A u \in Users : accounts'[u] # NoToken => accounts'[u] = accounts[u]
    /\ \A d \in calls' :
          \/ d \in calls
          \/ \E c \in calls : /\ d = Silent(c)
                              /\ c \notin calls' \/ c.new = NoToken
                              /\ c.old # NoToken => owner[c.old] \in troubled'
          \/ /\ d.for # "none" /\ d.at = "asked" /\ d.new = NoToken
             /\ d.old = NoToken \/ Kept(d.old)
    /\ \A c \in calls : c \in calls' \/ (c.old # NoToken => owner[c.old] \in troubled')

(* A step of a page that hears of a call.                                  *)
HearStep(c) ==
    /\ calls' = calls \ {c} /\ owner' = owner /\ rows' = rows /\ troubled' = troubled
    /\ \A k \in Tokens : Kept(k)' => Kept(k) \/ (c.at = "answered" /\ k = c.new)
    /\ \A u \in Users : accounts'[u] # NoToken =>
          accounts'[u] = accounts[u] \/ (c.at = "answered" /\ accounts'[u] = c.new)
    /\ c.at = "answered" /\ c.for # "none" /\ c.old # NoToken => accounts'[owner[c.old]] = c.new

LEMMA PagesKeepNews ==
  ASSUME Own, Own', Fresh, Unheeded, Saved, PageStep
  PROVE  Fresh' /\ Unheeded' /\ Saved'
<1>1. \A c \in calls : c \in Call /\ (c.new # NoToken => c.new \in Tokens)
  BY NullIsNoToken DEF Own, CallsOK, CallOK, Real
<1>2. \A d \in calls' :
         \/ d \in calls
         \/ \E c \in calls : /\ d.for = "none" /\ d.at = c.at /\ d.old = c.old /\ d.new = c.new
                             /\ d = Silent(c)
                             /\ c \notin calls' \/ c.new = NoToken
                             /\ c.old # NoToken => owner[c.old] \in troubled'
         \/ /\ d.for # "none" /\ d.at = "asked" /\ d.new = NoToken
            /\ d.old = NoToken \/ Kept(d.old)
  <2>1. \A c \in calls : /\ Silent(c).for = "none" /\ Silent(c).at = c.at
                         /\ Silent(c).old = c.old /\ Silent(c).new = c.new
    BY <1>1 DEF Silent, Call, Purpose
  <2> QED
    BY <2>1 DEF PageStep
<1>3. \A k \in Tokens : Held(k)' => Held(k)
  <2> SUFFICES ASSUME NEW k \in Tokens, NEW d \in calls', d.old = k
               PROVE  Held(k)
    BY DEF Held, PageStep
  <2> QED
    BY <1>2, NullIsNoToken DEF Held
<1>4. Fresh'
  <2> SUFFICES ASSUME NEW d \in calls'
               PROVE  /\ d.at = "answered" => d.new \in rows' /\ ~Held(d.new)'
                      /\ \A e \in calls' : d.new = e.new /\ d.new # NoToken => d = e
    BY DEF Fresh
  <2>1. ASSUME d.at = "answered"
        PROVE  d.new \in rows' /\ ~Held(d.new)'
    <3>1. d.new \in rows /\ ~Held(d.new)
      BY <1>2, <2>1 DEF Fresh
    <3>2. d.new \in Tokens
      BY <3>1, NullIsNoToken DEF Own, ServerOK
    <3> QED
      BY <1>3, <3>1, <3>2 DEF PageStep
  <2>2. ASSUME NEW e \in calls', d.new = e.new, d.new # NoToken
        PROVE  d = e
    <3>1. \/ d \in calls
          \/ \E c \in calls : d = Silent(c) /\ d.new = c.new /\ c \notin calls'
      BY <1>2, <2>2
    <3>2. \/ e \in calls
          \/ \E c \in calls : e = Silent(c) /\ e.new = c.new /\ c \notin calls'
      BY <1>2, <2>2
    <3>3. \A c, f \in calls : c.new = f.new /\ c.new # NoToken => c = f
      BY DEF Fresh
    <3> QED
      BY <2>2, <3>1, <3>2, <3>3
  <2> QED
    BY <2>1, <2>2
<1>5. Unheeded'
  <2> SUFFICES ASSUME NEW d \in calls', d.for = "none", d.old # NoToken
               PROVE  owner'[d.old] \in troubled'
    BY DEF Unheeded
  <2> QED
    BY <1>2 DEF Unheeded, PageStep
<1>6. Saved'
  <2> SUFFICES ASSUME NEW u \in Users, u \notin troubled', accounts'[u] # NoToken
               PROVE  accounts'[u] \in rows' \/ Carrying(accounts[u])'
    BY DEF Saved, Carrying
  <2>1. u \notin troubled /\ accounts'[u] = accounts[u] /\ rows' = rows
    BY DEF PageStep
  <2>2. owner[accounts[u]] = u
    BY <2>1 DEF Own, BrowserOK, AccountsOK
  <2>3. ASSUME NEW c \in calls, c.for # "none", c.at = "answered", c.old = accounts[u]
        PROVE  c \in calls'
    BY <2>1, <2>2, <2>3 DEF PageStep
  <2> QED
    BY <2>1, <2>3 DEF Saved, Carrying
<1> QED
  BY <1>4, <1>5, <1>6

LEMMA HearingKeepsNews ==
  ASSUME Own, Own', Fresh, Unheeded, Saved, NEW c \in calls, HearStep(c)
  PROVE  Fresh' /\ Unheeded' /\ Saved'
<1>1. /\ CallOK(c) /\ c \in Call
      /\ calls' = calls \ {c} /\ owner' = owner /\ rows' = rows /\ troubled' = troubled
  BY DEF Own, CallsOK, CallOK, HearStep
<1>2. \A k \in Tokens : Held(k)' => Held(k) \/ (c.at = "answered" /\ k = c.new)
  BY <1>1 DEF Held, HearStep
<1>3. Fresh'
  <2> SUFFICES ASSUME NEW d \in calls'
               PROVE  /\ d.at = "answered" => d.new \in rows' /\ ~Held(d.new)'
                      /\ \A e \in calls' : d.new = e.new /\ d.new # NoToken => d = e
    BY DEF Fresh
  <2>1. d \in calls /\ d # c /\ \A e \in calls' : d.new = e.new /\ d.new # NoToken => d = e
    BY <1>1 DEF Fresh
  <2>2. ASSUME d.at = "answered"
        PROVE  d.new \in rows' /\ ~Held(d.new)'
    <3>1. d.new \in rows /\ ~Held(d.new)
      BY <2>1, <2>2 DEF Fresh
    <3>2. d.new \in Tokens
      BY <3>1, NullIsNoToken DEF Own, ServerOK
    <3>3. d.new # c.new
      BY <2>1, <3>2, NullIsNoToken DEF Fresh
    <3> QED
      BY <1>1, <1>2, <3>1, <3>2, <3>3
  <2> QED
    BY <2>1, <2>2
<1>4. Unheeded'
  BY <1>1 DEF Unheeded
<1>5. Saved'
  <2> SUFFICES ASSUME NEW u \in Users, u \notin troubled', accounts'[u] # NoToken
               PROVE  accounts'[u] \in rows' \/ \E d \in calls' : /\ d.for # "none"
                                                                 /\ d.at = "answered"
                                                                 /\ d.old = accounts'[u]
    BY DEF Saved, Carrying
  <2>1. CASE c.at = "answered" /\ accounts'[u] = c.new
    BY <1>1, <2>1 DEF Fresh
  <2>2. CASE accounts'[u] = accounts[u] /\ ~(c.at = "answered" /\ accounts'[u] = c.new)
    <3>1. accounts[u] # NoToken /\ owner[accounts[u]] = u
      BY <2>2 DEF Own, BrowserOK, AccountsOK
    <3>2. ~(c.for # "none" /\ c.at = "answered" /\ c.old = accounts[u])
      BY <2>2, <3>1 DEF HearStep
    <3> QED
      BY <1>1, <2>2, <3>1, <3>2 DEF Saved, Carrying
  <2> QED
    BY <2>1, <2>2 DEF HearStep
<1> QED
  BY <1>3, <1>4, <1>5

LEMMA HandlingKeepsNews ==
  ASSUME Own, Own', Fresh, Unheeded, Saved, NEW c \in calls, NEW d \in Call, Stepped(c, d),
         Refusal(c, d) \/ Finding(c, d) \/ Renewal(c, d), Elsewhere
  PROVE  Fresh' /\ Unheeded' /\ Saved'
<1>1. /\ CallOK(c) /\ c \in Call
      /\ calls' = (calls \ {c}) \cup {d} /\ d.tab = c.tab /\ d.for = c.for /\ d.old = c.old
  BY DEF Own, CallsOK, CallOK, Stepped
<1>2. \A k : Held(k)' <=> Held(k)
  <2>1. \A k : Kept(k)' <=> Kept(k)
    BY DEF Kept, Elsewhere
  <2>2. \A k : (\E e \in calls' : e.old = k) <=> (\E e \in calls : e.old = k)
    BY <1>1
  <2> QED
    BY <2>1, <2>2 DEF Held
<1>3. \A k \in Tokens : Held(k) => k \in Issued
  BY NullIsNoToken
     DEF Held, Kept, Own, BrowserOK, StoredOK, CacheOK, AccountsOK, PageOK, CallsOK, CallOK, Real
<1>4. \A e \in calls : e.new # NoToken => e.new \in Issued
  BY DEF Own, CallsOK, CallOK, Real
<1>5. Fresh'
  <2>1. CASE Renewal(c, d)
    <3>1. /\ d.at = "answered" /\ d.new \in Tokens \ Issued
          /\ rows' = (rows \ {c.old}) \cup {d.new}
      BY <2>1 DEF Renewal
    <3>2. d.new # NoToken /\ ~Held(d.new) /\ \A e \in calls : e.new # d.new
      BY <1>3, <1>4, <3>1, NullIsNoToken
    <3>3. \A e \in calls : e.at = "answered" => e.new \in rows /\ ~Held(e.new) /\ e.new # c.old
      BY DEF Fresh, Held
    <3>4. \A e \in calls' : e.at = "answered" => e.new \in rows' /\ ~Held(e.new)
      BY <1>1, <3>1, <3>2, <3>3
    <3>5. \A e, f \in calls' : e.new = f.new /\ e.new # NoToken => e = f
      BY <1>1, <3>2 DEF Fresh
    <3> QED
      BY <1>2, <3>4, <3>5 DEF Fresh
  <2>2. CASE Refusal(c, d) \/ Finding(c, d)
    <3>1. d.at # "answered" /\ d.new = c.new /\ rows' = rows
      BY <2>2 DEF Refusal, Finding
    <3>2. \A e \in calls' : e.at = "answered" => e.new \in rows' /\ ~Held(e.new)
      BY <1>1, <3>1 DEF Fresh
    <3>3. \A e, f \in calls' : e.new = f.new /\ e.new # NoToken => e = f
      BY <1>1, <3>1 DEF Fresh
    <3> QED
      BY <1>2, <3>2, <3>3 DEF Fresh
  <2> QED
    BY <2>1, <2>2
<1>6. troubled \subseteq troubled' /\ \A k \in Issued : owner'[k] = owner[k]
  BY RenewalLasts DEF Refusal, Finding, Renewal, Lasting
<1>7. Unheeded'
  BY <1>1, <1>6 DEF Unheeded, Own, CallsOK, CallOK, Real
<1>8. Saved'
  <2> SUFFICES ASSUME NEW u \in Users, u \notin troubled', accounts'[u] # NoToken
               PROVE  accounts'[u] \in rows' \/ \E e \in calls' : /\ e.for # "none"
                                                                 /\ e.at = "answered"
                                                                 /\ e.old = accounts'[u]
    BY DEF Saved, Carrying
  <2>1. /\ accounts'[u] = accounts[u] /\ u \notin troubled
        /\ accounts[u] \in Issued /\ owner[accounts[u]] = u
    BY <1>6 DEF Elsewhere, Own, BrowserOK, AccountsOK
  <2>2. accounts[u] \in rows \/ Carrying(accounts[u])
    BY <2>1 DEF Saved, Elsewhere
  <2>3. CASE Renewal(c, d)
    <3>1. /\ c.at = "found" /\ d.at = "answered" /\ rows' = (rows \ {c.old}) \cup {d.new}
      BY <2>3 DEF Renewal
    <3>2. c.old = accounts[u] => c.for # "none"
      BY <2>1 DEF Unheeded, Elsewhere
    <3> QED
      BY <1>1, <2>1, <2>2, <3>1, <3>2 DEF Carrying
  <2>4. CASE Refusal(c, d)
    <3>1. rows' = rows /\ (c.at = "answered" /\ c.old # NoToken => owner[c.old] \in troubled')
      BY <2>4 DEF Refusal
    <3>2. c.at = "answered" => c.old # accounts[u]
      BY <2>1, <3>1 DEF Elsewhere
    <3> QED
      BY <1>1, <2>1, <2>2, <3>1, <3>2 DEF Carrying
  <2>5. CASE Finding(c, d)
    <3>1. rows' = rows /\ c.at = "asked"
      BY <2>5 DEF Finding
    <3> QED
      BY <1>1, <2>1, <2>2, <3>1 DEF Carrying
  <2> QED
    BY <2>3, <2>4, <2>5
<1> QED
  BY <1>5, <1>7, <1>8

(* A step keeps in the browser what was there, and what it has heard.      *)
AccountsFrom(N) == \A u \in Users : accounts'[u] \in N \cup {NoToken, accounts[u]}
PairsFrom(N) ==
    /\ stored'.refresh \in N \cup {NoToken, stored.refresh}
    /\ \A t \in Tabs : cache'[t].refresh \in N \cup {NoToken, cache[t].refresh, stored.refresh}
ListsFrom == \A t \in Tabs, u \in Users : listed'[t][u] \in {NoToken, listed[t][u], accounts[u]}

LEMMA KeptFrom ==
  ASSUME NEW N, AccountsFrom(N), PairsFrom(N), ListsFrom
  PROVE  \A k \in Tokens : Kept(k)' => Kept(k) \/ k \in N
BY NullIsNoToken DEF AccountsFrom, PairsFrom, ListsFrom, Kept

LEMMA ListsLeft ==
  ASSUME Own, NEW t \in Tabs, Leave(t) \/ UNCHANGED listed
  PROVE  ListsFrom
<1>1. \A u \in Users : Nobody[u] = NoToken
  BY DEF Nobody
<1> QED
  BY <1>1 DEF Leave, ListsFrom, Own, PageOK

LEMMA PairsCleared ==
  ASSUME Own, NEW t \in Tabs, ClearUserAccessToken(t), NEW N
  PROVE  PairsFrom(N)
BY NoPairIsAPair DEF ClearUserAccessToken, PairsFrom, Own, BrowserOK, CacheOK

LEMMA AccountsRemoved ==
  ASSUME Own, NEW us, Remove(us), NEW N
  PROVE  AccountsFrom(N)
BY DEF Remove, AccountsFrom

LEMMA SessionInvalidated ==
  ASSUME Own, NEW t \in Tabs, ClearInvalidUserSession(t), NEW N
  PROVE  AccountsFrom(N) /\ PairsFrom(N)
<1>1. \E us : Remove(us)
  BY DEF ClearInvalidUserSession
<1> QED
  BY <1>1, AccountsRemoved, PairsCleared DEF ClearInvalidUserSession

LEMMA SessionSet ==
  ASSUME Own, NEW t \in Tabs, NEW k \in Issued, SetCurrentUserSession(t, k)
  PROVE  /\ AccountsFrom({k}) /\ PairsFrom({k})
         /\ accounts'[owner[k]] = k
         /\ stored' = Both(k) /\ cache'[t] = Both(k)
         /\ \A s \in Tabs \ {t} : cache'[s] = cache[s]
<1>1. k \in Token /\ owner[k] \in Users
  BY NullIsNoToken DEF Issued, Token, Own, ServerOK
<1> QED
  BY <1>1, NoPairIsAPair
     DEF SetCurrentUserSession, AccountsFrom, PairsFrom, Own, BrowserOK, CacheOK, AccountsOK

LEMMA NothingMoves ==
  ASSUME NEW N
  PROVE  /\ UNCHANGED accounts => AccountsFrom(N)
         /\ UNCHANGED <<stored, cache>> => PairsFrom(N)
         /\ UNCHANGED listed => ListsFrom
BY DEF AccountsFrom, PairsFrom, ListsFrom

LEMMA HeardIsAHearStep ==
  ASSUME Own, NEW c \in calls, Hear(c)
  PROVE  HearStep(c)
<1>1. /\ CallOK(c) /\ c \in Call /\ c.tab \in Tabs
      /\ c.at = "answered" => c.new \in Issued /\ c.new \in Tokens
      /\ c.at = "answered" /\ c.old # NoToken => owner[c.old] = owner[c.new]
  BY NullIsNoToken DEF Own, CallsOK, CallOK, Call, Real
<1>2. calls' = calls \ {c} /\ owner' = owner /\ rows' = rows /\ troubled' = troubled
  BY HearingsAre DEF Hearing, Server
<1>3. ASSUME c.at = "answered", SetCurrentUserSession(c.tab, c.new), ListsFrom
      PROVE  HearStep(c)
  <2>1. AccountsFrom({c.new}) /\ PairsFrom({c.new}) /\ accounts'[owner[c.new]] = c.new
    BY <1>1, <1>3, SessionSet
  <2>2. \A k \in Tokens : Kept(k)' => Kept(k) \/ k \in {c.new}
    BY <1>3, <2>1, KeptFrom
  <2> QED
    BY <1>1, <1>2, <1>3, <2>1, <2>2 DEF HearStep, AccountsFrom
<1>4. ASSUME c.at # "answered" \/ c.for = "none", AccountsFrom({}), PairsFrom({}), ListsFrom
      PROVE  HearStep(c)
  <2>1. \A k \in Tokens : Kept(k)' => Kept(k) \/ k \in {}
    BY <1>4, KeptFrom
  <2> QED
    BY <1>2, <1>4, <2>1 DEF HearStep, AccountsFrom
<1>5. CASE SessionRestored(c) \/ LoggedIn(c) \/ Refreshed(c) \/ Switched(c)
  <2>1. c.at = "answered" /\ SetCurrentUserSession(c.tab, c.new) /\ UNCHANGED listed
    BY <1>5 DEF SessionRestored, LoggedIn, Refreshed, Switched, Ends, Enter
  <2> QED
    BY <1>3, <2>1, NothingMoves
<1>6. CASE RestoreFailed(c) \/ RefreshRefused(c)
  <2>1. c.at # "answered" /\ ClearInvalidUserSession(c.tab) /\ Leave(c.tab)
    BY <1>6 DEF RestoreFailed, RefreshRefused, Ends
  <2> QED
    BY <1>1, <1>4, <2>1, SessionInvalidated, ListsLeft
<1>7. CASE RefreshFailed(c) \/ LoginFailed(c) \/ Forgotten(c)
  <2>1. /\ c.at # "answered" \/ c.for = "none"
        /\ UNCHANGED <<stored, accounts, cache, listed>>
    BY <1>7 DEF RefreshFailed, LoginFailed, Forgotten, Ends, Browser
  <2> QED
    BY <1>4, <2>1, NothingMoves
<1>8. CASE SwitchFailed(c)
  <2>1. c.at # "answered" /\ Remove({owner[c.old]}) /\ UNCHANGED <<stored, cache, listed>>
    BY <1>8 DEF SwitchFailed, Ends
  <2> QED
    BY <1>4, <2>1, NothingMoves, AccountsRemoved
<1> QED
  BY <1>5, <1>6, <1>7, <1>8 DEF Hear

LEMMA PageStepsAre ==
  ASSUME Own, owner' = owner, rows' = rows, troubled' = troubled,
         AccountsFrom({}), PairsFrom({}), ListsFrom,
         \/ calls' = calls
         \/ \E d \in Call : /\ calls' = calls \cup {d}
                            /\ d.for # "none" /\ d.at = "asked" /\ d.new = NoToken
                            /\ d.old = NoToken \/ Kept(d.old)
  PROVE  PageStep
<1>1. \A k \in Tokens : Kept(k)' => Kept(k) \/ k \in {}
  BY KeptFrom
<1>2. \A u \in Users : accounts'[u] # NoToken => accounts'[u] = accounts[u]
  BY DEF AccountsFrom
<1>3. \A d \in calls' :
         \/ d \in calls
         \/ /\ d.for # "none" /\ d.at = "asked" /\ d.new = NoToken
            /\ d.old = NoToken \/ Kept(d.old)
  OBVIOUS
<1>4. calls \subseteq calls'
  OBVIOUS
<1> QED
  BY <1>1, <1>2, <1>3, <1>4 DEF PageStep

LEMMA BootIsAPageStep ==
  ASSUME Own, NEW t \in Tabs, Boot(t)
  PROVE  PageStep
<1>1. AccountsFrom({}) /\ PairsFrom({}) /\ ListsFrom
  <2>1. \A u \in Users : Nobody[u] = NoToken
    BY DEF Nobody
  <2> QED
    BY <2>1 DEF Boot, AccountsFrom, PairsFrom, ListsFrom, Own, PageOK, BrowserOK, CacheOK
<1>2. \A k \in Tokens : Kept(k)' => Kept(k) \/ k \in {}
  BY <1>1, KeptFrom
<1>3. \A u \in Users : accounts'[u] # NoToken => accounts'[u] = accounts[u]
  BY BootedCalls
<1>4. \A c \in Mine(t) : c \in calls /\ c \in Call /\ c.tab = t
  BY DEF Mine, Own, CallsOK, CallOK
<1>5. stored.refresh \in Token
  BY DEF Own, BrowserOK, StoredOK, Pair
<1>6. \A c \in Mine(t) : c \notin calls' \/ c.new = NoToken
  <2> SUFFICES ASSUME NEW c \in Mine(t), c \in calls'
               PROVE  c.new = NoToken
    OBVIOUS
  <2>1. ~\E e \in Mine(t) : c = Silent(e)
    <3> SUFFICES ASSUME NEW e \in Mine(t), c = Silent(e)
                 PROVE  FALSE
      OBVIOUS
    <3>1. Silent(e).for = "none"
      BY <1>4 DEF Silent, Call
    <3> QED
      BY <3>1 DEF Mine
  <2>2. c = Ask(t, "boot", NoUser, stored.refresh)
    BY <2>1, BootedCalls
  <2> QED
    BY <1>5, <2>2, AskFields DEF Purpose
<1>7. \A d \in calls' :
         \/ d \in calls
         \/ \E c \in calls : /\ d = Silent(c)
                             /\ c \notin calls' \/ c.new = NoToken
                             /\ c.old # NoToken => owner[c.old] \in troubled'
         \/ /\ d.for # "none" /\ d.at = "asked" /\ d.new = NoToken
            /\ d.old = NoToken \/ Kept(d.old)
  <2> SUFFICES ASSUME NEW d \in calls', d \notin calls
               PROVE  \/ \E c \in calls : /\ d = Silent(c)
                                          /\ c \notin calls' \/ c.new = NoToken
                                          /\ c.old # NoToken => owner[c.old] \in troubled'
                      \/ /\ d.for # "none" /\ d.at = "asked" /\ d.new = NoToken
                         /\ d.old = NoToken \/ Kept(d.old)
    OBVIOUS
  <2>1. ASSUME NEW c \in Mine(t), d = Silent(c)
        PROVE  /\ c \in calls /\ d = Silent(c) /\ (c \notin calls' \/ c.new = NoToken)
               /\ c.old # NoToken => owner[c.old] \in troubled'
    BY <1>4, <1>6, <2>1, BootedCalls
  <2>2. ASSUME d = Ask(t, "boot", NoUser, stored.refresh)
        PROVE  /\ d.for # "none" /\ d.at = "asked" /\ d.new = NoToken
               /\ Kept(d.old)
    BY <1>5, <2>2, AskFields DEF Purpose, Kept
  <2> QED
    BY <2>1, <2>2, BootedCalls
<1>8. \A c \in calls : c \in calls' \/ (c.old # NoToken => owner[c.old] \in troubled')
  BY BootedCalls
<1> QED
  BY <1>2, <1>3, <1>7, <1>8, BootedCalls DEF PageStep

LEMMA CachingIsAPageStep ==
  ASSUME Own, NEW t \in Tabs, UNCHANGED stored,
         \/ cache' = [cache EXCEPT ![t].access = AccessOf(t)]
         \/ cache' = [cache EXCEPT ![t].refresh = RefreshOf(t)]
  PROVE  PairsFrom({})
BY DEF PairsFrom, RefreshOf, Own, BrowserOK, CacheOK, Pair

LEMMA AnswersArePageSteps ==
  ASSUME Own, NEW t \in Tabs, NEW q \in Requests, Answer(t, q)
  PROVE  PageStep
<1>1. CASE RequestAnswered(t, q)
  <2>1. UNCHANGED <<owner, rows, troubled, stored, accounts, cache, listed, calls>>
    BY <1>1 DEF RequestAnswered, Server, Browser
  <2> QED
    BY <2>1, NothingMoves, PageStepsAre
<1>2. CASE RefusedFirst(t, q)
  <2>1. UNCHANGED <<owner, rows, troubled, stored, accounts, listed>>
    BY <1>2 DEF RefusedFirst, Server
  <2>2. CASE MustRefresh(t)
    <3>1. /\ cache' = [cache EXCEPT ![t].refresh = RefreshOf(t)]
          /\ calls' = calls \cup {Ask(t, "flight", NoUser, RefreshOf(t))}
      BY <1>2, <2>2 DEF RefusedFirst
    <3>2. RefreshOf(t) \in Token /\ Kept(RefreshOf(t))
      BY TokensInUse DEF RefreshOf, Kept
    <3>3. /\ Ask(t, "flight", NoUser, RefreshOf(t)) \in Call
          /\ Ask(t, "flight", NoUser, RefreshOf(t)).for = "flight"
          /\ Ask(t, "flight", NoUser, RefreshOf(t)).at = "asked"
          /\ Ask(t, "flight", NoUser, RefreshOf(t)).new = NoToken
          /\ Ask(t, "flight", NoUser, RefreshOf(t)).old = RefreshOf(t)
      BY <3>2, AskFields DEF Purpose
    <3> QED
      BY <2>1, <3>1, <3>2, <3>3, NothingMoves, CachingIsAPageStep, PageStepsAre
  <2>3. CASE ~MustRefresh(t)
    <3>1. UNCHANGED <<cache, calls>>
      BY <1>2, <2>3 DEF RefusedFirst
    <3> QED
      BY <2>1, <3>1, NothingMoves, PageStepsAre
  <2> QED
    BY <2>2, <2>3
<1>3. CASE RefusedWithoutSession(t, q)
  <2>1. UNCHANGED <<owner, rows, troubled, calls>>
    BY <1>3 DEF RefusedWithoutSession, Server
  <2>2. ClearInvalidUserSession(t) /\ Leave(t)
    BY <1>3 DEF RefusedWithoutSession
  <2> QED
    BY <2>1, <2>2, SessionInvalidated, ListsLeft, PageStepsAre
<1>4. CASE RefusedAgain(t, q)
  <2>1. /\ UNCHANGED <<owner, rows, troubled, calls, accounts>>
        /\ ClearUserAccessToken(t) /\ Leave(t)
    BY <1>4 DEF RefusedAgain, AuthError, HandleLogout, Server
  <2> QED
    BY <2>1, NothingMoves, PairsCleared, ListsLeft, PageStepsAre
<1> QED
  BY <1>1, <1>2, <1>3, <1>4 DEF Answer

LEMMA ActsArePageSteps ==
  ASSUME Own, NEW t \in Tabs, UserActs(t) \/ Reload(t) \/ LogoutDue(t)
  PROVE  PageStep
<1>1. CASE OpenTab(t) \/ Reload(t)
  BY <1>1, BootIsAPageStep DEF OpenTab, Reload
<1>2. CASE Revisit(t)
  <2>1. /\ UNCHANGED <<owner, rows, troubled, stored, accounts, listed, calls>>
        /\ cache' = [cache EXCEPT ![t].access = AccessOf(t)]
    BY <1>2 DEF Revisit, Enter, Server
  <2> QED
    BY <2>1, NothingMoves, CachingIsAPageStep, PageStepsAre
<1>3. CASE Logout(t) \/ LogoutDue(t)
  <2>1. /\ UNCHANGED <<owner, rows, troubled, accounts, calls>>
        /\ ClearUserAccessToken(t) /\ Leave(t)
    BY <1>3 DEF Logout, LogoutDue, HandleLogout, Server
  <2> QED
    BY <2>1, NothingMoves, PairsCleared, ListsLeft, PageStepsAre
<1>4. CASE OpenControlCenter(t)
  <2>1. /\ UNCHANGED <<owner, rows, troubled, stored, accounts, cache, calls>>
        /\ listed' = [listed EXCEPT ![t] = accounts]
    BY <1>4 DEF OpenControlCenter, Server, Browser
  <2>2. ListsFrom
    BY <2>1 DEF ListsFrom, Own, PageOK
  <2> QED
    BY <2>1, <2>2, NothingMoves, PageStepsAre
<1>5. ASSUME NEW u \in Users, Login(t, u)
      PROVE  PageStep
  <2>1. /\ UNCHANGED <<owner, rows, troubled, stored, accounts, cache, listed>>
        /\ calls' = calls \cup {Ask(t, "login", u, NoToken)}
    BY <1>5 DEF Login, Server, Browser
  <2>2. /\ Ask(t, "login", u, NoToken) \in Call /\ Ask(t, "login", u, NoToken).for = "login"
        /\ Ask(t, "login", u, NoToken).at = "asked" /\ Ask(t, "login", u, NoToken).new = NoToken
        /\ Ask(t, "login", u, NoToken).old = NoToken
    BY AskFields DEF Purpose, Token
  <2> QED
    BY <2>1, <2>2, NothingMoves, PageStepsAre
<1>6. ASSUME NEW u \in Users, SwitchAccount(t, u)
      PROVE  PageStep
  <2> DEFINE d == Ask(t, "switch", u, listed[t][u])
  <2>1. /\ UNCHANGED <<owner, rows, troubled, stored, accounts, cache, listed>>
        /\ calls' = calls \cup {d}
    BY <1>6 DEF SwitchAccount, Server, Browser
  <2>2. listed[t][u] \in Token /\ Kept(listed[t][u])
    BY DEF Own, PageOK, Kept
  <2>3. d \in Call /\ d.for = "switch" /\ d.at = "asked" /\ d.new = NoToken /\ d.old = listed[t][u]
    BY <2>2, AskFields DEF Purpose
  <2> HIDE DEF d
  <2> QED
    BY <2>1, <2>2, <2>3, NothingMoves, PageStepsAre
<1>7. ASSUME NEW u \in Users, RemoveStoredAccount(t, u)
      PROVE  PageStep
  <2>1. /\ UNCHANGED <<owner, rows, troubled, stored, cache, listed, calls>>
        /\ Remove({u})
    BY <1>7 DEF RemoveStoredAccount, Server
  <2> QED
    BY <2>1, AccountsRemoved, NothingMoves, PageStepsAre
<1> QED
  BY <1>1, <1>2, <1>3, <1>4, <1>5, <1>6, <1>7 DEF UserActs

LEMMA QuietPagesArePageSteps ==
  ASSUME Own
  PROVE  /\ \A t \in Tabs, q \in Requests, for \in {"data", "username"} :
               SendRequest(t, q, for) => PageStep
         /\ \A t \in Tabs, q \in Requests : RequestFails(t, q) => PageStep
         /\ \A u \in Users : Disable(u) => PageStep
         /\ \A k \in Tokens : Expire(k) => PageStep
<1>1. ASSUME NEW t \in Tabs, NEW q \in Requests, NEW for \in {"data", "username"},
             SendRequest(t, q, for)
      PROVE  PageStep
  <2>1. /\ UNCHANGED <<owner, rows, troubled, stored, accounts, listed, calls>>
        /\ cache' = [cache EXCEPT ![t].access = AccessOf(t)]
    BY <1>1 DEF SendRequest, Server
  <2> QED
    BY <2>1, NothingMoves, CachingIsAPageStep, PageStepsAre
<1>2. ASSUME UNCHANGED <<owner, rows, troubled, stored, accounts, cache, listed, calls>>
      PROVE  PageStep
  BY <1>2, NothingMoves, PageStepsAre
<1>3. ASSUME NEW t \in Tabs, NEW q \in Requests, RequestFails(t, q)
      PROVE  PageStep
  BY <1>2, <1>3 DEF RequestFails, Server, Browser
<1>4. ASSUME NEW u \in Users, Disable(u)
      PROVE  PageStep
  BY <1>2, <1>4 DEF Disable, Browser
<1>5. ASSUME NEW k \in Tokens, Expire(k)
      PROVE  PageStep
  BY <1>2, <1>5 DEF Expire, Browser
<1> QED
  BY <1>1, <1>3, <1>4, <1>5

-----------------------------------------------------------------------------
(* What a page can have under way                                          *)

Quietly(t) == (\A q \in Requests : req[t][q].at = "idle") /\ due[t] = {}

(* A tab that is closed has nothing under way, one that boots only the     *)
(* refresh it boots with; there is one refresh at most of either kind; and *)
(* requests wait as long as a flight is there to wait for.                 *)
Orderly(t) ==
    /\ page[t] = "closed" => Mine(t) = {} /\ Quietly(t) /\ cache[t] = NoPair
    /\ page[t] = "boot" => (\A c \in Mine(t) : c.for = "boot") /\ Quietly(t)
    /\ \A c \in Mine(t) : c.for = "boot" => page[t] = "boot"
    /\ \A c, d \in Mine(t) : c.for = d.for /\ c.for \in {"boot", "flight"} => c = d
    /\ Flight(t) # {} <=> Waiting(t) # {}

(* What a tab that is alone shows, and what its requests carry.            *)
LoggedOut(t) ==
    /\ stored = NoPair /\ cache[t] = NoPair
    /\ \A c \in Mine(t) : c.for \in {"login", "switch"}
SignedIn(t) ==
    \E k \in Tokens :
        /\ stored = Both(k) /\ cache[t] = Both(k) /\ owner[k] = shown[t]
        /\ \/ shown[t] \in troubled \/ k \in rows
           \/ \E c \in Mine(t) : c.at = "answered" /\ c.old = k
        /\ \A c \in Flight(t) : owner[c.old] = shown[t]
OfItsUser(t, q) ==
    /\ page[t] = "app" /\ req[t][q].at # "idle" => req[t][q].user = shown[t]
    /\ UnderWay(t, q) => req[t][q].token # NoToken /\ owner[req[t][q].token] = req[t][q].user

Settled(t) ==
    Alone(t) => /\ page[t] = "login" => LoggedOut(t)
                /\ page[t] = "app" => SignedIn(t)
                /\ \A q \in Requests : OfItsUser(t, q)

Order   == \A t \in Tabs : Orderly(t)
Settles == \A t \in Tabs : Settled(t)

LEMMA CallsOfOpenTabs ==
  ASSUME Own, Order, NEW t \in Tabs, Alone(t), NEW c \in calls, c.for # "none"
  PROVE  c.tab = t /\ c \in Mine(t)
<1>1. c.tab \in Tabs /\ c \in Mine(c.tab)
  BY DEF Own, CallsOK, CallOK, Call, Mine
<1>2. page[c.tab] # "closed"
  BY <1>1 DEF Order, Orderly
<1> QED
  BY <1>1, <1>2 DEF Alone, Open

LEMMA HandlingKeepsOrder ==
  ASSUME Own, Order, NEW c \in calls, NEW d \in Call, Stepped(c, d), Elsewhere
  PROVE  Order'
<1> SUFFICES ASSUME NEW t \in Tabs
             PROVE  Orderly(t)'
  BY DEF Order
<1>1. Orderly(t)
  BY DEF Order
<1>2. page' = page /\ cache' = cache /\ req' = req /\ due' = due
  BY DEF Elsewhere
<1>3. Quietly(t)' = Quietly(t) /\ Waiting(t)' = Waiting(t)
  BY <1>2 DEF Quietly, Waiting
<1>4. CASE c \notin Mine(t)
  <2>1. Mine(t)' = Mine(t)
    BY <1>4 DEF Stepped, Mine
  <2> QED
    BY <1>1, <1>2, <1>3, <2>1 DEF Orderly, Flight
<1>5. CASE c \in Mine(t)
  <2>1. Mine(t)' = (Mine(t) \ {c}) \cup {d} /\ d.for = c.for
    BY <1>5 DEF Stepped, Mine
  <2>2. Flight(t)' # {} <=> Flight(t) # {}
    BY <1>5, <2>1 DEF Flight
  <2>3. \A e, f \in Mine(t)' : e.for = f.for /\ e.for \in {"boot", "flight"} => e = f
    BY <1>1, <1>5, <2>1 DEF Orderly
  <2>4. \A a \in {"boot"} : /\ (\A e \in Mine(t) : e.for = a) => (\A e \in Mine(t)' : e.for = a)
                            /\ (\E e \in Mine(t)' : e.for = a) => (\E e \in Mine(t) : e.for = a)
    BY <1>5, <2>1
  <2>5. page[t] # "closed"
    BY <1>1, <1>5 DEF Orderly
  <2> QED
    BY <1>1, <1>2, <1>3, <2>2, <2>3, <2>4, <2>5 DEF Orderly
<1> QED
  BY <1>4, <1>5

LEMMA HandlingKeepsTheTab ==
  ASSUME Own, Unheeded, Order, Settles, NEW c \in calls, NEW d \in Call, Stepped(c, d),
         Refusal(c, d) \/ Finding(c, d) \/ Renewal(c, d), Elsewhere
  PROVE  Settles'
<1> SUFFICES ASSUME NEW t \in Tabs, Alone(t)'
             PROVE  /\ page'[t] = "login" => LoggedOut(t)'
                    /\ page'[t] = "app" => SignedIn(t)'
                    /\ \A q \in Requests : OfItsUser(t, q)'
  BY DEF Settles, Settled
<1>1. /\ page' = page /\ stored' = stored /\ cache' = cache /\ shown' = shown /\ req' = req
      /\ crossed' = crossed
  BY DEF Elsewhere
<1>2. Alone(t) /\ Settled(t)
  BY <1>1 DEF Alone, Open, Settles
<1>3. /\ CallOK(c) /\ d.tab = c.tab /\ d.for = c.for /\ d.old = c.old
      /\ Mine(t)' = IF c \in Mine(t) THEN (Mine(t) \ {c}) \cup {d} ELSE Mine(t)
      /\ \A e \in Mine(t) : e \in calls /\ CallOK(e)
  BY DEF Own, CallsOK, Stepped, Mine
<1>4. /\ troubled \subseteq troubled' /\ \A k \in Issued : owner'[k] = owner[k]
  BY RenewalLasts DEF Refusal, Finding, Renewal, Lasting
<1>5. page[t] = "login" => LoggedOut(t)'
  BY <1>1, <1>2, <1>3 DEF Settled, LoggedOut
<1>6. ASSUME page[t] = "app"
      PROVE  SignedIn(t)'
  <2>1. PICK k \in Tokens :
           /\ stored = Both(k) /\ cache[t] = Both(k) /\ owner[k] = shown[t]
           /\ \/ shown[t] \in troubled \/ k \in rows
              \/ \E e \in Mine(t) : e.at = "answered" /\ e.old = k
           /\ \A e \in Flight(t) : owner[e.old] = shown[t]
    BY <1>2, <1>6 DEF Settled, SignedIn
  <2>2. k \in Issued /\ k # NoToken
    BY <2>1, NoPairIsAPair, NullIsNoToken DEF Own, BrowserOK, StoredOK, Real, Token
  <2>3. owner'[k] = shown[t]
    BY <1>4, <2>1, <2>2
  <2>4. \A e \in Flight(t)' : owner'[e.old] = shown[t]
    <3> SUFFICES ASSUME NEW e \in Flight(t)'
                 PROVE  owner'[e.old] = shown[t]
      OBVIOUS
    <3>1. \E f \in Flight(t) : e.old = f.old
      BY <1>3 DEF Flight
    <3>2. \A f \in Flight(t) : f.old \in Issued /\ owner[f.old] = shown[t]
      BY <1>3, <2>1 DEF Flight, CallOK, Real
    <3> QED
      BY <1>4, <3>1, <3>2
  <2>5. \/ shown[t] \in troubled' \/ k \in rows'
        \/ \E e \in Mine(t)' : e.at = "answered" /\ e.old = k
    <3>1. CASE shown[t] \in troubled
      BY <1>4, <3>1
    <3>2. CASE Renewal(c, d)
      <4>1. /\ c.at = "found" /\ d.at = "answered" /\ rows' = (rows \ {c.old}) \cup {d.new}
        BY <3>2 DEF Renewal
      <4>2. CASE c.old = k /\ c.for = "none"
        BY <1>4, <2>1, <2>2, <4>2 DEF Unheeded
      <4>3. CASE c.old = k /\ c.for # "none"
        <5>1. c \in Mine(t)
          BY <1>2, <4>3, CallsOfOpenTabs
        <5> QED
          BY <1>3, <4>1, <4>3, <5>1
      <4>4. CASE c.old # k
        BY <1>3, <1>4, <2>1, <4>1, <4>4
      <4> QED
        BY <4>2, <4>3, <4>4
    <3>3. CASE Refusal(c, d) /\ c.at = "answered" /\ c.old = k
      BY <2>1, <2>2, <3>3 DEF Refusal
    <3>4. CASE Refusal(c, d) /\ ~(c.at = "answered" /\ c.old = k)
      BY <1>3, <1>4, <2>1, <3>4 DEF Refusal
    <3>5. CASE Finding(c, d)
      BY <1>3, <1>4, <2>1, <3>5 DEF Finding
    <3> QED
      BY <3>2, <3>3, <3>4, <3>5
  <2> QED
    BY <1>1, <2>1, <2>3, <2>4, <2>5 DEF SignedIn
<1>7. \A q \in Requests : OfItsUser(t, q)'
  <2> SUFFICES ASSUME NEW q \in Requests
               PROVE  OfItsUser(t, q)'
    OBVIOUS
  <2>1. OfItsUser(t, q) /\ Real(req[t][q].token)
    BY <1>2 DEF Settled, Own, RequestsOK
  <2> QED
    BY <1>1, <1>4, <2>1 DEF OfItsUser, UnderWay, Real
<1> QED
  BY <1>1, <1>5, <1>6, <1>7

(* A step of one tab leaves what is the others' alone.                     *)
Others(t) ==
    \A s \in Tabs \ {t} :
        /\ page'[s] = page[s] /\ cache'[s] = cache[s] /\ req'[s] = req[s] /\ due'[s] = due[s]
        /\ Mine(s)' = Mine(s)

LEMMA OthersStayOrderly ==
  ASSUME Order, NEW t \in Tabs, Others(t), Orderly(t)'
  PROVE  Order'
<1> SUFFICES ASSUME NEW s \in Tabs, s # t
             PROVE  Orderly(s)'
  BY DEF Order
<1>1. /\ page'[s] = page[s] /\ cache'[s] = cache[s] /\ req'[s] = req[s] /\ due'[s] = due[s]
      /\ Mine(s)' = Mine(s)
  BY DEF Others
<1>2. Orderly(s)
  BY DEF Order
<1> QED
  BY <1>1, <1>2 DEF Orderly, Quietly, Flight, Waiting

LEMMA OneTabActs ==
  ASSUME Order, NEW t \in Tabs, Others(t), page[t] # "closed", page'[t] # "closed",
         t \in crossed => t \in crossed',
         Orderly(t)', Alone(t) => Settled(t)'
  PROVE  Order' /\ Settles'
<1>1. Order'
  BY OthersStayOrderly
<1>2. ASSUME NEW s \in Tabs, Alone(s)'
      PROVE  s = t
  BY <1>2 DEF Alone, Open
<1>3. Alone(t)' => Alone(t)
  BY DEF Alone, Open, Others
<1>4. Settles'
  <2> SUFFICES ASSUME NEW s \in Tabs, Alone(s)'
               PROVE  Settled(s)'
    BY DEF Settles, Settled
  <2> QED
    BY <1>2, <1>3
<1> QED
  BY <1>1, <1>4

LEMMA PagesOfATab ==
  ASSUME Own, NEW t \in Tabs
  PROVE  /\ Leave(t) => /\ page'[t] = "login" /\ shown'[t] = NoUser
                        /\ \A s \in Tabs \ {t} : page'[s] = page[s]
         /\ \A k : Enter(t, k) => /\ page'[t] = "app" /\ shown'[t] = owner[k]
                                  /\ \A s \in Tabs \ {t} : page'[s] = page[s]
         /\ ClearUserAccessToken(t) => /\ stored' = NoPair /\ cache'[t] = NoPair
                                       /\ \A s \in Tabs \ {t} : cache'[s] = cache[s]
BY DEF Leave, Enter, ClearUserAccessToken, Own, PageOK, BrowserOK, CacheOK

LEMMA HeardTouchesOneTab ==
  ASSUME Own, NEW c \in calls, Hear(c), c.for # "none"
  PROVE  /\ c.tab \in Tabs /\ c \in Mine(c.tab)
         /\ Others(c.tab) /\ Mine(c.tab)' = Mine(c.tab) \ {c}
         /\ c.tab \in crossed => c.tab \in crossed'
<1>1. c.tab \in Tabs /\ c \in Mine(c.tab)
  BY DEF Own, CallsOK, CallOK, Call, Mine
<1>2. calls' = calls \ {c} /\ owner' = owner
  BY HearingsAre DEF Hearing, Server
<1>3. /\ \A s \in Tabs \ {c.tab} : Mine(s)' = Mine(s)
      /\ Mine(c.tab)' = Mine(c.tab) \ {c}
  BY <1>2 DEF Mine
<1>4. c.at = "answered" => c.new \in Issued
  BY DEF Own, CallsOK, CallOK, Real
<1>5. \A s \in Tabs \ {c.tab} : page'[s] = page[s]
  BY <1>1, PagesOfATab
     DEF Hear, SessionRestored, RestoreFailed, Refreshed, RefreshRefused, RefreshFailed, LoggedIn,
         LoginFailed, Switched, SwitchFailed, Forgotten
<1>6. \A s \in Tabs \ {c.tab} : cache'[s] = cache[s]
  <2>1. CASE SessionRestored(c) \/ LoggedIn(c) \/ Refreshed(c) \/ Switched(c)
    <3>1. c.at = "answered" /\ SetCurrentUserSession(c.tab, c.new)
      BY <2>1 DEF SessionRestored, LoggedIn, Refreshed, Switched, Ends
    <3> QED
      BY <1>1, <1>4, <3>1, SessionSet
  <2>2. CASE RestoreFailed(c) \/ RefreshRefused(c)
    BY <1>1, <2>2, PagesOfATab DEF RestoreFailed, RefreshRefused, ClearInvalidUserSession
  <2>3. CASE RefreshFailed(c) \/ LoginFailed(c) \/ SwitchFailed(c) \/ Forgotten(c)
    BY <2>3 DEF RefreshFailed, LoginFailed, SwitchFailed, Forgotten, Browser
  <2> QED
    BY <2>1, <2>2, <2>3 DEF Hear
<1>7. \A s \in Tabs \ {c.tab} : req'[s] = req[s] /\ due'[s] = due[s]
  BY <1>1
     DEF Hear, SessionRestored, RestoreFailed, Refreshed, RefreshRefused, RefreshFailed, LoggedIn,
         LoginFailed, Switched, SwitchFailed, Forgotten, Own, RequestsOK, RestOK
<1>8. crossed \subseteq crossed'
  BY DEF Hear, SessionRestored, RestoreFailed, Refreshed, RefreshRefused, RefreshFailed, LoggedIn,
         LoginFailed, Switched, SwitchFailed, Forgotten, Crossing
<1> QED
  BY <1>1, <1>3, <1>5, <1>6, <1>7, <1>8 DEF Others

LEMMA BootIsAlone ==
  ASSUME NEW t \in Tabs, Orderly(t), NEW c \in Mine(t), c.for = "boot"
  PROVE  page[t] = "boot" /\ Mine(t) = {c} /\ Quietly(t) /\ Waiting(t) = {}
<1>1. page[t] = "boot"
  BY DEF Orderly
<1>2. Quietly(t) /\ \A d \in Mine(t) : d = c
  BY <1>1 DEF Orderly
<1> QED
  BY <1>1, <1>2 DEF Quietly, Waiting

(* A page without calls and requests is orderly.                           *)
LEMMA NothingIsOrderly ==
  ASSUME NEW t \in Tabs, page'[t] \in {"login", "app"}, Mine(t)' = {}, Waiting(t)' = {}
  PROVE  Orderly(t)'
BY DEF Orderly, Flight

LEMMA AnswersAreNews ==
  ASSUME Own, Fresh, NEW c \in calls, c.at = "answered"
  PROVE  /\ c.new \in rows /\ c.new \in Issued /\ c.new \in Tokens
         /\ c.old # NoToken => owner[c.old] = owner[c.new]
BY NullIsNoToken DEF Own, CallsOK, CallOK, Real, Fresh

LEMMA RestoredKeepsTheTab ==
  ASSUME Own, Fresh, Order, NEW c \in calls, SessionRestored(c) \/ RestoreFailed(c),
         Hear(c)
  PROVE  /\ page[c.tab] # "closed" /\ page'[c.tab] # "closed"
         /\ Orderly(c.tab)' /\ Settled(c.tab)'
<1> DEFINE t == c.tab
<1>1. /\ t \in Tabs /\ c \in Mine(t) /\ Mine(t)' = Mine(t) \ {c} /\ c.for = "boot"
      /\ owner' = owner /\ rows' = rows /\ req' = req
  BY HeardTouchesOneTab, HearingsAre
     DEF SessionRestored, RestoreFailed, Ends, Hearing, Server
<1>2. page[t] = "boot" /\ Mine(t)' = {} /\ Quietly(t) /\ Waiting(t) = {}
  BY <1>1, BootIsAlone DEF Order
<1>3. Waiting(t)' = {} /\ \A q \in Requests : req'[t][q].at = "idle"
  BY <1>1, <1>2 DEF Waiting, Quietly
<1>4. CASE SessionRestored(c)
  <2>1. c.at = "answered" /\ SetCurrentUserSession(t, c.new) /\ Enter(t, c.new)
    BY <1>4 DEF SessionRestored, Ends
  <2>2. c.new \in rows /\ c.new \in Issued /\ c.new \in Tokens
    BY <2>1, AnswersAreNews
  <2>3. page'[t] = "app" /\ shown'[t] = owner[c.new]
    BY <1>1, <2>1, PagesOfATab
  <2>4. stored' = Both(c.new) /\ cache'[t] = Both(c.new)
    BY <1>1, <2>1, <2>2, SessionSet
  <2>5. SignedIn(t)'
    BY <1>1, <1>2, <2>2, <2>3, <2>4 DEF SignedIn, Flight
  <2> QED
    BY <1>1, <1>2, <1>3, <2>3, <2>5, NothingIsOrderly DEF Settled, OfItsUser, UnderWay
<1>5. CASE RestoreFailed(c)
  <2>1. ClearUserAccessToken(t) /\ Leave(t)
    BY <1>5 DEF RestoreFailed, ClearInvalidUserSession
  <2>2. page'[t] = "login" /\ stored' = NoPair /\ cache'[t] = NoPair
    BY <1>1, <2>1, PagesOfATab
  <2> QED
    BY <1>1, <1>2, <1>3, <2>2, NothingIsOrderly DEF Settled, LoggedOut, OfItsUser, UnderWay
<1> QED
  BY <1>4, <1>5

(* Once a flight is over, none is left.                                    *)
LEMMA FlightIsOver ==
  ASSUME NEW t \in Tabs, Orderly(t), NEW c \in Mine(t), c.for = "flight",
         Mine(t)' = Mine(t) \ {c}
  PROVE  /\ Flight(t)' = {}
         /\ page[t] \in Page => page[t] \in {"login", "app"}
         /\ \A d \in Mine(t) : d.for # "boot"
         /\ \A e, f \in Mine(t)' : e.for = f.for /\ e.for \in {"boot", "flight"} => e = f
<1>1. page[t] # "closed" /\ page[t] # "boot"
  BY DEF Orderly
<1>2. \A d \in Mine(t) : d.for # "boot"
  BY <1>1 DEF Orderly
<1>3. Flight(t)' = {}
  BY DEF Orderly, Flight
<1>4. \A e, f \in Mine(t)' : e.for = f.for /\ e.for \in {"boot", "flight"} => e = f
  BY DEF Orderly
<1> QED
  BY <1>1, <1>2, <1>3, <1>4 DEF Page

LEMMA RefreshedKeepsTheTab ==
  ASSUME Own, Fresh, Order, Settles, NEW c \in calls, Refreshed(c), Hear(c)
  PROVE  /\ page[c.tab] # "closed" /\ page'[c.tab] # "closed"
         /\ Orderly(c.tab)' /\ (Alone(c.tab) => Settled(c.tab)')
<1> DEFINE t == c.tab
<1>1. /\ t \in Tabs /\ c \in Mine(t) /\ Mine(t)' = Mine(t) \ {c} /\ c.for = "flight"
      /\ c.at = "answered" /\ owner' = owner /\ rows' = rows
      /\ page' = page /\ shown' = shown
  BY HeardTouchesOneTab, HearingsAre DEF Refreshed, Ends, Hearing, Server
<1>2. Orderly(t) /\ page[t] \in Page
  BY <1>1 DEF Order, Own, PageOK
<1>3. /\ Flight(t)' = {} /\ page[t] \in {"login", "app"}
      /\ \A d \in Mine(t) : d.for # "boot"
      /\ \A e, f \in Mine(t)' : e.for = f.for /\ e.for \in {"boot", "flight"} => e = f
  BY <1>1, <1>2, FlightIsOver
<1>4. req' = [req EXCEPT ![c.tab] = Resumed(c)]
  BY <1>1 DEF Refreshed, Resumed, PutOff, Own, RequestsOK
<1>5. /\ c.new \in rows /\ c.new \in Issued /\ c.new \in Tokens /\ c.new # NoToken
      /\ c.old # NoToken /\ owner[c.old] = owner[c.new]
  BY <1>1, AnswersAreNews, NullIsNoToken DEF Own, CallsOK, CallOK
<1>6. \A p \in Requests :
         /\ p \in Waiting(t) => /\ req'[t][p].at = "again" /\ req'[t][p].token = c.new
                                /\ req'[t][p].user = req[t][p].user
         /\ p \notin Waiting(t) => req'[t][p] = req[t][p]
  <2>0. \A s \in Tabs, p \in Requests :
           req'[s][p] = IF s = c.tab /\ p \in Waiting(s)
                        THEN PutOff(req[s][p], "again", c.new) ELSE req[s][p]
    BY <1>1, <1>4, ResumingIsSound
  <2> TAKE p \in Requests
  <2>1. req'[t][p] = IF p \in Waiting(t) THEN PutOff(req[t][p], "again", c.new) ELSE req[t][p]
    BY <1>1, <2>0
  <2>2. /\ PutOff(req[t][p], "again", c.new).at = "again"
        /\ PutOff(req[t][p], "again", c.new).token = c.new
        /\ PutOff(req[t][p], "again", c.new).user = req[t][p].user
    <3>1. req[t][p] \in Request
      BY <1>1 DEF Own, RequestsOK
    <3>2. c.new \in Token /\ "again" \in {"idle", "sent", "waits", "again"}
      BY <1>5 DEF Token
    <3> QED
      BY <3>1, <3>2, RequestFields
  <2> QED
    BY <2>1, <2>2
<1>7. Waiting(t)' = {}
  BY <1>6 DEF Waiting
<1>8. Orderly(t)'
  BY <1>1, <1>3, <1>7 DEF Orderly
<1>9. ASSUME Alone(t)
      PROVE  Settled(t)'
  <2>1. Settled(t)
    BY <1>1 DEF Settles
  <2>2. page[t] = "app"
    BY <1>1, <1>3, <1>9, <2>1 DEF Settled, LoggedOut
  <2>3. owner[c.new] = shown[t]
    BY <1>1, <1>5, <1>9, <2>1, <2>2 DEF Settled, SignedIn, Flight
  <2>4. SetCurrentUserSession(t, c.new)
    BY DEF Refreshed
  <2>5. stored' = Both(c.new) /\ cache'[t] = Both(c.new)
    BY <1>1, <1>5, <2>4, SessionSet
  <2>6. SignedIn(t)'
    BY <1>1, <1>3, <1>5, <2>3, <2>5 DEF SignedIn
  <2>7. \A q \in Requests : OfItsUser(t, q)'
    <3> SUFFICES ASSUME NEW q \in Requests
                 PROVE  OfItsUser(t, q)'
      OBVIOUS
    <3>1. OfItsUser(t, q)
      BY <1>9, <2>1 DEF Settled
    <3>2. CASE q \in Waiting(t)
      <4>1. req[t][q].user = shown[t]
        BY <2>2, <3>1, <3>2 DEF OfItsUser, Waiting
      <4> QED
        BY <1>1, <1>5, <1>6, <2>3, <3>2, <4>1 DEF OfItsUser
    <3>3. CASE q \notin Waiting(t)
      BY <1>1, <1>6, <3>1, <3>3 DEF OfItsUser, UnderWay
    <3> QED
      BY <3>2, <3>3
  <2> QED
    BY <1>1, <2>2, <2>6, <2>7 DEF Settled
<1> QED
  BY <1>1, <1>3, <1>8, <1>9

LEMMA GaveUpKeepsTheTab ==
  ASSUME Own, Order, Settles, NEW c \in calls, RefreshRefused(c) \/ RefreshFailed(c), Hear(c)
  PROVE  /\ page[c.tab] # "closed" /\ page'[c.tab] # "closed"
         /\ Orderly(c.tab)' /\ (Alone(c.tab) => Settled(c.tab)')
<1> DEFINE t == c.tab
<1>1. /\ t \in Tabs /\ c \in Mine(t) /\ Mine(t)' = Mine(t) \ {c} /\ c.for = "flight"
      /\ c.at # "answered" /\ owner' = owner /\ rows' = rows /\ troubled' = troubled
  BY HeardTouchesOneTab, HearingsAre DEF RefreshRefused, RefreshFailed, Ends, Hearing, Server
<1>2. Orderly(t) /\ page[t] \in Page
  BY <1>1 DEF Order, Own, PageOK
<1>3. /\ Flight(t)' = {} /\ page[t] \in {"login", "app"}
      /\ \A d \in Mine(t) : d.for # "boot"
      /\ \A e, f \in Mine(t)' : e.for = f.for /\ e.for \in {"boot", "flight"} => e = f
  BY <1>1, <1>2, FlightIsOver
<1>4. \A p \in Requests : req'[t][p] = IF p \in Waiting(t) THEN IdleRequest ELSE req[t][p]
  <2>1. req' = [req EXCEPT ![t] = GivenUp(t, Waiting(t))]
    BY <1>1 DEF RefreshRefused, RefreshFailed, GivenUp, Own, RequestsOK
  <2>2. req'[t] = GivenUp(t, Waiting(t))
    BY <1>1, <2>1 DEF Own, RequestsOK
  <2> QED
    BY <2>2 DEF GivenUp
<1>5. \A p \in Requests : req'[t][p].at = "idle" \/ (req'[t][p] = req[t][p] /\ req[t][p].at # "waits")
  BY <1>4, RequestFields DEF Waiting
<1>6. Waiting(t)' = {}
  BY <1>5 DEF Waiting
<1>7. CASE RefreshRefused(c)
  <2>1. ClearUserAccessToken(t) /\ Leave(t)
    BY <1>7 DEF RefreshRefused, ClearInvalidUserSession
  <2>2. page'[t] = "login" /\ stored' = NoPair /\ cache'[t] = NoPair
    BY <1>1, <2>1, PagesOfATab
  <2>3. Orderly(t)'
    BY <1>1, <1>3, <1>6, <2>2 DEF Orderly
  <2>4. ASSUME Alone(t)
        PROVE  Settled(t)'
    <3>1. \A d \in Mine(t)' : d.for \in {"login", "switch"}
      <4> SUFFICES ASSUME NEW d \in Mine(t)'
                   PROVE  d.for \in {"login", "switch"}
        OBVIOUS
      <4>1. d \in calls /\ d.for # "none" /\ d.for # "boot"
        BY <1>1, <1>3 DEF Mine
      <4>2. d.for # "flight"
        BY <1>3 DEF Flight
      <4> QED
        BY <4>1, <4>2 DEF Own, CallsOK, CallOK, Call, Purpose
    <3>2. \A q \in Requests : OfItsUser(t, q)
      BY <1>1, <2>4 DEF Settles, Settled
    <3> QED
      BY <1>1, <1>5, <2>2, <3>1, <3>2 DEF Settled, LoggedOut, OfItsUser, UnderWay
  <2> QED
    BY <1>3, <2>2, <2>3, <2>4
<1>8. CASE RefreshFailed(c)
  <2>1. UNCHANGED <<stored, cache, page, shown>>
    BY <1>8 DEF RefreshFailed, Browser
  <2>2. Orderly(t)'
    BY <1>1, <1>3, <1>6, <2>1 DEF Orderly
  <2>3. ASSUME Alone(t)
        PROVE  Settled(t)'
    <3>1. Settled(t)
      BY <1>1 DEF Settles
    <3>2. page[t] = "app"
      BY <1>1, <1>3, <2>3, <3>1 DEF Settled, LoggedOut
    <3>3. SignedIn(t)'
      <4>1. SignedIn(t)
        BY <2>3, <3>1, <3>2 DEF Settled
      <4>2. PICK k \in Tokens :
               /\ stored = Both(k) /\ cache[t] = Both(k) /\ owner[k] = shown[t]
               /\ \/ shown[t] \in troubled \/ k \in rows
                  \/ \E d \in Mine(t) : d.at = "answered" /\ d.old = k
        BY <4>1 DEF SignedIn
      <4> QED
        BY <1>1, <1>3, <2>1, <4>2 DEF SignedIn
    <3>4. \A q \in Requests : OfItsUser(t, q)'
      BY <1>1, <1>5, <2>1, <2>3, <3>1 DEF Settled, OfItsUser, UnderWay
    <3> QED
      BY <2>1, <3>2, <3>3, <3>4 DEF Settled
  <2> QED
    BY <1>3, <2>1, <2>2, <2>3
<1> QED
  BY <1>7, <1>8

(* The other calls leave the order of a page: they are neither the refresh *)
(* it boots with nor a flight.                                             *)
LEMMA LoginsAndSwitchesAreOrderly ==
  ASSUME NEW t \in Tabs, Orderly(t), NEW c \in Mine(t), c.for \in {"login", "switch"},
         Mine(t)' = Mine(t) \ {c}, req' = req, page'[t] \in {"app", page[t]}
  PROVE  page[t] # "closed" /\ page[t] # "boot" /\ Orderly(t)'
<1>1. page[t] # "closed" /\ page[t] # "boot"
  BY DEF Orderly
<1>2. \A d \in Mine(t) : d.for # "boot"
  BY <1>1 DEF Orderly
<1>3. Flight(t)' = Flight(t) /\ Waiting(t)' = Waiting(t)
  BY DEF Flight, Waiting
<1> QED
  BY <1>1, <1>2, <1>3 DEF Orderly

LEMMA LoginKeepsTheTab ==
  ASSUME Own, Fresh, Order, Settles, NEW c \in calls, LoggedIn(c) \/ LoginFailed(c), Hear(c)
  PROVE  /\ page[c.tab] # "closed" /\ page'[c.tab] # "closed"
         /\ Orderly(c.tab)' /\ (Alone(c.tab) => Settled(c.tab)')
<1> DEFINE t == c.tab
<1>1. /\ t \in Tabs /\ c \in Mine(t) /\ Mine(t)' = Mine(t) \ {c} /\ c.for = "login"
      /\ owner' = owner /\ rows' = rows /\ troubled' = troubled /\ req' = req
  BY HeardTouchesOneTab, HearingsAre DEF LoggedIn, LoginFailed, Ends, Hearing, Server
<1>2. page'[t] \in {"app", page[t]}
  BY <1>1, PagesOfATab DEF LoggedIn, LoginFailed
<1>3. page[t] # "closed" /\ page[t] # "boot" /\ Orderly(t)'
  BY <1>1, <1>2, LoginsAndSwitchesAreOrderly DEF Order
<1>4. CASE LoggedIn(c)
  <2>1. c.at = "answered" /\ SetCurrentUserSession(t, c.new) /\ Enter(t, c.new)
    BY <1>4 DEF LoggedIn, Ends
  <2>2. c.new \in rows /\ c.new \in Issued /\ c.new \in Tokens
    BY <2>1, AnswersAreNews
  <2>3. page'[t] = "app" /\ shown'[t] = owner[c.new]
    BY <1>1, <2>1, PagesOfATab
  <2>4. stored' = Both(c.new) /\ cache'[t] = Both(c.new)
    BY <1>1, <2>1, <2>2, SessionSet
  <2>5. ASSUME Alone(t)'
        PROVE  Settled(t)'
    <3>1. Mine(t)' = {} /\ \A q \in Requests : req[t][q].at = "idle"
      BY <1>1, <1>4, <2>5 DEF LoggedIn, Crossing, Alone
    <3> QED
      BY <1>1, <2>2, <2>3, <2>4, <3>1 DEF Settled, SignedIn, Flight, OfItsUser, UnderWay
  <2>6. Settled(t)'
    BY <2>5 DEF Settled
  <2> QED
    BY <1>3, <2>3, <2>6
<1>5. CASE LoginFailed(c)
  <2>1. /\ UNCHANGED <<stored, cache, page, shown>>
        /\ c.at # "answered"
    BY <1>5 DEF LoginFailed, Ends, Browser
  <2>2. ASSUME Alone(t)
        PROVE  Settled(t)'
    <3>1. Settled(t)
      BY <1>1 DEF Settles
    <3>2. page[t] = "login" => LoggedOut(t)'
      BY <1>1, <2>1, <2>2, <3>1 DEF Settled, LoggedOut
    <3>3. page[t] = "app" => SignedIn(t)'
      BY <1>1, <2>1, <2>2, <3>1 DEF Settled, SignedIn, Flight
    <3>4. \A q \in Requests : OfItsUser(t, q)'
      BY <1>1, <2>1, <2>2, <3>1 DEF Settled, OfItsUser, UnderWay
    <3> QED
      BY <2>1, <3>2, <3>3, <3>4 DEF Settled
  <2> QED
    BY <1>3, <2>1, <2>2
<1> QED
  BY <1>4, <1>5

LEMMA SwitchKeepsTheTab ==
  ASSUME Own, Fresh, Order, Settles, NEW c \in calls, Switched(c) \/ SwitchFailed(c), Hear(c)
  PROVE  /\ page[c.tab] # "closed" /\ page'[c.tab] # "closed"
         /\ Orderly(c.tab)' /\ (Alone(c.tab) => Settled(c.tab)')
<1> DEFINE t == c.tab
<1>1. /\ t \in Tabs /\ c \in Mine(t) /\ Mine(t)' = Mine(t) \ {c} /\ c.for = "switch"
      /\ owner' = owner /\ rows' = rows /\ troubled' = troubled
      /\ req' = req /\ page' = page /\ shown' = shown
  BY HeardTouchesOneTab, HearingsAre DEF Switched, SwitchFailed, Ends, Hearing, Server
<1>2. page[t] # "closed" /\ page[t] # "boot" /\ Orderly(t)'
  BY <1>1, LoginsAndSwitchesAreOrderly DEF Order
<1>3. CASE Switched(c)
  BY <1>1, <1>2, <1>3 DEF Switched, Settled, Alone
<1>4. CASE SwitchFailed(c)
  <2>1. UNCHANGED <<stored, cache>> /\ c.at # "answered"
    BY <1>4 DEF SwitchFailed, Ends
  <2>2. ASSUME Alone(t)
        PROVE  Settled(t)'
    <3>1. Settled(t)
      BY <1>1 DEF Settles
    <3>2. page[t] = "login" => LoggedOut(t)'
      BY <1>1, <2>1, <2>2, <3>1 DEF Settled, LoggedOut
    <3>3. page[t] = "app" => SignedIn(t)'
      BY <1>1, <2>1, <2>2, <3>1 DEF Settled, SignedIn, Flight
    <3>4. \A q \in Requests : OfItsUser(t, q)'
      BY <1>1, <2>2, <3>1 DEF Settled, OfItsUser, UnderWay
    <3> QED
      BY <1>1, <3>2, <3>3, <3>4 DEF Settled
  <2> QED
    BY <1>1, <1>2, <2>2
<1> QED
  BY <1>3, <1>4

LEMMA HearingKeepsTheTab ==
  ASSUME Own, Fresh, Order, Settles, NEW c \in calls, Hear(c)
  PROVE  Order' /\ Settles'
<1>1. CASE Forgotten(c)
  <2>1. /\ UNCHANGED <<stored, cache, page, shown, req, due, crossed>>
        /\ c.for = "none"
    BY <1>1 DEF Forgotten, Browser
  <2>2. calls' = calls \ {c} /\ owner' = owner /\ rows' = rows /\ troubled' = troubled
    BY HearingsAre DEF Hearing, Server
  <2>3. \A t \in Tabs : Mine(t)' = Mine(t)
    BY <2>1, <2>2 DEF Mine
  <2>4. Order'
    BY <2>1, <2>3 DEF Order, Orderly, Quietly, Flight, Waiting
  <2>5. \A t \in Tabs : Alone(t)' <=> Alone(t)
    BY <2>1 DEF Alone, Open
  <2>6. ASSUME NEW t \in Tabs, Alone(t)
        PROVE  /\ page'[t] = "login" => LoggedOut(t)'
               /\ page'[t] = "app" => SignedIn(t)'
               /\ \A q \in Requests : OfItsUser(t, q)'
    <3>1. Settled(t)
      BY DEF Settles
    <3> QED
      BY <2>1, <2>2, <2>3, <2>6, <3>1 DEF Settled, LoggedOut, SignedIn, Flight, OfItsUser, UnderWay
  <2> QED
    BY <2>4, <2>5, <2>6 DEF Settles, Settled
<1>2. CASE c.for = "none" /\ ~Forgotten(c)
  BY <1>2 DEF Hear, SessionRestored, RestoreFailed, Refreshed, RefreshRefused, RefreshFailed,
              LoggedIn, LoginFailed, Switched, SwitchFailed, Ends
<1>3. CASE c.for # "none"
  <2>1. c.tab \in Tabs /\ Others(c.tab) /\ (c.tab \in crossed => c.tab \in crossed')
    BY <1>3, HeardTouchesOneTab
  <2>2. /\ page[c.tab] # "closed" /\ page'[c.tab] # "closed"
        /\ Orderly(c.tab)' /\ (Alone(c.tab) => Settled(c.tab)')
    <3>1. ~Forgotten(c)
      BY <1>3 DEF Forgotten
    <3> QED
      BY <3>1, RestoredKeepsTheTab, RefreshedKeepsTheTab, GaveUpKeepsTheTab, LoginKeepsTheTab,
         SwitchKeepsTheTab DEF Hear
  <2> QED
    BY <2>1, <2>2, OneTabActs
<1> QED
  BY <1>1, <1>2, <1>3

-----------------------------------------------------------------------------
(* The page that has heard nothing                                         *)

LEMMA BootKeepsTheTab ==
  ASSUME Own, Order, Settles, NEW t \in Tabs, Boot(t)
  PROVE  Order' /\ Settles'
<1>1. /\ owner' = owner /\ rows' = rows /\ stored' = stored
      /\ stored.refresh \in Token /\ stored.access = stored.refresh
  BY BootedCalls DEF Own, BrowserOK, StoredOK, Pair
<1>2. /\ \A s \in Tabs \ {t} : page'[s] = page[s] /\ cache'[s] = cache[s] /\ req'[s] = req[s]
                               /\ due'[s] = due[s]
      /\ page'[t] = IF stored.refresh = NoToken THEN "login" ELSE "boot"
      /\ cache'[t] = [access |-> NoToken, refresh |-> stored.refresh]
      /\ \A q \in Requests : req'[t][q] = IdleRequest
      /\ due'[t] = {}
  BY DEF Boot, Own, PageOK, BrowserOK, CacheOK, RequestsOK, RestOK
<1>3. \A c \in calls : c \in Call /\ Silent(c).for = "none" /\ Silent(c).tab = c.tab
  <2>1. \A c \in calls : c \in Call
    BY DEF Own, CallsOK, CallOK
  <2> QED
    BY <2>1 DEF Silent, Call, Purpose
<1>4. LET a == Ask(t, "boot", NoUser, stored.refresh)
      IN a.tab = t /\ a.for = "boot"
  BY <1>1, AskFields DEF Purpose
<1>5. \A s \in Tabs \ {t} : Mine(s)' = Mine(s)
  <2> SUFFICES ASSUME NEW s \in Tabs, s # t
               PROVE  Mine(s)' = Mine(s)
    OBVIOUS
  <2>1. \A d \in Mine(s)' : d \in Mine(s)
    BY <1>3, <1>4, BootedCalls DEF Mine
  <2>2. \A d \in Mine(s) : d \in Mine(s)'
    BY BootedCalls DEF Mine
  <2> QED
    BY <2>1, <2>2
<1>6. \A d \in Mine(t)' : /\ stored.refresh # NoToken
                          /\ d = Ask(t, "boot", NoUser, stored.refresh)
  BY <1>3, BootedCalls DEF Mine
<1>7. Quietly(t)' /\ Waiting(t)' = {} /\ Flight(t)' = {}
  <2>1. Flight(t)' = {}
    BY <1>4, <1>6 DEF Flight
  <2> QED
    BY <1>2, <2>1, RequestFields DEF Quietly, Waiting
<1>8. Order'
  <2>1. Orderly(t)'
    BY <1>2, <1>4, <1>6, <1>7 DEF Orderly
  <2>2. Others(t)
    BY <1>2, <1>5 DEF Others
  <2> QED
    BY <2>1, <2>2, OthersStayOrderly
<1>9. Settles'
  <2> SUFFICES ASSUME NEW s \in Tabs, Alone(s)'
               PROVE  Settled(s)'
    BY DEF Settles, Settled
  <2>1. s = t
    BY <1>2 DEF Alone, Open
  <2>2. \A q \in Requests : OfItsUser(t, q)'
    BY <1>7 DEF OfItsUser, UnderWay, Quietly
  <2>3. page'[t] = "login" => LoggedOut(t)'
    <3> SUFFICES ASSUME page'[t] = "login"
                 PROVE  LoggedOut(t)'
      OBVIOUS
    <3>1. stored.refresh = NoToken /\ Mine(t)' = {}
      BY <1>2, <1>6
    <3>2. stored = NoPair /\ cache'[t] = NoPair
      BY <1>1, <1>2, <3>1 DEF Own, BrowserOK, StoredOK, Pair, NoPair
    <3> QED
      BY <1>1, <3>1, <3>2 DEF LoggedOut
  <2>4. page'[t] # "app"
    BY <1>2
  <2> QED
    BY <2>1, <2>2, <2>3, <2>4 DEF Settled
<1> QED
  BY <1>8, <1>9

LEMMA StillPagesStay ==
  ASSUME Order, Settles,
         UNCHANGED <<owner, rows, troubled, stored, cache, page, shown, req, due, crossed, calls>>
  PROVE  Order' /\ Settles'
<1>1. \A t \in Tabs : Mine(t)' = Mine(t) /\ (Alone(t)' <=> Alone(t))
  BY DEF Mine, Alone, Open
<1>2. Order'
  BY <1>1 DEF Order, Orderly, Quietly, Flight, Waiting
<1>3. ASSUME NEW t \in Tabs, Alone(t)
      PROVE  /\ page'[t] = "login" => LoggedOut(t)'
             /\ page'[t] = "app" => SignedIn(t)'
             /\ \A q \in Requests : OfItsUser(t, q)'
  <2>1. Settled(t)
    BY DEF Settles
  <2> QED
    BY <1>1, <1>3, <2>1 DEF Settled, LoggedOut, SignedIn, Flight, OfItsUser, UnderWay
<1> QED
  BY <1>1, <1>2, <1>3 DEF Settles, Settled

(* One more call of a page: it stays in order if the call is its only      *)
(* flight, or neither a flight nor that of a page that boots.              *)
LEMMA AskedCalls ==
  ASSUME Own, NEW t \in Tabs, NEW d, d.tab = t, d.for # "none", calls' = calls \cup {d}
  PROVE  Mine(t)' = Mine(t) \cup {d} /\ \A s \in Tabs \ {t} : Mine(s)' = Mine(s)
BY DEF Mine

LEMMA AskingKeepsTheTab ==
  ASSUME Own, Order, Settles, NEW t \in Tabs, NEW d \in Call,
         d.tab = t, d.for \in {"login", "switch"}, d.at = "asked", calls' = calls \cup {d},
         page[t] \in {"login", "app"},
         UNCHANGED <<owner, rows, troubled, stored, cache, page, shown, req, due, crossed>>
  PROVE  Order' /\ Settles'
<1>1. Mine(t)' = Mine(t) \cup {d} /\ \A s \in Tabs \ {t} : Mine(s)' = Mine(s)
  BY AskedCalls
<1>2. Others(t)
  BY <1>1 DEF Others
<1>3. Flight(t)' = Flight(t) /\ Waiting(t)' = Waiting(t)
  BY <1>1 DEF Flight, Waiting
<1>4. Orderly(t)'
  <2>1. Orderly(t)
    BY DEF Order
  <2> QED
    BY <1>1, <1>3, <2>1 DEF Orderly
<1>5. ASSUME Alone(t)
      PROVE  Settled(t)'
  <2>1. Settled(t)
    BY DEF Settles
  <2>2. page[t] = "login" => LoggedOut(t)'
    BY <1>1, <1>5, <2>1 DEF Settled, LoggedOut
  <2>3. page[t] = "app" => SignedIn(t)'
    BY <1>1, <1>3, <1>5, <2>1 DEF Settled, SignedIn
  <2>4. \A q \in Requests : OfItsUser(t, q)'
    BY <1>5, <2>1 DEF Settled, OfItsUser, UnderWay
  <2> QED
    BY <2>2, <2>3, <2>4 DEF Settled
<1> QED
  BY <1>2, <1>4, <1>5, OneTabActs

LEMMA AsksKeepTheTab ==
  ASSUME Own, Order, Settles, NEW t \in Tabs, NEW u \in Users,
         Login(t, u) \/ SwitchAccount(t, u)
  PROVE  Order' /\ Settles'
<1>1. UNCHANGED <<owner, rows, troubled, stored, cache, page, shown, req, due, crossed>>
  BY DEF Login, SwitchAccount, Server, Browser
<1>2. CASE Login(t, u)
  <2> DEFINE d == Ask(t, "login", u, NoToken)
  <2>1. calls' = calls \cup {d} /\ page[t] = "login"
    BY <1>2 DEF Login
  <2>2. d \in Call /\ d.tab = t /\ d.for = "login" /\ d.at = "asked"
    BY AskFields DEF Purpose, Token
  <2> HIDE DEF d
  <2> QED
    BY <1>1, <2>1, <2>2, AskingKeepsTheTab
<1>3. CASE SwitchAccount(t, u)
  <2> DEFINE d == Ask(t, "switch", u, listed[t][u])
  <2>1. calls' = calls \cup {d} /\ page[t] = "app"
    BY <1>3 DEF SwitchAccount, Offers
  <2>2. listed[t][u] \in Token
    BY DEF Own, PageOK
  <2>3. d \in Call /\ d.tab = t /\ d.for = "switch" /\ d.at = "asked"
    BY <2>2, AskFields DEF Purpose
  <2> HIDE DEF d
  <2> QED
    BY <1>1, <2>1, <2>3, AskingKeepsTheTab
<1> QED
  BY <1>2, <1>3

(* A tab that signs out is alone only if nothing was under way.            *)
LEMMA LeavingKeepsTheTab ==
  ASSUME Own, Order, Settles, NEW t \in Tabs, page[t] \in {"login", "app"},
         ClearUserAccessToken(t), Leave(t), Others(t), Mine(t)' = Mine(t), owner' = owner,
         t \in crossed => t \in crossed',
         Waiting(t)' = Waiting(t),
         Alone(t)' => /\ \A q \in Requests : OfItsUser(t, q)'
                      /\ \A c \in Mine(t) : c.for \in {"login", "switch"}
  PROVE  Order' /\ Settles'
<1>1. page'[t] = "login" /\ stored' = NoPair /\ cache'[t] = NoPair
  BY PagesOfATab
<1>2. Orderly(t)'
  <2>1. Orderly(t)
    BY DEF Order
  <2> QED
    BY <1>1, <2>1 DEF Orderly, Flight
<1>3. Settled(t)'
  BY <1>1 DEF Settled, LoggedOut
<1> QED
  BY <1>1, <1>2, <1>3, OneTabActs

LEMMA LogoutKeepsTheTab ==
  ASSUME Own, Order, Settles, NEW t \in Tabs, Logout(t) \/ LogoutDue(t)
  PROVE  Order' /\ Settles'
<1>1. /\ ClearUserAccessToken(t) /\ Leave(t) /\ Crossing(t, Mine(t))
      /\ UNCHANGED <<owner, req, calls>>
  BY DEF Logout, LogoutDue, HandleLogout, Server
<1>2. page[t] \in {"login", "app"}
  <2>1. Orderly(t) /\ page[t] \in Page
    BY DEF Order, Own, PageOK
  <2> QED
    BY <2>1 DEF Logout, LogoutDue, Orderly, Quietly, Page
<1>3. Others(t) /\ Mine(t)' = Mine(t) /\ Waiting(t)' = Waiting(t)
  <2>1. \A s \in Tabs \ {t} : due'[s] = due[s]
    BY DEF Logout, LogoutDue, Own, RestOK
  <2> QED
    BY <1>1, <2>1, PagesOfATab DEF Others, Mine, Waiting
<1>4. /\ t \in crossed => t \in crossed'
      /\ Alone(t)' => Mine(t) = {} /\ \A q \in Requests : req'[t][q].at = "idle"
  BY <1>1 DEF Crossing, Alone
<1>5. Alone(t)' => \A q \in Requests : OfItsUser(t, q)'
  BY <1>4 DEF OfItsUser, UnderWay
<1> QED
  BY <1>1, <1>2, <1>3, <1>4, <1>5, LeavingKeepsTheTab

LEMMA BothOfAPair ==
  \A p \in Pair, k \in Token : p.access = k /\ p.refresh = k <=> p = Both(k)
BY DEF Pair, Both, Token

(* The only tab of a session finds its own tokens.                         *)
LEMMA TokensOfATab ==
  ASSUME Own, NEW t \in Tabs, NEW k \in Token, stored = Both(k), cache[t] = Both(k)
  PROVE  AccessOf(t) = k /\ RefreshOf(t) = k
BY NoPairIsAPair DEF AccessOf, RefreshOf

LEMMA RevisitKeepsTheTab ==
  ASSUME Own, Order, Settles, NEW t \in Tabs, Revisit(t)
  PROVE  Order' /\ Settles'
<1>1. /\ page[t] = "login" /\ AccessOf(t) # NoToken /\ Enter(t, AccessOf(t))
      /\ cache' = [cache EXCEPT ![t].access = AccessOf(t)]
      /\ UNCHANGED <<owner, stored, req, calls, due>> /\ Crossing(t, Mine(t))
  BY DEF Revisit, Server
<1>2. page'[t] = "app"
  BY <1>1, PagesOfATab
<1>3. Others(t) /\ Mine(t)' = Mine(t) /\ Waiting(t)' = Waiting(t)
  BY <1>1, PagesOfATab DEF Others, Mine, Waiting, Own, BrowserOK, CacheOK
<1>4. Orderly(t)'
  <2>1. Orderly(t)
    BY DEF Order
  <2> QED
    BY <1>1, <1>2, <1>3, <2>1 DEF Orderly, Flight
<1>5. ~Alone(t)
  <2> SUFFICES ASSUME Alone(t)
               PROVE  FALSE
    OBVIOUS
  <2>1. stored = NoPair /\ cache[t] = NoPair
    BY <1>1 DEF Settles, Settled, LoggedOut
  <2> QED
    BY <1>1, <2>1, NoPairIsAPair DEF AccessOf
<1>6. t \in crossed => t \in crossed'
  BY <1>1 DEF Crossing
<1> QED
  BY <1>1, <1>2, <1>3, <1>4, <1>5, <1>6, OneTabActs

LEMMA SendingKeepsTheTab ==
  ASSUME Own, Order, Settles, NEW t \in Tabs, NEW q \in Requests, NEW for \in {"data", "username"},
         SendRequest(t, q, for)
  PROVE  Order' /\ Settles'
<1>1. /\ page[t] = "app" /\ AccessOf(t) # NoToken /\ req[t][q].at = "idle"
      /\ cache' = [cache EXCEPT ![t].access = AccessOf(t)]
      /\ UNCHANGED <<owner, rows, troubled, stored, page, shown, calls, due, crossed>>
  BY DEF SendRequest, Server
<1> DEFINE r == [at |-> "sent", for |-> for, token |-> AccessOf(t), user |-> shown[t]]
<1>2. /\ r \in Request /\ Real(r.token)
      /\ r.at = "sent" /\ r.token = AccessOf(t) /\ r.user = shown[t]
  BY TokensInUse DEF Request, Own, PageOK
<1>3. req' = [req EXCEPT ![t][q] = r]
  BY DEF SendRequest
<1> HIDE DEF r
<1>4. \A s \in Tabs, p \in Requests : req'[s][p] = IF s = t /\ p = q THEN r ELSE req[s][p]
  BY <1>1, <1>2, <1>3, OneRequestChanges
<1>5. \A s \in Tabs \ {t} : cache'[s] = cache[s] /\ req'[s] = req[s]
  BY <1>1, <1>3 DEF Own, BrowserOK, CacheOK, RequestsOK
<1>6. Others(t) /\ Mine(t)' = Mine(t) /\ Waiting(t)' = Waiting(t)
  BY <1>1, <1>2, <1>4, <1>5 DEF Others, Mine, Waiting
<1>7. Orderly(t)'
  <2>1. Orderly(t)
    BY DEF Order
  <2> QED
    BY <1>1, <1>6, <2>1 DEF Orderly, Flight
<1>8. ASSUME Alone(t)
      PROVE  Settled(t)'
  <2>1. PICK k \in Tokens :
           /\ stored = Both(k) /\ cache[t] = Both(k) /\ owner[k] = shown[t]
           /\ \/ shown[t] \in troubled \/ k \in rows
              \/ \E c \in Mine(t) : c.at = "answered" /\ c.old = k
           /\ \A c \in Flight(t) : owner[c.old] = shown[t]
    BY <1>1, <1>8 DEF Settles, Settled, SignedIn
  <2>2. k \in Token /\ AccessOf(t) = k
    BY <2>1, TokensOfATab DEF Token
  <2>3. cache'[t] = Both(k)
    <3>1. cache[t] \in Pair /\ cache[t].access = k /\ cache[t].refresh = k
      BY <2>1, <2>2, NoPairIsAPair DEF Own, BrowserOK, CacheOK
    <3>2. cache'[t].access = k /\ cache'[t].refresh = k /\ cache'[t] \in Pair
      BY <1>1, <2>2, <3>1 DEF Pair, Own, BrowserOK, CacheOK
    <3> QED
      BY <2>2, <3>2, BothOfAPair
  <2>4. SignedIn(t)'
    BY <1>1, <1>6, <2>1, <2>3 DEF SignedIn, Flight
  <2>5. \A p \in Requests : OfItsUser(t, p)'
    <3> SUFFICES ASSUME NEW p \in Requests
                 PROVE  OfItsUser(t, p)'
      OBVIOUS
    <3>1. CASE p = q
      BY <1>1, <1>2, <1>4, <2>1, <2>2, <3>1 DEF OfItsUser
    <3>2. CASE p # q
      BY <1>1, <1>4, <1>8, <3>2 DEF Settles, Settled, OfItsUser, UnderWay
    <3> QED
      BY <3>1, <3>2
  <2> QED
    BY <1>1, <2>4, <2>5 DEF Settled
<1> QED
  BY <1>1, <1>6, <1>7, <1>8, OneTabActs

(* A request that is over.                                                 *)
LEMMA OverKeepsTheTab ==
  ASSUME Own, Order, Settles, NEW t \in Tabs, NEW q \in Requests,
         RequestAnswered(t, q) \/ RequestFails(t, q)
  PROVE  Order' /\ Settles'
<1>1. /\ UnderWay(t, q) /\ RequestOver(t, q)
      /\ UNCHANGED <<owner, rows, troubled, stored, cache, page, shown, calls, crossed>>
      /\ \A s \in Tabs \ {t} : due'[s] = due[s]
  BY DEF RequestAnswered, RequestFails, Server, Browser, Own, RestOK
<1>2. \A s \in Tabs, p \in Requests : req'[s][p] = IF s = t /\ p = q THEN IdleRequest ELSE req[s][p]
  BY <1>1, OverIsSound
<1>3. \A s \in Tabs \ {t} : req'[s] = req[s]
  BY <1>1 DEF RequestOver, Own, RequestsOK
<1>4. Others(t) /\ Mine(t)' = Mine(t) /\ Waiting(t)' = Waiting(t)
  BY <1>1, <1>2, <1>3, RequestFields DEF Others, Mine, Waiting, UnderWay
<1>5. Orderly(t) /\ page[t] # "closed" /\ page[t] # "boot"
  BY <1>1 DEF Order, Orderly, Quietly, UnderWay
<1>6. Orderly(t)'
  BY <1>1, <1>4, <1>5 DEF Orderly, Flight
<1>7. ASSUME Alone(t)
      PROVE  Settled(t)'
  <2>1. Settled(t)
    BY DEF Settles
  <2>2. page[t] = "login" => LoggedOut(t)'
    BY <1>1, <1>4, <1>7, <2>1 DEF Settled, LoggedOut
  <2>3. page[t] = "app" => SignedIn(t)'
    BY <1>1, <1>4, <1>7, <2>1 DEF Settled, SignedIn, Flight
  <2>4. \A p \in Requests : OfItsUser(t, p)'
    BY <1>1, <1>2, <1>7, <2>1, RequestFields DEF Settled, OfItsUser, UnderWay
  <2> QED
    BY <1>1, <2>2, <2>3, <2>4 DEF Settled
<1> QED
  BY <1>1, <1>4, <1>5, <1>6, <1>7, OneTabActs

LEMMA WaitingKeepsTheTab ==
  ASSUME Own, Order, Settles, NEW t \in Tabs, NEW q \in Requests, RefusedFirst(t, q)
  PROVE  Order' /\ Settles'
<1>1. /\ req[t][q].at = "sent" /\ (Flight(t) # {} \/ RefreshOf(t) # NoToken)
      /\ Put(t, q, "waits", NoToken)
      /\ UNCHANGED <<owner, rows, troubled, stored, page, shown, due, crossed>>
  BY DEF RefusedFirst, Server
<1>2. Orderly(t) /\ page[t] # "closed" /\ page[t] # "boot"
  BY <1>1 DEF Order, Orderly, Quietly
<1>3. \A d \in Mine(t) : d.for # "boot"
  BY <1>2 DEF Orderly
<1>4. /\ req'[t][q].at = "waits" /\ req'[t][q].user = req[t][q].user
      /\ \A p \in Requests \ {q} : req'[t][p] = req[t][p]
      /\ \A s \in Tabs \ {t} : req'[s] = req[s]
  <2>1. \A s \in Tabs, p \in Requests :
           req'[s][p] = IF s = t /\ p = q THEN PutOff(req[t][q], "waits", NoToken) ELSE req[s][p]
    BY <1>1, WaitingIsSound
  <2>2. req[t][q] \in Request /\ NoToken \in Token /\ "waits" \in {"idle", "sent", "waits", "again"}
    BY DEF Own, RequestsOK, Token
  <2>3. /\ PutOff(req[t][q], "waits", NoToken).at = "waits"
        /\ PutOff(req[t][q], "waits", NoToken).user = req[t][q].user
    BY <2>2 DEF PutOff, Request
  <2>4. \A s \in Tabs \ {t} : req'[s] = req[s]
    BY <1>1 DEF Put, Own, RequestsOK
  <2> QED
    BY <2>1, <2>3, <2>4
<1>5. Waiting(t)' = Waiting(t) \cup {q}
  BY <1>4 DEF Waiting
<1>6. Alone(t) => \A p \in Requests : OfItsUser(t, p)'
  <2> SUFFICES ASSUME Alone(t), NEW p \in Requests
               PROVE  OfItsUser(t, p)'
    OBVIOUS
  <2>1. OfItsUser(t, p)
    BY DEF Settles, Settled
  <2> QED
    BY <1>1, <1>4, <2>1 DEF OfItsUser, UnderWay
<1>7. CASE ~MustRefresh(t)
  <2>1. UNCHANGED <<cache, calls>> /\ Flight(t) # {}
    BY <1>1, <1>7 DEF RefusedFirst, MustRefresh
  <2>2. Others(t) /\ Mine(t)' = Mine(t)
    BY <1>1, <1>4, <2>1 DEF Others, Mine
  <2>3. Orderly(t)'
    BY <1>1, <1>2, <1>3, <1>5, <2>1, <2>2 DEF Orderly, Flight
  <2>4. ASSUME Alone(t)
        PROVE  Settled(t)'
    <3>1. Settled(t)
      BY DEF Settles
    <3>2. page[t] = "login" => LoggedOut(t)'
      BY <1>1, <2>1, <2>2, <2>4, <3>1 DEF Settled, LoggedOut
    <3>3. page[t] = "app" => SignedIn(t)'
      BY <1>1, <2>1, <2>2, <2>4, <3>1 DEF Settled, SignedIn, Flight
    <3> QED
      BY <1>1, <1>6, <2>4, <3>2, <3>3 DEF Settled
  <2> QED
    BY <1>1, <1>2, <2>2, <2>3, <2>4, OneTabActs
<1>8. CASE MustRefresh(t)
  <2> DEFINE d == Ask(t, "flight", NoUser, RefreshOf(t))
  <2>1. /\ cache' = [cache EXCEPT ![t].refresh = RefreshOf(t)] /\ calls' = calls \cup {d}
        /\ Flight(t) = {} /\ RefreshOf(t) # NoToken
    BY <1>8 DEF RefusedFirst, MustRefresh
  <2>2. d \in Call /\ d.tab = t /\ d.for = "flight" /\ d.old = RefreshOf(t)
    BY TokensInUse, AskFields DEF Purpose
  <2> HIDE DEF d
  <2>3. Mine(t)' = Mine(t) \cup {d} /\ \A s \in Tabs \ {t} : Mine(s)' = Mine(s)
    BY <2>1, <2>2, AskedCalls
  <2>4. \A s \in Tabs \ {t} : cache'[s] = cache[s]
    BY <2>1 DEF Own, BrowserOK, CacheOK
  <2>5. Others(t)
    BY <1>1, <1>4, <2>3, <2>4 DEF Others
  <2>6. Flight(t)' = {d}
    BY <2>1, <2>2, <2>3 DEF Flight
  <2>7. Orderly(t)'
    <3>1. \A e, f \in Mine(t)' : e.for = f.for /\ e.for \in {"boot", "flight"} => e = f
      BY <1>3, <2>1, <2>2, <2>3 DEF Flight
    <3> QED
      BY <1>1, <1>2, <1>3, <1>5, <2>2, <2>3, <2>6, <3>1 DEF Orderly
  <2>8. ASSUME Alone(t)
        PROVE  Settled(t)'
    <3>1. page[t] = "app"
      <4>1. page[t] # "login"
        <5> SUFFICES ASSUME page[t] = "login"
                     PROVE  FALSE
          OBVIOUS
        <5>1. stored = NoPair /\ cache[t] = NoPair
          BY <2>8 DEF Settles, Settled, LoggedOut
        <5> QED
          BY <2>1, <5>1, NoPairIsAPair DEF RefreshOf
      <4> QED
        BY <1>2, <4>1 DEF Own, PageOK, Page
    <3>2. PICK k \in Tokens :
             /\ stored = Both(k) /\ cache[t] = Both(k) /\ owner[k] = shown[t]
             /\ \/ shown[t] \in troubled \/ k \in rows
                \/ \E c \in Mine(t) : c.at = "answered" /\ c.old = k
      BY <2>8, <3>1 DEF Settles, Settled, SignedIn
    <3>3. k \in Token /\ RefreshOf(t) = k
      BY <3>2, TokensOfATab DEF Token
    <3>4. cache'[t] = Both(k)
      <4>1. cache[t] \in Pair /\ cache[t].access = k /\ cache[t].refresh = k
        BY <3>2, <3>3, NoPairIsAPair DEF Own, BrowserOK, CacheOK
      <4>2. cache'[t].access = k /\ cache'[t].refresh = k /\ cache'[t] \in Pair
        BY <2>1, <3>3, <4>1 DEF Pair, Own, BrowserOK, CacheOK
      <4> QED
        BY <3>3, <4>2, BothOfAPair
    <3>5. SignedIn(t)'
      BY <1>1, <2>2, <2>3, <2>6, <3>2, <3>3, <3>4 DEF SignedIn
    <3> QED
      BY <1>1, <1>6, <2>8, <3>1, <3>5 DEF Settled
  <2> QED
    BY <1>1, <1>2, <2>5, <2>7, <2>8, OneTabActs
<1> QED
  BY <1>7, <1>8

LEMMA RefusalKeepsTheTab ==
  ASSUME Own, Order, Settles, NEW t \in Tabs, NEW q \in Requests,
         RefusedWithoutSession(t, q) \/ RefusedAgain(t, q)
  PROVE  Order' /\ Settles'
<1>1. /\ req[t][q].at \in {"sent", "again"}
      /\ ClearUserAccessToken(t) /\ Leave(t)
      /\ UNCHANGED <<owner, calls, due>> /\ (t \in crossed => t \in crossed')
  BY DEF RefusedWithoutSession, RefusedAgain, AuthError, HandleLogout, ClearInvalidUserSession, Server
<1>2. Orderly(t) /\ page[t] \in {"login", "app"}
  BY <1>1 DEF Order, Orderly, Quietly, Own, PageOK, Page
<1>3. /\ req'[t][q].at = "idle"
      /\ \A p \in Requests \ {q} : req'[t][p] = req[t][p]
      /\ \A s \in Tabs \ {t} : req'[s] = req[s]
  <2>1. CASE RefusedWithoutSession(t, q)
    <3>1. RequestOver(t, q)
      BY <2>1 DEF RefusedWithoutSession
    <3>2. \A s \in Tabs, p \in Requests :
             req'[s][p] = IF s = t /\ p = q THEN IdleRequest ELSE req[s][p]
      BY <1>1, <3>1, OverIsSound
    <3>3. \A s \in Tabs \ {t} : req'[s] = req[s]
      BY <3>1 DEF RequestOver, Own, RequestsOK
    <3> QED
      BY <3>2, <3>3, RequestFields
  <2>2. CASE RefusedAgain(t, q)
    <3>1. req' = [req EXCEPT ![t] = [p \in Requests |-> IF p \in {q} THEN IdleRequest ELSE req[t][p]]]
      BY <2>2 DEF RefusedAgain, AuthError
    <3> QED
      BY <3>1, RequestFields DEF Own, RequestsOK
  <2> QED
    BY <2>1, <2>2
<1>4. Mine(t)' = Mine(t) /\ Waiting(t)' = Waiting(t) /\ Others(t)
  BY <1>1, <1>3, PagesOfATab DEF Mine, Waiting, Others
<1>5. page'[t] = "login"
  BY <1>1, PagesOfATab
<1>6. ASSUME Alone(t)'
      PROVE  Alone(t)
  BY <1>1, <1>2, <1>4, <1>5, <1>6 DEF Alone, Open, Others
<1>7. ASSUME Alone(t)'
      PROVE  \A p \in Requests : OfItsUser(t, p)'
  BY <1>1, <1>3, <1>5, <1>6, <1>7 DEF Settles, Settled, OfItsUser, UnderWay
<1>8. ASSUME Alone(t)', NEW c \in Mine(t)
      PROVE  c.for \in {"login", "switch"}
  <2>1. CASE RefusedWithoutSession(t, q)
    <3>1. page[t] # "app"
      <4> SUFFICES ASSUME page[t] = "app"
                   PROVE  FALSE
        OBVIOUS
      <4>1. PICK k \in Tokens : stored = Both(k) /\ cache[t] = Both(k)
        BY <1>6, <1>8 DEF Settles, Settled, SignedIn
      <4>2. RefreshOf(t) = k /\ k # NoToken
        BY <4>1, TokensOfATab, NullIsNoToken DEF Token
      <4> QED
        BY <2>1, <4>2 DEF RefusedWithoutSession
    <3> QED
      BY <1>2, <1>6, <1>8, <3>1 DEF Settles, Settled, LoggedOut
  <2>2. CASE RefusedAgain(t, q)
    <3>1. Waiting(t) = {}
      <4>1. req[t][q].at = "again" /\ \A p \in Requests \ {q} : req[t][p].at = "idle"
        BY <1>8, <2>2 DEF RefusedAgain, AuthError, Alone
      <4> QED
        BY <4>1 DEF Waiting
    <3>2. c.for # "flight" /\ c.for # "boot" /\ c.for # "none"
      BY <1>2, <3>1 DEF Orderly, Flight, Mine
    <3> QED
      BY <3>2 DEF Mine, Own, CallsOK, CallOK, Call, Purpose
  <2> QED
    BY <2>1, <2>2
<1> QED
  BY <1>1, <1>2, <1>4, <1>7, <1>8, LeavingKeepsTheTab

-----------------------------------------------------------------------------
(* The invariant is one                                                    *)

Inv == Own /\ Fresh /\ Unheeded /\ Saved /\ Order /\ Settles

LEMMA InitIsSound == Init => Inv
<1> SUFFICES ASSUME Init
             PROVE  Inv
  OBVIOUS
<1> DEFINE N == Cardinality(Users)
<1>1. N \in Nat /\ N > 0 /\ N <= MaxTokens /\ 1..N \subseteq Tokens /\ N \in Tokens
  <2>1. N \in Nat /\ N # 0
    BY FS_CardinalityType, FS_EmptySet, WebSessionAssumption
  <2> QED
    BY <2>1, WebSessionAssumption DEF Tokens
<1>2. /\ accounts \in [Users -> 1..N] /\ IsInjective(accounts)
  BY DEF Init
<1>3. \A k \in 1..N : \E u \in Users : accounts[u] = k
  <2>1. accounts \in Injection(Users, 1..N)
    BY <1>2 DEF Injection
  <2>2. IsFiniteSet(1..N) /\ Cardinality(1..N) = N
    BY <1>1, FS_Interval
  <2>3. accounts \in Surjection(Users, 1..N)
    BY <2>1, <2>2, FS_Injection
  <2> QED
    BY <2>3 DEF Surjection
<1>4. \A k \in 1..N : owner[k] \in Users /\ accounts[owner[k]] = k
  <2> SUFFICES ASSUME NEW k \in 1..N
               PROVE  owner[k] \in Users /\ accounts[owner[k]] = k
    OBVIOUS
  <2>1. owner[k] = CHOOSE u \in Users : accounts[u] = k
    BY <1>1 DEF Init
  <2> QED
    BY <1>3, <2>1
<1>5. /\ owner \in [Tokens -> Users \cup {NoUser}]
      /\ 1..N \subseteq Issued
  <2>1. owner = [k \in Tokens |-> IF k <= N THEN CHOOSE u \in Users : accounts[u] = k ELSE NoUser]
    BY DEF Init
  <2>2. \A k \in Tokens : owner[k] \in Users \cup {NoUser}
    BY <1>1, <1>4, <2>1 DEF Tokens
  <2>3. owner \in [Tokens -> Users \cup {NoUser}]
    BY <2>1, <2>2
  <2> QED
    BY <1>1, <1>4, <2>3, NullIsNoToken DEF Issued
<1>6. \A u \in Users : accounts[u] \in Issued /\ accounts[u] \in Token /\ owner[accounts[u]] = u
  BY <1>1, <1>2, <1>4, <1>5 DEF IsInjective, Token
<1>7. /\ rows = 1..N /\ expired = {} /\ shut = {} /\ troubled = {} /\ crossed = {} /\ calls = {}
      /\ events = 0 /\ stored = Both(N) /\ N \in Token
      /\ \A t \in Tabs : cache[t] = NoPair /\ page[t] = "closed" /\ shown[t] = NoUser
                         /\ listed[t] = Nobody /\ due[t] = {}
      /\ \A t \in Tabs, q \in Requests : req[t][q] = IdleRequest
  BY <1>1 DEF Init, Token
<1>8. Nobody \in [Users -> Token] /\ \A u \in Users : Nobody[u] = NoToken
  BY DEF Nobody, Token
<1>9. ServerOK
  BY <1>5, <1>7 DEF ServerOK
<1>10. BrowserOK
  <2>1. StoredOK
    BY <1>1, <1>5, <1>7, NoPairIsAPair DEF StoredOK, Real
  <2>2. CacheOK
    BY <1>7, NoPairIsAPair DEF Init, CacheOK, Real
  <2>3. accounts \in [Users -> Token]
    BY <1>2, <1>6
  <2> QED
    BY <1>6, <2>1, <2>2, <2>3 DEF BrowserOK, AccountsOK
<1>11. PageOK /\ RequestsOK
  BY <1>7, <1>8, RequestFields DEF Init, PageOK, RequestsOK, Page, Real
<1>12. RestOK
  BY <1>7, WebSessionAssumption DEF Init, RestOK, Timer
<1>13. Own
  BY <1>7, <1>9, <1>10, <1>11, <1>12 DEF Own, CallsOK
<1>14. Fresh /\ Unheeded
  BY <1>7 DEF Fresh, Unheeded
<1>15. Saved
  BY <1>2, <1>7 DEF Saved
<1>16. Order
  <2> SUFFICES ASSUME NEW t \in Tabs
               PROVE  Orderly(t)
    BY DEF Order
  <2>1. Mine(t) = {} /\ Flight(t) = {}
    BY <1>7 DEF Mine, Flight
  <2>2. \A q \in Requests : req[t][q].at = "idle"
    BY <1>7, RequestFields
  <2>3. Waiting(t) = {}
    BY <2>2 DEF Waiting
  <2> QED
    BY <1>7, <2>1, <2>2, <2>3 DEF Orderly, Quietly
<1>17. Settles
  BY <1>7 DEF Settles, Settled, Alone, Open
<1> QED
  BY <1>13, <1>14, <1>15, <1>16, <1>17 DEF Inv

LEMMA PagesKeepInv ==
  ASSUME Inv, PageStep, Own', Order', Settles'
  PROVE  Inv'
BY PagesKeepNews DEF Inv

LEMMA NextIsSound == Inv /\ [Next]_vars => Inv'
<1> SUFFICES ASSUME Inv, [Next]_vars
             PROVE  Inv'
  OBVIOUS
<1> USE DEF Inv
<1>1. ASSUME NEW c \in calls, Handle(c) \/ CallFails(c)
      PROVE  Inv'
  <2>1. /\ \E d \in Call : Stepped(c, d) /\ (Refusal(c, d) \/ Finding(c, d) \/ Renewal(c, d))
        /\ Elsewhere /\ events' \in 0..MaxEvents
    BY <1>1, HandledCalls
  <2>2. PICK d \in Call : Stepped(c, d) /\ (Refusal(c, d) \/ Finding(c, d) \/ Renewal(c, d))
    BY <2>1
  <2>3. Own'
    BY <2>1, <2>2, HandledStaysOwn
  <2>4. Fresh' /\ Unheeded' /\ Saved'
    BY <2>1, <2>2, <2>3, HandlingKeepsNews
  <2>5. Order' /\ Settles'
    BY <2>1, <2>2, HandlingKeepsOrder, HandlingKeepsTheTab
  <2> QED
    BY <2>3, <2>4, <2>5
<1>2. ASSUME NEW c \in calls, Hear(c)
      PROVE  Inv'
  <2>1. Own' /\ HearStep(c)
    BY <1>2, HeardStaysOwn, HeardIsAHearStep
  <2>2. Fresh' /\ Unheeded' /\ Saved'
    BY <2>1, HearingKeepsNews
  <2>3. Order' /\ Settles'
    BY <1>2, HearingKeepsTheTab
  <2> QED
    BY <2>1, <2>2, <2>3
<1>3. ASSUME NEW t \in Tabs, UserActs(t) \/ Reload(t) \/ LogoutDue(t)
      PROVE  Inv'
  <2>1. Own' /\ PageStep
    BY <1>3, ActedStaysOwn, ActsArePageSteps
  <2>2. Order' /\ Settles'
    <3>1. CASE OpenTab(t) \/ Reload(t)
      BY <3>1, BootKeepsTheTab DEF OpenTab, Reload
    <3>2. CASE Revisit(t)
      BY <3>2, RevisitKeepsTheTab
    <3>3. CASE Logout(t) \/ LogoutDue(t)
      BY <3>3, LogoutKeepsTheTab
    <3>4. CASE OpenControlCenter(t)
      BY <3>4, StillPagesStay DEF OpenControlCenter, Server, Browser
    <3>5. ASSUME NEW u \in Users, Login(t, u) \/ SwitchAccount(t, u)
          PROVE  Order' /\ Settles'
      BY <3>5, AsksKeepTheTab
    <3>6. ASSUME NEW u \in Users, RemoveStoredAccount(t, u)
          PROVE  Order' /\ Settles'
      BY <3>6, StillPagesStay DEF RemoveStoredAccount, Server
    <3> QED
      BY <1>3, <3>1, <3>2, <3>3, <3>4, <3>5, <3>6 DEF UserActs
  <2> QED
    BY <2>1, <2>2, PagesKeepInv
<1>4. ASSUME NEW t \in Tabs, NEW q \in Requests, NEW for \in {"data", "username"},
             SendRequest(t, q, for)
      PROVE  Inv'
  <2>1. events' \in 0..MaxEvents
    BY <1>4, EventsAreBounded DEF SendRequest
  <2>2. Own'
    BY <1>4, <2>1, SentStaysOwn
  <2>3. PageStep
    BY <1>4, QuietPagesArePageSteps
  <2>4. Order' /\ Settles'
    BY <1>4, SendingKeepsTheTab
  <2> QED
    BY <2>2, <2>3, <2>4, PagesKeepInv
<1>5. ASSUME NEW t \in Tabs, NEW q \in Requests, Answer(t, q) \/ RequestFails(t, q)
      PROVE  Inv'
  <2>1. Own' /\ PageStep
    BY <1>5, AnsweredStaysOwn, WorldStaysOwn, AnswersArePageSteps, QuietPagesArePageSteps
  <2>2. Order' /\ Settles'
    BY <1>5, OverKeepsTheTab, WaitingKeepsTheTab, RefusalKeepsTheTab DEF Answer
  <2> QED
    BY <2>1, <2>2, PagesKeepInv
<1>6. ASSUME \/ \E u \in Users : Disable(u)
             \/ \E k \in Tokens : Expire(k)
      PROVE  Inv'
  <2>1. Own' /\ PageStep
    BY <1>6, WorldStaysOwn, QuietPagesArePageSteps
  <2>2. UNCHANGED <<owner, rows, troubled, stored, cache, page, shown, req, due, crossed, calls>>
    BY <1>6 DEF Disable, Expire, Browser
  <2> QED
    BY <2>1, <2>2, StillPagesStay, PagesKeepInv
<1>7. CASE UNCHANGED vars
  <2>1. UNCHANGED <<owner, rows, expired, shut, stored, accounts, cache, page, shown, listed, req,
                    calls, due, crossed, troubled, events>>
    BY <1>7 DEF vars
  <2>2. Own'
    BY <2>1, FramesKeepOwn DEF Own, RestOK, BrowserOK, Server
  <2>3. PageStep
    BY <2>1, NothingMoves, PageStepsAre
  <2> QED
    BY <2>1, <2>2, <2>3, StillPagesStay, PagesKeepInv
<1> QED
  BY <1>1, <1>2, <1>3, <1>4, <1>5, <1>6, <1>7 DEF Next

-----------------------------------------------------------------------------
(* What the invariant promises                                             *)

LEMMA InvIsTyped == Inv => TypeOK
<1> SUFFICES ASSUME Inv
             PROVE  TypeOK
  OBVIOUS
<1>1. calls \subseteq Call
  BY DEF Inv, Own, CallsOK, CallOK
<1> QED
  BY <1>1 DEF Inv, Own, ServerOK, BrowserOK, StoredOK, CacheOK, AccountsOK, PageOK, RequestsOK,
              RestOK, TypeOK

LEMMA InvSavesSessions == Inv => SavedSessionsAreGood
<1> SUFFICES ASSUME Inv, NEW u \in Users, u \notin troubled, accounts[u] # NoToken,
                    ~Refreshing(u)
             PROVE  accounts[u] \in rows /\ owner[accounts[u]] = u
  BY DEF SavedSessionsAreGood
<1>1. owner[accounts[u]] = u
  BY DEF Inv, Own, BrowserOK, AccountsOK
<1>2. ~Carrying(accounts[u])
  BY <1>1 DEF Carrying, Refreshing
<1> QED
  BY <1>1, <1>2 DEF Inv, Saved

LEMMA InvKeepsTheTab == Inv => TabKeepsItsSession
<1> SUFFICES ASSUME Inv, NEW t \in Tabs, Alone(t), page[t] = "app", shown[t] \notin troubled,
                    Mine(t) = {}
             PROVE  cache[t].refresh \in rows /\ owner[cache[t].refresh] = shown[t]
  BY DEF TabKeepsItsSession
<1>1. SignedIn(t)
  BY DEF Inv, Settles, Settled
<1> QED
  BY <1>1, NoPairIsAPair DEF SignedIn, Token

LEMMA InvKeepsRequests == Inv => RequestsStayWithTheirPage
BY DEF Inv, Settles, Settled, OfItsUser, RequestsStayWithTheirPage

LEMMA InvLetsNobodyWait == Inv => NobodyWaitsForNothing
BY DEF Inv, Order, Orderly, NobodyWaitsForNothing

-----------------------------------------------------------------------------
(* The theorem                                                             *)

InvOfSession == part = "session" => Inv

LEMMA PageInitIsSound == PageInit => InvOfSession
<1>1. PageInit /\ part = "session" => Init
  BY Zenon DEF PageInit
<1> QED
  BY <1>1, InitIsSound DEF InvOfSession

LEMMA PageNextIsSound == InvOfSession /\ [PageNext]_PageVars => InvOfSession'
<1> SUFFICES ASSUME InvOfSession, [PageNext]_PageVars, part' = "session"
             PROVE  Inv'
  BY DEF InvOfSession
<1>1. part' = part
  BY DEF PageNext, PageVars
<1>2. Inv
  BY <1>1 DEF InvOfSession
<1>3. [Next]_vars
  <2>1. PageNext /\ part = "session" => Next
    BY Zenon DEF PageNext
  <2>2. UNCHANGED PageVars => UNCHANGED vars
    BY DEF PageVars
  <2> QED
    BY <1>1, <2>1, <2>2
<1> QED
  BY <1>2, <1>3, NextIsSound

LEMMA InvOfSessionHolds == InvOfSession => SessionHolds
BY InvIsTyped, InvSavesSessions, InvKeepsTheTab, InvKeepsRequests, InvLetsNobodyWait
   DEF InvOfSession, SessionHolds

(* However many tabs refresh, sign in and out and switch accounts, and     *)
(* whatever is lost on the way: the accounts the browser keeps are ones    *)
(* the server will renew, but where the answer with the newer token is     *)
(* under way or was lost; a tab that is alone acts with the session of the *)
(* user it shows, and its requests carry that user's tokens; and a request *)
(* that waits for a refresh waits for one that is under way.  These are    *)
(* the promises of tokenStore, SessionBootstrap and api.ts of the web.     *)
THEOREM SessionStaysWhole == PageSpec => []SessionHolds
<1>1. PageSpec => []InvOfSession
  BY PageInitIsSound, PageNextIsSound, PTL DEF PageSpec
<1> QED
  BY <1>1, InvOfSessionHolds, PTL

-----------------------------------------------------------------------------
(* Traces.                                                                 *)

(* What was carried bears numbers drawn, and so do the calls; unless two   *)
(* requests left early, all of it has the trace of the context.            *)
TraceTypes ==
    /\ app \in Apps /\ drawn \in Nat
    /\ context \in [trace: 0..drawn, request: 0..drawn]
    /\ carried \subseteq [trace: 1..drawn, request: 1..drawn]
    /\ early \in BOOLEAN /\ strayed \in BOOLEAN
    /\ known \subseteq {i.trace : i \in carried}
    /\ calls \subseteq [ids: carried, again: BOOLEAN, kind: {"call", "refresh"},
                        at: {"sent", "heard", "waits", "replays"}]

SingleTrace ==
    ~early =>
        /\ \A i, j \in carried : i.trace = j.trace
        /\ context.trace # 0 => \A i \in carried : i.trace = context.trace
        /\ app = "host" /\ carried # {} => context.trace # 0
        /\ known # {} => context.trace # 0

(* A number that was drawn for a request that bears another one stays in   *)
(* the context only while that request is under way.                       *)
Replayed(c) == c.again /\ c.kind = "call" /\ c.at = "sent"
NumbersKnown ==
    /\ strayed => app = "web"
    /\ \/ strayed
       \/ context.request \in {0} \cup {i.request : i \in carried}
       \/ app = "web" /\ \E c \in calls : Replayed(c)

TraceInv == TraceTypes /\ SingleTrace /\ NumbersKnown

LEMMA TraceInit == Traces!Init => TraceInv
<1> SUFFICES ASSUME Traces!Init PROVE TraceInv
  OBVIOUS
<1> USE DEF Traces!Init, Traces!NoIds, Traces!Nobody
<1>1. TraceTypes
  <2>1. drawn = 0 /\ context = [trace |-> 0, request |-> 0]
    OBVIOUS
  <2>2. context \in [trace: 0..drawn, request: 0..drawn]
    BY <2>1
  <2>3. calls = {} /\ known = {} /\ carried = {} /\ app \in Apps
    OBVIOUS
  <2>4. early = FALSE /\ strayed = FALSE
    OBVIOUS
  <2> HIDE DEF Traces!Init
  <2> QED
    BY <2>1, <2>2, <2>3, <2>4 DEF TraceTypes
<1>2. SingleTrace
  BY DEF SingleTrace
<1>3. NumbersKnown
  BY DEF NumbersKnown
<1> QED
  BY <1>1, <1>2, <1>3 DEF TraceInv

(* What a request is sent with: a number drawn for it, or the one it bears *)
(* when it is sent again; the trace of the context, or a new one.          *)
LEMMA SentIsNamed ==
    ASSUME TraceInv, NEW headers \in carried \cup {Traces!NoIds}, NEW again \in BOOLEAN,
           NEW kind \in {"call", "refresh"}, NEW s, s = Traces!Sends(headers, again, kind)
    PROVE  /\ s.ids \in [trace: 1..(drawn + 2), request: 1..(drawn + 2)]
           /\ s.call = [ids |-> s.ids, again |-> again, kind |-> kind, at |-> "sent"]
           /\ headers.trace # 0 => s.ids.trace = headers.trace
           /\ headers.trace = 0 /\ context.trace # 0 => s.ids.trace = context.trace
           /\ s.context \in [trace: 0..(drawn + 2), request: 0..(drawn + 2)]
           /\ s.context.trace = IF app = "host" THEN s.ids.trace ELSE context.trace
           /\ s.context.request = IF app = "host" THEN context.request ELSE drawn + 2
           /\ headers = Traces!NoIds => s.ids.request = drawn + 2
<1> USE DEF TraceInv, TraceTypes, Traces!NoIds, Traces!Nobody
<1>1. /\ headers \in [trace: 0..drawn, request: 0..drawn] /\ drawn \in Nat
      /\ context \in [trace: 0..drawn, request: 0..drawn]
  OBVIOUS
<1>2. s.ids = Traces!WithTraceHeaders(headers, drawn + 1)
  BY DEF Traces!Sends
<1>3. /\ s.context = Traces!SentContext(s.ids, drawn + 1)
      /\ s.call = [ids |-> s.ids, again |-> again, kind |-> kind, at |-> "sent"]
  BY <1>2 DEF Traces!Sends, Traces!Call
<1>4. /\ s.ids \in [trace: 1..(drawn + 2), request: 1..(drawn + 2)]
      /\ headers.trace # 0 => s.ids.trace = headers.trace
      /\ headers.trace = 0 /\ context.trace # 0 => s.ids.trace = context.trace
      /\ headers = Traces!NoIds => s.ids.request = drawn + 2
  BY <1>1, <1>2 DEF Traces!WithTraceHeaders, Traces!ResolveContext
<1> QED
  BY <1>1, <1>3, <1>4 DEF Traces!SentContext

(* A record has grown to the numbers drawn since.                          *)
LEMMA TypesGrow ==
    ASSUME TraceTypes, NEW n \in Nat, n >= drawn
    PROVE  /\ [trace: 0..drawn, request: 0..drawn] \subseteq [trace: 0..n, request: 0..n]
           /\ carried \subseteq [trace: 1..n, request: 1..n]
<1>1. 0..drawn \subseteq 0..n /\ 1..drawn \subseteq 1..n
  BY DEF TraceTypes
<1> QED
  BY <1>1 DEF TraceTypes

(* A request leaves, with those numbers, whatever becomes of the others:   *)
(* Send, Replay, and the refresh of the web page.                          *)
LEMMA TraceSend ==
    ASSUME TraceInv, NEW headers \in carried \cup {Traces!NoIds}, NEW again \in BOOLEAN,
           NEW kind \in {"call", "refresh"}, NEW s, s = Traces!Sends(headers, again, kind),
           headers # Traces!NoIds => again /\ kind = "call" /\ app = "web",
           NEW left \in SUBSET [ids: carried, again: BOOLEAN, kind: {"call", "refresh"},
                                at: {"sent", "heard", "waits", "replays"}],
           calls' = left \cup {s.call}, context' = s.context, Traces!Remember(s.ids),
           drawn' = drawn + 2, UNCHANGED <<app, known, strayed>>
    PROVE  TraceInv'
<1> DEFINE Kinds == {"call", "refresh"}
           Places == {"sent", "heard", "waits", "replays"}
<1>0. /\ s.ids \in [trace: 1..(drawn + 2), request: 1..(drawn + 2)]
      /\ s.call = [ids |-> s.ids, again |-> again, kind |-> kind, at |-> "sent"]
      /\ headers.trace # 0 => s.ids.trace = headers.trace
      /\ headers.trace = 0 /\ context.trace # 0 => s.ids.trace = context.trace
      /\ s.context \in [trace: 0..(drawn + 2), request: 0..(drawn + 2)]
      /\ s.context.trace = IF app = "host" THEN s.ids.trace ELSE context.trace
      /\ s.context.request = IF app = "host" THEN context.request ELSE drawn + 2
      /\ headers = Traces!NoIds => s.ids.request = drawn + 2
  BY SentIsNamed
<1>1. /\ carried' = carried \cup {s.ids}
      /\ early' = (early \/ (app # "host" /\ known = {} /\ carried # {}))
  BY DEF Traces!Remember
<1>2. drawn \in Nat /\ drawn + 2 \in Nat /\ drawn + 2 >= drawn
  BY DEF TraceInv, TraceTypes
<1>3. carried \subseteq [trace: 1..(drawn + 2), request: 1..(drawn + 2)]
  BY <1>2, TypesGrow DEF TraceInv
<1>4. TraceTypes'
  <2>1. s.call \in [ids: carried', again: BOOLEAN, kind: Kinds, at: Places]
    BY <1>0, <1>1
  <2>2. left \subseteq [ids: carried', again: BOOLEAN, kind: Kinds, at: Places]
    BY <1>1
  <2>3. known' \subseteq {i.trace : i \in carried'}
    BY <1>1 DEF TraceInv, TraceTypes
  <2> QED
    BY <1>0, <1>1, <1>2, <1>3, <2>1, <2>2, <2>3 DEF TraceInv, TraceTypes
<1>5. SingleTrace'
  <2> SUFFICES ASSUME ~early' PROVE SingleTrace'
    BY DEF SingleTrace
  <2>1. ~early /\ (app = "host" \/ known # {} \/ carried = {})
    BY <1>1 DEF TraceInv, TraceTypes
  <2>2. carried # {} => context.trace # 0
    BY <2>1 DEF TraceInv, SingleTrace
  <2>3. \A i \in carried : i.trace = context.trace
    BY <2>1, <2>2 DEF TraceInv, SingleTrace
  <2>4. \A i \in carried : i.trace # 0
    BY DEF TraceInv, TraceTypes
  <2>5. carried # {} => s.ids.trace = context.trace
    BY <1>0, <2>2, <2>3, <2>4 DEF Traces!NoIds, Traces!Nobody
  <2>6. context.trace # 0 => s.ids.trace = context.trace
    BY <1>0, <2>3, <2>4 DEF Traces!NoIds, Traces!Nobody
  <2>7. s.ids.trace # 0
    BY <1>0, <1>2
  <2>8. \A i, j \in carried' : i.trace = j.trace
    BY <1>1, <2>3, <2>5
  <2>9. context'.trace # 0 => \A i \in carried' : i.trace = context'.trace
    BY <1>0, <1>1, <2>3, <2>6, <2>8
  <2>10. known' # {} => context'.trace # 0
    BY <1>0, <2>1, <2>7 DEF TraceInv, SingleTrace
  <2> QED
    BY <1>0, <2>7, <2>8, <2>9, <2>10 DEF SingleTrace
<1>6. NumbersKnown'
  <2>1. CASE app = "host"
    BY <1>0, <1>1, <2>1 DEF TraceInv, NumbersKnown
  <2>2. CASE app # "host" /\ headers = Traces!NoIds
    BY <1>0, <1>1, <2>2 DEF TraceInv, NumbersKnown
  <2>3. CASE headers # Traces!NoIds
    <3>1. s.call \in calls' /\ Replayed(s.call)
      BY <1>0, <2>3 DEF Replayed
    <3> QED
      BY <2>3, <3>1 DEF TraceInv, NumbersKnown
  <2> QED
    BY <2>1, <2>2, <2>3
<1> QED
  BY <1>4, <1>5, <1>6 DEF TraceInv

(* An answer is heard: the context takes over what its request bore.       *)
LEMMA TraceHeard ==
    ASSUME TraceInv, NEW c \in calls, Traces!Captured(c), strayed' = FALSE,
           calls' \subseteq [ids: carried, again: BOOLEAN, kind: {"call", "refresh"},
                             at: {"sent", "heard", "waits", "replays"}],
           UNCHANGED <<app, drawn, carried, early>>
    PROVE  TraceInv'
<1>1. c.ids \in carried /\ c.ids \in [trace: 1..drawn, request: 1..drawn] /\ drawn \in Nat
  BY DEF TraceInv, TraceTypes
<1>2. context' = Traces!CaptureResponseContext(c.ids) /\ known' = known \cup {c.ids.trace}
  BY DEF Traces!Captured
<1>3. /\ context' \in [trace: 0..drawn, request: 0..drawn]
      /\ context'.trace = c.ids.trace
      /\ context'.request = IF app = "host" THEN context.request ELSE c.ids.request
  BY <1>1, <1>2 DEF Traces!CaptureResponseContext, TraceInv, TraceTypes
<1>4. TraceTypes'
  BY <1>1, <1>2, <1>3 DEF TraceInv, TraceTypes
<1>5. SingleTrace'
  BY <1>1, <1>3 DEF TraceInv, SingleTrace
<1>6. NumbersKnown'
  <2>1. CASE app # "host"
    BY <1>1, <1>3, <2>1 DEF NumbersKnown
  <2>2. CASE app = "host"
    BY <1>3, <2>2 DEF TraceInv, NumbersKnown
  <2> QED
    BY <2>1, <2>2
<1> QED
  BY <1>4, <1>5, <1>6 DEF TraceInv

(* Calls end or change places, and nothing else happens.                   *)
LEMMA TraceOthers ==
    ASSUME TraceInv, UNCHANGED <<app, context, drawn, known, carried, early>>,
           calls' \subseteq [ids: carried, again: BOOLEAN, kind: {"call", "refresh"},
                             at: {"sent", "heard", "waits", "replays"}],
           strayed' \in BOOLEAN, strayed => strayed', strayed' => app = "web",
           \/ strayed'
           \/ \A c \in calls : app = "web" /\ Replayed(c) => c \in calls'
    PROVE  TraceInv'
<1>1. TraceTypes'
  BY DEF TraceInv, TraceTypes
<1>2. SingleTrace'
  BY DEF TraceInv, SingleTrace
<1>3. NumbersKnown'
  BY DEF TraceInv, NumbersKnown
<1> QED
  BY <1>1, <1>2, <1>3 DEF TraceInv

LEMMA ToldAreCalls ==
    ASSUME TraceInv, NEW to \in {"replays", "heard"}
    PROVE  /\ Traces!Told(to) \subseteq [ids: carried, again: BOOLEAN, kind: {"call", "refresh"},
                                         at: {"sent", "heard", "waits", "replays"}]
           /\ \A c \in calls : Replayed(c) => c \in Traces!Told(to)
<1>1. ASSUME NEW d \in calls
      PROVE  (IF d.at = "waits" THEN [d EXCEPT !.at = to] ELSE d)
               \in [ids: carried, again: BOOLEAN, kind: {"call", "refresh"},
                    at: {"sent", "heard", "waits", "replays"}]
  BY DEF TraceInv, TraceTypes
<1> QED
  BY <1>1 DEF Traces!Told, Replayed

LEMMA TraceStep ==
    ASSUME TraceInv, Traces!Next
    PROVE  TraceInv'
<1> DEFINE Calls == [ids: carried, again: BOOLEAN, kind: {"call", "refresh"},
                     at: {"sent", "heard", "waits", "replays"}]
<1>0. /\ calls \subseteq Calls
      /\ \A c \in calls : [c EXCEPT !.at = "waits"] \in Calls
      /\ strayed \in BOOLEAN /\ (strayed => app = "web")
  BY DEF TraceInv, TraceTypes, NumbersKnown
<1>1. CASE Traces!Send
  BY <1>0, <1>1, TraceSend DEF Traces!Send
<1>2. ASSUME NEW ok \in BOOLEAN, Traces!RefreshedInClient(ok)
      PROVE  TraceInv'
  <2>1. calls' \subseteq Calls /\ app = "client"
    BY <1>0, <1>2, ToldAreCalls DEF Traces!RefreshedInClient
  <2> QED
    BY <1>0, <1>2, <2>1, TraceOthers DEF Traces!RefreshedInClient
<1>3. ASSUME NEW c \in calls, Traces!Answered(c) PROVE TraceInv'
  BY <1>0, <1>3, TraceHeard DEF Traces!Answered
<1>4. ASSUME NEW c \in calls, Traces!Lost(c) PROVE TraceInv'
  <2>1. strayed' = (strayed \/ (c.again /\ app = "web")) /\ c.again \in BOOLEAN
    BY <1>0, <1>4 DEF Traces!Lost
  <2>2. calls' = calls \ {c} /\ UNCHANGED <<app, context, drawn, known, carried, early>>
    BY <1>4 DEF Traces!Lost
  <2> QED
    BY <1>0, <2>1, <2>2, TraceOthers DEF Replayed
<1>5. ASSUME NEW c \in calls, Traces!RefusedInClient(c) PROVE TraceInv'
  BY <1>0, <1>5, TraceHeard DEF Traces!RefusedInClient
<1>6. ASSUME NEW c \in calls, Traces!RefusedInWeb(c) PROVE TraceInv'
  <2>1. CASE Traces!Refreshing
    BY <1>0, <1>6, <2>1, TraceOthers DEF Traces!RefusedInWeb, Replayed
  <2>2. CASE ~Traces!Refreshing
    <3> DEFINE s == Traces!Sends(Traces!NoIds, FALSE, "refresh")
               left == (calls \ {c}) \cup {[c EXCEPT !.at = "waits"]}
    <3>1. /\ calls' = left \cup {s.call} /\ context' = s.context
          /\ Traces!Remember(s.ids) /\ drawn' = drawn + 2
          /\ UNCHANGED <<app, known, strayed>>
      BY <1>6, <2>2 DEF Traces!RefusedInWeb
    <3>2. left \in SUBSET Calls
      BY <1>0
    <3> HIDE DEF left
    <3> QED
      BY <3>1, <3>2, TraceSend
  <2> QED
    BY <2>1, <2>2
<1>7. ASSUME NEW c \in calls, Traces!RefreshLost(c) PROVE TraceInv'
  BY <1>0, <1>7, TraceOthers DEF Traces!RefreshLost, Replayed
<1>8. ASSUME NEW c \in calls, Traces!Replay(c) PROVE TraceInv'
  BY <1>0, <1>8, TraceSend DEF Traces!Replay
<1>9. ASSUME NEW c \in calls, NEW ok \in BOOLEAN, Traces!RefreshAnswered(c, ok) PROVE TraceInv'
  BY <1>0, <1>9, ToldAreCalls, TraceHeard DEF Traces!RefreshAnswered
<1> QED
  BY <1>1, <1>2, <1>3, <1>4, <1>5, <1>6, <1>7, <1>8, <1>9 DEF Traces!Next

LEMMA TraceHolds ==
    ASSUME TraceInv
    PROVE  Traces!TypeOK /\ Traces!OneTrace /\ Traces!RecordsNameARequest
<1>1. Traces!TypeOK
  BY DEF TraceInv, TraceTypes, Traces!TypeOK
<1>2. Traces!OneTrace
  BY DEF TraceInv, SingleTrace, Traces!OneTrace
<1>3. Traces!RecordsNameARequest
  BY DEF TraceInv, NumbersKnown, Traces!RecordsNameARequest, Traces!Nobody
<1> QED
  BY <1>1, <1>2, <1>3

-----------------------------------------------------------------------------
(* Layers: the form and the control center are never open together, and    *)
(* whatever closes a form looks whether it is being saved.                 *)

LayersInv == Layers!TypeOK /\ Layers!SavingFormStays

LEMMA LayersInit == Layers!Init => LayersInv
<1> SUFFICES ASSUME Layers!Init PROVE LayersInv
  OBVIOUS
<1>1. layers = {} /\ saving = FALSE /\ term = FALSE /\ focus = "none" /\ events = 0
  BY DEF Layers!Init
<1>2. layers \subseteq Layers!Layers /\ ~(Layers!Dialogs \subseteq layers)
  BY <1>1 DEF Layers!Dialogs
<1>3. focus \in {"search", "field", "none"} /\ events \in 0..LayerEvents
  BY <1>1, WebPageAssumption
<1>4. {saving, term} \subseteq BOOLEAN
  BY <1>1
<1> QED
  BY <1>1, <1>2, <1>3, <1>4 DEF LayersInv, Layers!TypeOK, Layers!SavingFormStays

LEMMA LayersStep ==
    ASSUME LayersInv, Layers!Next
    PROVE  LayersInv'
<1>0. LayerEvents \in Nat
  BY WebPageAssumption
<1> USE <1>0 DEF LayersInv, Layers!TypeOK, Layers!SavingFormStays, Layers!Layers, Layers!Dialogs,
            Layers!Event, Layers!AfterMouse, Layers!AfterKey, Layers!Uncovered
<1>1. CASE Layers!HandleContextMenu
  BY <1>1 DEF Layers!HandleContextMenu
<1>2. CASE Layers!ToggleEngines
  BY <1>2 DEF Layers!ToggleEngines
<1>3. CASE Layers!TypeTerm
  BY <1>3 DEF Layers!TypeTerm
<1>4. CASE Layers!SubmitForm
  BY <1>4 DEF Layers!SubmitForm
<1>5. CASE Layers!Escape
  BY <1>5 DEF Layers!Escape, Layers!Drawn, Layers!Prevented, Layers!HandleGlobalEscape
<1>6. ASSUME NEW d \in Layers!Dialogs, Layers!CloseDialog(d) PROVE LayersInv'
  BY <1>6 DEF Layers!CloseDialog
<1>7. ASSUME NEW d \in Layers!Dialogs, NEW left \in {Layers!AfterMouse, Layers!AfterKey},
             Layers!OpenDialog(d, left)
      PROVE  LayersInv'
  BY <1>7 DEF Layers!OpenDialog
<1>8. ASSUME NEW ok \in BOOLEAN, Layers!SaveArrives(ok) PROVE LayersInv'
  BY <1>8 DEF Layers!SaveArrives
<1>9. ASSUME NEW f \in {"search", "field", "none"}, Layers!MoveFocus(f) PROVE LayersInv'
  BY <1>9 DEF Layers!MoveFocus
<1> QED
  BY <1>1, <1>2, <1>3, <1>4, <1>5, <1>6, <1>7, <1>8, <1>9 DEF Layers!Next

(* An Escape for what lies over the page finds it there.                   *)
LEMMA EscapeSpares == LayersInv => Layers!SparesTheSearch
  BY DEF LayersInv, Layers!TypeOK, Layers!SparesTheSearch, Layers!Escape, Layers!HandleGlobalEscape, Layers!Prevented,
         Layers!Drawn, Layers!Dialogs

-----------------------------------------------------------------------------
(* The form of a site: it has a file exactly when it previews one.         *)

FormInv ==
    /\ form = [at |-> form.at, site |-> form.site, path |-> form.path, file |-> form.file,
               url |-> form.url, action |-> form.action]
    /\ form.file \in BOOLEAN /\ (form.file <=> form.url # 0)
    /\ icon = [s \in Sites |-> icon[s]]

(* A set of numbers has a least one: among the initial segments 1..n, which*)
(* are finite, the least is below all others.                              *)
LEMMA SmallestNumber ==
    ASSUME NEW T \in SUBSET Nat, T # {}
    PROVE  \E m \in T : \A n \in T : m <= n
<1> DEFINE Segments == {1..n : n \in T}
           R == StrictSubsetOrdering(Nat)
<1>1. Segments \subseteq FiniteSubsetsOf(Nat) /\ Segments # {}
  <2>1. ASSUME NEW n \in T PROVE 1..n \in FiniteSubsetsOf(Nat)
    <3>1. n \in Int /\ 1 \in Int /\ 1..n \subseteq Nat
      OBVIOUS
    <3>2. IsFiniteSet(1..n)
      BY <3>1, FS_Interval
    <3> QED
      BY <3>1, <3>2 DEF FiniteSubsetsOf
  <2> QED
    BY <2>1
<1>2. IsWellFoundedOn(R, FiniteSubsetsOf(Nat))
  BY FS_StrictSubsetOrderingWellFounded
<1> HIDE DEF Segments, R
<1>3. \E x \in Segments : \A y \in Segments : ~(<<y, x>> \in R)
  BY <1>1, <1>2, WFMin
<1>4. PICK m \in T : \A y \in Segments : ~(<<y, 1..m>> \in R)
  BY <1>3 DEF Segments
<1>5. ASSUME NEW n \in T, n < m PROVE FALSE
  <2>1. 1..n \in Segments /\ 1..n \subseteq 1..m /\ 1..n \subseteq Nat /\ 1..m \subseteq Nat
    BY <1>5 DEF Segments
  <2>2. m \in 1..m /\ m \notin 1..n
    BY <1>5
  <2> QED
    BY <1>4, <2>1, <2>2 DEF R, StrictSubsetOrdering
<1> QED
  BY <1>5

LEMMA FormInit == Icons!Init => FormInv
<1> SUFFICES ASSUME Icons!Init PROVE FormInv
  OBVIOUS
<1>1. form = Icons!NoForm /\ icon \in [Sites -> {1, NoSite}]
  BY DEF Icons!Init
<1> HIDE DEF Icons!Init
<1>2. icon = [s \in Sites |-> icon[s]]
  BY <1>1
<1>3. form.file = FALSE /\ form.url = 0
  BY <1>1 DEF Icons!NoForm
<1>4. form = [at |-> form.at, site |-> form.site, path |-> form.path, file |-> form.file,
              url |-> form.url, action |-> form.action]
  BY <1>1 DEF Icons!NoForm
<1> QED
  BY <1>2, <1>3, <1>4 DEF FormInv

LEMMA NewUrlIsNew ==
    ASSUME Icons!Fresh # {}
    PROVE  Icons!NewUrl \in Icons!Fresh /\ Icons!NewUrl # 0
<1>1. Icons!Fresh \subseteq 1..MaxUrls /\ Icons!Fresh \in SUBSET Nat
  BY WebPageAssumption DEF Icons!Fresh, Icons!Urls
<1>2. \E u \in Icons!Fresh : \A v \in Icons!Fresh : u <= v
  BY <1>1, SmallestNumber
<1>3. Icons!NewUrl \in Icons!Fresh
  BY <1>2, Zenon DEF Icons!NewUrl
<1> QED
  BY <1>1, <1>3

LEMMA FormStep ==
    ASSUME FormInv, Icons!Next
    PROVE  FormInv'
<1> USE DEF Icons!Server
<1>1. ASSUME UNCHANGED <<form, icon>> PROVE FormInv'
  BY <1>1 DEF FormInv
<1>2. ASSUME NEW site, NEW path,
             form' = [at |-> "edit", site |-> site, path |-> path, file |-> FALSE,
                      url |-> 0, action |-> "keep"],
             icon' = icon
      PROVE  FormInv'
  BY <1>2 DEF FormInv
<1>3. CASE Icons!Commit
  BY <1>1, <1>3 DEF Icons!Commit
<1>4. CASE \/ Icons!Open \/ Icons!LockPasswordCleared \/ Icons!LockGroup
          \/ Icons!UnlockGroup \/ Icons!ExpireToken \/ Icons!AbortedEnds
  BY <1>1, <1>4 DEF Icons!Open, Icons!LockPasswordCleared, Icons!LockGroup, Icons!UnlockGroup,
       Icons!ExpireToken, Icons!AbortedEnds
<1>5. CASE Icons!Close
  BY <1>5 DEF Icons!Close, Icons!NoForm, FormInv
<1>6. ASSUME NEW f \in fetches, Icons!FetchOk(f) \/ Icons!FetchFails(f) PROVE FormInv'
  BY <1>1, <1>6 DEF Icons!FetchOk, Icons!FetchFails
<1>7. ASSUME NEW p \in loads, Icons!LoadLaunchpad(p) PROVE FormInv'
  BY <1>1, <1>7 DEF Icons!LoadLaunchpad
<1>8. ASSUME NEW s \in Sites, Icons!HandleDeleteSite(s) \/ Icons!Elsewhere(s) PROVE FormInv'
  BY <1>8 DEF Icons!HandleDeleteSite, Icons!Elsewhere, FormInv
<1>10. ASSUME NEW s \in deleting, Icons!DeleteSiteArrives(s) PROVE FormInv'
  BY <1>1, <1>10 DEF Icons!DeleteSiteArrives
<1>9. CASE Icons!FormNext
  <2>1. CASE Icons!CreateForm
    <3>1. /\ form' = [at |-> "edit", site |-> NoSite, path |-> 0, file |-> FALSE,
                        url |-> 0, action |-> "keep"]
          /\ icon' = icon
      BY <2>1 DEF Icons!CreateForm, Icons!PrepareSiteForm, Icons!NoForm
    <3> QED
      BY <1>2, <3>1
  <2>2. ASSUME NEW s \in Sites, Icons!EditForm(s) PROVE FormInv'
    <3>1. /\ form' = [at |-> "edit", site |-> s, path |-> page[s], file |-> FALSE,
                        url |-> 0, action |-> "keep"]
          /\ icon' = icon
      BY <2>2 DEF Icons!EditForm, Icons!PrepareSiteForm, Icons!NoForm
    <3> QED
      BY <1>2, <3>1
  <2>3. CASE Icons!CloseSiteForm \/ Icons!SaveArrives
    <3>1. form' = Icons!NoForm /\ icon' = icon
      BY <2>3 DEF Icons!CloseSiteForm, Icons!SaveArrives, Icons!SetForm
    <3>2. form'.file = FALSE /\ form'.url = 0
      BY <3>1 DEF Icons!NoForm
    <3>3. form' = [at |-> form'.at, site |-> form'.site, path |-> form'.path, file |-> form'.file,
                   url |-> form'.url, action |-> form'.action]
      BY <3>1 DEF Icons!NoForm
    <3> QED
      BY <3>1, <3>2, <3>3 DEF FormInv
  <2>4. CASE Icons!HandleIconSelection
    BY <2>4, NewUrlIsNew DEF Icons!HandleIconSelection, Icons!SetForm, FormInv
  <2>5. CASE Icons!HandleBadSelection \/ Icons!HandleResetSiteIcon
    BY <2>5 DEF Icons!HandleBadSelection, Icons!HandleResetSiteIcon, Icons!SetForm, FormInv
  <2>6. CASE Icons!HandleSaveSite
    BY <2>6 DEF Icons!HandleSaveSite, Icons!SetForm, FormInv
  <2>7. CASE Icons!SaveFails
    BY <2>7 DEF Icons!SaveFails, FormInv
  <2>8. ASSUME NEW s \in Sites, Icons!SaveServed(s) PROVE FormInv'
    BY <2>8 DEF Icons!SaveServed, FormInv
  <2> QED
    BY <1>9, <2>1, <2>2, <2>3, <2>4, <2>5, <2>6, <2>7, <2>8 DEF Icons!FormNext
<1> QED
  BY <1>3, <1>4, <1>5, <1>6, <1>7, <1>8, <1>9, <1>10 DEF Icons!Next

(* So the server stores what the form previewed.                           *)
LEMMA SavedAsPreviewed == FormInv => Icons!AsPreviewed
  BY DEF FormInv, Icons!AsPreviewed, Icons!SaveServed

-----------------------------------------------------------------------------
(* Preferences.                                                            *)

Limits == Preferences!MinInset .. Preferences!MaxInset
Values == UNION {Preferences!Options(k) : k \in Keys}

(* What the browser keeps, what each tab shows, which requests are under   *)
(* way, who wrote what last and the rest.                                  *)
KeptOK ==
    kept \in [prefs: [Keys -> Values \cup {"other"}],
              inset: Preferences!StoredInsets \cup Limits,
              folded: [Preferences!StorageKeys -> SUBSET Users]]
PagesOK ==
    /\ page \in [Tabs -> Preferences!Page]
    /\ \A t \in Tabs, k \in Keys : page[t].prefs[k] \in Preferences!Options(k)
PrefCallsOK == calls \subseteq Preferences!Call
PrefRestOK ==
    /\ signed \in Users
    /\ configured \in [Users -> BOOLEAN]
    /\ writer \in [Preferences!Kept -> Tabs \cup {"nobody"}]
    /\ behind \subseteq Tabs
    /\ events \in 0..PreferenceEvents

PrefTypes == KeptOK /\ PagesOK /\ PrefCallsOK /\ PrefRestOK

(* What is folded for a user, on a page or kept, is the user's group.      *)
Folded ==
    /\ Preferences!FoldingStaysWithItsUser
    /\ \A t \in Tabs : page[t].fold.key \in Users => page[t].fold.groups \subseteq {page[t].fold.key}
    /\ \A c \in calls : c.for = "lock" => c.group = c.user

(* A control center that is not behind shows the status of its user, or    *)
(* the answers under way to it all say it.                                 *)
StatusOf(t) ==
    /\ ~page[t].center => Preferences!Asking(t) = {}
    /\ page[t].center => page[t].user \in Users
    /\ page[t].center /\ t \notin behind =>
         /\ Preferences!Asking(t) = {} => page[t].configured = configured[page[t].user]
         /\ \A c \in Preferences!Asking(t) : c.configured = configured[page[t].user]

StatusKnown == \A t \in Tabs : StatusOf(t)

PrefInv == PrefTypes /\ Folded /\ StatusKnown /\ Preferences!KeptIsShown

(* A preference that is read is one of its choices, the next one is too,   *)
(* and what was read once is read so again.                                *)
LEMMA ReadIsAChoice ==
    ASSUME NEW k \in Keys
    PROVE  /\ Preferences!Order[k][1] \in Preferences!Options(k)
           /\ \A v : Preferences!Read(k, v) \in Preferences!Options(k)
           /\ \A v \in Preferences!Options(k) :
                /\ Preferences!Read(k, v) = v
                /\ Preferences!NextOf(k, v) \in Preferences!Options(k)
<1>1. k \in {"locale", "theme", "background", "sidebar", "engine"}
  BY WebPageAssumption DEF Preferences!Order
<1>2. /\ Len(Preferences!Order[k]) \in {2, 3}
      /\ DOMAIN Preferences!Order[k] = 1..Len(Preferences!Order[k])
  BY <1>1 DEF Preferences!Order
<1>3. Preferences!Options(k) = {Preferences!Order[k][i] : i \in 1..Len(Preferences!Order[k])}
  BY <1>2 DEF Preferences!Options, Preferences!ToSet
<1>4. Preferences!Order[k][1] \in Preferences!Options(k)
  BY <1>2, <1>3
<1>5. \A v : Preferences!Read(k, v) \in Preferences!Options(k)
  BY <1>4 DEF Preferences!Read
<1>6. ASSUME NEW v \in Preferences!Options(k) PROVE Preferences!NextOf(k, v) \in Preferences!Options(k)
  <2> DEFINE j == CHOOSE i \in DOMAIN Preferences!Order[k] : Preferences!Order[k][i] = v
  <2>1. j \in 1..Len(Preferences!Order[k])
    BY <1>2, <1>3
  <2>2. 1 + (j % Len(Preferences!Order[k])) \in 1..Len(Preferences!Order[k])
    BY <1>2, <2>1
  <2> QED
    BY <1>3, <2>2 DEF Preferences!NextOf
<1> QED
  BY <1>4, <1>5, <1>6 DEF Preferences!Read

LEMMA PrefTypesAreTypes == PrefTypes => Preferences!TypeOK
<1> SUFFICES ASSUME PrefTypes PROVE Preferences!TypeOK
  OBVIOUS
<1>1. /\ kept.prefs \in [Keys -> Values \cup {"other"}]
      /\ kept.inset \in Preferences!StoredInsets \cup Limits
      /\ kept.folded \in [Preferences!StorageKeys -> SUBSET Preferences!Groups]
  BY DEF PrefTypes, KeptOK, Preferences!Groups
<1>2. /\ signed \in Users
      /\ page \in [Tabs -> Preferences!Page]
      /\ \A t \in Tabs, k \in Keys : page[t].prefs[k] \in Preferences!Options(k)
      /\ calls \subseteq Preferences!Call
  BY DEF PrefTypes, PagesOK, PrefCallsOK, PrefRestOK
<1>3. /\ configured \in [Users -> BOOLEAN]
      /\ writer \in [Preferences!Kept -> Tabs \cup {"nobody"}]
      /\ behind \subseteq Tabs
      /\ events \in 0..PreferenceEvents
  BY DEF PrefTypes, PrefRestOK
<1> QED
  BY <1>1, <1>2, <1>3 DEF Preferences!TypeOK, Values, Limits

(* A call of a tab, and what the fields of a call are.                     *)
LEMMA PrefCallFields ==
    ASSUME PrefCallsOK, NEW c \in calls
    PROVE  /\ c.tab \in Tabs /\ c.user \in Users /\ c.configured \in BOOLEAN
           /\ c.group \in Users \cup {Anonymous}
           /\ c.for \in {"welcome", "lock", "status", "set", "clear"}
  BY DEF PrefCallsOK, Preferences!Call, Preferences!Groups

LEMMA PageFields ==
    ASSUME PagesOK, NEW t \in Tabs
    PROVE  /\ page[t] = [open |-> page[t].open, prefs |-> page[t].prefs, inset |-> page[t].inset,
                         resting |-> page[t].resting, user |-> page[t].user, fold |-> page[t].fold,
                         center |-> page[t].center, configured |-> page[t].configured]
           /\ page[t].open \in BOOLEAN /\ page[t].resting \in BOOLEAN
           /\ page[t].center \in BOOLEAN /\ page[t].configured \in BOOLEAN
           /\ page[t].prefs \in [Keys -> Values] /\ page[t].inset \in Limits
           /\ page[t].user \in Users \cup {Anonymous}
           /\ page[t].fold = [key |-> page[t].fold.key, groups |-> page[t].fold.groups]
           /\ page[t].fold.key \in Users \cup {Anonymous} /\ page[t].fold.groups \subseteq Users
  BY DEF PagesOK, Preferences!Page, Values, Limits, Preferences!StorageKeys, Preferences!Groups

LEMMA KeptFields ==
    ASSUME KeptOK
    PROVE  /\ kept = [prefs |-> kept.prefs, inset |-> kept.inset, folded |-> kept.folded]
           /\ kept.prefs \in [Keys -> Values \cup {"other"}]
           /\ kept.inset \in Preferences!StoredInsets \cup Limits
           /\ kept.folded \in [Users \cup {Anonymous} -> SUBSET Users]
  BY DEF KeptOK, Preferences!StorageKeys

LEMMA CallsStep ==
    ASSUME PrefTypes, Preferences!Next
    PROVE  PrefCallsOK'
<1> USE DEF PrefTypes
<1>0. /\ signed \in Users /\ configured \in [Users -> BOOLEAN]
      /\ \A t \in Tabs : page[t].user \in Users \cup {Anonymous}
  BY PageFields DEF PrefRestOK
<1>1. ASSUME calls' \subseteq calls PROVE PrefCallsOK'
  BY <1>1 DEF PrefCallsOK
<1>2. ASSUME NEW t \in Tabs, NEW for \in {"welcome", "lock", "status", "set", "clear"},
             NEW u \in Users, NEW g \in Users \cup {Anonymous}, NEW b \in BOOLEAN,
             NEW left \in SUBSET calls,
             calls' = left \cup {[tab |-> t, for |-> for, user |-> u, group |-> g, configured |-> b]}
      PROVE  PrefCallsOK'
  BY <1>2 DEF PrefCallsOK, Preferences!Call, Preferences!Groups
<1>3. ASSUME NEW t \in Tabs, Preferences!OpenTab(t) PROVE PrefCallsOK'
  <2> DEFINE left == {c \in calls : c.tab # t}
  <2>1. calls' = left \cup {[tab |-> t, for |-> "welcome", user |-> signed, group |-> Anonymous,
                             configured |-> FALSE]}
    BY <1>3 DEF Preferences!OpenTab
  <2>2. left \in SUBSET calls
    OBVIOUS
  <2> HIDE DEF left
  <2> QED
    BY <1>0, <1>2, <2>1, <2>2
<1>4. ASSUME NEW t \in Tabs, Preferences!LoadLaunchpad(t) PROVE PrefCallsOK'
  BY <1>0, <1>2, <1>4 DEF Preferences!LoadLaunchpad
<1>5. ASSUME NEW t \in Tabs, Preferences!OpenCenter(t) PROVE PrefCallsOK'
  BY <1>0, <1>2, <1>5 DEF Preferences!OpenCenter
<1>6. ASSUME NEW t \in Tabs, NEW g \in Preferences!Groups, Preferences!LockGroupPersistently(t, g)
      PROVE  PrefCallsOK'
  BY <1>0, <1>2, <1>6 DEF Preferences!LockGroupPersistently, Preferences!Groups
<1>7. ASSUME NEW t \in Tabs, NEW for \in {"set", "clear"}, Preferences!ChangeLockPassword(t, for)
      PROVE  PrefCallsOK'
  BY <1>0, <1>2, <1>7 DEF Preferences!ChangeLockPassword
<1>8. ASSUME NEW t \in Tabs,
             \/ Preferences!CloseTab(t) \/ Preferences!SaveInset(t) \/ Preferences!CloseCenter(t)
             \/ \E k \in Keys : Preferences!Choose(t, k)
             \/ \E n \in Preferences!SliderInsets : Preferences!SetContentInset(t, n)
             \/ \E g \in Preferences!Groups : Preferences!ToggleGroup(t, g)
      PROVE  PrefCallsOK'
  BY <1>1, <1>8 DEF Preferences!CloseTab, Preferences!SaveInset, Preferences!CloseCenter,
     Preferences!Choose, Preferences!SetContentInset, Preferences!ToggleGroup
<1>9. ASSUME NEW c \in calls,
             \/ Preferences!WelcomeArrives(c) \/ Preferences!LockArrives(c)
             \/ Preferences!LockStatusArrives(c) \/ Preferences!LockStatusFails(c)
      PROVE  PrefCallsOK'
  BY <1>1, <1>9 DEF Preferences!WelcomeArrives, Preferences!LockArrives,
     Preferences!LockStatusArrives, Preferences!LockStatusFails
<1>10. ASSUME NEW u \in Users, Preferences!SignIn(u) PROVE PrefCallsOK'
  BY <1>1, <1>10 DEF Preferences!SignIn
<1> QED
  BY <1>3, <1>4, <1>5, <1>6, <1>7, <1>8, <1>9, <1>10 DEF Preferences!Next

LEMMA RestStep ==
    ASSUME PrefTypes, Preferences!Next
    PROVE  PrefRestOK'
<1>b. PreferenceEvents \in Nat
  BY WebPageAssumption
<1> USE <1>b DEF PrefTypes, PrefRestOK, Preferences!Event
<1>0. /\ Users \subseteq Preferences!Kept /\ Keys \subseteq Preferences!Kept
      /\ "inset" \in Preferences!Kept /\ Anonymous \in Preferences!Kept
      /\ \A t \in Tabs : page[t].user \in Users \cup {Anonymous}
      /\ \A c \in calls : c.tab \in Tabs /\ c.user \in Users
  BY PageFields, PrefCallFields DEF Preferences!Kept, Preferences!StorageKeys
<1>1. ASSUME NEW u \in Users, Preferences!SignIn(u) PROVE PrefRestOK'
  BY <1>1 DEF Preferences!SignIn
<1>2. ASSUME NEW t \in Tabs,
             Preferences!CloseTab(t) \/ Preferences!LoadLaunchpad(t) \/ Preferences!OpenCenter(t)
               \/ Preferences!CloseCenter(t)
      PROVE  PrefRestOK'
  BY <1>2 DEF Preferences!CloseTab, Preferences!LoadLaunchpad, Preferences!OpenCenter,
     Preferences!CloseCenter
<1>3. ASSUME NEW t \in Tabs, Preferences!OpenTab(t) PROVE PrefRestOK'
  BY <1>3 DEF Preferences!OpenTab
<1>4. ASSUME NEW t \in Tabs, Preferences!SaveInset(t) PROVE PrefRestOK'
  BY <1>0, <1>4 DEF Preferences!SaveInset
<1>5. ASSUME NEW t \in Tabs, NEW k \in Keys, Preferences!Choose(t, k) PROVE PrefRestOK'
  BY <1>0, <1>5 DEF Preferences!Choose
<1>6. ASSUME NEW t \in Tabs, NEW n \in Preferences!SliderInsets, Preferences!SetContentInset(t, n)
      PROVE  PrefRestOK'
  BY <1>6 DEF Preferences!SetContentInset
<1>7. ASSUME NEW t \in Tabs, NEW g \in Preferences!Groups,
             Preferences!ToggleGroup(t, g) \/ Preferences!LockGroupPersistently(t, g)
      PROVE  PrefRestOK'
  BY <1>0, <1>7 DEF Preferences!ToggleGroup, Preferences!LockGroupPersistently
<1>8. ASSUME NEW t \in Tabs, NEW for \in {"set", "clear"}, Preferences!ChangeLockPassword(t, for)
      PROVE  PrefRestOK'
  BY <1>8 DEF Preferences!ChangeLockPassword, Preferences!Overtaken
<1>9. ASSUME NEW c \in calls, Preferences!WelcomeArrives(c) PROVE PrefRestOK'
  BY <1>0, <1>9 DEF Preferences!WelcomeArrives
<1>10. ASSUME NEW c \in calls, Preferences!LockArrives(c) PROVE PrefRestOK'
  BY <1>0, <1>10 DEF Preferences!LockArrives, Preferences!SetGroups
<1>11. ASSUME NEW c \in calls, Preferences!LockStatusArrives(c) \/ Preferences!LockStatusFails(c)
       PROVE  PrefRestOK'
  BY <1>0, <1>11 DEF Preferences!LockStatusArrives, Preferences!LockStatusFails
<1> QED
  BY <1>1, <1>2, <1>3, <1>4, <1>5, <1>6, <1>7, <1>8, <1>9, <1>10, <1>11 DEF Preferences!Next

(* What is kept changes in three places, each typed.                       *)
LEMMA KeptStep ==
    ASSUME PrefTypes, Folded, Preferences!Next
    PROVE  KeptOK'
<1> USE DEF PrefTypes
<1>0. /\ kept = [prefs |-> kept.prefs, inset |-> kept.inset, folded |-> kept.folded]
      /\ kept.prefs \in [Keys -> Values \cup {"other"}]
      /\ kept.inset \in Preferences!StoredInsets \cup Limits
      /\ kept.folded \in [Users \cup {Anonymous} -> SUBSET Users]
  BY KeptFields
<1>1. CASE UNCHANGED kept
  BY <1>1 DEF KeptOK
<1>2. ASSUME NEW p \in [Keys -> Values \cup {"other"}], kept' = [kept EXCEPT !.prefs = p]
      PROVE  KeptOK'
  BY <1>2 DEF KeptOK
<1>3. ASSUME NEW n \in Limits, kept' = [kept EXCEPT !.inset = n] PROVE KeptOK'
  BY <1>3 DEF KeptOK
<1>4. ASSUME NEW u \in Users, NEW g \in SUBSET Users, kept' = [kept EXCEPT !.folded[u] = g]
      PROVE  KeptOK'
  BY <1>0, <1>4 DEF KeptOK, Preferences!StorageKeys
<1>5. ASSUME NEW t \in Tabs, Preferences!OpenTab(t) PROVE KeptOK'
  <2>1. [k \in Keys |-> Preferences!Read(k, kept.prefs[k])] \in [Keys -> Values \cup {"other"}]
    BY ReadIsAChoice DEF Values
  <2> QED
    BY <1>2, <1>5, <2>1 DEF Preferences!OpenTab
<1>6. ASSUME NEW t \in Tabs, Preferences!SaveInset(t) PROVE KeptOK'
  BY <1>3, <1>6, PageFields DEF Preferences!SaveInset
<1>7. ASSUME NEW t \in Tabs, NEW k \in Keys, Preferences!Choose(t, k) PROVE KeptOK'
  <2> DEFINE v == Preferences!NextOf(k, page[t].prefs[k])
  <2>1. v \in Values
    BY ReadIsAChoice DEF Values, PagesOK
  <2>2. kept' = [kept EXCEPT !.prefs = [kept.prefs EXCEPT ![k] = v]]
    BY <1>0, <1>7 DEF Preferences!Choose
  <2> HIDE DEF v
  <2>3. [kept.prefs EXCEPT ![k] = v] \in [Keys -> Values \cup {"other"}]
    BY <1>0, <2>1
  <2> QED
    BY <1>2, <2>2, <2>3
<1>8. ASSUME NEW t \in Tabs, NEW g \in Preferences!Groups, Preferences!ToggleGroup(t, g)
      PROVE  KeptOK'
  <2>1. PICK h \in SUBSET Users : kept' = [kept EXCEPT !.folded[page[t].user] = h]
    BY <1>0, <1>8, PageFields DEF Preferences!ToggleGroup, Preferences!Groups
  <2>2. page[t].user \in Users
    BY <1>8 DEF Preferences!ToggleGroup
  <2> QED
    BY <1>4, <2>1, <2>2
<1>9. ASSUME NEW c \in calls, Preferences!WelcomeArrives(c) PROVE KeptOK'
  <2> DEFINE u == c.user
             g == IF page[c.tab].fold.key = u THEN page[c.tab].fold.groups ELSE kept.folded[u]
  <2>1. c.tab \in Tabs /\ u \in Users
    BY PrefCallFields
  <2>2. g \in SUBSET Users
    BY <1>0, <2>1, PageFields
  <2>3. UNCHANGED kept \/ kept' = [kept EXCEPT !.folded[u] = g]
    BY <1>9 DEF Preferences!WelcomeArrives
  <2> HIDE DEF u, g
  <2> QED
    BY <1>1, <1>4, <2>1, <2>2, <2>3
<1>10. ASSUME NEW c \in calls, Preferences!LockArrives(c) PROVE KeptOK'
  <2> DEFINE u == c.user
             fold == page[c.tab].fold
             g == (IF fold.key = u THEN fold.groups ELSE kept.folded[u]) \cup {c.group}
  <2>1. c.tab \in Tabs /\ u \in Users /\ c.group \in Users
    BY <1>10, PrefCallFields DEF Preferences!LockArrives, Folded
  <2>2. g \in SUBSET Users
    BY <1>0, <2>1, PageFields
  <2>3. UNCHANGED kept \/ kept' = [kept EXCEPT !.folded[u] = g]
    BY <1>10 DEF Preferences!LockArrives, Preferences!SetGroups
  <2> HIDE DEF u, g, fold
  <2> QED
    BY <1>1, <1>4, <2>1, <2>2, <2>3
<1>11. ASSUME NEW t \in Tabs,
              \/ Preferences!CloseTab(t) \/ Preferences!LoadLaunchpad(t)
              \/ Preferences!OpenCenter(t) \/ Preferences!CloseCenter(t)
              \/ \E n \in Preferences!SliderInsets : Preferences!SetContentInset(t, n)
              \/ \E g \in Preferences!Groups : Preferences!LockGroupPersistently(t, g)
              \/ \E for \in {"set", "clear"} : Preferences!ChangeLockPassword(t, for)
       PROVE  UNCHANGED kept
  BY <1>11 DEF Preferences!CloseTab, Preferences!LoadLaunchpad, Preferences!OpenCenter,
     Preferences!CloseCenter, Preferences!SetContentInset, Preferences!LockGroupPersistently,
     Preferences!ChangeLockPassword
<1>12. ASSUME NEW c \in calls, Preferences!LockStatusArrives(c) \/ Preferences!LockStatusFails(c)
       PROVE  UNCHANGED kept
  BY <1>12 DEF Preferences!LockStatusArrives, Preferences!LockStatusFails
<1>13. ASSUME NEW u \in Users, Preferences!SignIn(u) PROVE UNCHANGED kept
  BY <1>13 DEF Preferences!SignIn
<1> QED
  BY <1>1, <1>5, <1>6, <1>7, <1>8, <1>9, <1>10, <1>11, <1>12, <1>13 DEF Preferences!Next

(* A page that shows choices; what a page shows is replaced by such.       *)
Shows == {p \in Preferences!Page : \A k \in Keys : p.prefs[k] \in Preferences!Options(k)}

LEMMA ClosedShows == Preferences!Closed \in Shows
<1>1. \A k \in Keys : Preferences!Order[k][1] \in Preferences!Options(k)
  BY ReadIsAChoice
<1>2. Preferences!DefaultInset \in Limits
  BY DEF Limits, Preferences!DefaultInset, Preferences!MinInset, Preferences!MaxInset
<1> QED
  BY <1>1, <1>2 DEF Shows, Limits, Preferences!Page, Preferences!Closed, Preferences!StorageKeys,
     Preferences!Groups

(* An inset that is read or set lies within the limits.                    *)
LEMMA InsetsWithinLimits ==
    /\ \A n \in Int : Preferences!Clamp(n) \in Limits
    /\ \A n \in Preferences!StoredInsets \cup Limits : Preferences!ReadInset(n) \in Limits
    /\ \A n \in Limits : Preferences!ReadInset(n) = n
  BY DEF Limits, Preferences!ReadInset, Preferences!Clamp, Preferences!AtMost, Preferences!AtLeast,
     Preferences!MinInset, Preferences!MaxInset, Preferences!DefaultInset, Preferences!NaN,
     Preferences!StoredInsets

LEMMA PagesStep ==
    ASSUME PrefTypes, Folded, Preferences!Next
    PROVE  PagesOK'
<1> USE DEF PrefTypes
<1>0. /\ \A t \in Tabs : page[t] \in Shows
      /\ page \in [Tabs -> Preferences!Page]
  BY DEF PagesOK, Shows
<1>1. CASE UNCHANGED page
  BY <1>1 DEF PagesOK
<1>2. ASSUME NEW t \in Tabs, NEW p \in Shows, page' = [page EXCEPT ![t] = p] PROVE PagesOK'
  BY <1>0, <1>2 DEF PagesOK, Shows
<1>3. ASSUME NEW t \in Tabs, Preferences!OpenTab(t) PROVE PagesOK'
  <2> DEFINE prefs == [k \in Keys |-> Preferences!Read(k, kept.prefs[k])]
             inset == Preferences!ReadInset(kept.inset)
             folded == kept.folded[Anonymous]
             p == [Preferences!Closed EXCEPT !.open = TRUE, !.prefs = prefs, !.inset = inset,
                                             !.resting = FALSE, !.fold.groups = folded]
  <2>1. page' = [page EXCEPT ![t] = p]
    BY <1>3 DEF Preferences!OpenTab
  <2>2. /\ prefs \in [Keys -> Values]
        /\ \A k \in Keys : prefs[k] \in Preferences!Options(k)
    BY ReadIsAChoice DEF Values
  <2>3. inset \in Limits /\ folded \in SUBSET Users
    BY KeptFields, InsetsWithinLimits
  <2> HIDE DEF prefs, inset, folded
  <2>4. p \in Shows
    BY <2>2, <2>3 DEF Shows, Values, Limits, Preferences!Page, Preferences!Closed,
       Preferences!StorageKeys, Preferences!Groups
  <2> HIDE DEF p
  <2> QED
    BY <1>2, <2>1, <2>4
<1>4. ASSUME NEW t \in Tabs, Preferences!CloseTab(t) PROVE PagesOK'
  <2> HIDE DEF PrefTypes
  <2> QED
    BY <1>2, <1>4, ClosedShows DEF Preferences!CloseTab
<1>5. ASSUME NEW t \in Tabs, NEW k \in Keys, Preferences!Choose(t, k) PROVE PagesOK'
  <2> DEFINE v == Preferences!NextOf(k, page[t].prefs[k])
             q == [page[t].prefs EXCEPT ![k] = v]
             p == [page[t] EXCEPT !.prefs = q]
  <2>1. v \in Preferences!Options(k)
    BY ReadIsAChoice DEF PagesOK
  <2>2. page' = [page EXCEPT ![t] = p]
    BY <1>0, <1>5, PageFields DEF Preferences!Choose
  <2> HIDE DEF v
  <2>3. q \in [Keys -> Values] /\ \A j \in Keys : q[j] \in Preferences!Options(j)
    BY <2>1, PageFields DEF PagesOK, Values
  <2> HIDE DEF q
  <2>4. p \in Shows
    BY <1>0, <2>3 DEF Shows, Preferences!Page, Values
  <2> HIDE DEF p
  <2> QED
    BY <1>2, <2>2, <2>4
<1>6. ASSUME NEW t \in Tabs, NEW n \in Preferences!SliderInsets, Preferences!SetContentInset(t, n)
      PROVE  PagesOK'
  <2> DEFINE i == Preferences!Clamp(n)
             p == [page[t] EXCEPT !.inset = i, !.resting = FALSE]
  <2>1. i \in Limits
    BY InsetsWithinLimits DEF Preferences!SliderInsets
  <2>2. page' = [page EXCEPT ![t] = p]
    BY <1>0, <1>6 DEF Preferences!SetContentInset
  <2> HIDE DEF i
  <2>3. p \in Shows
    BY <1>0, <2>1 DEF Shows, Limits, Preferences!Page
  <2> HIDE DEF p
  <2> QED
    BY <1>2, <2>2, <2>3
<1>7. ASSUME NEW t \in Tabs, NEW b \in BOOLEAN,
             \/ page' = [page EXCEPT ![t].resting = b]
             \/ page' = [page EXCEPT ![t].configured = b]
             \/ page' = [page EXCEPT ![t].center = b]
             \/ page' = [page EXCEPT ![t].center = b, ![t].configured = FALSE]
      PROVE  PagesOK'
  <2>1. /\ [page[t] EXCEPT !.resting = b] \in Shows
        /\ [page[t] EXCEPT !.configured = b] \in Shows
        /\ [page[t] EXCEPT !.center = b] \in Shows
        /\ [page[t] EXCEPT !.center = b, !.configured = FALSE] \in Shows
    BY <1>0 DEF Shows, Preferences!Page
  <2>2. PICK p \in Shows : page' = [page EXCEPT ![t] = p]
    BY <1>7, <2>1
  <2> QED
    BY <1>2, <2>2
<1>8. ASSUME NEW t \in Tabs, NEW u \in Preferences!StorageKeys, NEW g \in SUBSET Users,
             \/ page' = [page EXCEPT ![t].fold = [key |-> u, groups |-> g]]
             \/ page' = [page EXCEPT ![t].user = u, ![t].fold = [key |-> u, groups |-> g]]
      PROVE  PagesOK'
  <2>1. /\ [page[t] EXCEPT !.fold = [key |-> u, groups |-> g]] \in Shows
        /\ [page[t] EXCEPT !.user = u, !.fold = [key |-> u, groups |-> g]] \in Shows
    BY <1>0 DEF Shows, Preferences!Page, Preferences!Groups
  <2>2. PICK p \in Shows : page' = [page EXCEPT ![t] = p]
    BY <1>8, <2>1
  <2> QED
    BY <1>2, <2>2
<1>9. ASSUME NEW t \in Tabs,
             \/ Preferences!SaveInset(t) \/ Preferences!OpenCenter(t) \/ Preferences!CloseCenter(t)
      PROVE  PagesOK'
  BY <1>7, <1>9 DEF Preferences!SaveInset, Preferences!OpenCenter, Preferences!CloseCenter
<1>10. ASSUME NEW c \in calls, Preferences!LockStatusArrives(c) \/ Preferences!LockStatusFails(c)
       PROVE  PagesOK'
  BY <1>7, <1>10, PrefCallFields DEF Preferences!LockStatusArrives, Preferences!LockStatusFails
<1>11. ASSUME NEW t \in Tabs, NEW g \in Preferences!Groups, Preferences!ToggleGroup(t, g)
       PROVE  PagesOK'
  <2>1. PICK h \in SUBSET Users :
          page' = [page EXCEPT ![t].fold = [key |-> page[t].user, groups |-> h]]
    BY <1>11, KeptFields, PageFields DEF Preferences!ToggleGroup, Preferences!Groups
  <2>2. page[t].user \in Preferences!StorageKeys
    BY <1>11 DEF Preferences!ToggleGroup, Preferences!StorageKeys
  <2> QED
    BY <1>8, <2>1, <2>2
<1>12. ASSUME NEW c \in calls, Preferences!WelcomeArrives(c) PROVE PagesOK'
  <2> DEFINE u == c.user
             g == IF page[c.tab].fold.key = u THEN page[c.tab].fold.groups ELSE kept.folded[u]
  <2>1. c.tab \in Tabs /\ u \in Preferences!StorageKeys
    BY PrefCallFields DEF Preferences!StorageKeys
  <2>2. g \in SUBSET Users
    BY <2>1, PrefCallFields, KeptFields, PageFields
  <2>3. \/ UNCHANGED page
        \/ page' = [page EXCEPT ![c.tab].user = u, ![c.tab].fold = [key |-> u, groups |-> g]]
    BY <1>12 DEF Preferences!WelcomeArrives
  <2> HIDE DEF u, g
  <2> QED
    BY <1>1, <1>8, <2>1, <2>2, <2>3
<1>13. ASSUME NEW c \in calls, Preferences!LockArrives(c) PROVE PagesOK'
  <2> DEFINE u == c.user
             fold == page[c.tab].fold
             g == (IF fold.key = u THEN fold.groups ELSE kept.folded[u]) \cup {c.group}
  <2>1. c.tab \in Tabs /\ u \in Preferences!StorageKeys /\ c.group \in Users
    BY <1>13, PrefCallFields DEF Preferences!LockArrives, Preferences!StorageKeys, Folded
  <2>2. g \in SUBSET Users
    BY <2>1, PrefCallFields, KeptFields, PageFields
  <2>3. page' = [page EXCEPT ![c.tab].fold = [key |-> u, groups |-> g]]
    BY <1>13 DEF Preferences!LockArrives, Preferences!SetGroups
  <2> HIDE DEF u, g, fold
  <2> QED
    BY <1>8, <2>1, <2>2, <2>3
<1>14. ASSUME NEW t \in Tabs,
              \/ Preferences!LoadLaunchpad(t)
              \/ \E g \in Preferences!Groups : Preferences!LockGroupPersistently(t, g)
              \/ \E for \in {"set", "clear"} : Preferences!ChangeLockPassword(t, for)
       PROVE  UNCHANGED page
  BY <1>14 DEF Preferences!LoadLaunchpad, Preferences!LockGroupPersistently,
     Preferences!ChangeLockPassword
<1>15. ASSUME NEW u \in Users, Preferences!SignIn(u) PROVE UNCHANGED page
  BY <1>15 DEF Preferences!SignIn
<1> QED
  BY <1>1, <1>3, <1>4, <1>5, <1>6, <1>9, <1>10, <1>11, <1>12, <1>13, <1>14, <1>15 DEF Preferences!Next

(* What a page consists of: the rest stays where one field is replaced.    *)
Parts == {"open", "prefs", "inset", "resting", "user", "fold", "center", "configured"}

LEMMA PageParts ==
    PagesOK => page = [t \in Tabs |-> page[t]] /\ \A t \in Tabs : DOMAIN page[t] = Parts
  BY DEF PagesOK, Preferences!Page, Parts

(* Folding: every write of the groups is one of the user's own.            *)
LEMMA FoldedStep ==
    ASSUME PrefTypes, Folded, Preferences!Next
    PROVE  Folded'
<1> USE DEF PrefTypes
<1> DEFINE OwnOnes(fold) == fold.key \in Users => fold.groups \subseteq {fold.key}
<1>0. /\ \A u \in Users : kept.folded[u] \subseteq {u}
      /\ \A t \in Tabs : OwnOnes(page[t].fold)
      /\ \A c \in calls : c.for = "lock" => c.group = c.user
      /\ page = [t \in Tabs |-> page[t]]
      /\ \A t \in Tabs : DOMAIN page[t] = Parts
  BY PageParts DEF Folded, Preferences!FoldingStaysWithItsUser, Preferences!HasGroup
<1>1. ASSUME \A u \in Users : kept'.folded[u] \subseteq {u},
             \A t \in Tabs : OwnOnes(page'[t].fold),
             \A c \in calls' : c \in calls \/ c.for # "lock" \/ c.group = c.user
      PROVE  Folded'
  BY <1>0, <1>1 DEF Folded, Preferences!FoldingStaysWithItsUser, Preferences!HasGroup
<1>2. ASSUME NEW t \in Tabs, NEW u \in Users, NEW g \in SUBSET Users, g \subseteq {u},
             \/ UNCHANGED kept
             \/ kept' = [kept EXCEPT !.folded[u] = g],
             \/ page' = [page EXCEPT ![t].fold = [key |-> u, groups |-> g]]
             \/ page' = [page EXCEPT ![t].user = u, ![t].fold = [key |-> u, groups |-> g]],
             calls' \subseteq calls
      PROVE  Folded'
  <2>1. \A w \in Users : kept'.folded[w] \subseteq {w}
    BY <1>0, <1>2, KeptFields
  <2>2. page'[t].fold = [key |-> u, groups |-> g]
    <3>1. CASE page' = [page EXCEPT ![t].fold = [key |-> u, groups |-> g]]
      BY <1>0, <3>1 DEF Parts
    <3>2. CASE page' = [page EXCEPT ![t].user = u, ![t].fold = [key |-> u, groups |-> g]]
      <4>1. page'[t] = [page[t] EXCEPT !.user = u, !.fold = [key |-> u, groups |-> g]]
        BY <1>0, <3>2
      <4> QED
        BY <1>0, <4>1 DEF Parts
    <3> QED
      BY <1>2, <3>1, <3>2
  <2>3. \A s \in Tabs \ {t} : page'[s] = page[s]
    BY <1>0, <1>2
  <2>4. \A s \in Tabs : OwnOnes(page'[s].fold)
    BY <1>0, <1>2, <2>2, <2>3
  <2> QED
    BY <1>1, <1>2, <2>1, <2>4
<1>3. ASSUME kept'.folded = kept.folded,
             NEW t \in Tabs, page'[t].fold = page[t].fold \/ page'[t].fold.key = Anonymous,
             \A s \in Tabs \ {t} : page'[s] = page[s],
             \A c \in calls' : c \in calls \/ c.for # "lock" \/ c.group = c.user
      PROVE  Folded'
  <2>1. \A s \in Tabs : OwnOnes(page'[s].fold)
    BY <1>0, <1>3, WebPageAssumption
  <2> QED
    BY <1>0, <1>1, <1>3, <2>1
<1>4. ASSUME NEW t \in Tabs, Preferences!OpenTab(t) PROVE Folded'
  <2>1. kept'.folded = kept.folded
    BY <1>4, KeptFields DEF Preferences!OpenTab
  <2>2. page'[t].fold.key = Anonymous /\ \A s \in Tabs \ {t} : page'[s] = page[s]
    BY <1>0, <1>4 DEF Preferences!OpenTab, Preferences!Closed
  <2>3. \A c \in calls' : c \in calls \/ c.for # "lock"
    BY <1>4 DEF Preferences!OpenTab
  <2> QED
    BY <1>3, <2>1, <2>2, <2>3
<1>5. ASSUME NEW t \in Tabs, Preferences!CloseTab(t) PROVE Folded'
  <2>1. page'[t].fold.key = Anonymous /\ \A s \in Tabs \ {t} : page'[s] = page[s]
    BY <1>0, <1>5 DEF Preferences!CloseTab, Preferences!Closed
  <2>2. \A c \in calls' : c \in calls
    BY <1>5 DEF Preferences!CloseTab
  <2> QED
    BY <1>3, <1>5, <2>1, <2>2 DEF Preferences!CloseTab
<1>6. ASSUME NEW t \in Tabs, NEW k \in Keys, Preferences!Choose(t, k) PROVE Folded'
  <2>1. kept'.folded = kept.folded
    BY <1>6, KeptFields DEF Preferences!Choose
  <2>2. page'[t].fold = page[t].fold /\ \A s \in Tabs \ {t} : page'[s] = page[s]
    BY <1>0, <1>6 DEF Parts, Preferences!Choose
  <2> QED
    BY <1>3, <1>6, <2>1, <2>2 DEF Preferences!Choose
<1>7. ASSUME NEW t \in Tabs, NEW n \in Preferences!SliderInsets, Preferences!SetContentInset(t, n)
      PROVE  Folded'
  <2>1. page'[t].fold = page[t].fold /\ \A s \in Tabs \ {t} : page'[s] = page[s]
    BY <1>0, <1>7 DEF Parts, Preferences!SetContentInset
  <2> QED
    BY <1>3, <1>7, <2>1 DEF Preferences!SetContentInset
<1>8. ASSUME NEW t \in Tabs, Preferences!SaveInset(t) PROVE Folded'
  <2>1. kept'.folded = kept.folded
    BY <1>8, KeptFields DEF Preferences!SaveInset
  <2>2. page'[t].fold = page[t].fold /\ \A s \in Tabs \ {t} : page'[s] = page[s]
    BY <1>0, <1>8 DEF Parts, Preferences!SaveInset
  <2> QED
    BY <1>3, <1>8, <2>1, <2>2 DEF Preferences!SaveInset
<1>9. ASSUME NEW t \in Tabs, Preferences!OpenCenter(t) \/ Preferences!CloseCenter(t) PROVE Folded'
  <2>1. page'[t].fold = page[t].fold /\ \A s \in Tabs \ {t} : page'[s] = page[s]
    BY <1>0, <1>9 DEF Parts, Preferences!OpenCenter, Preferences!CloseCenter
  <2>2. \A c \in calls' : c \in calls \/ c.for # "lock"
    BY <1>9 DEF Preferences!OpenCenter, Preferences!CloseCenter
  <2>3. UNCHANGED kept
    BY <1>9 DEF Preferences!OpenCenter, Preferences!CloseCenter
  <2> QED
    BY <1>3, <2>1, <2>2, <2>3
<1>10. ASSUME NEW c \in calls, Preferences!LockStatusArrives(c) \/ Preferences!LockStatusFails(c)
       PROVE  Folded'
  <2>1. c.tab \in Tabs
    BY PrefCallFields
  <2>2. page'[c.tab].fold = page[c.tab].fold /\ \A s \in Tabs \ {c.tab} : page'[s] = page[s]
    BY <1>0, <1>10, <2>1 DEF Parts, Preferences!LockStatusArrives, Preferences!LockStatusFails
  <2>3. UNCHANGED kept /\ calls' \subseteq calls
    BY <1>10 DEF Preferences!LockStatusArrives, Preferences!LockStatusFails
  <2> QED
    BY <1>3, <2>1, <2>2, <2>3
<1>11. ASSUME NEW t \in Tabs, NEW g \in Preferences!Groups, Preferences!ToggleGroup(t, g)
       PROVE  Folded'
  <2> DEFINE u == page[t].user
             base == IF page[t].fold.key = u THEN page[t].fold.groups ELSE kept.folded[u]
  <2>1. u \in Users /\ g = u
    BY <1>11 DEF Preferences!ToggleGroup, Preferences!HasGroup
  <2>2. base \subseteq {u}
    BY <1>0, <2>1
  <2>3. PICK h : /\ h = base \ {g} \/ h = base \cup {g}
                 /\ page' = [page EXCEPT ![t].fold = [key |-> u, groups |-> h]]
                 /\ kept' = [kept EXCEPT !.folded[u] = h]
    BY <1>11 DEF Preferences!ToggleGroup
  <2>4. h \subseteq {u} /\ h \in SUBSET Users
    BY <2>1, <2>2, <2>3
  <2>5. calls' = calls
    BY <1>11 DEF Preferences!ToggleGroup
  <2> HIDE DEF u, base
  <2> QED
    BY <1>2, <2>1, <2>3, <2>4, <2>5
<1>12. ASSUME NEW c \in calls, Preferences!WelcomeArrives(c) PROVE Folded'
  <2> DEFINE u == c.user
             g == IF page[c.tab].fold.key = u THEN page[c.tab].fold.groups ELSE kept.folded[u]
  <2>1. c.tab \in Tabs /\ u \in Users
    BY PrefCallFields
  <2>2. g \subseteq {u} /\ g \in SUBSET Users
    BY <1>0, <2>1
  <2>3. calls' \subseteq calls
    BY <1>12 DEF Preferences!WelcomeArrives
  <2>4. CASE UNCHANGED <<kept, page>>
    BY <1>0, <1>1, <2>3, <2>4
  <2>5. CASE /\ page' = [page EXCEPT ![c.tab].user = u, ![c.tab].fold = [key |-> u, groups |-> g]]
             /\ kept' = [kept EXCEPT !.folded[u] = g]
    <3> HIDE DEF u, g
    <3> QED
      BY <1>2, <2>1, <2>2, <2>3, <2>5
  <2> QED
    BY <1>12, <2>4, <2>5 DEF Preferences!WelcomeArrives
<1>13. ASSUME NEW c \in calls, Preferences!LockArrives(c) PROVE Folded'
  <2> DEFINE u == c.user
             fold == page[c.tab].fold
             g == (IF fold.key = u THEN fold.groups ELSE kept.folded[u]) \cup {c.group}
  <2>1. c.tab \in Tabs /\ u \in Users /\ c.group = u
    BY <1>0, <1>13, PrefCallFields DEF Preferences!LockArrives
  <2>2. g \subseteq {u} /\ g \in SUBSET Users
    BY <1>0, <2>1
  <2>3. /\ UNCHANGED kept \/ kept' = [kept EXCEPT !.folded[u] = g]
        /\ page' = [page EXCEPT ![c.tab].fold = [key |-> u, groups |-> g]]
        /\ calls' \subseteq calls
    BY <1>13 DEF Preferences!LockArrives, Preferences!SetGroups
  <2> HIDE DEF u, g, fold
  <2> QED
    BY <1>2, <2>1, <2>2, <2>3
<1>14. ASSUME NEW t \in Tabs,
              \/ Preferences!LoadLaunchpad(t)
              \/ \E g \in Preferences!Groups : Preferences!LockGroupPersistently(t, g)
              \/ \E for \in {"set", "clear"} : Preferences!ChangeLockPassword(t, for)
       PROVE  Folded'
  <2>1. UNCHANGED <<kept, page>>
    BY <1>14 DEF Preferences!LoadLaunchpad, Preferences!LockGroupPersistently,
       Preferences!ChangeLockPassword
  <2>2. \A c \in calls' : c \in calls \/ c.for # "lock" \/ c.group = c.user
    BY <1>14 DEF Preferences!LoadLaunchpad, Preferences!LockGroupPersistently,
       Preferences!ChangeLockPassword, Preferences!HasGroup
  <2> QED
    BY <1>0, <1>1, <2>1, <2>2
<1>15. ASSUME NEW u \in Users, Preferences!SignIn(u) PROVE Folded'
  BY <1>0, <1>1, <1>15 DEF Preferences!SignIn
<1> QED
  BY <1>4, <1>5, <1>6, <1>7, <1>8, <1>9, <1>10, <1>11, <1>12, <1>13, <1>14, <1>15 DEF Preferences!Next

(* The status of a tab that is asked for and shown as before stays known,  *)
(* unless the tab falls behind.                                            *)
LEMMA StatusStays ==
    ASSUME NEW s \in Tabs, StatusOf(s),
           page'[s].center = page[s].center, page'[s].user = page[s].user,
           page'[s].configured = page[s].configured,
           Preferences!Asking(s)' = Preferences!Asking(s),
           s \in behind => s \in behind',
           s \in behind' \/ ~page[s].center \/ configured'[page[s].user] = configured[page[s].user]
    PROVE  StatusOf(s)'
  BY DEF StatusOf

LEMMA StatusStep ==
    ASSUME PrefTypes, StatusKnown, Preferences!Next
    PROVE  StatusKnown'
<1> USE DEF PrefTypes
<1>0. /\ \A t \in Tabs : StatusOf(t)
      /\ page = [t \in Tabs |-> page[t]]
      /\ \A t \in Tabs : DOMAIN page[t] = Parts
      /\ configured = [u \in Users |-> configured[u]]
      /\ signed \in Users
  BY PageParts DEF StatusKnown, PrefRestOK
<1>1. ASSUME UNCHANGED <<configured, behind>>,
             \A s \in Tabs : page'[s].center = page[s].center /\ page'[s].user = page[s].user
                               /\ page'[s].configured = page[s].configured,
             \A s \in Tabs : Preferences!Asking(s)' = Preferences!Asking(s)
      PROVE  StatusKnown'
  BY <1>0, <1>1, StatusStays DEF StatusKnown
<1>2. ASSUME NEW t \in Tabs, StatusOf(t)',
             configured' = configured \/ \A s \in Tabs \ {t} :
                s \in behind' \/ ~page[s].center \/ configured'[page[s].user] = configured[page[s].user],
             \A s \in Tabs \ {t} : (s \in behind => s \in behind') /\ page'[s] = page[s],
             \A s \in Tabs \ {t} : Preferences!Asking(s)' = Preferences!Asking(s)
      PROVE  StatusKnown'
  <2>1. ASSUME NEW s \in Tabs \ {t} PROVE StatusOf(s)'
    BY <1>0, <1>2, StatusStays
  <2> QED
    BY <1>2, <2>1 DEF StatusKnown
<1>3. ASSUME NEW t \in Tabs, Preferences!OpenTab(t) PROVE StatusKnown'
  <2>1. page'[t].center = FALSE /\ \A s \in Tabs \ {t} : page'[s] = page[s]
    BY <1>0, <1>3 DEF Preferences!OpenTab, Preferences!Closed
  <2>2. Preferences!Asking(t)' = {} /\ \A s \in Tabs \ {t} : Preferences!Asking(s)' = Preferences!Asking(s)
    BY <1>3 DEF Preferences!OpenTab, Preferences!Asking
  <2>3. configured' = configured /\ \A s \in Tabs \ {t} : s \in behind => s \in behind'
    BY <1>3 DEF Preferences!OpenTab
  <2> QED
    BY <1>2, <2>1, <2>2, <2>3 DEF StatusOf
<1>4. ASSUME NEW t \in Tabs, Preferences!CloseTab(t) PROVE StatusKnown'
  <2>1. page'[t].center = FALSE /\ \A s \in Tabs \ {t} : page'[s] = page[s]
    BY <1>0, <1>4 DEF Preferences!CloseTab, Preferences!Closed
  <2>2. Preferences!Asking(t)' = {} /\ \A s \in Tabs \ {t} : Preferences!Asking(s)' = Preferences!Asking(s)
    BY <1>4 DEF Preferences!CloseTab, Preferences!Asking
  <2>3. UNCHANGED <<configured, behind>>
    BY <1>4 DEF Preferences!CloseTab
  <2> QED
    BY <1>2, <2>1, <2>2, <2>3 DEF StatusOf
<1>5. ASSUME NEW t \in Tabs,
             \/ Preferences!SaveInset(t)
             \/ \E k \in Keys : Preferences!Choose(t, k)
             \/ \E n \in Preferences!SliderInsets : Preferences!SetContentInset(t, n)
             \/ \E g \in Preferences!Groups : Preferences!ToggleGroup(t, g)
      PROVE  StatusKnown'
  <2> DEFINE Stays == /\ page'[t].center = page[t].center /\ page'[t].user = page[t].user
                      /\ page'[t].configured = page[t].configured
                      /\ \A s \in Tabs \ {t} : page'[s] = page[s]
  <2>1. UNCHANGED <<configured, behind, calls>>
    BY <1>5 DEF Preferences!SaveInset, Preferences!Choose, Preferences!SetContentInset,
       Preferences!ToggleGroup
  <2>2. Stays
    <3>1. CASE Preferences!SaveInset(t)
      BY <1>0, <3>1 DEF Parts, Preferences!SaveInset
    <3>2. ASSUME NEW k \in Keys, Preferences!Choose(t, k) PROVE Stays
      BY <1>0, <3>2 DEF Parts, Preferences!Choose
    <3>3. ASSUME NEW n \in Preferences!SliderInsets, Preferences!SetContentInset(t, n) PROVE Stays
      BY <1>0, <3>3 DEF Parts, Preferences!SetContentInset
    <3>4. ASSUME NEW g \in Preferences!Groups, Preferences!ToggleGroup(t, g) PROVE Stays
      BY <1>0, <3>4 DEF Parts, Preferences!ToggleGroup
    <3> QED
      BY <1>5, <3>1, <3>2, <3>3, <3>4
  <2> QED
    BY <1>1, <2>1, <2>2 DEF Preferences!Asking
<1>6. ASSUME NEW t \in Tabs,
             \/ Preferences!LoadLaunchpad(t)
             \/ \E g \in Preferences!Groups : Preferences!LockGroupPersistently(t, g)
      PROVE  StatusKnown'
  <2>1. UNCHANGED <<configured, behind, page>>
    BY <1>6 DEF Preferences!LoadLaunchpad, Preferences!LockGroupPersistently
  <2>2. \A s \in Tabs : Preferences!Asking(s)' = Preferences!Asking(s)
    BY <1>6 DEF Preferences!LoadLaunchpad, Preferences!LockGroupPersistently, Preferences!Asking
  <2> QED
    BY <1>1, <2>1, <2>2
<1>7. ASSUME NEW u \in Users, Preferences!SignIn(u) PROVE StatusKnown'
  BY <1>1, <1>7 DEF Preferences!SignIn, Preferences!Asking
<1>8. ASSUME NEW c \in calls, Preferences!LockArrives(c) PROVE StatusKnown'
  <2>1. UNCHANGED <<configured, behind>> /\ c.tab \in Tabs
    BY <1>8, PrefCallFields DEF Preferences!LockArrives
  <2>2. \A s \in Tabs : /\ page'[s].center = page[s].center /\ page'[s].user = page[s].user
                        /\ page'[s].configured = page[s].configured
    BY <1>0, <1>8, <2>1 DEF Parts, Preferences!LockArrives, Preferences!SetGroups
  <2>3. \A s \in Tabs : Preferences!Asking(s)' = Preferences!Asking(s)
    BY <1>8 DEF Preferences!LockArrives, Preferences!Asking
  <2> QED
    BY <1>1, <2>1, <2>2, <2>3
<1>9. ASSUME NEW c \in calls, Preferences!WelcomeArrives(c) PROVE StatusKnown'
  <2> DEFINE t == c.tab
             u == c.user
             g == IF page[t].fold.key = u THEN page[t].fold.groups ELSE kept.folded[u]
  <2>1. t \in Tabs /\ u \in Users /\ UNCHANGED configured
    BY <1>9, PrefCallFields DEF Preferences!WelcomeArrives
  <2>2. \A s \in Tabs : Preferences!Asking(s)' = Preferences!Asking(s)
    BY <1>9 DEF Preferences!WelcomeArrives, Preferences!Asking
  <2>3. CASE page[t].user = u
    BY <1>1, <1>9, <2>1, <2>2, <2>3 DEF Preferences!WelcomeArrives
  <2>4. CASE page[t].user # u
    <3>1. /\ page' = [page EXCEPT ![t].user = u, ![t].fold = [key |-> u, groups |-> g]]
          /\ behind' = behind \cup {s \in {t} : page[s].center}
      BY <1>9, <2>4 DEF Preferences!WelcomeArrives
    <3> HIDE DEF t, u, g
    <3>2. page'[t].user = u /\ page'[t].center = page[t].center
      BY <1>0, <2>1, <3>1 DEF Parts
    <3>3. StatusOf(t)'
      BY <1>0, <2>1, <2>2, <3>1, <3>2 DEF StatusOf
    <3>4. \A s \in Tabs \ {t} : page'[s] = page[s]
      BY <1>0, <2>1, <3>1
    <3> QED
      BY <1>2, <2>1, <2>2, <3>1, <3>3, <3>4
  <2> QED
    BY <2>3, <2>4
<1>10. ASSUME NEW t \in Tabs, Preferences!OpenCenter(t) PROVE StatusKnown'
  <2> DEFINE new == [tab |-> t, for |-> "status", user |-> signed, group |-> Anonymous,
                     configured |-> configured[signed]]
  <2>1. /\ page'[t].center = TRUE /\ page'[t].user = signed
        /\ \A s \in Tabs \ {t} : page'[s] = page[s]
    BY <1>0, <1>10 DEF Parts, Preferences!OpenCenter
  <2>2. Preferences!Asking(t) = {}
    BY <1>0, <1>10 DEF Preferences!OpenCenter, StatusOf
  <2>3. calls' = calls \cup {new}
    BY <1>10 DEF Preferences!OpenCenter
  <2>4. Preferences!Asking(t)' = {new} /\ \A s \in Tabs \ {t} : Preferences!Asking(s)' = Preferences!Asking(s)
    BY <2>2, <2>3 DEF Preferences!Asking
  <2>5. configured' = configured /\ \A s \in Tabs \ {t} : s \in behind => s \in behind'
    BY <1>10 DEF Preferences!OpenCenter
  <2>6. StatusOf(t)'
    <3>1. new.configured = configured[signed]
      OBVIOUS
    <3> HIDE DEF new
    <3> QED
      BY <1>0, <2>1, <2>4, <2>5, <3>1 DEF StatusOf
  <2> QED
    BY <1>2, <2>1, <2>4, <2>5, <2>6
<1>11. ASSUME NEW t \in Tabs, Preferences!CloseCenter(t) PROVE StatusKnown'
  <2>1. page'[t].center = FALSE /\ \A s \in Tabs \ {t} : page'[s] = page[s]
    BY <1>0, <1>11 DEF Parts, Preferences!CloseCenter
  <2>2. Preferences!Asking(t)' = {} /\ \A s \in Tabs \ {t} : Preferences!Asking(s)' = Preferences!Asking(s)
    BY <1>11 DEF Preferences!CloseCenter, Preferences!Asking
  <2>3. UNCHANGED <<configured, behind>>
    BY <1>11 DEF Preferences!CloseCenter
  <2> QED
    BY <1>2, <2>1, <2>2, <2>3 DEF StatusOf
<1>12. ASSUME NEW t \in Tabs, NEW for \in {"set", "clear"}, Preferences!ChangeLockPassword(t, for)
       PROVE  StatusKnown'
  <2> DEFINE u == page[t].user
             new == [tab |-> t, for |-> for, user |-> u, group |-> Anonymous,
                     configured |-> (for = "set")]
  <2>1. /\ page' = page /\ page[t].center /\ u \in Users
        /\ configured' = [configured EXCEPT ![u] = (for = "set")]
        /\ behind' = behind \cup Preferences!Overtaken(t, u)
        /\ calls' = calls \cup {new}
    BY <1>0, <1>12 DEF Preferences!ChangeLockPassword
  <2>2. Preferences!Asking(t)' = Preferences!Asking(t) \cup {new}
    BY <2>1 DEF Preferences!Asking
  <2>3. \A s \in Tabs \ {t} : Preferences!Asking(s)' = Preferences!Asking(s)
    BY <2>1 DEF Preferences!Asking
  <2>4. new.configured = configured'[u]
    BY <1>0, <2>1
  <2>5. t \in behind' \/ Preferences!Asking(t) = {}
    BY <2>1 DEF Preferences!Overtaken
  <2> HIDE DEF new
  <2>6. StatusOf(t)'
    BY <2>1, <2>2, <2>4, <2>5 DEF StatusOf
  <2>7. \A s \in Tabs \ {t} :
          s \in behind' \/ ~page[s].center \/ configured'[page[s].user] = configured[page[s].user]
    <3> SUFFICES ASSUME NEW s \in Tabs \ {t}, page[s].center, page[s].user # u
                 PROVE  configured'[page[s].user] = configured[page[s].user]
      BY <2>1 DEF Preferences!Overtaken
    <3> QED
      BY <1>0, <2>1 DEF StatusOf
  <2> QED
    BY <1>2, <2>1, <2>3, <2>6, <2>7
<1>13. ASSUME NEW c \in calls, Preferences!LockStatusArrives(c) PROVE StatusKnown'
  <2> DEFINE t == c.tab
  <2>1. /\ t \in Tabs /\ c \in Preferences!Asking(t)
        /\ Preferences!Asking(t)' = Preferences!Asking(t) \ {c}
        /\ \A s \in Tabs \ {t} : Preferences!Asking(s)' = Preferences!Asking(s)
    BY <1>13, PrefCallFields DEF Preferences!LockStatusArrives, Preferences!Asking
  <2>2. /\ page'[t].center = page[t].center /\ page'[t].user = page[t].user
        /\ page'[t].configured = c.configured
        /\ \A s \in Tabs \ {t} : page'[s] = page[s]
    BY <1>0, <1>13, <2>1 DEF Parts, Preferences!LockStatusArrives
  <2>3. UNCHANGED <<configured, behind>>
    BY <1>13 DEF Preferences!LockStatusArrives
  <2>4. StatusOf(t)'
    BY <1>0, <2>1, <2>2, <2>3 DEF StatusOf
  <2> QED
    BY <1>2, <2>1, <2>2, <2>3, <2>4
<1>14. ASSUME NEW c \in calls, Preferences!LockStatusFails(c) PROVE StatusKnown'
  <2> DEFINE t == c.tab
  <2>1. /\ t \in Tabs /\ c \in Preferences!Asking(t)
        /\ \A s \in Tabs \ {t} : Preferences!Asking(s)' = Preferences!Asking(s)
    BY <1>14, PrefCallFields DEF Preferences!LockStatusFails, Preferences!Asking
  <2>2. /\ page'[t].center = page[t].center /\ page'[t].user = page[t].user
        /\ \A s \in Tabs \ {t} : page'[s] = page[s]
    BY <1>0, <1>14, <2>1 DEF Parts, Preferences!LockStatusFails
  <2>3. UNCHANGED configured /\ behind' = behind \cup {t}
    BY <1>14 DEF Preferences!LockStatusFails
  <2>4. StatusOf(t)'
    BY <1>0, <2>1, <2>2, <2>3 DEF StatusOf
  <2> QED
    BY <1>2, <2>1, <2>2, <2>3, <2>4
<1> QED
  BY <1>3, <1>4, <1>5, <1>6, <1>7, <1>8, <1>9, <1>10, <1>11, <1>12, <1>13, <1>14 DEF Preferences!Next

(* What is kept is shown by the tab that wrote it last.                    *)
ShownPrefs(t) ==
    page[t].open => \A k \in Keys : writer[k] = t =>
        Preferences!Read(k, kept.prefs[k]) = page[t].prefs[k]
ShownInset(t) ==
    (page[t].open /\ writer["inset"] = t /\ page[t].resting) =>
        Preferences!ReadInset(kept.inset) = page[t].inset
ShownFold(t) ==
    (/\ page[t].open /\ page[t].user \in Users
     /\ page[t].fold.key = page[t].user /\ writer[page[t].user] = t)
        => kept.folded[page[t].user] = page[t].fold.groups

ShownOf(t) == ShownPrefs(t) /\ ShownInset(t) /\ ShownFold(t)

(* A tab goes on showing what it wrote last, when nobody else writes it or *)
(* when the other becomes the writer.                                      *)
LEMMA ShownStays ==
    ASSUME NEW s \in Tabs, ShownOf(s), page'[s] = page[s],
           \A k \in Keys : writer'[k] = s => writer[k] = s /\ kept'.prefs[k] = kept.prefs[k],
           writer'["inset"] = s => writer["inset"] = s /\ kept'.inset = kept.inset,
           \A u \in Users : writer'[u] = s => writer[u] = s /\ kept'.folded[u] = kept.folded[u]
    PROVE  ShownOf(s)'
  BY DEF ShownOf, ShownPrefs, ShownInset, ShownFold

LEMMA ShownStep ==
    ASSUME PrefTypes, Preferences!KeptIsShown, Preferences!Next
    PROVE  Preferences!KeptIsShown'
<1> USE DEF PrefTypes
<1>0. /\ \A t \in Tabs : ShownOf(t)
      /\ page = [t \in Tabs |-> page[t]]
      /\ \A t \in Tabs : DOMAIN page[t] = Parts
      /\ writer = [w \in Preferences!Kept |-> writer[w]]
      /\ DOMAIN kept = {"prefs", "inset", "folded"}
      /\ kept.prefs = [k \in Keys |-> kept.prefs[k]]
      /\ kept.folded = [u \in Users \cup {Anonymous} |-> kept.folded[u]]
  BY PageParts, KeptFields DEF Preferences!KeptIsShown, ShownOf, ShownPrefs, ShownInset, ShownFold, PrefRestOK, KeptOK
<1>a. /\ Keys \subseteq Preferences!Kept /\ "inset" \in Preferences!Kept
      /\ Users \subseteq Preferences!Kept /\ Anonymous \in Preferences!Kept
      /\ "inset" \notin Keys /\ "inset" \notin Users /\ "inset" # Anonymous
      /\ Anonymous \notin Users /\ Anonymous \notin Keys
      /\ \A u \in Users : u \notin Keys
  BY WebPageAssumption DEF Preferences!Kept, Preferences!StorageKeys, Preferences!Order
<1>b. (\A t \in Tabs : ShownOf(t)') => Preferences!KeptIsShown'
  BY DEF Preferences!KeptIsShown, ShownOf, ShownPrefs, ShownInset, ShownFold
<1>c. CASE UNCHANGED <<kept, writer, page>>
  BY <1>c DEF Preferences!KeptIsShown
<1>1. ASSUME UNCHANGED <<kept, writer>>,
             NEW t \in Tabs, \A s \in Tabs \ {t} : page'[s] = page[s],
             page'[t].open = page[t].open, page'[t].prefs = page[t].prefs,
             page'[t].inset = page[t].inset, page'[t].resting = page[t].resting,
             page'[t].user = page[t].user, page'[t].fold = page[t].fold
      PROVE  Preferences!KeptIsShown'
  <2>1. ASSUME NEW s \in Tabs PROVE ShownOf(s)'
    <3>1. ShownOf(s)
      BY <1>0
    <3>2. /\ page'[s].open = page[s].open /\ page'[s].prefs = page[s].prefs
          /\ page'[s].inset = page[s].inset /\ page'[s].resting = page[s].resting
          /\ page'[s].user = page[s].user /\ page'[s].fold = page[s].fold
      BY <1>1
    <3>3. ShownPrefs(s)'
      BY <1>1, <3>1, <3>2 DEF ShownOf, ShownPrefs
    <3>4. ShownInset(s)'
      BY <1>1, <3>1, <3>2 DEF ShownOf, ShownInset
    <3>5. ShownFold(s)'
      BY <1>1, <3>1, <3>2 DEF ShownOf, ShownFold
    <3> QED
      BY <3>3, <3>4, <3>5 DEF ShownOf
  <2> QED
    BY <1>b, <2>1
<1>2. ASSUME NEW t \in Tabs, ShownOf(t)',
             \A s \in Tabs \ {t} : page'[s] = page[s],
             \A k \in Keys : writer'[k] # t => (writer'[k] = writer[k] /\ kept'.prefs[k] = kept.prefs[k]),
             writer'["inset"] # t => (writer'["inset"] = writer["inset"] /\ kept'.inset = kept.inset),
             \A u \in Users : writer'[u] # t => (writer'[u] = writer[u] /\ kept'.folded[u] = kept.folded[u])
      PROVE  Preferences!KeptIsShown'
  <2>1. ASSUME NEW s \in Tabs \ {t} PROVE ShownOf(s)'
    BY <1>0, <1>2, ShownStays
  <2> QED
    BY <1>2, <1>b, <2>1
<1>3. ASSUME NEW t \in Tabs, Preferences!OpenTab(t) PROVE Preferences!KeptIsShown'
  <2> DEFINE prefs == [k \in Keys |-> Preferences!Read(k, kept.prefs[k])]
  <2>1. /\ page'[t].prefs = prefs /\ page'[t].resting = FALSE /\ page'[t].user = Anonymous
        /\ \A s \in Tabs \ {t} : page'[s] = page[s]
    BY <1>0, <1>3 DEF Preferences!OpenTab, Preferences!Closed
  <2>2. kept'.prefs = prefs /\ kept'.inset = kept.inset /\ kept'.folded = kept.folded
    BY <1>0, <1>3 DEF Preferences!OpenTab
  <2>3. writer' = [w \in Preferences!Kept |-> IF w \in Keys \cup {Anonymous} THEN t ELSE writer[w]]
    BY <1>3 DEF Preferences!OpenTab
  <2>4. /\ \A k \in Keys : writer'[k] = t
        /\ writer'["inset"] = writer["inset"]
        /\ \A u \in Users : writer'[u] = writer[u]
    BY <1>a, <2>3
  <2>5. \A k \in Keys : Preferences!Read(k, prefs[k]) = prefs[k]
    BY ReadIsAChoice
  <2> HIDE DEF prefs
  <2>6. ShownOf(t)'
    <3>1. ShownPrefs(t)'
      BY <2>1, <2>2, <2>5 DEF ShownPrefs
    <3>2. ShownInset(t)'
      BY <2>1 DEF ShownInset
    <3>3. ShownFold(t)'
      BY <1>a, <2>1 DEF ShownFold
    <3> QED
      BY <3>1, <3>2, <3>3 DEF ShownOf
  <2> QED
    BY <1>2, <2>1, <2>2, <2>4, <2>6
<1>4. ASSUME NEW t \in Tabs, Preferences!CloseTab(t) PROVE Preferences!KeptIsShown'
  <2>1. page'[t].open = FALSE /\ \A s \in Tabs \ {t} : page'[s] = page[s]
    BY <1>0, <1>4 DEF Preferences!CloseTab, Preferences!Closed
  <2>2. UNCHANGED <<kept, writer>>
    BY <1>4 DEF Preferences!CloseTab
  <2> QED
    BY <1>2, <2>1, <2>2 DEF ShownOf, ShownPrefs, ShownInset, ShownFold
<1>5. ASSUME NEW t \in Tabs, Preferences!SaveInset(t) PROVE Preferences!KeptIsShown'
  <2>1. /\ page'[t].open = page[t].open /\ page'[t].prefs = page[t].prefs /\ page'[t].inset = page[t].inset
        /\ page'[t].user = page[t].user /\ page'[t].fold = page[t].fold
        /\ \A s \in Tabs \ {t} : page'[s] = page[s]
    BY <1>0, <1>5 DEF Parts, Preferences!SaveInset
  <2>2. kept'.prefs = kept.prefs /\ kept'.inset = page[t].inset /\ kept'.folded = kept.folded
    BY <1>0, <1>5 DEF Preferences!SaveInset
  <2>3. /\ writer'["inset"] = t
        /\ \A k \in Keys : writer'[k] = writer[k]
        /\ \A u \in Users : writer'[u] = writer[u]
    BY <1>0, <1>5, <1>a DEF Preferences!SaveInset
  <2>4. Preferences!ReadInset(page[t].inset) = page[t].inset
    BY InsetsWithinLimits, PageFields
  <2>5. ShownOf(t)'
    <3>1. ShownOf(t)
      BY <1>0
    <3>2. page'[t].user \in Users => writer'[page'[t].user] = writer[page[t].user]
      BY <2>1, <2>3 DEF Parts
    <3> QED
      <4>1. ShownPrefs(t)'
        BY <2>1, <2>2, <2>3, <3>1 DEF ShownOf, ShownPrefs
      <4>2. ShownInset(t)'
        BY <2>1, <2>2, <2>4 DEF ShownOf, ShownInset
      <4>3. ShownFold(t)'
        BY <2>1, <2>2, <3>1, <3>2 DEF ShownOf, ShownFold
      <4> QED
        BY <4>1, <4>2, <4>3 DEF ShownOf
  <2> QED
    BY <1>2, <2>1, <2>2, <2>3, <2>5
<1>6. ASSUME NEW t \in Tabs, NEW k \in Keys, Preferences!Choose(t, k) PROVE Preferences!KeptIsShown'
  <2> DEFINE v == Preferences!NextOf(k, page[t].prefs[k])
  <2>1. /\ page' = [page EXCEPT ![t].prefs[k] = v]
        /\ kept' = [kept EXCEPT !.prefs[k] = v]
        /\ writer' = [writer EXCEPT ![k] = t]
    BY <1>6 DEF Preferences!Choose
  <2>2. Preferences!Read(k, v) = v
    BY ReadIsAChoice DEF PagesOK
  <2>3. page[t].prefs = [j \in Keys |-> page[t].prefs[j]]
    BY PageFields
  <2> HIDE DEF v
  <2>4. /\ page'[t].open = page[t].open /\ page'[t].inset = page[t].inset /\ page'[t].resting = page[t].resting
        /\ page'[t].user = page[t].user /\ page'[t].fold = page[t].fold
        /\ page'[t].prefs = [page[t].prefs EXCEPT ![k] = v]
        /\ \A s \in Tabs \ {t} : page'[s] = page[s]
    BY <1>0, <2>1 DEF Parts
  <2>5. /\ kept'.prefs = [kept.prefs EXCEPT ![k] = v]
        /\ kept'.inset = kept.inset /\ kept'.folded = kept.folded
    BY <1>0, <2>1
  <2>6. /\ writer'[k] = t
        /\ \A j \in Keys \ {k} : writer'[j] = writer[j]
        /\ writer'["inset"] = writer["inset"]
        /\ \A u \in Users : writer'[u] = writer[u]
    BY <1>0, <1>a, <2>1
  <2>7. ShownOf(t)'
    <3>1. ShownOf(t)
      BY <1>0
    <3>2. ASSUME page[t].open, NEW j \in Keys, writer'[j] = t
          PROVE  Preferences!Read(j, kept'.prefs[j]) = page'[t].prefs[j]
      <4>1. CASE j = k
        BY <1>0, <2>2, <2>3, <2>4, <2>5, <4>1
      <4>2. CASE j # k
        <5>1. kept'.prefs[j] = kept.prefs[j] /\ page'[t].prefs[j] = page[t].prefs[j]
          BY <1>0, <2>3, <2>4, <2>5, <4>2
        <5>2. writer[j] = t
          BY <2>6, <3>2, <4>2
        <5>3. Preferences!Read(j, kept.prefs[j]) = page[t].prefs[j]
          BY <3>1, <3>2, <5>2 DEF ShownOf, ShownPrefs
        <5> QED
          BY <5>1, <5>3
      <4> QED
        BY <4>1, <4>2
    <3>3. page'[t].user \in Users => writer'[page'[t].user] = writer[page[t].user]
      BY <2>4, <2>6 DEF Parts
    <3> QED
      <4>1. ShownPrefs(t)'
        BY <2>4, <3>2 DEF ShownOf, ShownPrefs
      <4>2. ShownInset(t)'
        BY <2>4, <2>5, <2>6, <3>1 DEF ShownOf, ShownInset
      <4>3. ShownFold(t)'
        BY <2>4, <2>5, <3>1, <3>3 DEF ShownOf, ShownFold
      <4> QED
        BY <4>1, <4>2, <4>3 DEF ShownOf
  <2> QED
    BY <1>0, <1>2, <2>4, <2>5, <2>6, <2>7
<1>7. ASSUME NEW t \in Tabs, NEW n \in Preferences!SliderInsets, Preferences!SetContentInset(t, n)
      PROVE  Preferences!KeptIsShown'
  <2>1. /\ page'[t].open = page[t].open /\ page'[t].prefs = page[t].prefs /\ page'[t].user = page[t].user
        /\ page'[t].fold = page[t].fold
        /\ page'[t].resting = FALSE
        /\ \A s \in Tabs \ {t} : page'[s] = page[s]
    BY <1>0, <1>7 DEF Parts, Preferences!SetContentInset
  <2>2. UNCHANGED <<kept, writer>>
    BY <1>7 DEF Preferences!SetContentInset
  <2>3. ShownOf(t)'
    <3>0. ShownOf(t)
      BY <1>0
    <3>1. ShownPrefs(t)'
      BY <2>1, <2>2, <3>0 DEF ShownOf, ShownPrefs
    <3>2. ShownInset(t)'
      BY <2>1 DEF ShownOf, ShownInset
    <3>3. ShownFold(t)'
      BY <2>1, <2>2, <3>0 DEF ShownOf, ShownFold
    <3> QED
      BY <3>1, <3>2, <3>3 DEF ShownOf
  <2> QED
    BY <1>2, <2>1, <2>2, <2>3
<1>8. ASSUME NEW t \in Tabs, NEW u \in Users, NEW g,
             page'[t].open = page[t].open, page'[t].prefs = page[t].prefs, page'[t].inset = page[t].inset,
             page'[t].resting = page[t].resting,
             page'[t].user = u, page'[t].fold = [key |-> u, groups |-> g],
             \A s \in Tabs \ {t} : page'[s] = page[s],
             kept' = [kept EXCEPT !.folded[u] = g],
             writer' = [writer EXCEPT ![u] = t]
      PROVE  Preferences!KeptIsShown'
  <2>1. /\ kept'.prefs = kept.prefs /\ kept'.inset = kept.inset
        /\ kept'.folded[u] = g
        /\ \A w \in Users \ {u} : kept'.folded[w] = kept.folded[w]
    BY <1>0, <1>8
  <2>2. /\ writer'[u] = t
        /\ \A w \in Users \ {u} : writer'[w] = writer[w]
        /\ \A k \in Keys : writer'[k] = writer[k]
        /\ writer'["inset"] = writer["inset"]
    BY <1>0, <1>8, <1>a
  <2>3. ShownOf(t)'
    <3>0. ShownOf(t)
      BY <1>0
    <3>1. ShownPrefs(t)'
      BY <1>8, <2>1, <2>2, <3>0 DEF ShownOf, ShownPrefs
    <3>2. ShownInset(t)'
      BY <1>8, <2>1, <2>2, <3>0 DEF ShownOf, ShownInset
    <3>3. ShownFold(t)'
      BY <1>8, <2>1 DEF ShownOf, ShownFold
    <3> QED
      BY <3>1, <3>2, <3>3 DEF ShownOf
  <2> QED
    <3>1. \A k \in Keys : writer'[k] # t => (writer'[k] = writer[k] /\ kept'.prefs[k] = kept.prefs[k])
      BY <2>1, <2>2
    <3>2. \A w \in Users : writer'[w] # t => (writer'[w] = writer[w] /\ kept'.folded[w] = kept.folded[w])
      BY <2>1, <2>2
    <3>3. \A s \in Tabs \ {t} : page'[s] = page[s]
      BY <1>8
    <3>4. writer'["inset"] = writer["inset"] /\ kept'.inset = kept.inset
      BY <2>1, <2>2
    <3> QED
      BY <1>2, <2>3, <3>1, <3>2, <3>3, <3>4
<1>9. ASSUME NEW t \in Tabs, NEW g \in Preferences!Groups, Preferences!ToggleGroup(t, g)
      PROVE  Preferences!KeptIsShown'
  <2>1. page[t].user \in Users
    BY <1>9 DEF Preferences!ToggleGroup
  <2>2. PICK h : /\ page' = [page EXCEPT ![t].fold = [key |-> page[t].user, groups |-> h]]
                 /\ kept' = [kept EXCEPT !.folded[page[t].user] = h]
                 /\ writer' = [writer EXCEPT ![page[t].user] = t]
    BY <1>9 DEF Preferences!ToggleGroup
  <2>3. /\ page'[t].open = page[t].open /\ page'[t].prefs = page[t].prefs /\ page'[t].inset = page[t].inset
        /\ page'[t].resting = page[t].resting /\ page'[t].user = page[t].user
        /\ page'[t].fold = [key |-> page[t].user, groups |-> h]
        /\ \A s \in Tabs \ {t} : page'[s] = page[s]
    BY <1>0, <2>2 DEF Parts
  <2> QED
    BY <1>8, <2>1, <2>2, <2>3 DEF Parts
<1>10. ASSUME NEW c \in calls, Preferences!WelcomeArrives(c) PROVE Preferences!KeptIsShown'
  <2> DEFINE t == c.tab
             u == c.user
             g == IF page[t].fold.key = u THEN page[t].fold.groups ELSE kept.folded[u]
  <2>1. t \in Tabs /\ u \in Users
    BY PrefCallFields
  <2>2. CASE page[t].user = u
    BY <1>10, <1>c, <2>2 DEF Preferences!WelcomeArrives
  <2>3. CASE page[t].user # u
    <3>1. /\ page' = [page EXCEPT ![t].user = u, ![t].fold = [key |-> u, groups |-> g]]
          /\ kept' = [kept EXCEPT !.folded[u] = g]
          /\ writer' = [writer EXCEPT ![u] = t]
      BY <1>10, <2>3 DEF Preferences!WelcomeArrives
    <3> HIDE DEF t, u, g
    <3>2. page'[t] = [page[t] EXCEPT !.user = u, !.fold = [key |-> u, groups |-> g]]
          /\ \A s \in Tabs \ {t} : page'[s] = page[s]
      BY <1>0, <2>1, <3>1
    <3>3. /\ page'[t].open = page[t].open /\ page'[t].prefs = page[t].prefs /\ page'[t].inset = page[t].inset
          /\ page'[t].resting = page[t].resting
          /\ page'[t].user = u /\ page'[t].fold = [key |-> u, groups |-> g]
      BY <1>0, <2>1, <3>2 DEF Parts
    <3> QED
      BY <1>8, <2>1, <3>1, <3>2, <3>3
  <2> QED
    BY <2>2, <2>3
<1>11. ASSUME NEW c \in calls, Preferences!LockArrives(c) PROVE Preferences!KeptIsShown'
  <2> DEFINE t == c.tab
             u == c.user
             fold == page[t].fold
             g == (IF fold.key = u THEN fold.groups ELSE kept.folded[u]) \cup {c.group}
  <2>1. t \in Tabs /\ u \in Users
    BY PrefCallFields
  <2>2. /\ page' = [page EXCEPT ![t].fold = [key |-> u, groups |-> g]]
        /\ \/ u = page[t].user /\ kept' = [kept EXCEPT !.folded[u] = g] /\ writer' = [writer EXCEPT ![u] = t]
           \/ u # page[t].user /\ UNCHANGED <<kept, writer>>
    BY <1>11 DEF Preferences!LockArrives, Preferences!SetGroups
  <2> HIDE DEF t, u, fold, g
  <2>3. /\ page'[t].open = page[t].open /\ page'[t].prefs = page[t].prefs /\ page'[t].inset = page[t].inset
        /\ page'[t].resting = page[t].resting /\ page'[t].user = page[t].user
        /\ page'[t].fold = [key |-> u, groups |-> g]
        /\ \A s \in Tabs \ {t} : page'[s] = page[s]
    BY <1>0, <2>1, <2>2 DEF Parts
  <2>4. CASE u = page[t].user
    BY <1>8, <2>1, <2>2, <2>3, <2>4 DEF Parts
  <2>5. CASE u # page[t].user
    <3>1. ShownOf(t)'
      <4>0. ShownOf(t)
        BY <1>0, <2>1
      <4>u. UNCHANGED <<kept, writer>>
        BY <2>2, <2>5
      <4>1. ShownPrefs(t)'
        BY <2>3, <4>0, <4>u DEF ShownOf, ShownPrefs
      <4>2. ShownInset(t)'
        BY <2>3, <4>0, <4>u DEF ShownOf, ShownInset
      <4>3. ShownFold(t)'
        BY <2>3, <2>5 DEF ShownOf, ShownFold
      <4> QED
        BY <4>1, <4>2, <4>3 DEF ShownOf
    <3> QED
      BY <1>2, <2>1, <2>2, <2>3, <2>5, <3>1
  <2> QED
    BY <2>4, <2>5
<1>12. ASSUME NEW t \in Tabs,
              \/ Preferences!LoadLaunchpad(t) \/ Preferences!OpenCenter(t) \/ Preferences!CloseCenter(t)
              \/ \E g \in Preferences!Groups : Preferences!LockGroupPersistently(t, g)
              \/ \E for \in {"set", "clear"} : Preferences!ChangeLockPassword(t, for)
       PROVE  Preferences!KeptIsShown'
  <2>1. UNCHANGED <<kept, writer>>
    BY <1>12 DEF Preferences!LoadLaunchpad, Preferences!OpenCenter, Preferences!CloseCenter,
       Preferences!LockGroupPersistently, Preferences!ChangeLockPassword
  <2>2. \/ page' = page
        \/ page' = [page EXCEPT ![t].center = TRUE, ![t].configured = FALSE]
        \/ page' = [page EXCEPT ![t].center = FALSE]
    BY <1>12 DEF Preferences!LoadLaunchpad, Preferences!OpenCenter, Preferences!CloseCenter,
       Preferences!LockGroupPersistently, Preferences!ChangeLockPassword
  <2>3. /\ page'[t].open = page[t].open /\ page'[t].prefs = page[t].prefs /\ page'[t].inset = page[t].inset
        /\ page'[t].resting = page[t].resting /\ page'[t].user = page[t].user /\ page'[t].fold = page[t].fold
    BY <1>0, <2>2 DEF Parts
  <2>4. \A s \in Tabs \ {t} : page'[s] = page[s]
    BY <1>0, <2>2
  <2> QED
    BY <1>1, <2>1, <2>3, <2>4
<1>13. ASSUME NEW c \in calls, Preferences!LockStatusArrives(c) \/ Preferences!LockStatusFails(c)
       PROVE  Preferences!KeptIsShown'
  <2>1. UNCHANGED <<kept, writer>> /\ c.tab \in Tabs
    BY <1>13, PrefCallFields DEF Preferences!LockStatusArrives, Preferences!LockStatusFails
  <2>2. PICK b : page' = [page EXCEPT ![c.tab].configured = b]
    BY <1>13 DEF Preferences!LockStatusArrives, Preferences!LockStatusFails
  <2>3. /\ page'[c.tab].open = page[c.tab].open /\ page'[c.tab].prefs = page[c.tab].prefs /\ page'[c.tab].inset = page[c.tab].inset
        /\ page'[c.tab].resting = page[c.tab].resting /\ page'[c.tab].user = page[c.tab].user /\ page'[c.tab].fold = page[c.tab].fold
    BY <1>0, <2>1, <2>2 DEF Parts
  <2>4. \A s \in Tabs \ {c.tab} : page'[s] = page[s]
    BY <1>0, <2>1, <2>2
  <2> QED
    BY <1>1, <2>1, <2>3, <2>4
<1>14. ASSUME NEW u \in Users, Preferences!SignIn(u) PROVE Preferences!KeptIsShown'
  BY <1>14, <1>c DEF Preferences!SignIn
<1> QED
  BY <1>3, <1>4, <1>5, <1>6, <1>7, <1>9, <1>10, <1>11, <1>12, <1>13, <1>14 DEF Preferences!Next

LEMMA PrefInit == Preferences!Init => PrefInv
<1> SUFFICES ASSUME Preferences!Init PROVE PrefInv
  OBVIOUS
<1>1. /\ kept \in [prefs: [Keys -> {"other"}], inset: Preferences!StoredInsets,
                   folded: [Preferences!StorageKeys -> {{}}]]
      /\ signed \in Users /\ configured = [u \in Users |-> FALSE]
      /\ writer = [w \in Preferences!Kept |-> "nobody"]
      /\ behind = {} /\ events = 0 /\ calls = {}
      /\ page = [t \in Tabs |-> Preferences!Closed]
  BY DEF Preferences!Init
<1> HIDE DEF Preferences!Init
<1>2. KeptOK
  BY <1>1 DEF KeptOK
<1>3. PagesOK
  BY <1>1, ClosedShows DEF PagesOK, Shows
<1>4. PrefCallsOK /\ PrefRestOK
  BY <1>1, WebPageAssumption DEF PrefCallsOK, PrefRestOK
<1>5. \A t \in Tabs : /\ page[t].open = FALSE /\ page[t].center = FALSE
                      /\ page[t].fold.key = Anonymous
  BY <1>1 DEF Preferences!Closed
<1>6. \A u \in Users : kept.folded[u] = {}
  BY <1>1 DEF Preferences!StorageKeys
<1>7. Folded
  BY <1>1, <1>5, <1>6, WebPageAssumption DEF Folded, Preferences!FoldingStaysWithItsUser
<1>8. StatusKnown
  BY <1>1, <1>5 DEF StatusKnown, StatusOf, Preferences!Asking
<1>9. Preferences!KeptIsShown
  BY <1>5 DEF Preferences!KeptIsShown
<1> QED
  BY <1>2, <1>3, <1>4, <1>7, <1>8, <1>9 DEF PrefInv, PrefTypes

LEMMA PrefStep ==
    ASSUME PrefInv, Preferences!Next
    PROVE  PrefInv'
  BY CallsStep, RestStep, KeptStep, PagesStep, FoldedStep, StatusStep, ShownStep
     DEF PrefInv, PrefTypes

LEMMA StatusIsTrue == StatusKnown => Preferences!LockStatusIsTrue
  BY DEF StatusKnown, StatusOf, Preferences!LockStatusIsTrue

-----------------------------------------------------------------------------
(* The theorems: each part of the page keeps its invariant.                *)

PageInv ==
    /\ part = "traces" => TraceInv
    /\ part = "layers" => LayersInv
    /\ part = "icons" => FormInv
    /\ part = "preferences" => PrefInv

LEMMA PageStarts == PageInit => PageInv
<1>1. /\ PageInit /\ part = "traces" => Traces!Init
      /\ PageInit /\ part = "layers" => Layers!Init
      /\ PageInit /\ part = "icons" => Icons!Init
      /\ PageInit /\ part = "preferences" => Preferences!Init
  BY Zenon DEF PageInit
<1> QED
  BY <1>1, TraceInit, LayersInit, FormInit, PrefInit DEF PageInv

LEMMA PageStutters ==
    ASSUME PageInv, UNCHANGED PageVars
    PROVE  PageInv'
<1>1. UNCHANGED <<part, app, context, drawn, known, carried, early, strayed, calls, layers, saving,
                  term, focus, events, form, icon>>
  BY DEF PageVars, OfTraces, OfLayers, OfIcons, vars
<1>2. UNCHANGED <<kept, signed, configured, writer, behind, page, calls, events>>
  BY DEF PageVars, OfPreferences, vars
<1>3. TraceInv => TraceInv'
  BY <1>1 DEF TraceInv, TraceTypes, SingleTrace, NumbersKnown, Replayed
<1>4. LayersInv => LayersInv'
  BY <1>1 DEF LayersInv, Layers!TypeOK, Layers!SavingFormStays
<1>5. FormInv => FormInv'
  BY <1>1 DEF FormInv
<1>6. PrefInv => PrefInv'
  <2>1. /\ KeptOK' = KeptOK /\ PagesOK' = PagesOK /\ PrefCallsOK' = PrefCallsOK /\ PrefRestOK' = PrefRestOK
    BY <1>2 DEF KeptOK, PagesOK, PrefCallsOK, PrefRestOK
  <2>2. Folded => Folded'
    BY <1>2 DEF Folded, Preferences!FoldingStaysWithItsUser
  <2>3. StatusKnown => StatusKnown'
    BY <1>2 DEF StatusKnown, StatusOf, Preferences!Asking
  <2>4. Preferences!KeptIsShown => Preferences!KeptIsShown'
    BY <1>2 DEF Preferences!KeptIsShown
  <2> QED
    BY <2>1, <2>2, <2>3, <2>4 DEF PrefInv, PrefTypes
<1> QED
  BY <1>1, <1>3, <1>4, <1>5, <1>6 DEF PageInv

LEMMA PageSteps == PageInv /\ [PageNext]_PageVars => PageInv'
<1> SUFFICES ASSUME PageInv, PageNext PROVE PageInv'
  BY PageStutters
<1>1. part' = part
  BY DEF PageNext
<1>2. /\ part = "traces" => Traces!Next
      /\ part = "layers" => Layers!Next
      /\ part = "icons" => Icons!Next
      /\ part = "preferences" => Preferences!Next
  BY Zenon DEF PageNext
<1> QED
  BY <1>1, <1>2, TraceStep, LayersStep, FormStep, PrefStep DEF PageInv

LEMMA PageStaysSound == PageSpec => []PageInv
  BY PageStarts, PageSteps, PTL DEF PageSpec

(* However many tabs are open, and whoever folds, chooses, signs in or     *)
(* changes the lock password in which of them: what localStorage keeps is  *)
(* what the tab that wrote it last shows, no user's folding reaches        *)
(* another user's key, and a control center that is not behind tells the   *)
(* truth about the lock password.  A form that is being saved stays open.  *)
(* The code is I18nProvider, usePersistedCollapsedGroups and ControlCenter *)
(* of the web page, and the listeners of Launchpad.tsx.                    *)
THEOREM WhatIsKeptIsShown == PageSpec => []PageHolds
<1>1. PageInv => PageHolds
  BY PrefTypesAreTypes, StatusIsTrue
     DEF PageInv, PageHolds, PrefInv, Folded, LayersInv
<1> QED
  BY <1>1, PageStaysSound, PTL

(* However many requests an application sends, repeats and refreshes for,  *)
(* whether it is the host, the client or the web page: unless two left     *)
(* before the first answer they carry one trace, and at rest the request a *)
(* log record names was sent, unless one that was sent again got no        *)
(* answer.  The code is telemetry.ts, telemetry.rs and their callers.      *)
THEOREM OneTraceForAll == PageSpec => []TracesHold
<1>1. PageInv => TracesHold
  BY TraceHolds DEF PageInv, TracesHold
<1> QED
  BY <1>1, PageStaysSound, PTL

(* For any number of sites and pictures: what saving the form of a site    *)
(* stores is what the form previewed, and an Escape for a menu or the form *)
(* over the page leaves the term of the search alone.  The code is         *)
(* Launchpad.tsx of the web page: handleIconSelection, handleSaveSite and  *)
(* handleGlobalEscape.                                                     *)
THEOREM ActsDoWhatTheyMean == PageSpec => ActsAreMeant
<1>1. PageInv /\ [PageNext]_PageVars =>
        [/\ part = "icons" => Icons!AsPreviewed
         /\ part = "layers" => Layers!SparesTheSearch]_PageVars
  BY SavedAsPreviewed, EscapeSpares DEF PageInv
<1> QED
  BY <1>1, PageStaysSound, PTL DEF PageSpec, ActsAreMeant
==============================================================================

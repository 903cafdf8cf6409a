--------------------------- MODULE WebPreferences ---------------------------
(***************************************************************************)
(* What the web page remembers in the browser: language, theme,            *)
(* background, sidebar and search engine, the inset of the content, which  *)
(* is saved when the slider has rested, and the groups each user folded;   *)
(* with them the lock password of the control center, which is the         *)
(* server's.  The tabs of a browser share localStorage: each reads it when *)
(* it opens and writes what it shows.                                      *)
(***************************************************************************)
EXTENDS Integers, FiniteSets, Sequences, SequencesExt

CONSTANTS
    Tabs,         \* tabs of one browser
    Users,        \* accounts
    Anonymous,    \* the key of a page that does not know its user yet
    Keys,         \* the preferences at hand, some of those of Order
    MaxEvents     \* bound: acts of the user

VARIABLES
    kept,        \* localStorage: [prefs, inset, folded]
    signed,      \* Users            whose session localStorage holds
    page,        \* [Tabs -> Page]   what a tab shows
    calls,       \* SUBSET Call      requests of the tabs
    configured,  \* [Users -> BOOLEAN]  launchpad_lock_settings of the server
    writer,      \* [what is kept -> Tabs or "nobody"]  history: who wrote it last
    behind,      \* SUBSET Tabs      history: the lock password or the user
                 \*                  changed under what the tab shows
    events       \* Nat

vars == <<kept, signed, page, calls, configured, writer, behind, events>>

-----------------------------------------------------------------------------
(* Preferences: the first of an order is what an unknown value is read as, *)
(* and a button goes on to the next.                                       *)

Order ==
    [locale     |-> <<"zh-CN", "en-US">>,
     theme      |-> <<"dark", "light">>,
     background |-> <<"orbital", "mesh", "aurora">>,
     sidebar    |-> <<"true", "false">>,
     engine     |-> <<"bing", "google">>]

Options(k) == ToSet(Order[k])
Read(k, stored) == IF stored \in Options(k) THEN stored ELSE Order[k][1]
NextOf(k, value) ==
    Order[k][1 + ((CHOOSE i \in DOMAIN Order[k] : Order[k][i] = value) % Len(Order[k]))]

(* The inset: Number() makes 0 of nothing, and here -1 of what is no       *)
(* number.  The slider moves in steps; a stored value may be any.          *)
MinInset == 8
MaxInset == 120
DefaultInset == 24
NaN == -1
StoredInsets == {NaN, 0, 24, 300}
SliderInsets == {8, 120}

AtMost(a, b)  == IF a < b THEN a ELSE b
AtLeast(a, b) == IF a > b THEN a ELSE b
Clamp(n) == AtMost(MaxInset, AtLeast(MinInset, n))

ReadInset(stored) == IF stored = NaN THEN DefaultInset ELSE Clamp(stored)

-----------------------------------------------------------------------------
(* Values                                                                  *)

(* Each user has one group, which goes by the user's name here.            *)
Groups == Users
HasGroup(u) == {u}

StorageKeys == Users \cup {Anonymous}

Closed == [open |-> FALSE, prefs |-> [k \in Keys |-> Order[k][1]], inset |-> DefaultInset,
           resting |-> TRUE, user |-> Anonymous, fold |-> [key |-> Anonymous, groups |-> {}],
           center |-> FALSE, configured |-> FALSE]
Page == [open: BOOLEAN, prefs: [Keys -> UNION {Options(k) : k \in Keys}],
         inset: MinInset..MaxInset, resting: BOOLEAN, user: StorageKeys,
         fold: [key: StorageKeys, groups: SUBSET Groups],
         center: BOOLEAN, configured: BOOLEAN]

(* A request, with the key the handler captured, and what it was answered. *)
Call == [tab: Tabs, for: {"welcome", "lock", "status", "set", "clear"},
         user: Users, group: Groups \cup {Anonymous}, configured: BOOLEAN]

Kept == {"inset"} \cup Keys \cup StorageKeys

Init ==
    /\ kept \in [prefs: [Keys -> {"other"}], inset: StoredInsets,
                 folded: [StorageKeys -> {{}}]]
    /\ signed \in Users
    /\ page = [t \in Tabs |-> Closed]
    /\ calls = {}
    /\ configured = [u \in Users |-> FALSE]
    /\ writer = [w \in Kept |-> "nobody"]
    /\ behind = {}
    /\ events = 0

Event == events < MaxEvents /\ events' = events + 1

-----------------------------------------------------------------------------
(* Opening, reloading, closing                                             *)

(* The provider reads the preferences; its effects write them at once, but *)
(* the inset, which waits.  The page asks who the user is.                 *)
OpenTab(t) ==
    LET prefs == [k \in Keys |-> Read(k, kept.prefs[k])]
        folded == kept.folded[Anonymous]
    IN /\ Event
       /\ page' = [page EXCEPT ![t] = [Closed EXCEPT
                     !.open = TRUE, !.prefs = prefs, !.inset = ReadInset(kept.inset),
                     !.resting = FALSE, !.fold.groups = folded]]
       /\ kept' = [kept EXCEPT !.prefs = prefs]
       /\ writer' = [w \in Kept |-> IF w \in Keys \cup {Anonymous} THEN t ELSE writer[w]]
       /\ calls' = {c \in calls : c.tab # t} \cup
                     {[tab |-> t, for |-> "welcome", user |-> signed, group |-> Anonymous,
                       configured |-> FALSE]}
       /\ behind' = behind \ {t}
       /\ UNCHANGED <<signed, configured>>

CloseTab(t) ==
    /\ page[t].open
    /\ page' = [page EXCEPT ![t] = Closed]
    /\ calls' = {c \in calls : c.tab # t}
    /\ UNCHANGED <<kept, signed, configured, writer, behind, events>>

(* Another account is chosen in some tab: the others learn of it when they *)
(* ask again.                                                              *)
SignIn(u) ==
    /\ Event
    /\ signed' = u
    /\ UNCHANGED <<kept, page, calls, configured, writer, behind>>

-----------------------------------------------------------------------------
(* Choosing                                                                *)

Choose(t, k) ==
    LET value == NextOf(k, page[t].prefs[k])
    IN /\ Event
       /\ page[t].open
       /\ page' = [page EXCEPT ![t].prefs[k] = value]
       /\ kept' = [kept EXCEPT !.prefs[k] = value]
       /\ writer' = [writer EXCEPT ![k] = t]
       /\ UNCHANGED <<signed, calls, configured, behind>>

SetContentInset(t, n) ==
    /\ Event
    /\ page[t].open /\ page[t].center
    /\ page' = [page EXCEPT ![t].inset = Clamp(n), ![t].resting = FALSE]
    /\ UNCHANGED <<kept, signed, calls, configured, writer, behind>>

(* 120 ms after the last move of the slider.                               *)
SaveInset(t) ==
    /\ page[t].open /\ ~page[t].resting
    /\ page' = [page EXCEPT ![t].resting = TRUE]
    /\ kept' = [kept EXCEPT !.inset = page[t].inset]
    /\ writer' = [writer EXCEPT !["inset"] = t]
    /\ UNCHANGED <<signed, calls, configured, behind, events>>

-----------------------------------------------------------------------------
(* Folding                                                                 *)

(* The key changes with the user: the page takes what is kept under it,    *)
(* unless it has a state for the key, and the effect writes it back.       *)
WelcomeArrives(c) ==
    LET t == c.tab  u == c.user
        groups == IF page[t].fold.key = u THEN page[t].fold.groups ELSE kept.folded[u]
    IN /\ c \in calls /\ c.for = "welcome"
       /\ calls' = calls \ {c}
       /\ IF page[t].user = u THEN UNCHANGED <<kept, page, writer, behind>>
          ELSE /\ page' = [page EXCEPT ![t].user = u, ![t].fold = [key |-> u, groups |-> groups]]
               /\ kept' = [kept EXCEPT !.folded[u] = groups]
               /\ writer' = [writer EXCEPT ![u] = t]
               /\ behind' = behind \cup {s \in {t} : page[s].center}
       /\ UNCHANGED <<signed, configured, events>>

(* The list is loaded again: the page asks who the user is by the token of *)
(* now.                                                                    *)
LoadLaunchpad(t) ==
    /\ Event
    /\ page[t].user \in Users
    /\ calls' = calls \cup {[tab |-> t, for |-> "welcome", user |-> signed,
                             group |-> Anonymous, configured |-> FALSE]}
    /\ UNCHANGED <<kept, signed, page, configured, writer, behind>>

(* setGroups of a handler that was made for the key: of another key it     *)
(* starts from what is kept, and nothing of it is saved.                   *)
SetGroups_Anywhere(t, key, g) ==
    LET fold == page[t].fold
        groups == (IF fold.key = key THEN fold.groups ELSE kept.folded[key]) \cup {g}
    IN /\ page' = [page EXCEPT ![t].fold = [key |-> page[t].user, groups |-> groups]]
       /\ kept' = [kept EXCEPT !.folded[page[t].user] = groups]
       /\ writer' = [writer EXCEPT ![page[t].user] = t]

SetGroups(t, key, g) ==
    LET fold == page[t].fold
        base == IF fold.key = key THEN fold.groups ELSE kept.folded[key]
        groups == base \cup {g}
    IN /\ page' = [page EXCEPT ![t].fold = [key |-> key, groups |-> groups]]
       /\ IF key = page[t].user
          THEN /\ kept' = [kept EXCEPT !.folded[key] = groups]
               /\ writer' = [writer EXCEPT ![key] = t]
          ELSE UNCHANGED <<kept, writer>>

(* The arrow of a group, drawn with the groups of the page's user.         *)
ToggleGroup(t, g) ==
    LET fold == page[t].fold  u == page[t].user
        shown == IF fold.key = u THEN fold.groups ELSE {}
        base == IF fold.key = u THEN fold.groups ELSE kept.folded[u]
        groups == IF g \in shown THEN base \ {g} ELSE base \cup {g}
    IN /\ Event
       /\ page[t].open /\ u \in Users /\ g \in HasGroup(u)
       /\ \A c \in calls : c.tab = t => c.for # "welcome"
       /\ page' = [page EXCEPT ![t].fold = [key |-> u, groups |-> groups]]
       /\ kept' = [kept EXCEPT !.folded[u] = groups]
       /\ writer' = [writer EXCEPT ![u] = t]
       /\ UNCHANGED <<signed, calls, configured, behind>>

LockGroupPersistently(t, g) ==
    /\ Event
    /\ page[t].open /\ page[t].user \in Users /\ g \in HasGroup(page[t].user)
    /\ \A c \in calls : c.tab = t => c.for \notin {"welcome", "lock"}
    /\ calls' = calls \cup {[tab |-> t, for |-> "lock", user |-> page[t].user, group |-> g,
                             configured |-> FALSE]}
    /\ UNCHANGED <<kept, signed, page, configured, writer, behind>>

LockArrives(c) ==
    /\ c \in calls /\ c.for = "lock"
    /\ calls' = calls \ {c}
    /\ SetGroups(c.tab, c.user, c.group)
    /\ UNCHANGED <<signed, configured, behind, events>>

-----------------------------------------------------------------------------
(* The lock password in the control center                                 *)

Asking(t) == {c \in calls : c.tab = t /\ c.for \in {"status", "set", "clear"}}

(* Opening the preferences asks for the status.  A center that is closed   *)
(* is another when it opens: it forgets its requests.                      *)
OpenCenter(t) ==
    /\ Event
    /\ page[t].user = signed /\ ~page[t].center
    /\ page' = [page EXCEPT ![t].center = TRUE, ![t].configured = FALSE]
    /\ calls' = calls \cup {[tab |-> t, for |-> "status", user |-> signed, group |-> Anonymous,
                             configured |-> configured[signed]]}
    /\ behind' = behind \ {t}
    /\ UNCHANGED <<kept, signed, configured, writer>>

CloseCenter(t) ==
    /\ page[t].center
    /\ page' = [page EXCEPT ![t].center = FALSE]
    /\ calls' = calls \ Asking(t)
    /\ UNCHANGED <<kept, signed, configured, writer, behind, events>>

(* Whoever shows or waits for a status of the user is behind, but the tab  *)
(* that changes it, unless it waits too.                                   *)
Overtaken(t, u) ==
    {s \in Tabs : /\ page[s].center /\ page[s].user = u
                  /\ s # t \/ Asking(s) # {}}

ChangeLockPassword(t, for) ==
    LET u == page[t].user
    IN /\ Event
       /\ page[t].center /\ u = signed
       /\ for = "clear" => page[t].configured
       /\ configured' = [configured EXCEPT ![u] = (for = "set")]
       /\ behind' = behind \cup Overtaken(t, u)
       /\ calls' = calls \cup {[tab |-> t, for |-> for, user |-> u, group |-> Anonymous,
                                configured |-> (for = "set")]}
       /\ UNCHANGED <<kept, signed, page, writer>>

LockStatusArrives(c) ==
    /\ c \in calls /\ c.for \in {"status", "set", "clear"}
    /\ calls' = calls \ {c}
    /\ page' = [page EXCEPT ![c.tab].configured = c.configured]
    /\ UNCHANGED <<kept, signed, configured, writer, behind, events>>

(* The status could not be had: it is taken as not configured.             *)
LockStatusFails(c) ==
    /\ Event
    /\ c \in calls /\ c.for = "status"
    /\ calls' = calls \ {c}
    /\ page' = [page EXCEPT ![c.tab].configured = FALSE]
    /\ behind' = behind \cup {c.tab}
    /\ UNCHANGED <<kept, signed, configured, writer>>

-----------------------------------------------------------------------------
Next ==
    \/ \E u \in Users : SignIn(u)
    \/ \E t \in Tabs :
          \/ OpenTab(t) \/ CloseTab(t) \/ SaveInset(t) \/ LoadLaunchpad(t)
          \/ OpenCenter(t) \/ CloseCenter(t)
          \/ \E k \in Keys : Choose(t, k)
          \/ \E n \in SliderInsets : SetContentInset(t, n)
          \/ \E g \in Groups : ToggleGroup(t, g) \/ LockGroupPersistently(t, g)
          \/ \E for \in {"set", "clear"} : ChangeLockPassword(t, for)
    \/ \E c \in calls : WelcomeArrives(c) \/ LockArrives(c) \/ LockStatusArrives(c) \/ LockStatusFails(c)

Spec == Init /\ [][Next]_vars

-----------------------------------------------------------------------------
(* Types: whatever was stored, what a page shows is one of the choices.    *)
TypeOK ==
    /\ kept.prefs \in [Keys -> (UNION {Options(k) : k \in Keys}) \cup {"other"}]
    /\ kept.inset \in StoredInsets \cup MinInset..MaxInset
    /\ kept.folded \in [StorageKeys -> SUBSET Groups]
    /\ signed \in Users
    /\ page \in [Tabs -> Page]
    /\ \A t \in Tabs, k \in Keys : page[t].prefs[k] \in Options(k)
    /\ calls \subseteq Call
    /\ configured \in [Users -> BOOLEAN]
    /\ writer \in [Kept -> Tabs \cup {"nobody"}]
    /\ behind \subseteq Tabs
    /\ events \in 0..MaxEvents

(* What is kept is what the tab that wrote it last still shows, so that    *)
(* opening it again shows the same (the inset once the slider has rested). *)
KeptIsShown ==
    \A t \in Tabs : page[t].open =>
        /\ \A k \in Keys : writer[k] = t => Read(k, kept.prefs[k]) = page[t].prefs[k]
        /\ (writer["inset"] = t /\ page[t].resting) => ReadInset(kept.inset) = page[t].inset
        /\ (page[t].user \in Users /\ page[t].fold.key = page[t].user /\ writer[page[t].user] = t)
              => kept.folded[page[t].user] = page[t].fold.groups

(* What a user folded stays with that user: an answer to a lock that comes *)
(* after the page has changed hands folds nothing for the new one.         *)
FoldingStaysWithItsUser ==
    \A u \in Users : kept.folded[u] \subseteq HasGroup(u)

(* Once nothing is under way the control center says truly whether a lock  *)
(* password is set, unless it was changed under an answer or elsewhere.    *)
LockStatusIsTrue ==
    \A t \in Tabs : (page[t].center /\ Asking(t) = {} /\ t \notin behind /\ page[t].user = signed)
        => page[t].configured = configured[page[t].user]
=============================================================================

--------------------------- MODULE DesktopAccounts ---------------------------
(***************************************************************************)
(* The accounts of one device: the rows of its users table, the account    *)
(* that is active, in localStorage and in the page at once, the list the   *)
(* page offers to switch to, and the account settings.  Every handler      *)
(* waits for commands and keeps the active account it saw when it began.   *)
(***************************************************************************)
EXTENDS Naturals, FiniteSets

CONSTANTS
    Accounts,   \* accounts of servers that may be known on the device
    Anonymous,  \* the user of offline data, always signed in
    MaxEvents   \* bound: acts of the user, refreshes, failures, restarts

VARIABLES
    table,    \* [All -> Row]            users
    active,   \* Session                 activeUser
    list,     \* SUBSET Session          availableUsers
    form,     \* [address, of, busy, deleting]         AuthSettings
    asked,    \* SUBSET Session          dialogs that ask whether to delete
    calls,    \* SUBSET Call             handlers that wait; own: about whoever was active
    meant,    \* All              history: who should be active, by the last act
    crossed,  \* BOOLEAN          history: something overlapped that act, or failed
    slipped,  \* BOOLEAN          history: nobody looked at the active account's row
    out,      \* SUBSET Accounts  history: lost their session since the list was read
    removed,  \* SUBSET Accounts  history: deleted and not signed in since
    revived,  \* SUBSET Accounts  history: of those, saved by a refresh under way
    events    \* Nat

Ghosts == <<meant, crossed, slipped, out, removed, revived>>
vars == <<table, active, list, form, asked, calls, Ghosts, events>>

-----------------------------------------------------------------------------
(* Values                                                                  *)

NoAddress == <<Anonymous, 0>>
All       == Accounts \cup {Anonymous}
AddressesOf(u) == IF u = Anonymous THEN {NoAddress} ELSE {<<u, 1>>, <<u, 2>>}
Address   == UNION {AddressesOf(u) : u \in All}
Row       == [here : BOOLEAN, signedIn : BOOLEAN, address : Address]
Session   == [user : All, address : Address]

NobodyActive == [user |-> Anonymous, address |-> NoAddress]
NoRow        == [here |-> FALSE, signedIn |-> FALSE, address |-> NoAddress]

NewCall(op, a) ==
    [op |-> op, at |-> "sent", about |-> a.user, address |-> a.address, own |-> TRUE,
     read |-> {}, mounted |-> TRUE]

Event    == events < MaxEvents /\ events' = events + 1
Overlaps == calls # {}

(* get_all_users.                                                          *)
SignedIn == {[user |-> u, address |-> table[u].address] :
                u \in {v \in All : table[v].here /\ table[v].signedIn}}

UsersOf(l) == {s.user : s \in l}

(* save_user leaves the sign-in of a known row alone; a new one has none.  *)
Saved(u, a) == [table EXCEPT ![u].here = TRUE, ![u].address = a]

(* The settings show another account's address as soon as it is active.    *)
Shows(f, a) ==
    IF f.of = a.user THEN f
    ELSE [f EXCEPT !.of = a.user, !.address = a.address]

(* The layout looks up the row of whoever becomes active.                  *)
Checks(a) ==
    IF a.user = Anonymous THEN {} ELSE {[NewCall("check", a) EXCEPT !.at = "list"]}

(* setActiveSessionUser and its listener.                                  *)
SetActive(a, rest, l, f) ==
    /\ active' = a
    /\ list' = {IF s.user = a.user THEN a ELSE s : s \in l}
    /\ form' = Shows(f, a)
    /\ calls' = rest \cup Checks(a)

SetOff(rest, l, f) == calls' = rest /\ list' = l /\ form' = f /\ UNCHANGED active

EmptyForm(a) == [address |-> NoAddress, of |-> a.user, busy |-> FALSE, deleting |-> FALSE]

StartsWith(a) == {[NewCall("start", NobodyActive) EXCEPT !.at = "list"]} \cup Checks(a)

(* The application has started.  Accounts that have signed out may remain. *)
Init ==
    /\ table \in [All -> Row]
    /\ table[Anonymous] = [here |-> TRUE, signedIn |-> TRUE, address |-> NoAddress]
    /\ \A u \in Accounts :
          table[u] = NoRow \/ (table[u].here /\ table[u].address = <<u, 1>>)
    /\ list = SignedIn /\ active \in list
    /\ form = EmptyForm(active) /\ asked = {} /\ calls = {}
    /\ meant = active.user
    /\ crossed = FALSE /\ slipped = FALSE /\ out = {} /\ removed = {} /\ revived = {}
    /\ events = 0

-----------------------------------------------------------------------------
(* Acts of the user                                                        *)

(* A handler begins, and with it what should come of it.                   *)
Begins(c, who) ==
    /\ calls' = calls \cup {c}
    /\ meant' = who
    /\ crossed' = (Overlaps \/ slipped \/ (crossed /\ c.op = "address"))

HandleSwitch(s) ==
    /\ s \in list /\ s.user # active.user
    /\ Event
    /\ SetActive(s, calls, list, form)
    /\ meant' = IF table[s.user].signedIn THEN s.user ELSE Anonymous
    /\ crossed' = (Overlaps \/ crossed)
    /\ slipped' = FALSE
    /\ UNCHANGED <<table, asked, out, removed, revived>>

Login(u, a) ==
    /\ a \in AddressesOf(u)
    /\ Event
    /\ Begins(NewCall("login", [user |-> u, address |-> a]), u)
    /\ UNCHANGED <<table, active, list, form, asked, slipped, out, removed, revived>>

(* The active account from its card or the settings, another one from the  *)
(* list of accounts.                                                       *)
LogoutUser(u) ==
    /\ u # Anonymous
    /\ u = active.user \/ u \in UsersOf(list)
    /\ Event
    /\ Begins([NewCall("logout", NobodyActive) EXCEPT !.about = u, !.own = u = active.user],
              IF u = active.user THEN Anonymous ELSE active.user)
    /\ UNCHANGED <<table, active, list, form, asked, slipped, out, removed, revived>>

CanEditServerAddress == active.user # Anonymous

TypeAddress(a) ==
    /\ CanEditServerAddress
    /\ a \in (AddressesOf(active.user) \cup {NoAddress}) \ {form.address}
    /\ form' = [form EXCEPT !.address = a]
    /\ UNCHANGED <<table, active, list, asked, calls, Ghosts, events>>

HasServerChanged == form.address # active.address

HandleServerAddressUpdate ==
    /\ CanEditServerAddress /\ HasServerChanged /\ ~form.busy
    /\ \/ /\ form.address = NoAddress
          /\ UNCHANGED <<form, calls, meant, crossed, events>>
       \/ /\ form.address # NoAddress
          /\ Event
          /\ form' = [form EXCEPT !.busy = TRUE]
          /\ Begins([NewCall("address", active) EXCEPT !.address = form.address], active.user)
    /\ UNCHANGED <<table, active, list, asked, slipped, out, removed, revived>>

HandleDeleteAccount ==
    /\ CanEditServerAddress /\ ~form.deleting
    /\ asked' = asked \cup {active}
    /\ UNCHANGED <<table, active, list, form, calls, Ghosts, events>>

(* Confirmed: the account the dialog names, which was active then.         *)
DeleteUser(s) ==
    /\ s \in asked
    /\ Event
    /\ asked' = asked \ {s}
    /\ form' = [form EXCEPT !.deleting = TRUE]
    /\ Begins(NewCall("delete", s), Anonymous)
    /\ UNCHANGED <<table, active, list, slipped, out, removed, revived>>

Cancel(s) ==
    /\ s \in asked
    /\ asked' = asked \ {s}
    /\ UNCHANGED <<table, active, list, form, calls, Ghosts, events>>

(* A request of the active account needs new tokens; one refresh at a time.*)
RefreshActiveSession ==
    /\ active.user # Anonymous
    /\ \A c \in calls : c.op # "refresh"
    /\ Event
    /\ calls' = calls \cup {NewCall("refresh", active)}
    /\ crossed' = (crossed \/ Overlaps)
    /\ UNCHANGED <<table, active, list, form, asked, meant, slipped, out, removed, revived>>

-----------------------------------------------------------------------------
(* Commands                                                                *)

Answered(c, at) == calls' = (calls \ {c}) \cup {[c EXCEPT !.at = at]}
Rest(c) == calls \ {c}

(* The server's answer and save_user.                                      *)
LoginSaves(c) ==
    /\ c.op = "login" /\ c.at = "sent"
    /\ table' = Saved(c.about, c.address)
    /\ removed' = removed \ {c.about} /\ revived' = revived \ {c.about}
    /\ Answered(c, "saved")
    /\ UNCHANGED <<active, list, form, asked, meant, crossed, slipped, out, events>>

(* UPDATE, again.                                                          *)
StatusSet(c) == [table EXCEPT ![c.about].signedIn = c.op = "login" /\ table[c.about].here]

SetUserLoginStatus(c) ==
    /\ \/ c.op = "login" /\ c.at = "saved"
       \/ c.op = "logout" /\ c.at = "sent"
    /\ table' = StatusSet(c)
    /\ removed' = removed \ UsersOf(SignedIn')
    /\ revived' = revived \ UsersOf(SignedIn')
    /\ Answered(c, "list")
    /\ UNCHANGED <<active, list, form, asked, meant, crossed, slipped, out, events>>

DeleteUserWithData(c) ==
    /\ c.op = "delete" /\ c.at = "sent" /\ c.about # Anonymous
    /\ table' = [table EXCEPT ![c.about] = NoRow]
    /\ removed' = removed \cup {c.about} /\ revived' = revived \ {c.about}
    /\ Answered(c, "list")
    /\ UNCHANGED <<active, list, form, asked, meant, crossed, slipped, out, events>>

(* UPDATE: a row that is gone stays gone.                                  *)
AddressSaved(c) ==
    IF table[c.about].here THEN Saved(c.about, c.address) ELSE table

UpdateUserServerAddress(c) ==
    /\ c.op = "address" /\ c.at = "sent"
    /\ table' = AddressSaved(c)
    /\ Answered(c, "saved")
    /\ UNCHANGED <<active, list, form, asked, Ghosts, events>>

(* New tokens, or none: saved with the account as it was before.           *)
RefreshSaves(c, at) ==
    /\ c.op = "refresh" /\ c.at = "sent"
    /\ table' = Saved(c.about, c.address)
    /\ revived' = revived \cup ({c.about} \cap removed)
    /\ Answered(c, at)
    /\ UNCHANGED <<active, list, form, asked, meant, crossed, slipped, out, removed, events>>

ClearInvalidSession(c) ==
    /\ c.op = "refresh" /\ c.at = "refused"
    /\ table' = [table EXCEPT ![c.about].signedIn = FALSE]
    /\ Answered(c, "cleared")
    /\ UNCHANGED <<active, list, form, asked, Ghosts, events>>

ReadUsers(c) ==
    /\ c.at = "list"
    /\ calls' = Rest(c) \cup {[c EXCEPT !.read = SignedIn, !.at = "read"]}
    /\ out' = IF c.op = "check" THEN out ELSE {}
    /\ UNCHANGED <<table, active, list, form, asked, meant, crossed, slipped, removed, revived, events>>

(* getAllUsers answers with nobody when its command fails.                 *)
ReadFails(c) ==
    /\ c.at = "list"
    /\ Event
    /\ Answered(c, "read")
    /\ crossed' = TRUE
    /\ slipped' = (slipped \/ c.op \in {"check", "logout"})
    /\ UNCHANGED <<table, active, list, form, asked, meant, out, removed, revived>>

-----------------------------------------------------------------------------
(* What comes of the answers                                               *)

Lands(c) == UNCHANGED <<table, asked, meant, crossed, removed, revived, events>>

(* refreshAvailableUsers, then the account that has signed in.             *)
Refreshed(c) == c.read

LoginLands(c) ==
    /\ c.op = "login" /\ c.at = "read"
    /\ SetActive([user |-> c.about, address |-> c.address], Rest(c), Refreshed(c), form)
    /\ slipped' = FALSE
    /\ UNCHANGED out
    /\ Lands(c)

(* The account that was active at the click leaves; one that has become    *)
(* active since does not.                                                  *)
LogoutLands(c) ==
    /\ c.op = "logout" /\ c.at = "read"
    /\ IF c.own /\ Anonymous \in UsersOf(c.read)
       THEN SetActive(NobodyActive, Rest(c), c.read, form) /\ slipped' = FALSE
       ELSE /\ SetOff(Rest(c), c.read, form)
            /\ slipped' = (slipped \/ active.user = c.about)
    /\ UNCHANGED out
    /\ Lands(c)

(* The dialog kept the account it named: whoever is active by now, it is   *)
(* the anonymous user's turn.                                              *)
Successor_Active(c) == active
Successor(c) == NobodyActive

DeleteLands(c) ==
    /\ c.op = "delete" /\ c.at = "read"
    /\ SetActive(Successor(c), Rest(c), c.read, IF c.mounted THEN [form EXCEPT !.deleting = FALSE] ELSE form)
    /\ slipped' = FALSE
    /\ UNCHANGED out
    /\ Lands(c)

(* The account as it was at the click, with its new address.               *)
AddressLands(c) ==
    /\ c.op = "address" /\ c.at = "saved"
    /\ LET a == [user |-> c.about, address |-> c.address]
           f == Shows(form, a)
       IN SetActive(a, Rest(c), list, IF c.mounted THEN [f EXCEPT !.busy = FALSE] ELSE f)
    /\ slipped' = FALSE
    /\ UNCHANGED out
    /\ Lands(c)

RefreshLands(c) ==
    /\ c.op = "refresh"
    /\ \/ c.at = "saved" /\ SetActive([user |-> c.about, address |-> c.address], Rest(c), list, form) /\ UNCHANGED <<out, meant>>
       \/ /\ c.at = "cleared" /\ SetActive(NobodyActive, Rest(c), list, form)
          /\ out' = out \cup {c.about}
          /\ meant' = Anonymous
    /\ slipped' = FALSE
    /\ UNCHANGED <<table, asked, crossed, removed, revived, events>>

StartLands(c) ==
    /\ c.op = "start" /\ c.at = "read"
    /\ SetOff(Rest(c), c.read, form)
    /\ UNCHANGED <<out, slipped>>
    /\ Lands(c)

(* Whoever it looked up is not among the users: back to the anonymous one, *)
(* whoever is active by now.                                               *)
ValidateActiveUser(c) ==
    /\ c.op = "check" /\ c.at = "read"
    /\ IF c.about \notin UsersOf(c.read) /\ Anonymous \in UsersOf(c.read)
       THEN SetActive(NobodyActive, Rest(c), list, form) /\ slipped' = FALSE
       ELSE SetOff(Rest(c), list, form) /\ UNCHANGED slipped
    /\ UNCHANGED out
    /\ Lands(c)

-----------------------------------------------------------------------------
(* Faults                                                                  *)

CallFails(c) ==
    /\ c.at \notin {"list", "read", "cleared"}
    /\ ~(c.op \in {"address", "refresh"} /\ c.at = "saved")
    /\ Event
    /\ calls' = Rest(c)
    /\ form' = IF ~c.mounted THEN form
               ELSE IF c.op = "address" THEN [form EXCEPT !.busy = FALSE]
               ELSE IF c.op = "delete" THEN [form EXCEPT !.deleting = FALSE]
               ELSE form
    /\ crossed' = TRUE
    /\ slipped' = (slipped \/ c.op = "refresh")
    /\ UNCHANGED <<table, active, list, asked, meant, out, removed, revived>>

(* The settings are left and entered again: no address, no dialog.         *)
Reenter ==
    /\ Event
    /\ form' = EmptyForm(active)
    /\ asked' = {}
    /\ calls' = {[c EXCEPT !.mounted = c.op \notin {"address", "delete"}] : c \in calls}
    /\ UNCHANGED <<table, active, list, Ghosts>>

(* The application ends between any two steps and is started again.        *)
Restart ==
    /\ Event
    /\ list' = {} /\ form' = EmptyForm(active) /\ asked' = {}
    /\ calls' = StartsWith(active)
    /\ meant' = IF table[active.user].signedIn THEN active.user ELSE Anonymous
    /\ crossed' = FALSE /\ slipped' = FALSE /\ out' = {}
    /\ UNCHANGED <<table, active, removed, revived>>

-----------------------------------------------------------------------------
(* The specification                                                       *)

Next ==
    \/ HandleServerAddressUpdate \/ HandleDeleteAccount \/ RefreshActiveSession
    \/ Reenter \/ Restart
    \/ \E s \in list : HandleSwitch(s)
    \/ \E s \in asked : DeleteUser(s) \/ Cancel(s)
    \/ \E a \in Address : TypeAddress(a)
    \/ \E u \in Accounts : LogoutUser(u) \/ \E a \in AddressesOf(u) : Login(u, a)
    \/ \E c \in calls :
        \/ LoginSaves(c) \/ SetUserLoginStatus(c) \/ DeleteUserWithData(c)
        \/ UpdateUserServerAddress(c) \/ ClearInvalidSession(c)
        \/ RefreshSaves(c, "saved") \/ RefreshSaves(c, "refused")
        \/ ReadUsers(c) \/ ReadFails(c)
        \/ LoginLands(c) \/ LogoutLands(c) \/ DeleteLands(c) \/ AddressLands(c)
        \/ RefreshLands(c) \/ StartLands(c) \/ ValidateActiveUser(c)
        \/ CallFails(c)

Spec == Init /\ [][Next]_vars

-----------------------------------------------------------------------------
(* Properties                                                              *)

(* Every variable has its type; the anonymous user is always signed in.    *)
TypeOK ==
    /\ table \in [All -> Row]
    /\ \A u \in All : ~table[u].here => table[u] = NoRow
    /\ table[Anonymous] = [here |-> TRUE, signedIn |-> TRUE, address |-> NoAddress]
    /\ active \in Session /\ list \subseteq Session
    /\ form \in [address : Address, of : All, busy : BOOLEAN, deleting : BOOLEAN]
    /\ asked \subseteq Session
    /\ meant \in All /\ crossed \in BOOLEAN /\ slipped \in BOOLEAN
    /\ out \subseteq Accounts /\ removed \subseteq Accounts /\ revived \subseteq removed

(* At rest, the active account is one that is signed in on this device,    *)
(* whatever overlapped, failed or was cut short, unless the list could not *)
(* be read or an account became active while another handler signed it out.*)
ActiveIsSignedIn == (calls = {} /\ ~slipped) => table[active.user].signedIn

(* At rest, if nothing overlapped the last act, the accounts to switch to  *)
(* are those signed in, but for those whose session was lost since.        *)
ListIsTheTable ==
    (calls = {} /\ ~crossed) =>
        {s \in list : s.user \notin out} = {s \in SignedIn : s.user \notin out}

(* No account gets an address that was meant for another: not in the       *)
(* table, not in the list, not while it is active.                         *)
AddressesStayWithTheirUser ==
    /\ \A u \in Accounts : table[u].address \in AddressesOf(u) \cup {NoAddress}
    /\ \A s \in list \cup {active} : s.address \in AddressesOf(s.user)
    /\ \A c \in calls : c.address \in AddressesOf(c.about) \cup {NoAddress}

(* At rest, if nothing overlapped the last act, the account it asked for   *)
(* is the active one.                                                      *)
MeantIsActive == (calls = {} /\ ~crossed) => active.user = meant

(* The row of a deleted account does not come back, other than by a        *)
(* refresh of its tokens that was under way; and it is signed out then.    *)
DeletedStayAway ==
    \A u \in removed : ~table[u].signedIn /\ (table[u].here => u \in revived)
=============================================================================

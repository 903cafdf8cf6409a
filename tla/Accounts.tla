------------------------------ MODULE Accounts ------------------------------
(***************************************************************************)
(* The accounts of the server and the pages that manage them: the first    *)
(* administrator (Login.tsx, bootstrap_admin), the administrator's control *)
(* centre (create, disable, enable, delete, clean up, the list of users)   *)
(* and what each user may change of the own account.  A handler of the     *)
(* server is several statements, each committed by itself, so handlers     *)
(* interleave between them and may fail between them.  The access token    *)
(* is not checked against the table: it lives on after its account.        *)
(***************************************************************************)
EXTENDS Naturals, FiniteSets

CONSTANTS
    MaxUuids,   \* bound: accounts that ever exist
    Names,      \* 1, 2, .. : user names, trimmed and in lower case
    Passwords,  \* 1, .. :
    Tabs,       \* pages open in browsers
    Slots,      \* requests that can be under way at once
    Nobody,     \* no tab
    MaxEvents   \* bound: acts of the users, failures

(* Two accounts to begin with, and a name to change to; NoCall names no    *)
(* tab.                                                                    *)
ASSUME AccountsAssumption ==
    /\ MaxUuids \in Nat /\ MaxUuids >= 2 /\ MaxEvents \in Nat
    /\ {1, 2} \subseteq Names /\ 1 \in Passwords
    /\ Nobody \notin Tabs

VARIABLES
    users,   \* [a set of Uuids -> Row]          table users
    gone,    \* SUBSET Uuids                     hard deleted accounts
    data,    \* SUBSET Uuids                     accounts with groups, sites or engines
    audit,   \* SUBSET (Acts \X Uuids)           table audit_logs
    page,    \* [Tabs -> Page]
    call,    \* [Slots -> Call]
    failed,  \* SUBSET Uuids  history: an act on it failed half way, or its answer was lost
    twice,   \* BOOLEAN       history: two initialisations overlapped
    late,    \* SUBSET Uuids  history: written to by a token that outlived the account
    told,    \* [Uuids -> Passwords \cup {0}] history: the password last told as set
    unsure,  \* SUBSET Uuids  history: two changes of its password overlapped, or one failed
    events   \* Nat

tables  == <<users, gone, data, audit>>
history == <<failed, twice, late, told, unsure>>
vars    == <<tables, page, call, history, events>>

-----------------------------------------------------------------------------
(* Values                                                                  *)

Uuids == 1..MaxUuids
None  == 0

Lists == {"initial", "refresh"}  \* fetchAdminUsers by its mode
Acts == {"create", "disable", "enable", "delete", "cleanup"}
Row  == [name : Names, pw : Passwords, admin : BOOLEAN, disabled : BOOLEAN, deleted : BOOLEAN]

NewRow(name, pw, admin) ==
    [name |-> name, pw |-> pw, admin |-> admin, disabled |-> FALSE, deleted |-> FALSE]

(* What list_users returns and the control centre keeps of it.             *)
Listed(tab) ==
    {[u |-> u, name |-> tab[u].name, disabled |-> tab[u].disabled, deleted |-> tab[u].deleted]
        : u \in {v \in DOMAIN tab : ~tab[v].admin}}

NoConfirm == [u |-> None, act |-> "create"]

(* A page as it is mounted; the login page asks at once whether the system *)
(* is initialised, and takes it for initialised until it is told.          *)
Mounted(view, u, check) ==
    [view |-> view, me |-> u, check |-> check, initialized |-> TRUE, list |-> {}, busy |-> {},
     confirm |-> NoConfirm, leaving |-> FALSE, behind |-> TRUE, crossed |-> FALSE]
LoginPage    == Mounted("login", None, "sent")
Launchpad(u) == Mounted("launchpad", u, "none")
Centre(u)    == Mounted("centre", u, "none")

(* A request: the tab that waits for it, the account it acts for, its      *)
(* target, what it carries and what it was answered.                       *)
NoCall ==
    [op |-> "none", at |-> "free", by |-> Nobody, who |-> None, u |-> None,
     name |-> None, pw |-> None, new |-> None, list |-> {}]
Request(op, t) == [NoCall EXCEPT !.op = op, !.at = "sent", !.by = t, !.who = page[t].me]

Free   == {s \in Slots : call[s] = NoCall}
Taken(name) == \E u \in DOMAIN users : users[u].name = name
Unused == Uuids \ (DOMAIN users \cup gone)
Mine(t, ops) == {s \in Slots : call[s].by = t /\ call[s].op \in ops}
IsAdmin(u) == u \in DOMAIN users /\ users[u].admin

Event == events < MaxEvents /\ events' = events + 1
Quiet == UNCHANGED <<history, events>>

(* A list of users is asked for; answers may land in any order.            *)
Asks(t, mode) ==
    [page[t] EXCEPT !.busy = @ \cup {mode}, !.behind = FALSE,
                    !.crossed = @ \/ Mine(t, Lists) # {}]

(* The table changed under every page but the one that asked for it.       *)
BehindBy(t) == [v \in Tabs |-> IF v = t THEN page[v] ELSE [page[v] EXCEPT !.behind = TRUE]]

(* A page that goes away takes its answers no longer; the timer of a       *)
(* rename is not cleared.                                                  *)
Leave(t, p) ==
    /\ page' = [page EXCEPT ![t] = [p EXCEPT !.leaving = page[t].leaving]]
    /\ call' = [s \in Slots |-> IF call[s].by = t THEN [call[s] EXCEPT !.by = Nobody] ELSE call[s]]

(* A fresh server, or one with its administrator and a user who may be     *)
(* deleted; pages that were opened and, in the control centre, loaded.     *)
Init ==
    /\ \E first \in {0, 2}, shut \in BOOLEAN :
          /\ users = [u \in 1..first |-> [NewRow(u, 1, u = 1) EXCEPT
                        !.disabled = (shut /\ u = 2), !.deleted = (shut /\ u = 2)]]
          /\ audit = {"create", IF shut THEN "delete" ELSE "create"} \X (DOMAIN users \ {1})
          /\ data = IF shut THEN {} ELSE DOMAIN users \ {1}
    /\ gone = {}
    /\ page \in [Tabs -> {LoginPage} \cup {Launchpad(u) : u \in DOMAIN users} \cup
          {[Centre(u) EXCEPT !.list = IF u = 1 THEN Listed(users) ELSE {}, !.behind = (u # 1)]
              : u \in DOMAIN users}]
    /\ call = [s \in Slots |-> NoCall]
    /\ failed = {} /\ twice = FALSE /\ late = {} /\ unsure = {}
    /\ told = [u \in Uuids |-> IF u \in DOMAIN users THEN users[u].pw ELSE None]
    /\ events = 0

-----------------------------------------------------------------------------
(* The login page                                                          *)

FetchBootstrapStatus(t) ==
    /\ page[t].check = "sent"
    /\ page' = [page EXCEPT ![t].check = IF DOMAIN users # {} THEN "yes" ELSE "no"]
    /\ UNCHANGED <<tables, call, history, events>>

(* A failed question leaves the page at what it took for granted.          *)
StatusArrives(t) ==
    /\ page[t].check \in {"yes", "no"}
    /\ page' = [page EXCEPT ![t].check = "none", ![t].initialized = (page[t].check = "yes")]
    /\ UNCHANGED <<tables, call, history, events>>

StatusFails(t) ==
    /\ page[t].check # "none" /\ Event
    /\ page' = [page EXCEPT ![t].check = "none"]
    /\ UNCHANGED <<tables, call, history>>

Send(s, r) == call' = [call EXCEPT ![s] = r]

(* The button stays enabled while a request is under way.                  *)
HandleSubmit(t, s, name, pw) ==
    /\ page[t].view = "login" /\ page[t].check = "none" /\ Event
    /\ Send(s, [Request(IF page[t].initialized THEN "login" ELSE "bootstrap", t)
                   EXCEPT !.name = name, !.pw = pw])
    /\ UNCHANGED <<tables, page, history>>

-----------------------------------------------------------------------------
(* The control centre: a request of its forms and buttons                  *)

OpenCentre(t) ==
    /\ page[t].view = "launchpad"
    /\ Leave(t, Centre(page[t].me))
    /\ UNCHANGED <<tables, history, events>>

CloseCentre(t) ==
    /\ page[t].view = "centre"
    /\ Leave(t, Launchpad(page[t].me))
    /\ UNCHANGED <<tables, history, events>>

(* The section of the administrator is entered, or its button pressed.    *)
FetchAdminUsers(t, s, mode) ==
    /\ page[t].view = "centre" /\ IsAdmin(page[t].me) /\ Event
    /\ mode = "refresh" => page[t].busy = {}
    /\ page' = [page EXCEPT ![t] = Asks(t, mode)]
    /\ Send(s, Request(mode, t))
    /\ UNCHANGED <<tables, history>>

HandleAdminCreateUser(t, s, name, pw) ==
    /\ page[t].view = "centre" /\ IsAdmin(page[t].me) /\ Event
    /\ Send(s, [Request("create", t) EXCEPT !.name = name, !.pw = pw])
    /\ UNCHANGED <<tables, page, history>>

(* The buttons of a user, by the state the list shows.                     *)
Offered(row) ==
    IF row.deleted THEN {"cleanup"}
    ELSE {"delete", IF row.disabled THEN "enable" ELSE "disable"}

AskConfirm(t, row, act) ==
    /\ page[t].view = "centre" /\ "initial" \notin page[t].busy /\ page[t].confirm = NoConfirm
    /\ row \in page[t].list /\ act \in Offered(row)
    /\ page' = [page EXCEPT ![t].confirm = [u |-> row.u, act |-> act]]
    /\ UNCHANGED <<tables, call, history, events>>

Cancel(t) ==
    /\ page[t].confirm # NoConfirm
    /\ page' = [page EXCEPT ![t].confirm = NoConfirm]
    /\ UNCHANGED <<tables, call, history, events>>

(* The account the dialog was opened for, whatever became of it since.     *)
PerformAdminAction(t, s) ==
    /\ page[t].confirm # NoConfirm /\ Event
    /\ Send(s, [Request(page[t].confirm.act, t) EXCEPT !.u = page[t].confirm.u])
    /\ page' = [page EXCEPT ![t].confirm = NoConfirm]
    /\ UNCHANGED <<tables, history>>

HandleUsernameSubmit(t, s, name) ==
    /\ page[t].view = "centre" /\ Event
    /\ Send(s, [Request("rename", t) EXCEPT !.name = name])
    /\ UNCHANGED <<tables, page, history>>

(* The second copy of the new password equals the first.                   *)
HandlePasswordSubmit(t, s, old, new) ==
    /\ page[t].view = "centre" /\ Event
    /\ Send(s, [Request("password", t) EXCEPT !.pw = old, !.new = new])
    /\ unsure' = IF \E r \in Slots : call[r].op = "password" /\ call[r].who = page[t].me
                 THEN unsure \cup {page[t].me} ELSE unsure
    /\ UNCHANGED <<tables, page, failed, twice, late, told>>

(* Any request of the launchpad that writes a row of the account.          *)
Write(t, s) ==
    /\ page[t].view = "launchpad" /\ Event
    /\ Send(s, Request("write", t))
    /\ UNCHANGED <<tables, page, history>>

HandleLogout(t) ==
    /\ page[t].me # None
    /\ Leave(t, LoginPage)
    /\ UNCHANGED <<tables, history, events>>

(* The 1.2 seconds after a rename are over: whoever is signed in now.      *)
LogoutDue(t) ==
    /\ page[t].leaving
    /\ page' = [page EXCEPT ![t] = IF page[t].me = None THEN [page[t] EXCEPT !.leaving = FALSE]
                                   ELSE LoginPage]
    /\ call' = [s \in Slots |-> IF call[s].by = t /\ page[t].me # None
                               THEN [call[s] EXCEPT !.by = Nobody] ELSE call[s]]
    /\ UNCHANGED <<tables, history, events>>

-----------------------------------------------------------------------------
(* The server: the statements of each handler                              *)

Go(s, at) == call' = [call EXCEPT ![s].at = at]
At(s, op, at) == call[s].op = op /\ call[s].at = at
Landed(s) == call[s].at \in {"ok", "refused", "failed"}

\* mutant: what the page took the system for is not looked up again.
CountUsers_Trusting(s) ==
    /\ At(s, "bootstrap", "sent") /\ Go(s, "insert")
    /\ twice' = (twice \/ \E r \in Slots : At(r, "bootstrap", "insert"))
    /\ UNCHANGED <<tables, page, failed, late, told, unsure, events>>

(* count_users, then the insert with the role of an administrator.         *)
CountUsers(s) ==
    /\ At(s, "bootstrap", "sent")
    /\ Go(s, IF DOMAIN users = {} THEN "insert" ELSE "refused")
    /\ twice' = (twice \/ \E r \in Slots : At(r, "bootstrap", "insert"))
    /\ UNCHANGED <<tables, page, failed, late, told, unsure, events>>

(* The name was free when it was looked up, for the administrator's form.  *)
CheckName(s) ==
    /\ At(s, "create", "sent") \/ At(s, "rename", "sent")
    /\ Go(s, IF Taken(call[s].name) THEN "refused"
             ELSE IF call[s].op = "create" THEN "insert" ELSE "update")
    /\ UNCHANGED <<tables, page>> /\ Quiet

InsertUser(s) ==
    LET u == CHOOSE v \in Unused : TRUE
        first == call[s].op = "bootstrap"
    IN
    /\ users' = [v \in DOMAIN users \cup {u} |->
                    IF v = u THEN NewRow(call[s].name, call[s].pw, first) ELSE users[v]]
    /\ told' = [told EXCEPT ![u] = call[s].pw]
    /\ page' = BehindBy(call[s].by)
    /\ call' = [call EXCEPT ![s].u = u, ![s].at = IF first THEN "ok" ELSE "audit"]

(* The unique index on the normalised name decides.                        *)
CreateUserWithRole(s) ==
    /\ call[s].at = "insert" /\ Unused # {}
    /\ IF Taken(call[s].name) THEN Go(s, "failed") /\ UNCHANGED <<users, page, told>>
       ELSE InsertUser(s)
    /\ UNCHANGED <<gone, data, audit, failed, twice, late, unsure, events>>

ListUsers(s) ==
    /\ call[s].op \in Lists /\ call[s].at = "sent"
    /\ call' = [call EXCEPT ![s].list = Listed(users), ![s].at = "ok"]
    /\ UNCHANGED <<tables, page>> /\ Quiet

(* Who is an administrator, or gone, is refused; who is deleted already    *)
(* may still be enabled or disabled.                                       *)
EnsureManageable(s) ==
    /\ call[s].op \in {"disable", "enable", "delete"} /\ call[s].at = "sent"
    /\ Go(s, IF call[s].u \in DOMAIN users /\ ~users[call[s].u].admin THEN "set" ELSE "refused")
    /\ UNCHANGED <<tables, page>> /\ Quiet

EnsureDeleted(s) ==
    /\ At(s, "cleanup", "sent")
    /\ Go(s, IF call[s].u \in DOMAIN users /\ ~users[call[s].u].admin /\ users[call[s].u].deleted
             THEN "clean" ELSE "refused")
    /\ UNCHANGED <<tables, page>> /\ Quiet

(* An update of a row that is gone changes nothing and succeeds.           *)
Update(u, row) == users' = IF u \in DOMAIN users THEN [users EXCEPT ![u] = row] ELSE users

SetUserDisabled(s) ==
    LET u == call[s].u IN
    /\ call[s].op \in {"disable", "enable"} /\ call[s].at = "set"
    /\ Update(u, [users[u] EXCEPT !.disabled = (call[s].op = "disable")])
    /\ Go(s, "audit") /\ page' = BehindBy(call[s].by)
    /\ UNCHANGED <<gone, data, audit>> /\ Quiet

SoftDeleteUser(s) ==
    LET u == call[s].u IN
    /\ At(s, "delete", "set")
    /\ Update(u, [users[u] EXCEPT !.deleted = TRUE, !.disabled = TRUE])
    /\ Go(s, "clean") /\ page' = BehindBy(call[s].by)
    /\ UNCHANGED <<gone, data, audit>> /\ Quiet

(* One transaction: the rows of the account and, for a clean-up, itself.   *)
CleanupUserData(s) ==
    LET u == call[s].u
        hard == call[s].op = "cleanup"
    IN
    /\ call[s].at = "clean"
    /\ IF hard /\ u \notin DOMAIN users
       THEN Go(s, "refused") /\ UNCHANGED <<users, gone, data, page>>
       ELSE /\ data' = data \ {u} /\ Go(s, "audit")
            /\ IF hard
               THEN /\ users' = [v \in DOMAIN users \ {u} |-> users[v]]
                    /\ gone' = gone \cup {u} /\ page' = BehindBy(call[s].by)
               ELSE UNCHANGED <<users, gone, page>>
    /\ UNCHANGED audit /\ Quiet

RecordAudit(s) ==
    /\ call[s].at = "audit"
    /\ audit' = audit \cup {<<call[s].op, call[s].u>>} /\ Go(s, "ok")
    /\ UNCHANGED <<users, gone, data, page>> /\ Quiet

VerifyPassword(s) ==
    /\ At(s, "password", "sent")
    /\ Go(s, IF call[s].who \in DOMAIN users /\ users[call[s].who].pw = call[s].pw
             THEN "update" ELSE "refused")
    /\ UNCHANGED <<tables, page>> /\ Quiet

\* mutant: the hash of the old password is stored again.
ChangeUserPassword_Old(s) ==
    LET u == call[s].who IN
    /\ At(s, "password", "update")
    /\ Update(u, [users[u] EXCEPT !.pw = call[s].pw]) /\ Go(s, "ok")
    /\ UNCHANGED <<gone, data, audit, page>> /\ Quiet

ChangeUserPassword(s) ==
    LET u == call[s].who IN
    /\ At(s, "password", "update")
    /\ Update(u, [users[u] EXCEPT !.pw = call[s].new]) /\ Go(s, "ok")
    /\ UNCHANGED <<gone, data, audit, page>> /\ Quiet

ChangeUsername(s) ==
    LET u == call[s].who IN
    /\ At(s, "rename", "update")
    /\ IF u \in DOMAIN users /\ Taken(call[s].name)
       THEN Go(s, "failed") /\ UNCHANGED <<users, page>>
       ELSE /\ Update(u, [users[u] EXCEPT !.name = call[s].name])
            /\ Go(s, "ok") /\ page' = BehindBy(Nobody)
    /\ UNCHANGED <<gone, data, audit>> /\ Quiet

(* The foreign key refuses the rows of an account that is gone.            *)
WriteRow(s) ==
    LET u == call[s].who IN
    /\ At(s, "write", "sent")
    /\ IF u \in DOMAIN users
       THEN /\ data' = data \cup {u} /\ Go(s, "ok")
            /\ late' = IF users[u].deleted THEN late \cup {u} ELSE late
       ELSE Go(s, "failed") /\ UNCHANGED <<data, late>>
    /\ UNCHANGED <<users, gone, audit, page, failed, twice, told, unsure, events>>

(* The account of that name, if it is neither shut nor its password wrong. *)
VerifyUserCredentials(s) ==
    LET right == {u \in DOMAIN users : users[u].name = call[s].name
                      /\ users[u].pw = call[s].pw /\ ~users[u].disabled /\ ~users[u].deleted}
    IN
    /\ At(s, "login", "sent")
    /\ IF right = {} THEN Go(s, "refused")
       ELSE call' = [call EXCEPT ![s].u = CHOOSE u \in right : TRUE, ![s].at = "ok"]
    /\ UNCHANGED <<tables, page>> /\ Quiet

(* A statement fails, or the answer is lost: what is done stays done.      *)
Fail(s) ==
    /\ call[s] # NoCall /\ call[s].at \notin {"refused", "failed"} /\ Event
    /\ Go(s, "failed")
    /\ failed' = IF call[s].u # None THEN failed \cup {call[s].u} ELSE failed
    /\ unsure' = IF call[s].op = "password" THEN unsure \cup {call[s].who} ELSE unsure
    /\ page' = [t \in Tabs |-> IF t = call[s].by THEN [page[t] EXCEPT !.behind = TRUE] ELSE page[t]]
    /\ UNCHANGED <<tables, twice, late, told>>

-----------------------------------------------------------------------------
(* Answers land in the page                                                *)

(* Nobody waits any more.                                                  *)
Forget(s) ==
    /\ Landed(s) /\ call[s].by = Nobody
    /\ Send(s, NoCall)
    /\ unsure' = IF call[s].op = "password" /\ call[s].at = "ok" THEN unsure \cup {call[s].who} ELSE unsure
    /\ UNCHANGED <<tables, page, failed, twice, late, told, events>>

(* An error is shown; only the flag of a list is taken back.               *)
Refused(s) ==
    LET t == call[s].by IN
    /\ call[s].at \in {"refused", "failed"} /\ t # Nobody
    /\ Send(s, NoCall)
    /\ page' = [page EXCEPT ![t].busy = @ \ {call[s].op}]
    /\ UNCHANGED tables /\ Quiet

(* The administrator exists now: the same page asks for a login.           *)
Bootstrapped(s) ==
    /\ At(s, "bootstrap", "ok") /\ call[s].by # Nobody
    /\ Send(s, NoCall) /\ page' = [page EXCEPT ![call[s].by].initialized = TRUE]
    /\ UNCHANGED tables /\ Quiet

LoggedIn(s) ==
    LET t == call[s].by IN
    /\ At(s, "login", "ok") /\ t # Nobody
    /\ page' = [page EXCEPT ![t] = [Launchpad(call[s].u) EXCEPT !.leaving = page[t].leaving]]
    /\ call' = [r \in Slots |-> IF r = s THEN NoCall
                               ELSE IF call[r].by = t THEN [call[r] EXCEPT !.by = Nobody] ELSE call[r]]
    /\ UNCHANGED tables /\ Quiet

(* An act of the administrator went through: the list is asked for anew.   *)
ActDone(s) ==
    /\ call[s].op \in Acts /\ call[s].at = "ok" /\ call[s].by # Nobody
    /\ page' = [page EXCEPT ![call[s].by] = Asks(call[s].by, "initial")]
    /\ Send(s, Request("initial", call[s].by))
    /\ UNCHANGED tables /\ Quiet

ListArrives(s) ==
    LET t == call[s].by IN
    /\ call[s].op \in Lists /\ call[s].at = "ok" /\ t # Nobody
    /\ page' = [page EXCEPT ![t].list = call[s].list, ![t].busy = @ \ {call[s].op}]
    /\ Send(s, NoCall)
    /\ UNCHANGED tables /\ Quiet

Renamed(s) ==
    /\ At(s, "rename", "ok") /\ call[s].by # Nobody
    /\ page' = [page EXCEPT ![call[s].by].leaving = TRUE]
    /\ Send(s, NoCall)
    /\ UNCHANGED tables /\ Quiet

PasswordChanged(s) ==
    /\ At(s, "password", "ok") /\ call[s].by # Nobody
    /\ told' = [told EXCEPT ![call[s].who] = call[s].new]
    /\ Send(s, NoCall)
    /\ UNCHANGED <<tables, page, failed, twice, late, unsure, events>>

(* The launchpad shows the row; that is WebLaunchpad's.                    *)
Written(s) ==
    /\ At(s, "write", "ok") /\ call[s].by # Nobody
    /\ Send(s, NoCall)
    /\ UNCHANGED <<tables, page>> /\ Quiet

-----------------------------------------------------------------------------
UserActs(t) ==
    \/ OpenCentre(t) \/ CloseCentre(t) \/ HandleLogout(t) \/ Cancel(t)
    \/ \E row \in page[t].list, act \in Acts : AskConfirm(t, row, act)
    \/ \E s \in Free :
          \/ \E n \in Names, p \in Passwords :
                HandleSubmit(t, s, n, p) \/ HandleAdminCreateUser(t, s, n, p)
          \/ (\E mode \in Lists : FetchAdminUsers(t, s, mode))
          \/ PerformAdminAction(t, s) \/ Write(t, s)
          \/ \E n \in Names : HandleUsernameSubmit(t, s, n)
          \/ \E p, q \in Passwords : HandlePasswordSubmit(t, s, p, q)

Page(t) == FetchBootstrapStatus(t) \/ StatusArrives(t) \/ StatusFails(t) \/ LogoutDue(t)

Server(s) ==
    \/ CountUsers(s) \/ CheckName(s) \/ CreateUserWithRole(s) \/ ListUsers(s)
    \/ EnsureManageable(s) \/ EnsureDeleted(s) \/ SetUserDisabled(s) \/ SoftDeleteUser(s)
    \/ CleanupUserData(s) \/ RecordAudit(s) \/ VerifyPassword(s) \/ ChangeUserPassword(s)
    \/ ChangeUsername(s) \/ WriteRow(s) \/ VerifyUserCredentials(s)

Answers(s) ==
    \/ Forget(s) \/ Refused(s) \/ Bootstrapped(s) \/ LoggedIn(s) \/ ActDone(s) \/ ListArrives(s)
    \/ Renamed(s) \/ PasswordChanged(s) \/ Written(s)

Next ==
    \/ \E t \in Tabs : UserActs(t) \/ Page(t)
    \/ \E s \in Slots : Server(s) \/ Answers(s) \/ Fail(s)

Spec == Init /\ [][Next]_vars

-----------------------------------------------------------------------------
(* Properties                                                              *)

Rest(t) == page[t].confirm = NoConfirm /\ Mine(t, Acts \cup Lists) = {}
Touched(u) == \E s \in Slots : call[s].u = u

(* The state keeps its shape; an administrator is never disabled, deleted  *)
(* or listed with the users.                                               *)
TypeOK ==
    /\ DOMAIN users \subseteq Uuids \ gone /\ \A u \in DOMAIN users : users[u] \in Row
    /\ \A u \in DOMAIN users : users[u].admin => ~users[u].disabled /\ ~users[u].deleted
    /\ data \subseteq DOMAIN users /\ audit \subseteq Acts \X Uuids
    /\ \A t \in Tabs : \A r \in page[t].list : ~IsAdmin(r.u)

(* Two accounts never share a name, although a name is looked up in one    *)
(* statement and taken in another.                                         *)
NamesAreUnique ==
    \A u, v \in DOMAIN users : users[u].name = users[v].name => u = v

(* There is one administrator, whatever pages still take the system for    *)
(* fresh, unless two initialisations were counting at the same time.       *)
OneAdministrator ==
    ~twice => Cardinality({u \in DOMAIN users : users[u].admin}) <= 1

(* Of a deleted account nothing is left, unless its deletion failed half   *)
(* way or a token that outlived it wrote again.                            *)
DeletedLeaveNothing ==
    \A u \in DOMAIN users :
        users[u].deleted /\ u \notin failed /\ u \notin late /\ ~Touched(u) => u \notin data

(* At rest the administrator sees the table, as far as its own acts go:    *)
(* unless someone else changed it since the page asked, an act failed, or  *)
(* two lists were under way at once.                                       *)
ListIsTheTable ==
    \A t \in Tabs : Rest(t) /\ ~page[t].behind /\ ~page[t].crossed => page[t].list = Listed(users)

(* Whoever exists was created by an audited act, whoever is shut or gone   *)
(* was shut or cleaned up by one, unless an act on the account failed.     *)
EveryActIsAudited ==
    \A u \in Uuids \ failed : ~Touched(u) =>
        /\ u \in DOMAIN users /\ ~users[u].admin => <<"create", u>> \in audit
        /\ u \in DOMAIN users /\ users[u].disabled => audit \cap {<<"disable", u>>, <<"delete", u>>} # {}
        /\ u \in DOMAIN users /\ users[u].deleted => <<"delete", u>> \in audit
        /\ u \in gone => <<"cleanup", u>> \in audit

(* The password a user was told of last opens the account, unless two      *)
(* changes of it overlapped or the answer to one never came.               *)
ToldPasswordHolds ==
    \A u \in DOMAIN users \ unsure :
        (\A s \in Slots : ~(call[s].op = "password" /\ call[s].who = u)) => users[u].pw = told[u]
=============================================================================

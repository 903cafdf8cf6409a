---------------------------- MODULE AccountsProofs ----------------------------
(***************************************************************************)
(* Proofs about Accounts for any number of accounts, pages, requests under *)
(* way and failures.                                                       *)
(***************************************************************************)
EXTENDS MCAccounts, FiniteSetTheorems, TLAPS

-----------------------------------------------------------------------------
(* The inductive invariant: shapes.                                        *)

Known == DOMAIN users \cup gone

ListedRow == [u : Uuids, name : Names, disabled : BOOLEAN, deleted : BOOLEAN]

PageFields ==
    [view : {"login", "launchpad", "centre"}, me : Uuids \cup {None}, check : {"none", "sent", "yes", "no"},
     initialized : BOOLEAN, list : SUBSET ListedRow, busy : SUBSET Lists,
     confirm : [u : Uuids \cup {None}, act : Acts], leaving : BOOLEAN, behind : BOOLEAN,
     crossed : BOOLEAN]

(* A dialog is open in the control centre only.                            *)
PageType == {p \in PageFields :
    p.confirm # NoConfirm => p.view = "centre" /\ p.confirm.act # "create"}

Own == {"rename", "password"}
Ops == Acts \cup Lists \cup Own \cup {"none", "login", "bootstrap", "write"}
Ats == {"free", "sent", "insert", "set", "clean", "audit", "update", "ok", "refused", "failed"}

CallType ==
    [op : Ops, at : Ats,
     by : Tabs \cup {Nobody}, who : Uuids \cup {None}, u : Uuids \cup {None},
     name : Names \cup {None}, pw : Passwords \cup {None}, new : Passwords \cup {None},
     list : SUBSET ListedRow]

TablesOK ==
    /\ users \in [DOMAIN users -> Row] /\ DOMAIN users \subseteq Uuids \ gone
    /\ gone \subseteq Uuids /\ data \subseteq DOMAIN users /\ audit \subseteq Acts \X Uuids

PagesOK == page \in [Tabs -> PageType]
CallsOK == call \in [Slots -> CallType]

HistoryOK ==
    /\ failed \subseteq Uuids /\ unsure \subseteq Uuids \cup {None} /\ twice \in BOOLEAN
    /\ told \in [Uuids -> Passwords \cup {None}]

(* A request carries what its handler needs.                               *)
RequestOK(c) ==
    /\ c.at = "free" => c = NoCall
    /\ c.op = "none" <=> c.at = "free"
    /\ c.op \in {"create", "bootstrap"} => c.name \in Names /\ c.pw \in Passwords
    /\ c.op = "rename" => c.name \in Names
    /\ c.op = "password" => c.new \in Passwords
    /\ c.at = "insert" => c.op \in {"create", "bootstrap"}
    /\ c.at = "clean" => c.op \in {"delete", "cleanup"}
    /\ c.at = "set" => c.op \in {"disable", "enable", "delete"}
    /\ c.at = "update" => c.op \in Own
    /\ c.at = "audit" => c.op \in Acts /\ c.u \in Uuids
    /\ c.op = "login" /\ c.at = "ok" => c.u \in Uuids

RequestsOK == \A s \in Slots : RequestOK(call[s])

ShapeInv == TablesOK /\ PagesOK /\ CallsOK /\ HistoryOK /\ RequestsOK

(* Whoever can be met with exists or is gone, and is no administrator      *)
(* where an administrator may not be.                                      *)
Plain(u) == u \in Known /\ ~IsAdmin(u)
KnownInv ==
    /\ \A u \in DOMAIN users : users[u].admin => ~users[u].disabled /\ ~users[u].deleted
    /\ \A t \in Tabs : page[t].me \in Known \cup {None} /\ \A r \in page[t].list : Plain(r.u)
    /\ \A s \in Slots :
          /\ call[s].who \in Known \cup {None} /\ \A r \in call[s].list : Plain(r.u)
          /\ call[s].op = "login" /\ call[s].at = "ok" => call[s].u \in Known
          /\ call[s].at \in {"set", "clean"} => Plain(call[s].u)

UniqueInv == NamesAreUnique

AdminInv ==
    ~twice =>
       /\ \A u, v \in DOMAIN users : users[u].admin /\ users[v].admin => u = v
       /\ \A s, r \in Slots :
             At(s, "bootstrap", "insert") =>
                /\ \A u \in DOMAIN users : ~users[u].admin
                /\ At(r, "bootstrap", "insert") => r = s

(* Under way with account u: an act whose statements before "at" are done. *)
UnderWay(u, ops, ats) == \E s \in Slots : call[s].u = u /\ call[s].op \in ops /\ call[s].at \in ats

DataInv == \A u \in DOMAIN users :
    users[u].deleted /\ u \notin failed \cup late => u \notin data \/ UnderWay(u, {"delete"}, {"clean"})

AuditInv == \A u \in Uuids \ failed :
    /\ u \in DOMAIN users /\ ~users[u].admin =>
          <<"create", u>> \in audit \/ UnderWay(u, {"create"}, {"audit"})
    /\ u \in DOMAIN users /\ users[u].disabled =>
          \/ audit \cap {<<"disable", u>>, <<"delete", u>>} # {}
          \/ UnderWay(u, {"disable", "delete"}, {"clean", "audit"})
    /\ u \in DOMAIN users /\ users[u].deleted =>
          <<"delete", u>> \in audit \/ UnderWay(u, {"delete"}, {"clean", "audit"})
    /\ u \in gone => <<"cleanup", u>> \in audit \/ UnderWay(u, {"cleanup"}, {"audit"})

(* Where a page that is neither behind nor crossed gets its list from.     *)
ListInv == \A t \in Tabs :
    /\ page[t].view # "centre" => page[t].behind
    /\ \A s \in Slots : call[s].by = t =>
          /\ call[s].op \in {"login", "bootstrap"} => page[t].view = "login"
          /\ call[s].op \in Acts \cup Lists => page[t].view = "centre"
          /\ call[s].op \in Lists => call[s].at \in {"sent", "ok", "failed"}
          /\ call[s].op \in Lists /\ call[s].at = "failed" => page[t].behind \/ page[t].crossed
    /\ ~page[t].crossed => \A s, r \in Mine(t, Lists) : s = r
    /\ ~page[t].behind /\ ~page[t].crossed =>
          \/ \E s \in Mine(t, Acts) :
                call[s].at \in {"audit", "ok"} \/ (call[s].op = "delete" /\ call[s].at = "clean")
          \/ \E s \in Mine(t, Lists) :
                call[s].at = "sent" \/ (call[s].at = "ok" /\ call[s].list = Listed(users))
          \/ Mine(t, Lists) = {} /\ page[t].list = Listed(users)

PasswordInv == \A u \in DOMAIN users \ unsure :
    /\ \A s, r \in Slots : call[s].op = "password" /\ call[r].op = "password"
                           /\ call[s].who = u /\ call[r].who = u => s = r
    /\ \A s \in Slots : call[s].op = "password" /\ call[s].who = u =>
          call[s].at # "failed" /\ (call[s].at = "ok" => users[u].pw = call[s].new)
    /\ (\A s \in Slots : ~(call[s].op = "password" /\ call[s].who = u /\ call[s].at = "ok")) =>
          users[u].pw = told[u]

Inv ==
    /\ ShapeInv /\ KnownInv /\ UniqueInv /\ AdminInv /\ DataInv /\ AuditInv /\ PasswordInv /\ ListInv

-----------------------------------------------------------------------------
(* Requests.                                                               *)

LEMMA NoCallIs ==
    /\ NoCall \in CallType /\ RequestOK(NoCall)
    /\ NoCall.op = "none" /\ NoCall.at = "free" /\ NoCall.by = Nobody /\ NoCall.who = None
    /\ NoCall.u = None /\ NoCall.list = {}
  BY DEF NoCall, CallType, RequestOK, Ops, Ats, Acts, Lists, Own, None

LEMMA GoIs ==
    ASSUME CallsOK, NEW s \in Slots, NEW at \in Ats, Go(s, at)
    PROVE  /\ CallsOK'
           /\ call'[s] \in CallType /\ call'[s].at = at
           /\ call'[s].op = call[s].op /\ call'[s].by = call[s].by /\ call'[s].who = call[s].who
           /\ call'[s].u = call[s].u /\ call'[s].name = call[s].name /\ call'[s].pw = call[s].pw
           /\ call'[s].new = call[s].new /\ call'[s].list = call[s].list
           /\ \A r \in Slots : r # s => call'[r] = call[r]
<1>1. call[s] \in CallType
  BY DEF CallsOK
<1>2. call' = [call EXCEPT ![s] = [call[s] EXCEPT !.at = at]]
  BY DEF Go
<1>3. [call[s] EXCEPT !.at = at] \in CallType
  BY <1>1 DEF CallType
<1>4. call'[s] = [call[s] EXCEPT !.at = at] /\ \A r \in Slots : r # s => call'[r] = call[r]
  BY <1>2 DEF CallsOK
<1>5. CallsOK'
  BY <1>2, <1>3 DEF CallsOK
<1> QED
  BY <1>1, <1>3, <1>4, <1>5 DEF CallType

LEMMA RequestIs ==
    ASSUME PagesOK, NEW t \in Tabs, NEW op \in Ops
    PROVE  /\ Request(op, t) \in CallType
           /\ Request(op, t).op = op /\ Request(op, t).at = "sent" /\ Request(op, t).by = t
           /\ Request(op, t).who = page[t].me /\ Request(op, t).u = None /\ Request(op, t).list = {}
<1>1. page[t].me \in Uuids \cup {None}
  BY DEF PagesOK, PageType, PageFields
<1>2. NoCall \in CallType /\ "sent" \in Ats
  BY NoCallIs DEF Ats
<1>3. Request(op, t) = [NoCall EXCEPT !.op = op, !.at = "sent", !.by = t, !.who = page[t].me]
  BY DEF Request
<1>4. Request(op, t) \in CallType
  BY <1>1, <1>2, <1>3 DEF CallType
<1>5. /\ Request(op, t).op = op /\ Request(op, t).at = "sent" /\ Request(op, t).by = t
      /\ Request(op, t).who = page[t].me /\ Request(op, t).u = NoCall.u
      /\ Request(op, t).list = NoCall.list
  BY <1>2, <1>3 DEF CallType
<1> QED
  BY <1>4, <1>5, NoCallIs

-----------------------------------------------------------------------------
(* Pages.                                                                  *)

LEMMA MountedIs ==
    ASSUME NEW view \in {"login", "launchpad", "centre"}, NEW u \in Uuids \cup {None},
           NEW check \in {"none", "sent"}
    PROVE  /\ Mounted(view, u, check) \in PageType
           /\ Mounted(view, u, check).view = view /\ Mounted(view, u, check).me = u
           /\ Mounted(view, u, check).list = {} /\ Mounted(view, u, check).behind
  BY DEF Mounted, PageType, PageFields, NoConfirm, Acts

(* What the properties look at in a page.                                  *)
Same(q, p) ==
    /\ q.view = p.view /\ q.me = p.me /\ q.list = p.list
    /\ q.behind <=> p.behind
    /\ q.crossed <=> p.crossed

WithCheck(p, check)       == [p EXCEPT !.check = check]
WithAnswer(p, check, yes) == [p EXCEPT !.check = check, !.initialized = yes]
WithStart(p, yes)         == [p EXCEPT !.initialized = yes]
WithConfirm(p, confirm)   == [p EXCEPT !.confirm = confirm]
WithLeaving(p, b)         == [p EXCEPT !.leaving = b]
WithBusy(p, modes)        == [p EXCEPT !.busy = modes]
WithList(p, rows, modes)  == [p EXCEPT !.list = rows, !.busy = modes]
WithBehind(p)             == [p EXCEPT !.behind = TRUE]

LEMMA CheckIs ==
    ASSUME NEW p \in PageType, NEW check \in {"none", "sent", "yes", "no"}
    PROVE  WithCheck(p, check) \in PageType /\ Same(WithCheck(p, check), p)
  BY DEF PageType, PageFields, WithCheck, Same

LEMMA AnswerIs ==
    ASSUME NEW p \in PageType, NEW check \in {"none", "sent", "yes", "no"}, NEW b \in BOOLEAN
    PROVE  WithAnswer(p, check, b) \in PageType /\ Same(WithAnswer(p, check, b), p)
  BY DEF PageType, PageFields, WithAnswer, Same

LEMMA StartIs ==
    ASSUME NEW p \in PageType, NEW b \in BOOLEAN
    PROVE  WithStart(p, b) \in PageType /\ Same(WithStart(p, b), p)
  BY DEF PageType, PageFields, WithStart, Same

LEMMA ConfirmIs ==
    ASSUME NEW p \in PageType, NEW confirm \in [u : Uuids \cup {None}, act : Acts],
           confirm = NoConfirm \/ (p.view = "centre" /\ confirm.act # "create")
    PROVE  WithConfirm(p, confirm) \in PageType /\ Same(WithConfirm(p, confirm), p)
  BY DEF PageType, PageFields, WithConfirm, Same

LEMMA LeavingIs ==
    ASSUME NEW p \in PageType, NEW b \in BOOLEAN
    PROVE  WithLeaving(p, b) \in PageType /\ Same(WithLeaving(p, b), p)
  BY DEF PageType, PageFields, WithLeaving, Same

LEMMA BusyIs ==
    ASSUME NEW p \in PageType, NEW modes \in SUBSET Lists
    PROVE  WithBusy(p, modes) \in PageType /\ Same(WithBusy(p, modes), p)
  BY DEF PageType, PageFields, WithBusy, Same

LEMMA ListFieldsAre ==
    ASSUME NEW p \in PageType, NEW rows \in SUBSET ListedRow, NEW modes \in SUBSET Lists
    PROVE  /\ WithList(p, rows, modes) \in PageType
           /\ WithList(p, rows, modes).view = p.view /\ WithList(p, rows, modes).me = p.me
           /\ WithList(p, rows, modes).list = rows
           /\ WithList(p, rows, modes).behind <=> p.behind
           /\ WithList(p, rows, modes).crossed <=> p.crossed
  BY DEF PageType, PageFields, WithList

LEMMA BehindIs ==
    ASSUME NEW p \in PageType
    PROVE  /\ WithBehind(p) \in PageType
           /\ WithBehind(p).view = p.view /\ WithBehind(p).me = p.me
           /\ WithBehind(p).list = p.list /\ WithBehind(p).behind
           /\ WithBehind(p).crossed <=> p.crossed
  BY DEF PageType, PageFields, WithBehind

Asking(p, b, c) == [p EXCEPT !.busy = b, !.behind = FALSE, !.crossed = c]

LEMMA AskingIs ==
    ASSUME NEW p \in PageType, NEW b \in SUBSET Lists, NEW c \in BOOLEAN
    PROVE  /\ Asking(p, b, c) \in PageType
           /\ Asking(p, b, c).view = p.view /\ Asking(p, b, c).me = p.me
           /\ Asking(p, b, c).list = p.list /\ ~Asking(p, b, c).behind
           /\ Asking(p, b, c).crossed <=> c
  BY DEF PageType, PageFields, Asking

LEMMA AsksIs ==
    ASSUME PagesOK, NEW t \in Tabs, NEW mode \in Lists
    PROVE  /\ Asks(t, mode) \in PageType
           /\ Asks(t, mode).view = page[t].view /\ Asks(t, mode).me = page[t].me
           /\ Asks(t, mode).list = page[t].list /\ ~Asks(t, mode).behind
           /\ Asks(t, mode).crossed <=> page[t].crossed \/ Mine(t, Lists) # {}
<1> DEFINE c == page[t].crossed \/ Mine(t, Lists) # {}
           b == page[t].busy \cup {mode}
<1>1. page[t] \in PageType
  BY DEF PagesOK
<1>2. c \in BOOLEAN /\ b \in SUBSET Lists
  BY <1>1 DEF PageType, PageFields
<1>3. Asks(t, mode) = Asking(page[t], b, c)
  BY DEF Asks, Asking
<1>4. c <=> page[t].crossed \/ Mine(t, Lists) # {}
  OBVIOUS
<1> HIDE DEF c, b
<1>5. /\ Asking(page[t], b, c) \in PageType
      /\ Asking(page[t], b, c).view = page[t].view /\ Asking(page[t], b, c).me = page[t].me
      /\ Asking(page[t], b, c).list = page[t].list /\ ~Asking(page[t], b, c).behind
      /\ Asking(page[t], b, c).crossed <=> c
  BY <1>1, <1>2, AskingIs
<1> QED
  BY <1>3, <1>4, <1>5

-----------------------------------------------------------------------------
(* What a step leaves of pages and requests.                               *)

SamePage(t) == Same(page'[t], page[t])

(* A request whose page may have gone away.                                *)
SameWork(s) ==
    /\ call'[s].op = call[s].op /\ call'[s].at = call[s].at /\ call'[s].who = call[s].who
    /\ call'[s].u = call[s].u /\ call'[s].name = call[s].name /\ call'[s].pw = call[s].pw
    /\ call'[s].new = call[s].new /\ call'[s].list = call[s].list

LEMMA TablesStay ==
    ASSUME TablesOK, UNCHANGED tables
    PROVE  TablesOK'
  BY DEF TablesOK, tables

LEMMA HistoryStays ==
    ASSUME HistoryOK, UNCHANGED history
    PROVE  HistoryOK'
  BY DEF HistoryOK, history

LEMMA CallsStay ==
    ASSUME CallsOK, RequestsOK, call' = call
    PROVE  CallsOK' /\ RequestsOK' /\ \A s \in Slots : SameWork(s) /\ call'[s].by = call[s].by
  BY DEF CallsOK, RequestsOK, SameWork

LEMMA PagesStay ==
    ASSUME PagesOK, page' = page
    PROVE  PagesOK' /\ \A t \in Tabs : SamePage(t)
  BY DEF PagesOK, SamePage, Same

(* Questions and dialogs of a page that tell nobody else.                  *)
QuietPage(t) ==
    \/ FetchBootstrapStatus(t) \/ StatusArrives(t) \/ StatusFails(t) \/ Cancel(t)
    \/ \E row \in page[t].list, act \in Acts : AskConfirm(t, row, act)

(* One page changes to p.                                                  *)
LEMMA PageIs ==
    ASSUME PagesOK, NEW t \in Tabs, NEW p \in PageType, page' = [page EXCEPT ![t] = p]
    PROVE  /\ PagesOK' /\ page'[t] = p /\ \A v \in Tabs : v # t => page'[v] = page[v]
  BY DEF PagesOK

LEMMA OnePage ==
    ASSUME PagesOK, NEW t \in Tabs, NEW p \in PageType, page' = [page EXCEPT ![t] = p],
           Same(p, page[t])
    PROVE  PagesOK' /\ \A v \in Tabs : SamePage(v)
  BY PageIs DEF SamePage, Same

LEMMA QuietPageIs ==
    ASSUME ShapeInv, NEW t \in Tabs, QuietPage(t)
    PROVE  /\ PagesOK' /\ (\A v \in Tabs : SamePage(v))
           /\ call' = call /\ UNCHANGED <<tables, history>>
<1>0. PagesOK /\ page[t] \in PageType
  BY DEF ShapeInv, PagesOK
<1>1. CASE FetchBootstrapStatus(t)
  <2> DEFINE check == IF DOMAIN users # {} THEN "yes" ELSE "no"
  <2>1. page' = [page EXCEPT ![t] = WithCheck(page[t], check)]
    BY <1>1 DEF FetchBootstrapStatus, WithCheck
  <2>2. check \in {"none", "sent", "yes", "no"}
    OBVIOUS
  <2> HIDE DEF check
  <2>3. WithCheck(page[t], check) \in PageType /\ Same(WithCheck(page[t], check), page[t])
    BY <1>0, <2>2, CheckIs
  <2> QED
    BY <1>0, <1>1, <2>1, <2>3, OnePage DEF FetchBootstrapStatus, history
<1>2. CASE StatusArrives(t)
  <2> DEFINE yes == page[t].check = "yes"
  <2>1. page' = [page EXCEPT ![t] = WithAnswer(page[t], "none", yes)]
    BY <1>2 DEF StatusArrives, WithAnswer
  <2>2. yes \in BOOLEAN
    OBVIOUS
  <2> HIDE DEF yes
  <2>3. /\ WithAnswer(page[t], "none", yes) \in PageType
        /\ Same(WithAnswer(page[t], "none", yes), page[t])
    BY <1>0, <2>2, AnswerIs
  <2> QED
    BY <1>0, <1>2, <2>1, <2>3, OnePage DEF StatusArrives, history
<1>3. CASE StatusFails(t)
  <2>1. page' = [page EXCEPT ![t] = WithCheck(page[t], "none")]
    BY <1>3 DEF StatusFails, WithCheck
  <2>2. WithCheck(page[t], "none") \in PageType /\ Same(WithCheck(page[t], "none"), page[t])
    BY <1>0, CheckIs
  <2> QED
    BY <1>0, <1>3, <2>1, <2>2, OnePage DEF StatusFails, history
<1>4. CASE Cancel(t)
  <2>1. page' = [page EXCEPT ![t] = WithConfirm(page[t], NoConfirm)]
    BY <1>4 DEF Cancel, WithConfirm
  <2>2. NoConfirm \in [u : Uuids \cup {None}, act : Acts]
    BY DEF NoConfirm, Acts
  <2>3. /\ WithConfirm(page[t], NoConfirm) \in PageType
        /\ Same(WithConfirm(page[t], NoConfirm), page[t])
    BY <1>0, <2>2, ConfirmIs
  <2> QED
    BY <1>0, <1>4, <2>1, <2>3, OnePage DEF Cancel, history
<1>5. ASSUME NEW row \in page[t].list, NEW act \in Acts, AskConfirm(t, row, act)
      PROVE  /\ PagesOK' /\ (\A v \in Tabs : SamePage(v))
             /\ call' = call /\ UNCHANGED <<tables, history>>
  <2> DEFINE confirm == [u |-> row.u, act |-> act]
  <2>1. page' = [page EXCEPT ![t] = WithConfirm(page[t], confirm)]
    BY <1>5 DEF AskConfirm, WithConfirm
  <2>2. confirm \in [u : Uuids \cup {None}, act : Acts]
    BY <1>0 DEF PageType, PageFields, ListedRow
  <2>0. page[t].view = "centre" /\ confirm.act # "create"
    BY <1>5 DEF AskConfirm, Offered
  <2> HIDE DEF confirm
  <2>3. /\ WithConfirm(page[t], confirm) \in PageType
        /\ Same(WithConfirm(page[t], confirm), page[t])
    BY <1>0, <2>0, <2>2, ConfirmIs
  <2> QED
    BY <1>0, <1>5, <2>1, <2>3, OnePage DEF AskConfirm, history
<1> QED
  BY <1>1, <1>2, <1>3, <1>4, <1>5 DEF QuietPage

(* A page that goes away: its requests are nobody's.                       *)
Leaves(t) == OpenCentre(t) \/ CloseCentre(t) \/ HandleLogout(t) \/ LogoutDue(t)

Left(t, s) == SameWork(s) /\ call'[s].by = IF call[s].by = t THEN Nobody ELSE call[s].by

LEMMA LeftIs ==
    ASSUME CallsOK, RequestsOK, NEW t \in Tabs, NEW s \in Slots,
           call'[s] = IF call[s].by = t THEN [call[s] EXCEPT !.by = Nobody] ELSE call[s]
    PROVE  call'[s] \in CallType /\ RequestOK(call'[s]) /\ Left(t, s)
<1>1. call[s] \in CallType /\ RequestOK(call[s])
  BY DEF CallsOK, RequestsOK
<1>2. call'[s] \in CallType /\ Left(t, s)
  BY <1>1 DEF CallType, Left, SameWork
<1>3. call[s].at = "free" => call[s].by = Nobody
  BY <1>1, NoCallIs DEF RequestOK
<1>4. call[s].at = "free" => call'[s] = NoCall
  BY <1>1, <1>3, AccountsAssumption DEF RequestOK
<1>5. RequestOK(call'[s])
  BY <1>1, <1>2, <1>4 DEF RequestOK, Left, SameWork
<1> QED
  BY <1>2, <1>5

LEMMA LeaveIs ==
    ASSUME PagesOK, CallsOK, RequestsOK, NEW t \in Tabs, NEW p \in PageType, Leave(t, p)
    PROVE  /\ PagesOK' /\ CallsOK' /\ RequestsOK'
           /\ page'[t].view = p.view /\ page'[t].me = p.me /\ page'[t].list = p.list
           /\ page'[t].behind <=> p.behind
           /\ \A v \in Tabs : v # t => page'[v] = page[v]
           /\ \A s \in Slots : Left(t, s)
<1>1. page[t].leaving \in BOOLEAN
  BY DEF PagesOK, PageType, PageFields
<1>2. page' = [page EXCEPT ![t] = WithLeaving(p, page[t].leaving)]
  BY DEF Leave, WithLeaving
<1>3. WithLeaving(p, page[t].leaving) \in PageType /\ Same(WithLeaving(p, page[t].leaving), p)
  BY <1>1, LeavingIs
<1>4. /\ PagesOK' /\ page'[t] = WithLeaving(p, page[t].leaving)
      /\ \A v \in Tabs : v # t => page'[v] = page[v]
  BY <1>2, <1>3, PageIs
<1>5. \A s \in Slots : call'[s] \in CallType /\ RequestOK(call'[s]) /\ Left(t, s)
  <2> TAKE s \in Slots
  <2>1. call'[s] = IF call[s].by = t THEN [call[s] EXCEPT !.by = Nobody] ELSE call[s]
    BY DEF Leave
  <2> QED
    BY <2>1, LeftIs
<1>6. call' \in [Slots -> CallType]
  BY <1>5 DEF Leave
<1> QED
  BY <1>3, <1>4, <1>5, <1>6 DEF Same, CallsOK, RequestsOK

LEMMA LeavesIs ==
    ASSUME ShapeInv, NEW t \in Tabs, Leaves(t)
    PROVE  /\ PagesOK' /\ CallsOK' /\ RequestsOK' /\ UNCHANGED <<tables, history>>
           /\ page'[t].me \in {None, page[t].me} /\ page'[t].list \in {{}, page[t].list}
           /\ \A v \in Tabs : v # t => page'[v] = page[v]
           /\ \/ page'[t].behind /\ \A s \in Slots : Left(t, s)
              \/ SamePage(t) /\ call' = call
<1>0. PagesOK /\ CallsOK /\ RequestsOK /\ page[t].me \in Uuids \cup {None} /\ page[t] \in PageType
  BY DEF ShapeInv, PagesOK, PageType, PageFields
<1>1. ASSUME NEW view \in {"login", "launchpad", "centre"}, NEW u \in {None, page[t].me},
             NEW check \in {"none", "sent"}, Leave(t, Mounted(view, u, check))
      PROVE  /\ PagesOK' /\ CallsOK' /\ RequestsOK'
             /\ page'[t].me \in {None, page[t].me} /\ page'[t].list \in {{}, page[t].list}
             /\ \A v \in Tabs : v # t => page'[v] = page[v]
             /\ page'[t].behind /\ \A s \in Slots : Left(t, s)
  <2>1. u \in Uuids \cup {None}
    BY <1>0
  <2>2. /\ Mounted(view, u, check) \in PageType
        /\ Mounted(view, u, check).me = u /\ Mounted(view, u, check).list = {}
        /\ Mounted(view, u, check).behind
    BY <2>1, MountedIs
  <2> QED
    BY <1>0, <1>1, <2>2, LeaveIs
<1>2. CASE OpenCentre(t)
  BY <1>1, <1>2 DEF OpenCentre, Centre, history
<1>3. CASE CloseCentre(t)
  BY <1>1, <1>3 DEF CloseCentre, Launchpad, history
<1>4. CASE HandleLogout(t)
  BY <1>1, <1>4 DEF HandleLogout, LoginPage, history
<1>5. CASE LogoutDue(t) /\ page[t].me = None
  <2>1. page' = [page EXCEPT ![t] = WithLeaving(page[t], FALSE)]
    BY <1>5 DEF LogoutDue, WithLeaving
  <2>2. WithLeaving(page[t], FALSE) \in PageType /\ Same(WithLeaving(page[t], FALSE), page[t])
    BY <1>0, LeavingIs
  <2>3. PagesOK' /\ \A v \in Tabs : SamePage(v)
    BY <1>0, <2>1, <2>2, OnePage
  <2>4. \A v \in Tabs : v # t => page'[v] = page[v]
    BY <1>0, <2>1 DEF PagesOK
  <2>5. call' = call
    BY <1>0, <1>5 DEF LogoutDue, CallsOK
  <2>6. page'[t].me = page[t].me /\ page'[t].list = page[t].list
    BY <2>3 DEF SamePage, Same
  <2> QED
    BY <1>0, <1>5, <2>3, <2>4, <2>5, <2>6, CallsStay DEF LogoutDue, history
<1>6. CASE LogoutDue(t) /\ page[t].me # None
  <2>1. page' = [page EXCEPT ![t] = LoginPage]
    BY <1>6 DEF LogoutDue
  <2>2. LoginPage \in PageType /\ LoginPage.me = None /\ LoginPage.list = {} /\ LoginPage.behind
    BY MountedIs DEF LoginPage
  <2>3. PagesOK' /\ page'[t] = LoginPage /\ \A v \in Tabs : v # t => page'[v] = page[v]
    BY <1>0, <2>1, <2>2, PageIs
  <2>4. \A s \in Slots : call'[s] \in CallType /\ RequestOK(call'[s]) /\ Left(t, s)
    <3> TAKE s \in Slots
    <3>1. call'[s] = IF call[s].by = t THEN [call[s] EXCEPT !.by = Nobody] ELSE call[s]
      BY <1>6 DEF LogoutDue
    <3> QED
      BY <1>0, <3>1, LeftIs
  <2>5. call' \in [Slots -> CallType]
    BY <1>6, <2>4 DEF LogoutDue
  <2> QED
    BY <1>6, <2>2, <2>3, <2>4, <2>5 DEF LogoutDue, CallsOK, RequestsOK, history
<1> QED
  BY <1>2, <1>3, <1>4, <1>5, <1>6 DEF Leaves

(* A request sent from page t, that carries what its handler needs.        *)
Fresh(t, c) ==
    /\ c \in CallType /\ RequestOK(c) /\ c.op # "none" /\ c.at = "sent" /\ c.by = t
    /\ c.who = page[t].me /\ c.list = {}

Sends(t, s) ==
    /\ Fresh(t, call'[s])
    /\ call[s] = NoCall \/ call[s].at = "ok"
    /\ \A r \in Slots : r # s => call'[r] = call[r]

WithName(c, name) == [c EXCEPT !.name = name]
WithAccount(c, name, pw) == [c EXCEPT !.name = name, !.pw = pw]
WithWords(c, pw, new) == [c EXCEPT !.pw = pw, !.new = new]
WithTarget(c, u) == [c EXCEPT !.u = u]

LEMMA WithNameIs ==
    ASSUME NEW c \in CallType, NEW name \in Names \cup {None}
    PROVE  /\ WithName(c, name) \in CallType
           /\ WithName(c, name).name = name
           /\ WithName(c, name).op = c.op /\ WithName(c, name).at = c.at /\ WithName(c, name).by = c.by
           /\ WithName(c, name).who = c.who /\ WithName(c, name).u = c.u /\ WithName(c, name).pw = c.pw /\ WithName(c, name).new = c.new /\ WithName(c, name).list = c.list
  BY DEF CallType, WithName

LEMMA WithAccountIs ==
    ASSUME NEW c \in CallType, NEW name \in Names \cup {None}, NEW pw \in Passwords \cup {None}
    PROVE  /\ WithAccount(c, name, pw) \in CallType
           /\ WithAccount(c, name, pw).name = name /\ WithAccount(c, name, pw).pw = pw
           /\ WithAccount(c, name, pw).op = c.op /\ WithAccount(c, name, pw).at = c.at /\ WithAccount(c, name, pw).by = c.by
           /\ WithAccount(c, name, pw).who = c.who /\ WithAccount(c, name, pw).u = c.u /\ WithAccount(c, name, pw).new = c.new /\ WithAccount(c, name, pw).list = c.list
  BY DEF CallType, WithAccount

LEMMA WithWordsIs ==
    ASSUME NEW c \in CallType, NEW pw \in Passwords \cup {None}, NEW new \in Passwords \cup {None}
    PROVE  /\ WithWords(c, pw, new) \in CallType
           /\ WithWords(c, pw, new).pw = pw /\ WithWords(c, pw, new).new = new
           /\ WithWords(c, pw, new).op = c.op /\ WithWords(c, pw, new).at = c.at /\ WithWords(c, pw, new).by = c.by
           /\ WithWords(c, pw, new).who = c.who /\ WithWords(c, pw, new).u = c.u /\ WithWords(c, pw, new).name = c.name /\ WithWords(c, pw, new).list = c.list
  BY DEF CallType, WithWords

LEMMA WithTargetIs ==
    ASSUME NEW c \in CallType, NEW u \in Uuids \cup {None}
    PROVE  /\ WithTarget(c, u) \in CallType
           /\ WithTarget(c, u).u = u
           /\ WithTarget(c, u).op = c.op /\ WithTarget(c, u).at = c.at /\ WithTarget(c, u).by = c.by
           /\ WithTarget(c, u).who = c.who /\ WithTarget(c, u).name = c.name /\ WithTarget(c, u).pw = c.pw /\ WithTarget(c, u).new = c.new /\ WithTarget(c, u).list = c.list
  BY DEF CallType, WithTarget

LEMMA SendsIs ==
    ASSUME PagesOK, CallsOK, RequestsOK, NEW t \in Tabs, NEW s \in Slots, NEW c,
           Fresh(t, c), Send(s, c), call[s] = NoCall \/ call[s].at = "ok"
    PROVE  CallsOK' /\ RequestsOK' /\ Sends(t, s) /\ call'[s] = c
<1>1. call' = [call EXCEPT ![s] = c]
  BY DEF Send
<1>2. call'[s] = c /\ CallsOK' /\ \A r \in Slots : r # s => call'[r] = call[r]
  BY <1>1 DEF CallsOK, Fresh
<1>3. RequestsOK'
  BY <1>2 DEF RequestsOK, Fresh
<1> QED
  BY <1>2, <1>3 DEF Sends

(* A page that sent a request for a list.                                  *)
Asked(t) ==
    /\ page'[t].view = page[t].view /\ page'[t].me = page[t].me /\ page'[t].list = page[t].list
    /\ ~page'[t].behind
    /\ page'[t].crossed <=> page[t].crossed \/ Mine(t, Lists) # {}

Requests(t, s) ==
    \/ \E n \in Names, p \in Passwords : HandleSubmit(t, s, n, p) \/ HandleAdminCreateUser(t, s, n, p)
    \/ \E mode \in Lists : FetchAdminUsers(t, s, mode)
    \/ PerformAdminAction(t, s) \/ Write(t, s)
    \/ \E n \in Names : HandleUsernameSubmit(t, s, n)
    \/ \E p, q \in Passwords : HandlePasswordSubmit(t, s, p, q)

LEMMA FreshIs ==
    ASSUME PagesOK, NEW t \in Tabs, NEW op \in Ops \ {"none", "create", "bootstrap", "rename", "password"}
    PROVE  Fresh(t, Request(op, t)) /\ Request(op, t).op = op /\ Request(op, t).u = None
<1>1. /\ Request(op, t) \in CallType
      /\ Request(op, t).op = op /\ Request(op, t).at = "sent" /\ Request(op, t).by = t
      /\ Request(op, t).who = page[t].me /\ Request(op, t).u = None /\ Request(op, t).list = {}
  BY RequestIs
<1> QED
  BY <1>1 DEF Fresh, RequestOK

LEMMA FreshTargetIs ==
    ASSUME PagesOK, NEW t \in Tabs, NEW op \in Acts, op # "create", NEW u \in Uuids \cup {None}
    PROVE  /\ Fresh(t, WithTarget(Request(op, t), u))
           /\ WithTarget(Request(op, t), u).op = op
           /\ WithTarget(Request(op, t), u).u = u
<1>1. /\ Request(op, t) \in CallType
      /\ Request(op, t).op = op /\ Request(op, t).at = "sent" /\ Request(op, t).by = t
      /\ Request(op, t).who = page[t].me /\ Request(op, t).list = {}
  BY RequestIs DEF Ops
<1> DEFINE c == WithTarget(Request(op, t), u)
<1>2. /\ c \in CallType /\ c.op = op /\ c.at = "sent" /\ c.by = t /\ c.who = page[t].me
      /\ c.list = {} /\ c.u = u
  BY <1>1, WithTargetIs
<1> HIDE DEF c
<1>3. Fresh(t, c)
  BY <1>2 DEF Fresh, RequestOK, Acts
<1> QED
  BY <1>2, <1>3 DEF c

LEMMA FreshAccountIs ==
    ASSUME PagesOK, NEW t \in Tabs, NEW op \in {"login", "bootstrap", "create"},
           NEW name \in Names, NEW pw \in Passwords
    PROVE  /\ Fresh(t, WithAccount(Request(op, t), name, pw))
           /\ WithAccount(Request(op, t), name, pw).op = op
           /\ WithAccount(Request(op, t), name, pw).u = None
<1>1. /\ Request(op, t) \in CallType
      /\ Request(op, t).op = op /\ Request(op, t).at = "sent" /\ Request(op, t).by = t
      /\ Request(op, t).who = page[t].me /\ Request(op, t).list = {} /\ Request(op, t).u = None
  BY RequestIs DEF Ops, Acts
<1> DEFINE c == WithAccount(Request(op, t), name, pw)
<1>2. /\ c \in CallType /\ c.op = op /\ c.at = "sent" /\ c.by = t /\ c.who = page[t].me
      /\ c.list = {} /\ c.u = None /\ c.name = name /\ c.pw = pw
  BY <1>1, WithAccountIs
<1> HIDE DEF c
<1>3. Fresh(t, c)
  BY <1>2 DEF Fresh, RequestOK, Acts
<1> QED
  BY <1>2, <1>3 DEF c

LEMMA FreshNameIs ==
    ASSUME PagesOK, NEW t \in Tabs, NEW name \in Names
    PROVE  /\ Fresh(t, WithName(Request("rename", t), name))
           /\ WithName(Request("rename", t), name).op = "rename"
           /\ WithName(Request("rename", t), name).u = None
<1> DEFINE c == WithName(Request("rename", t), name)
<1>1. /\ Request("rename", t) \in CallType
      /\ Request("rename", t).op = "rename" /\ Request("rename", t).at = "sent"
      /\ Request("rename", t).by = t /\ Request("rename", t).who = page[t].me
      /\ Request("rename", t).list = {} /\ Request("rename", t).u = None
  BY RequestIs DEF Ops, Own
<1>2. /\ c \in CallType /\ c.op = "rename" /\ c.at = "sent" /\ c.by = t /\ c.who = page[t].me
      /\ c.list = {} /\ c.u = None /\ c.name = name
  BY <1>1, WithNameIs
<1> HIDE DEF c
<1>3. Fresh(t, c)
  BY <1>2 DEF Fresh, RequestOK, Acts
<1> QED
  BY <1>2, <1>3 DEF c

LEMMA FreshWordsIs ==
    ASSUME PagesOK, NEW t \in Tabs, NEW pw \in Passwords, NEW new \in Passwords
    PROVE  /\ Fresh(t, WithWords(Request("password", t), pw, new))
           /\ WithWords(Request("password", t), pw, new).op = "password"
           /\ WithWords(Request("password", t), pw, new).u = None
<1> DEFINE c == WithWords(Request("password", t), pw, new)
<1>1. /\ Request("password", t) \in CallType
      /\ Request("password", t).op = "password" /\ Request("password", t).at = "sent"
      /\ Request("password", t).by = t /\ Request("password", t).who = page[t].me
      /\ Request("password", t).list = {} /\ Request("password", t).u = None
  BY RequestIs DEF Ops, Own
<1>2. /\ c \in CallType /\ c.op = "password" /\ c.at = "sent" /\ c.by = t /\ c.who = page[t].me
      /\ c.list = {} /\ c.u = None /\ c.pw = pw /\ c.new = new
  BY <1>1, WithWordsIs
<1> HIDE DEF c
<1>3. Fresh(t, c)
  BY <1>2 DEF Fresh, RequestOK, Acts
<1> QED
  BY <1>2, <1>3 DEF c

RequestedBy(t, s) ==
    /\ PagesOK' /\ CallsOK' /\ RequestsOK' /\ HistoryOK'
    /\ UNCHANGED <<tables, failed, twice, late, told>> /\ unsure \subseteq unsure'
    /\ Sends(t, s) /\ \A v \in Tabs : v # t => SamePage(v)
    /\ call'[s].op \in Lists => Asked(t)
    /\ call'[s].op \notin Lists => SamePage(t)
    /\ call'[s].op \in Acts \cup Lists => page[t].view = "centre"
    /\ call'[s].op \in {"login", "bootstrap"} => page[t].view = "login"
    /\ call'[s].op = "password" =>
          unsure' = IF \E r \in Slots : call[r].op = "password" /\ call[r].who = page[t].me
                    THEN unsure \cup {page[t].me} ELSE unsure

LEMMA RequestsIs ==
    ASSUME ShapeInv, NEW t \in Tabs, NEW s \in Free, Requests(t, s)
    PROVE  RequestedBy(t, s)
<1>0. /\ PagesOK /\ CallsOK /\ RequestsOK /\ HistoryOK /\ page[t] \in PageType
      /\ s \in Slots /\ call[s] = NoCall
  BY DEF ShapeInv, PagesOK, Free
<1>1. ASSUME NEW c, Fresh(t, c), Send(s, c), c.op \notin Lists, page' = page,
             c.op \in Acts => page[t].view = "centre",
             c.op \in {"login", "bootstrap"} => page[t].view = "login",
             c.op # "password", UNCHANGED <<tables, history>>
      PROVE  RequestedBy(t, s)
  <2>1. CallsOK' /\ RequestsOK' /\ Sends(t, s) /\ call'[s] = c
    BY <1>0, <1>1, SendsIs
  <2>2. PagesOK' /\ \A v \in Tabs : SamePage(v)
    BY <1>0, <1>1, PagesStay
  <2>3. HistoryOK'
    BY <1>0, <1>1, HistoryStays
  <2> QED
    BY <1>1, <2>1, <2>2, <2>3 DEF RequestedBy, history
<1>2. ASSUME NEW n \in Names, NEW p \in Passwords, HandleSubmit(t, s, n, p)
      PROVE  RequestedBy(t, s)
  <2> DEFINE op == IF page[t].initialized THEN "login" ELSE "bootstrap"
  <2>1. op \in {"login", "bootstrap"}
    OBVIOUS
  <2>2. Send(s, WithAccount(Request(op, t), n, p)) /\ page[t].view = "login"
    BY <1>2 DEF HandleSubmit, WithAccount
  <2> HIDE DEF op
  <2>3. /\ Fresh(t, WithAccount(Request(op, t), n, p))
        /\ WithAccount(Request(op, t), n, p).op = op
    BY <1>0, <2>1, FreshAccountIs
  <2> QED
    BY <1>1, <1>2, <2>1, <2>2, <2>3 DEF HandleSubmit, Lists, Acts
<1>3. ASSUME NEW n \in Names, NEW p \in Passwords, HandleAdminCreateUser(t, s, n, p)
      PROVE  RequestedBy(t, s)
  <2>1. Send(s, WithAccount(Request("create", t), n, p)) /\ page[t].view = "centre"
    BY <1>3 DEF HandleAdminCreateUser, WithAccount
  <2>2. /\ Fresh(t, WithAccount(Request("create", t), n, p))
        /\ WithAccount(Request("create", t), n, p).op = "create"
    BY <1>0, FreshAccountIs
  <2> QED
    BY <1>1, <1>3, <2>1, <2>2 DEF HandleAdminCreateUser, Lists, Acts
<1>4. CASE Write(t, s)
  <2>1. Fresh(t, Request("write", t)) /\ Request("write", t).op = "write"
    BY <1>0, FreshIs DEF Ops
  <2> QED
    BY <1>1, <1>4, <2>1 DEF Write, Lists, Acts
<1>5. ASSUME NEW n \in Names, HandleUsernameSubmit(t, s, n)
      PROVE  RequestedBy(t, s)
  <2>1. Send(s, WithName(Request("rename", t), n))
    BY <1>5 DEF HandleUsernameSubmit, WithName
  <2>2. /\ Fresh(t, WithName(Request("rename", t), n))
        /\ WithName(Request("rename", t), n).op = "rename"
    BY <1>0, FreshNameIs
  <2> QED
    BY <1>1, <1>5, <2>1, <2>2 DEF HandleUsernameSubmit, Lists, Acts
<1>6. ASSUME NEW p \in Passwords, NEW q \in Passwords, HandlePasswordSubmit(t, s, p, q)
      PROVE  RequestedBy(t, s)
  <2> DEFINE c == WithWords(Request("password", t), p, q)
  <2>1. Send(s, c)
    BY <1>6 DEF HandlePasswordSubmit, WithWords
  <2>2. Fresh(t, c) /\ c.op = "password"
    BY <1>0, FreshWordsIs
  <2> HIDE DEF c
  <2>3. CallsOK' /\ RequestsOK' /\ Sends(t, s) /\ call'[s] = c
    BY <1>0, <2>1, <2>2, SendsIs
  <2>4. PagesOK' /\ \A v \in Tabs : SamePage(v)
    BY <1>0, <1>6, PagesStay DEF HandlePasswordSubmit
  <2>5. page[t].me \in Uuids \cup {None}
    BY <1>0 DEF PageType, PageFields
  <2>6. /\ UNCHANGED <<tables, failed, twice, late, told>>
        /\ unsure' = IF \E r \in Slots : call[r].op = "password" /\ call[r].who = page[t].me
                     THEN unsure \cup {page[t].me} ELSE unsure
    BY <1>6 DEF HandlePasswordSubmit
  <2>7. HistoryOK' /\ unsure \subseteq unsure'
    BY <1>0, <2>5, <2>6 DEF HistoryOK
  <2> QED
    BY <2>2, <2>3, <2>4, <2>6, <2>7 DEF RequestedBy, Lists, Acts
<1>7. CASE PerformAdminAction(t, s)
  <2> DEFINE act == page[t].confirm.act
             u == page[t].confirm.u
             c == WithTarget(Request(act, t), u)
  <2>1. Send(s, c)
    BY <1>7 DEF PerformAdminAction, WithTarget
  <2>2. act \in Acts /\ act # "create" /\ u \in Uuids \cup {None} /\ page[t].view = "centre"
    BY <1>0, <1>7 DEF PageType, PageFields, PerformAdminAction
  <2> HIDE DEF act, u
  <2>3. Fresh(t, c) /\ c.op = act
    BY <1>0, <2>2, FreshTargetIs
  <2> HIDE DEF c
  <2>4. CallsOK' /\ RequestsOK' /\ Sends(t, s) /\ call'[s] = c
    BY <1>0, <2>1, <2>3, SendsIs
  <2>5. page' = [page EXCEPT ![t] = WithConfirm(page[t], NoConfirm)]
    BY <1>7 DEF PerformAdminAction, WithConfirm
  <2>6. NoConfirm \in [u : Uuids \cup {None}, act : Acts]
    BY DEF NoConfirm, Acts
  <2>7. /\ WithConfirm(page[t], NoConfirm) \in PageType
        /\ Same(WithConfirm(page[t], NoConfirm), page[t])
    BY <1>0, <2>6, ConfirmIs
  <2>8. PagesOK' /\ \A v \in Tabs : SamePage(v)
    BY <1>0, <2>5, <2>7, OnePage
  <2>9. HistoryOK'
    BY <1>0, <1>7, HistoryStays DEF PerformAdminAction
  <2> QED
    BY <1>7, <2>2, <2>3, <2>4, <2>8, <2>9 DEF RequestedBy, PerformAdminAction, history, Lists, Acts
<1>8. ASSUME NEW mode \in Lists, FetchAdminUsers(t, s, mode)
      PROVE  RequestedBy(t, s)
  <2>1. Fresh(t, Request(mode, t)) /\ Request(mode, t).op = mode
    BY <1>0, FreshIs DEF Ops, Lists
  <2>2. CallsOK' /\ RequestsOK' /\ Sends(t, s) /\ call'[s] = Request(mode, t)
    BY <1>0, <1>8, <2>1, SendsIs DEF FetchAdminUsers
  <2>3. /\ Asks(t, mode) \in PageType
        /\ Asks(t, mode).view = page[t].view /\ Asks(t, mode).me = page[t].me
        /\ Asks(t, mode).list = page[t].list /\ ~Asks(t, mode).behind
        /\ Asks(t, mode).crossed <=> page[t].crossed \/ Mine(t, Lists) # {}
    BY <1>0, AsksIs
  <2>4. /\ PagesOK' /\ page'[t] = Asks(t, mode)
        /\ \A v \in Tabs : v # t => page'[v] = page[v]
    BY <1>0, <1>8, <2>3, PageIs DEF FetchAdminUsers
  <2>5. HistoryOK'
    BY <1>0, <1>8, HistoryStays DEF FetchAdminUsers
  <2>6. Asked(t)
    BY <2>3, <2>4 DEF Asked
  <2>7. \A v \in Tabs : v # t => SamePage(v)
    BY <2>4 DEF SamePage, Same
  <2> QED
    BY <1>8, <2>1, <2>2, <2>4, <2>5, <2>6, <2>7 DEF RequestedBy, FetchAdminUsers, history, Lists, Acts
<1> QED
  BY <1>2, <1>3, <1>4, <1>5, <1>6, <1>7, <1>8 DEF Requests

(* A statement of a handler that looks something up and moves on.          *)
Looks(s) ==
    \/ CountUsers(s) \/ CheckName(s) \/ ListUsers(s) \/ EnsureManageable(s) \/ EnsureDeleted(s)
    \/ VerifyPassword(s) \/ VerifyUserCredentials(s)

(* The request goes on for the same page, account and words.               *)
Carried(s) ==
    /\ call'[s].op = call[s].op /\ call'[s].by = call[s].by /\ call'[s].who = call[s].who
    /\ call'[s].name = call[s].name /\ call'[s].pw = call[s].pw /\ call'[s].new = call[s].new
    /\ \A r \in Slots : r # s => call'[r] = call[r]

LookedUp(s) ==
    /\ CallsOK' /\ RequestsOK' /\ Carried(s)
    /\ call[s].at = "sent" /\ call'[s].at \in {"insert", "set", "clean", "update", "ok", "refused"}
    /\ call'[s].op # "login" => call'[s].u = call[s].u
    /\ call'[s].op \notin Lists => call'[s].list = call[s].list
    /\ call'[s].op \in Lists => call'[s].at = "ok" /\ call'[s].list = Listed(users)
    /\ call'[s].op = "bootstrap" /\ call'[s].at = "insert" => DOMAIN users = {}
    /\ call'[s].at \in {"set", "clean"} => call'[s].u \in DOMAIN users /\ ~IsAdmin(call'[s].u)
    /\ call'[s].op = "login" /\ call'[s].at = "ok" => call'[s].u \in DOMAIN users
    /\ call'[s].op \in Acts \cup Own => call'[s].at # "ok"
    /\ call'[s].op \in Acts => (call'[s].at = "clean" => call'[s].op = "cleanup")

LEMMA ListedIs ==
    ASSUME TablesOK
    PROVE  Listed(users) \in SUBSET ListedRow
<1>1. ASSUME NEW u \in DOMAIN users
      PROVE  [u |-> u, name |-> users[u].name, disabled |-> users[u].disabled,
              deleted |-> users[u].deleted] \in ListedRow
  <2>1. u \in Uuids /\ users[u] \in Row
    BY DEF TablesOK
  <2> QED
    BY <2>1 DEF Row, ListedRow
<1> QED
  BY <1>1 DEF Listed

(* The move itself, without what it depends on.                            *)
LEMMA LooksOn ==
    ASSUME CallsOK, RequestsOK, NEW s \in Slots, NEW at \in Ats, Go(s, at),
           call[s].at = "sent",
           at = "insert" => call[s].op \in {"create", "bootstrap"},
           at = "insert" /\ call[s].op = "bootstrap" => DOMAIN users = {},
           at = "set" => call[s].op \in {"disable", "enable", "delete"},
           at = "clean" => call[s].op = "cleanup",
           at \in {"set", "clean"} => call[s].u \in DOMAIN users /\ ~IsAdmin(call[s].u),
           at = "update" => call[s].op \in Own,
           at \in {"insert", "set", "clean", "update", "refused"},
           call[s].op \notin Lists
    PROVE  LookedUp(s)
<1>1. /\ CallsOK'
      /\ call'[s] \in CallType /\ call'[s].at = at
      /\ call'[s].op = call[s].op /\ call'[s].by = call[s].by /\ call'[s].who = call[s].who
      /\ call'[s].u = call[s].u /\ call'[s].name = call[s].name /\ call'[s].pw = call[s].pw
      /\ call'[s].new = call[s].new /\ call'[s].list = call[s].list
      /\ \A r \in Slots : r # s => call'[r] = call[r]
  BY GoIs
<1>2. RequestOK(call[s])
  BY DEF RequestsOK
<1>3. RequestOK(call'[s])
  BY <1>1, <1>2 DEF RequestOK
<1>4. RequestsOK'
  BY <1>1, <1>3 DEF RequestsOK
<1> QED
  BY <1>1, <1>4 DEF LookedUp, Carried, Lists, Acts, Own

LEMMA LooksIs ==
    ASSUME ShapeInv, NEW s \in Slots, Looks(s)
    PROVE  /\ LookedUp(s) /\ PagesOK' /\ HistoryOK' /\ (\A t \in Tabs : SamePage(t))
           /\ UNCHANGED <<tables, failed, late, told, unsure>>
           /\ twice' <=> twice \/ (/\ call[s].op = "bootstrap"
                                   /\ \E r \in Slots : At(r, "bootstrap", "insert"))
<1>0. TablesOK /\ PagesOK /\ CallsOK /\ RequestsOK /\ HistoryOK /\ call[s] \in CallType /\ RequestOK(call[s])
  BY DEF ShapeInv, CallsOK, RequestsOK
<1>a. page' = page /\ UNCHANGED <<tables, failed, late, told, unsure>>
  BY DEF Looks, CountUsers, CheckName, ListUsers, EnsureManageable, EnsureDeleted, VerifyPassword,
         VerifyUserCredentials, Quiet, history
<1>b. PagesOK' /\ \A t \in Tabs : SamePage(t)
  BY <1>0, <1>a, PagesStay
<1>1. CASE CountUsers(s)
  <2> DEFINE at == IF DOMAIN users = {} THEN "insert" ELSE "refused"
  <2>1. Go(s, at) /\ at \in Ats /\ call[s].op = "bootstrap" /\ call[s].at = "sent"
    BY <1>1 DEF CountUsers, Ats, At
  <2>2. /\ at = "insert" => DOMAIN users = {}
        /\ at \in {"insert", "refused"}
    OBVIOUS
  <2> HIDE DEF at
  <2>3. LookedUp(s)
    BY <1>0, <2>1, <2>2, LooksOn DEF Lists
  <2>4. twice' = (twice \/ \E r \in Slots : At(r, "bootstrap", "insert"))
    BY <1>1 DEF CountUsers
  <2>5. HistoryOK'
    BY <1>0, <1>a, <2>4 DEF HistoryOK
  <2> QED
    BY <1>a, <1>b, <2>1, <2>3, <2>4, <2>5
<1>c. ASSUME ~CountUsers(s)
      PROVE  HistoryOK' /\ twice' = twice /\ call[s].op # "bootstrap"
  <2>1. UNCHANGED history /\ call[s].op # "bootstrap"
    BY <1>c DEF Looks, CheckName, ListUsers, EnsureManageable, EnsureDeleted, VerifyPassword,
         VerifyUserCredentials, Quiet, At, Lists
  <2> QED
    BY <1>0, <2>1, HistoryStays DEF history
<1>2. CASE CheckName(s)
  <2> DEFINE at == IF Taken(call[s].name) THEN "refused"
                   ELSE IF call[s].op = "create" THEN "insert" ELSE "update"
  <2>1. Go(s, at) /\ at \in Ats /\ call[s].op \in {"create", "rename"} /\ call[s].at = "sent"
    BY <1>2 DEF CheckName, Ats, At
  <2>2. /\ at = "insert" => call[s].op = "create"
        /\ at = "update" => call[s].op # "create"
        /\ at \in {"insert", "update", "refused"}
    OBVIOUS
  <2> HIDE DEF at
  <2>3. LookedUp(s)
    BY <1>0, <2>1, <2>2, LooksOn DEF Lists, Own
  <2> QED
    BY <1>a, <1>b, <1>c, <2>1, <2>3 DEF CountUsers, At
<1>3. CASE ListUsers(s)
  <2>1. call[s].op \in Lists /\ call[s].at = "sent"
    BY <1>3 DEF ListUsers
  <2> DEFINE c == [call[s] EXCEPT !.list = Listed(users), !.at = "ok"]
  <2>2. call' = [call EXCEPT ![s] = c]
    BY <1>3 DEF ListUsers
  <2>3. Listed(users) \in SUBSET ListedRow
    BY <1>0, ListedIs
  <2>4. /\ c \in CallType /\ c.op = call[s].op /\ c.at = "ok" /\ c.by = call[s].by
        /\ c.who = call[s].who /\ c.u = call[s].u /\ c.name = call[s].name /\ c.pw = call[s].pw
        /\ c.new = call[s].new /\ c.list = Listed(users)
    BY <1>0, <2>3 DEF CallType, Ats
  <2> HIDE DEF c
  <2>5. call'[s] = c /\ CallsOK' /\ \A r \in Slots : r # s => call'[r] = call[r]
    BY <1>0, <2>2, <2>4 DEF CallsOK
  <2>6. RequestOK(c)
    BY <1>0, <2>1, <2>4 DEF RequestOK, Lists
  <2>7. RequestsOK'
    BY <1>0, <2>5, <2>6 DEF RequestsOK
  <2>8. LookedUp(s)
    BY <2>1, <2>4, <2>5, <2>7 DEF LookedUp, Carried, Lists, Acts, Own
  <2> QED
    BY <1>a, <1>b, <1>c, <2>1, <2>8 DEF CountUsers, At, Lists
<1>4. CASE EnsureManageable(s)
  <2> DEFINE at == IF call[s].u \in DOMAIN users /\ ~users[call[s].u].admin THEN "set" ELSE "refused"
  <2>1. Go(s, at) /\ at \in Ats /\ call[s].op \in {"disable", "enable", "delete"} /\ call[s].at = "sent"
    BY <1>4 DEF EnsureManageable, Ats
  <2>2. /\ at = "set" => call[s].u \in DOMAIN users /\ ~IsAdmin(call[s].u)
        /\ at \in {"set", "refused"}
    BY DEF IsAdmin
  <2> HIDE DEF at
  <2>3. LookedUp(s)
    BY <1>0, <2>1, <2>2, LooksOn DEF Lists
  <2> QED
    BY <1>a, <1>b, <1>c, <2>1, <2>3 DEF CountUsers, At
<1>5. CASE EnsureDeleted(s)
  <2> DEFINE at == IF call[s].u \in DOMAIN users /\ ~users[call[s].u].admin /\ users[call[s].u].deleted
                   THEN "clean" ELSE "refused"
  <2>1. Go(s, at) /\ at \in Ats /\ call[s].op = "cleanup" /\ call[s].at = "sent"
    BY <1>5 DEF EnsureDeleted, Ats, At
  <2>2. /\ at = "clean" => call[s].u \in DOMAIN users /\ ~IsAdmin(call[s].u)
        /\ at \in {"clean", "refused"}
    BY DEF IsAdmin
  <2> HIDE DEF at
  <2>3. LookedUp(s)
    BY <1>0, <2>1, <2>2, LooksOn DEF Lists
  <2> QED
    BY <1>a, <1>b, <1>c, <2>1, <2>3 DEF CountUsers, At
<1>6. CASE VerifyPassword(s)
  <2> DEFINE at == IF call[s].who \in DOMAIN users /\ users[call[s].who].pw = call[s].pw
                   THEN "update" ELSE "refused"
  <2>1. Go(s, at) /\ at \in Ats /\ call[s].op = "password" /\ call[s].at = "sent"
    BY <1>6 DEF VerifyPassword, Ats, At
  <2>2. at \in {"update", "refused"}
    OBVIOUS
  <2> HIDE DEF at
  <2>3. LookedUp(s)
    BY <1>0, <2>1, <2>2, LooksOn DEF Lists, Own
  <2> QED
    BY <1>a, <1>b, <1>c, <2>1, <2>3 DEF CountUsers, At
<1>7. CASE VerifyUserCredentials(s)
  <2> DEFINE right == {u \in DOMAIN users : users[u].name = call[s].name
                         /\ users[u].pw = call[s].pw /\ ~users[u].disabled /\ ~users[u].deleted}
  <2>0. call[s].op = "login" /\ call[s].at = "sent"
    BY <1>7 DEF VerifyUserCredentials, At
  <2>1. CASE right = {}
    <3>1. Go(s, "refused")
      BY <1>7, <2>1 DEF VerifyUserCredentials
    <3>2. LookedUp(s)
      BY <1>0, <2>0, <3>1, LooksOn DEF Lists, Ats
    <3> QED
      BY <1>a, <1>b, <1>c, <2>0, <3>2 DEF CountUsers, At
  <2>2. CASE right # {}
    <3> DEFINE v == CHOOSE u \in right : TRUE
               c == [call[s] EXCEPT !.u = v, !.at = "ok"]
    <3>1. call' = [call EXCEPT ![s] = c]
      BY <1>7, <2>2 DEF VerifyUserCredentials
    <3>2. v \in DOMAIN users
      BY <2>2
    <3>3. v \in Uuids
      BY <1>0, <3>2 DEF TablesOK
    <3> HIDE DEF v
    <3>4. /\ c \in CallType /\ c.op = call[s].op /\ c.at = "ok" /\ c.by = call[s].by
          /\ c.who = call[s].who /\ c.u = v /\ c.name = call[s].name /\ c.pw = call[s].pw
          /\ c.new = call[s].new /\ c.list = call[s].list
      BY <1>0, <3>3 DEF CallType, Ats
    <3> HIDE DEF c
    <3>5. call'[s] = c /\ CallsOK' /\ \A r \in Slots : r # s => call'[r] = call[r]
      BY <1>0, <3>1, <3>4 DEF CallsOK
    <3>6. RequestOK(c)
      BY <1>0, <2>0, <3>3, <3>4 DEF RequestOK, Lists
    <3>7. RequestsOK'
      BY <1>0, <3>5, <3>6 DEF RequestsOK
    <3>8. LookedUp(s)
      BY <2>0, <3>2, <3>4, <3>5, <3>7 DEF LookedUp, Carried, Lists, Acts, Own
    <3> QED
      BY <1>a, <1>b, <1>c, <2>0, <3>8 DEF CountUsers, At
  <2> QED
    BY <2>1, <2>2
<1> QED
  BY <1>1, <1>2, <1>3, <1>4, <1>5, <1>6, <1>7 DEF Looks

(* The table changed under every page but n.                               *)
Behinds(n) == \A t \in Tabs :
    /\ page'[t].view = page[t].view /\ page'[t].me = page[t].me /\ page'[t].list = page[t].list
    /\ page'[t].behind <=> page[t].behind \/ t # n
    /\ page'[t].crossed <=> page[t].crossed

LEMMA BehindByIs ==
    ASSUME PagesOK, NEW n, page' = BehindBy(n)
    PROVE  PagesOK' /\ Behinds(n)
<1>1. \A t \in Tabs : page[t] \in PageType
  BY DEF PagesOK
<1>2. \A t \in Tabs : page'[t] = IF t = n THEN page[t] ELSE WithBehind(page[t])
  BY DEF BehindBy, WithBehind
<1>3. \A t \in Tabs : page'[t] \in PageType
  BY <1>1, <1>2, BehindIs
<1>4. page' \in [Tabs -> PageType]
  BY <1>3 DEF BehindBy
<1>5. ASSUME NEW t \in Tabs
      PROVE  /\ page'[t].view = page[t].view /\ page'[t].me = page[t].me /\ page'[t].list = page[t].list
             /\ page'[t].behind <=> page[t].behind \/ t # n
             /\ page'[t].crossed <=> page[t].crossed
  <2>1. CASE t = n
    BY <1>2, <2>1
  <2>2. CASE t # n
    BY <1>1, <1>2, <2>2, BehindIs
  <2> QED
    BY <2>1, <2>2
<1> QED
  BY <1>4, <1>5 DEF PagesOK, Behinds

(* A handler goes on to another statement.                                 *)
GoesOn(s, at) ==
    /\ CallsOK' /\ RequestsOK' /\ Carried(s)
    /\ call'[s].at = at /\ call'[s].u = call[s].u /\ call'[s].list = call[s].list

LEMMA GoesOnIs ==
    ASSUME CallsOK, RequestsOK, NEW s \in Slots, NEW at \in {"clean", "audit", "ok", "refused", "failed"},
           Go(s, at), call[s].at # "free",
           at = "clean" => call[s].op \in {"delete", "cleanup"},
           at = "audit" => call[s].op \in Acts /\ call[s].u \in Uuids,
           at = "ok" => call[s].op # "login"
    PROVE  GoesOn(s, at)
<1>0. at \in Ats
  BY DEF Ats
<1>1. /\ CallsOK'
      /\ call'[s] \in CallType /\ call'[s].at = at
      /\ call'[s].op = call[s].op /\ call'[s].by = call[s].by /\ call'[s].who = call[s].who
      /\ call'[s].u = call[s].u /\ call'[s].name = call[s].name /\ call'[s].pw = call[s].pw
      /\ call'[s].new = call[s].new /\ call'[s].list = call[s].list
      /\ \A r \in Slots : r # s => call'[r] = call[r]
  BY <1>0, GoIs
<1>2. RequestOK(call[s])
  BY DEF RequestsOK
<1>3. RequestOK(call'[s])
  BY <1>1, <1>2 DEF RequestOK
<1>4. RequestsOK'
  BY <1>1, <1>3 DEF RequestsOK
<1> QED
  BY <1>1, <1>4 DEF GoesOn, Carried

(* A row is written, if it is there.                                       *)
LEMMA UpdateIs ==
    ASSUME TablesOK, NEW u, NEW row, u \in DOMAIN users => row \in Row, Update(u, row),
           UNCHANGED <<gone, data, audit>>
    PROVE  /\ TablesOK' /\ DOMAIN users' = DOMAIN users
           /\ u \in DOMAIN users => users'[u] = row
           /\ \A v \in DOMAIN users : v # u => users'[v] = users[v]
<1>1. users \in [DOMAIN users -> Row]
  BY DEF TablesOK
<1>2. users' \in [DOMAIN users -> Row]
  BY <1>1 DEF Update
<1>3. DOMAIN users' = DOMAIN users
  BY <1>1 DEF Update
<1>4. u \in DOMAIN users => users'[u] = row
  BY <1>1 DEF Update
<1>5. \A v \in DOMAIN users : v # u => users'[v] = users[v]
  BY <1>1 DEF Update
<1> QED
  BY <1>2, <1>3, <1>4, <1>5 DEF TablesOK

WithShut(row, b)       == [row EXCEPT !.disabled = b]
WithDeleted(row)       == [row EXCEPT !.deleted = TRUE, !.disabled = TRUE]
WithPassword(row, pw)  == [row EXCEPT !.pw = pw]
WithUsername(row, name) == [row EXCEPT !.name = name]

LEMMA ShutIs ==
    ASSUME NEW row \in Row, NEW b \in BOOLEAN
    PROVE  /\ WithShut(row, b) \in Row
           /\ WithShut(row, b).name = row.name /\ WithShut(row, b).pw = row.pw
           /\ WithShut(row, b).admin <=> row.admin
           /\ WithShut(row, b).disabled <=> b
           /\ WithShut(row, b).deleted <=> row.deleted
  BY DEF Row, WithShut

LEMMA DeletedIs ==
    ASSUME NEW row \in Row
    PROVE  /\ WithDeleted(row) \in Row
           /\ WithDeleted(row).name = row.name /\ WithDeleted(row).pw = row.pw
           /\ WithDeleted(row).admin <=> row.admin
           /\ WithDeleted(row).disabled /\ WithDeleted(row).deleted
  BY DEF Row, WithDeleted

LEMMA PasswordIs ==
    ASSUME NEW row \in Row, NEW pw \in Passwords
    PROVE  /\ WithPassword(row, pw) \in Row
           /\ WithPassword(row, pw).name = row.name /\ WithPassword(row, pw).pw = pw
           /\ WithPassword(row, pw).admin <=> row.admin
           /\ WithPassword(row, pw).disabled <=> row.disabled
           /\ WithPassword(row, pw).deleted <=> row.deleted
  BY DEF Row, WithPassword

LEMMA UsernameIs ==
    ASSUME NEW row \in Row, NEW name \in Names
    PROVE  /\ WithUsername(row, name) \in Row
           /\ WithUsername(row, name).name = name /\ WithUsername(row, name).pw = row.pw
           /\ WithUsername(row, name).admin <=> row.admin
           /\ WithUsername(row, name).disabled <=> row.disabled
           /\ WithUsername(row, name).deleted <=> row.deleted
  BY DEF Row, WithUsername

(* The rows but for one field of them, or of one of them.                  *)
SameRows   == DOMAIN users' = DOMAIN users
SameNames  == \A u \in DOMAIN users : users'[u].name = users[u].name
SameWords  == \A u \in DOMAIN users : users'[u].pw = users[u].pw
SameAdmins == \A u \in DOMAIN users : users'[u].admin <=> users[u].admin
SameShut   == \A u \in DOMAIN users : users'[u].disabled <=> users[u].disabled
SameEnded  == \A u \in DOMAIN users : users'[u].deleted <=> users[u].deleted

LEMMA SetUserDisabledIs ==
    ASSUME ShapeInv, KnownInv, NEW s \in Slots, SetUserDisabled(s)
    PROVE  /\ TablesOK' /\ PagesOK' /\ HistoryOK' /\ UNCHANGED <<gone, data, audit, history>>
           /\ call[s].at = "set" /\ call[s].op \in {"disable", "enable"} /\ GoesOn(s, "audit")
           /\ Behinds(call[s].by) /\ SameRows /\ SameNames /\ SameWords /\ SameAdmins /\ SameEnded
           /\ \A v \in DOMAIN users :
                 users'[v].disabled <=> IF v = call[s].u THEN call[s].op = "disable" ELSE users[v].disabled
<1> DEFINE u == call[s].u
           shut == call[s].op = "disable"
<1>0. TablesOK /\ PagesOK /\ CallsOK /\ RequestsOK /\ HistoryOK
  BY DEF ShapeInv
<1>1. call[s].at = "set" /\ call[s].op \in {"disable", "enable"}
  BY DEF SetUserDisabled
<1>2. u \in Uuids
  BY <1>0, <1>1 DEF KnownInv, Plain, Known, TablesOK
<1>3. GoesOn(s, "audit")
  BY <1>0, <1>1, <1>2, GoesOnIs DEF SetUserDisabled, Acts
<1>4. PagesOK' /\ Behinds(call[s].by)
  BY <1>0, BehindByIs DEF SetUserDisabled
<1>5. UNCHANGED <<gone, data, audit, history>> /\ HistoryOK'
  BY <1>0, HistoryStays DEF SetUserDisabled, Quiet
<1>6. \A v \in DOMAIN users : users[v] \in Row
  BY <1>0 DEF TablesOK
<1>7. Update(u, WithShut(users[u], shut))
  BY DEF SetUserDisabled, WithShut
<1>8. shut \in BOOLEAN
  OBVIOUS
<1> HIDE DEF shut
<1>9. u \in DOMAIN users => WithShut(users[u], shut) \in Row
  BY <1>6, <1>8, ShutIs
<1>10. /\ TablesOK' /\ DOMAIN users' = DOMAIN users
       /\ u \in DOMAIN users => users'[u] = WithShut(users[u], shut)
       /\ \A v \in DOMAIN users : v # u => users'[v] = users[v]
  BY <1>0, <1>5, <1>7, <1>9, UpdateIs
<1>11. ASSUME NEW v \in DOMAIN users
       PROVE  /\ users'[v].name = users[v].name /\ users'[v].pw = users[v].pw
              /\ users'[v].admin <=> users[v].admin
              /\ users'[v].deleted <=> users[v].deleted
              /\ users'[v].disabled <=> IF v = u THEN shut ELSE users[v].disabled
  <2>1. CASE v = u
    BY <1>6, <1>8, <1>10, <2>1, ShutIs
  <2>2. CASE v # u
    BY <1>10, <2>2
  <2> QED
    BY <2>1, <2>2
<1> QED
  BY <1>1, <1>3, <1>4, <1>5, <1>10, <1>11 DEF SameRows, SameNames, SameWords, SameAdmins, SameEnded, shut

LEMMA SoftDeleteUserIs ==
    ASSUME ShapeInv, NEW s \in Slots, SoftDeleteUser(s)
    PROVE  /\ TablesOK' /\ PagesOK' /\ HistoryOK' /\ UNCHANGED <<gone, data, audit, history>>
           /\ call[s].at = "set" /\ call[s].op = "delete" /\ GoesOn(s, "clean")
           /\ Behinds(call[s].by) /\ SameRows /\ SameNames /\ SameWords /\ SameAdmins
           /\ \A v \in DOMAIN users :
                 /\ users'[v].disabled <=> users[v].disabled \/ v = call[s].u
                 /\ users'[v].deleted <=> users[v].deleted \/ v = call[s].u
<1> DEFINE u == call[s].u
<1>0. TablesOK /\ PagesOK /\ CallsOK /\ RequestsOK /\ HistoryOK
  BY DEF ShapeInv
<1>1. call[s].at = "set" /\ call[s].op = "delete"
  BY DEF SoftDeleteUser, At
<1>3. GoesOn(s, "clean")
  BY <1>0, <1>1, GoesOnIs DEF SoftDeleteUser
<1>4. PagesOK' /\ Behinds(call[s].by)
  BY <1>0, BehindByIs DEF SoftDeleteUser
<1>5. UNCHANGED <<gone, data, audit, history>> /\ HistoryOK'
  BY <1>0, HistoryStays DEF SoftDeleteUser, Quiet
<1>6. \A v \in DOMAIN users : users[v] \in Row
  BY <1>0 DEF TablesOK
<1>7. Update(u, WithDeleted(users[u]))
  BY DEF SoftDeleteUser, WithDeleted
<1>9. u \in DOMAIN users => WithDeleted(users[u]) \in Row
  BY <1>6, DeletedIs
<1>10. /\ TablesOK' /\ DOMAIN users' = DOMAIN users
       /\ u \in DOMAIN users => users'[u] = WithDeleted(users[u])
       /\ \A v \in DOMAIN users : v # u => users'[v] = users[v]
  BY <1>0, <1>5, <1>7, <1>9, UpdateIs
<1>11. ASSUME NEW v \in DOMAIN users
       PROVE  /\ users'[v].name = users[v].name /\ users'[v].pw = users[v].pw
              /\ users'[v].admin <=> users[v].admin
              /\ users'[v].disabled <=> users[v].disabled \/ v = u
              /\ users'[v].deleted <=> users[v].deleted \/ v = u
  <2>1. CASE v = u
    BY <1>6, <1>10, <2>1, DeletedIs
  <2>2. CASE v # u
    BY <1>10, <2>2
  <2> QED
    BY <2>1, <2>2
<1> QED
  BY <1>1, <1>3, <1>4, <1>5, <1>10, <1>11 DEF SameRows, SameNames, SameWords, SameAdmins

LEMMA ChangeUserPasswordIs ==
    ASSUME ShapeInv, NEW s \in Slots, ChangeUserPassword(s)
    PROVE  /\ TablesOK' /\ PagesOK' /\ HistoryOK' /\ UNCHANGED <<gone, data, audit, history>>
           /\ call[s].at = "update" /\ call[s].op = "password" /\ GoesOn(s, "ok")
           /\ (\A t \in Tabs : SamePage(t))
           /\ SameRows /\ SameNames /\ SameAdmins /\ SameShut /\ SameEnded
           /\ \A v \in DOMAIN users :
                 users'[v].pw = IF v = call[s].who THEN call[s].new ELSE users[v].pw
<1> DEFINE u == call[s].who
           new == call[s].new
<1>0. TablesOK /\ PagesOK /\ CallsOK /\ RequestsOK /\ HistoryOK
  BY DEF ShapeInv
<1>1. call[s].at = "update" /\ call[s].op = "password"
  BY DEF ChangeUserPassword, At
<1>2. new \in Passwords
  BY <1>0, <1>1 DEF RequestsOK, RequestOK
<1>3. GoesOn(s, "ok")
  BY <1>0, <1>1, GoesOnIs DEF ChangeUserPassword
<1>4. PagesOK' /\ \A t \in Tabs : SamePage(t)
  BY <1>0, PagesStay DEF ChangeUserPassword
<1>5. UNCHANGED <<gone, data, audit, history>> /\ HistoryOK'
  BY <1>0, HistoryStays DEF ChangeUserPassword, Quiet
<1>6. \A v \in DOMAIN users : users[v] \in Row
  BY <1>0 DEF TablesOK
<1>7. Update(u, WithPassword(users[u], new))
  BY DEF ChangeUserPassword, WithPassword
<1> HIDE DEF new
<1>9. u \in DOMAIN users => WithPassword(users[u], new) \in Row
  BY <1>2, <1>6, PasswordIs
<1>10. /\ TablesOK' /\ DOMAIN users' = DOMAIN users
       /\ u \in DOMAIN users => users'[u] = WithPassword(users[u], new)
       /\ \A v \in DOMAIN users : v # u => users'[v] = users[v]
  BY <1>0, <1>5, <1>7, <1>9, UpdateIs
<1>11. ASSUME NEW v \in DOMAIN users
       PROVE  /\ users'[v].name = users[v].name
              /\ users'[v].pw = IF v = u THEN new ELSE users[v].pw
              /\ users'[v].admin <=> users[v].admin
              /\ users'[v].disabled <=> users[v].disabled
              /\ users'[v].deleted <=> users[v].deleted
  <2>1. CASE v = u
    BY <1>2, <1>6, <1>10, <2>1, PasswordIs
  <2>2. CASE v # u
    BY <1>10, <2>2
  <2> QED
    BY <2>1, <2>2
<1> QED
  BY <1>1, <1>3, <1>4, <1>5, <1>10, <1>11 DEF SameRows, SameNames, SameAdmins, SameShut, SameEnded, new

(* The name is taken, or becomes the account's.                            *)
LEMMA ChangeUsernameIs ==
    ASSUME ShapeInv, NEW s \in Slots, ChangeUsername(s)
    PROVE  /\ TablesOK' /\ PagesOK' /\ HistoryOK' /\ UNCHANGED <<gone, data, audit, history>>
           /\ call[s].at = "update" /\ call[s].op = "rename"
           /\ SameRows /\ SameWords /\ SameAdmins /\ SameShut /\ SameEnded
           /\ \/ GoesOn(s, "failed") /\ SameNames /\ (\A t \in Tabs : SamePage(t)) /\ users' = users
              \/ /\ GoesOn(s, "ok") /\ Behinds(Nobody)
                 /\ call[s].who \in DOMAIN users => \A v \in DOMAIN users : users[v].name # call[s].name
                 /\ \A v \in DOMAIN users :
                       users'[v].name = IF v = call[s].who THEN call[s].name ELSE users[v].name
<1> DEFINE u == call[s].who
           name == call[s].name
<1>0. TablesOK /\ PagesOK /\ CallsOK /\ RequestsOK /\ HistoryOK
  BY DEF ShapeInv
<1>1. call[s].at = "update" /\ call[s].op = "rename"
  BY DEF ChangeUsername, At
<1>2. name \in Names
  BY <1>0, <1>1 DEF RequestsOK, RequestOK
<1>5. UNCHANGED <<gone, data, audit, history>> /\ HistoryOK'
  BY <1>0, HistoryStays DEF ChangeUsername, Quiet
<1>6. \A v \in DOMAIN users : users[v] \in Row
  BY <1>0 DEF TablesOK
<1>a. CASE u \in DOMAIN users /\ Taken(name)
  <2>1. Go(s, "failed") /\ UNCHANGED <<users, page>>
    BY <1>a DEF ChangeUsername
  <2>2. GoesOn(s, "failed")
    BY <1>0, <1>1, <2>1, GoesOnIs
  <2>3. PagesOK' /\ \A t \in Tabs : SamePage(t)
    BY <1>0, <2>1, PagesStay
  <2>4. TablesOK'
    BY <1>0, <1>5, <2>1 DEF TablesOK
  <2> QED
    BY <1>1, <1>5, <2>1, <2>2, <2>3, <2>4
       DEF SameRows, SameNames, SameWords, SameAdmins, SameShut, SameEnded
<1>b. CASE ~(u \in DOMAIN users /\ Taken(name))
  <2>1. Update(u, WithUsername(users[u], name)) /\ Go(s, "ok") /\ page' = BehindBy(Nobody)
    BY <1>b DEF ChangeUsername, WithUsername
  <2>2. u \in DOMAIN users => \A v \in DOMAIN users : users[v].name # name
    BY <1>b DEF Taken
  <2> HIDE DEF name
  <2>3. u \in DOMAIN users => WithUsername(users[u], name) \in Row
    BY <1>2, <1>6, UsernameIs
  <2>4. /\ TablesOK' /\ DOMAIN users' = DOMAIN users
        /\ u \in DOMAIN users => users'[u] = WithUsername(users[u], name)
        /\ \A v \in DOMAIN users : v # u => users'[v] = users[v]
    BY <1>0, <1>5, <2>1, <2>3, UpdateIs
  <2>5. ASSUME NEW v \in DOMAIN users
        PROVE  /\ users'[v].name = IF v = u THEN name ELSE users[v].name
               /\ users'[v].pw = users[v].pw
               /\ users'[v].admin <=> users[v].admin
               /\ users'[v].disabled <=> users[v].disabled
               /\ users'[v].deleted <=> users[v].deleted
    <3>1. CASE v = u
      BY <1>2, <1>6, <2>4, <3>1, UsernameIs
    <3>2. CASE v # u
      BY <2>4, <3>2
    <3> QED
      BY <3>1, <3>2
  <2>6. GoesOn(s, "ok")
    BY <1>0, <1>1, <2>1, GoesOnIs
  <2>7. PagesOK' /\ Behinds(Nobody)
    BY <1>0, <2>1, BehindByIs
  <2>8. SameRows /\ SameWords /\ SameAdmins /\ SameShut /\ SameEnded
    BY <2>4, <2>5 DEF SameRows, SameWords, SameAdmins, SameShut, SameEnded
  <2> QED
    BY <1>1, <1>5, <2>2, <2>4, <2>5, <2>6, <2>7, <2>8 DEF name
<1> QED
  BY <1>a, <1>b

LEMMA CleanupUserDataIs ==
    ASSUME ShapeInv, KnownInv, NEW s \in Slots, CleanupUserData(s)
    PROVE  /\ TablesOK' /\ PagesOK' /\ HistoryOK' /\ UNCHANGED <<audit, history>>
           /\ call[s].at = "clean" /\ call[s].op \in {"delete", "cleanup"}
           /\ call[s].u \in Uuids /\ ~IsAdmin(call[s].u)
           /\ \/ GoesOn(s, "refused") /\ call[s].op = "cleanup" /\ UNCHANGED tables /\ (\A t \in Tabs : SamePage(t))
              \/ /\ GoesOn(s, "audit") /\ call[s].op = "delete" /\ data' = data \ {call[s].u}
                 /\ UNCHANGED <<users, gone>> /\ \A t \in Tabs : SamePage(t)
              \/ /\ GoesOn(s, "audit") /\ call[s].op = "cleanup" /\ data' = data \ {call[s].u}
                 /\ call[s].u \in DOMAIN users
                 /\ DOMAIN users' = DOMAIN users \ {call[s].u} /\ gone' = gone \cup {call[s].u}
                 /\ (\A v \in DOMAIN users' : users'[v] = users[v]) /\ Behinds(call[s].by)
<1> DEFINE u == call[s].u
<1>0. TablesOK /\ PagesOK /\ CallsOK /\ RequestsOK /\ HistoryOK
  BY DEF ShapeInv
<1>1. call[s].at = "clean" /\ call[s].op \in {"delete", "cleanup"}
  BY <1>0 DEF CleanupUserData, RequestsOK, RequestOK
<1>2. u \in Uuids /\ ~IsAdmin(u)
  BY <1>0, <1>1 DEF KnownInv, Plain, Known, TablesOK
<1>3. UNCHANGED <<audit, history>> /\ HistoryOK'
  BY <1>0, HistoryStays DEF CleanupUserData, Quiet
<1>a. CASE call[s].op = "cleanup" /\ u \notin DOMAIN users
  <2>1. Go(s, "refused") /\ UNCHANGED <<users, gone, data, page>>
    BY <1>a DEF CleanupUserData
  <2>2. GoesOn(s, "refused")
    BY <1>0, <1>1, <2>1, GoesOnIs
  <2>3. PagesOK' /\ \A t \in Tabs : SamePage(t)
    BY <1>0, <2>1, PagesStay
  <2>4. UNCHANGED tables /\ TablesOK'
    BY <1>0, <1>3, <2>1, TablesStay DEF tables
  <2> QED
    BY <1>a, <1>1, <1>2, <1>3, <2>2, <2>3, <2>4
<1>b. CASE ~(call[s].op = "cleanup" /\ u \notin DOMAIN users)
  <2>1. data' = data \ {u} /\ Go(s, "audit")
    BY <1>b DEF CleanupUserData
  <2>2. GoesOn(s, "audit")
    BY <1>0, <1>1, <1>2, <2>1, GoesOnIs DEF Acts
  <2>3. CASE call[s].op = "delete"
    <3>1. UNCHANGED <<users, gone, page>>
      BY <1>b, <2>3 DEF CleanupUserData
    <3>2. PagesOK' /\ \A t \in Tabs : SamePage(t)
      BY <1>0, <3>1, PagesStay
    <3>3. TablesOK'
      BY <1>0, <1>3, <2>1, <3>1 DEF TablesOK
    <3> QED
      BY <1>1, <1>2, <1>3, <2>1, <2>2, <2>3, <3>1, <3>2, <3>3
  <2>4. CASE call[s].op = "cleanup"
    <3>1. /\ users' = [v \in DOMAIN users \ {u} |-> users[v]]
          /\ gone' = gone \cup {u} /\ page' = BehindBy(call[s].by)
      BY <1>b, <2>4 DEF CleanupUserData
    <3>2. PagesOK' /\ Behinds(call[s].by)
      BY <1>0, <3>1, BehindByIs
    <3>3. DOMAIN users' = DOMAIN users \ {u} /\ \A v \in DOMAIN users' : users'[v] = users[v]
      BY <3>1
    <3>4. \A v \in DOMAIN users : users[v] \in Row
      BY <1>0 DEF TablesOK
    <3>5. users' \in [DOMAIN users' -> Row]
      BY <3>1, <3>4
    <3>6. TablesOK'
      BY <1>0, <1>2, <1>3, <2>1, <3>1, <3>3, <3>5 DEF TablesOK
    <3> QED
      BY <1>b, <1>1, <1>2, <1>3, <2>1, <2>2, <2>4, <3>1, <3>2, <3>3, <3>6
  <2> QED
    BY <1>1, <2>3, <2>4
<1> QED
  BY <1>a, <1>b

LEMMA RecordAuditIs ==
    ASSUME ShapeInv, NEW s \in Slots, RecordAudit(s)
    PROVE  /\ TablesOK' /\ PagesOK' /\ HistoryOK' /\ UNCHANGED <<users, gone, data, history>>
           /\ call[s].at = "audit" /\ call[s].op \in Acts /\ GoesOn(s, "ok")
           /\ (\A t \in Tabs : SamePage(t)) /\ audit' = audit \cup {<<call[s].op, call[s].u>>}
<1>0. TablesOK /\ PagesOK /\ CallsOK /\ RequestsOK /\ HistoryOK
  BY DEF ShapeInv
<1>1. call[s].at = "audit" /\ call[s].op \in Acts /\ call[s].u \in Uuids
  BY <1>0 DEF RecordAudit, RequestsOK, RequestOK
<1>2. UNCHANGED <<users, gone, data, history>> /\ HistoryOK'
  BY <1>0, HistoryStays DEF RecordAudit, Quiet
<1>3. GoesOn(s, "ok")
  BY <1>0, <1>1, GoesOnIs DEF RecordAudit, Acts
<1>4. PagesOK' /\ \A t \in Tabs : SamePage(t)
  BY <1>0, PagesStay DEF RecordAudit
<1>5. audit' = audit \cup {<<call[s].op, call[s].u>>}
  BY DEF RecordAudit
<1>6. TablesOK'
  BY <1>0, <1>1, <1>2, <1>5 DEF TablesOK
<1> QED
  BY <1>1, <1>2, <1>3, <1>4, <1>5, <1>6

LEMMA WriteRowIs ==
    ASSUME ShapeInv, NEW s \in Slots, WriteRow(s)
    PROVE  /\ TablesOK' /\ PagesOK' /\ HistoryOK' /\ UNCHANGED <<users, gone, audit, failed, twice, told, unsure>>
           /\ call[s].at = "sent" /\ call[s].op = "write" /\ (\A t \in Tabs : SamePage(t))
           /\ \/ GoesOn(s, "failed") /\ UNCHANGED <<data, late>>
              \/ /\ GoesOn(s, "ok") /\ call[s].who \in DOMAIN users /\ data' = data \cup {call[s].who}
                 /\ late' = IF users[call[s].who].deleted THEN late \cup {call[s].who} ELSE late
<1> DEFINE u == call[s].who
<1>0. TablesOK /\ PagesOK /\ CallsOK /\ RequestsOK /\ HistoryOK
  BY DEF ShapeInv
<1>1. call[s].at = "sent" /\ call[s].op = "write"
  BY DEF WriteRow, At
<1>2. UNCHANGED <<users, gone, audit, failed, twice, told, unsure>>
  BY DEF WriteRow
<1>3. HistoryOK'
  BY <1>0, <1>2 DEF HistoryOK
<1>4. PagesOK' /\ \A t \in Tabs : SamePage(t)
  BY <1>0, PagesStay DEF WriteRow
<1>5. CASE u \in DOMAIN users
  <2>1. /\ data' = data \cup {u} /\ Go(s, "ok")
        /\ late' = IF users[u].deleted THEN late \cup {u} ELSE late
    BY <1>5 DEF WriteRow
  <2>2. GoesOn(s, "ok")
    BY <1>0, <1>1, <2>1, GoesOnIs
  <2>3. TablesOK'
    BY <1>0, <1>2, <1>5, <2>1 DEF TablesOK
  <2> QED
    BY <1>1, <1>2, <1>3, <1>4, <1>5, <2>1, <2>2, <2>3
<1>6. CASE u \notin DOMAIN users
  <2>1. Go(s, "failed") /\ UNCHANGED <<data, late>>
    BY <1>6 DEF WriteRow
  <2>2. GoesOn(s, "failed")
    BY <1>0, <1>1, <2>1, GoesOnIs
  <2>3. TablesOK'
    BY <1>0, <1>2, <2>1 DEF TablesOK
  <2> QED
    BY <1>1, <1>2, <1>3, <1>4, <2>1, <2>2, <2>3
<1> QED
  BY <1>5, <1>6

(* The name is taken, or an account that never was begins.                 *)
Created(s, u) ==
    /\ u \in Unused /\ DOMAIN users' = DOMAIN users \cup {u}
    /\ \A v \in DOMAIN users : users'[v] = users[v] /\ users[v].name # call[s].name
    /\ users'[u].name = call[s].name /\ users'[u].pw = call[s].pw
    /\ users'[u].admin <=> call[s].op = "bootstrap"
    /\ ~users'[u].disabled /\ ~users'[u].deleted
    /\ told' = [told EXCEPT ![u] = call[s].pw]
    /\ Behinds(call[s].by) /\ Carried(s)
    /\ call'[s].u = u /\ call'[s].list = call[s].list
    /\ call'[s].at = IF call[s].op = "bootstrap" THEN "ok" ELSE "audit"

LEMMA CreateUserWithRoleIs ==
    ASSUME ShapeInv, NEW s \in Slots, CreateUserWithRole(s)
    PROVE  /\ TablesOK' /\ PagesOK' /\ CallsOK' /\ RequestsOK' /\ HistoryOK'
           /\ UNCHANGED <<gone, data, audit, failed, twice, late, unsure>>
           /\ call[s].at = "insert" /\ call[s].op \in {"create", "bootstrap"}
           /\ \/ GoesOn(s, "failed") /\ UNCHANGED <<users, told>> /\ (\A t \in Tabs : SamePage(t))
              \/ \E u \in Unused : Created(s, u)
<1>0. TablesOK /\ PagesOK /\ CallsOK /\ RequestsOK /\ HistoryOK /\ call[s] \in CallType /\ RequestOK(call[s])
  BY DEF ShapeInv, CallsOK, RequestsOK
<1>1. call[s].at = "insert" /\ call[s].op \in {"create", "bootstrap"} /\ call[s].name \in Names /\ call[s].pw \in Passwords
  BY <1>0 DEF CreateUserWithRole, RequestOK
<1>2. UNCHANGED <<gone, data, audit, failed, twice, late, unsure>>
  BY DEF CreateUserWithRole
<1>a. CASE Taken(call[s].name)
  <2>1. Go(s, "failed") /\ UNCHANGED <<users, page, told>>
    BY <1>a DEF CreateUserWithRole
  <2>2. GoesOn(s, "failed")
    BY <1>0, <1>1, <2>1, GoesOnIs
  <2>3. PagesOK' /\ \A t \in Tabs : SamePage(t)
    BY <1>0, <2>1, PagesStay
  <2>4. TablesOK' /\ HistoryOK'
    BY <1>0, <1>2, <2>1 DEF TablesOK, HistoryOK
  <2> QED
    BY <1>1, <1>2, <2>1, <2>2, <2>3, <2>4 DEF GoesOn
<1>b. CASE ~Taken(call[s].name)
  <2> DEFINE u == CHOOSE v \in Unused : TRUE
             first == call[s].op = "bootstrap"
             row == NewRow(call[s].name, call[s].pw, first)
             at == IF first THEN "ok" ELSE "audit"
             c == [call[s] EXCEPT !.u = u, !.at = at]
  <2>1. /\ users' = [v \in DOMAIN users \cup {u} |-> IF v = u THEN row ELSE users[v]]
        /\ told' = [told EXCEPT ![u] = call[s].pw]
        /\ page' = BehindBy(call[s].by)
        /\ call' = [call EXCEPT ![s] = c]
    BY <1>b DEF CreateUserWithRole, InsertUser
  <2>2. u \in Unused
    BY DEF CreateUserWithRole
  <2>3. u \in Uuids /\ u \notin DOMAIN users /\ u \notin gone
    BY <2>2 DEF Unused
  <2>4. first \in BOOLEAN /\ at \in Ats /\ (at = "audit" \/ at = "ok") /\ (first => at = "ok")
        /\ (~first => at = "audit")
    BY DEF Ats
  <2>4a. first <=> call[s].op = "bootstrap"
    OBVIOUS
  <2> HIDE DEF u, first, at
  <2>5. /\ row \in Row /\ row.name = call[s].name /\ row.pw = call[s].pw /\ row.admin = first
        /\ ~row.disabled /\ ~row.deleted
    BY <1>1, <2>4 DEF NewRow, Row
  <2>6. /\ c \in CallType /\ c.op = call[s].op /\ c.at = at /\ c.by = call[s].by
        /\ c.who = call[s].who /\ c.u = u /\ c.name = call[s].name /\ c.pw = call[s].pw
        /\ c.new = call[s].new /\ c.list = call[s].list
    BY <1>0, <2>3, <2>4 DEF CallType
  <2> HIDE DEF row, c
  <2>7. call'[s] = c /\ CallsOK' /\ \A r \in Slots : r # s => call'[r] = call[r]
    BY <1>0, <2>1, <2>6 DEF CallsOK
  <2>8. RequestOK(c)
    BY <1>0, <1>1, <2>3, <2>4, <2>4a, <2>6 DEF RequestOK, Acts
  <2>9. RequestsOK'
    BY <1>0, <2>7, <2>8 DEF RequestsOK
  <2>10. PagesOK' /\ Behinds(call[s].by)
    BY <1>0, <2>1, BehindByIs
  <2>11. /\ DOMAIN users' = DOMAIN users \cup {u} /\ users'[u] = row
         /\ \A v \in DOMAIN users : users'[v] = users[v]
    BY <2>1, <2>3
  <2>12. users' \in [DOMAIN users' -> Row]
    <3>1. \A v \in DOMAIN users : users[v] \in Row
      BY <1>0 DEF TablesOK
    <3> QED
      BY <2>1, <2>5, <3>1
  <2>13. TablesOK'
    BY <1>0, <1>2, <2>3, <2>11, <2>12 DEF TablesOK
  <2>14. HistoryOK'
    BY <1>0, <1>1, <1>2, <2>1 DEF HistoryOK
  <2>15. \A v \in DOMAIN users : users[v].name # call[s].name
    BY <1>b DEF Taken
  <2>16. Carried(s)
    BY <2>6, <2>7 DEF Carried
  <2>17. call'[s].at = IF call[s].op = "bootstrap" THEN "ok" ELSE "audit"
    BY <2>4, <2>4a, <2>6, <2>7
  <2>18. users'[u].admin <=> call[s].op = "bootstrap"
    BY <2>4a, <2>5, <2>11
  <2>19. Created(s, u)
    BY <2>1, <2>2, <2>5, <2>6, <2>7, <2>10, <2>11, <2>15, <2>16, <2>17, <2>18 DEF Created
  <2> QED
    BY <1>1, <1>2, <2>2, <2>7, <2>9, <2>10, <2>13, <2>14, <2>19
<1> QED
  BY <1>a, <1>b

LEMMA FailIs ==
    ASSUME ShapeInv, NEW s \in Slots, Fail(s)
    PROVE  /\ PagesOK' /\ HistoryOK' /\ UNCHANGED <<tables, twice, late, told>>
           /\ call[s].at \notin {"free", "refused", "failed"} /\ GoesOn(s, "failed")
           /\ failed' = IF call[s].u # None THEN failed \cup {call[s].u} ELSE failed
           /\ unsure' = IF call[s].op = "password" THEN unsure \cup {call[s].who} ELSE unsure
           /\ \A t \in Tabs :
                 /\ page'[t].view = page[t].view /\ page'[t].me = page[t].me
                 /\ page'[t].list = page[t].list
                 /\ page'[t].behind <=> page[t].behind \/ t = call[s].by
                 /\ page'[t].crossed <=> page[t].crossed
<1>0. /\ TablesOK /\ PagesOK /\ CallsOK /\ RequestsOK /\ HistoryOK
      /\ call[s] \in CallType /\ RequestOK(call[s])
  BY DEF ShapeInv, CallsOK, RequestsOK
<1>1. call[s].at \notin {"free", "refused", "failed"}
  BY <1>0 DEF Fail, RequestOK
<1>2. GoesOn(s, "failed")
  BY <1>0, <1>1, GoesOnIs DEF Fail
<1>3. /\ UNCHANGED <<tables, twice, late, told>>
      /\ failed' = IF call[s].u # None THEN failed \cup {call[s].u} ELSE failed
      /\ unsure' = IF call[s].op = "password" THEN unsure \cup {call[s].who} ELSE unsure
  BY DEF Fail
<1>4. HistoryOK'
  <2>1. call[s].u \in Uuids \cup {None} /\ call[s].who \in Uuids \cup {None}
    BY <1>0 DEF CallType
  <2> QED
    BY <1>0, <1>3, <2>1 DEF HistoryOK
<1>5. \A t \in Tabs : page'[t] = IF t = call[s].by THEN WithBehind(page[t]) ELSE page[t]
  BY DEF Fail, WithBehind
<1>6. \A t \in Tabs : page[t] \in PageType
  BY <1>0 DEF PagesOK
<1>7. page' \in [Tabs -> PageType]
  <2>1. \A t \in Tabs : page'[t] \in PageType
    BY <1>5, <1>6, BehindIs
  <2> QED
    BY <2>1 DEF Fail
<1>8. ASSUME NEW t \in Tabs
      PROVE  /\ page'[t].view = page[t].view /\ page'[t].me = page[t].me
             /\ page'[t].list = page[t].list
             /\ page'[t].behind <=> page[t].behind \/ t = call[s].by
             /\ page'[t].crossed <=> page[t].crossed
  <2>1. CASE t = call[s].by
    BY <1>5, <1>6, <2>1, BehindIs
  <2>2. CASE t # call[s].by
    BY <1>5, <2>2
  <2> QED
    BY <2>1, <2>2
<1> QED
  BY <1>1, <1>2, <1>3, <1>4, <1>7, <1>8 DEF PagesOK

-----------------------------------------------------------------------------
(* Answers.                                                                *)

Ends(s) ==
    /\ CallsOK' /\ RequestsOK' /\ call'[s] = NoCall
    /\ \A r \in Slots : r # s => call'[r] = call[r]

LEMMA EndsIs ==
    ASSUME CallsOK, RequestsOK, NEW s \in Slots, Send(s, NoCall)
    PROVE  Ends(s)
<1>1. call'[s] = NoCall /\ CallsOK' /\ \A r \in Slots : r # s => call'[r] = call[r]
  BY NoCallIs DEF CallsOK, Send
<1>2. RequestsOK'
  BY <1>1, NoCallIs DEF RequestsOK
<1> QED
  BY <1>1, <1>2 DEF Ends

(* An answer that changes nothing a property looks at, or nobody gets.     *)
Passes(s) == Forget(s) \/ Refused(s) \/ Bootstrapped(s) \/ Renamed(s) \/ PasswordChanged(s) \/ Written(s)

LEMMA PassesIs ==
    ASSUME ShapeInv, NEW s \in Slots, Passes(s)
    PROVE  /\ PagesOK' /\ HistoryOK' /\ UNCHANGED <<tables, failed, twice, late>>
           /\ Ends(s) /\ (\A t \in Tabs : SamePage(t))
           /\ call[s].at \in {"ok", "refused", "failed"}
           /\ call[s].by # Nobody /\ call[s].op \in Acts \cup Lists => call[s].at \in {"refused", "failed"}
           /\ \/ UNCHANGED <<told, unsure>> /\ ~(call[s].op = "password" /\ call[s].at = "ok")
              \/ /\ call[s].op = "password" /\ call[s].at = "ok"
                 /\ told' = told /\ unsure' = unsure \cup {call[s].who}
              \/ /\ call[s].op = "password" /\ call[s].at = "ok"
                 /\ told' = [told EXCEPT ![call[s].who] = call[s].new] /\ unsure' = unsure
<1>0. /\ TablesOK /\ PagesOK /\ CallsOK /\ RequestsOK /\ HistoryOK
      /\ call[s] \in CallType /\ RequestOK(call[s])
  BY DEF ShapeInv, CallsOK, RequestsOK
<1>1. Send(s, NoCall)
  BY DEF Passes, Forget, Refused, Bootstrapped, Renamed, PasswordChanged, Written
<1>2. Ends(s)
  BY <1>0, <1>1, EndsIs
<1>3. UNCHANGED <<tables, failed, twice, late>>
  BY DEF Passes, Forget, Refused, Bootstrapped, Renamed, PasswordChanged, Written, Quiet, history
<1>4. call[s].at \in {"ok", "refused", "failed"}
  BY DEF Passes, Forget, Refused, Bootstrapped, Renamed, PasswordChanged, Written, Landed, At
<1>5. call[s].by # Nobody => call[s].by \in Tabs /\ page[call[s].by] \in PageType
  BY <1>0 DEF CallType, PagesOK
<1>6. PagesOK' /\ \A t \in Tabs : SamePage(t)
  <2>1. CASE page' = page
    BY <1>0, <2>1, PagesStay
  <2>2. CASE Refused(s)
    <3> DEFINE t == call[s].by
               b == page[t].busy \ {call[s].op}
    <3>0. t \in Tabs /\ page[t] \in PageType
      BY <1>5, <2>2 DEF Refused
    <3>1. page' = [page EXCEPT ![t] = WithBusy(page[t], b)]
      BY <2>2 DEF Refused, WithBusy
    <3>2. b \in SUBSET Lists
      BY <3>0 DEF PageType, PageFields
    <3> HIDE DEF b, t
    <3>3. WithBusy(page[t], b) \in PageType /\ Same(WithBusy(page[t], b), page[t])
      BY <3>0, <3>2, BusyIs
    <3> QED
      BY <1>0, <3>0, <3>1, <3>3, OnePage
  <2>3. CASE Bootstrapped(s)
    <3> DEFINE t == call[s].by
    <3>0. t \in Tabs /\ page[t] \in PageType
      BY <1>5, <2>3 DEF Bootstrapped
    <3>1. page' = [page EXCEPT ![t] = WithStart(page[t], TRUE)]
      BY <2>3 DEF Bootstrapped, WithStart
    <3> HIDE DEF t
    <3>3. WithStart(page[t], TRUE) \in PageType /\ Same(WithStart(page[t], TRUE), page[t])
      BY <3>0, StartIs
    <3> QED
      BY <1>0, <3>0, <3>1, <3>3, OnePage
  <2>4. CASE Renamed(s)
    <3> DEFINE t == call[s].by
    <3>0. t \in Tabs /\ page[t] \in PageType
      BY <1>5, <2>4 DEF Renamed
    <3>1. page' = [page EXCEPT ![t] = WithLeaving(page[t], TRUE)]
      BY <2>4 DEF Renamed, WithLeaving
    <3> HIDE DEF t
    <3>3. WithLeaving(page[t], TRUE) \in PageType /\ Same(WithLeaving(page[t], TRUE), page[t])
      BY <3>0, LeavingIs
    <3> QED
      BY <1>0, <3>0, <3>1, <3>3, OnePage
  <2> QED
    BY <2>1, <2>2, <2>3, <2>4 DEF Passes, Forget, PasswordChanged, Written
<1>7. call[s].by # Nobody /\ call[s].op \in Acts \cup Lists => call[s].at \in {"refused", "failed"}
  BY DEF Passes, Forget, Refused, Bootstrapped, Renamed, PasswordChanged, Written, Landed, At, Acts, Lists
<1>8. \/ UNCHANGED <<told, unsure>> /\ ~(call[s].op = "password" /\ call[s].at = "ok")
      \/ /\ call[s].op = "password" /\ call[s].at = "ok"
         /\ told' = told /\ unsure' = unsure \cup {call[s].who}
      \/ /\ call[s].op = "password" /\ call[s].at = "ok"
         /\ told' = [told EXCEPT ![call[s].who] = call[s].new] /\ unsure' = unsure
  <2>1. CASE Forget(s)
    BY <2>1 DEF Forget
  <2>2. CASE PasswordChanged(s)
    BY <2>2 DEF PasswordChanged, At
  <2>3. CASE Refused(s) \/ Bootstrapped(s) \/ Renamed(s) \/ Written(s)
    BY <2>3 DEF Refused, Bootstrapped, Renamed, Written, At, Quiet, history
  <2> QED
    BY <2>1, <2>2, <2>3 DEF Passes
<1>9. HistoryOK'
  <2>1. call[s].who \in Uuids \cup {None}
    BY <1>0 DEF CallType
  <2>2. call[s].op = "password" => call[s].new \in Passwords
    BY <1>0 DEF RequestOK
  <2>3. told' \in [Uuids -> Passwords \cup {None}]
    BY <1>0, <1>8, <2>2 DEF HistoryOK
  <2>4. unsure' \subseteq Uuids \cup {None}
    BY <1>0, <1>8, <2>1 DEF HistoryOK
  <2> QED
    BY <1>0, <1>3, <2>3, <2>4 DEF HistoryOK
<1> QED
  BY <1>2, <1>3, <1>4, <1>6, <1>7, <1>8, <1>9

LEMMA LoggedInIs ==
    ASSUME ShapeInv, NEW s \in Slots, LoggedIn(s)
    PROVE  /\ PagesOK' /\ CallsOK' /\ RequestsOK' /\ HistoryOK' /\ UNCHANGED <<tables, history>>
           /\ call[s].op = "login" /\ call[s].at = "ok" /\ call[s].by \in Tabs /\ call[s].u \in Uuids
           /\ page'[call[s].by].me = call[s].u /\ page'[call[s].by].list = {}
           /\ page'[call[s].by].behind
           /\ \A v \in Tabs : v # call[s].by => SamePage(v)
           /\ call'[s] = NoCall /\ \A r \in Slots : r # s => Left(call[s].by, r)
<1> DEFINE t == call[s].by
           u == call[s].u
           p == Launchpad(u)
<1>0. /\ TablesOK /\ PagesOK /\ CallsOK /\ RequestsOK /\ HistoryOK
      /\ call[s] \in CallType /\ RequestOK(call[s])
  BY DEF ShapeInv, CallsOK, RequestsOK
<1>1. call[s].op = "login" /\ call[s].at = "ok" /\ t # Nobody
  BY DEF LoggedIn, At
<1>2. t \in Tabs /\ u \in Uuids
  BY <1>0, <1>1 DEF CallType, RequestOK
<1>3. page[t].leaving \in BOOLEAN
  BY <1>0, <1>2 DEF PagesOK, PageType, PageFields
<1>4. /\ page' = [page EXCEPT ![t] = WithLeaving(p, page[t].leaving)]
      /\ call' = [r \in Slots |-> IF r = s THEN NoCall
                     ELSE IF call[r].by = t THEN [call[r] EXCEPT !.by = Nobody] ELSE call[r]]
  BY DEF LoggedIn, WithLeaving
<1>5. p \in PageType /\ p.me = u /\ p.list = {} /\ p.behind
  BY <1>2, MountedIs DEF Launchpad
<1>6. UNCHANGED <<tables, history>> /\ HistoryOK'
  BY <1>0, HistoryStays DEF LoggedIn, Quiet
<1> HIDE DEF t, u, p
<1>7. WithLeaving(p, page[t].leaving) \in PageType /\ Same(WithLeaving(p, page[t].leaving), p)
  BY <1>3, <1>5, LeavingIs
<1>8. /\ PagesOK' /\ page'[t] = WithLeaving(p, page[t].leaving)
      /\ \A v \in Tabs : v # t => page'[v] = page[v]
  BY <1>0, <1>2, <1>4, <1>7, PageIs
<1>9. \A r \in Slots : r # s => call'[r] \in CallType /\ RequestOK(call'[r]) /\ Left(t, r)
  <2> SUFFICES ASSUME NEW r \in Slots, r # s
               PROVE  call'[r] \in CallType /\ RequestOK(call'[r]) /\ Left(t, r)
    OBVIOUS
  <2>1. call'[r] = IF call[r].by = t THEN [call[r] EXCEPT !.by = Nobody] ELSE call[r]
    BY <1>4
  <2> QED
    BY <1>0, <1>2, <2>1, LeftIs
<1>10. call'[s] = NoCall
  BY <1>4
<1>11. CallsOK' /\ RequestsOK'
  <2>1. \A r \in Slots : call'[r] \in CallType /\ RequestOK(call'[r])
    BY <1>9, <1>10, NoCallIs
  <2>2. call' \in [Slots -> CallType]
    BY <1>4, <2>1
  <2> QED
    BY <2>1, <2>2 DEF CallsOK, RequestsOK
<1>12. page'[t].me = u /\ page'[t].list = {} /\ page'[t].behind
  BY <1>5, <1>7, <1>8 DEF Same
<1>13. \A v \in Tabs : v # t => SamePage(v)
  BY <1>8 DEF SamePage, Same
<1> QED
  BY <1>1, <1>2, <1>6, <1>8, <1>9, <1>10, <1>11, <1>12, <1>13 DEF t, u

LEMMA ActDoneIs ==
    ASSUME ShapeInv, NEW s \in Slots, ActDone(s)
    PROVE  /\ PagesOK' /\ CallsOK' /\ RequestsOK' /\ HistoryOK' /\ UNCHANGED <<tables, history>>
           /\ call[s].op \in Acts /\ call[s].at = "ok" /\ call[s].by \in Tabs
           /\ Sends(call[s].by, s) /\ call'[s].op = "initial" /\ Asked(call[s].by)
           /\ \A v \in Tabs : v # call[s].by => SamePage(v)
<1> DEFINE t == call[s].by
<1>0. PagesOK /\ CallsOK /\ RequestsOK /\ HistoryOK /\ call[s] \in CallType
  BY DEF ShapeInv, CallsOK
<1>1. call[s].op \in Acts /\ call[s].at = "ok" /\ t \in Tabs
  BY <1>0 DEF ActDone, CallType
<1>2. page' = [page EXCEPT ![t] = Asks(t, "initial")] /\ Send(s, Request("initial", t))
  BY DEF ActDone
<1>3. UNCHANGED <<tables, history>> /\ HistoryOK'
  BY <1>0, HistoryStays DEF ActDone, Quiet
<1> HIDE DEF t
<1>4. Fresh(t, Request("initial", t)) /\ Request("initial", t).op = "initial"
  BY <1>0, <1>1, FreshIs DEF Ops, Lists
<1>5. CallsOK' /\ RequestsOK' /\ Sends(t, s) /\ call'[s] = Request("initial", t)
  BY <1>0, <1>1, <1>2, <1>4, SendsIs
<1>6. /\ Asks(t, "initial") \in PageType
      /\ Asks(t, "initial").view = page[t].view /\ Asks(t, "initial").me = page[t].me
      /\ Asks(t, "initial").list = page[t].list /\ ~Asks(t, "initial").behind
      /\ Asks(t, "initial").crossed <=> page[t].crossed \/ Mine(t, Lists) # {}
  BY <1>0, <1>1, AsksIs DEF Lists
<1>7. /\ PagesOK' /\ page'[t] = Asks(t, "initial")
      /\ \A v \in Tabs : v # t => page'[v] = page[v]
  BY <1>0, <1>1, <1>2, <1>6, PageIs
<1>8. Asked(t) /\ \A v \in Tabs : v # t => SamePage(v)
  BY <1>6, <1>7 DEF Asked, SamePage, Same
<1> QED
  BY <1>1, <1>3, <1>4, <1>5, <1>7, <1>8 DEF t

LEMMA ListArrivesIs ==
    ASSUME ShapeInv, NEW s \in Slots, ListArrives(s)
    PROVE  /\ PagesOK' /\ HistoryOK' /\ UNCHANGED <<tables, history>>
           /\ call[s].op \in Lists /\ call[s].at = "ok" /\ call[s].by \in Tabs /\ Ends(s)
           /\ page'[call[s].by].view = page[call[s].by].view
           /\ page'[call[s].by].me = page[call[s].by].me
           /\ page'[call[s].by].list = call[s].list
           /\ page'[call[s].by].behind <=> page[call[s].by].behind
           /\ page'[call[s].by].crossed <=> page[call[s].by].crossed
           /\ \A v \in Tabs : v # call[s].by => SamePage(v)
<1> DEFINE t == call[s].by
           b == page[t].busy \ {call[s].op}
           rows == call[s].list
<1>0. PagesOK /\ CallsOK /\ RequestsOK /\ HistoryOK /\ call[s] \in CallType
  BY DEF ShapeInv, CallsOK
<1>1. call[s].op \in Lists /\ call[s].at = "ok" /\ t \in Tabs /\ rows \in SUBSET ListedRow
  BY <1>0 DEF ListArrives, CallType
<1>2. page' = [page EXCEPT ![t] = WithList(page[t], rows, b)] /\ Send(s, NoCall)
  BY DEF ListArrives, WithList
<1>3. UNCHANGED <<tables, history>> /\ HistoryOK'
  BY <1>0, HistoryStays DEF ListArrives, Quiet
<1>4. page[t] \in PageType /\ b \in SUBSET Lists
  BY <1>0, <1>1 DEF PagesOK, PageType, PageFields
<1> HIDE DEF t, b, rows
<1>5. /\ WithList(page[t], rows, b) \in PageType
      /\ WithList(page[t], rows, b).view = page[t].view /\ WithList(page[t], rows, b).me = page[t].me
      /\ WithList(page[t], rows, b).list = rows
      /\ WithList(page[t], rows, b).behind <=> page[t].behind
      /\ WithList(page[t], rows, b).crossed <=> page[t].crossed
  BY <1>1, <1>4, ListFieldsAre
<1>6. /\ PagesOK' /\ page'[t] = WithList(page[t], rows, b)
      /\ \A v \in Tabs : v # t => page'[v] = page[v]
  BY <1>0, <1>1, <1>2, <1>5, PageIs
<1>7. \A v \in Tabs : v # t => SamePage(v)
  BY <1>6 DEF SamePage, Same
<1>8. Ends(s)
  BY <1>0, <1>2, EndsIs
<1> QED
  BY <1>1, <1>3, <1>5, <1>6, <1>7, <1>8 DEF t, rows

-----------------------------------------------------------------------------
(* The steps, by what they do.                                             *)

Writes(s) ==
    \/ CreateUserWithRole(s) \/ SetUserDisabled(s) \/ SoftDeleteUser(s) \/ CleanupUserData(s)
    \/ RecordAudit(s) \/ ChangeUserPassword(s) \/ ChangeUsername(s) \/ WriteRow(s)

Step ==
    \/ \E t \in Tabs : QuietPage(t) \/ Leaves(t) \/ \E s \in Free : Requests(t, s)
    \/ \E s \in Slots : Looks(s) \/ Writes(s) \/ Fail(s) \/ Passes(s) \/ LoggedIn(s)
                        \/ ActDone(s) \/ ListArrives(s)

LEMMA NextIsStep == Next => Step
<1>1. ASSUME NEW t \in Tabs, UserActs(t)
      PROVE  QuietPage(t) \/ Leaves(t) \/ \E s \in Free : Requests(t, s)
  BY <1>1 DEF UserActs, QuietPage, Leaves, Requests
<1>2. ASSUME NEW t \in Tabs, Page(t)
      PROVE  QuietPage(t) \/ Leaves(t)
  BY <1>2 DEF Page, QuietPage, Leaves
<1>3. ASSUME NEW s \in Slots, Server(s)
      PROVE  Looks(s) \/ Writes(s)
  BY <1>3 DEF Server, Looks, Writes
<1>4. ASSUME NEW s \in Slots, Answers(s)
      PROVE  Passes(s) \/ LoggedIn(s) \/ ActDone(s) \/ ListArrives(s)
  BY <1>4 DEF Answers, Passes
<1> QED
  BY <1>1, <1>2, <1>3, <1>4 DEF Next, Step

LEMMA ShapeStep ==
    ASSUME ShapeInv, KnownInv, Step
    PROVE  ShapeInv'
<1>0. TablesOK /\ CallsOK /\ RequestsOK
  BY DEF ShapeInv
<1>1. ASSUME NEW t \in Tabs, QuietPage(t) PROVE ShapeInv'
  <2>1. PagesOK' /\ call' = call /\ UNCHANGED <<tables, history>>
    BY <1>1, QuietPageIs
  <2> QED
    BY <1>0, <2>1, CallsStay, TablesStay, HistoryStays DEF ShapeInv
<1>2. ASSUME NEW t \in Tabs, Leaves(t) PROVE ShapeInv'
  <2>1. PagesOK' /\ CallsOK' /\ RequestsOK' /\ UNCHANGED <<tables, history>>
    BY <1>2, LeavesIs
  <2> QED
    BY <1>0, <2>1, TablesStay, HistoryStays DEF ShapeInv
<1>3. ASSUME NEW t \in Tabs, NEW s \in Free, Requests(t, s) PROVE ShapeInv'
  <2>1. RequestedBy(t, s)
    BY <1>3, RequestsIs
  <2> QED
    BY <1>0, <2>1, TablesStay DEF ShapeInv, RequestedBy
<1>4. ASSUME NEW s \in Slots, Looks(s) PROVE ShapeInv'
  <2>1. LookedUp(s) /\ PagesOK' /\ HistoryOK' /\ UNCHANGED tables
    BY <1>4, LooksIs
  <2> QED
    BY <1>0, <2>1, TablesStay DEF ShapeInv, LookedUp
<1>5. ASSUME NEW s \in Slots, Writes(s) PROVE ShapeInv'
  <2>1. CASE CreateUserWithRole(s)
    BY <2>1, CreateUserWithRoleIs DEF ShapeInv
  <2>2. CASE SetUserDisabled(s)
    BY <2>2, SetUserDisabledIs DEF ShapeInv, GoesOn
  <2>3. CASE SoftDeleteUser(s)
    BY <2>3, SoftDeleteUserIs DEF ShapeInv, GoesOn
  <2>4. CASE CleanupUserData(s)
    BY <2>4, CleanupUserDataIs DEF ShapeInv, GoesOn
  <2>5. CASE RecordAudit(s)
    BY <2>5, RecordAuditIs DEF ShapeInv, GoesOn
  <2>6. CASE ChangeUserPassword(s)
    BY <2>6, ChangeUserPasswordIs DEF ShapeInv, GoesOn
  <2>7. CASE ChangeUsername(s)
    BY <2>7, ChangeUsernameIs DEF ShapeInv, GoesOn
  <2>8. CASE WriteRow(s)
    BY <2>8, WriteRowIs DEF ShapeInv, GoesOn
  <2> QED
    BY <1>5, <2>1, <2>2, <2>3, <2>4, <2>5, <2>6, <2>7, <2>8 DEF Writes
<1>6. ASSUME NEW s \in Slots, Fail(s) PROVE ShapeInv'
  <2>1. PagesOK' /\ HistoryOK' /\ UNCHANGED tables /\ GoesOn(s, "failed")
    BY <1>6, FailIs
  <2> QED
    BY <1>0, <2>1, TablesStay DEF ShapeInv, GoesOn
<1>7. ASSUME NEW s \in Slots, Passes(s) PROVE ShapeInv'
  <2>1. PagesOK' /\ HistoryOK' /\ UNCHANGED tables /\ Ends(s)
    BY <1>7, PassesIs
  <2> QED
    BY <1>0, <2>1, TablesStay DEF ShapeInv, Ends
<1>8. ASSUME NEW s \in Slots, LoggedIn(s) PROVE ShapeInv'
  BY <1>0, <1>8, LoggedInIs, TablesStay DEF ShapeInv
<1>9. ASSUME NEW s \in Slots, ActDone(s) PROVE ShapeInv'
  BY <1>0, <1>9, ActDoneIs, TablesStay DEF ShapeInv
<1>10. ASSUME NEW s \in Slots, ListArrives(s) PROVE ShapeInv'
  BY <1>0, <1>10, ListArrivesIs, TablesStay DEF ShapeInv, Ends
<1> QED
  BY <1>1, <1>2, <1>3, <1>4, <1>5, <1>6, <1>7, <1>8, <1>9, <1>10 DEF Step

-----------------------------------------------------------------------------
(* The work in hand is left alone by everything but the server's writes.   *)

Doing == {"insert", "set", "clean", "audit", "update"}
StillDoing == \A s \in Slots : call[s].at \in Doing \/ call'[s].at \in Doing => SameWork(s)

Steady ==
    /\ UNCHANGED <<tables, twice, late>> /\ failed \subseteq failed'
    /\ StillDoing

(* Everything but the server's statements and a failure.                   *)
Elsewhere ==
    \/ \E t \in Tabs : QuietPage(t) \/ Leaves(t) \/ \E s \in Free : Requests(t, s)
    \/ \E s \in Slots : Passes(s) \/ LoggedIn(s) \/ ActDone(s) \/ ListArrives(s)

LEMMA ElsewhereIsSteady ==
    ASSUME ShapeInv, Elsewhere
    PROVE  Steady
<1>0. CallsOK /\ RequestsOK
  BY DEF ShapeInv
<1>1. ASSUME NEW t \in Tabs, QuietPage(t) PROVE Steady
  BY <1>0, <1>1, QuietPageIs, CallsStay DEF Steady, StillDoing, history
<1>2. ASSUME NEW t \in Tabs, Leaves(t) PROVE Steady
  BY <1>0, <1>2, LeavesIs, CallsStay DEF Steady, StillDoing, history, Left
<1>3. ASSUME NEW t \in Tabs, NEW s \in Free, Requests(t, s) PROVE Steady
  <2>1. RequestedBy(t, s) /\ call[s] = NoCall
    BY <1>3, RequestsIs DEF Free
  <2> QED
    BY <2>1, NoCallIs DEF Steady, StillDoing, RequestedBy, Sends, Fresh, SameWork, Doing
<1>4. ASSUME NEW s \in Slots, Passes(s) PROVE Steady
  <2>1. Ends(s) /\ call[s].at \in {"ok", "refused", "failed"} /\ UNCHANGED <<tables, twice, late, failed>>
    BY <1>4, PassesIs
  <2> QED
    BY <2>1, NoCallIs DEF Steady, StillDoing, Ends, SameWork, Doing
<1>5. ASSUME NEW s \in Slots, LoggedIn(s) PROVE Steady
  BY <1>5, LoggedInIs, NoCallIs DEF Steady, StillDoing, Left, SameWork, Doing, history
<1>6. ASSUME NEW s \in Slots, ActDone(s) PROVE Steady
  BY <1>6, ActDoneIs DEF Steady, StillDoing, Sends, Fresh, SameWork, Doing, history
<1>7. ASSUME NEW s \in Slots, ListArrives(s) PROVE Steady
  BY <1>7, ListArrivesIs, NoCallIs DEF Steady, StillDoing, Ends, SameWork, Doing, history
<1> QED
  BY <1>1, <1>2, <1>3, <1>4, <1>5, <1>6, <1>7 DEF Elsewhere

-----------------------------------------------------------------------------
(* Whoever is met with exists or is gone.                                  *)

ShutByRight == \A u \in DOMAIN users : users[u].admin => ~users[u].disabled /\ ~users[u].deleted

(* Nobody is forgotten, and nobody becomes an administrator.               *)
KnownStay == Known \subseteq Known' /\ \A u \in Known : IsAdmin(u)' => IsAdmin(u)

PlainRows(rows) == \A r \in rows : Plain(r.u)

KnownPage(t) == page'[t].me \in Known \cup {None} /\ PlainRows(page'[t].list)
KnownCall(s) ==
    /\ call'[s].who \in Known \cup {None} /\ PlainRows(call'[s].list)
    /\ call'[s].op = "login" /\ call'[s].at = "ok" => call'[s].u \in Known
    /\ call'[s].at \in {"set", "clean"} => Plain(call'[s].u)

LEMMA KnownIs ==
    ASSUME KnownInv
    PROVE  /\ ShutByRight
           /\ \A t \in Tabs : page[t].me \in Known \cup {None} /\ PlainRows(page[t].list)
           /\ \A s \in Slots : call'[s] = call[s] => KnownCall(s)
           /\ \A s \in Slots : SameWork(s) => KnownCall(s)
           /\ \A t \in Tabs : page'[t].me = page[t].me /\ page'[t].list = page[t].list => KnownPage(t)
  BY DEF KnownInv, ShutByRight, PlainRows, KnownCall, KnownPage, SameWork

LEMMA KnownNext ==
    ASSUME KnownStay, ShutByRight', \A t \in Tabs : KnownPage(t), \A s \in Slots : KnownCall(s)
    PROVE  KnownInv'
<1>1. \A u : Plain(u) => Plain(u)'
  BY DEF KnownStay, Plain
<1>2. \A t \in Tabs : page'[t].me \in Known' \cup {None}
  BY DEF KnownPage, KnownStay
<1>3. \A t \in Tabs : \A r \in page'[t].list : Plain(r.u)'
  BY <1>1 DEF KnownPage, PlainRows
<1>4. \A s \in Slots : call'[s].who \in Known' \cup {None}
  BY DEF KnownCall, KnownStay
<1>5. \A s \in Slots : \A r \in call'[s].list : Plain(r.u)'
  BY <1>1 DEF KnownCall, PlainRows
<1>6. \A s \in Slots : call'[s].op = "login" /\ call'[s].at = "ok" => call'[s].u \in Known'
  BY DEF KnownCall, KnownStay
<1>7. \A s \in Slots : (call[s].at \in {"set", "clean"} => Plain(call[s].u))'
  BY <1>1 DEF KnownCall
<1> QED
  BY <1>2, <1>3, <1>4, <1>5, <1>6, <1>7 DEF KnownInv, ShutByRight

LEMMA UsersStay ==
    ASSUME KnownInv, UNCHANGED <<users, gone>>
    PROVE  KnownStay /\ ShutByRight'
  BY DEF KnownInv, ShutByRight, KnownStay, Known, IsAdmin

LEMMA RowsStay ==
    ASSUME KnownInv, SameRows, SameAdmins, gone' = gone,
           \A u \in DOMAIN users' : users'[u].admin => ~users'[u].disabled /\ ~users'[u].deleted
    PROVE  KnownStay /\ ShutByRight'
  BY DEF KnownInv, ShutByRight, KnownStay, Known, IsAdmin, SameRows, SameAdmins

LEMMA BehindsKnown ==
    ASSUME KnownInv, NEW n, Behinds(n)
    PROVE  \A t \in Tabs : KnownPage(t)
  BY KnownIs DEF Behinds

LEMMA SameKnown ==
    ASSUME KnownInv, \A t \in Tabs : SamePage(t)
    PROVE  \A t \in Tabs : KnownPage(t)
  BY KnownIs DEF SamePage, Same

(* A request that goes on to its audit, its answer or a failure.           *)
LEMMA GoesOnKnown ==
    ASSUME KnownInv, NEW s \in Slots, NEW at \in {"clean", "audit", "ok", "refused", "failed"},
           GoesOn(s, at), at = "ok" => call[s].op # "login", at = "clean" => Plain(call[s].u)
    PROVE  \A r \in Slots : KnownCall(r)
<1>1. KnownCall(s)
  BY DEF KnownInv, GoesOn, Carried, KnownCall, PlainRows
<1> QED
  BY <1>1, KnownIs DEF GoesOn, Carried

LEMMA KnownStep ==
    ASSUME ShapeInv, KnownInv, Step
    PROVE  KnownInv'
<1>0. TablesOK /\ CallsOK /\ RequestsOK /\ ShutByRight
  BY KnownIs DEF ShapeInv
<1>1. ASSUME NEW t \in Tabs, QuietPage(t) PROVE KnownInv'
  <2>1. (\A v \in Tabs : SamePage(v)) /\ call' = call /\ UNCHANGED <<users, gone>>
    BY <1>1, QuietPageIs DEF tables
  <2>2. \A s \in Slots : KnownCall(s)
    BY <2>1, KnownIs
  <2> QED
    BY <2>1, <2>2, SameKnown, UsersStay, KnownNext
<1>2. ASSUME NEW t \in Tabs, Leaves(t) PROVE KnownInv'
  <2>1. /\ UNCHANGED <<users, gone>>
        /\ page'[t].me \in {None, page[t].me} /\ page'[t].list \in {{}, page[t].list}
        /\ \A v \in Tabs : v # t => page'[v] = page[v]
        /\ (\A s \in Slots : Left(t, s)) \/ call' = call
    BY <1>2, LeavesIs DEF tables
  <2>2. KnownPage(t)
    BY <2>1, KnownIs DEF KnownPage, PlainRows
  <2>3. \A v \in Tabs : KnownPage(v)
    BY <2>1, <2>2, KnownIs
  <2>4. \A s \in Slots : KnownCall(s)
    BY <2>1, KnownIs DEF Left
  <2> QED
    BY <2>1, <2>3, <2>4, UsersStay, KnownNext
<1>3. ASSUME NEW t \in Tabs, NEW s \in Free, Requests(t, s) PROVE KnownInv'
  <2>1. RequestedBy(t, s) /\ s \in Slots
    BY <1>3, RequestsIs DEF Free
  <2>2. UNCHANGED <<users, gone>> /\ page'[t].me = page[t].me /\ page'[t].list = page[t].list
    BY <2>1 DEF RequestedBy, tables, Asked, SamePage, Same
  <2>3. \A v \in Tabs : v # t => page'[v].me = page[v].me /\ page'[v].list = page[v].list
    BY <2>1 DEF RequestedBy, SamePage, Same
  <2>4. \A v \in Tabs : KnownPage(v)
    BY <2>2, <2>3, KnownIs
  <2>5. KnownCall(s)
    BY <2>1, KnownIs DEF RequestedBy, Sends, Fresh, KnownCall, PlainRows
  <2>6. \A r \in Slots : KnownCall(r)
    BY <2>1, <2>5, KnownIs DEF RequestedBy, Sends
  <2> QED
    BY <2>2, <2>4, <2>6, UsersStay, KnownNext
<1>4. ASSUME NEW s \in Slots, Looks(s) PROVE KnownInv'
  <2>1. LookedUp(s) /\ (\A t \in Tabs : SamePage(t)) /\ UNCHANGED <<users, gone>>
    BY <1>4, LooksIs DEF tables
  <2>2. PlainRows(Listed(users))
    BY <1>0 DEF PlainRows, Listed, Plain, Known, IsAdmin
  <2>3. PlainRows(call'[s].list)
    BY <2>1, <2>2, KnownIs DEF LookedUp, KnownInv, PlainRows
  <2>4. call'[s].who \in Known \cup {None}
    BY <2>1 DEF LookedUp, Carried, KnownInv
  <2>5. KnownCall(s)
    BY <2>1, <2>3, <2>4 DEF LookedUp, KnownCall, Plain, Known
  <2>6. \A r \in Slots : KnownCall(r)
    BY <2>1, <2>5, KnownIs DEF LookedUp, Carried
  <2> QED
    BY <2>1, <2>6, SameKnown, UsersStay, KnownNext
<1>5. ASSUME NEW s \in Slots, CreateUserWithRole(s) PROVE KnownInv'
  <2>1. /\ gone' = gone /\ call[s].op \in {"create", "bootstrap"}
        /\ \/ GoesOn(s, "failed") /\ users' = users /\ (\A t \in Tabs : SamePage(t))
           \/ \E u \in Unused : Created(s, u)
    BY <1>5, CreateUserWithRoleIs
  <2>2. CASE GoesOn(s, "failed") /\ users' = users /\ (\A t \in Tabs : SamePage(t))
    <3>1. \A r \in Slots : KnownCall(r)
      BY <2>2, GoesOnKnown
    <3> QED
      BY <2>1, <2>2, <3>1, SameKnown, UsersStay, KnownNext
  <2>3. ASSUME NEW u \in Unused, Created(s, u) PROVE KnownInv'
    <3>1. u \notin Known
      BY DEF Unused, Known
    <3>2. /\ DOMAIN users' = DOMAIN users \cup {u} /\ \A v \in DOMAIN users : users'[v] = users[v]
          /\ ~users'[u].disabled /\ ~users'[u].deleted
      BY <2>3 DEF Created
    <3>3. KnownStay
      BY <2>1, <3>1, <3>2 DEF KnownStay, Known, IsAdmin
    <3>4. ShutByRight'
      BY <1>0, <3>2 DEF ShutByRight
    <3>5. \A t \in Tabs : KnownPage(t)
      BY <2>3, BehindsKnown DEF Created
    <3>6. KnownCall(s)
      BY <2>1, <2>3 DEF Created, Carried, KnownInv, KnownCall, PlainRows
    <3>7. \A r \in Slots : KnownCall(r)
      BY <2>3, <3>6, KnownIs DEF Created, Carried
    <3> QED
      BY <3>3, <3>4, <3>5, <3>7, KnownNext
  <2> QED
    BY <2>1, <2>2, <2>3
<1>6. ASSUME NEW s \in Slots, SetUserDisabled(s) PROVE KnownInv'
  <2>1. /\ GoesOn(s, "audit") /\ Behinds(call[s].by) /\ SameRows /\ SameAdmins /\ SameEnded
        /\ gone' = gone /\ call[s].at = "set"
        /\ \A v \in DOMAIN users :
              users'[v].disabled <=> IF v = call[s].u THEN call[s].op = "disable" ELSE users[v].disabled
    BY <1>6, SetUserDisabledIs
  <2>2. ~IsAdmin(call[s].u)
    BY <2>1 DEF KnownInv, Plain
  <2>3. \A u \in DOMAIN users' : users'[u].admin => ~users'[u].disabled /\ ~users'[u].deleted
    BY <1>0, <2>1, <2>2 DEF ShutByRight, SameRows, SameAdmins, SameEnded, IsAdmin
  <2>4. \A r \in Slots : KnownCall(r)
    BY <2>1, GoesOnKnown
  <2> QED
    BY <2>1, <2>3, <2>4, RowsStay, BehindsKnown, KnownNext
<1>7. ASSUME NEW s \in Slots, SoftDeleteUser(s) PROVE KnownInv'
  <2>1. /\ GoesOn(s, "clean") /\ Behinds(call[s].by) /\ SameRows /\ SameAdmins
        /\ gone' = gone /\ call[s].at = "set"
        /\ \A v \in DOMAIN users :
                 /\ users'[v].disabled <=> users[v].disabled \/ v = call[s].u
                 /\ users'[v].deleted <=> users[v].deleted \/ v = call[s].u
    BY <1>7, SoftDeleteUserIs
  <2>2. Plain(call[s].u)
    BY <2>1 DEF KnownInv
  <2>3. \A u \in DOMAIN users' : users'[u].admin => ~users'[u].disabled /\ ~users'[u].deleted
    BY <1>0, <2>1, <2>2 DEF ShutByRight, SameRows, SameAdmins, IsAdmin, Plain
  <2>4. \A r \in Slots : KnownCall(r)
    BY <2>1, <2>2, GoesOnKnown
  <2> QED
    BY <2>1, <2>3, <2>4, RowsStay, BehindsKnown, KnownNext
<1>8. ASSUME NEW s \in Slots, CleanupUserData(s) PROVE KnownInv'
  <2>1. /\ \/ GoesOn(s, "refused") /\ UNCHANGED tables /\ (\A t \in Tabs : SamePage(t))
           \/ GoesOn(s, "audit") /\ UNCHANGED <<users, gone>> /\ \A t \in Tabs : SamePage(t)
           \/ /\ GoesOn(s, "audit") /\ call[s].u \in DOMAIN users
              /\ DOMAIN users' = DOMAIN users \ {call[s].u} /\ gone' = gone \cup {call[s].u}
              /\ (\A v \in DOMAIN users' : users'[v] = users[v]) /\ Behinds(call[s].by)
    BY <1>8, CleanupUserDataIs
  <2>2. \A r \in Slots : KnownCall(r)
    BY <2>1, GoesOnKnown
  <2>3. CASE UNCHANGED <<users, gone>> /\ \A t \in Tabs : SamePage(t)
    BY <2>2, <2>3, SameKnown, UsersStay, KnownNext
  <2>4. CASE /\ call[s].u \in DOMAIN users
             /\ DOMAIN users' = DOMAIN users \ {call[s].u} /\ gone' = gone \cup {call[s].u}
             /\ (\A v \in DOMAIN users' : users'[v] = users[v]) /\ Behinds(call[s].by)
    <3>1. KnownStay /\ ShutByRight'
      BY <1>0, <2>4 DEF KnownStay, ShutByRight, Known, IsAdmin
    <3> QED
      BY <2>2, <2>4, <3>1, BehindsKnown, KnownNext
  <2> QED
    BY <2>1, <2>3, <2>4 DEF tables
<1>9. ASSUME NEW s \in Slots, RecordAudit(s) PROVE KnownInv'
  <2>1. UNCHANGED <<users, gone>> /\ call[s].op \in Acts /\ GoesOn(s, "ok") /\ (\A t \in Tabs : SamePage(t))
    BY <1>9, RecordAuditIs
  <2>2. \A r \in Slots : KnownCall(r)
    BY <2>1, GoesOnKnown DEF Acts
  <2> QED
    BY <2>1, <2>2, SameKnown, UsersStay, KnownNext
<1>10. ASSUME NEW s \in Slots, ChangeUserPassword(s) PROVE KnownInv'
  <2>1. /\ GoesOn(s, "ok") /\ call[s].op = "password" /\ SameRows /\ SameAdmins /\ SameShut /\ SameEnded
        /\ gone' = gone /\ (\A t \in Tabs : SamePage(t))
    BY <1>10, ChangeUserPasswordIs
  <2>2. \A u \in DOMAIN users' : users'[u].admin => ~users'[u].disabled /\ ~users'[u].deleted
    BY <1>0, <2>1 DEF ShutByRight, SameRows, SameAdmins, SameShut, SameEnded
  <2>3. \A r \in Slots : KnownCall(r)
    BY <2>1, GoesOnKnown
  <2> QED
    BY <2>1, <2>2, <2>3, RowsStay, SameKnown, KnownNext
<1>11. ASSUME NEW s \in Slots, ChangeUsername(s) PROVE KnownInv'
  <2>1. /\ call[s].op = "rename" /\ SameRows /\ SameAdmins /\ SameShut /\ SameEnded /\ gone' = gone
        /\ GoesOn(s, "failed") \/ GoesOn(s, "ok")
        /\ (\A t \in Tabs : SamePage(t)) \/ Behinds(Nobody)
    BY <1>11, ChangeUsernameIs
  <2>2. \A u \in DOMAIN users' : users'[u].admin => ~users'[u].disabled /\ ~users'[u].deleted
    BY <1>0, <2>1 DEF ShutByRight, SameRows, SameAdmins, SameShut, SameEnded
  <2>3. \A r \in Slots : KnownCall(r)
    BY <2>1, GoesOnKnown
  <2>4. \A t \in Tabs : KnownPage(t)
    BY <2>1, SameKnown, BehindsKnown
  <2> QED
    BY <2>1, <2>2, <2>3, <2>4, RowsStay, KnownNext
<1>12. ASSUME NEW s \in Slots, WriteRow(s) PROVE KnownInv'
  <2>1. /\ UNCHANGED <<users, gone>> /\ call[s].op = "write" /\ (\A t \in Tabs : SamePage(t))
        /\ GoesOn(s, "failed") \/ GoesOn(s, "ok")
    BY <1>12, WriteRowIs
  <2>2. \A r \in Slots : KnownCall(r)
    BY <2>1, GoesOnKnown
  <2> QED
    BY <2>1, <2>2, SameKnown, UsersStay, KnownNext
<1>13. ASSUME NEW s \in Slots, Fail(s) PROVE KnownInv'
  <2>1. UNCHANGED <<users, gone>> /\ GoesOn(s, "failed")
    BY <1>13, FailIs DEF tables
  <2>2. \A t \in Tabs : KnownPage(t)
    BY <1>13, FailIs, KnownIs
  <2>3. \A r \in Slots : KnownCall(r)
    BY <2>1, GoesOnKnown
  <2> QED
    BY <2>1, <2>2, <2>3, UsersStay, KnownNext
<1>14. ASSUME NEW s \in Slots, Passes(s) PROVE KnownInv'
  <2>1. Ends(s) /\ (\A t \in Tabs : SamePage(t)) /\ UNCHANGED <<users, gone>>
    BY <1>14, PassesIs DEF tables
  <2>2. KnownCall(s)
    BY <2>1, NoCallIs DEF Ends, KnownCall, PlainRows
  <2>3. \A r \in Slots : KnownCall(r)
    BY <2>1, <2>2, KnownIs DEF Ends
  <2> QED
    BY <2>1, <2>3, SameKnown, UsersStay, KnownNext
<1>15. ASSUME NEW s \in Slots, LoggedIn(s) PROVE KnownInv'
  <2> DEFINE t == call[s].by
  <2>1. /\ UNCHANGED <<users, gone>> /\ call[s].op = "login" /\ call[s].at = "ok" /\ t \in Tabs
        /\ page'[t].me = call[s].u /\ page'[t].list = {}
        /\ \A v \in Tabs : v # t => SamePage(v)
        /\ call'[s] = NoCall /\ \A r \in Slots : r # s => Left(t, r)
    BY <1>15, LoggedInIs DEF tables
  <2> HIDE DEF t
  <2>2. call[s].u \in Known
    BY <2>1 DEF KnownInv
  <2>3. \A v \in Tabs : KnownPage(v)
    <3>1. KnownPage(t)
      BY <2>1, <2>2 DEF KnownPage, PlainRows
    <3> QED
      BY <2>1, <3>1, KnownIs DEF SamePage, Same
  <2>4. KnownCall(s)
    BY <2>1, NoCallIs DEF KnownCall, PlainRows
  <2>5. \A r \in Slots : KnownCall(r)
    BY <2>1, <2>4, KnownIs DEF Left
  <2> QED
    BY <2>1, <2>3, <2>5, UsersStay, KnownNext
<1>16. ASSUME NEW s \in Slots, ActDone(s) PROVE KnownInv'
  <2> DEFINE t == call[s].by
  <2>1. /\ UNCHANGED <<users, gone>> /\ Sends(t, s) /\ t \in Tabs /\ Asked(t)
        /\ \A v \in Tabs : v # t => SamePage(v)
    BY <1>16, ActDoneIs DEF tables
  <2> HIDE DEF t
  <2>2. \A v \in Tabs : KnownPage(v)
    BY <2>1, KnownIs DEF SamePage, Same, Asked
  <2>3. KnownCall(s)
    BY <2>1, KnownIs DEF Sends, Fresh, KnownCall, PlainRows
  <2>4. \A r \in Slots : KnownCall(r)
    BY <2>1, <2>3, KnownIs DEF Sends
  <2> QED
    BY <2>1, <2>2, <2>4, UsersStay, KnownNext
<1>17. ASSUME NEW s \in Slots, ListArrives(s) PROVE KnownInv'
  <2> DEFINE t == call[s].by
  <2>1. /\ UNCHANGED <<users, gone>> /\ t \in Tabs /\ Ends(s)
        /\ page'[t].me = page[t].me /\ page'[t].list = call[s].list
        /\ \A v \in Tabs : v # t => SamePage(v)
    BY <1>17, ListArrivesIs DEF tables
  <2> HIDE DEF t
  <2>2. KnownPage(t)
    BY <2>1, KnownIs DEF KnownPage, KnownInv, PlainRows
  <2>3. \A v \in Tabs : KnownPage(v)
    BY <2>1, <2>2, KnownIs DEF SamePage, Same
  <2>4. KnownCall(s)
    BY <2>1, NoCallIs DEF Ends, KnownCall, PlainRows
  <2>5. \A r \in Slots : KnownCall(r)
    BY <2>1, <2>4, KnownIs DEF Ends
  <2> QED
    BY <2>1, <2>3, <2>5, UsersStay, KnownNext
<1> QED
  BY <1>1, <1>2, <1>3, <1>4, <1>5, <1>6, <1>7, <1>8, <1>9, <1>10, <1>11, <1>12, <1>13, <1>14,
     <1>15, <1>16, <1>17 DEF Step, Writes

-----------------------------------------------------------------------------
(* Names.                                                                  *)

LEMMA UniqueStep ==
    ASSUME ShapeInv, KnownInv, UniqueInv, Step
    PROVE  UniqueInv'
<1>1. ASSUME users' = users PROVE UniqueInv'
  BY <1>1 DEF UniqueInv, NamesAreUnique
<1>2. ASSUME SameRows, SameNames PROVE UniqueInv'
  BY <1>2 DEF UniqueInv, NamesAreUnique, SameRows, SameNames
<1>3. CASE Elsewhere
  BY <1>1, <1>3, ElsewhereIsSteady DEF Steady, tables
<1>4. ASSUME NEW s \in Slots, Looks(s) PROVE UniqueInv'
  BY <1>1, <1>4, LooksIs DEF tables
<1>5. ASSUME NEW s \in Slots, Fail(s) PROVE UniqueInv'
  BY <1>1, <1>5, FailIs DEF tables
<1>6. ASSUME NEW s \in Slots, CreateUserWithRole(s) PROVE UniqueInv'
  <2>1. users' = users \/ \E u \in Unused : Created(s, u)
    BY <1>6, CreateUserWithRoleIs
  <2>2. ASSUME NEW u \in Unused, Created(s, u) PROVE UniqueInv'
    <3>1. /\ DOMAIN users' = DOMAIN users \cup {u} /\ users'[u].name = call[s].name
          /\ \A v \in DOMAIN users : users'[v] = users[v] /\ users[v].name # call[s].name
      BY <2>2 DEF Created
    <3> QED
      BY <3>1 DEF UniqueInv, NamesAreUnique
  <2> QED
    BY <1>1, <2>1, <2>2
<1>7. ASSUME NEW s \in Slots, SetUserDisabled(s) \/ SoftDeleteUser(s) \/ ChangeUserPassword(s)
      PROVE  UniqueInv'
  BY <1>2, <1>7, SetUserDisabledIs, SoftDeleteUserIs, ChangeUserPasswordIs
<1>8. ASSUME NEW s \in Slots, CleanupUserData(s) PROVE UniqueInv'
  <2>1. \/ users' = users
        \/ DOMAIN users' = DOMAIN users \ {call[s].u} /\ \A v \in DOMAIN users' : users'[v] = users[v]
    BY <1>8, CleanupUserDataIs DEF tables
  <2> QED
    BY <1>1, <2>1 DEF UniqueInv, NamesAreUnique
<1>9. ASSUME NEW s \in Slots, ChangeUsername(s) PROVE UniqueInv'
  <2>1. /\ SameRows
        /\ \/ SameNames
           \/ /\ call[s].who \in DOMAIN users => \A v \in DOMAIN users : users[v].name # call[s].name
              /\ \A v \in DOMAIN users :
                    users'[v].name = IF v = call[s].who THEN call[s].name ELSE users[v].name
    BY <1>9, ChangeUsernameIs
  <2> QED
    BY <1>2, <2>1 DEF UniqueInv, NamesAreUnique, SameRows
<1>10. ASSUME NEW s \in Slots, RecordAudit(s) \/ WriteRow(s) PROVE UniqueInv'
  BY <1>1, <1>10, RecordAuditIs, WriteRowIs
<1> QED
  BY <1>3, <1>4, <1>5, <1>6, <1>7, <1>8, <1>9, <1>10 DEF Step, Elsewhere, Writes

-----------------------------------------------------------------------------
(* The administrator.                                                      *)

(* Nobody becomes an administrator and nobody is about to.                 *)
NoNewAdmin ==
    /\ \A u \in DOMAIN users' : users'[u].admin => u \in DOMAIN users /\ users[u].admin
    /\ \A s \in Slots : At(s, "bootstrap", "insert")' => At(s, "bootstrap", "insert")
    /\ twice => twice'

LEMMA NoNewAdminKeeps ==
    ASSUME AdminInv, NoNewAdmin
    PROVE  AdminInv'
<1> SUFFICES ASSUME ~twice'
             PROVE  /\ \A u, v \in DOMAIN users' : users'[u].admin /\ users'[v].admin => u = v
                    /\ \A s, r \in Slots :
                          At(s, "bootstrap", "insert")' =>
                             /\ \A u \in DOMAIN users' : ~users'[u].admin
                             /\ At(r, "bootstrap", "insert")' => r = s
  BY DEF AdminInv
<1>1. ~twice
  BY DEF NoNewAdmin
<1> QED
  BY <1>1 DEF AdminInv, NoNewAdmin

(* One request moves on to a statement that makes no account.              *)
LEMMA OneMoves ==
    ASSUME NEW s \in Slots, Carried(s), call'[s].at # "insert" \/ call'[s].op # "bootstrap",
           \A u \in DOMAIN users' : users'[u].admin => u \in DOMAIN users /\ users[u].admin,
           twice => twice'
    PROVE  NoNewAdmin
  BY DEF NoNewAdmin, Carried, At

LEMMA AdminStep ==
    ASSUME ShapeInv, KnownInv, AdminInv, Step
    PROVE  AdminInv'
<1>3. CASE Elsewhere
  <2>1. Steady
    BY <1>3, ElsewhereIsSteady
  <2>2. NoNewAdmin
    BY <2>1 DEF Steady, tables, StillDoing, SameWork, Doing, NoNewAdmin, At
  <2> QED
    BY <2>2, NoNewAdminKeeps
<1>4. ASSUME NEW s \in Slots, Looks(s) PROVE AdminInv'
  <2>1. /\ LookedUp(s) /\ users' = users
        /\ twice' <=> twice \/ (/\ call[s].op = "bootstrap"
                                /\ \E r \in Slots : At(r, "bootstrap", "insert"))
    BY <1>4, LooksIs DEF tables
  <2>2. CASE call'[s].at = "insert" /\ call'[s].op = "bootstrap"
    <3>1. DOMAIN users = {} /\ call[s].op = "bootstrap" /\ \A r \in Slots : r # s => call'[r] = call[r]
      BY <2>1, <2>2 DEF LookedUp, Carried
    <3>2. ASSUME ~twice'
          PROVE  \A r \in Slots : At(r, "bootstrap", "insert")' => r = s
      BY <2>1, <3>1, <3>2 DEF At
    <3> QED
      BY <2>1, <3>1, <3>2 DEF AdminInv
  <2>3. CASE call'[s].at # "insert" \/ call'[s].op # "bootstrap"
    <3>1. NoNewAdmin
      BY <2>1, <2>3, OneMoves DEF LookedUp
    <3> QED
      BY <3>1, NoNewAdminKeeps
  <2> QED
    BY <2>2, <2>3
<1>5. ASSUME NEW s \in Slots, Fail(s) PROVE AdminInv'
  <2>1. users' = users /\ twice' = twice /\ GoesOn(s, "failed")
    BY <1>5, FailIs DEF tables
  <2>2. NoNewAdmin
    BY <2>1, OneMoves DEF GoesOn
  <2> QED
    BY <2>2, NoNewAdminKeeps
<1>6. ASSUME NEW s \in Slots, CreateUserWithRole(s) PROVE AdminInv'
  <2>1. /\ twice' = twice /\ call[s].at = "insert" /\ call[s].op \in {"create", "bootstrap"}
        /\ (GoesOn(s, "failed") /\ users' = users) \/ \E u \in Unused : Created(s, u)
    BY <1>6, CreateUserWithRoleIs
  <2>2. CASE GoesOn(s, "failed") /\ users' = users
    <3>1. NoNewAdmin
      BY <2>1, <2>2, OneMoves DEF GoesOn
    <3> QED
      BY <3>1, NoNewAdminKeeps
  <2>3. ASSUME NEW u \in Unused, Created(s, u) PROVE AdminInv'
    <3>1. /\ DOMAIN users' = DOMAIN users \cup {u} /\ \A v \in DOMAIN users : users'[v] = users[v]
          /\ users'[u].admin <=> call[s].op = "bootstrap"
          /\ Carried(s) /\ call'[s].at # "insert"
      BY <2>3 DEF Created
    <3>2. CASE call[s].op = "create"
      <4>1. \A v \in DOMAIN users' : users'[v].admin => v \in DOMAIN users /\ users[v].admin
        BY <3>1, <3>2
      <4>2. NoNewAdmin
        BY <2>1, <3>1, <4>1, OneMoves
      <4> QED
        BY <4>2, NoNewAdminKeeps
    <3>3. CASE call[s].op = "bootstrap"
      <4> SUFFICES ASSUME ~twice'
                   PROVE  /\ \A v, w \in DOMAIN users' : users'[v].admin /\ users'[w].admin => v = w
                          /\ \A q \in Slots : ~At(q, "bootstrap", "insert")'
        BY DEF AdminInv
      <4>1. At(s, "bootstrap", "insert") /\ ~twice
        BY <2>1, <3>3 DEF At
      <4>2. /\ \A v \in DOMAIN users : ~users[v].admin
            /\ \A q \in Slots : At(q, "bootstrap", "insert") => q = s
        BY <4>1 DEF AdminInv
      <4>3. \A q \in Slots : ~At(q, "bootstrap", "insert")'
        BY <3>1, <4>2 DEF At, Carried
      <4>4. \A v, w \in DOMAIN users' : users'[v].admin /\ users'[w].admin => v = w
        BY <3>1, <4>2
      <4> QED
        BY <4>3, <4>4
    <3> QED
      BY <2>1, <3>2, <3>3
  <2> QED
    BY <2>1, <2>2, <2>3
<1>7. ASSUME NEW s \in Slots, SetUserDisabled(s) \/ SoftDeleteUser(s) \/ ChangeUserPassword(s)
      PROVE  AdminInv'
  <2>1. /\ SameRows /\ SameAdmins /\ twice' = twice
        /\ GoesOn(s, "audit") \/ GoesOn(s, "clean") \/ GoesOn(s, "ok")
    BY <1>7, SetUserDisabledIs, SoftDeleteUserIs, ChangeUserPasswordIs DEF history
  <2>2. \A u \in DOMAIN users' : users'[u].admin => u \in DOMAIN users /\ users[u].admin
    BY <2>1 DEF SameRows, SameAdmins
  <2>3. NoNewAdmin
    BY <2>1, <2>2, OneMoves DEF GoesOn
  <2> QED
    BY <2>3, NoNewAdminKeeps
<1>8. ASSUME NEW s \in Slots, CleanupUserData(s) PROVE AdminInv'
  <2>1. /\ twice' = twice /\ (GoesOn(s, "refused") \/ GoesOn(s, "audit"))
        /\ \/ users' = users
           \/ DOMAIN users' = DOMAIN users \ {call[s].u} /\ \A v \in DOMAIN users' : users'[v] = users[v]
    BY <1>8, CleanupUserDataIs DEF tables, history
  <2>2. \A u \in DOMAIN users' : users'[u].admin => u \in DOMAIN users /\ users[u].admin
    BY <2>1
  <2>3. NoNewAdmin
    BY <2>1, <2>2, OneMoves DEF GoesOn
  <2> QED
    BY <2>3, NoNewAdminKeeps
<1>9. ASSUME NEW s \in Slots, ChangeUsername(s) PROVE AdminInv'
  <2>1. /\ SameRows /\ SameAdmins /\ twice' = twice /\ (GoesOn(s, "failed") \/ GoesOn(s, "ok"))
    BY <1>9, ChangeUsernameIs DEF history
  <2>2. \A u \in DOMAIN users' : users'[u].admin => u \in DOMAIN users /\ users[u].admin
    BY <2>1 DEF SameRows, SameAdmins
  <2>3. NoNewAdmin
    BY <2>1, <2>2, OneMoves DEF GoesOn
  <2> QED
    BY <2>3, NoNewAdminKeeps
<1>10. ASSUME NEW s \in Slots, RecordAudit(s) \/ WriteRow(s) PROVE AdminInv'
  <2>1. users' = users /\ twice' = twice /\ (GoesOn(s, "failed") \/ GoesOn(s, "ok"))
    BY <1>10, RecordAuditIs, WriteRowIs DEF history
  <2>2. NoNewAdmin
    BY <2>1, OneMoves DEF GoesOn
  <2> QED
    BY <2>2, NoNewAdminKeeps
<1> QED
  BY <1>3, <1>4, <1>5, <1>6, <1>7, <1>8, <1>9, <1>10 DEF Step, Elsewhere, Writes

-----------------------------------------------------------------------------
(* What is left of the deleted, and what the audit holds.                  *)

(* No act loses its place, no account becomes anything it was not.         *)
ActsGoOn(lost) == \A s \in Slots : call[s].op \in Acts /\ call[s].at \in {"clean", "audit"} /\ s # lost => SameWork(s)
NoAdvance ==
    \A u \in DOMAIN users' :
        /\ u \in DOMAIN users
        /\ users'[u].admin <=> users[u].admin
        /\ users'[u].disabled => users[u].disabled
        /\ users'[u].deleted => users[u].deleted

LEMMA UnderWayStays ==
    ASSUME NEW lost, ActsGoOn(lost), NEW u, NEW ops \in SUBSET Acts, NEW ats \in SUBSET {"clean", "audit"},
           UnderWay(u, ops, ats)
    PROVE  \/ UnderWay(u, ops, ats)'
           \/ lost \in Slots /\ call[lost].u = u /\ call[lost].op \in ops /\ call[lost].at \in ats
  BY DEF UnderWay, ActsGoOn, SameWork

Nowhere == CHOOSE s : s \notin Slots

LEMMA NowhereIs == Nowhere \notin Slots
  BY NoSetContainsEverything DEF Nowhere

LEMMA DataKeeps ==
    ASSUME DataInv, NEW lost, ActsGoOn(lost), lost \in Slots => call[lost].at # "clean",
           NoAdvance, data' \subseteq data, failed \subseteq failed', late \subseteq late'
    PROVE  DataInv'
<1> SUFFICES ASSUME NEW u \in DOMAIN users', users'[u].deleted, u \notin failed' \cup late'
             PROVE  u \notin data' \/ UnderWay(u, {"delete"}, {"clean"})'
  BY DEF DataInv
<1>1. u \in DOMAIN users /\ users[u].deleted /\ u \notin failed \cup late
  BY DEF NoAdvance
<1>2. u \notin data \/ UnderWay(u, {"delete"}, {"clean"})
  BY <1>1 DEF DataInv
<1>3. CASE UnderWay(u, {"delete"}, {"clean"})
  BY <1>3, UnderWayStays DEF Acts
<1> QED
  BY <1>2, <1>3

(* The audit of account u, in parts.                                       *)
AuditOf(u) ==
    /\ u \in DOMAIN users /\ ~users[u].admin =>
          <<"create", u>> \in audit \/ UnderWay(u, {"create"}, {"audit"})
    /\ u \in DOMAIN users /\ users[u].disabled =>
          \/ <<"disable", u>> \in audit \/ <<"delete", u>> \in audit
          \/ UnderWay(u, {"disable", "delete"}, {"clean", "audit"})
    /\ u \in DOMAIN users /\ users[u].deleted =>
          <<"delete", u>> \in audit \/ UnderWay(u, {"delete"}, {"clean", "audit"})
    /\ u \in gone => <<"cleanup", u>> \in audit \/ UnderWay(u, {"cleanup"}, {"audit"})

LEMMA AuditParts == AuditInv <=> \A u \in Uuids \ failed : AuditOf(u)
  BY DEF AuditInv, AuditOf

(* What happened to u before is still told or under way, but for what the  *)
(* request that moves was under way with.                                  *)
LEMMA AuditKeeps ==
    ASSUME NEW lost, ActsGoOn(lost), NEW u, AuditOf(u), audit \subseteq audit',
           lost \in Slots /\ call[lost].u = u =>
              \/ call[lost].op \notin Acts
              \/ call[lost].at \notin {"clean", "audit"}
              \/ call'[lost].u = u /\ call'[lost].op = call[lost].op /\ call'[lost].at = "audit"
              \/ <<call[lost].op, u>> \in audit'
    PROVE  /\ u \in DOMAIN users /\ ~users[u].admin =>
                 <<"create", u>> \in audit' \/ UnderWay(u, {"create"}, {"audit"})'
           /\ u \in DOMAIN users /\ users[u].disabled =>
                 \/ <<"disable", u>> \in audit' \/ <<"delete", u>> \in audit'
                 \/ UnderWay(u, {"disable", "delete"}, {"clean", "audit"})'
           /\ u \in DOMAIN users /\ users[u].deleted =>
                 <<"delete", u>> \in audit' \/ UnderWay(u, {"delete"}, {"clean", "audit"})'
           /\ u \in gone => <<"cleanup", u>> \in audit' \/ UnderWay(u, {"cleanup"}, {"audit"})'
<1>1. ASSUME NEW ops \in SUBSET Acts, NEW ats \in SUBSET {"clean", "audit"}, "audit" \in ats,
             UnderWay(u, ops, ats)
      PROVE  UnderWay(u, ops, ats)' \/ \E op \in ops : <<op, u>> \in audit'
  <2>1. CASE UnderWay(u, ops, ats)'
    BY <2>1
  <2>2. CASE lost \in Slots /\ call[lost].u = u /\ call[lost].op \in ops /\ call[lost].at \in ats
    <3>1. CASE call'[lost].u = u /\ call'[lost].op = call[lost].op /\ call'[lost].at = "audit"
      BY <1>1, <2>2, <3>1 DEF UnderWay
    <3>2. CASE <<call[lost].op, u>> \in audit'
      BY <2>2, <3>2
    <3> QED
      BY <1>1, <2>2, <3>1, <3>2
  <2> QED
    BY <1>1, <2>1, <2>2, UnderWayStays
<1>a. /\ {"create"} \in SUBSET Acts /\ {"disable", "delete"} \in SUBSET Acts
      /\ {"delete"} \in SUBSET Acts /\ {"cleanup"} \in SUBSET Acts
      /\ {"audit"} \in SUBSET {"clean", "audit"} /\ {"clean", "audit"} \in SUBSET {"clean", "audit"}
  BY DEF Acts
<1>2. UnderWay(u, {"create"}, {"audit"}) => <<"create", u>> \in audit' \/ UnderWay(u, {"create"}, {"audit"})'
  <2>1. UnderWay(u, {"create"}, {"audit"}) =>
           UnderWay(u, {"create"}, {"audit"})' \/ \E op \in {"create"} : <<op, u>> \in audit'
    BY <1>1, <1>a, Zenon
  <2> QED
    BY <2>1, Zenon
<1>3. UnderWay(u, {"disable", "delete"}, {"clean", "audit"}) =>
         \/ <<"disable", u>> \in audit' \/ <<"delete", u>> \in audit'
         \/ UnderWay(u, {"disable", "delete"}, {"clean", "audit"})'
  <2>1. UnderWay(u, {"disable", "delete"}, {"clean", "audit"}) =>
           \/ UnderWay(u, {"disable", "delete"}, {"clean", "audit"})'
           \/ \E op \in {"disable", "delete"} : <<op, u>> \in audit'
    BY <1>1, <1>a, Zenon
  <2> QED
    BY <2>1, Zenon
<1>4. UnderWay(u, {"delete"}, {"clean", "audit"}) =>
         <<"delete", u>> \in audit' \/ UnderWay(u, {"delete"}, {"clean", "audit"})'
  <2>1. UnderWay(u, {"delete"}, {"clean", "audit"}) =>
           UnderWay(u, {"delete"}, {"clean", "audit"})' \/ \E op \in {"delete"} : <<op, u>> \in audit'
    BY <1>1, <1>a, Zenon
  <2> QED
    BY <2>1, Zenon
<1>5. UnderWay(u, {"cleanup"}, {"audit"}) => <<"cleanup", u>> \in audit' \/ UnderWay(u, {"cleanup"}, {"audit"})'
  <2>1. UnderWay(u, {"cleanup"}, {"audit"}) =>
           UnderWay(u, {"cleanup"}, {"audit"})' \/ \E op \in {"cleanup"} : <<op, u>> \in audit'
    BY <1>1, <1>a, Zenon
  <2> QED
    BY <2>1, Zenon
<1>6. audit \subseteq audit'
  OBVIOUS
<1> QED
  BY <1>2, <1>3, <1>4, <1>5, <1>6, Zenon DEF AuditOf

LEMMA AuditStays ==
    ASSUME AuditInv, NEW lost, ActsGoOn(lost), NoAdvance, gone' = gone, audit \subseteq audit',
           failed \subseteq failed',
           \A u \in Uuids \ failed' : lost \in Slots /\ call[lost].u = u =>
              \/ call[lost].op \notin Acts
              \/ call[lost].at \notin {"clean", "audit"}
              \/ call'[lost].u = u /\ call'[lost].op = call[lost].op /\ call'[lost].at = "audit"
              \/ <<call[lost].op, u>> \in audit'
    PROVE  AuditInv'
<1>1. ASSUME NEW u \in Uuids \ failed' PROVE AuditOf(u)'
  <2>1. AuditOf(u)
    BY AuditParts
  <2>2. /\ u \in DOMAIN users /\ ~users[u].admin =>
                 <<"create", u>> \in audit' \/ UnderWay(u, {"create"}, {"audit"})'
        /\ u \in DOMAIN users /\ users[u].disabled =>
                 \/ <<"disable", u>> \in audit' \/ <<"delete", u>> \in audit'
                 \/ UnderWay(u, {"disable", "delete"}, {"clean", "audit"})'
        /\ u \in DOMAIN users /\ users[u].deleted =>
                 <<"delete", u>> \in audit' \/ UnderWay(u, {"delete"}, {"clean", "audit"})'
        /\ u \in gone => <<"cleanup", u>> \in audit' \/ UnderWay(u, {"cleanup"}, {"audit"})'
    BY <2>1, AuditKeeps
  <2> QED
    BY <2>2 DEF AuditOf, NoAdvance
<1> QED
  BY <1>1 DEF AuditInv, AuditOf

(* Only the request that moves can lose its place.                         *)
LEMMA OneGoesOn ==
    ASSUME NEW s \in Slots, \A r \in Slots : r # s => call'[r] = call[r]
    PROVE  ActsGoOn(s)
  BY DEF ActsGoOn, SameWork

LEMMA NoRowAdvances ==
    /\ users' = users => NoAdvance
    /\ SameRows /\ SameAdmins /\ SameShut /\ SameEnded => NoAdvance
    /\ DOMAIN users' \subseteq DOMAIN users /\ (\A v \in DOMAIN users' : users'[v] = users[v]) => NoAdvance
  BY DEF NoAdvance, SameRows, SameAdmins, SameShut, SameEnded

LEMMA SteadyTells ==
    ASSUME DataInv, AuditInv, Steady
    PROVE  DataInv' /\ AuditInv'
<1>1. ActsGoOn(Nowhere) /\ Nowhere \notin Slots
  BY NowhereIs DEF Steady, StillDoing, ActsGoOn, Doing
<1>2. UNCHANGED <<users, gone, data, audit, late>> /\ failed \subseteq failed'
  BY DEF Steady, tables
<1>3. NoAdvance
  BY <1>2, NoRowAdvances
<1>4. DataInv'
  BY <1>1, <1>2, <1>3, DataKeeps
<1>5. AuditInv'
  BY <1>1, <1>2, <1>3, AuditStays
<1> QED
  BY <1>4, <1>5

LEMMA TellsStep ==
    ASSUME ShapeInv, KnownInv, DataInv, AuditInv, Step
    PROVE  DataInv' /\ AuditInv'
<1>0. TablesOK
  BY DEF ShapeInv
(* A request not among the acts, or before their first effect, moves.      *)
<1>1. ASSUME NEW s \in Slots, Carried(s), NoAdvance, gone' = gone, audit' = audit,
             data' \subseteq data, failed \subseteq failed', late \subseteq late',
             call[s].op \notin Acts \/ call[s].at \notin {"clean", "audit"}
      PROVE  DataInv' /\ AuditInv'
  <2>1. ActsGoOn(s)
    BY <1>1, OneGoesOn DEF Carried
  <2>2. AuditInv'
    BY <1>1, <2>1, AuditStays
  <2>3. call[s].at # "clean"
    BY <1>1 DEF ShapeInv, RequestsOK, RequestOK, Acts
  <2>4. DataInv'
    BY <1>1, <2>1, <2>3, DataKeeps
  <2> QED
    BY <2>2, <2>4
<1>3. CASE Elsewhere
  BY <1>3, ElsewhereIsSteady, SteadyTells
<1>4. ASSUME NEW s \in Slots, Looks(s) PROVE DataInv' /\ AuditInv'
  <2>1. LookedUp(s) /\ UNCHANGED <<users, gone, data, audit, failed, late>>
    BY <1>4, LooksIs DEF tables
  <2>2. NoAdvance
    BY <2>1, NoRowAdvances
  <2> QED
    BY <1>1, <2>1, <2>2 DEF LookedUp
<1>5. ASSUME NEW s \in Slots, Fail(s) PROVE DataInv' /\ AuditInv'
  <2>1. /\ GoesOn(s, "failed") /\ UNCHANGED <<users, gone, data, audit, late>>
        /\ failed' = IF call[s].u # None THEN failed \cup {call[s].u} ELSE failed
    BY <1>5, FailIs DEF tables
  <2>2. NoAdvance
    BY <2>1, NoRowAdvances
  <2>3. ActsGoOn(s)
    BY <2>1, OneGoesOn DEF GoesOn, Carried
  <2>4. None \notin Uuids
    BY DEF None, Uuids
  <2>5. \A u \in Uuids \ failed' : call[s].u # u
    BY <2>1, <2>4
  <2>6. AuditInv'
    BY <2>1, <2>2, <2>3, <2>5, AuditStays
  <2>7. DataInv'
    <3> SUFFICES ASSUME NEW u \in DOMAIN users', users'[u].deleted, u \notin failed' \cup late'
                 PROVE  u \notin data' \/ UnderWay(u, {"delete"}, {"clean"})'
      BY DEF DataInv
    <3>1. u \in DOMAIN users /\ users[u].deleted /\ u \notin failed \cup late /\ u \in Uuids
      BY <1>0, <2>1 DEF TablesOK
    <3>2. u \notin data \/ UnderWay(u, {"delete"}, {"clean"})
      BY <3>1 DEF DataInv
    <3>3. CASE UnderWay(u, {"delete"}, {"clean"})
      <4>1. call[s].u # u
        BY <2>5, <3>1
      <4> QED
        BY <2>3, <3>3, <4>1, UnderWayStays DEF Acts
    <3> QED
      BY <2>1, <3>2, <3>3
  <2> QED
    BY <2>6, <2>7
<1>6. ASSUME NEW s \in Slots, CreateUserWithRole(s) PROVE DataInv' /\ AuditInv'
  <2>1. /\ call[s].at = "insert" /\ call[s].op \in {"create", "bootstrap"}
        /\ UNCHANGED <<gone, data, audit, failed, late>>
        /\ (GoesOn(s, "failed") /\ users' = users) \/ \E u \in Unused : Created(s, u)
    BY <1>6, CreateUserWithRoleIs
  <2>2. CASE GoesOn(s, "failed") /\ users' = users
    <3>1. NoAdvance
      BY <2>2, NoRowAdvances
    <3> QED
      BY <1>1, <2>1, <2>2, <3>1 DEF GoesOn
  <2>3. ASSUME NEW new \in Unused, Created(s, new) PROVE DataInv' /\ AuditInv'
    <3>1. /\ DOMAIN users' = DOMAIN users \cup {new}
          /\ \A v \in DOMAIN users : users'[v] = users[v]
          /\ users'[new].admin <=> call[s].op = "bootstrap"
          /\ ~users'[new].disabled /\ ~users'[new].deleted
          /\ Carried(s) /\ call'[s].u = new
          /\ call'[s].at = IF call[s].op = "bootstrap" THEN "ok" ELSE "audit"
      BY <2>3 DEF Created
    <3>2. new \notin DOMAIN users /\ new \notin gone
      BY DEF Unused
    <3>3. ActsGoOn(s)
      BY <3>1, OneGoesOn DEF Carried
    <3>4. ASSUME NEW u \in DOMAIN users', users'[u].deleted, u \notin failed' \cup late'
          PROVE  u \notin data' \/ UnderWay(u, {"delete"}, {"clean"})'
      <4>1. u \in DOMAIN users /\ users[u].deleted /\ u \notin failed \cup late
        BY <2>1, <3>1, <3>4
      <4>2. u \notin data \/ UnderWay(u, {"delete"}, {"clean"})
        BY <4>1 DEF DataInv
      <4>3. CASE UnderWay(u, {"delete"}, {"clean"})
        BY <2>1, <3>3, <4>3, UnderWayStays DEF Acts
      <4> QED
        BY <2>1, <4>2, <4>3
    <3>5. ASSUME NEW u \in Uuids \ failed' PROVE AuditOf(u)'
      <4>0. AuditOf(u)
        BY <2>1, AuditParts
      <4>1. /\ u \in DOMAIN users /\ ~users[u].admin =>
                 <<"create", u>> \in audit' \/ UnderWay(u, {"create"}, {"audit"})'
            /\ u \in DOMAIN users /\ users[u].disabled =>
                 \/ <<"disable", u>> \in audit' \/ <<"delete", u>> \in audit'
                 \/ UnderWay(u, {"disable", "delete"}, {"clean", "audit"})'
            /\ u \in DOMAIN users /\ users[u].deleted =>
                 <<"delete", u>> \in audit' \/ UnderWay(u, {"delete"}, {"clean", "audit"})'
            /\ u \in gone => <<"cleanup", u>> \in audit' \/ UnderWay(u, {"cleanup"}, {"audit"})'
        BY <2>1, <3>3, <4>0, AuditKeeps
      <4>2. CASE u = new
        <5>1. ~users'[u].admin => UnderWay(u, {"create"}, {"audit"})'
          BY <2>1, <3>1, <4>2 DEF UnderWay, Carried
        <5> QED
          BY <2>1, <3>1, <3>2, <4>2, <5>1 DEF AuditOf
      <4>3. CASE u # new
        BY <2>1, <3>1, <4>1, <4>3 DEF AuditOf
      <4> QED
        BY <4>2, <4>3
    <3>6. AuditInv'
      BY <3>5 DEF AuditInv, AuditOf
    <3> QED
      BY <3>4, <3>6 DEF DataInv
  <2> QED
    BY <2>1, <2>2, <2>3
<1>7. ASSUME NEW s \in Slots, SetUserDisabled(s) PROVE DataInv' /\ AuditInv'
  <2>1. /\ call[s].at = "set" /\ call[s].op \in {"disable", "enable"} /\ GoesOn(s, "audit")
        /\ UNCHANGED <<gone, data, audit, failed, late>> /\ SameRows /\ SameAdmins /\ SameEnded
        /\ \A v \in DOMAIN users :
              users'[v].disabled <=> IF v = call[s].u THEN call[s].op = "disable" ELSE users[v].disabled
    BY <1>7, SetUserDisabledIs DEF history
  <2>2. ActsGoOn(s)
    BY <2>1, OneGoesOn DEF GoesOn, Carried
  <2>3. ASSUME NEW u \in DOMAIN users', users'[u].deleted, u \notin failed' \cup late'
        PROVE  u \notin data' \/ UnderWay(u, {"delete"}, {"clean"})'
    <3>1. u \in DOMAIN users /\ users[u].deleted /\ u \notin failed \cup late
      BY <2>1, <2>3 DEF SameRows, SameEnded
    <3>2. u \notin data \/ UnderWay(u, {"delete"}, {"clean"})
      BY <3>1 DEF DataInv
    <3>3. CASE UnderWay(u, {"delete"}, {"clean"})
      BY <2>1, <2>2, <3>3, UnderWayStays DEF Acts
    <3> QED
      BY <2>1, <3>2, <3>3
  <2>4. ASSUME NEW u \in Uuids \ failed' PROVE AuditOf(u)'
    <3>0. AuditOf(u)
      BY <2>1, AuditParts
    <3>1. /\ u \in DOMAIN users /\ ~users[u].admin =>
               <<"create", u>> \in audit' \/ UnderWay(u, {"create"}, {"audit"})'
          /\ u \in DOMAIN users /\ users[u].disabled =>
               \/ <<"disable", u>> \in audit' \/ <<"delete", u>> \in audit'
               \/ UnderWay(u, {"disable", "delete"}, {"clean", "audit"})'
          /\ u \in DOMAIN users /\ users[u].deleted =>
               <<"delete", u>> \in audit' \/ UnderWay(u, {"delete"}, {"clean", "audit"})'
          /\ u \in gone => <<"cleanup", u>> \in audit' \/ UnderWay(u, {"cleanup"}, {"audit"})'
      BY <2>1, <2>2, <3>0, AuditKeeps
    <3>2. u \in DOMAIN users /\ users'[u].disabled /\ ~users[u].disabled =>
             UnderWay(u, {"disable", "delete"}, {"clean", "audit"})'
      BY <2>1 DEF UnderWay, GoesOn, Carried
    <3> QED
      BY <2>1, <3>1, <3>2 DEF AuditOf, SameRows, SameAdmins, SameEnded
  <2>5. AuditInv'
    BY <2>4 DEF AuditInv, AuditOf
  <2> QED
    BY <2>3, <2>5 DEF DataInv
<1>8. ASSUME NEW s \in Slots, SoftDeleteUser(s) PROVE DataInv' /\ AuditInv'
  <2>1. /\ call[s].at = "set" /\ call[s].op = "delete" /\ GoesOn(s, "clean")
        /\ UNCHANGED <<gone, data, audit, failed, late>> /\ SameRows /\ SameAdmins
        /\ \A v \in DOMAIN users :
                 /\ users'[v].disabled <=> users[v].disabled \/ v = call[s].u
                 /\ users'[v].deleted <=> users[v].deleted \/ v = call[s].u
    BY <1>8, SoftDeleteUserIs DEF history
  <2>2. ActsGoOn(s)
    BY <2>1, OneGoesOn DEF GoesOn, Carried
  <2>a. ASSUME NEW u, u = call[s].u, NEW ops, NEW ats, "delete" \in ops, "clean" \in ats
        PROVE  UnderWay(u, ops, ats)'
    BY <2>1, <2>a DEF UnderWay, GoesOn, Carried
  <2>3. ASSUME NEW u \in DOMAIN users', users'[u].deleted, u \notin failed' \cup late'
        PROVE  u \notin data' \/ UnderWay(u, {"delete"}, {"clean"})'
    <3>1. CASE u = call[s].u
      BY <2>1, <3>1 DEF UnderWay, GoesOn, Carried
    <3>2. CASE u # call[s].u
      <4>1. u \in DOMAIN users /\ users[u].deleted /\ u \notin failed \cup late
        BY <2>1, <2>3, <3>2 DEF SameRows
      <4>2. u \notin data \/ UnderWay(u, {"delete"}, {"clean"})
        BY <4>1 DEF DataInv
      <4>3. CASE UnderWay(u, {"delete"}, {"clean"})
        BY <2>1, <2>2, <4>3, UnderWayStays DEF Acts
      <4> QED
        BY <2>1, <4>2, <4>3
    <3> QED
      BY <3>1, <3>2
  <2>4. ASSUME NEW u \in Uuids \ failed' PROVE AuditOf(u)'
    <3>0. AuditOf(u)
      BY <2>1, AuditParts
    <3>1. /\ u \in DOMAIN users /\ ~users[u].admin =>
               <<"create", u>> \in audit' \/ UnderWay(u, {"create"}, {"audit"})'
          /\ u \in DOMAIN users /\ users[u].disabled =>
               \/ <<"disable", u>> \in audit' \/ <<"delete", u>> \in audit'
               \/ UnderWay(u, {"disable", "delete"}, {"clean", "audit"})'
          /\ u \in DOMAIN users /\ users[u].deleted =>
               <<"delete", u>> \in audit' \/ UnderWay(u, {"delete"}, {"clean", "audit"})'
          /\ u \in gone => <<"cleanup", u>> \in audit' \/ UnderWay(u, {"cleanup"}, {"audit"})'
      BY <2>1, <2>2, <3>0, AuditKeeps
    <3>2. u = call[s].u => /\ UnderWay(u, {"disable", "delete"}, {"clean", "audit"})'
                           /\ UnderWay(u, {"delete"}, {"clean", "audit"})'
      BY <2>1 DEF UnderWay, GoesOn, Carried
    <3> QED
      BY <2>1, <3>1, <3>2 DEF AuditOf, SameRows, SameAdmins
  <2>5. AuditInv'
    BY <2>4 DEF AuditInv, AuditOf
  <2> QED
    BY <2>3, <2>5 DEF DataInv
<1>9. ASSUME NEW s \in Slots, CleanupUserData(s) PROVE DataInv' /\ AuditInv'
  <2> DEFINE gone0 == call[s].u
  <2>1. /\ UNCHANGED <<audit, failed, late>> /\ call[s].at = "clean" /\ call[s].op \in {"delete", "cleanup"}
        /\ \/ GoesOn(s, "refused") /\ call[s].op = "cleanup" /\ UNCHANGED <<users, gone, data>>
           \/ /\ GoesOn(s, "audit") /\ call[s].op = "delete" /\ data' = data \ {call[s].u}
              /\ UNCHANGED <<users, gone>>
           \/ /\ GoesOn(s, "audit") /\ call[s].op = "cleanup" /\ data' = data \ {call[s].u}
              /\ DOMAIN users' = DOMAIN users \ {call[s].u} /\ gone' = gone \cup {call[s].u}
              /\ \A v \in DOMAIN users' : users'[v] = users[v]
    BY <1>9, CleanupUserDataIs DEF history, tables
  <2>2. ActsGoOn(s) /\ Carried(s) /\ call'[s].u = call[s].u /\ data' \subseteq data
    BY <2>1, OneGoesOn DEF GoesOn, Carried
  <2>3. NoAdvance
    BY <2>1, NoRowAdvances
  <2>4. ASSUME NEW u \in DOMAIN users', users'[u].deleted, u \notin failed' \cup late'
        PROVE  u \notin data' \/ UnderWay(u, {"delete"}, {"clean"})'
    <3>1. u \in DOMAIN users /\ users[u].deleted /\ u \notin failed \cup late
      BY <2>1, <2>3, <2>4 DEF NoAdvance
    <3>2. u \notin data \/ UnderWay(u, {"delete"}, {"clean"})
      BY <3>1 DEF DataInv
    <3>3. CASE UnderWay(u, {"delete"}, {"clean"})
      <4>1. \/ UnderWay(u, {"delete"}, {"clean"})'
            \/ call[s].u = u /\ call[s].op \in {"delete"} /\ call[s].at \in {"clean"}
        BY <2>2, <3>3, UnderWayStays DEF Acts
      <4> QED
        BY <2>1, <4>1
    <3> QED
      BY <2>2, <3>2, <3>3
  <2>5. ASSUME NEW u \in Uuids \ failed' PROVE AuditOf(u)'
    <3>0. AuditOf(u)
      BY <2>1, AuditParts
    <3>1. CASE call[s].op = "delete"
      <4>1. call'[s].op = call[s].op /\ call'[s].at = "audit"
        BY <2>1, <3>1 DEF GoesOn, Carried
      <4>2. /\ u \in DOMAIN users /\ ~users[u].admin =>
                 <<"create", u>> \in audit' \/ UnderWay(u, {"create"}, {"audit"})'
            /\ u \in DOMAIN users /\ users[u].disabled =>
                 \/ <<"disable", u>> \in audit' \/ <<"delete", u>> \in audit'
                 \/ UnderWay(u, {"disable", "delete"}, {"clean", "audit"})'
            /\ u \in DOMAIN users /\ users[u].deleted =>
                 <<"delete", u>> \in audit' \/ UnderWay(u, {"delete"}, {"clean", "audit"})'
            /\ u \in gone => <<"cleanup", u>> \in audit' \/ UnderWay(u, {"cleanup"}, {"audit"})'
        BY <2>1, <2>2, <3>0, <4>1, AuditKeeps
      <4> QED
        BY <2>1, <3>1, <4>2 DEF AuditOf
    <3>2. CASE call[s].op = "cleanup"
      <4>1. ASSUME NEW ops \in SUBSET Acts, NEW ats \in SUBSET {"clean", "audit"},
                   "cleanup" \notin ops \/ "clean" \notin ats, UnderWay(u, ops, ats)
            PROVE  UnderWay(u, ops, ats)'
        <5>1. \/ UnderWay(u, ops, ats)'
              \/ s \in Slots /\ call[s].u = u /\ call[s].op \in ops /\ call[s].at \in ats
          BY <2>2, <4>1, UnderWayStays
        <5> QED
          BY <2>1, <3>2, <4>1, <5>1
      <4>a. /\ UnderWay(u, {"create"}, {"audit"}) => UnderWay(u, {"create"}, {"audit"})'
            /\ UnderWay(u, {"disable", "delete"}, {"clean", "audit"}) =>
                  UnderWay(u, {"disable", "delete"}, {"clean", "audit"})'
            /\ UnderWay(u, {"delete"}, {"clean", "audit"}) =>
                  UnderWay(u, {"delete"}, {"clean", "audit"})'
            /\ UnderWay(u, {"cleanup"}, {"audit"}) => UnderWay(u, {"cleanup"}, {"audit"})'
        <5>1. /\ {"create"} \in SUBSET Acts /\ {"disable", "delete"} \in SUBSET Acts
              /\ {"delete"} \in SUBSET Acts /\ {"cleanup"} \in SUBSET Acts
              /\ {"audit"} \in SUBSET {"clean", "audit"}
              /\ {"clean", "audit"} \in SUBSET {"clean", "audit"}
              /\ "cleanup" \notin {"create"} /\ "cleanup" \notin {"disable", "delete"}
              /\ "cleanup" \notin {"delete"} /\ "clean" \notin {"audit"}
          BY DEF Acts
        <5> QED
          BY <4>1, <5>1, Zenon
      <4>2. /\ u \in DOMAIN users /\ ~users[u].admin =>
                 <<"create", u>> \in audit' \/ UnderWay(u, {"create"}, {"audit"})'
            /\ u \in DOMAIN users /\ users[u].disabled =>
                 \/ <<"disable", u>> \in audit' \/ <<"delete", u>> \in audit'
                 \/ UnderWay(u, {"disable", "delete"}, {"clean", "audit"})'
            /\ u \in DOMAIN users /\ users[u].deleted =>
                 <<"delete", u>> \in audit' \/ UnderWay(u, {"delete"}, {"clean", "audit"})'
            /\ u \in gone => <<"cleanup", u>> \in audit' \/ UnderWay(u, {"cleanup"}, {"audit"})'
        BY <2>1, <3>0, <4>a, Zenon DEF AuditOf
      <4>3. u \in gone' => u \in gone \/ UnderWay(u, {"cleanup"}, {"audit"})'
        BY <2>1, <3>2 DEF UnderWay, GoesOn, Carried
      <4> QED
        BY <2>1, <2>3, <4>2, <4>3 DEF AuditOf, NoAdvance
    <3> QED
      BY <2>1, <3>1, <3>2
  <2>6. AuditInv'
    BY <2>5 DEF AuditInv, AuditOf
  <2> QED
    BY <2>4, <2>6 DEF DataInv
<1>10. ASSUME NEW s \in Slots, RecordAudit(s) PROVE DataInv' /\ AuditInv'
  <2>1. /\ UNCHANGED <<users, gone, data, failed, late>> /\ call[s].at = "audit" /\ GoesOn(s, "ok")
        /\ audit' = audit \cup {<<call[s].op, call[s].u>>}
    BY <1>10, RecordAuditIs DEF history
  <2>2. ActsGoOn(s) /\ NoAdvance
    BY <2>1, OneGoesOn, NoRowAdvances DEF GoesOn, Carried
  <2>3. DataInv'
    BY <2>1, <2>2, DataKeeps
  <2>4. \A u \in Uuids \ failed' : call[s].u = u => <<call[s].op, u>> \in audit'
    BY <2>1
  <2>5. AuditInv'
    BY <2>1, <2>2, <2>4, AuditStays
  <2> QED
    BY <2>3, <2>5
<1>11. ASSUME NEW s \in Slots, ChangeUserPassword(s) \/ ChangeUsername(s) PROVE DataInv' /\ AuditInv'
  <2>1. /\ call[s].at = "update" /\ SameRows /\ SameAdmins /\ SameShut /\ SameEnded
        /\ UNCHANGED <<gone, data, audit, failed, late>> /\ (GoesOn(s, "ok") \/ GoesOn(s, "failed"))
    BY <1>11, ChangeUserPasswordIs, ChangeUsernameIs DEF history
  <2>2. NoAdvance
    BY <2>1, NoRowAdvances
  <2> QED
    BY <1>1, <2>1, <2>2 DEF GoesOn
<1>12. ASSUME NEW s \in Slots, WriteRow(s) PROVE DataInv' /\ AuditInv'
  <2>1. /\ UNCHANGED <<users, gone, audit, failed>> /\ call[s].op = "write" /\ call[s].at = "sent"
        /\ (GoesOn(s, "ok") \/ GoesOn(s, "failed"))
        /\ \/ UNCHANGED <<data, late>>
           \/ /\ call[s].who \in DOMAIN users /\ data' = data \cup {call[s].who}
              /\ late' = IF users[call[s].who].deleted THEN late \cup {call[s].who} ELSE late
    BY <1>12, WriteRowIs
  <2>2. ActsGoOn(s) /\ NoAdvance
    BY <2>1, OneGoesOn, NoRowAdvances DEF GoesOn, Carried
  <2>3. AuditInv'
    BY <2>1, <2>2, AuditStays
  <2>4. ASSUME NEW u \in DOMAIN users', users'[u].deleted, u \notin failed' \cup late'
        PROVE  u \notin data' \/ UnderWay(u, {"delete"}, {"clean"})'
    <3>1. u \in DOMAIN users /\ users[u].deleted /\ u \notin failed \cup late
      BY <2>1, <2>4
    <3>2. u \notin data \/ UnderWay(u, {"delete"}, {"clean"})
      BY <3>1 DEF DataInv
    <3>3. CASE UnderWay(u, {"delete"}, {"clean"})
      BY <2>1, <2>2, <3>3, UnderWayStays DEF Acts
    <3>4. u \notin data => u \notin data'
      BY <2>1, <2>4
    <3> QED
      BY <3>2, <3>3, <3>4
  <2> QED
    BY <2>3, <2>4 DEF DataInv
<1> QED
  BY <1>3, <1>4, <1>5, <1>6, <1>7, <1>8, <1>9, <1>10, <1>11, <1>12 DEF Step, Elsewhere, Writes

-----------------------------------------------------------------------------
(* Passwords.                                                              *)

Changes(s, u) == call[s].op = "password" /\ call[s].who = u

PasswordOf(u) ==
    /\ \A s, r \in Slots : Changes(s, u) /\ Changes(r, u) => s = r
    /\ \A s \in Slots : Changes(s, u) =>
          call[s].at # "failed" /\ (call[s].at = "ok" => users[u].pw = call[s].new)
    /\ (\A s \in Slots : ~(Changes(s, u) /\ call[s].at = "ok")) => users[u].pw = told[u]

LEMMA PasswordParts == PasswordInv <=> \A u \in DOMAIN users \ unsure : PasswordOf(u)
  BY DEF PasswordInv, PasswordOf, Changes

(* Neither the password of u nor a change of it is touched.                *)
PasswordAlone(u) ==
    /\ u \in DOMAIN users \ unsure /\ users'[u].pw = users[u].pw /\ told'[u] = told[u]
    /\ \A s \in Slots :
          /\ Changes(s, u)' => /\ Changes(s, u) /\ call'[s].new = call[s].new
                               /\ call'[s].at # "failed" /\ (call'[s].at = "ok" => call[s].at = "ok")
          /\ Changes(s, u) /\ call[s].at = "ok" => Changes(s, u)' /\ call'[s].at = "ok"

LEMMA PasswordAloneKeeps ==
    ASSUME NEW u, PasswordOf(u), PasswordAlone(u)
    PROVE  PasswordOf(u)'
<1>1. \A s, r \in Slots : Changes(s, u)' /\ Changes(r, u)' => s = r
  BY DEF PasswordOf, PasswordAlone
<1>2. \A s \in Slots : Changes(s, u)' =>
          call'[s].at # "failed" /\ (call'[s].at = "ok" => users'[u].pw = call'[s].new)
  BY DEF PasswordOf, PasswordAlone
<1>3. ASSUME \A s \in Slots : ~(Changes(s, u)' /\ call'[s].at = "ok")
      PROVE  users'[u].pw = told'[u]
  BY <1>3 DEF PasswordOf, PasswordAlone
<1> QED
  BY <1>1, <1>2, <1>3 DEF PasswordOf

(* A step that leaves every change of a password where it was.             *)
LEMMA PasswordsAlone ==
    ASSUME PasswordInv, unsure \subseteq unsure', DOMAIN users' \subseteq DOMAIN users,
           \A u \in DOMAIN users' : users'[u].pw = users[u].pw /\ told'[u] = told[u],
           \A s \in Slots : call[s].op = "password" \/ call'[s].op = "password" => SameWork(s)
    PROVE  PasswordInv'
<1>1. ASSUME NEW u \in DOMAIN users' \ unsure' PROVE PasswordOf(u)'
  <2>1. PasswordOf(u)
    BY PasswordParts
  <2>2. \A s \in Slots : Changes(s, u)' => SameWork(s) /\ Changes(s, u)
    BY DEF Changes, SameWork
  <2>3. \A s \in Slots : Changes(s, u) => SameWork(s) /\ Changes(s, u)'
    BY DEF Changes, SameWork
  <2>4. \A s \in Slots : Changes(s, u) => call[s].at # "failed"
    BY <2>1 DEF PasswordOf
  <2>5. PasswordAlone(u)
    BY <2>2, <2>3, <2>4 DEF PasswordAlone, SameWork
  <2> QED
    BY <2>1, <2>5, PasswordAloneKeeps
<1> QED
  BY <1>1 DEF PasswordInv, PasswordOf, Changes

LEMMA PasswordStep ==
    ASSUME ShapeInv, KnownInv, PasswordInv, Step
    PROVE  PasswordInv'
<1>0. CallsOK /\ RequestsOK /\ TablesOK /\ HistoryOK
  BY DEF ShapeInv
(* Any request but a change of a password moves.                           *)
<1>a. ASSUME NEW s \in Slots, \A r \in Slots : r # s => call'[r] = call[r],
             call[s].op # "password", call'[s].op # "password",
             unsure \subseteq unsure', told' = told, DOMAIN users' \subseteq DOMAIN users,
             \A u \in DOMAIN users' : users'[u].pw = users[u].pw
      PROVE  PasswordInv'
  BY <1>a, PasswordsAlone DEF SameWork
(* One that moves, and what becomes of it.                                 *)
<1>b. ASSUME NEW s \in Slots, Carried(s), unsure' = unsure, told' = told, users' = users,
             call[s].op = "password" => call[s].at # "ok" /\ call'[s].at \notin {"ok", "failed"}
      PROVE  PasswordInv'
  <2>1. ASSUME NEW u \in DOMAIN users' \ unsure' PROVE PasswordOf(u)'
    <3>1. PasswordOf(u) /\ u \in DOMAIN users \ unsure
      BY <1>b, PasswordParts
    <3>2. \A r \in Slots : Changes(r, u)' => Changes(r, u) /\ call'[r].new = call[r].new
      BY <1>b DEF Changes, Carried
    <3>3. \A r \in Slots : Changes(r, u)' =>
             call'[r].at # "failed" /\ (call'[r].at = "ok" => call[r].at = "ok")
      BY <1>b, <3>1, <3>2 DEF Changes, Carried, PasswordOf
    <3>4. \A r \in Slots : Changes(r, u) /\ call[r].at = "ok" => Changes(r, u)' /\ call'[r].at = "ok"
      BY <1>b DEF Changes, Carried
    <3>5. PasswordAlone(u)
      BY <1>b, <3>1, <3>2, <3>3, <3>4 DEF PasswordAlone
    <3> QED
      BY <3>1, <3>5, PasswordAloneKeeps
  <2> QED
    BY <2>1 DEF PasswordInv, PasswordOf, Changes
<1>1. ASSUME NEW t \in Tabs, QuietPage(t) PROVE PasswordInv'
  <2>1. call' = call /\ UNCHANGED <<tables, history>>
    BY <1>1, QuietPageIs
  <2> QED
    BY <2>1 DEF PasswordInv, tables, history
<1>2. ASSUME NEW t \in Tabs, Leaves(t) PROVE PasswordInv'
  <2>1. (\A s \in Slots : SameWork(s)) /\ UNCHANGED <<users, told, unsure>>
    BY <1>0, <1>2, LeavesIs, CallsStay DEF Left, tables, history
  <2> QED
    BY <2>1, PasswordsAlone
<1>3. ASSUME NEW t \in Tabs, NEW s \in Free, Requests(t, s) PROVE PasswordInv'
  <2>1. RequestedBy(t, s) /\ s \in Slots /\ call[s].op = "none"
    BY <1>3, RequestsIs, NoCallIs DEF Free
  <2>2. /\ users' = users /\ told' = told /\ unsure \subseteq unsure'
        /\ \A r \in Slots : r # s => call'[r] = call[r]
    BY <2>1 DEF RequestedBy, Sends, tables
  <2>3. CASE call'[s].op # "password"
    BY <1>a, <2>1, <2>2, <2>3
  <2>4. CASE call'[s].op = "password"
    <3> DEFINE me == page[t].me
    <3>1. /\ call'[s].who = me /\ call'[s].at = "sent"
          /\ unsure' = IF \E r \in Slots : call[r].op = "password" /\ call[r].who = me
                       THEN unsure \cup {me} ELSE unsure
      BY <2>1, <2>4 DEF RequestedBy, Sends, Fresh
    <3> HIDE DEF me
    <3>2. ASSUME NEW u \in DOMAIN users' \ unsure' PROVE PasswordOf(u)'
      <4>1. PasswordOf(u) /\ u \in DOMAIN users \ unsure
        BY <2>2, PasswordParts
      <4>2. CASE u = me
        <5>1. \A r \in Slots : ~Changes(r, u)
          BY <3>1, <3>2, <4>2 DEF Changes
        <5>2. \A r \in Slots : Changes(r, u)' => r = s
          BY <2>2, <5>1 DEF Changes
        <5>3. users'[u].pw = told'[u]
          BY <2>2, <4>1, <5>1 DEF PasswordOf
        <5> QED
          BY <3>1, <5>2, <5>3 DEF PasswordOf
      <4>3. CASE u # me
        <5>1. \A r \in Slots : Changes(r, u)' => r # s /\ Changes(r, u) /\ call'[r] = call[r]
          BY <2>2, <3>1, <4>3 DEF Changes
        <5>2. \A r \in Slots : Changes(r, u) => r # s /\ Changes(r, u)' /\ call'[r] = call[r]
          BY <2>1, <2>2 DEF Changes
        <5>3. \A r \in Slots : Changes(r, u)' => call'[r].at # "failed"
          BY <4>1, <5>1 DEF PasswordOf
        <5>4. PasswordAlone(u)
          BY <2>2, <4>1, <5>1, <5>2, <5>3 DEF PasswordAlone
        <5> QED
          BY <4>1, <5>4, PasswordAloneKeeps
      <4> QED
        BY <4>2, <4>3
    <3> QED
      BY <3>2 DEF PasswordInv, PasswordOf, Changes
  <2> QED
    BY <2>3, <2>4
<1>4. ASSUME NEW s \in Slots, Looks(s) PROVE PasswordInv'
  <2>1. LookedUp(s) /\ UNCHANGED <<users, told, unsure>>
    BY <1>4, LooksIs DEF tables
  <2> QED
    BY <1>b, <2>1 DEF LookedUp, Carried, Own
<1>5. ASSUME NEW s \in Slots, CreateUserWithRole(s) PROVE PasswordInv'
  <2>1. /\ call[s].op \in {"create", "bootstrap"} /\ unsure' = unsure
        /\ (GoesOn(s, "failed") /\ UNCHANGED <<users, told>>) \/ \E u \in Unused : Created(s, u)
    BY <1>5, CreateUserWithRoleIs
  <2>2. CASE GoesOn(s, "failed") /\ UNCHANGED <<users, told>>
    BY <1>b, <2>1, <2>2 DEF GoesOn
  <2>3. ASSUME NEW new \in Unused, Created(s, new) PROVE PasswordInv'
    <3>1. /\ DOMAIN users' = DOMAIN users \cup {new} /\ users'[new].pw = call[s].pw
          /\ \A v \in DOMAIN users : users'[v] = users[v]
          /\ told' = [told EXCEPT ![new] = call[s].pw] /\ Carried(s)
      BY <2>3 DEF Created
    <3>2. new \notin Known /\ new \in Uuids /\ new # None /\ new \notin DOMAIN users
      BY DEF Unused, Known, Uuids, None
    <3>3. \A r \in Slots : call[r].who # new
      BY <3>2 DEF KnownInv
    <3>4. \A r \in Slots : \A u : Changes(r, u)' => r # s /\ Changes(r, u) /\ call'[r] = call[r]
      BY <2>1, <3>1 DEF Changes, Carried
    <3>5. \A r \in Slots : \A u : Changes(r, u) => r # s /\ Changes(r, u)' /\ call'[r] = call[r]
      BY <2>1, <3>1 DEF Changes, Carried
    <3>6. ASSUME NEW u \in DOMAIN users' \ unsure' PROVE PasswordOf(u)'
      <4>1. CASE u = new
        <5>1. \A r \in Slots : ~Changes(r, u)'
          BY <3>3, <3>4, <4>1 DEF Changes
        <5>2. users'[u].pw = told'[u]
          BY <1>0, <3>1, <3>2, <4>1 DEF HistoryOK
        <5> QED
          BY <5>1, <5>2 DEF PasswordOf
      <4>2. CASE u # new
        <5>1. PasswordOf(u) /\ u \in DOMAIN users \ unsure /\ users'[u] = users[u] /\ told'[u] = told[u]
          BY <1>0, <2>1, <3>1, <4>2, PasswordParts DEF HistoryOK, TablesOK
        <5>2. \A r \in Slots : Changes(r, u)' => call'[r].at # "failed"
          BY <3>4, <5>1 DEF PasswordOf
        <5>3. PasswordAlone(u)
          BY <3>4, <3>5, <5>1, <5>2 DEF PasswordAlone
        <5> QED
          BY <5>1, <5>3, PasswordAloneKeeps
      <4> QED
        BY <4>1, <4>2
    <3> QED
      BY <3>6 DEF PasswordInv, PasswordOf, Changes
  <2> QED
    BY <2>1, <2>2, <2>3
<1>6. ASSUME NEW s \in Slots, SetUserDisabled(s) \/ SoftDeleteUser(s) PROVE PasswordInv'
  <2>1. /\ SameRows /\ SameWords /\ UNCHANGED <<told, unsure>> /\ (GoesOn(s, "audit") \/ GoesOn(s, "clean"))
        /\ call[s].op \in {"disable", "enable", "delete"}
    BY <1>6, SetUserDisabledIs, SoftDeleteUserIs DEF history
  <2> QED
    BY <1>a, <2>1 DEF SameRows, SameWords, GoesOn, Carried
<1>7. ASSUME NEW s \in Slots, CleanupUserData(s) PROVE PasswordInv'
  <2>1. /\ (GoesOn(s, "audit") \/ GoesOn(s, "refused")) /\ UNCHANGED <<told, unsure>>
        /\ call[s].op \in {"delete", "cleanup"}
        /\ DOMAIN users' \subseteq DOMAIN users /\ \A v \in DOMAIN users' : users'[v] = users[v]
    BY <1>7, CleanupUserDataIs DEF history, tables
  <2> QED
    BY <1>a, <2>1 DEF GoesOn, Carried
<1>8. ASSUME NEW s \in Slots, RecordAudit(s) \/ WriteRow(s) PROVE PasswordInv'
  <2>1. /\ (GoesOn(s, "ok") \/ GoesOn(s, "failed")) /\ UNCHANGED <<users, told, unsure>>
        /\ call[s].op \in Acts \cup {"write"}
    BY <1>8, RecordAuditIs, WriteRowIs DEF history
  <2> QED
    BY <1>a, <2>1 DEF GoesOn, Carried, Acts
<1>9. ASSUME NEW s \in Slots, ChangeUserPassword(s) PROVE PasswordInv'
  <2>1. /\ call[s].op = "password" /\ GoesOn(s, "ok") /\ SameRows /\ UNCHANGED <<told, unsure>>
        /\ \A v \in DOMAIN users : users'[v].pw = IF v = call[s].who THEN call[s].new ELSE users[v].pw
    BY <1>9, ChangeUserPasswordIs DEF history
  <2>2. /\ call'[s].op = "password" /\ call'[s].who = call[s].who /\ call'[s].new = call[s].new
        /\ call'[s].at = "ok" /\ \A r \in Slots : r # s => call'[r] = call[r]
    BY <2>1 DEF GoesOn, Carried
  <2>3. ASSUME NEW u \in DOMAIN users' \ unsure' PROVE PasswordOf(u)'
    <3>1. PasswordOf(u) /\ u \in DOMAIN users \ unsure
      BY <2>1, PasswordParts DEF SameRows
    <3>2. \A r \in Slots : Changes(r, u)' <=> Changes(r, u)
      BY <2>1, <2>2 DEF Changes
    <3>3. CASE call[s].who = u
      <4>1. Changes(s, u)
        BY <2>1, <3>3 DEF Changes
      <4>2. \A r \in Slots : Changes(r, u) => r = s
        BY <3>1, <4>1 DEF PasswordOf
      <4>3. users'[u].pw = call'[s].new
        BY <2>1, <2>2, <3>1, <3>3
      <4>4. \A r \in Slots : Changes(r, u)' => r = s
        BY <3>2, <4>2
      <4>5. Changes(s, u)'
        BY <3>2, <4>1
      <4> QED
        BY <2>2, <4>3, <4>4, <4>5 DEF PasswordOf
    <3>4. CASE call[s].who # u
      <4>1. \A r \in Slots : Changes(r, u) => r # s /\ call'[r] = call[r]
        BY <2>2, <3>4 DEF Changes
      <4>2. \A r \in Slots : Changes(r, u) => call'[r].at # "failed"
        BY <3>1, <4>1 DEF PasswordOf
      <4>3. users'[u].pw = users[u].pw /\ told'[u] = told[u]
        BY <2>1, <3>1, <3>4
      <4>4. PasswordAlone(u)
        BY <3>1, <3>2, <4>1, <4>2, <4>3 DEF PasswordAlone
      <4> QED
        BY <3>1, <4>4, PasswordAloneKeeps
    <3> QED
      BY <3>3, <3>4
  <2> QED
    BY <2>3 DEF PasswordInv, PasswordOf, Changes
<1>10. ASSUME NEW s \in Slots, ChangeUsername(s) PROVE PasswordInv'
  <2>1. /\ (GoesOn(s, "ok") \/ GoesOn(s, "failed")) /\ UNCHANGED <<told, unsure>>
        /\ call[s].op = "rename" /\ SameRows /\ SameWords
    BY <1>10, ChangeUsernameIs DEF history
  <2> QED
    BY <1>a, <2>1 DEF GoesOn, Carried, SameRows, SameWords
<1>11. ASSUME NEW s \in Slots, Fail(s) PROVE PasswordInv'
  <2>1. /\ GoesOn(s, "failed") /\ UNCHANGED <<users, told>>
        /\ unsure' = IF call[s].op = "password" THEN unsure \cup {call[s].who} ELSE unsure
    BY <1>11, FailIs DEF tables
  <2>2. CASE call[s].op # "password"
    BY <1>a, <2>1, <2>2 DEF GoesOn, Carried
  <2>3. CASE call[s].op = "password"
    <3>1. ASSUME NEW u \in DOMAIN users' \ unsure' PROVE PasswordOf(u)'
      <4>1. PasswordOf(u) /\ u \in DOMAIN users \ unsure /\ call[s].who # u
        BY <2>1, <2>3, PasswordParts
      <4>2. \A r \in Slots : Changes(r, u)' => r # s /\ Changes(r, u) /\ call'[r] = call[r]
        BY <2>1, <4>1 DEF Changes, GoesOn, Carried
      <4>3. \A r \in Slots : Changes(r, u) => r # s /\ Changes(r, u)' /\ call'[r] = call[r]
        BY <2>1, <4>1 DEF Changes, GoesOn, Carried
      <4>4. \A r \in Slots : Changes(r, u)' => call'[r].at # "failed"
        BY <4>1, <4>2 DEF PasswordOf
      <4>5. PasswordAlone(u)
        BY <2>1, <4>1, <4>2, <4>3, <4>4 DEF PasswordAlone
      <4> QED
        BY <4>1, <4>5, PasswordAloneKeeps
    <3> QED
      BY <3>1 DEF PasswordInv, PasswordOf, Changes
  <2> QED
    BY <2>2, <2>3
<1>12. ASSUME NEW s \in Slots, Passes(s) PROVE PasswordInv'
  <2>1. /\ Ends(s) /\ UNCHANGED users
        /\ \/ UNCHANGED <<told, unsure>> /\ ~(call[s].op = "password" /\ call[s].at = "ok")
           \/ /\ call[s].op = "password" /\ call[s].at = "ok"
              /\ told' = told /\ unsure' = unsure \cup {call[s].who}
           \/ /\ call[s].op = "password" /\ call[s].at = "ok"
              /\ told' = [told EXCEPT ![call[s].who] = call[s].new] /\ unsure' = unsure
    BY <1>12, PassesIs DEF tables
  <2>2. call'[s].op = "none" /\ \A r \in Slots : r # s => call'[r] = call[r]
    BY <2>1, NoCallIs DEF Ends
  <2>3. ASSUME NEW u \in DOMAIN users' \ unsure' PROVE PasswordOf(u)'
    <3>1. PasswordOf(u) /\ u \in DOMAIN users \ unsure /\ u \in Uuids
      BY <1>0, <2>1, PasswordParts DEF TablesOK
    <3>2. \A r \in Slots : Changes(r, u)' => r # s /\ Changes(r, u) /\ call'[r] = call[r]
      BY <2>2 DEF Changes
    <3>3. \A r \in Slots : Changes(r, u) /\ r # s => Changes(r, u)' /\ call'[r] = call[r]
      BY <2>2 DEF Changes
    <3>4. CASE Changes(s, u) /\ call[s].at = "ok"
      <4>1. \A r \in Slots : ~Changes(r, u)'
        BY <3>1, <3>2, <3>4 DEF PasswordOf
      <4>2. told' = [told EXCEPT ![u] = call[s].new]
        BY <2>1, <2>3, <3>4 DEF Changes
      <4>3. users'[u].pw = told'[u]
        BY <1>0, <2>1, <3>1, <3>4, <4>2 DEF PasswordOf, HistoryOK
      <4> QED
        BY <4>1, <4>3 DEF PasswordOf
    <3>5. CASE ~(Changes(s, u) /\ call[s].at = "ok")
      <4>1. told'[u] = told[u]
        BY <1>0, <2>1, <3>1, <3>5 DEF Changes, HistoryOK
      <4>2. \A r \in Slots : Changes(r, u)' => call'[r].at # "failed"
        BY <3>1, <3>2 DEF PasswordOf
      <4>3. PasswordAlone(u)
        BY <2>1, <3>1, <3>2, <3>3, <3>5, <4>1, <4>2 DEF PasswordAlone
      <4> QED
        BY <3>1, <4>3, PasswordAloneKeeps
    <3> QED
      BY <3>4, <3>5
  <2> QED
    BY <2>3 DEF PasswordInv, PasswordOf, Changes
<1>13. ASSUME NEW s \in Slots, LoggedIn(s) PROVE PasswordInv'
  <2>1. /\ UNCHANGED <<users, told, unsure>> /\ call[s].op = "login" /\ call'[s] = NoCall
        /\ \A r \in Slots : r # s => SameWork(r)
    BY <1>13, LoggedInIs DEF Left, tables, history
  <2> QED
    BY <2>1, PasswordsAlone, NoCallIs
<1>14. ASSUME NEW s \in Slots, ActDone(s) PROVE PasswordInv'
  <2>1. /\ UNCHANGED <<users, told, unsure>> /\ call[s].op \in Acts /\ call'[s].op = "initial"
        /\ \A r \in Slots : r # s => call'[r] = call[r]
    BY <1>14, ActDoneIs DEF Sends, tables, history
  <2> QED
    BY <1>a, <2>1 DEF Acts
<1>15. ASSUME NEW s \in Slots, ListArrives(s) PROVE PasswordInv'
  <2>1. /\ UNCHANGED <<users, told, unsure>> /\ call[s].op \in Lists /\ call'[s].op = "none"
        /\ \A r \in Slots : r # s => call'[r] = call[r]
    BY <1>15, ListArrivesIs, NoCallIs DEF Ends, tables, history
  <2> QED
    BY <1>a, <2>1 DEF Lists
<1> QED
  BY <1>1, <1>2, <1>3, <1>4, <1>5, <1>6, <1>7, <1>8, <1>9, <1>10, <1>11, <1>12, <1>13, <1>14, <1>15
     DEF Step, Writes

-----------------------------------------------------------------------------
(* The list a page shows.                                                  *)

(* Acts that have changed the table and not been answered.                 *)
Done(s) == call[s].at \in {"audit", "ok"} \/ (call[s].op = "delete" /\ call[s].at = "clean")
(* A list under way that will show the table as it is.                     *)
Fresher(s) == call[s].at = "sent" \/ (call[s].at = "ok" /\ call[s].list = Listed(users))

(* What page t may have under way, and what keeps its list true.           *)
AwaitsOK(t) == \A s \in Slots : call[s].by = t =>
    /\ call[s].op \in {"login", "bootstrap"} => page[t].view = "login"
    /\ call[s].op \in Acts \cup Lists => page[t].view = "centre"
    /\ call[s].op \in Lists => call[s].at \in {"sent", "ok", "failed"}
    /\ call[s].op \in Lists /\ call[s].at = "failed" => page[t].behind \/ page[t].crossed
OneList(t) == ~page[t].crossed => \A s, r \in Mine(t, Lists) : s = r
Shows(t) ==
    ~page[t].behind /\ ~page[t].crossed =>
       \/ \E s \in Mine(t, Acts) : Done(s)
       \/ \E s \in Mine(t, Lists) : Fresher(s)
       \/ Mine(t, Lists) = {} /\ page[t].list = Listed(users)
BehindElsewhere(t) == page[t].view # "centre" => page[t].behind

ListOf(t) == BehindElsewhere(t) /\ AwaitsOK(t) /\ OneList(t) /\ Shows(t)

LEMMA ListParts == ListInv <=> \A t \in Tabs : ListOf(t)
  BY DEF ListInv, ListOf, AwaitsOK, OneList, Shows, BehindElsewhere, Done, Fresher

LEMMA ListNext ==
    ASSUME \A t \in Tabs : ListOf(t)'
    PROVE  ListInv'
  BY DEF ListInv, ListOf, AwaitsOK, OneList, Shows, BehindElsewhere, Done, Fresher

LEMMA ListedSame ==
    ASSUME TablesOK, TablesOK', SameRows, SameNames, SameAdmins, SameShut, SameEnded
    PROVE  Listed(users') = Listed(users)
<1>1. ASSUME NEW u \in DOMAIN users
      PROVE  /\ users'[u].name = users[u].name /\ users'[u].admin = users[u].admin
             /\ users'[u].disabled = users[u].disabled /\ users'[u].deleted = users[u].deleted
  <2>1. users[u] \in Row /\ users'[u] \in Row
    BY DEF TablesOK, SameRows
  <2>2. /\ users[u].admin \in BOOLEAN /\ users'[u].admin \in BOOLEAN
        /\ users[u].disabled \in BOOLEAN /\ users'[u].disabled \in BOOLEAN
        /\ users[u].deleted \in BOOLEAN /\ users'[u].deleted \in BOOLEAN
    BY <2>1 DEF Row
  <2> QED
    BY <2>2 DEF SameNames, SameAdmins, SameShut, SameEnded
<1>2. DOMAIN users' = DOMAIN users
  BY DEF SameRows
<1> QED
  BY <1>1, <1>2 DEF Listed

(* Page t, its requests and the table are as they were.                    *)
LEMMA ListStays ==
    ASSUME NEW t \in Tabs, ListOf(t), SamePage(t), Listed(users') = Listed(users),
           \A s \in Slots : call'[s].by = t \/ call[s].by = t => SameWork(s) /\ call'[s].by = call[s].by
    PROVE  ListOf(t)'
<1>1. \A ops : Mine(t, ops)' = Mine(t, ops)
  BY DEF Mine, SameWork
<1>2. /\ page'[t].view = page[t].view /\ page'[t].list = page[t].list
      /\ page'[t].behind <=> page[t].behind
      /\ page'[t].crossed <=> page[t].crossed
  BY DEF SamePage, Same
<1>3. BehindElsewhere(t)'
  BY <1>2 DEF ListOf, BehindElsewhere
<1>4. AwaitsOK(t)'
  BY <1>2 DEF ListOf, AwaitsOK, SameWork
<1>5. OneList(t)'
  BY <1>1, <1>2 DEF ListOf, OneList
<1>6. \A s \in Mine(t, Acts) : Done(s) => Done(s)'
  BY DEF Mine, Done, SameWork
<1>7. \A s \in Mine(t, Lists) : Fresher(s) => Fresher(s)'
  BY DEF Mine, Fresher, SameWork
<1>8. Shows(t)'
  BY <1>1, <1>2, <1>6, <1>7 DEF ListOf, Shows
<1> QED
  BY <1>3, <1>4, <1>5, <1>8 DEF ListOf

(* The page has fallen behind: it promises nothing but its place.          *)
LEMMA BehindMoves ==
    ASSUME NEW t \in Tabs, NEW s \in Slots, ListOf(t), Carried(s),
           page'[t].view = page[t].view, page'[t].behind, page'[t].crossed <=> page[t].crossed,
           call'[s].op \in Lists => call'[s].at \in {"sent", "ok", "failed"}
    PROVE  ListOf(t)'
<1>1. \A ops : Mine(t, ops)' = Mine(t, ops)
  BY DEF Mine, Carried
<1>2. AwaitsOK(t)'
  BY DEF ListOf, AwaitsOK, Carried
<1>3. OneList(t)'
  BY <1>1 DEF ListOf, OneList
<1> QED
  BY <1>2, <1>3 DEF ListOf, BehindElsewhere, Shows

(* The page is as it was, and the table what it was to see of it.          *)
LEMMA SameMoves ==
    ASSUME NEW t \in Tabs, NEW s \in Slots, ListOf(t), Carried(s), SamePage(t),
           Listed(users') = Listed(users),
           call'[s].op \in Lists => call'[s].at = "ok" /\ call'[s].list = Listed(users),
           call[s].op \in Acts /\ Done(s) => Done(s)'
    PROVE  ListOf(t)'
<1>1. \A ops : Mine(t, ops)' = Mine(t, ops)
  BY DEF Mine, Carried
<1>2. /\ page'[t].view = page[t].view /\ page'[t].list = page[t].list
      /\ page'[t].behind <=> page[t].behind
      /\ page'[t].crossed <=> page[t].crossed
  BY DEF SamePage, Same
<1>3. BehindElsewhere(t)'
  BY <1>2 DEF ListOf, BehindElsewhere
<1>4. AwaitsOK(t)'
  BY <1>2 DEF ListOf, AwaitsOK, Carried
<1>5. OneList(t)'
  BY <1>1, <1>2 DEF ListOf, OneList
<1>6. \A r \in Mine(t, Acts) : Done(r) => Done(r)'
  BY DEF Mine, Done, Carried
<1>7. \A r \in Mine(t, Lists) : Fresher(r) => Fresher(r)'
  BY DEF Mine, Fresher, Carried
<1>8. Shows(t)'
  BY <1>1, <1>2, <1>6, <1>7 DEF ListOf, Shows
<1> QED
  BY <1>3, <1>4, <1>5, <1>8 DEF ListOf

(* An act of the page itself changed the table and is not answered yet.    *)
LEMMA ActMoves ==
    ASSUME NEW t \in Tabs, NEW s \in Slots, ListOf(t), Carried(s), call[s].by = t, call[s].op \in Acts,
           page'[t].view = page[t].view, page'[t].behind <=> page[t].behind,
           page'[t].crossed <=> page[t].crossed, Done(s)'
    PROVE  ListOf(t)'
<1>1. \A ops : Mine(t, ops)' = Mine(t, ops)
  BY DEF Mine, Carried
<1>2. BehindElsewhere(t)'
  BY DEF ListOf, BehindElsewhere
<1>3. AwaitsOK(t)'
  BY DEF ListOf, AwaitsOK, Carried, Acts, Lists
<1>4. OneList(t)'
  BY <1>1 DEF ListOf, OneList
<1>5. s \in Mine(t, Acts)
  BY DEF Mine
<1>6. Shows(t)'
  BY <1>1, <1>5 DEF Shows
<1> QED
  BY <1>2, <1>3, <1>4, <1>6 DEF ListOf

(* Behinds: every page but n, whose request changed the table.             *)
LEMMA BehindsKeeps ==
    ASSUME NEW t \in Tabs, NEW s \in Slots, ListOf(t), Carried(s), Behinds(call[s].by),
           call'[s].op \notin Lists,
           call[s].by = t => page[t].behind \/ (call[s].op \in Acts /\ Done(s)')
    PROVE  ListOf(t)'
<1>1. /\ page'[t].view = page[t].view
      /\ page'[t].behind <=> page[t].behind \/ t # call[s].by
      /\ page'[t].crossed <=> page[t].crossed
  BY DEF Behinds
<1>2. CASE page'[t].behind
  BY <1>1, <1>2, BehindMoves
<1>3. CASE ~page'[t].behind
  <2>1. call[s].by = t /\ call[s].op \in Acts /\ Done(s)' /\ (page'[t].behind <=> page[t].behind)
    BY <1>1, <1>3
  <2> QED
    BY <1>1, <2>1, ActMoves
<1> QED
  BY <1>2, <1>3

(* A list is asked for: what else is under way crosses it.                 *)
LEMMA AskedKeeps ==
    ASSUME NEW t \in Tabs, NEW s \in Slots, ListOf(t), Sends(t, s), call'[s].op \in Lists, Asked(t),
           page[t].view = "centre", call[s].op \notin Lists
    PROVE  ListOf(t)'
<1>1. /\ call'[s].by = t /\ call'[s].at = "sent" /\ \A r \in Slots : r # s => call'[r] = call[r]
  BY DEF Sends, Fresh
<1>2. /\ page'[t].view = "centre" /\ ~page'[t].behind
      /\ page'[t].crossed <=> page[t].crossed \/ Mine(t, Lists) # {}
  BY DEF Asked
<1>3. Mine(t, Lists)' = Mine(t, Lists) \cup {s}
  BY <1>1 DEF Mine
<1>4. BehindElsewhere(t)'
  BY <1>2 DEF BehindElsewhere
<1>5. AwaitsOK(t)'
  <2> SUFFICES ASSUME NEW r \in Slots, call'[r].by = t
               PROVE  /\ call'[r].op \in {"login", "bootstrap"} => page'[t].view = "login"
                      /\ call'[r].op \in Acts \cup Lists => page'[t].view = "centre"
                      /\ call'[r].op \in Lists => call'[r].at \in {"sent", "ok", "failed"}
                      /\ call'[r].op \in Lists /\ call'[r].at = "failed" => page'[t].behind \/ page'[t].crossed
    BY DEF AwaitsOK
  <2>1. CASE r = s
    BY <1>1, <1>2, <2>1 DEF Lists
  <2>2. CASE r # s
    <3>1. call[r].by = t /\ call'[r] = call[r]
      BY <1>1, <2>2
    <3>2. call[r].op \in Lists => page'[t].crossed
      BY <1>2, <3>1 DEF Mine
    <3>3. /\ call[r].op \notin {"login", "bootstrap"}
          /\ call[r].op \in Lists => call[r].at \in {"sent", "ok", "failed"}
      BY <3>1 DEF ListOf, AwaitsOK
    <3> QED
      BY <1>2, <3>1, <3>2, <3>3
  <2> QED
    BY <2>1, <2>2
<1>6. OneList(t)'
  BY <1>2, <1>3 DEF OneList
<1>7. Fresher(s)'
  BY <1>1 DEF Fresher
<1>8. Shows(t)'
  BY <1>3, <1>7 DEF Shows
<1> QED
  BY <1>4, <1>5, <1>6, <1>8 DEF ListOf

(* A request ends without the page showing anything new.                   *)
LEMMA EndsKeeps ==
    ASSUME NEW t \in Tabs, NEW s \in Slots, ListOf(t), Ends(s), SamePage(t), users' = users,
           call[s].by = t /\ call[s].op \in Acts \cup Lists => call[s].at \in {"refused", "failed"}
    PROVE  ListOf(t)'
<1>1. /\ call'[s].by # t /\ \A r \in Slots : r # s => call'[r] = call[r]
  BY NoCallIs, AccountsAssumption DEF Ends
<1>2. \A ops : Mine(t, ops)' = Mine(t, ops) \ {s}
  BY <1>1 DEF Mine
<1>3. /\ page'[t].view = page[t].view /\ page'[t].list = page[t].list
      /\ page'[t].behind <=> page[t].behind
      /\ page'[t].crossed <=> page[t].crossed
  BY DEF SamePage, Same
<1>4. BehindElsewhere(t)'
  BY <1>3 DEF ListOf, BehindElsewhere
<1>5. AwaitsOK(t)'
  <2> SUFFICES ASSUME NEW r \in Slots, call'[r].by = t
               PROVE  /\ call'[r].op \in {"login", "bootstrap"} => page'[t].view = "login"
                      /\ call'[r].op \in Acts \cup Lists => page'[t].view = "centre"
                      /\ call'[r].op \in Lists => call'[r].at \in {"sent", "ok", "failed"}
                      /\ call'[r].op \in Lists /\ call'[r].at = "failed" => page'[t].behind \/ page'[t].crossed
    BY DEF AwaitsOK
  <2>1. call'[r] = call[r] /\ call[r].by = t
    BY <1>1
  <2> QED
    BY <1>3, <2>1 DEF ListOf, AwaitsOK
<1>6. OneList(t)'
  BY <1>2, <1>3 DEF ListOf, OneList
<1>7. Shows(t)'
  <2> SUFFICES ASSUME ~page'[t].behind, ~page'[t].crossed
               PROVE  \/ \E r \in Mine(t, Acts)' : Done(r)'
                      \/ \E r \in Mine(t, Lists)' : Fresher(r)'
                      \/ Mine(t, Lists)' = {} /\ page'[t].list = Listed(users')
    BY DEF Shows
  <2>1. \/ \E r \in Mine(t, Acts) : Done(r)
        \/ \E r \in Mine(t, Lists) : Fresher(r)
        \/ Mine(t, Lists) = {} /\ page[t].list = Listed(users)
    BY <1>3 DEF ListOf, Shows
  <2>2. ASSUME NEW r \in Mine(t, Acts), Done(r) PROVE r \in Mine(t, Acts)' /\ Done(r)'
    <3>1. r # s
      BY <2>2 DEF Mine, Done
    <3> QED
      BY <1>1, <1>2, <2>2, <3>1 DEF Done, Mine
  <2>3. ASSUME NEW r \in Mine(t, Lists), Fresher(r) PROVE r \in Mine(t, Lists)' /\ Fresher(r)'
    <3>1. r # s
      BY <2>3 DEF Mine, Fresher
    <3> QED
      BY <1>1, <1>2, <2>3, <3>1 DEF Fresher, Mine
  <2>4. Mine(t, Lists) = {} => Mine(t, Lists)' = {}
    BY <1>2
  <2> QED
    BY <1>3, <2>1, <2>2, <2>3, <2>4
<1> QED
  BY <1>4, <1>5, <1>6, <1>7 DEF ListOf

(* The page that went away.                                                *)
LEMMA LeftKeeps ==
    ASSUME NEW t \in Tabs, page'[t].behind, \A s \in Slots : call'[s].by # t
    PROVE  ListOf(t)'
<1>1. \A ops : Mine(t, ops)' = {}
  BY DEF Mine
<1> QED
  BY <1>1 DEF ListOf, BehindElsewhere, AwaitsOK, OneList, Shows

(* Any other request of the page is sent.                                  *)
LEMMA SentKeeps ==
    ASSUME NEW t \in Tabs, NEW s \in Slots, ListOf(t), Sends(t, s), SamePage(t), users' = users,
           call[s] = NoCall, call'[s].op \notin Lists,
           call'[s].op \in Acts => page[t].view = "centre",
           call'[s].op \in {"login", "bootstrap"} => page[t].view = "login"
    PROVE  ListOf(t)'
<1>1. /\ call'[s].by = t /\ \A r \in Slots : r # s => call'[r] = call[r]
      /\ call[s].op = "none"
  BY NoCallIs DEF Sends, Fresh
<1>2. /\ page'[t].view = page[t].view /\ page'[t].list = page[t].list
      /\ page'[t].behind <=> page[t].behind
      /\ page'[t].crossed <=> page[t].crossed
  BY DEF SamePage, Same
<1>3. Mine(t, Lists)' = Mine(t, Lists) /\ s \notin Mine(t, Lists) /\ s \notin Mine(t, Acts)
  BY <1>1 DEF Mine, Lists, Acts
<1>4. BehindElsewhere(t)'
  BY <1>2 DEF ListOf, BehindElsewhere
<1>5. AwaitsOK(t)'
  <2> SUFFICES ASSUME NEW r \in Slots, call'[r].by = t
               PROVE  /\ call'[r].op \in {"login", "bootstrap"} => page'[t].view = "login"
                      /\ call'[r].op \in Acts \cup Lists => page'[t].view = "centre"
                      /\ call'[r].op \in Lists => call'[r].at \in {"sent", "ok", "failed"}
                      /\ call'[r].op \in Lists /\ call'[r].at = "failed" => page'[t].behind \/ page'[t].crossed
    BY DEF AwaitsOK
  <2>1. CASE r = s
    BY <1>2, <2>1
  <2>2. CASE r # s
    <3>1. call'[r] = call[r] /\ call[r].by = t
      BY <1>1, <2>2
    <3> QED
      BY <1>2, <3>1 DEF ListOf, AwaitsOK
  <2> QED
    BY <2>1, <2>2
<1>6. OneList(t)'
  BY <1>2, <1>3 DEF ListOf, OneList
<1>7. \A r \in Mine(t, Acts) : Done(r) => r \in Mine(t, Acts)' /\ Done(r)'
  BY <1>1, <1>3 DEF Mine, Done
<1>8. \A r \in Mine(t, Lists) : Fresher(r) => Fresher(r)'
  BY <1>1, <1>3 DEF Mine, Fresher
<1>9. Shows(t)'
  BY <1>2, <1>3, <1>7, <1>8 DEF ListOf, Shows
<1> QED
  BY <1>4, <1>5, <1>6, <1>9 DEF ListOf

(* The one list under way arrives.                                         *)
LEMMA ArrivedKeeps ==
    ASSUME NEW t \in Tabs, NEW s \in Slots, ListOf(t), Ends(s), users' = users,
           call[s].by = t, call[s].op \in Lists, call[s].at = "ok",
           page'[t].view = page[t].view, page'[t].list = call[s].list,
           page'[t].behind <=> page[t].behind, page'[t].crossed <=> page[t].crossed
    PROVE  ListOf(t)'
<1>1. /\ call'[s].by # t /\ \A r \in Slots : r # s => call'[r] = call[r]
  BY NoCallIs, AccountsAssumption DEF Ends
<1>2. \A ops : Mine(t, ops)' = Mine(t, ops) \ {s}
  BY <1>1 DEF Mine
<1>4. BehindElsewhere(t)'
  BY DEF ListOf, BehindElsewhere
<1>5. AwaitsOK(t)'
  <2> SUFFICES ASSUME NEW r \in Slots, call'[r].by = t
               PROVE  /\ call'[r].op \in {"login", "bootstrap"} => page'[t].view = "login"
                      /\ call'[r].op \in Acts \cup Lists => page'[t].view = "centre"
                      /\ call'[r].op \in Lists => call'[r].at \in {"sent", "ok", "failed"}
                      /\ call'[r].op \in Lists /\ call'[r].at = "failed" => page'[t].behind \/ page'[t].crossed
    BY DEF AwaitsOK
  <2>1. call'[r] = call[r] /\ call[r].by = t
    BY <1>1
  <2> QED
    BY <2>1 DEF ListOf, AwaitsOK
<1>6. OneList(t)'
  BY <1>2 DEF ListOf, OneList
<1>7. Shows(t)'
  <2> SUFFICES ASSUME ~page'[t].behind, ~page'[t].crossed
               PROVE  \/ \E r \in Mine(t, Acts)' : Done(r)'
                      \/ Mine(t, Lists)' = {} /\ page'[t].list = Listed(users')
    BY DEF Shows
  <2>1. \/ \E r \in Mine(t, Acts) : Done(r)
        \/ \E r \in Mine(t, Lists) : Fresher(r)
        \/ Mine(t, Lists) = {}
    BY DEF ListOf, Shows
  <2>2. Mine(t, Lists) = {s}
    BY DEF ListOf, OneList, Mine
  <2>3. ASSUME NEW r \in Mine(t, Acts), Done(r) PROVE r \in Mine(t, Acts)' /\ Done(r)'
    <3>1. r # s
      BY <2>3 DEF Mine, Acts, Lists
    <3> QED
      BY <1>1, <1>2, <2>3, <3>1 DEF Done, Mine
  <2>4. ASSUME NEW r \in Mine(t, Lists), Fresher(r) PROVE page'[t].list = Listed(users')
    BY <2>2, <2>4 DEF Fresher
  <2> QED
    BY <1>2, <2>1, <2>2, <2>3, <2>4
<1> QED
  BY <1>4, <1>5, <1>6, <1>7 DEF ListOf

LEMMA ListStep ==
    ASSUME ShapeInv, KnownInv, ListInv, Step
    PROVE  ListInv'
<1>0. TablesOK /\ CallsOK /\ RequestsOK /\ Nobody \notin Tabs
  BY AccountsAssumption DEF ShapeInv
<1>a. \A t \in Tabs : ListOf(t)
  BY ListParts
<1>b. SUFFICES ASSUME NEW v \in Tabs PROVE ListOf(v)'
  BY ListNext
<1>c. ListOf(v)
  BY <1>a
<1>1. ASSUME NEW t \in Tabs, QuietPage(t) PROVE ListOf(v)'
  <2>1. SamePage(v) /\ call' = call /\ users' = users
    BY <1>1, QuietPageIs DEF tables
  <2>2. \A s \in Slots : SameWork(s) /\ call'[s].by = call[s].by
    BY <1>0, <2>1, CallsStay
  <2> QED
    BY <1>c, <2>1, <2>2, ListStays
<1>2. ASSUME NEW t \in Tabs, Leaves(t) PROVE ListOf(v)'
  <2>1. /\ users' = users /\ \A w \in Tabs : w # t => page'[w] = page[w]
        /\ \/ page'[t].behind /\ \A s \in Slots : Left(t, s)
           \/ SamePage(t) /\ call' = call
    BY <1>2, LeavesIs DEF tables
  <2>2. CASE SamePage(t) /\ call' = call
    <3>1. SamePage(v)
      BY <2>1, <2>2 DEF SamePage, Same
    <3>2. \A s \in Slots : SameWork(s) /\ call'[s].by = call[s].by
      BY <1>0, <2>2, CallsStay
    <3> QED
      BY <1>c, <2>1, <3>1, <3>2, ListStays
  <2>3. CASE page'[t].behind /\ \A s \in Slots : Left(t, s)
    <3>1. CASE v = t
      <4>1. \A s \in Slots : call'[s].by # t
        BY <1>0, <2>3 DEF Left
      <4> QED
        BY <2>3, <3>1, <4>1, LeftKeeps
    <3>2. CASE v # t
      <4>1. SamePage(v)
        BY <2>1, <3>2 DEF SamePage, Same
      <4>2. \A s \in Slots : call'[s].by = v \/ call[s].by = v => SameWork(s) /\ call'[s].by = call[s].by
        BY <1>0, <2>3, <3>2 DEF Left
      <4> QED
        BY <1>c, <2>1, <4>1, <4>2, ListStays
    <3> QED
      BY <3>1, <3>2
  <2> QED
    BY <2>1, <2>2, <2>3
<1>3. ASSUME NEW t \in Tabs, NEW s \in Free, Requests(t, s) PROVE ListOf(v)'
  <2>1. RequestedBy(t, s) /\ s \in Slots /\ call[s] = NoCall
    BY <1>3, RequestsIs DEF Free
  <2>2. Sends(t, s) /\ users' = users
    BY <2>1 DEF RequestedBy, tables
  <2>3. CASE v # t
    <3>1. SamePage(v)
      BY <2>1, <2>3 DEF RequestedBy
    <3>2. call'[s].by = t /\ call[s].by = Nobody /\ \A r \in Slots : r # s => call'[r] = call[r]
      BY <2>1, <2>2, NoCallIs DEF Sends, Fresh
    <3>3. \A r \in Slots : call'[r].by = v \/ call[r].by = v => SameWork(r) /\ call'[r].by = call[r].by
      BY <1>0, <2>3, <3>2 DEF SameWork
    <3> QED
      BY <1>c, <2>2, <3>1, <3>3, ListStays
  <2>4. CASE v = t /\ call'[s].op \in Lists
    <3>1. Asked(t) /\ page[t].view = "centre"
      BY <2>1, <2>4 DEF RequestedBy
    <3>2. call[s].op \notin Lists
      BY <2>1, NoCallIs DEF Lists
    <3> QED
      BY <1>c, <2>1, <2>2, <2>4, <3>1, <3>2, AskedKeeps
  <2>5. CASE v = t /\ call'[s].op \notin Lists
    <3>1. /\ call'[s].op \in Acts => page[t].view = "centre"
          /\ call'[s].op \in {"login", "bootstrap"} => page[t].view = "login"
      BY <2>1, <2>5 DEF RequestedBy
    <3>2. SamePage(t)
      BY <2>1, <2>5 DEF RequestedBy
    <3> QED
      BY <1>c, <2>1, <2>2, <2>5, <3>1, <3>2, SentKeeps
  <2> QED
    BY <2>3, <2>4, <2>5
<1>4. ASSUME NEW s \in Slots, Looks(s) PROVE ListOf(v)'
  <2>1. LookedUp(s) /\ SamePage(v) /\ users' = users
    BY <1>4, LooksIs DEF tables
  <2>2. call'[s].op \in Lists => call'[s].at = "ok" /\ call'[s].list = Listed(users)
    BY <2>1 DEF LookedUp
  <2>3. Carried(s) /\ ~Done(s)
    BY <2>1 DEF LookedUp, Done
  <2> QED
    BY <1>c, <2>1, <2>2, <2>3, SameMoves
<1>5. ASSUME NEW s \in Slots, CreateUserWithRole(s) PROVE ListOf(v)'
  <2>1. /\ call[s].at = "insert" /\ call[s].op \in {"create", "bootstrap"}
        /\ \/ GoesOn(s, "failed") /\ users' = users /\ SamePage(v)
           \/ \E u \in Unused : Created(s, u)
    BY <1>5, CreateUserWithRoleIs
  <2>2. CASE GoesOn(s, "failed") /\ users' = users /\ SamePage(v)
    <3>1. Carried(s) /\ call'[s].op \notin Lists /\ ~Done(s)
      BY <2>1, <2>2 DEF GoesOn, Carried, Done, Lists
    <3> QED
      BY <1>c, <2>2, <3>1, SameMoves
  <2>3. CASE \E u \in Unused : Created(s, u)
    <3>1. PICK u \in Unused : Created(s, u)
      BY <2>3
    <3>2. /\ Behinds(call[s].by) /\ Carried(s)
          /\ call'[s].at = IF call[s].op = "bootstrap" THEN "ok" ELSE "audit"
      BY <3>1 DEF Created
    <3>3. call'[s].op \notin Lists
      BY <2>1, <3>2 DEF Carried, Lists
    <3>4. ASSUME call[s].by = v PROVE page[v].behind \/ (call[s].op \in Acts /\ Done(s)')
      <4>1. CASE call[s].op = "bootstrap"
        BY <1>c, <3>4, <4>1 DEF ListOf, AwaitsOK, BehindElsewhere
      <4>2. CASE call[s].op = "create"
        BY <3>2, <4>2 DEF Acts, Done
      <4> QED
        BY <2>1, <4>1, <4>2
    <3> QED
      BY <1>c, <3>2, <3>3, <3>4, BehindsKeeps
  <2> QED
    BY <2>1, <2>2, <2>3
<1>6. ASSUME NEW s \in Slots, SetUserDisabled(s) PROVE ListOf(v)'
  <2>1. GoesOn(s, "audit") /\ Behinds(call[s].by) /\ call[s].op \in {"disable", "enable"}
    BY <1>6, SetUserDisabledIs
  <2>2. Carried(s) /\ call'[s].op \notin Lists /\ call[s].op \in Acts /\ Done(s)'
    BY <2>1 DEF GoesOn, Carried, Lists, Acts, Done
  <2> QED
    BY <1>c, <2>1, <2>2, BehindsKeeps
<1>7. ASSUME NEW s \in Slots, SoftDeleteUser(s) PROVE ListOf(v)'
  <2>1. GoesOn(s, "clean") /\ Behinds(call[s].by) /\ call[s].op = "delete"
    BY <1>7, SoftDeleteUserIs
  <2>2. Carried(s) /\ call'[s].op \notin Lists /\ call[s].op \in Acts /\ Done(s)'
    BY <2>1 DEF GoesOn, Carried, Lists, Acts, Done
  <2> QED
    BY <1>c, <2>1, <2>2, BehindsKeeps
<1>8. ASSUME NEW s \in Slots, CleanupUserData(s) PROVE ListOf(v)'
  <2>1. /\ call[s].at = "clean"
        /\ \/ GoesOn(s, "refused") /\ call[s].op = "cleanup" /\ users' = users /\ SamePage(v)
           \/ GoesOn(s, "audit") /\ call[s].op = "delete" /\ users' = users /\ SamePage(v)
           \/ GoesOn(s, "audit") /\ call[s].op = "cleanup" /\ Behinds(call[s].by)
    BY <1>8, CleanupUserDataIs DEF tables
  <2>2. CASE GoesOn(s, "refused") /\ call[s].op = "cleanup" /\ users' = users /\ SamePage(v)
    <3>1. Carried(s) /\ call'[s].op \notin Lists /\ ~Done(s)
      BY <2>1, <2>2 DEF GoesOn, Carried, Lists, Done
    <3> QED
      BY <1>c, <2>2, <3>1, SameMoves
  <2>3. CASE GoesOn(s, "audit") /\ call[s].op = "delete" /\ users' = users /\ SamePage(v)
    <3>1. Carried(s) /\ call'[s].op \notin Lists /\ Done(s)'
      BY <2>3 DEF GoesOn, Carried, Lists, Done
    <3> QED
      BY <1>c, <2>3, <3>1, SameMoves
  <2>4. CASE GoesOn(s, "audit") /\ call[s].op = "cleanup" /\ Behinds(call[s].by)
    <3>1. Carried(s) /\ call'[s].op \notin Lists /\ call[s].op \in Acts /\ Done(s)'
      BY <2>4 DEF GoesOn, Carried, Lists, Acts, Done
    <3> QED
      BY <1>c, <2>4, <3>1, BehindsKeeps
  <2> QED
    BY <2>1, <2>2, <2>3, <2>4
<1>9. ASSUME NEW s \in Slots, RecordAudit(s) PROVE ListOf(v)'
  <2>1. GoesOn(s, "ok") /\ SamePage(v) /\ users' = users /\ call[s].op \in Acts
    BY <1>9, RecordAuditIs
  <2>2. Carried(s) /\ call'[s].op \notin Lists /\ Done(s)'
    BY <2>1 DEF GoesOn, Carried, Lists, Acts, Done
  <2> QED
    BY <1>c, <2>1, <2>2, SameMoves
<1>10. ASSUME NEW s \in Slots, ChangeUserPassword(s) PROVE ListOf(v)'
  <2>1. /\ TablesOK' /\ GoesOn(s, "ok") /\ SamePage(v) /\ call[s].op = "password"
        /\ SameRows /\ SameNames /\ SameAdmins /\ SameShut /\ SameEnded
    BY <1>10, ChangeUserPasswordIs
  <2>2. Listed(users') = Listed(users)
    BY <1>0, <2>1, ListedSame
  <2>3. Carried(s) /\ call'[s].op \notin Lists /\ call[s].op \notin Acts
    BY <2>1 DEF GoesOn, Carried, Lists, Acts
  <2> QED
    BY <1>c, <2>1, <2>2, <2>3, SameMoves
<1>11. ASSUME NEW s \in Slots, ChangeUsername(s) PROVE ListOf(v)'
  <2>1. /\ call[s].op = "rename"
        /\ \/ GoesOn(s, "failed") /\ SamePage(v) /\ users' = users
           \/ GoesOn(s, "ok") /\ Behinds(Nobody)
    BY <1>11, ChangeUsernameIs
  <2>2. Carried(s) /\ call'[s].op \notin Lists /\ call[s].op \notin Acts
    BY <2>1 DEF GoesOn, Carried, Lists, Acts
  <2>3. CASE SamePage(v) /\ users' = users
    BY <1>c, <2>2, <2>3, SameMoves
  <2>4. CASE Behinds(Nobody)
    <3>1. page'[v].view = page[v].view /\ page'[v].behind /\ (page'[v].crossed <=> page[v].crossed)
      BY <1>0, <2>4 DEF Behinds
    <3> QED
      BY <1>c, <2>2, <3>1, BehindMoves
  <2> QED
    BY <2>1, <2>3, <2>4
<1>12. ASSUME NEW s \in Slots, WriteRow(s) PROVE ListOf(v)'
  <2>1. Carried(s) /\ SamePage(v) /\ users' = users /\ call[s].op = "write"
    BY <1>12, WriteRowIs DEF GoesOn
  <2>2. call'[s].op \notin Lists /\ call[s].op \notin Acts
    BY <2>1 DEF Carried, Lists, Acts
  <2> QED
    BY <1>c, <2>1, <2>2, SameMoves
<1>13. ASSUME NEW s \in Slots, Fail(s) PROVE ListOf(v)'
  <2>1. /\ users' = users /\ GoesOn(s, "failed")
        /\ page'[v].view = page[v].view /\ page'[v].me = page[v].me /\ page'[v].list = page[v].list
        /\ page'[v].behind <=> page[v].behind \/ v = call[s].by
        /\ page'[v].crossed <=> page[v].crossed
    BY <1>13, FailIs DEF tables
  <2>2. Carried(s) /\ call'[s].at = "failed"
    BY <2>1 DEF GoesOn
  <2>3. CASE v = call[s].by
    BY <1>c, <2>1, <2>2, <2>3, BehindMoves
  <2>4. CASE v # call[s].by
    <3>1. SamePage(v)
      BY <2>1, <2>4 DEF SamePage, Same
    <3>2. \A r \in Slots : call'[r].by = v \/ call[r].by = v => SameWork(r) /\ call'[r].by = call[r].by
      BY <2>2, <2>4 DEF Carried, SameWork
    <3> QED
      BY <1>c, <2>1, <3>1, <3>2, ListStays
  <2> QED
    BY <2>3, <2>4
<1>14. ASSUME NEW s \in Slots, Passes(s) PROVE ListOf(v)'
  <2>1. /\ users' = users /\ Ends(s) /\ SamePage(v)
        /\ call[s].by # Nobody /\ call[s].op \in Acts \cup Lists => call[s].at \in {"refused", "failed"}
    BY <1>14, PassesIs DEF tables
  <2> QED
    BY <1>0, <1>c, <2>1, EndsKeeps
<1>15. ASSUME NEW s \in Slots, LoggedIn(s) PROVE ListOf(v)'
  <2>1. /\ users' = users /\ page'[call[s].by].behind /\ call[s].by \in Tabs
        /\ \A w \in Tabs : w # call[s].by => SamePage(w)
        /\ call'[s] = NoCall /\ \A r \in Slots : r # s => Left(call[s].by, r)
    BY <1>15, LoggedInIs DEF tables
  <2>2. CASE v = call[s].by
    <3>1. \A r \in Slots : call'[r].by # v
      BY <1>0, <2>1, <2>2, NoCallIs DEF Left
    <3> QED
      BY <2>1, <2>2, <3>1, LeftKeeps
  <2>3. CASE v # call[s].by
    <3>1. \A r \in Slots : call'[r].by = v \/ call[r].by = v => SameWork(r) /\ call'[r].by = call[r].by
      BY <1>0, <2>1, <2>3, NoCallIs DEF Left
    <3> QED
      BY <1>c, <2>1, <2>3, <3>1, ListStays
  <2> QED
    BY <2>2, <2>3
<1>16. ASSUME NEW s \in Slots, ActDone(s) PROVE ListOf(v)'
  <2>1. /\ users' = users /\ call[s].op \in Acts /\ Sends(call[s].by, s) /\ call'[s].op = "initial"
        /\ Asked(call[s].by) /\ \A w \in Tabs : w # call[s].by => SamePage(w)
    BY <1>16, ActDoneIs DEF tables
  <2>2. CASE v = call[s].by
    <3>1. page[v].view = "centre" /\ call[s].op \notin Lists /\ call'[s].op \in Lists
      BY <1>c, <2>1, <2>2 DEF ListOf, AwaitsOK, Acts, Lists
    <3> QED
      BY <1>c, <2>1, <2>2, <3>1, AskedKeeps
  <2>3. CASE v # call[s].by
    <3>1. \A r \in Slots : call'[r].by = v \/ call[r].by = v => SameWork(r) /\ call'[r].by = call[r].by
      BY <2>1, <2>3 DEF Sends, Fresh, SameWork
    <3> QED
      BY <1>c, <2>1, <2>3, <3>1, ListStays
  <2> QED
    BY <2>2, <2>3
<1>17. ASSUME NEW s \in Slots, ListArrives(s) PROVE ListOf(v)'
  <2>1. /\ users' = users /\ call[s].op \in Lists /\ call[s].at = "ok" /\ Ends(s)
        /\ page'[call[s].by].view = page[call[s].by].view
        /\ page'[call[s].by].list = call[s].list
        /\ page'[call[s].by].behind <=> page[call[s].by].behind
        /\ page'[call[s].by].crossed <=> page[call[s].by].crossed
        /\ \A w \in Tabs : w # call[s].by => SamePage(w)
    BY <1>17, ListArrivesIs DEF tables
  <2>2. CASE v = call[s].by
    BY <1>c, <2>1, <2>2, ArrivedKeeps
  <2>3. CASE v # call[s].by
    <3>1. \A r \in Slots : call'[r].by = v \/ call[r].by = v => SameWork(r) /\ call'[r].by = call[r].by
      BY <1>0, <2>1, <2>3, NoCallIs DEF Ends, SameWork
    <3> QED
      BY <1>c, <2>1, <2>3, <3>1, ListStays
  <2> QED
    BY <2>2, <2>3
<1> QED
  BY <1>1, <1>2, <1>3, <1>4, <1>5, <1>6, <1>7, <1>8, <1>9, <1>10, <1>11, <1>12, <1>13, <1>14, <1>15,
     <1>16, <1>17 DEF Step, Writes

-----------------------------------------------------------------------------
(* The beginning.                                                          *)

(* A row of the beginning: the first account administers, the second may   *)
(* be shut.                                                                *)
FirstRow(u, shut) == [NewRow(u, 1, u = 1) EXCEPT !.disabled = shut, !.deleted = shut]

LEMMA FirstRowIs ==
    ASSUME NEW u \in {1, 2}, NEW shut \in BOOLEAN
    PROVE  /\ FirstRow(u, shut) \in Row
           /\ FirstRow(u, shut).name = u /\ FirstRow(u, shut).pw = 1
           /\ FirstRow(u, shut).admin <=> u = 1
           /\ FirstRow(u, shut).disabled <=> shut
           /\ FirstRow(u, shut).deleted <=> shut
  BY AccountsAssumption DEF FirstRow, NewRow, Row

(* Whoever there is to begin with.                                         *)
FirstUsers ==
    /\ DOMAIN users \subseteq {1, 2} /\ gone = {}
    /\ \A u \in DOMAIN users :
          /\ users[u] \in Row /\ users[u].name = u
          /\ users[u].admin <=> u = 1
          /\ users[u].deleted <=> users[u].disabled
          /\ u = 1 => ~users[u].disabled
          /\ told[u] = users[u].pw
    /\ audit \subseteq Acts \X DOMAIN users
    /\ \A u \in DOMAIN users \ {1} :
          /\ <<"create", u>> \in audit
          /\ users[u].disabled => <<"delete", u>> \in audit /\ data = {}
    /\ data \subseteq DOMAIN users

LEMMA InitUsers ==
    ASSUME Init
    PROVE  FirstUsers /\ users \in [DOMAIN users -> Row] /\ told \in [Uuids -> Passwords \cup {None}]
<1>1. PICK first \in {0, 2}, shut \in BOOLEAN :
        /\ users = [u \in 1..first |-> [NewRow(u, 1, u = 1) EXCEPT
                      !.disabled = (shut /\ u = 2), !.deleted = (shut /\ u = 2)]]
        /\ audit = {"create", IF shut THEN "delete" ELSE "create"} \X (DOMAIN users \ {1})
        /\ data = IF shut THEN {} ELSE DOMAIN users \ {1}
  BY DEF Init
<1>2. DOMAIN users = 1..first /\ 1..first \subseteq {1, 2} /\ 1..first \subseteq Uuids
  <2>1. DOMAIN users = 1..first
    BY <1>1
  <2>2. 1..first \subseteq {1, 2}
    BY first \in {0, 2}
  <2>3. {1, 2} \subseteq Uuids
    BY AccountsAssumption DEF Uuids
  <2> QED
    BY <2>1, <2>2, <2>3
<1>3. \A u \in DOMAIN users : users[u] = FirstRow(u, shut /\ u = 2)
  BY <1>1 DEF FirstRow
<1>4. \A u \in DOMAIN users :
        /\ users[u] \in Row /\ users[u].name = u /\ users[u].pw = 1
        /\ users[u].admin <=> u = 1
        /\ users[u].disabled <=> shut /\ u = 2
        /\ users[u].deleted <=> shut /\ u = 2
  <2> TAKE u \in DOMAIN users
  <2>1. CASE shut /\ u = 2
    <3>1. users[u] = FirstRow(u, TRUE)
      BY <1>3, <2>1
    <3> QED
      BY <1>2, <2>1, <3>1, FirstRowIs
  <2>2. CASE ~(shut /\ u = 2)
    <3>1. users[u] = FirstRow(u, FALSE)
      BY <1>3, <2>2
    <3> QED
      BY <1>2, <2>2, <3>1, FirstRowIs
  <2> QED
    BY <2>1, <2>2
<1>5. users \in [DOMAIN users -> Row]
  BY <1>1, <1>4
<1>6. /\ told \in [Uuids -> Passwords \cup {None}]
      /\ \A u \in DOMAIN users : told[u] = users[u].pw
  <2>1. told = [u \in Uuids |-> IF u \in DOMAIN users THEN users[u].pw ELSE None]
    BY DEF Init
  <2>2. \A u \in DOMAIN users : u \in Uuids /\ users[u].pw \in Passwords
    BY <1>2, <1>4 DEF Row
  <2> QED
    BY <2>1, <2>2
<1>7. audit \subseteq Acts \X DOMAIN users /\ data \subseteq DOMAIN users
  BY <1>1 DEF Acts
<1>8. \A u \in DOMAIN users \ {1} :
        /\ <<"create", u>> \in audit
        /\ users[u].disabled => <<"delete", u>> \in audit /\ data = {}
  BY <1>1, <1>4
<1>9. gone = {}
  BY DEF Init
<1> QED
  BY <1>2, <1>4, <1>5, <1>6, <1>7, <1>8, <1>9 DEF FirstUsers

(* A control centre that was opened, and loaded by the administrator.      *)
Opened(u, rows, behind) == [Centre(u) EXCEPT !.list = rows, !.behind = behind]

LEMMA OpenedIs ==
    ASSUME NEW u \in Uuids, NEW rows \in SUBSET ListedRow, NEW behind \in BOOLEAN
    PROVE  /\ Opened(u, rows, behind) \in PageType
           /\ Opened(u, rows, behind).view = "centre" /\ Opened(u, rows, behind).me = u
           /\ Opened(u, rows, behind).list = rows
           /\ Opened(u, rows, behind).behind <=> behind
           /\ ~Opened(u, rows, behind).crossed
  BY DEF Opened, Centre, Mounted, PageType, PageFields, NoConfirm, Acts

FirstPage(p) ==
    /\ p \in PageType /\ p.me \in DOMAIN users \cup {None}
    /\ p.list \subseteq Listed(users)
    /\ p.view # "centre" => p.behind
    /\ ~p.behind => p.list = Listed(users)

LEMMA InitPages ==
    ASSUME Init, TablesOK
    PROVE  page \in [Tabs -> PageType] /\ \A t \in Tabs : FirstPage(page[t])
<1>1. Listed(users) \in SUBSET ListedRow /\ DOMAIN users \subseteq Uuids
  BY ListedIs DEF TablesOK
<1>2. FirstPage(LoginPage)
  BY MountedIs DEF LoginPage, FirstPage
<1>3. ASSUME NEW u \in DOMAIN users PROVE FirstPage(Launchpad(u))
  BY <1>1, MountedIs DEF Launchpad, FirstPage
<1>4. ASSUME NEW u \in DOMAIN users
      PROVE  FirstPage([Centre(u) EXCEPT !.list = IF u = 1 THEN Listed(users) ELSE {}, !.behind = (u # 1)])
  <2>1. CASE u = 1
    <3>1. FirstPage(Opened(u, Listed(users), FALSE))
      BY <1>1, OpenedIs DEF FirstPage
    <3> QED
      BY <2>1, <3>1 DEF Opened
  <2>2. CASE u # 1
    <3>1. FirstPage(Opened(u, {}, TRUE))
      <4>1. {} \in SUBSET ListedRow /\ u \in Uuids /\ TRUE \in BOOLEAN
        BY <1>1
      <4>2. /\ Opened(u, {}, TRUE) \in PageType /\ Opened(u, {}, TRUE).me = u
            /\ Opened(u, {}, TRUE).list = {}
            /\ Opened(u, {}, TRUE).behind <=> TRUE
        BY <4>1, OpenedIs, Zenon
      <4> QED
        BY <4>2 DEF FirstPage
    <3>2. (u # 1) = TRUE
      BY <2>2
    <3>3. [Centre(u) EXCEPT !.list = IF u = 1 THEN Listed(users) ELSE {}, !.behind = (u # 1)]
            = Opened(u, {}, TRUE)
      BY <2>2, <3>2 DEF Opened
    <3> QED
      BY <3>1, <3>3, Zenon
  <2> QED
    BY <2>1, <2>2
<1>5. page \in [Tabs -> {LoginPage} \cup {Launchpad(u) : u \in DOMAIN users} \cup
          {[Centre(u) EXCEPT !.list = IF u = 1 THEN Listed(users) ELSE {}, !.behind = (u # 1)]
              : u \in DOMAIN users}]
  BY DEF Init
<1>6. ASSUME NEW t \in Tabs PROVE FirstPage(page[t])
  <2>1. \/ page[t] = LoginPage
        \/ \E u \in DOMAIN users : page[t] = Launchpad(u)
        \/ \E u \in DOMAIN users :
              page[t] = [Centre(u) EXCEPT !.list = IF u = 1 THEN Listed(users) ELSE {}, !.behind = (u # 1)]
    <3>1. page[t] \in {LoginPage} \cup {Launchpad(u) : u \in DOMAIN users} \cup
            {[Centre(u) EXCEPT !.list = IF u = 1 THEN Listed(users) ELSE {}, !.behind = (u # 1)]
                : u \in DOMAIN users}
      BY <1>5, Zenon
    <3> QED
      BY <3>1, Zenon
  <2> QED
    BY <1>2, <1>3, <1>4, <2>1, Zenon
<1> QED
  BY <1>5, <1>6 DEF FirstPage

LEMMA ListedPlain ==
    ASSUME NEW r \in Listed(users)
    PROVE  r.u \in DOMAIN users /\ ~users[r.u].admin
  BY DEF Listed

LEMMA InitInv == Init => Inv
<1> SUFFICES ASSUME Init PROVE Inv
  OBVIOUS
<1>1. FirstUsers /\ users \in [DOMAIN users -> Row] /\ told \in [Uuids -> Passwords \cup {None}]
  BY InitUsers
<1>2. /\ call = [s \in Slots |-> NoCall] /\ failed = {} /\ twice = FALSE /\ late = {} /\ unsure = {}
      /\ gone = {}
  BY DEF Init
<1>3. {1, 2} \subseteq Uuids
  BY AccountsAssumption DEF Uuids
<1>4. \A s \in Slots : call[s] = NoCall
  BY <1>2
<1>5. TablesOK
  BY <1>1, <1>3 DEF FirstUsers, TablesOK
<1>6. page \in [Tabs -> PageType] /\ \A t \in Tabs : FirstPage(page[t])
  BY <1>5, InitPages
<1>7. ShapeInv
  <2>1. call \in [Slots -> CallType] /\ RequestsOK
    BY <1>2, NoCallIs DEF RequestsOK
  <2> QED
    BY <1>1, <1>2, <1>5, <1>6, <2>1 DEF ShapeInv, PagesOK, CallsOK, HistoryOK
<1>8. KnownInv
  <2>1. \A u \in DOMAIN users : users[u].admin => ~users[u].disabled /\ ~users[u].deleted
    BY <1>1 DEF FirstUsers
  <2>2. ASSUME NEW t \in Tabs
        PROVE  page[t].me \in Known \cup {None} /\ \A r \in page[t].list : Plain(r.u)
    BY <1>6, ListedPlain DEF FirstPage, Plain, IsAdmin, Known
  <2>3. ASSUME NEW s \in Slots
        PROVE  /\ call[s].who = None /\ call[s].list = {} /\ call[s].op = "none" /\ call[s].at = "free"
    BY <1>4, NoCallIs
  <2> QED
    BY <2>1, <2>2, <2>3 DEF KnownInv
<1>9. UniqueInv
  BY <1>1 DEF UniqueInv, NamesAreUnique, FirstUsers
<1>10. AdminInv
  BY <1>1, <1>4, NoCallIs DEF AdminInv, FirstUsers, At
<1>11. DataInv
  <2> SUFFICES ASSUME NEW u \in DOMAIN users, users[u].deleted PROVE u \notin data
    BY DEF DataInv
  <2> QED
    BY <1>1 DEF FirstUsers
<1>12. AuditInv
  <2> SUFFICES ASSUME NEW u \in DOMAIN users
               PROVE  /\ ~users[u].admin => <<"create", u>> \in audit
                      /\ users[u].disabled => <<"delete", u>> \in audit
                      /\ users[u].deleted => <<"delete", u>> \in audit
    BY <1>2 DEF AuditInv
  <2> QED
    BY <1>1 DEF FirstUsers
<1>13. PasswordInv
  BY <1>1, <1>4, NoCallIs DEF PasswordInv, FirstUsers
<1>14. ListInv
  <2>1. \A t \in Tabs : \A s \in Slots : call[s].by # t
    BY <1>4, NoCallIs, AccountsAssumption
  <2>2. \A t \in Tabs : \A ops : Mine(t, ops) = {}
    BY <2>1 DEF Mine
  <2>3. ASSUME NEW t \in Tabs PROVE ListOf(t)
    BY <1>6, <2>1, <2>2 DEF ListOf, BehindElsewhere, AwaitsOK, OneList, Shows, FirstPage
  <2> QED
    BY <2>3, ListParts
<1> QED
  BY <1>7, <1>8, <1>9, <1>10, <1>11, <1>12, <1>13, <1>14 DEF Inv

LEMMA StepInv == Inv /\ [Next]_vars => Inv'
<1> SUFFICES ASSUME Inv, [Next]_vars PROVE Inv'
  OBVIOUS
<1>1. CASE Next
  <2>1. Step
    BY <1>1, NextIsStep
  <2> QED
    BY <2>1, ShapeStep, KnownStep, UniqueStep, AdminStep, TellsStep, PasswordStep, ListStep DEF Inv
<1>2. CASE UNCHANGED vars
  <2>1. UNCHANGED <<users, gone, data, audit, page, call, failed, twice, late, told, unsure, events>>
    BY <1>2 DEF vars, tables, history
  <2>2. ShapeInv'
    BY <2>1 DEF Inv, ShapeInv, TablesOK, PagesOK, CallsOK, HistoryOK, RequestsOK
  <2>3. KnownInv'
    BY <2>1 DEF Inv, KnownInv, Plain, Known, IsAdmin
  <2>4. UniqueInv' /\ AdminInv'
    BY <2>1 DEF Inv, UniqueInv, NamesAreUnique, AdminInv, At
  <2>5. DataInv' /\ AuditInv'
    BY <2>1 DEF Inv, DataInv, AuditInv, UnderWay
  <2>6. PasswordInv' /\ ListInv'
    BY <2>1 DEF Inv, PasswordInv, ListInv, Mine, Listed
  <2> QED
    BY <2>2, <2>3, <2>4, <2>5, <2>6 DEF Inv
<1> QED
  BY <1>1, <1>2

-----------------------------------------------------------------------------
(* What the invariant says once nothing is under way.                      *)

LEMMA SoundFollows == Inv => AccountsAreSound
<1> SUFFICES ASSUME Inv PROVE AccountsAreSound
  OBVIOUS
<1>1. TypeOK
  BY DEF Inv, ShapeInv, TablesOK, KnownInv, Plain, TypeOK
<1>2. NamesAreUnique
  BY DEF Inv, UniqueInv
<1>3. OneAdministrator
  <2> DEFINE Admins == {u \in DOMAIN users : users[u].admin}
  <2> SUFFICES ASSUME ~twice PROVE Cardinality(Admins) <= 1
    BY DEF OneAdministrator
  <2>1. \A u, v \in Admins : u = v
    BY DEF Inv, AdminInv
  <2> HIDE DEF Admins
  <2>2. CASE Admins = {}
    BY <2>2, FS_EmptySet
  <2>3. CASE Admins # {}
    <3>1. PICK u : u \in Admins
      BY <2>3
    <3>2. Admins = {u}
      BY <2>1, <3>1
    <3>3. Cardinality({u}) = 1
      BY FS_Singleton
    <3> QED
      BY <3>2, <3>3
  <2> QED
    BY <2>2, <2>3
<1>4. DeletedLeaveNothing
  BY DEF Inv, DataInv, UnderWay, DeletedLeaveNothing, Touched
<1> QED
  BY <1>1, <1>2, <1>3, <1>4 DEF AccountsAreSound

LEMMA ToldFollows == Inv => ActsAreTold
<1> SUFFICES ASSUME Inv PROVE ActsAreTold
  OBVIOUS
<1>1. EveryActIsAudited
  BY DEF Inv, AuditInv, UnderWay, EveryActIsAudited, Touched
<1>2. ListIsTheTable
  <2> SUFFICES ASSUME NEW t \in Tabs, Rest(t), ~page[t].behind, ~page[t].crossed
               PROVE  page[t].list = Listed(users)
    BY DEF ListIsTheTable
  <2>1. Mine(t, Acts) = {} /\ Mine(t, Lists) = {}
    BY DEF Rest, Mine
  <2> QED
    BY <2>1, ListParts DEF Inv, ListOf, Shows
<1>3. ToldPasswordHolds
  BY DEF Inv, PasswordInv, ToldPasswordHolds
<1> QED
  BY <1>1, <1>2, <1>3 DEF ActsAreTold

(* However the handlers of any number of requests interleave between their *)
(* statements, fail half way or lose their answers: no two accounts share  *)
(* a name, one account administers unless two initialisations were         *)
(* counting at once, it is never shut or listed with the users, and of a   *)
(* deleted account nothing is left unless its deletion failed half way or  *)
(* a token that outlived it wrote again.                                   *)
THEOREM AccountsStaySound == Spec => []AccountsAreSound
<1>1. Spec => []Inv
  BY InitInv, StepInv, PTL DEF Spec
<1> QED
  BY <1>1, SoundFollows, PTL

(* What a page and the audit tell is so: whoever exists, is shut or gone   *)
(* had it done by an act in the audit, a control centre at rest shows the  *)
(* table, and the password told last opens the account - but for acts that *)
(* failed, overlapped, or were someone else's.                             *)
THEOREM ActsStayTold == Spec => []ActsAreTold
<1>1. Spec => []Inv
  BY InitInv, StepInv, PTL DEF Spec
<1> QED
  BY <1>1, ToldFollows, PTL
=============================================================================

---------------------------- MODULE TraceContext ----------------------------
(***************************************************************************)
(* How requests and records are tied together: the trace an application    *)
(* draws at its first request and takes over from the server's answers,    *)
(* the number each request bears, and what a record written in between     *)
(* says of both.  The web page, the page of the desktop client and the     *)
(* host under that page each do it in their own way.  A number is drawn    *)
(* at random in the code and counted here.                                 *)
(***************************************************************************)
EXTENDS Naturals

CONSTANTS
    Apps,       \* applications, some of {"web", "client", "host"}
    MaxEvents   \* bound: requests, refusals, requests that are lost

VARIABLES
    app,      \* Apps
    context,  \* Ids        localContext, TRACE_CONTEXT: [trace, request], 0 for none
    calls,    \* SUBSET Call   requests under way
    drawn,    \* Nat        numbers drawn so far
    known,    \* SUBSET Nat    history: traces a server has answered with
    carried,  \* SUBSET Ids    history: what reached a server or is on its way
    early,    \* BOOLEAN    history: two requests left before any was answered
    strayed,  \* BOOLEAN    history: a request sent again has got no answer
    events    \* Nat

history == <<known, carried, early, strayed>>
vars == <<app, context, calls, drawn, history, events>>

Nobody == 0
NoIds  == [trace |-> Nobody, request |-> Nobody]

(* A request: its headers, whether it is sent again, and where it is.      *)
Call(ids, again, kind) ==
    [ids |-> ids, again |-> again, kind |-> kind, at |-> "sent"]

Event == events < MaxEvents /\ events' = events + 1

Init ==
    /\ app \in Apps /\ context = NoIds /\ calls = {} /\ drawn = 0
    /\ known = {} /\ carried = {} /\ early = FALSE /\ strayed = FALSE
    /\ events = 0

-----------------------------------------------------------------------------
(* Headers                                                                 *)

ResolveContext(fresh) == IF context.trace = Nobody THEN fresh ELSE context.trace

(* What a request has already is left to it.                               *)
WithTraceHeaders(headers, fresh) ==
    [trace   |-> IF headers.trace # Nobody THEN headers.trace ELSE ResolveContext(fresh),
     request |-> IF headers.request # Nobody THEN headers.request ELSE fresh + 1]

(* What stays in the context of a request just sent: the number drawn for  *)
(* it, whether it bears it or not, and with the host its trace but no      *)
(* number.                                                                 *)
SentContext(ids, fresh) ==
    IF app = "host" THEN [context EXCEPT !.trace = ids.trace]
    ELSE [context EXCEPT !.request = fresh + 1]

Sends(headers, again, kind) ==
    LET fresh == drawn + 1
        ids   == WithTraceHeaders(headers, fresh)
    IN [call |-> Call(ids, again, kind), ids |-> ids, context |-> SentContext(ids, fresh)]

(* The server answers with the headers it was sent.                        *)
CaptureResponseContext_Request(ids) ==
    IF app = "host" THEN context ELSE [context EXCEPT !.request = ids.request]
CaptureResponseContext(ids) ==
    IF app = "host" THEN [context EXCEPT !.trace = ids.trace] ELSE ids

-----------------------------------------------------------------------------
(* Requests                                                                *)

Remember(ids) ==
    /\ carried' = carried \cup {ids}
    /\ early' = (early \/ (app # "host" /\ known = {} /\ carried # {}))

Send ==
    /\ Event
    /\ LET s == Sends(NoIds, FALSE, "call")
       IN /\ calls' = calls \cup {s.call} /\ context' = s.context
          /\ Remember(s.ids)
    /\ drawn' = drawn + 2
    /\ UNCHANGED <<app, known, strayed>>

Captured(c) ==
    /\ context' = CaptureResponseContext(c.ids)
    /\ known' = known \cup {c.ids.trace}

Answered(c) ==
    /\ c \in calls /\ c.kind = "call" /\ c.at \in {"sent", "heard"}
    /\ Captured(c)
    /\ calls' = calls \ {c}
    /\ strayed' = FALSE
    /\ UNCHANGED <<app, drawn, carried, early, events>>

Lost(c) ==
    /\ c \in calls /\ c.kind = "call" /\ c.at = "sent"
    /\ Event
    /\ calls' = calls \ {c}
    /\ strayed' = (strayed \/ (c.again /\ app = "web"))
    /\ UNCHANGED <<app, context, drawn, known, carried, early>>

(* The page of the desktop client listens to the refusal before it looks   *)
(* for new tokens, which it does without headers, and then begins anew;    *)
(* the web page keeps the headers.  The host refreshes nothing.            *)
RefusedInClient(c) ==
    /\ app = "client" /\ c \in calls /\ c.at = "sent" /\ ~c.again
    /\ Event
    /\ Captured(c)
    /\ calls' = (calls \ {c}) \cup {[c EXCEPT !.at = "waits"]}
    /\ strayed' = FALSE
    /\ UNCHANGED <<app, drawn, carried, early>>

Refreshing == \E c \in calls : c.kind = "refresh"

RefusedInWeb(c) ==
    /\ app = "web" /\ c \in calls /\ c.kind = "call" /\ c.at = "sent" /\ ~c.again
    /\ Event
    /\ LET s    == Sends(NoIds, FALSE, "refresh")
           left == (calls \ {c}) \cup {[c EXCEPT !.at = "waits"]}
       IN IF Refreshing
          THEN calls' = left /\ UNCHANGED <<context, drawn, carried, early>>
          ELSE /\ calls' = left \cup {s.call} /\ context' = s.context
               /\ drawn' = drawn + 2
               /\ Remember(s.ids)
    /\ UNCHANGED <<app, known, strayed>>

(* Whoever waits is told.                                                  *)
Told(to) == {IF d.at = "waits" THEN [d EXCEPT !.at = to] ELSE d : d \in calls}

RefreshAnswered(c, ok) ==
    /\ c \in calls /\ c.kind = "refresh"
    /\ Captured(c)
    /\ calls' = Told(IF ok THEN "replays" ELSE "heard") \ {c}
    /\ strayed' = FALSE
    /\ UNCHANGED <<app, drawn, carried, early, events>>

(* A refresh nobody answers is an error of everyone who waits.             *)
RefreshLost(c) ==
    /\ c \in calls /\ c.kind = "refresh"
    /\ Event
    /\ calls' = {d \in calls : d.at # "waits"} \ {c}
    /\ UNCHANGED <<app, context, drawn, known, carried, early, strayed>>

RefreshedInClient(ok) ==
    /\ app = "client" /\ \E c \in calls : c.at = "waits"
    /\ calls' = IF ok THEN Told("replays") ELSE {c \in calls : c.at # "waits"}
    /\ UNCHANGED <<app, context, drawn, known, carried, early, strayed, events>>

Replay(c) ==
    /\ c \in calls /\ c.at = "replays"
    /\ LET s == Sends(IF app = "web" THEN c.ids ELSE NoIds, TRUE, "call")
       IN /\ calls' = (calls \ {c}) \cup {s.call}
          /\ context' = s.context
          /\ Remember(s.ids)
    /\ drawn' = drawn + 2
    /\ UNCHANGED <<app, known, strayed, events>>

-----------------------------------------------------------------------------
(* The specification                                                       *)

Next ==
    \/ Send
    \/ \E ok \in BOOLEAN : RefreshedInClient(ok)
    \/ \E c \in calls :
        \/ Answered(c) \/ Lost(c) \/ RefusedInClient(c) \/ RefusedInWeb(c)
        \/ RefreshLost(c) \/ Replay(c)
        \/ \E ok \in BOOLEAN : RefreshAnswered(c, ok)

Spec == Init /\ [][Next]_vars

-----------------------------------------------------------------------------
(* Properties                                                              *)

(* Every variable has its type, and what is known was carried.             *)
TypeOK ==
    /\ app \in Apps /\ context.trace \in 0..drawn /\ context.request \in 0..drawn
    /\ early \in BOOLEAN /\ strayed \in BOOLEAN
    /\ known \subseteq {i.trace : i \in carried}
    /\ \A c \in calls : /\ c.ids \in carried /\ c.at \in {"sent", "heard", "waits", "replays"}
                        /\ c.kind \in {"call", "refresh"}

(* An application has one trace, whatever is refused, refreshed, sent      *)
(* again and lost, unless two requests left before the first was answered, *)
(* each with a trace of its own; the host draws its trace once for all.    *)
OneTrace == early \/ \A i, j \in carried : i.trace = j.trace

(* When nothing is under way a record names a request a server can have    *)
(* seen, unless a request of the web page that was sent again got no       *)
(* answer: it left with its old number, and a new one stays behind.        *)
RecordsNameARequest ==
    (calls = {} /\ ~strayed) => context.request \in {Nobody} \cup {i.request : i \in carried}
=============================================================================

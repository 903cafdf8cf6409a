---------------------------- MODULE DeviceSettings ----------------------------
(***************************************************************************)
(* The settings of one device: a configuration file that is read, changed  *)
(* and written whole by whoever sets one of its keys, what the pages show  *)
(* of it, the start with the system, which is not in the file, and the     *)
(* button that closes the window.                                          *)
(***************************************************************************)
EXTENDS Naturals, FiniteSets

CONSTANTS MaxEvents  \* bound: acts of the user, failures, restarts

VARIABLES
    file,    \* Config \cup {Torn}     config.json
    system,  \* BOOLEAN                whether the system starts the application
    shown,   \* [All -> BOOLEAN]       what the pages show
    ready,   \* SUBSET All             of these, loaded
    window,  \* {"open", "hidden", "closed"}
    tasks,   \* SUBSET Task            handlers that wait
    chosen,  \* [All -> BOOLEAN]  history: what the user chose last
    raced,   \* BOOLEAN  history: two handlers overlapped, or one failed
    events   \* Nat

vars == <<file, system, shown, ready, window, tasks, chosen, raced, events>>

-----------------------------------------------------------------------------
(* Values                                                                  *)

(* environment is shown before it is written, the others after; tray and   *)
(* minimized decide what closing does; autostart is kept by the system.    *)
Keys   == {"environment", "tray", "minimized"}
All    == Keys \cup {"autostart"}
Unset  == 2
Config == [Keys -> {0, 1, Unset}]
Torn   == [k \in {} |-> 0]
Empty  == [k \in Keys |-> Unset]

NewTask(op, k, b) == [op |-> op, key |-> k, value |-> b, at |-> "sent", read |-> Torn]

(* The defaults of the getters.                                            *)
Get(config, k) == config[k] = 1

(* A file that cannot be read is a file that says nothing.                 *)
ReadConfig(f) == IF f = Torn THEN Empty ELSE f

Event == events < MaxEvents /\ events' = events + 1
Overlaps == tasks # {}
OfSettings == {t \in tasks : t.op # "close"}

(* The environment is loaded with the page, the others with the settings.  *)
Loads(ks) == {NewTask("load", k, FALSE) : k \in ks}

Init ==
    /\ file \in {Empty, [Empty EXCEPT !["tray"] = 1], [Empty EXCEPT !["environment"] = 1]}
    /\ system \in BOOLEAN
    /\ shown = [k \in All |-> FALSE]
    /\ ready = {}
    /\ window = "open"
    /\ tasks = Loads({"environment"})
    /\ chosen = [k \in All |-> IF k = "autostart" THEN system ELSE Get(file, k)]
    /\ raced = FALSE /\ events = 0

-----------------------------------------------------------------------------
(* Setting a key: read the file, change the key, write the file            *)

Becomes(k, b) == shown' = [shown EXCEPT ![k] = b]

ToggleEnvironment ==
    /\ window = "open"
    /\ Event
    /\ LET b == ~shown["environment"]
       IN /\ Becomes("environment", b)
          /\ tasks' = tasks \cup {NewTask("set", "environment", b)}
          /\ chosen' = [chosen EXCEPT !["environment"] = b]
    /\ raced' = (raced \/ Overlaps)
    /\ UNCHANGED <<file, system, ready, window>>

(* The switches of the settings, once they have been loaded.               *)
HandleToggle(k) ==
    /\ window = "open" /\ k # "environment" /\ k \in ready
    /\ Event
    /\ tasks' = tasks \cup {NewTask(IF k = "autostart" THEN "autostart" ELSE "set", k, ~shown[k])}
    /\ chosen' = [chosen EXCEPT ![k] = ~shown[k]]
    /\ raced' = (raced \/ Overlaps)
    /\ UNCHANGED <<file, system, shown, ready, window>>

SetReads(t) ==
    /\ t.op = "set" /\ t.at = "sent"
    /\ tasks' = (tasks \ {t}) \cup {[t EXCEPT !.read = ReadConfig(file), !.at = "read"]}
    /\ UNCHANGED <<file, system, shown, ready, window, chosen, raced, events>>

(* Writing begins with a file that is empty.                               *)
SetTruncates(t) ==
    /\ t.op = "set" /\ t.at = "read"
    /\ file' = Torn
    /\ tasks' = (tasks \ {t}) \cup {[t EXCEPT !.at = "writing"]}
    /\ UNCHANGED <<system, shown, ready, window, chosen, raced, events>>

Written(t) == [t.read EXCEPT ![t.key] = IF t.value THEN 1 ELSE 0]

SetWrites(t) ==
    /\ t.op = "set" /\ t.at = "writing"
    /\ file' = Written(t)
    /\ Becomes(t.key, IF t.key = "environment" THEN shown[t.key] ELSE t.value)
    /\ tasks' = tasks \ {t}
    /\ UNCHANGED <<system, ready, window, chosen, raced, events>>

(* enable or disable; refused, the switch goes back.                       *)
AutostartShown(t, done) == IF done THEN t.value ELSE ~t.value

HandleAutostartToggle(t, done) ==
    /\ t.op = "autostart"
    /\ system' = IF done THEN t.value ELSE system
    /\ chosen' = IF done THEN chosen ELSE [chosen EXCEPT !["autostart"] = system]
    /\ Becomes("autostart", AutostartShown(t, done))
    /\ tasks' = tasks \ {t}
    /\ UNCHANGED <<file, ready, window, raced, events>>

-----------------------------------------------------------------------------
(* Loading                                                                 *)

(* The settings are opened, or the page starts: what they show is loaded.  *)
OpenSettings ==
    /\ window = "open"
    /\ Event
    /\ tasks' = {t \in tasks : t.op # "load" \/ t.key = "environment"} \cup Loads(All \ {"environment"})
    /\ ready' = ready \cap {"environment"}
    /\ shown' = [k \in All |-> k = "environment" /\ shown[k]]
    /\ raced' = (raced \/ Overlaps)
    /\ UNCHANGED <<file, system, window, chosen>>

(* What a load shows; of the settings, all together.                       *)
Loaded(k) == IF k = "autostart" THEN system ELSE Get(ReadConfig(file), k)

LoadLands(t) ==
    /\ t.op = "load"
    /\ LET ks == IF t.key = "environment" THEN {"environment"} ELSE All \ {"environment"}
       IN /\ shown' = [k \in All |-> IF k \in ks THEN Loaded(k) ELSE shown[k]]
          /\ ready' = ready \cup ks
          /\ tasks' = tasks \ {l \in tasks : l.op = "load" /\ l.key \in ks}
    /\ UNCHANGED <<file, system, window, chosen, raced, events>>

-----------------------------------------------------------------------------
(* The window                                                              *)

CloseButton ==
    /\ window = "open"
    /\ \A t \in tasks : t.op # "close"
    /\ Event
    /\ tasks' = tasks \cup {NewTask("close", "tray", FALSE)}
    /\ raced' = (raced \/ Overlaps)
    /\ UNCHANGED <<file, system, shown, ready, window, chosen>>

ToTray == Get(ReadConfig(file), "tray")

(* To the tray if that is set; otherwise hidden first if the next start is *)
(* to be minimized, since the window remembers, and closed.                *)
HandleClose(t) ==
    /\ t.op = "close"
    /\ \/ /\ t.at = "sent"
          /\ IF ToTray
             THEN window' = "hidden" /\ tasks' = tasks \ {t}
             ELSE tasks' = (tasks \ {t}) \cup {[t EXCEPT !.at = "tray"]} /\ UNCHANGED window
       \/ /\ t.at = "tray"
          /\ window' = "closed" /\ tasks' = {}
    /\ UNCHANGED <<file, system, shown, ready, chosen, raced, events>>

(* From the tray, or started again.                                        *)
Return ==
    /\ window # "open"
    /\ Event
    /\ window' = "open"
    /\ IF window = "closed"
       THEN /\ ready' = {} /\ tasks' = Loads({"environment"})
            /\ shown' = [k \in All |-> FALSE]
       ELSE UNCHANGED <<ready, tasks, shown>>
    /\ UNCHANGED <<file, system, chosen, raced>>

(* A command of the file fails, or is cut short by the end of the process. *)
WriteFails(t) ==
    /\ t.op = "set" /\ t.at \in {"read", "writing"}
    /\ Event
    /\ tasks' = tasks \ {t}
    /\ Becomes(t.key, IF t.key = "environment" THEN shown[t.key] ELSE t.value)
    /\ raced' = TRUE
    /\ UNCHANGED <<file, system, ready, window, chosen>>

-----------------------------------------------------------------------------
(* The specification                                                       *)

Next ==
    \/ ToggleEnvironment \/ OpenSettings \/ CloseButton \/ Return
    \/ \E k \in All : HandleToggle(k)
    \/ \E t \in tasks :
        \/ SetReads(t) \/ SetTruncates(t) \/ SetWrites(t) \/ WriteFails(t)
        \/ LoadLands(t) \/ HandleClose(t)
        \/ \E done \in BOOLEAN : HandleAutostartToggle(t, done)

Spec == Init /\ [][Next]_vars

-----------------------------------------------------------------------------
(* Properties                                                              *)

(* Every variable has its type.                                            *)
TypeOK ==
    /\ file \in Config \cup {Torn}
    /\ system \in BOOLEAN
    /\ shown \in [All -> BOOLEAN] /\ ready \subseteq All
    /\ window \in {"open", "hidden", "closed"}
    /\ chosen \in [All -> BOOLEAN] /\ raced \in BOOLEAN

(* Setting a key leaves the others as they were chosen: at rest the file   *)
(* says of every key what the user chose, if no two handlers overlapped    *)
(* and no write failed.                                                    *)
ChosenAreKept ==
    (OfSettings = {} /\ ~raced) =>
        /\ file # Torn
        /\ \A k \in Keys : Get(file, k) = chosen[k]
        /\ system = chosen["autostart"]

(* What is loaded and shown is what is kept, under the same conditions.    *)
ShownAreKept ==
    (OfSettings = {} /\ ~raced /\ window # "closed") =>
        \A k \in ready : shown[k] = IF k = "autostart" THEN system ELSE Get(file, k)

(* With the tray chosen, the button does not end the application, under    *)
(* the same conditions.                                                    *)
TrayKeepsTheApplication ==
    (window = "closed" /\ ~raced) => ~chosen["tray"]
=============================================================================

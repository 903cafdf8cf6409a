------------------------------ MODULE MCDevices ------------------------------
(* Two parts of the devices that do not act on each other, side by side: a  *)
(* behaviour is one of the icon files of two devices and their server, or   *)
(* one of the launchpad page of a device over its tables, and leaves the    *)
(* variables of the other alone.  The icons begin with one site whose icon  *)
(* came from a web page or from a device, and room for another; devices and *)
(* names of groups are interchangeable.                                     *)
EXTENDS IconFiles, TLC

CONSTANTS s1, w1, p, Users, Anon, Names, NoName, MaxGroups, MaxSites, MaxEvents

VARIABLES
    part, groups, sites, seeded, active, page, form, config, calls, crossed, mixed, events

Desk == INSTANCE DeskLaunchpad

(* Init begins with up to two groups and sites.                             *)
ASSUME DevicesAssumption == Anon \in Users /\ MaxGroups \in Nat \ {0, 1} /\ MaxSites \in Nat \ {0, 1}

launchpadVars ==
    <<groups, sites, seeded, active, page, form, config, calls, crossed, mixed, events>>

OneSite == {[s \in Sites |-> IF s = s1 THEN Site(icon) ELSE NoRow] : icon \in {w1, p}}

NoIcons ==
    /\ rows = 0 /\ table = 0 /\ unseen = 0 /\ later = 0 /\ store = 0 /\ disk = 0 /\ saves = 0
    /\ named = 0 /\ sync = 0 /\ owed = 0 /\ stale = 0 /\ calm = 0 /\ edits = 0 /\ faults = 0
NoLaunchpad ==
    /\ groups = 0 /\ sites = 0 /\ seeded = 0 /\ active = 0 /\ page = 0 /\ form = 0
    /\ config = 0 /\ calls = 0 /\ crossed = 0 /\ mixed = 0 /\ events = 0

DevicesInit ==
    \/ part = "icons" /\ Init /\ NoLaunchpad
    \/ part = "launchpad" /\ Desk!Init /\ NoIcons

DevicesNext ==
    /\ UNCHANGED part
    /\ \/ part = "icons" /\ Next /\ UNCHANGED launchpadVars
       \/ part = "launchpad" /\ Desk!Next /\ UNCHANGED vars

DevicesSpec == DevicesInit /\ [][DevicesNext]_<<part, vars, launchpadVars>>

Alike == Permutations(Devices) \cup Permutations(Names)

(* What a web page uploaded for a live site is there, no icon that a site   *)
(* or an engine names is lost, and one sync makes up for transfers that     *)
(* failed before it (IconFiles).                                            *)
IconFilesHold ==
    part = "icons" =>
        /\ TypeOK
        /\ WebIconsAreThere
        /\ NoIconIsLost
        /\ ASyncMakesGood

(* The page shows what the device has, sites are in groups of their owner,  *)
(* groups of a user differ in name, and an icon stays with the site it was  *)
(* fetched for - but for the overlaps the module names (DeskLaunchpad).     *)
LaunchpadHolds ==
    part = "launchpad" =>
        /\ Desk!TypeOK
        /\ Desk!PageIsTrue
        /\ Desk!RowsBelongTogether
        /\ Desk!GroupNamesDiffer
        /\ Desk!IconsStayWithTheirSites
=============================================================================

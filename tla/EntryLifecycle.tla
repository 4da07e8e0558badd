--------------------------- MODULE EntryLifecycle ---------------------------
(* Config entries of the integration from migration to unload, and what they *)
(* share: the library's connection, the admin panel, the domain's services.  *)
(* Home Assistant sets entries up concurrently (all of them at startup) and  *)
(* holds one lock per entry, so setups, unloads and removals of different    *)
(* entries interleave at every await.  A Visitor is a WebSocket request that *)
(* finds no connection and opens one.                                        *)
EXTENDS Integers, FiniteSets

CONSTANTS
  Entries,    \* config entries of the domain
  Legacy,     \* those written by a version of the integration before 3
  Visitors,   \* WebSocket requests that may open the library
  MaxOpens    \* bound: connections opened in a behaviour

ASSUME OpensAssumption == MaxOpens \in Nat /\ Entries \cap Visitors = {}

Openers == Entries \cup Visitors
Connections == 1..MaxOpens
NoDB == 0

VARIABLES
  configured, \* hass.config_entries.async_entries(DOMAIN)
  data,       \* per entry: version, brand and the stat entities' unique ids
  pc,         \* per opener: the await it is at
  platforms,  \* entries whose platforms Home Assistant holds as set up
  own,        \* per opener: the connection it opens, or closes
  handle,     \* per entry: the connection its probe callback captured
  open,       \* connections opened and not closed
  opens,      \* connections opened so far
  published,  \* hass.data[DOMAIN]["sommelier_db"]
  panel,      \* the frontend has a panel at our path
  flag,       \* hass.data[DOMAIN]["panel_registered"]
  services,   \* the domain's services are registered
  wsReady,    \* the WebSocket handlers are registered (never removed)
  crossed     \* ghost: a setup passed the services while a teardown closed

entryVars == <<configured, data, platforms>>
libraryVars == <<own, handle, open, opens, published>>
sharedVars == <<panel, flag, services, wsReady, crossed>>
vars == <<configured, data, pc, platforms, own, handle, open, opens, published,
          panel, flag, services, wsReady, crossed>>

Slugs == {"warm_milk", "hot_milk"}  \* the old slug of a stat and the new one

Written(e) ==
  IF e \in Legacy
    THEN [version : {1}, brand : {"none"}, stats : SUBSET Slugs]
           \cup [version : {2}, brand : {"nivona", "other"}, stats : SUBSET Slugs]
    ELSE {[version |-> 3, brand |-> "nivona", stats |-> {"hot_milk"}]}

Awaits == {"opening", "forwarding", "panel", "unloading", "disconnecting", "closing"}
Rests == {"out", "loaded", "failed", "stuck"}

Init ==
  /\ configured \in SUBSET Entries
  /\ data \in [Entries -> UNION {Written(e) : e \in Entries}]
  /\ \A e \in Entries : data[e] \in Written(e)
  /\ pc = [o \in Openers |-> "out"]
  /\ platforms = {}
  /\ own = [o \in Openers |-> NoDB] /\ handle = [e \in Entries |-> NoDB]
  /\ open = {} /\ opens = 0 /\ published = NoDB
  /\ panel = FALSE /\ flag = FALSE /\ services = FALSE
  /\ wsReady = FALSE /\ crossed = FALSE

-----------------------------------------------------------------------------
(* The config flow adds an entry, or adds again one that was removed.        *)
AddEntry(e) ==
  /\ e \notin configured /\ pc[e] = "out"
  /\ configured' = configured \cup {e}
  /\ UNCHANGED <<data, pc, platforms, libraryVars, sharedVars>>

(* async_migrate_entry, its two steps in order; the rename is skipped where  *)
(* the new unique id is already taken.                                       *)
Branded(d) ==
  IF d.version >= 2 THEN d
  ELSE [d EXCEPT !.version = 2, !.brand = IF @ = "none" THEN "nivona" ELSE @]

Renames(d) == d.brand # "nivona"

Renamed(d) ==
  IF d.version >= 3 THEN d
  ELSE [d EXCEPT !.version = 3,
                 !.stats = IF Renames(d) /\ "hot_milk" \notin @ /\ "warm_milk" \in @
                             THEN (@ \ {"warm_milk"}) \cup {"hot_milk"} ELSE @]

Migrated(d) == Renamed(Branded(d))

(* _async_get_db: the published connection at once, or a new one of one's    *)
(* own; nothing tells a second opener that the first is still opening.       *)
GetDB(o, found) ==
  \/ /\ published # NoDB
     /\ pc' = [pc EXCEPT ![o] = found]
     /\ UNCHANGED <<own, open, opens, published>>
  \/ /\ published = NoDB /\ opens < MaxOpens
     /\ opens' = opens + 1
     /\ own' = [own EXCEPT ![o] = opens + 1]
     /\ pc' = [pc EXCEPT ![o] = "opening"]
     /\ UNCHANGED <<open, published>>

SetupStarts(e) ==
  /\ e \in configured /\ pc[e] = "out"
  /\ data' = [data EXCEPT ![e] = Migrated(@)]
  /\ GetDB(e, "forwarding")
  /\ handle' = [handle EXCEPT ![e] = published]
  /\ UNCHANGED <<configured, platforms, sharedVars>>

VisitStarts(v) ==
  /\ wsReady /\ published = NoDB /\ pc[v] = "out"
  /\ GetDB(v, "out")
  /\ UNCHANGED <<entryVars, handle, sharedVars>>

(* Mutant: every opener goes on as a setup does.                             *)
LibraryOpenedForSetup(o) ==
  /\ pc[o] = "opening"
  /\ open' = open \cup {own[o]}
  /\ published' = own[o]
  /\ handle' = IF o \in Entries THEN [handle EXCEPT ![o] = own[o]] ELSE handle
  /\ pc' = [pc EXCEPT ![o] = "forwarding"]
  /\ UNCHANGED <<entryVars, own, opens, sharedVars>>

(* SommelierDB.async_setup returned: the connection is published whether or  *)
(* not another was, and an entry captures it for its capabilities probe.     *)
LibraryOpened(o) ==
  /\ pc[o] = "opening"
  /\ open' = open \cup {own[o]}
  /\ published' = own[o]
  /\ handle' = IF o \in Entries THEN [handle EXCEPT ![o] = own[o]] ELSE handle
  /\ pc' = [pc EXCEPT ![o] = IF o \in Entries THEN "forwarding" ELSE "out"]
  /\ UNCHANGED <<entryVars, own, opens, sharedVars>>

(* async_setup raised, before or after it had connected.                     *)
LibraryFails(o) ==
  /\ pc[o] = "opening"
  /\ open' \in {open, open \cup {own[o]}}
  /\ pc' = [pc EXCEPT ![o] = IF o \in Entries THEN "failed" ELSE "out"]
  /\ UNCHANGED <<entryVars, own, handle, opens, published, sharedVars>>

(* async_forward_entry_setups raises for platforms left by a failed setup.   *)
ForwardFails(e) ==
  /\ pc[e] = "forwarding" /\ e \in platforms
  /\ pc' = [pc EXCEPT ![e] = "failed"]
  /\ UNCHANGED <<entryVars, libraryVars, sharedVars>>

(* Platforms are up; services and handlers are registered in the same step,  *)
(* then _async_register_panel looks at its flag before its first await.      *)
Forwarded(e) ==
  /\ pc[e] = "forwarding" /\ e \notin platforms
  /\ platforms' = platforms \cup {e}
  /\ services' = TRUE /\ wsReady' = TRUE
  /\ crossed' = (crossed \/ \E f \in Entries : pc[f] = "closing")
  /\ pc' = [pc EXCEPT ![e] = IF flag THEN "loaded" ELSE "panel"]
  /\ UNCHANGED <<configured, data, libraryVars, panel, flag>>

(* async_register_built_in_panel refuses a path that is taken.               *)
PanelRegistered(e) ==
  /\ pc[e] = "panel" /\ ~panel
  /\ panel' = TRUE /\ flag' = TRUE
  /\ pc' = [pc EXCEPT ![e] = "loaded"]
  /\ UNCHANGED <<entryVars, libraryVars, services, wsReady, crossed>>

PanelTaken(e) ==
  /\ pc[e] = "panel" /\ panel
  /\ pc' = [pc EXCEPT ![e] = "failed"]
  /\ UNCHANGED <<entryVars, libraryVars, sharedVars>>

-----------------------------------------------------------------------------
(* Disable, reload or remove: Home Assistant unloads a loaded entry, and     *)
(* only marks one whose setup failed.                                        *)
UnloadStarts(e) ==
  /\ pc[e] = "loaded"
  /\ pc' = [pc EXCEPT ![e] = "unloading"]
  /\ UNCHANGED <<entryVars, libraryVars, sharedVars>>

Dismissed(e) ==
  /\ pc[e] = "failed"
  /\ pc' = [pc EXCEPT ![e] = "out"]
  /\ UNCHANGED <<entryVars, libraryVars, sharedVars>>

PlatformsUnloaded(e) ==
  /\ pc[e] = "unloading"
  /\ \/ /\ platforms' = platforms \ {e}
        /\ pc' = [pc EXCEPT ![e] = "disconnecting"]
     \/ /\ pc' = [pc EXCEPT ![e] = "stuck"]
        /\ UNCHANGED platforms
  /\ UNCHANGED <<configured, data, libraryVars, sharedVars>>

(* Mutant: only loaded entries count.                                        *)
RemainingLoaded(e) == {f \in configured \ {e} : pc[f] = "loaded"}

Remaining(e) == configured \ {e}

(* Mutants: the flag survives the panel; the panel survives the flag.        *)
UnregisterPanelOnly ==
  /\ panel' = (panel /\ ~flag)
  /\ flag' = flag

UnregisterFlagOnly ==
  /\ panel' = panel
  /\ flag' = FALSE

(* _async_unregister_panel acts only under its flag.                         *)
UnregisterPanel ==
  /\ panel' = (panel /\ ~flag)
  /\ flag' = FALSE

(* client.disconnect returned and no other entry is configured: the panel    *)
(* goes, the connection is unpublished and its close awaited.                *)
TearDown(e) ==
  /\ UnregisterPanel
  /\ published' = NoDB
  /\ IF published = NoDB
       THEN /\ services' = FALSE
            /\ pc' = [pc EXCEPT ![e] = "out"]
            /\ UNCHANGED own
       ELSE /\ own' = [own EXCEPT ![e] = published]
            /\ pc' = [pc EXCEPT ![e] = "closing"]
            /\ UNCHANGED services

Disconnected(e) ==
  /\ pc[e] = "disconnecting"
  /\ IF Remaining(e) = {}
       THEN TearDown(e)
       ELSE /\ pc' = [pc EXCEPT ![e] = "out"]
            /\ UNCHANGED <<own, published, panel, flag, services>>
  /\ UNCHANGED <<entryVars, handle, open, opens, wsReady, crossed>>

Closed(e) ==
  /\ pc[e] = "closing"
  /\ open' = open \ {own[e]}
  /\ services' = FALSE
  /\ pc' = [pc EXCEPT ![e] = "out"]
  /\ UNCHANGED <<entryVars, own, handle, opens, published, panel, flag, wsReady, crossed>>

(* The entry leaves the registry once its unload has ended, or was refused.  *)
RemoveEntry(e) ==
  /\ e \in configured /\ pc[e] \in {"out", "failed", "stuck"}
  /\ configured' = configured \ {e}
  /\ pc' = [pc EXCEPT ![e] = "out"]
  /\ platforms' = platforms \ {e}
  /\ data' = [data EXCEPT ![e] =
                [version |-> 3, brand |-> "nivona", stats |-> {"hot_milk"}]]
  /\ UNCHANGED <<libraryVars, sharedVars>>

-----------------------------------------------------------------------------
Works(e) ==
  \/ LibraryOpened(e) \/ LibraryFails(e)
  \/ ForwardFails(e) \/ Forwarded(e) \/ PanelRegistered(e) \/ PanelTaken(e)
  \/ PlatformsUnloaded(e) \/ Disconnected(e) \/ Closed(e)

Visits(v) == LibraryOpened(v) \/ LibraryFails(v)

User(e) ==
  \/ AddEntry(e) \/ SetupStarts(e) \/ UnloadStarts(e) \/ Dismissed(e) \/ RemoveEntry(e)

Next ==
  \/ \E e \in Entries : Works(e) \/ User(e)
  \/ \E v \in Visitors : VisitStarts(v) \/ Visits(v)

Spec == Init /\ [][Next]_vars

(* An await of a setup or an unload ends: nothing in them waits for another  *)
(* entry, and disconnect bounds its own waits.                               *)
FairSpec ==
  /\ Spec
  /\ \A e \in Entries : WF_vars(Works(e))
  /\ \A v \in Visitors : WF_vars(Visits(v))

-----------------------------------------------------------------------------
TypeOK ==
  /\ configured \subseteq Entries /\ platforms \subseteq Entries
  /\ pc \in [Openers -> Awaits \cup Rests]
  /\ \A v \in Visitors : pc[v] \in {"out", "opening"}
  /\ own \in [Openers -> 0..opens] /\ handle \in [Entries -> 0..opens]
  /\ opens \in 0..MaxOpens /\ open \subseteq 1..opens /\ published \in 0..opens
  /\ {panel, flag, services, wsReady, crossed} \subseteq BOOLEAN

(* The connection captured for an entry's capabilities probe stays open from *)
(* its setup until its unload reaches the teardown: no other entry's unload  *)
(* closes it, however setups, unloads and requests that open the library     *)
(* interleave (async_setup_entry, async_unload_entry, _async_get_db).        *)
CapturedIsOpen ==
  \A e \in Entries :
    pc[e] \in {"forwarding", "panel", "loaded", "unloading", "disconnecting"}
      => handle[e] \in open

(* A loaded entry has its panel, and its services unless its setup crossed   *)
(* the close of the last entry's teardown, which removes what it has just    *)
(* found registered (_async_register_panel, _async_register_services).       *)
SharedWhileLoaded ==
  (\E e \in Entries : pc[e] = "loaded") => panel /\ (services \/ crossed)

(* Every setup and every unload comes to rest, and the flag tells the truth  *)
(* about the panel then, also after setups that lost the race for its path.  *)
SetupsRest ==
  \A e \in Entries : pc[e] \in Awaits ~> (pc[e] \in Rests /\ panel = flag)

(* CHANGELOG 0.77.0: existing entity registry entries are migrated           *)
(* automatically via async_migrate_entry.                                    *)
StatsFollowTheRename ==
  \A e \in Entries :
    data[e].version = 3 /\ data[e].brand = "nivona" =>
      ("warm_milk" \in data[e].stats => "hot_milk" \in data[e].stats)
=============================================================================

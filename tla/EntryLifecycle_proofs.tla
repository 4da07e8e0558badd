----------------------- MODULE EntryLifecycle_proofs -----------------------
(* Proofs about EntryLifecycle, for any entries, requests and number of      *)
(* connections: what a loaded entry relies on is there.  The library goes by *)
(* who may hold which connection: one that is being opened is new, one that  *)
(* is being closed is neither published nor captured, because the teardown   *)
(* runs only when no other entry is configured, and an entry is configured   *)
(* as long as any of its setup or unload is under way.  The panel and the    *)
(* services go by the same fact.                                             *)
EXTENDS EntryLifecycle, TLAPS

USE OpensAssumption DEF Openers, Awaits, Rests, NoDB

(* Setup and unload are under way, or the entry is loaded.                   *)
Busy == Awaits \cup {"loaded"}

(* Such an entry is configured.                                              *)
BusyConfigured == \A e \in Entries : pc[e] \in Busy => e \in configured

(* The connection that is published is open.                                 *)
PublishedIsOpen == published # NoDB => published \in open

(* A connection being opened is one nobody has yet.                          *)
OpeningIsNew == \A o \in Openers : pc[o] = "opening" => own[o] \in (1..opens) \ open

(* Nobody opens or closes the connection that another one opens or closes.   *)
OwnersApart ==
  \A o, p \in Openers :
    o # p /\ pc[o] \in {"opening", "closing"} /\ pc[p] \in {"opening", "closing"}
      => own[o] # own[p]

(* Entries that rely on the connection they have captured.                   *)
Held == {"forwarding", "panel", "loaded", "unloading", "disconnecting"}

(* A connection being closed is not to be had any more.                      *)
ClosingIsUnused ==
  \A e \in Entries : pc[e] = "closing" =>
    own[e] # published /\ \A f \in Entries : pc[f] \in Held => handle[f] # own[e]

Library ==
  PublishedIsOpen /\ OpeningIsNew /\ OwnersApart /\ ClosingIsUnused /\ CapturedIsOpen

(* The flag tells the truth, and a loaded entry has its panel.               *)
FlagIsTrue == flag <=> panel
LoadedHasPanel == \A e \in Entries : pc[e] = "loaded" => panel

(* Past its registration an entry has its services, or has crossed a close;  *)
(* while a close is under way it has.                                        *)
Registered == {"panel", "loaded"}
ServicesOrCrossed == \A e \in Entries : pc[e] \in Registered => services \/ crossed
CrossedClose ==
  \A e, f \in Entries : pc[e] \in Registered /\ pc[f] = "closing" => crossed

Shared == FlagIsTrue /\ LoadedHasPanel /\ ServicesOrCrossed /\ CrossedClose

(* The inductive invariant.                                                  *)
IInv == TypeOK /\ BusyConfigured /\ Library /\ Shared

-----------------------------------------------------------------------------
(* At the start nothing is opened, registered or under way.                  *)
LEMMA InitIInv == Init => IInv
<1> SUFFICES ASSUME Init PROVE IInv
  OBVIOUS
<1> USE DEF Init
<1>1. TypeOK
  <2>1. opens = 0 /\ 0..opens = {0} /\ 0 \in 0..MaxOpens
    OBVIOUS
  <2>2. own \in [Openers -> 0..opens] /\ handle \in [Entries -> 0..opens] /\ published \in 0..opens
    BY <2>1
  <2>3. pc \in [Openers -> Awaits \cup Rests] /\ \A v \in Visitors : pc[v] \in {"out", "opening"}
    OBVIOUS
  <2>4. {panel, flag, services, wsReady, crossed} \subseteq BOOLEAN
    OBVIOUS
  <2>5. configured \subseteq Entries /\ platforms \subseteq Entries /\ open \subseteq 1..opens
    OBVIOUS
  <2> QED
    BY <2>1, <2>2, <2>3, <2>4, <2>5 DEF TypeOK
<1>2. BusyConfigured
  BY DEF BusyConfigured, Busy
<1>3. Library
  BY DEF Library, PublishedIsOpen, OpeningIsNew, OwnersApart, ClosingIsUnused, CapturedIsOpen
<1>4. Shared
  BY DEF Shared, FlagIsTrue, LoadedHasPanel, ServicesOrCrossed, CrossedClose, Registered
<1> QED
  BY <1>1, <1>2, <1>3, <1>4 DEF IInv

(* Every step keeps the types.                                               *)
LEMMA TypeOKNext == IInv /\ [Next]_vars => TypeOK'
<1> SUFFICES ASSUME IInv, [Next]_vars PROVE TypeOK'
  OBVIOUS
<1> USE DEF IInv, TypeOK, entryVars, libraryVars, sharedVars
<1>1. ASSUME NEW e \in Entries, AddEntry(e) PROVE TypeOK'
  BY <1>1 DEF AddEntry
<1>2. ASSUME NEW e \in Entries, SetupStarts(e) PROVE TypeOK'
  <2>1. opens' \in opens..MaxOpens /\ open' = open /\ published' = published
    BY <1>2 DEF SetupStarts, GetDB
  <2>2. 0..opens \subseteq 0..opens' /\ 1..opens \subseteq 1..opens'
    BY <2>1
  <2>3. own' \in [Openers -> 0..opens']
    <3>1. CASE UNCHANGED own
      BY <3>1, <2>2
    <3>2. CASE opens' = opens + 1 /\ own' = [own EXCEPT ![e] = opens + 1]
      BY <3>2, <2>1, <2>2
    <3> QED
      BY <1>2, <3>1, <3>2 DEF SetupStarts, GetDB
  <2>4. handle' \in [Entries -> 0..opens']
    BY <1>2, <2>2 DEF SetupStarts
  <2>5. pc' \in [Openers -> Awaits \cup Rests] /\ \A v \in Visitors : pc'[v] = pc[v]
    BY <1>2 DEF SetupStarts, GetDB
  <2>6. UNCHANGED <<configured, platforms, panel, flag, services, wsReady, crossed>>
    BY <1>2 DEF SetupStarts
  <2>7. opens' \in 0..MaxOpens /\ open' \subseteq 1..opens' /\ published' \in 0..opens'
    BY <2>1, <2>2
  <2> QED
    BY <2>3, <2>4, <2>5, <2>6, <2>7
<1>3. ASSUME NEW v \in Visitors, VisitStarts(v) PROVE TypeOK'
  <2>1. opens' = opens + 1 /\ opens' \in 0..MaxOpens /\ open' = open /\ published' = published
    BY <1>3 DEF VisitStarts, GetDB
  <2>2. 0..opens \subseteq 0..opens' /\ 1..opens \subseteq 1..opens' /\ opens + 1 \in 0..opens'
    BY <2>1
  <2>3. own' = [own EXCEPT ![v] = opens + 1] /\ pc' = [pc EXCEPT ![v] = "opening"]
    BY <1>3 DEF VisitStarts, GetDB
  <2>4. own' \in [Openers -> 0..opens']
    BY <2>2, <2>3
  <2>5. pc' \in [Openers -> Awaits \cup Rests] /\ \A w \in Visitors : pc'[w] \in {"out", "opening"}
    BY <2>3
  <2>6. UNCHANGED <<configured, platforms, handle, panel, flag, services, wsReady, crossed>>
    BY <1>3 DEF VisitStarts
  <2>7. handle' \in [Entries -> 0..opens']
    BY <2>2, <2>6
  <2>8. open' \subseteq 1..opens' /\ published' \in 0..opens'
    BY <2>1, <2>2
  <2> QED
    BY <2>1, <2>4, <2>5, <2>6, <2>7, <2>8
<1>4. ASSUME NEW o \in Openers, LibraryOpened(o) PROVE TypeOK'
  <2>1. own[o] \in 1..opens
    BY <1>4 DEF LibraryOpened, Library, OpeningIsNew
  <2>2. open' \subseteq 1..opens' /\ published' \in 0..opens' /\ opens' = opens /\ own' = own
    BY <1>4, <2>1 DEF LibraryOpened
  <2>3. handle' \in [Entries -> 0..opens]
    BY <1>4, <2>1 DEF LibraryOpened
  <2>4. pc' \in [Openers -> Awaits \cup Rests] /\ \A v \in Visitors : pc'[v] \in {"out", "opening"}
    BY <1>4 DEF LibraryOpened
  <2> QED
    BY <1>4, <2>2, <2>3, <2>4 DEF LibraryOpened
<1>5. ASSUME NEW o \in Openers, LibraryFails(o) PROVE TypeOK'
  <2>1. own[o] \in 1..opens
    BY <1>5 DEF LibraryFails, Library, OpeningIsNew
  <2>2. open' \subseteq 1..opens
    BY <1>5, <2>1 DEF LibraryFails
  <2> QED
    BY <1>5, <2>2 DEF LibraryFails
<1>6. ASSUME NEW e \in Entries, ForwardFails(e) PROVE TypeOK'
  BY <1>6 DEF ForwardFails
<1>7. ASSUME NEW e \in Entries, Forwarded(e) PROVE TypeOK'
  <2>1. crossed' \in BOOLEAN
    BY <1>7 DEF Forwarded
  <2> QED
    BY <1>7, <2>1 DEF Forwarded
<1>8. ASSUME NEW e \in Entries, PanelRegistered(e) \/ PanelTaken(e) PROVE TypeOK'
  BY <1>8 DEF PanelRegistered, PanelTaken
<1>9. ASSUME NEW e \in Entries, UnloadStarts(e) \/ Dismissed(e) PROVE TypeOK'
  BY <1>9 DEF UnloadStarts, Dismissed
<1>10. ASSUME NEW e \in Entries, PlatformsUnloaded(e) PROVE TypeOK'
  BY <1>10 DEF PlatformsUnloaded
<1>11. ASSUME NEW e \in Entries, Disconnected(e) PROVE TypeOK'
  <2>1. {panel', flag', services', wsReady', crossed'} \subseteq BOOLEAN
    BY <1>11 DEF Disconnected, TearDown, UnregisterPanel
  <2> QED
    BY <1>11, <2>1 DEF Disconnected, TearDown, UnregisterPanel
<1>12. ASSUME NEW e \in Entries, Closed(e) PROVE TypeOK'
  BY <1>12 DEF Closed
<1>13. ASSUME NEW e \in Entries, RemoveEntry(e) PROVE TypeOK'
  BY <1>13 DEF RemoveEntry
<1>14. CASE UNCHANGED vars
  BY <1>14 DEF vars
<1> QED
  BY <1>1, <1>2, <1>3, <1>4, <1>5, <1>6, <1>7, <1>8, <1>9, <1>10, <1>11, <1>12, <1>13, <1>14
     DEF Next, Works, Visits, User

(* An entry leaves the configuration only at rest.                           *)
LEMMA BusyNext == IInv /\ [Next]_vars => BusyConfigured'
<1> SUFFICES ASSUME IInv, [Next]_vars PROVE BusyConfigured'
  OBVIOUS
<1> USE DEF IInv, TypeOK, BusyConfigured, Busy, entryVars, libraryVars, sharedVars
<1>1. ASSUME NEW e \in Entries, User(e) PROVE BusyConfigured'
  BY <1>1 DEF User, AddEntry, SetupStarts, GetDB, UnloadStarts, Dismissed, RemoveEntry
<1>2. ASSUME NEW o \in Openers, LibraryOpened(o) \/ LibraryFails(o) PROVE BusyConfigured'
  BY <1>2 DEF LibraryOpened, LibraryFails
<1>3. ASSUME NEW e \in Entries, ForwardFails(e) \/ Forwarded(e) \/ PanelRegistered(e) \/ PanelTaken(e)
      PROVE  BusyConfigured'
  BY <1>3 DEF ForwardFails, Forwarded, PanelRegistered, PanelTaken
<1>4. ASSUME NEW e \in Entries, PlatformsUnloaded(e) \/ Disconnected(e) \/ Closed(e)
      PROVE  BusyConfigured'
  BY <1>4 DEF PlatformsUnloaded, Disconnected, TearDown, Closed
<1>5. ASSUME NEW v \in Visitors, VisitStarts(v) PROVE BusyConfigured'
  BY <1>5 DEF VisitStarts, GetDB
<1>6. CASE UNCHANGED vars
  BY <1>6 DEF vars
<1> QED
  BY <1>1, <1>2, <1>3, <1>4, <1>5, <1>6 DEF Next, Works, Visits

(* When an entry tears down, no other one is under way or loaded.            *)
LEMMA TearDownAlone ==
  ASSUME IInv, NEW e \in Entries, Disconnected(e), Remaining(e) = {},
         NEW f \in Entries, f # e
  PROVE  pc[f] \notin Busy
BY DEF IInv, BusyConfigured, Remaining

-----------------------------------------------------------------------------
(* A step that leaves the library alone, and lets no entry in that relies on *)
(* a connection, opens or closes one.                                        *)
LEMMA LibraryKept ==
  ASSUME Library, UNCHANGED libraryVars,
         \A o \in Openers : pc'[o] \in {"opening", "closing"} => pc'[o] = pc[o],
         \A e \in Entries : pc'[e] \in Held => pc[e] \in Held
  PROVE  Library'
<1> USE DEF Library, libraryVars
<1>1. PublishedIsOpen' /\ OpeningIsNew'
  BY DEF PublishedIsOpen, OpeningIsNew
<1>2. OwnersApart'
  BY DEF OwnersApart
<1>3. ClosingIsUnused' /\ CapturedIsOpen'
  BY DEF ClosingIsUnused, CapturedIsOpen, Held
<1> QED
  BY <1>1, <1>2, <1>3

(* A connection is asked for: the published one, or a new one.               *)
LEMMA LibraryAsked ==
  ASSUME IInv, NEW o \in Openers, NEW found, GetDB(o, found),
         found = "out" \/ (found = "forwarding" /\ o \in Entries),
         IF o \in Entries THEN handle' = [handle EXCEPT ![o] = published]
                          ELSE handle' = handle /\ found = "out",
         pc[o] = "out"
  PROVE  Library'
<1> USE DEF IInv, Library, TypeOK
<1>1. CASE published # NoDB
  <2>1. pc' = [pc EXCEPT ![o] = found] /\ UNCHANGED <<own, open, opens, published>>
    BY <1>1 DEF GetDB
  <2>2. PublishedIsOpen' /\ OpeningIsNew' /\ OwnersApart'
    BY <2>1 DEF PublishedIsOpen, OpeningIsNew, OwnersApart
  <2>3. ClosingIsUnused'
    BY <2>1 DEF ClosingIsUnused, Held
  <2>4. CapturedIsOpen'
    BY <1>1, <2>1 DEF CapturedIsOpen, PublishedIsOpen
  <2> QED
    BY <2>2, <2>3, <2>4
<1>2. CASE published = NoDB
  <2>1. /\ opens' = opens + 1 /\ own' = [own EXCEPT ![o] = opens + 1]
        /\ pc' = [pc EXCEPT ![o] = "opening"] /\ UNCHANGED <<open, published>>
    BY <1>2 DEF GetDB
  <2>2. opens \in Nat /\ own'[o] = opens + 1 /\ pc'[o] = "opening"
        /\ \A p \in Openers \ {o} : own'[p] = own[p] /\ pc'[p] = pc[p] /\ own[p] <= opens
    BY <2>1
  <2>3. PublishedIsOpen'
    BY <2>1 DEF PublishedIsOpen
  <2>4. OpeningIsNew'
    BY <2>1, <2>2 DEF OpeningIsNew
  <2>5. OwnersApart'
    BY <2>2 DEF OwnersApart
  <2>6. ClosingIsUnused'
    BY <2>1, <2>2 DEF ClosingIsUnused, Held
  <2>7. CapturedIsOpen'
    BY <2>1, <2>2 DEF CapturedIsOpen
  <2> QED
    BY <2>3, <2>4, <2>5, <2>6, <2>7
<1> QED
  BY <1>1, <1>2

(* A connection is open and published.                                       *)
LEMMA LibraryIsOpened ==
  ASSUME IInv, NEW o \in Openers, LibraryOpened(o)
  PROVE  Library'
<1> USE DEF IInv, Library, TypeOK
<1>1. /\ pc[o] = "opening" /\ open' = open \cup {own[o]} /\ published' = own[o]
      /\ own' = own /\ opens' = opens
      /\ handle' = IF o \in Entries THEN [handle EXCEPT ![o] = own[o]] ELSE handle
      /\ pc' = [pc EXCEPT ![o] = IF o \in Entries THEN "forwarding" ELSE "out"]
  BY DEF LibraryOpened
<1>2. \A p \in Openers \ {o} : pc[p] \in {"opening", "closing"} => own[p] # own[o]
  BY <1>1 DEF OwnersApart
<1>3. \A p \in Openers \ {o} : pc'[p] = pc[p]
  BY <1>1
<1>4. pc'[o] \in {"forwarding", "out"}
  BY <1>1
<1>5. PublishedIsOpen'
  BY <1>1 DEF PublishedIsOpen
<1>6. OpeningIsNew'
  BY <1>1, <1>2, <1>3, <1>4 DEF OpeningIsNew
<1>7. OwnersApart'
  BY <1>1, <1>3, <1>4 DEF OwnersApart
<1>8. ClosingIsUnused'
  <2> SUFFICES ASSUME NEW e \in Entries, pc'[e] = "closing"
               PROVE  own[e] # own[o] /\ \A f \in Entries : pc'[f] \in Held => handle'[f] # own[e]
    BY <1>1 DEF ClosingIsUnused
  <2>1. e # o /\ pc[e] = "closing" /\ own[e] # own[o]
    BY <1>2, <1>3, <1>4
  <2> QED
    BY <1>1, <1>3, <2>1 DEF ClosingIsUnused
<1>9. CapturedIsOpen'
  BY <1>1, <1>3 DEF CapturedIsOpen
<1> QED
  BY <1>5, <1>6, <1>7, <1>8, <1>9

(* A connection could not be opened, or not set up.                          *)
LEMMA LibraryHasFailed ==
  ASSUME IInv, NEW o \in Openers, LibraryFails(o)
  PROVE  Library'
<1> USE DEF IInv, Library, TypeOK
<1>1. /\ pc[o] = "opening" /\ open' \in {open, open \cup {own[o]}}
      /\ UNCHANGED <<own, handle, opens, published>>
      /\ pc' = [pc EXCEPT ![o] = IF o \in Entries THEN "failed" ELSE "out"]
  BY DEF LibraryFails
<1>2. \A p \in Openers \ {o} : pc[p] \in {"opening", "closing"} => own[p] # own[o]
  BY <1>1 DEF OwnersApart
<1>3. pc'[o] \in {"failed", "out"} /\ \A p \in Openers \ {o} : pc'[p] = pc[p]
  BY <1>1
<1>4. PublishedIsOpen' /\ OpeningIsNew'
  BY <1>1, <1>2, <1>3 DEF PublishedIsOpen, OpeningIsNew
<1>5. OwnersApart'
  BY <1>1, <1>3 DEF OwnersApart
<1>6. ClosingIsUnused' /\ CapturedIsOpen'
  BY <1>1, <1>3 DEF ClosingIsUnused, CapturedIsOpen, Held
<1> QED
  BY <1>4, <1>5, <1>6

(* The last entry takes the published connection away to close it.           *)
LEMMA LibraryIsTornDown ==
  ASSUME IInv, NEW e \in Entries, Disconnected(e)
  PROVE  Library'
<1> USE DEF IInv, Library, TypeOK
<1>1. CASE Remaining(e) # {}
  <2>1. UNCHANGED libraryVars /\ pc' = [pc EXCEPT ![e] = "out"]
    BY <1>1 DEF Disconnected, libraryVars
  <2> QED
    BY <2>1, LibraryKept DEF Held
<1>2. CASE Remaining(e) = {} /\ published = NoDB
  <2>1. UNCHANGED libraryVars /\ pc' = [pc EXCEPT ![e] = "out"]
    BY <1>2 DEF Disconnected, TearDown, libraryVars
  <2> QED
    BY <2>1, LibraryKept DEF Held
<1>3. CASE Remaining(e) = {} /\ published # NoDB
  <2>1. /\ published' = NoDB /\ own' = [own EXCEPT ![e] = published]
        /\ pc' = [pc EXCEPT ![e] = "closing"] /\ UNCHANGED <<handle, open, opens>>
    BY <1>3 DEF Disconnected, TearDown
  <2>2. \A f \in Entries \ {e} : pc[f] \notin Busy
    BY <1>3, TearDownAlone
  <2>3. own'[e] = published /\ pc'[e] = "closing"
        /\ \A p \in Openers \ {e} : own'[p] = own[p] /\ pc'[p] = pc[p]
    BY <2>1
  <2>4. published \in open /\ published # 0
    BY <1>3 DEF PublishedIsOpen
  <2>5. \A p \in Openers \ {e} : pc[p] # "closing" /\ (pc[p] = "opening" => own[p] # published)
    BY <2>2, <2>4 DEF Busy, OpeningIsNew
  <2>6. \A f \in Entries : pc'[f] \notin Held
    BY <2>2, <2>3 DEF Busy, Held
  <2>7. PublishedIsOpen'
    BY <2>1 DEF PublishedIsOpen
  <2>8. OpeningIsNew'
    BY <2>1, <2>3 DEF OpeningIsNew
  <2>9. OwnersApart'
    BY <2>3, <2>5 DEF OwnersApart
  <2>10. ClosingIsUnused'
    BY <2>1, <2>3, <2>4, <2>5, <2>6 DEF ClosingIsUnused
  <2>11. CapturedIsOpen'
    BY <2>6 DEF CapturedIsOpen, Held
  <2> QED
    BY <2>7, <2>8, <2>9, <2>10, <2>11
<1> QED
  BY <1>1, <1>2, <1>3

(* It has closed it.                                                         *)
LEMMA LibraryIsClosed ==
  ASSUME IInv, NEW e \in Entries, Closed(e)
  PROVE  Library'
<1> USE DEF IInv, Library, TypeOK
<1>1. /\ pc[e] = "closing" /\ open' = open \ {own[e]}
      /\ pc' = [pc EXCEPT ![e] = "out"] /\ UNCHANGED <<own, handle, opens, published>>
  BY DEF Closed
<1>2. own[e] # published /\ \A f \in Entries : pc[f] \in Held => handle[f] # own[e]
  BY <1>1 DEF ClosingIsUnused
<1>3. pc'[e] = "out" /\ \A p \in Openers \ {e} : pc'[p] = pc[p]
  BY <1>1
<1>4. PublishedIsOpen' /\ OpeningIsNew'
  BY <1>1, <1>2, <1>3 DEF PublishedIsOpen, OpeningIsNew
<1>5. OwnersApart'
  BY <1>1, <1>3 DEF OwnersApart
<1>6. ClosingIsUnused'
  BY <1>1, <1>3 DEF ClosingIsUnused, Held
<1>7. CapturedIsOpen'
  BY <1>1, <1>2, <1>3 DEF CapturedIsOpen, Held
<1> QED
  BY <1>4, <1>5, <1>6, <1>7

(* Every step keeps the library's part.                                      *)
LEMMA LibraryNext == IInv /\ [Next]_vars => Library'
<1> SUFFICES ASSUME IInv, [Next]_vars PROVE Library'
  OBVIOUS
<1>0. Library /\ pc \in [Openers -> Awaits \cup Rests]
  BY DEF IInv, TypeOK
<1>1. ASSUME NEW e \in Entries, SetupStarts(e) PROVE Library'
  BY <1>1, LibraryAsked DEF SetupStarts
<1>2. ASSUME NEW v \in Visitors, VisitStarts(v) PROVE Library'
  BY <1>2, LibraryAsked DEF VisitStarts
<1>3. ASSUME NEW o \in Openers, LibraryOpened(o) \/ LibraryFails(o) PROVE Library'
  BY <1>3, LibraryIsOpened, LibraryHasFailed
<1>4. ASSUME NEW e \in Entries, Disconnected(e) \/ Closed(e) PROVE Library'
  BY <1>4, LibraryIsTornDown, LibraryIsClosed
<1>5. ASSUME NEW e \in Entries, ForwardFails(e) \/ Forwarded(e) \/ PanelRegistered(e) \/ PanelTaken(e)
      PROVE  Library'
  <2>1. UNCHANGED libraryVars
    BY <1>5 DEF ForwardFails, Forwarded, PanelRegistered, PanelTaken
  <2>2. PICK to \in {"failed", "loaded", "panel"} :
          pc' = [pc EXCEPT ![e] = to] /\ pc[e] \in {"forwarding", "panel"}
    BY <1>5 DEF ForwardFails, Forwarded, PanelRegistered, PanelTaken
  <2> QED
    BY <1>0, <2>1, <2>2, LibraryKept DEF Held
<1>6. ASSUME NEW e \in Entries, AddEntry(e) PROVE Library'
  BY <1>0, <1>6, LibraryKept DEF AddEntry
<1>7. ASSUME NEW e \in Entries, UnloadStarts(e) \/ Dismissed(e) \/ RemoveEntry(e) \/ PlatformsUnloaded(e)
      PROVE  Library'
  <2>1. UNCHANGED libraryVars
    BY <1>7 DEF UnloadStarts, Dismissed, RemoveEntry, PlatformsUnloaded
  <2>2. PICK to \in {"unloading", "out", "disconnecting", "stuck"} :
          pc' = [pc EXCEPT ![e] = to] /\ (to \in {"out", "stuck"} \/ pc[e] \in {"loaded", "unloading"})
    BY <1>7 DEF UnloadStarts, Dismissed, RemoveEntry, PlatformsUnloaded
  <2> QED
    BY <1>0, <2>1, <2>2, LibraryKept DEF Held
<1>8. CASE UNCHANGED vars
  BY <1>0, <1>8, LibraryKept DEF vars, libraryVars
<1> QED
  BY <1>1, <1>2, <1>3, <1>4, <1>5, <1>6, <1>7, <1>8 DEF Next, Works, Visits, User

-----------------------------------------------------------------------------
(* A step that leaves what is shared alone, loads or registers no entry and  *)
(* closes nothing.                                                           *)
LEMMA SharedKept ==
  ASSUME Shared, UNCHANGED <<panel, flag, services, crossed>>,
         \A e \in Entries : pc'[e] \in Registered \cup {"closing"} => pc'[e] = pc[e]
  PROVE  Shared'
BY DEF Shared, FlagIsTrue, LoadedHasPanel, ServicesOrCrossed, CrossedClose, Registered

(* Every step keeps the shared part.                                         *)
LEMMA SharedNext == IInv /\ [Next]_vars => Shared'
<1> SUFFICES ASSUME IInv, [Next]_vars PROVE Shared'
  OBVIOUS
<1>0. Shared /\ pc \in [Openers -> Awaits \cup Rests]
  BY DEF IInv, TypeOK
<1> USE DEF sharedVars
<1>1. ASSUME NEW e \in Entries, SetupStarts(e) PROVE Shared'
  BY <1>0, <1>1, SharedKept DEF SetupStarts, GetDB, Registered
<1>2. ASSUME NEW v \in Visitors, VisitStarts(v) PROVE Shared'
  BY <1>0, <1>2, SharedKept DEF VisitStarts, GetDB, Registered
<1>3. ASSUME NEW o \in Openers, LibraryOpened(o) \/ LibraryFails(o) PROVE Shared'
  BY <1>0, <1>3, SharedKept DEF LibraryOpened, LibraryFails, Registered
<1>4. ASSUME NEW e \in Entries, ForwardFails(e) \/ PanelTaken(e) PROVE Shared'
  BY <1>0, <1>4, SharedKept DEF ForwardFails, PanelTaken, Registered
<1>5. ASSUME NEW e \in Entries, Forwarded(e) PROVE Shared'
  <2>1. /\ services' = TRUE /\ UNCHANGED <<panel, flag>>
        /\ crossed' = (crossed \/ \E f \in Entries : pc[f] = "closing")
        /\ pc' = [pc EXCEPT ![e] = IF flag THEN "loaded" ELSE "panel"]
    BY <1>5 DEF Forwarded
  <2>2. FlagIsTrue' /\ ServicesOrCrossed'
    BY <1>0, <2>1 DEF Shared, FlagIsTrue, ServicesOrCrossed
  <2>3. LoadedHasPanel'
    BY <1>0, <2>1 DEF Shared, FlagIsTrue, LoadedHasPanel
  <2>4. \A f \in Entries : pc'[f] = "closing" => pc[f] = "closing"
    BY <1>0, <2>1
  <2>5. CrossedClose'
    BY <2>1, <2>4 DEF CrossedClose
  <2> QED
    BY <2>2, <2>3, <2>5 DEF Shared
<1>6. ASSUME NEW e \in Entries, PanelRegistered(e) PROVE Shared'
  <2>1. /\ pc[e] = "panel" /\ panel' = TRUE /\ flag' = TRUE /\ UNCHANGED <<services, crossed>>
        /\ pc' = [pc EXCEPT ![e] = "loaded"]
    BY <1>6 DEF PanelRegistered
  <2>2. FlagIsTrue' /\ LoadedHasPanel'
    BY <2>1 DEF FlagIsTrue, LoadedHasPanel
  <2>3. ServicesOrCrossed' /\ CrossedClose'
    BY <1>0, <2>1 DEF Shared, ServicesOrCrossed, CrossedClose, Registered
  <2> QED
    BY <2>2, <2>3 DEF Shared
<1>7. ASSUME NEW e \in Entries, UnloadStarts(e) \/ Dismissed(e) \/ RemoveEntry(e) PROVE Shared'
  BY <1>0, <1>7, SharedKept DEF UnloadStarts, Dismissed, RemoveEntry, Registered
<1>8. ASSUME NEW e \in Entries, AddEntry(e) PROVE Shared'
  BY <1>0, <1>8, SharedKept DEF AddEntry
<1>9. ASSUME NEW e \in Entries, PlatformsUnloaded(e) PROVE Shared'
  BY <1>0, <1>9, SharedKept DEF PlatformsUnloaded, Registered
<1>10. ASSUME NEW e \in Entries, Disconnected(e) PROVE Shared'
  <2>1. CASE Remaining(e) # {}
    BY <1>0, <1>10, <2>1, SharedKept DEF Disconnected, Registered
  <2>2. CASE Remaining(e) = {}
    <3>1. panel' = (panel /\ ~flag) /\ flag' = FALSE
          /\ pc' \in {[pc EXCEPT ![e] = "out"], [pc EXCEPT ![e] = "closing"]}
      BY <1>10, <2>2 DEF Disconnected, TearDown, UnregisterPanel
    <3>2. \A f \in Entries \ {e} : pc[f] \notin Busy
      BY <1>10, <2>2, TearDownAlone
    <3>3. \A f \in Entries : pc'[f] \notin Registered
      BY <1>0, <3>1, <3>2 DEF Busy, Registered
    <3>4. FlagIsTrue'
      BY <1>0, <3>1 DEF Shared, FlagIsTrue
    <3>5. LoadedHasPanel' /\ ServicesOrCrossed' /\ CrossedClose'
      BY <3>3 DEF LoadedHasPanel, ServicesOrCrossed, CrossedClose, Registered
    <3> QED
      BY <3>4, <3>5 DEF Shared
  <2> QED
    BY <2>1, <2>2
<1>11. ASSUME NEW e \in Entries, Closed(e) PROVE Shared'
  <2>1. pc[e] = "closing" /\ pc' = [pc EXCEPT ![e] = "out"] /\ UNCHANGED <<panel, flag, crossed>>
    BY <1>11 DEF Closed
  <2>2. \A f \in Entries : pc'[f] \in Registered \cup {"closing"} => pc'[f] = pc[f]
    BY <1>0, <2>1 DEF Registered
  <2>3. FlagIsTrue' /\ LoadedHasPanel' /\ CrossedClose'
    BY <1>0, <2>1, <2>2 DEF Shared, FlagIsTrue, LoadedHasPanel, CrossedClose, Registered
  <2>4. ServicesOrCrossed'
    BY <1>0, <2>1, <2>2 DEF Shared, ServicesOrCrossed, CrossedClose
  <2> QED
    BY <2>3, <2>4 DEF Shared
<1>12. CASE UNCHANGED vars
  BY <1>0, <1>12, SharedKept DEF vars
<1> QED
  BY <1>1, <1>2, <1>3, <1>4, <1>5, <1>6, <1>7, <1>8, <1>9, <1>10, <1>11, <1>12
     DEF Next, Works, Visits, User

-----------------------------------------------------------------------------
(* Every step preserves the invariant.                                       *)
LEMMA NextIInv == IInv /\ [Next]_vars => IInv'
BY TypeOKNext, BusyNext, LibraryNext, SharedNext DEF IInv

(* The inductive invariant holds in every reachable state.                   *)
THEOREM Invariance == Spec => []IInv
BY InitIInv, NextIInv, PTL DEF Spec

(* Every variable keeps its type.                                            *)
THEOREM TypeCorrect == Spec => []TypeOK
<1>1. IInv => TypeOK
  BY DEF IInv
<1> QED
  BY Invariance, <1>1, PTL

(* The connection an entry has captured stays open until its own teardown,   *)
(* however setups, unloads and requests interleave (async_unload_entry).     *)
THEOREM CapturedStaysOpen == Spec => []CapturedIsOpen
<1>1. IInv => CapturedIsOpen
  BY DEF IInv, Library
<1> QED
  BY Invariance, <1>1, PTL

(* A loaded entry has its panel, and its services unless it crossed a close  *)
(* (_async_register_panel, _async_register_services).                        *)
THEOREM LoadedIsServed == Spec => []SharedWhileLoaded
<1>1. IInv => SharedWhileLoaded
  BY DEF IInv, Shared, LoadedHasPanel, ServicesOrCrossed, Registered, SharedWhileLoaded
<1> QED
  BY Invariance, <1>1, PTL
=============================================================================

---------------------------- MODULE SommelierApi ----------------------------
(***************************************************************************)
(* The Sommelier's commands (sommelier_api.py) on the shared connection,   *)
(* together with those of the panel.  A command that only reads is left    *)
(* out, unless it goes on from what it has read.                           *)
(***************************************************************************)
EXTENDS PanelApi

(***************************************************************************)
(* Beans, hoppers, milk.                                                   *)
(***************************************************************************)
WsBeansAdd(c) ==
  \E b \in Beans : Insert(c, "beans/add", b, AddBean(work, b))

\* The columns that are not in the patch are read first and written back.
WsBeansUpdate(c) ==
  LET op == "beans/update" IN
  \/ /\ Call(c, op) /\ UNCHANGED <<issued, contended>>
     /\ \E b \in work.beans : ReadOn(c, "patch", Request(op, b, None, None))
  \/ /\ At(c, op, "patch") /\ UNCHANGED <<issued, contended>>
     /\ Execute(c, TRUE, UpdateBean(work, req[c].row), "commit", req[c])

WsBeansDelete(c) ==
  \E b \in Beans : Update(c, "beans/delete", DeleteBean(work, b))

WsHoppersAssign(c) ==
  \E h \in Hoppers, b \in Beans \cup {None} :
    Update(c, "hoppers/assign", AssignHopper(work, h, b))

\* One INSERT for each milk of the list, one DELETE for what is not in it.
WsMilkSet(c) ==
  LET op == "milk/set" todo == req[c].todo IN
  \/ /\ Call(c, op) /\ UNCHANGED <<issued, contended>>
     /\ \E list \in SUBSET Milks : ReadOn(c, "milk", Request(op, None, list, list))
  \/ /\ At(c, op, "milk") /\ UNCHANGED <<issued, contended>>
     /\ \/ \E m \in todo :
             Execute(c, TRUE, InsertMilk(work, m), "milk",
                     [req[c] EXCEPT !.todo = todo \ {m}])
        \/ /\ todo = {}
           /\ Execute(c, TRUE, PruneMilk(work, req[c].seen), "commit", req[c])

WsMilkSetAvailable(c) ==
  \E m \in Milks, flag \in {"in", "out"} :
    Update(c, "milk/set_available", SetMilkAvailable(work, m, flag))

(***************************************************************************)
(* Generate: the hoppers and the active profile are read one by one, the   *)
(* language model is asked, and what it says is stored as a session and    *)
(* its recipes.                                                            *)
(***************************************************************************)
Generate == "generate"

ReadContext(c) ==
  LET seen == req[c].seen IN
  \/ /\ Call(c, Generate)
     /\ ReadOn(c, "hopper2",
               Request(Generate, None, None,
                       [hopper |-> [h \in Hoppers |-> work.hoppers[1]],
                        profile |-> None, count |-> 0]))
  \/ /\ At(c, Generate, "hopper2")
     /\ ReadOn(c, "profile",
               [req[c] EXCEPT !.seen = [seen EXCEPT !.hopper[2] = work.hoppers[2]]])
  \/ /\ At(c, Generate, "profile")
     /\ \E p \in IF work.active = {} THEN {None} ELSE work.active :
          ReadOn(c, "prompt", [req[c] EXCEPT !.seen = [seen EXCEPT !.profile = p]])

\* _resolve_prompt and _resolve_agent_id, some of them more than once, make
\* sure of the panel's schema: each time they commit.
ReadPrompt(c) ==
  /\ At(c, Generate, "prompt")
  /\ disk' = work /\ writers' = {}
  /\ \E step \in {"prompt", "llm"} : Go(c, step, req[c])
  /\ UNCHANGED <<state, migration, work, dbLock, llm>>

\* async_create_session.
CreateSession(c) ==
  LET s == req[c].row seen == req[c].seen IN
  \/ /\ At(c, Generate, "session")
     /\ Execute(c, TRUE, InsertSession(work, s, seen.profile, seen.hopper),
                "recipes", req[c])
  \/ /\ At(c, Generate, "recipes") /\ req[c].todo > 0
     /\ Execute(c, TRUE, InsertRecipe(work, <<s, req[c].todo>>), "recipes",
                [req[c] EXCEPT !.todo = @ - 1])
  \/ /\ At(c, Generate, "recipes") /\ req[c].todo = 0
     /\ ReadOn(c, "commit", req[c])

\* The structured call has returned.  Without a list of recipes it ends as
\* no_recipes.  _validate_recipes keeps of a list what is an object, and raises
\* if a phase is none.
AcceptRecipes(c) ==
  /\ At(c, Generate, "structured") /\ UNCHANGED contended
  /\ \/ ReadEnd(c) /\ UNCHANGED issued
     \/ /\ llm[c].parsed # "none"
        /\ \E n \in 0..MaxRecipes, s \in Sessions \ issued :
             /\ issued' = issued \cup {s}
             /\ ReadOn(c, "session",
                       Request(Generate, s, n, [req[c].seen EXCEPT !.count = n]))

WsGenerate(c) ==
  \/ /\ ReadContext(c) \/ ReadPrompt(c) \/ CreateSession(c)
     /\ UNCHANGED <<issued, contended>>
  \/ AcceptRecipes(c)

\* The recipe is read, the machine brews it or not (see BrewCommands), and it
\* is marked.
WsBrew(c) ==
  LET op == "brew" IN
  /\ UNCHANGED <<issued, contended>>
  /\ \/ /\ Call(c, op)
        /\ \E r \in work.recipes : ReadOn(c, "brew", Request(op, r, None, None))
     \/ At(c, op, "brew") /\ (ReadEnd(c) \/ ReadOn(c, "mark", req[c]))
     \/ /\ At(c, op, "mark")
        /\ Execute(c, TRUE, MarkRecipeBrewed(work, req[c].row), "commit", req[c])

\* clear_history waits for SommelierDB._lock.
WsHistoryClear(c) ==
  LET op == "history/clear" IN
  /\ UNCHANGED <<issued, contended>>
  /\ \/ /\ Call(c, op)
        /\ \E keep \in BOOLEAN : ReadOn(c, "lock", Request(op, None, keep, None))
     \/ /\ At(c, op, "locked")
        /\ Execute(c, TRUE, ClearHistory(work, req[c].todo), "commit", req[c])

(***************************************************************************)
(* Favorites and ratings.                                                  *)
(***************************************************************************)
\* The recipe is read, and the hoppers, before the favorite is made of it.
WsFavoritesAdd(c) ==
  LET op == "favorites/add" IN
  /\ UNCHANGED contended
  /\ \/ /\ Call(c, op)
        /\ \E r \in work.recipes, f \in Favorites \ issued :
             /\ issued' = issued \cup {f}
             /\ ReadOn(c, "favorite", Request(op, f, r, None))
     \/ /\ At(c, op, "favorite") /\ UNCHANGED issued
        /\ Execute(c, TRUE, AddFavorite(work, req[c].row, req[c].todo), "commit", req[c])

WsFavoritesRemove(c) ==
  \E f \in Favorites : Update(c, "favorites/remove", RemoveFavorite(work, f))

\* Favorites are brewed like recipes; brew_count is incremented.
WsFavoritesBrew(c) ==
  LET op == "favorites/brew" IN
  /\ UNCHANGED <<issued, contended>>
  /\ \/ /\ Call(c, op)
        /\ \E f \in work.favorites : ReadOn(c, "brew", Request(op, f.id, None, None))
     \/ At(c, op, "brew") /\ (ReadEnd(c) \/ ReadOn(c, "mark", req[c]))
     \/ /\ At(c, op, "mark")
        /\ Execute(c, TRUE, UpdateFavorite(work, req[c].row), "commit", req[c])

\* async_set_rating: under the lock, the row is looked up and then updated or
\* inserted.  todo has the rating and the note.
SetRating(c, op) ==
  LET t == req[c].row to == req[c].todo IN
  \/ At(c, op, "locked") /\ ReadOn(c, "rate", [req[c] EXCEPT !.seen = Rated(work, t)])
  \/ /\ At(c, op, "rate")
     /\ IF req[c].seen
          THEN Execute(c, TRUE, UpdateRating(work, t, to[1], to[2]), "commit", req[c])
          ELSE Execute(c, ~Rated(work, t), InsertRating(work, t, to[1], to[2]),
                       "commit", req[c])

WsRecipeRate(c) ==
  LET op == "recipe/rate" IN
  /\ UNCHANGED <<issued, contended>>
  /\ \/ /\ Call(c, op)
        /\ \E t \in Targets, stars \in Stars, note \in Notes \cup {None} :
             ReadOn(c, "lock", Request(op, t, <<stars, note>>, None))
     \/ SetRating(c, op)

WsRecipeUnrate(c) ==
  LET op == "recipe/unrate" IN
  /\ UNCHANGED <<issued, contended>>
  /\ \/ /\ Call(c, op)
        /\ \E t \in Targets : ReadOn(c, "lock", Request(op, t, None, None))
     \/ /\ At(c, op, "locked")
        /\ Execute(c, TRUE, ClearRating(work, req[c].row), "commit", req[c])

\* async_update_favorite.  A new name is updated and committed under the lock.
\* A new note is a new rating: async_get_rating reads the stars under the lock,
\* async_set_rating takes the lock again and writes them back with the note.
WsFavoritesUpdate(c) ==
  LET op == "favorites/update"
      f == req[c].row
      noted == req[c].todo
      part == noted[3]
      Rate == {r \in work.ratings : r.target = f}
  IN
  /\ UNCHANGED <<issued, contended>>
  /\ \/ /\ Call(c, op)
        /\ \E g \in Favorites, note \in Notes \cup {None}, what \in {"name", "note", "both"} :
             ReadOn(c, "lock", Request(op, g, <<None, note, what>>, None))
     \/ /\ At(c, op, "locked") /\ part \in {"name", "both"}
        /\ Execute(c, TRUE, UpdateFavorite(work, f),
                   IF part = "name" THEN "commit" ELSE "renamed", req[c])
     \/ /\ At(c, op, "renamed")
        /\ disk' = work /\ writers' = {} /\ dbLock' = NoClient
        /\ Go(c, "lock", Request(op, f, <<None, noted[2], "note">>, None))
        /\ UNCHANGED <<state, migration, work, llm>>
     \/ /\ At(c, op, "locked") /\ part = "note" /\ noted[1] = None
        /\ IF Rate = {} THEN ReadEnd(c)
             ELSE \E r \in Rate :
                    /\ Go(c, "lock", Request(op, f, <<r.stars, noted[2], "note">>, None))
                    /\ dbLock' = NoClient
                    /\ UNCHANGED <<state, migration, work, disk, writers, llm>>
     \/ req[c].op = op /\ noted[1] # None /\ SetRating(c, op)

(***************************************************************************)
(* Presets: a system preset is read-only, by a look before the statement.  *)
(***************************************************************************)
WsPresetsAdd(c) ==
  \E p \in UserPresets : Insert(c, "presets/add", p, AddPreset(work, p))

\* Mutant: every preset that is there.
WritableAny(p) == p \in Presets

Writable(p) == p \notin SystemPresets

PresetChange(c, op, d) ==
  /\ UNCHANGED <<issued, contended>>
  /\ \/ /\ Call(c, op)
        /\ \E p \in Presets : Writable(p) /\ ReadOn(c, "preset", Request(op, p, None, None))
     \/ At(c, op, "preset") /\ Execute(c, TRUE, d, "commit", req[c])

WsPresetsUpdate(c) ==
  PresetChange(c, "presets/update", UpdatePreset(work, req[c].row))
WsPresetsDelete(c) ==
  PresetChange(c, "presets/delete", DeletePreset(work, req[c].row))

(***************************************************************************)
(* Settings, preferences, extras.                                          *)
(***************************************************************************)
WsSettingsSet(c) ==
  \E k \in SettingKeys, v \in Texts : Update(c, "settings/set", SetSetting(work, k, v))
WsPreferencesSet(c) ==
  \E k \in PrefKeys, v \in Texts : Update(c, "preferences/set", SetPreference(work, k, v))

\* One DELETE and an INSERT for each item.  The list may name an item twice,
\* which its key forbids.
WsExtrasSet(c) ==
  LET op == "extras/set" category == req[c].row todo == req[c].todo IN
  /\ UNCHANGED <<issued, contended>>
  /\ \/ /\ Call(c, op)
        /\ \E k \in Categories, list \in {<<>>} \cup (Items \X Items) :
             Execute(c, TRUE, DeleteExtras(work, k), "items", Request(op, k, list, None))
     \/ /\ At(c, op, "items") /\ todo # <<>>
        /\ Execute(c, <<category, Head(todo)>> \notin work.extras,
                   InsertExtra(work, category, Head(todo)), "items",
                   [req[c] EXCEPT !.todo = Tail(todo)])
     \/ At(c, op, "items") /\ todo = <<>> /\ ReadOn(c, "commit", req[c])

\* The callback of the connection manager stores what a machine that has
\* connected can do (_make_capabilities_probe_callback).
ProbeCapabilities(c) ==
  LET op == "probe" IN
  /\ UNCHANGED <<issued, contended>>
  /\ \/ /\ Call(c, op)
        /\ \E e \in Entries : ReadOn(c, "lock", Request(op, e, None, None))
     \/ /\ At(c, op, "locked")
        /\ Execute(c, TRUE, SaveCapabilities(work, req[c].row), "commit", req[c])

(***************************************************************************)
(* Profiles.                                                               *)
(***************************************************************************)
WsProfilesAdd(c) ==
  \E p \in Profiles : Insert(c, "profiles/add", p, AddProfile(work, p))

WsProfilesUpdate(c) ==
  LET op == "profiles/update" IN
  /\ UNCHANGED <<issued, contended>>
  /\ \/ /\ Call(c, op)
        /\ \E p \in work.profiles : ReadOn(c, "patch", Request(op, p, None, None))
     \/ /\ At(c, op, "patch")
        /\ Execute(c, TRUE, UpdateProfile(work, req[c].row), "commit", req[c])

WsProfilesDelete(c) ==
  \E p \in Profiles : Update(c, "profiles/delete", DeleteProfile(work, p))

\* A caller is in the middle of an activation.
Activates(c) == pc[c] = "activate"

\* All profiles are deactivated by one statement, one is activated by the next.
WsProfilesActivate(c) ==
  LET op == "profiles/activate" IN
  /\ UNCHANGED issued
  /\ \/ /\ Call(c, op)
        /\ \E p \in Profiles :
             Execute(c, TRUE, DeactivateProfiles(work), "activate", Request(op, p, None, None))
        /\ contended' = (contended \/ \E b \in Clients : Activates(b))
     \/ /\ At(c, op, "activate") /\ UNCHANGED contended
        /\ Execute(c, TRUE, ActivateProfile(work, req[c].row), "commit", req[c])

(***************************************************************************)
(* The specification.                                                      *)
(***************************************************************************)
SommelierStep(c) ==
  \/ WsBeansAdd(c) \/ WsBeansUpdate(c) \/ WsBeansDelete(c) \/ WsHoppersAssign(c)
  \/ WsMilkSet(c) \/ WsMilkSetAvailable(c)
  \/ WsGenerate(c) \/ WsBrew(c) \/ WsHistoryClear(c)
  \/ WsFavoritesAdd(c) \/ WsFavoritesRemove(c) \/ WsFavoritesUpdate(c)
  \/ WsFavoritesBrew(c) \/ WsRecipeRate(c) \/ WsRecipeUnrate(c)
  \/ WsPresetsAdd(c) \/ WsPresetsUpdate(c) \/ WsPresetsDelete(c)
  \/ WsSettingsSet(c) \/ WsPreferencesSet(c) \/ WsExtrasSet(c)
  \/ ProbeCapabilities(c)
  \/ WsProfilesAdd(c) \/ WsProfilesUpdate(c) \/ WsProfilesDelete(c)
  \/ WsProfilesActivate(c)

RequestStep(c) ==
  \/ AcquireLock(c) \/ Commit(c) \/ Answer(c) \/ StatementRaises(c)
  \/ PanelStep(c) \/ SommelierStep(c)

SetupStep == OpenDatabase \/ Migrate \/ FinishMigration \/ SeedPreset \/ FinishSeeding

Next == SetupStep \/ LoseConnection \/ \E c \in Clients : RequestStep(c)

Spec == Init /\ [][Next]_vars

\* The thread of aiosqlite works off its queue, the machine and the language
\* model answer.
FairSpec == Spec /\ \A c \in Clients : WF_vars(pc[c] # "idle" /\ RequestStep(c))

(***************************************************************************)
(* Properties.                                                             *)
(***************************************************************************)
Steps == {"idle", "ensure", "statement", "flag", "llm", "structured", "patch", "milk",
          "hopper2", "profile", "prompt", "session", "recipes", "brew", "mark", "lock",
          "locked", "rate", "renamed", "favorite", "preset", "items", "activate",
          "commit", "answer"}

\* The types of the state.  Who holds the lock is at one of the steps under it,
\* and nobody else is.
TypeOK ==
  /\ state \in {"closed", "migrating", "seeding", "open"}
  /\ migration \in [due : SUBSET Statements, failed : SUBSET Statements]
  /\ work \in Databases /\ disk \in Databases
  /\ writers \subseteq Clients \cup {Setup}
  /\ dbLock \in Clients \cup {NoClient}
  /\ pc \in [Clients -> Steps]
  /\ issued \subseteq Issuable /\ calls \in 0..MaxCalls /\ contended \in BOOLEAN
  /\ \A c \in Clients : pc[c] \in {"locked", "rate", "renamed"} => dbLock = c
  /\ \A c \in Clients : dbLock = c => pc[c] \in {"locked", "rate", "renamed", "commit"}

\* A rating is an upsert made of a SELECT and then an INSERT or an UPDATE: what
\* the SELECT said is still so when the other one is executed, so the INSERT
\* never meets a row and the UPDATE never misses one.  Rates, note edits and
\* unrates of one target come in any order; _lock has to keep them apart.
UpsertsSeeTheRow ==
  \A c \in Clients : pc[c] = "rate" => (req[c].seen <=> Rated(work, req[c].row))

\* "Set a profile as active (deactivates all others)" (sommelier_db.py:1598):
\* at most one profile is active, in memory and on disk, whatever is committed
\* or lost between its two statements, unless two activations overlapped.
OneActiveUncontended == ~contended => OneActive(work) /\ OneActive(disk)

\* A session whose creation is answered has all the recipes of the reply, or it
\* has been cleared with all of them: no interleaving of generate with
\* clear_history leaves some.
GeneratedWhole ==
  \A c \in Clients : pc[c] = "answer" /\ req[c].op = Generate =>
    LET s == req[c].row
        stored == {r \in work.recipes : r[1] = s}
    IN IF \E x \in work.sessions : x.id = s
         THEN stored = {s} \X (1..req[c].seen.count)
         ELSE stored = {}

\* The gate of async_seed_system_presets counts: if one system preset is there
\* it never seeds again.  That is sound because a file has either all of them
\* or none, whenever the connection is lost, and because no command removes one.
SystemPresetsStay ==
  /\ state = "open" => SystemPresets \subseteq work.presets
  /\ disk.presets \cap SystemPresets \in {{}, SystemPresets}

\* When a request is answered, nothing it wrote is left to be lost with the
\* connection, and so it is with every request that has ended well.
AnswerIsSaved == \A c \in Clients : pc[c] = "answer" => c \notin writers

\* Of the statements up to the version d tells each has gone through or raised.
VersionTold(d) == Statements \ Above(d.version) \subseteq d.migrated \cup migration.failed

\* The version that a file tells is never ahead of its schema: of the migrations
\* up to it nothing is missing but statements that were executed and raised,
\* wherever an attempt was cut off, even between the statements of one back-fill
\* and whatever was committed with them; and an open database tells the last.
SchemaComplete ==
  /\ VersionTold(work) /\ VersionTold(disk)
  /\ state \in {"seeding", "open"} => work.version = LastVersion

\* "Column/table may already exist" (sommelier_db.py:470), so that an open
\* database has the whole schema.  It need not: every failure is swallowed.
NothingSwallowed == state = "open" => work.migrated = Statements

\* A bulk save of the milks "preserves `available` for surviving rows"
\* (sommelier_db.py:683): a milk that is there changes its flag by a toggle
\* alone, and goes only by a bulk save whose list it is not in.
MilkKept ==
  [][\A m \in Milks : work.milk[m] # work'.milk[m] /\ work.milk[m] # "absent" =>
       \/ state' = "closed"
       \/ \E c \in Clients :
            /\ pc[c] # pc'[c]
            /\ \/ req'[c].op = "milk/set_available"
               \/ work'.milk[m] = "absent" /\ req[c].op = "milk/set" /\ m \notin req[c].seen]_vars

\* "validation_errors is empty on success" (panel_api.py:713), and only then:
\* the payload of a structured call has errors iff it has no validated object.
ErrorsTellValidity ==
  \A c \in Clients : pc[c] = "structured" => (llm[c].errors <=> llm[c].parsed # "valid")

\* Every request ends, however requests interleave at the lock.
RequestsEnd == \A c \in Clients : pc[c] # "idle" ~> pc[c] = "idle"
=============================================================================

---------------------------- MODULE SommelierDB ----------------------------
(***************************************************************************)
(* The Sommelier database (sommelier_db.py, and the tables panel_api.py    *)
(* adds): its schema and the statements that are executed on it.  A row is *)
(* its key and the columns that other code decides on.                     *)
(***************************************************************************)
EXTENDS Naturals, Sequences, FiniteSets

CONSTANTS
  None,                     \* SQL NULL
  Beans, Profiles, Sessions, Favorites, UserPresets,  \* keys
  SystemPresets,            \* the sys_* keys of SYSTEM_PRESETS
  MaxRecipes,               \* the most recipes a session is given
  Stars, Notes,             \* a rating and its note
  Milks, Categories, Items, \* milk_config, user_extras
  SettingKeys, PrefKeys, Texts,  \* the tables of keys and values
  Entries,                  \* config entries, keys of machine_capabilities
  Producers, Names, Additives, Tags, Slots,  \* the tables of the panel
  LastVersion,              \* SCHEMA_VERSION
  Script,                   \* the statements of all migrations, in their order
  SeedNeeds                 \* those that make what the seeding writes to

Hoppers == {1, 2}
Presets == SystemPresets \cup UserPresets
Recipes == Sessions \X (1..MaxRecipes)
Targets == Recipes \cup Favorites  \* (target_id, target_type) of a rating
Statements == DOMAIN Script

ASSUME DBAssumption ==
  /\ MaxRecipes \in Nat /\ LastVersion \in Nat \ {0}
  \* the version it leads to, what it builds on, and whether it updates rows
  /\ Script \in Seq([version : 2..LastVersion, needs : SUBSET Nat, fills : BOOLEAN])
  /\ SeedNeeds \subseteq Statements
  /\ SystemPresets \cap UserPresets = {}
  /\ None \notin Beans \cup Profiles \cup Producers \cup Names

(***************************************************************************)
(* The schema, and the constraints SQLite enforces with foreign_keys=ON.   *)
(***************************************************************************)
Databases ==
  [version : 0..LastVersion, migrated : SUBSET Statements,
   beans : SUBSET Beans, hoppers : [Hoppers -> Beans \cup {None}],
   profiles : SUBSET Profiles, active : SUBSET Profiles,
   sessions : SUBSET [id : Sessions, profile : Profiles \cup {None},
                      hopper : [Hoppers -> Beans \cup {None}]],
   recipes : SUBSET Recipes, brewed : SUBSET Recipes,
   favorites : SUBSET [id : Favorites, source : Recipes],
   ratings : SUBSET [target : Targets, stars : Stars, note : Notes \cup {None}],
   presets : SUBSET Presets,
   milk : [Milks -> {"absent", "in", "out"}],
   extras : SUBSET (Categories \X Items),
   settings : [SettingKeys -> Texts \cup {None}],
   preferences : [PrefKeys -> Texts \cup {None}],
   capabilities : [Entries -> {"none", "cached", "corrupt"}],
   producers : [Producers -> Names \cup {None}],
   additives : SUBSET [id : Additives, producer : Producers \cup {None},
                       available : BOOLEAN],
   tags : SUBSET Tags, prompts : SUBSET Slots]

\* No file yet.
NoDatabase ==
  [version |-> 0, migrated |-> {}, beans |-> {}, hoppers |-> [h \in Hoppers |-> None],
   profiles |-> {}, active |-> {}, sessions |-> {}, recipes |-> {}, brewed |-> {},
   favorites |-> {}, ratings |-> {}, presets |-> {},
   milk |-> [m \in Milks |-> "absent"], extras |-> {},
   settings |-> [k \in SettingKeys |-> None],
   preferences |-> [k \in PrefKeys |-> None],
   capabilities |-> [e \in Entries |-> "none"],
   producers |-> [p \in Producers |-> None], additives |-> {},
   tags |-> {}, prompts |-> {}]

\* Mutant: the rows of a recipe do not name their session.
ReferencesLoose(d) ==
  /\ \A h \in Hoppers : d.hoppers[h] \in d.beans \cup {None}
  /\ \A s \in d.sessions :
       /\ s.profile \in d.profiles \cup {None}
       /\ \A h \in Hoppers : s.hopper[h] \in d.beans \cup {None}
  /\ \A a \in d.additives : a.producer # None => d.producers[a.producer] # None

\* Every foreign key names a row.  The tables after the first version of a
\* migrated database lack some of them; here they are as SCHEMA_SQL has them.
References(d) ==
  /\ \A h \in Hoppers : d.hoppers[h] \in d.beans \cup {None}
  /\ \A s \in d.sessions :
       /\ s.profile \in d.profiles \cup {None}
       /\ \A h \in Hoppers : s.hopper[h] \in d.beans \cup {None}
  /\ \A r \in d.recipes : \E s \in d.sessions : s.id = r[1]
  /\ \A a \in d.additives : a.producer # None => d.producers[a.producer] # None

(***************************************************************************)
(* Statements.  An UPDATE or DELETE of a row that is not there changes     *)
(* nothing; SQLite refuses one that would break a foreign key, and an      *)
(* INSERT of a key that is taken.                                          *)
(***************************************************************************)
AddBean(d, b) == [d EXCEPT !.beans = @ \cup {b}]

\* UPDATE of the columns of a bean, which nothing here depends on.
UpdateBean(d, b) == d

\* hoppers.bean_id is ON DELETE SET NULL; the hoppers of a session are not.
DeleteBean(d, b) ==
  [d EXCEPT !.beans = @ \ {b},
            !.hoppers = [h \in Hoppers |-> IF @[h] = b THEN None ELSE @[h]]]

AssignHopper(d, h, b) == [d EXCEPT !.hoppers[h] = b]

\* Mutant: INSERT OR REPLACE.
InsertMilkAfresh(d, m) == [d EXCEPT !.milk[m] = "in"]

\* INSERT OR IGNORE keeps the flag of a milk that is already there.
InsertMilk(d, m) ==
  [d EXCEPT !.milk[m] = IF @ = "absent" THEN "in" ELSE @]

PruneMilk(d, kept) ==
  [d EXCEPT !.milk = [m \in Milks |-> IF m \in kept THEN @[m] ELSE "absent"]]

SetMilkAvailable(d, m, flag) == [d EXCEPT !.milk[m] = flag]

InsertSession(d, s, profile, hopper) ==
  [d EXCEPT !.sessions = @ \cup {[id |-> s, profile |-> profile, hopper |-> hopper]}]

InsertRecipe(d, r) == [d EXCEPT !.recipes = @ \cup {r}]

MarkRecipeBrewed(d, r) == [d EXCEPT !.brewed = @ \cup ({r} \cap d.recipes)]

\* Sessions go with their recipes (ON DELETE CASCADE); with keep_favorited
\* those stay that have a recipe some favorite was made from.
ClearHistory(d, keep) ==
  LET favorited == {s \in d.sessions :
                      \E f \in d.favorites : f.source \in d.recipes /\ f.source[1] = s.id}
      kept == IF keep THEN favorited ELSE {}
      ids  == {s.id : s \in kept}
  IN [d EXCEPT !.sessions = kept,
               !.recipes = {r \in @ : r[1] \in ids},
               !.brewed = {r \in @ : r[1] \in ids}]

AddFavorite(d, f, r) == [d EXCEPT !.favorites = @ \cup {[id |-> f, source |-> r]}]

\* Its rating stays: recipe_ratings has no foreign key.
RemoveFavorite(d, f) == [d EXCEPT !.favorites = {x \in @ : x.id # f}]

\* UPDATE of name, description or brew_count.
UpdateFavorite(d, f) == d

AddPreset(d, p) == [d EXCEPT !.presets = @ \cup {p}]
UpdatePreset(d, p) == d
DeletePreset(d, p) == [d EXCEPT !.presets = @ \ {p}]

Rated(d, t) == \E r \in d.ratings : r.target = t

InsertRating(d, t, stars, note) ==
  [d EXCEPT !.ratings = @ \cup {[target |-> t, stars |-> stars, note |-> note]}]

UpdateRating(d, t, stars, note) ==
  [d EXCEPT !.ratings = {IF r.target = t
                           THEN [target |-> t, stars |-> stars, note |-> note]
                           ELSE r : r \in @}]

ClearRating(d, t) == [d EXCEPT !.ratings = {r \in @ : r.target # t}]

SetSetting(d, k, v) == [d EXCEPT !.settings[k] = v]
SetPreference(d, k, v) == [d EXCEPT !.preferences[k] = v]
SaveCapabilities(d, e) == [d EXCEPT !.capabilities[e] = "cached"]

DeleteExtras(d, c) == [d EXCEPT !.extras = {x \in @ : x[1] # c}]
InsertExtra(d, c, i) == [d EXCEPT !.extras = @ \cup {<<c, i>>}]

AddProfile(d, p) == [d EXCEPT !.profiles = @ \cup {p}]
UpdateProfile(d, p) == d
DeleteProfile(d, p) == [d EXCEPT !.profiles = @ \ {p}, !.active = @ \ {p}]

\* Mutant: the profile that was active stays so.
DeactivateNone(d) == d

\* The two statements of async_set_active_profile.
DeactivateProfiles(d) == [d EXCEPT !.active = {}]
ActivateProfile(d, p) == [d EXCEPT !.active = @ \cup ({p} \cap d.profiles)]

AddProducer(d, p, n) == [d EXCEPT !.producers[p] = n]
UpdateProducer(d, p, n) == [d EXCEPT !.producers[p] = IF @ = None THEN @ ELSE n]
DeleteProducer(d, p) == [d EXCEPT !.producers[p] = None]

AddAdditive(d, a, p) ==
  [d EXCEPT !.additives = @ \cup {[id |-> a, producer |-> p, available |-> TRUE]}]
UpdateAdditive(d, a, p) ==
  [d EXCEPT !.additives = {IF x.id = a THEN [x EXCEPT !.producer = p] ELSE x : x \in @}]
SetAdditiveAvailable(d, a, flag) ==
  [d EXCEPT !.additives = {IF x.id = a THEN [x EXCEPT !.available = flag] ELSE x : x \in @}]
DeleteAdditive(d, a) == [d EXCEPT !.additives = {x \in @ : x.id # a}]

AddTag(d, t) == [d EXCEPT !.tags = @ \cup {t}]
DeleteTag(d, t) == [d EXCEPT !.tags = @ \ {t}]
SavePrompt(d, s) == [d EXCEPT !.prompts = @ \cup {s}]
ResetPrompt(d, s) == [d EXCEPT !.prompts = @ \ {s}]
=============================================================================

------------------------- MODULE SommelierApi_proofs -------------------------
(***************************************************************************)
(* Proofs about the Sommelier's database and its commands, for any number  *)
(* of clients, requests, rows and migrations.                              *)
(*                                                                         *)
(* A request is interrupted at every await, so each of its steps has to    *)
(* leave the others what they rely on (Frame) and to reach a place where   *)
(* it may itself rely on what it has read or written (Own).  Both are      *)
(* shown of every step; that they keep the invariant is shown once.  Most  *)
(* steps need no argument of their own: they only read, or they execute a  *)
(* Harmless statement, which writes nothing that another request relies    *)
(* on, and go on to a Plain place, where nothing is relied on.             *)
(***************************************************************************)
EXTENDS SommelierApi, TLAPS

\* Where a request holds SommelierDB._lock, besides its commit.
Under == {"locked", "rate", "renamed"}

\* Where its structured call may have had a valid reply.
Replied == {"structured", "session", "recipes", "commit", "answer"}

\* Where a generated session is being stored, or has been.
Creating == {"session", "recipes", "commit", "answer"}
Creates(c) == req[c].op = Generate /\ pc[c] \in Creating

HasSession(d, s) == \E x \in d.sessions : x.id = s
Stored(d, s) == {r \in d.recipes : r[1] = s}

(***************************************************************************)
(* The inductive invariant.                                                *)
(***************************************************************************)
\* What a generate has read before it asks the model.
Context == [hopper : [Hoppers -> Beans \cup {None}], profile : Profiles \cup {None},
            count : 0..MaxRecipes]

IsRequest(r) == DOMAIN r = {"op", "row", "todo", "seen"}

\* What a request carries, by its command.
Carries(r) ==
  /\ r.op = Generate => r.seen \in Context
  /\ r.op = "milk/set" => r.todo \subseteq Milks
  /\ r.op = "favorites/add" => r.row \in Favorites /\ r.todo \in Recipes
  /\ r.op = "recipe/rate" =>
       r.row \in Targets /\ r.todo[1] \in Stars /\ r.todo[2] \in Notes \cup {None}
  /\ r.op = "favorites/update" =>
       /\ r.row \in Favorites
       /\ r.todo[1] \in Stars \cup {None} /\ r.todo[2] \in Notes \cup {None}
  /\ r.op \in {"presets/update", "presets/delete"} => r.row \in UserPresets
  /\ r.op = "extras/set" => r.row \in Categories /\ r.todo \in Seq(Items)
  /\ r.op = "probe" => r.row \in Entries
  /\ r.op = "producers/add" => r.row \in Producers /\ r.todo \in Names
  /\ r.op = "producers/update" => r.todo \in Names \cup {None}
  /\ r.op = "additives/add" => r.row \in Additives /\ r.todo \in Producers \cup {None}
  /\ r.op = "additives/update" => r.todo \in Producers
  /\ r.op = "additives/set_available" => r.todo \in BOOLEAN
  /\ r.op = "tags/add" => r.row \in Tags
  /\ r.op = "prompts/save" => r.row \in Slots

Types ==
  /\ TypeOK
  /\ DOMAIN req = Clients /\ DOMAIN llm = Clients
  /\ \A c \in Clients : IsRequest(req[c]) /\ Carries(req[c])

\* Requests use the connection only while it is published.
IdleUnlessOpen == state # "open" => \A c \in Clients : pc[c] = "idle"

\* Whatever is on disk may be opened again; migrating goes on from there.
MigrationOnCourse ==
  /\ Leftover(disk) /\ References(work)
  /\ state = "closed" => work = disk
  /\ state = "migrating" =>
       /\ work.presets = disk.presets
       /\ work.version = disk.version /\ migration.due \subseteq Above(disk.version)
       /\ Statements \ migration.due \subseteq work.migrated \cup migration.failed

SetupInv == MigrationOnCourse /\ SchemaComplete /\ SystemPresetsStay

\* Until a second activation overlaps, an activation finds no active profile.
OneActivates ==
  /\ \A c \in Clients : Activates(c) => work.active = {}
  /\ \A b, c \in Clients : Activates(b) /\ Activates(c) => b = c
ActiveInv == ~contended => OneActive(work) /\ OneActive(disk) /\ OneActivates

\* A session being stored is its request's alone, and what it has got is known.
Stage(c) ==
  LET s == req[c].row
      todo == req[c].todo
      n == req[c].seen.count
  IN /\ s \in Sessions \cap issued
     /\ pc[c] = "session" => ~HasSession(work, s) /\ todo = n
     /\ pc[c] = "recipes" =>
          todo \in 0..n /\ (HasSession(work, s) => Stored(work, s) = {s} \X ((todo + 1)..n))
     /\ pc[c] \in {"commit", "answer"} =>
          (HasSession(work, s) => Stored(work, s) = {s} \X (1..n))

CreationInv ==
  /\ \A s \in Sessions : HasSession(work, s) \/ HasSession(disk, s) => s \in issued
  /\ \A c \in Clients : Creates(c) => Stage(c)
  /\ \A b, c \in Clients : Creates(b) /\ Creates(c) /\ b # c => req[b].row # req[c].row

\* A valid reply is forgotten when its request ends.
ReplyInv ==
  /\ \A c \in Clients : pc[c] \notin Replied => llm[c].parsed # "valid"
  /\ ErrorsTellValidity

RequestInv == UpsertsSeeTheRow /\ AnswerIsSaved /\ ActiveInv /\ CreationInv /\ ReplyInv

IInv == Types /\ IdleUnlessOpen /\ SetupInv /\ RequestInv

-----------------------------------------------------------------------------
(***************************************************************************)
(* Statements.                                                             *)
(***************************************************************************)
\* The statement that leads from d to e writes none of the tables that the
\* invariant speaks of, or only takes from them.
Spares(d, e) == \A s : HasSession(e, s) => HasSession(d, s) /\ Stored(e, s) = Stored(d, s)

Safe(d, e) ==
  /\ e \in Databases
  /\ e.version = d.version /\ e.migrated = d.migrated
  /\ d.presets \cap SystemPresets \subseteq e.presets
  /\ e.active \subseteq d.active
  /\ Spares(d, e)

Harmless(d, e) == Safe(d, e) /\ e.ratings = d.ratings /\ e.milk = d.milk

\* None of those tables is written at all.
Untouched(d, e) ==
  /\ e.version = d.version /\ e.migrated = d.migrated
  /\ d.presets \cap SystemPresets \subseteq e.presets /\ e.active \subseteq d.active
  /\ e.sessions = d.sessions /\ e.recipes = d.recipes
  /\ e.ratings = d.ratings /\ e.milk = d.milk

\* Then it is harmless.
LEMMA UntouchedIsHarmless ==
  ASSUME NEW d, NEW e \in Databases, Untouched(d, e)
  PROVE  Harmless(d, e)
BY DEF Untouched, Harmless, Safe, Spares, HasSession, Stored

\* Reading changes nothing.
LEMMA NothingIsHarmless == ASSUME NEW d \in Databases PROVE Harmless(d, d)
BY UntouchedIsHarmless DEF Untouched

\* A column of the right type.
LEMMA Columns ==
  ASSUME NEW d \in Databases
  PROVE  /\ \A x \in SUBSET Beans : [d EXCEPT !.beans = x] \in Databases
         /\ \A x \in [Hoppers -> Beans \cup {None}] : [d EXCEPT !.hoppers = x] \in Databases
         /\ \A x \in SUBSET Profiles : [d EXCEPT !.profiles = x] \in Databases
         /\ \A x \in SUBSET Profiles : [d EXCEPT !.active = x] \in Databases
         /\ \A x \in SUBSET Recipes : [d EXCEPT !.recipes = x] \in Databases
         /\ \A x \in SUBSET Recipes : [d EXCEPT !.brewed = x] \in Databases
<1> USE DEF Databases
<1>1. \A x \in SUBSET Beans : [d EXCEPT !.beans = x] \in Databases
  OBVIOUS
<1>2. \A x \in [Hoppers -> Beans \cup {None}] : [d EXCEPT !.hoppers = x] \in Databases
  OBVIOUS
<1>3. \A x \in SUBSET Profiles : [d EXCEPT !.profiles = x] \in Databases
  OBVIOUS
<1>4. \A x \in SUBSET Profiles : [d EXCEPT !.active = x] \in Databases
  OBVIOUS
<1>5. \A x \in SUBSET Recipes : [d EXCEPT !.recipes = x] \in Databases
  OBVIOUS
<1>6. \A x \in SUBSET Recipes : [d EXCEPT !.brewed = x] \in Databases
  OBVIOUS
<1> QED
  BY <1>1, <1>2, <1>3, <1>4, <1>5, <1>6

\* A bean is added.
LEMMA AddBeanIsHarmless ==
  ASSUME NEW d \in Databases, NEW b \in Beans
  PROVE  Harmless(d, AddBean(d, b))
<1>1. AddBean(d, b) \in Databases
  BY SMTT(30) DEF Databases, AddBean
<1>2. Untouched(d, AddBean(d, b))
  BY SMTT(30) DEF Databases, Untouched, AddBean
<1> QED
  BY <1>1, <1>2, UntouchedIsHarmless

\* A bean goes, and with it the hopper that has it is emptied.
LEMMA DeleteBeanIsHarmless ==
  ASSUME NEW d \in Databases, NEW b
  PROVE  Harmless(d, DeleteBean(d, b))
<1> DEFINE left == d.beans \ {b}
           y == [h \in Hoppers |-> IF d.hoppers[h] = b THEN None ELSE d.hoppers[h]]
<1>1. DeleteBean(d, b) = [d EXCEPT !.beans = left, !.hoppers = y]
  BY DEF DeleteBean
<1>2. left \in SUBSET Beans /\ y \in [Hoppers -> Beans \cup {None}]
  BY DEF Databases
<1> HIDE DEF left, y
<1>3. [d EXCEPT !.beans = left, !.hoppers = y] = [[d EXCEPT !.beans = left] EXCEPT !.hoppers = y]
  BY DEF Databases
<1>4. [d EXCEPT !.beans = left] \in Databases
  BY <1>2 DEF Databases
<1>5. [[d EXCEPT !.beans = left] EXCEPT !.hoppers = y] \in Databases
  BY <1>2, <1>4, Columns
<1>6. Untouched(d, [d EXCEPT !.beans = left, !.hoppers = y])
  BY DEF Databases, Untouched
<1> QED
  BY <1>1, <1>3, <1>5, <1>6, UntouchedIsHarmless

\* A hopper is given a bean or none.
LEMMA AssignHopperIsHarmless ==
  ASSUME NEW d \in Databases, NEW h \in Hoppers, NEW b \in Beans \cup {None}
  PROVE  Harmless(d, AssignHopper(d, h, b))
<1> DEFINE x == [d.hoppers EXCEPT ![h] = b]
<1>1. x \in [Hoppers -> Beans \cup {None}]
  BY DEF Databases
<1>2. AssignHopper(d, h, b) = [d EXCEPT !.hoppers = x]
  BY DEF AssignHopper
<1> HIDE DEF x
<1>3. [d EXCEPT !.hoppers = x] \in Databases
  BY SMTT(30), <1>1 DEF Databases
<1>4. Untouched(d, [d EXCEPT !.hoppers = x])
  BY DEF Databases, Untouched
<1> QED
  BY <1>2, <1>3, <1>4, UntouchedIsHarmless

\* A recipe is marked as brewed.
LEMMA MarkRecipeBrewedIsHarmless ==
  ASSUME NEW d \in Databases, NEW r
  PROVE  Harmless(d, MarkRecipeBrewed(d, r))
<1>1. MarkRecipeBrewed(d, r) \in Databases
  BY SMTT(30) DEF Databases, MarkRecipeBrewed
<1>2. Untouched(d, MarkRecipeBrewed(d, r))
  BY SMTT(30) DEF Databases, Untouched, MarkRecipeBrewed
<1> QED
  BY <1>1, <1>2, UntouchedIsHarmless

\* A recipe becomes a favorite.
LEMMA AddFavoriteIsHarmless ==
  ASSUME NEW d \in Databases, NEW f \in Favorites, NEW r \in Recipes
  PROVE  Harmless(d, AddFavorite(d, f, r))
<1> DEFINE x == d.favorites \cup {[id |-> f, source |-> r]}
<1>1. x \in SUBSET [id : Favorites, source : Recipes]
  <2>1. {[id |-> f, source |-> r]} \subseteq [id : Favorites, source : Recipes]
    OBVIOUS
  <2>2. d.favorites \subseteq [id : Favorites, source : Recipes]
    BY DEF Databases
  <2> QED
    BY <2>1, <2>2
<1>2. AddFavorite(d, f, r) = [d EXCEPT !.favorites = x]
  BY DEF AddFavorite
<1> HIDE DEF x
<1>3. [d EXCEPT !.favorites = x] \in Databases
  BY SMTT(30), <1>1 DEF Databases
<1>4. Untouched(d, [d EXCEPT !.favorites = x])
  BY DEF Databases, Untouched
<1> QED
  BY <1>2, <1>3, <1>4, UntouchedIsHarmless

\* A favorite goes.
LEMMA RemoveFavoriteIsHarmless ==
  ASSUME NEW d \in Databases, NEW f
  PROVE  Harmless(d, RemoveFavorite(d, f))
<1>1. RemoveFavorite(d, f) \in Databases
  BY SMTT(30) DEF Databases, RemoveFavorite
<1>2. Untouched(d, RemoveFavorite(d, f))
  BY SMTT(30) DEF Databases, Untouched, RemoveFavorite
<1> QED
  BY <1>1, <1>2, UntouchedIsHarmless

\* A preset is added, by a request or by async_seed_system_presets.
LEMMA AddPresetIsHarmless ==
  ASSUME NEW d \in Databases, NEW p \in Presets
  PROVE  Harmless(d, AddPreset(d, p))
<1>1. AddPreset(d, p) \in Databases
  BY SMTT(30) DEF Databases, AddPreset, Presets
<1>2. Untouched(d, AddPreset(d, p))
  BY SMTT(30) DEF Databases, Untouched, AddPreset, Presets
<1> QED
  BY <1>1, <1>2, UntouchedIsHarmless

\* A preset of the user's goes; it is none of the system's.
LEMMA DeletePresetIsHarmless ==
  ASSUME NEW d \in Databases, NEW p \in UserPresets
  PROVE  Harmless(d, DeletePreset(d, p))
<1>1. DeletePreset(d, p) \in Databases
  BY SMTT(30) DEF Databases, DeletePreset, Presets
<1>2. Untouched(d, DeletePreset(d, p))
  BY SMTT(30), DBAssumption DEF Databases, Untouched, DeletePreset, Presets
<1> QED
  BY <1>1, <1>2, UntouchedIsHarmless

\* The extras of a category go.
LEMMA DeleteExtrasIsHarmless ==
  ASSUME NEW d \in Databases, NEW k
  PROVE  Harmless(d, DeleteExtras(d, k))
<1>1. DeleteExtras(d, k) \in Databases
  BY SMTT(30) DEF Databases, DeleteExtras
<1>2. Untouched(d, DeleteExtras(d, k))
  BY SMTT(30) DEF Databases, Untouched, DeleteExtras
<1> QED
  BY <1>1, <1>2, UntouchedIsHarmless

\* An extra is added.
LEMMA InsertExtraIsHarmless ==
  ASSUME NEW d \in Databases, NEW k \in Categories, NEW i \in Items
  PROVE  Harmless(d, InsertExtra(d, k, i))
<1>1. InsertExtra(d, k, i) \in Databases
  BY SMTT(30) DEF Databases, InsertExtra
<1>2. Untouched(d, InsertExtra(d, k, i))
  BY SMTT(30) DEF Databases, Untouched, InsertExtra
<1> QED
  BY <1>1, <1>2, UntouchedIsHarmless

\* A setting is saved.
LEMMA SetSettingIsHarmless ==
  ASSUME NEW d \in Databases, NEW k \in SettingKeys, NEW v \in Texts
  PROVE  Harmless(d, SetSetting(d, k, v))
<1> DEFINE x == [d.settings EXCEPT ![k] = v]
<1>1. x \in [SettingKeys -> Texts \cup {None}]
  BY DEF Databases
<1>2. SetSetting(d, k, v) = [d EXCEPT !.settings = x]
  BY DEF SetSetting
<1> HIDE DEF x
<1>3. [d EXCEPT !.settings = x] \in Databases
  BY SMTT(30), <1>1 DEF Databases
<1>4. Untouched(d, [d EXCEPT !.settings = x])
  BY DEF Databases, Untouched
<1> QED
  BY <1>2, <1>3, <1>4, UntouchedIsHarmless

\* A preference is saved.
LEMMA SetPreferenceIsHarmless ==
  ASSUME NEW d \in Databases, NEW k \in PrefKeys, NEW v \in Texts
  PROVE  Harmless(d, SetPreference(d, k, v))
<1> DEFINE x == [d.preferences EXCEPT ![k] = v]
<1>1. x \in [PrefKeys -> Texts \cup {None}]
  BY DEF Databases
<1>2. SetPreference(d, k, v) = [d EXCEPT !.preferences = x]
  BY DEF SetPreference
<1> HIDE DEF x
<1>3. [d EXCEPT !.preferences = x] \in Databases
  BY SMTT(30), <1>1 DEF Databases
<1>4. Untouched(d, [d EXCEPT !.preferences = x])
  BY DEF Databases, Untouched
<1> QED
  BY <1>2, <1>3, <1>4, UntouchedIsHarmless

\* The capabilities of a machine are saved.
LEMMA SaveCapabilitiesIsHarmless ==
  ASSUME NEW d \in Databases, NEW e \in Entries
  PROVE  Harmless(d, SaveCapabilities(d, e))
<1> DEFINE x == [d.capabilities EXCEPT ![e] = "cached"]
<1>1. x \in [Entries -> {"none", "cached", "corrupt"}]
  BY DEF Databases
<1>2. SaveCapabilities(d, e) = [d EXCEPT !.capabilities = x]
  BY DEF SaveCapabilities
<1> HIDE DEF x
<1>3. [d EXCEPT !.capabilities = x] \in Databases
  BY SMTT(30), <1>1 DEF Databases
<1>4. Untouched(d, [d EXCEPT !.capabilities = x])
  BY DEF Databases, Untouched
<1> QED
  BY <1>2, <1>3, <1>4, UntouchedIsHarmless

\* A profile is added.
LEMMA AddProfileIsHarmless ==
  ASSUME NEW d \in Databases, NEW p \in Profiles
  PROVE  Harmless(d, AddProfile(d, p))
<1>1. AddProfile(d, p) \in Databases
  BY SMTT(30) DEF Databases, AddProfile
<1>2. Untouched(d, AddProfile(d, p))
  BY SMTT(30) DEF Databases, Untouched, AddProfile
<1> QED
  BY <1>1, <1>2, UntouchedIsHarmless

\* A profile goes, the active one or another.
LEMMA DeleteProfileIsHarmless ==
  ASSUME NEW d \in Databases, NEW p
  PROVE  Harmless(d, DeleteProfile(d, p))
<1> DEFINE x == d.profiles \ {p}
           y == d.active \ {p}
<1>1. DeleteProfile(d, p) = [d EXCEPT !.profiles = x, !.active = y]
  BY DEF DeleteProfile
<1>2. x \in SUBSET Profiles /\ y \in SUBSET Profiles /\ y \subseteq d.active
  BY DEF Databases
<1> HIDE DEF x, y
<1>3. [d EXCEPT !.profiles = x, !.active = y] = [[d EXCEPT !.profiles = x] EXCEPT !.active = y]
  BY DEF Databases
<1>4. [d EXCEPT !.profiles = x] \in Databases
  BY <1>2, Columns
<1>5. [[d EXCEPT !.profiles = x] EXCEPT !.active = y] \in Databases
  BY <1>2, <1>4, Columns
<1>6. Untouched(d, [d EXCEPT !.profiles = x, !.active = y])
  BY <1>2 DEF Databases, Untouched
<1> QED
  BY <1>1, <1>3, <1>5, <1>6, UntouchedIsHarmless

\* All profiles are deactivated.
LEMMA DeactivateProfilesIsHarmless ==
  ASSUME NEW d \in Databases
  PROVE  Harmless(d, DeactivateProfiles(d)) /\ DeactivateProfiles(d).active = {}
<1>1. DeactivateProfiles(d) \in Databases /\ Untouched(d, DeactivateProfiles(d))
  BY SMTT(30) DEF Databases, Untouched, DeactivateProfiles
<1>2. DeactivateProfiles(d).active = {}
  BY DEF Databases, DeactivateProfiles
<1> QED
  BY <1>1, <1>2, UntouchedIsHarmless

\* A producer is added.
LEMMA AddProducerIsHarmless ==
  ASSUME NEW d \in Databases, NEW p \in Producers, NEW n \in Names
  PROVE  Harmless(d, AddProducer(d, p, n))
<1> DEFINE x == [d.producers EXCEPT ![p] = n]
<1>1. x \in [Producers -> Names \cup {None}]
  BY DEF Databases
<1>2. AddProducer(d, p, n) = [d EXCEPT !.producers = x]
  BY DEF AddProducer
<1> HIDE DEF x
<1>3. [d EXCEPT !.producers = x] \in Databases
  BY SMTT(30), <1>1 DEF Databases
<1>4. Untouched(d, [d EXCEPT !.producers = x])
  BY DEF Databases, Untouched
<1> QED
  BY <1>2, <1>3, <1>4, UntouchedIsHarmless

\* A producer is renamed, if it is there.
LEMMA UpdateProducerIsHarmless ==
  ASSUME NEW d \in Databases, NEW p, NEW n \in Names
  PROVE  Harmless(d, UpdateProducer(d, p, n))
<1> DEFINE x == [d.producers EXCEPT ![p] = IF @ = None THEN @ ELSE n]
<1>1. x \in [Producers -> Names \cup {None}]
  BY DEF Databases
<1>2. UpdateProducer(d, p, n) = [d EXCEPT !.producers = x]
  BY DEF UpdateProducer
<1> HIDE DEF x
<1>3. [d EXCEPT !.producers = x] \in Databases
  BY SMTT(30), <1>1 DEF Databases
<1>4. Untouched(d, [d EXCEPT !.producers = x])
  BY DEF Databases, Untouched
<1> QED
  BY <1>2, <1>3, <1>4, UntouchedIsHarmless

\* A producer goes.
LEMMA DeleteProducerIsHarmless ==
  ASSUME NEW d \in Databases, NEW p
  PROVE  Harmless(d, DeleteProducer(d, p))
<1> DEFINE x == [d.producers EXCEPT ![p] = None]
<1>1. x \in [Producers -> Names \cup {None}]
  BY DEF Databases
<1>2. DeleteProducer(d, p) = [d EXCEPT !.producers = x]
  BY DEF DeleteProducer
<1> HIDE DEF x
<1>3. [d EXCEPT !.producers = x] \in Databases
  BY SMTT(30), <1>1 DEF Databases
<1>4. Untouched(d, [d EXCEPT !.producers = x])
  BY DEF Databases, Untouched
<1> QED
  BY <1>2, <1>3, <1>4, UntouchedIsHarmless

\* A syrup or topping is added.
LEMMA AddAdditiveIsHarmless ==
  ASSUME NEW d \in Databases, NEW a \in Additives, NEW p \in Producers \cup {None}
  PROVE  Harmless(d, AddAdditive(d, a, p))
<1> DEFINE row == [id |-> a, producer |-> p, available |-> TRUE]
           x == d.additives \cup {row}
<1>1. x \in SUBSET [id : Additives, producer : Producers \cup {None}, available : BOOLEAN]
  <2>1. row \in [id : Additives, producer : Producers \cup {None}, available : BOOLEAN]
    OBVIOUS
  <2>2. d.additives \subseteq [id : Additives, producer : Producers \cup {None}, available : BOOLEAN]
    BY DEF Databases
  <2> HIDE DEF row
  <2> QED
    BY <2>1, <2>2
<1>2. AddAdditive(d, a, p) = [d EXCEPT !.additives = x]
  BY DEF AddAdditive
<1> HIDE DEF x
<1>3. [d EXCEPT !.additives = x] \in Databases
  BY SMTT(30), <1>1 DEF Databases
<1>4. Untouched(d, [d EXCEPT !.additives = x])
  BY DEF Databases, Untouched
<1> QED
  BY <1>2, <1>3, <1>4, UntouchedIsHarmless

\* A syrup or topping gets another producer.
LEMMA UpdateAdditiveIsHarmless ==
  ASSUME NEW d \in Databases, NEW a, NEW p \in Producers
  PROVE  Harmless(d, UpdateAdditive(d, a, p))
<1>1. UpdateAdditive(d, a, p) \in Databases
  BY SMTT(30) DEF Databases, UpdateAdditive
<1>2. Untouched(d, UpdateAdditive(d, a, p))
  BY SMTT(30) DEF Databases, Untouched, UpdateAdditive
<1> QED
  BY <1>1, <1>2, UntouchedIsHarmless

\* A syrup or topping is there or not.
LEMMA SetAdditiveAvailableIsHarmless ==
  ASSUME NEW d \in Databases, NEW a, NEW flag \in BOOLEAN
  PROVE  Harmless(d, SetAdditiveAvailable(d, a, flag))
<1>1. SetAdditiveAvailable(d, a, flag) \in Databases
  BY SMTT(30) DEF Databases, SetAdditiveAvailable
<1>2. Untouched(d, SetAdditiveAvailable(d, a, flag))
  BY SMTT(30) DEF Databases, Untouched, SetAdditiveAvailable
<1> QED
  BY <1>1, <1>2, UntouchedIsHarmless

\* A syrup or topping goes.
LEMMA DeleteAdditiveIsHarmless ==
  ASSUME NEW d \in Databases, NEW a
  PROVE  Harmless(d, DeleteAdditive(d, a))
<1>1. DeleteAdditive(d, a) \in Databases
  BY SMTT(30) DEF Databases, DeleteAdditive
<1>2. Untouched(d, DeleteAdditive(d, a))
  BY SMTT(30) DEF Databases, Untouched, DeleteAdditive
<1> QED
  BY <1>1, <1>2, UntouchedIsHarmless

\* A tag is added.
LEMMA AddTagIsHarmless ==
  ASSUME NEW d \in Databases, NEW t \in Tags
  PROVE  Harmless(d, AddTag(d, t))
<1>1. AddTag(d, t) \in Databases
  BY SMTT(30) DEF Databases, AddTag
<1>2. Untouched(d, AddTag(d, t))
  BY SMTT(30) DEF Databases, Untouched, AddTag
<1> QED
  BY <1>1, <1>2, UntouchedIsHarmless

\* A tag goes.
LEMMA DeleteTagIsHarmless ==
  ASSUME NEW d \in Databases, NEW t
  PROVE  Harmless(d, DeleteTag(d, t))
<1>1. DeleteTag(d, t) \in Databases
  BY SMTT(30) DEF Databases, DeleteTag
<1>2. Untouched(d, DeleteTag(d, t))
  BY SMTT(30) DEF Databases, Untouched, DeleteTag
<1> QED
  BY <1>1, <1>2, UntouchedIsHarmless

\* A prompt is saved.
LEMMA SavePromptIsHarmless ==
  ASSUME NEW d \in Databases, NEW s \in Slots
  PROVE  Harmless(d, SavePrompt(d, s))
<1>1. SavePrompt(d, s) \in Databases
  BY SMTT(30) DEF Databases, SavePrompt
<1>2. Untouched(d, SavePrompt(d, s))
  BY SMTT(30) DEF Databases, Untouched, SavePrompt
<1> QED
  BY <1>1, <1>2, UntouchedIsHarmless

\* A prompt is reset.
LEMMA ResetPromptIsHarmless ==
  ASSUME NEW d \in Databases, NEW s
  PROVE  Harmless(d, ResetPrompt(d, s))
<1>1. ResetPrompt(d, s) \in Databases
  BY SMTT(30) DEF Databases, ResetPrompt
<1>2. Untouched(d, ResetPrompt(d, s))
  BY SMTT(30) DEF Databases, Untouched, ResetPrompt
<1> QED
  BY <1>1, <1>2, UntouchedIsHarmless

\* A milk is added, or kept as it is.
LEMMA InsertMilkIsSafe ==
  ASSUME NEW d \in Databases, NEW m \in Milks
  PROVE  /\ Safe(d, InsertMilk(d, m)) /\ InsertMilk(d, m).ratings = d.ratings
         /\ InsertMilk(d, m).milk = [d.milk EXCEPT ![m] = IF @ = "absent" THEN "in" ELSE @]
<1> DEFINE x == [d.milk EXCEPT ![m] = IF @ = "absent" THEN "in" ELSE @]
<1>1. x \in [Milks -> {"absent", "in", "out"}]
  BY DEF Databases
<1>2. InsertMilk(d, m) = [d EXCEPT !.milk = x]
  BY DEF InsertMilk
<1> HIDE DEF x
<1>3. [d EXCEPT !.milk = x] \in Databases
  BY SMTT(30), <1>1 DEF Databases
<1>4. Safe(d, [d EXCEPT !.milk = x])
  BY <1>3 DEF Databases, Safe, Spares, HasSession, Stored
<1>5. /\ [d EXCEPT !.milk = x].ratings = d.ratings
      /\ [d EXCEPT !.milk = x].milk = x
  BY DEF Databases
<1> QED
  BY <1>2, <1>4, <1>5 DEF x

\* The milks that are not kept go.
LEMMA PruneMilkIsSafe ==
  ASSUME NEW d \in Databases, NEW kept
  PROVE  /\ Safe(d, PruneMilk(d, kept)) /\ PruneMilk(d, kept).ratings = d.ratings
         /\ PruneMilk(d, kept).milk = [m \in Milks |-> IF m \in kept THEN d.milk[m] ELSE "absent"]
<1> DEFINE x == [m \in Milks |-> IF m \in kept THEN d.milk[m] ELSE "absent"]
<1>1. x \in [Milks -> {"absent", "in", "out"}]
  BY DEF Databases
<1>2. PruneMilk(d, kept) = [d EXCEPT !.milk = x]
  BY DEF PruneMilk
<1> HIDE DEF x
<1>3. [d EXCEPT !.milk = x] \in Databases
  BY SMTT(30), <1>1 DEF Databases
<1>4. Safe(d, [d EXCEPT !.milk = x])
  BY <1>3 DEF Databases, Safe, Spares, HasSession, Stored
<1>5. /\ [d EXCEPT !.milk = x].ratings = d.ratings
      /\ [d EXCEPT !.milk = x].milk = x
  BY DEF Databases
<1> QED
  BY <1>2, <1>4, <1>5 DEF x

\* The flag of a milk is set.
LEMMA SetMilkAvailableIsSafe ==
  ASSUME NEW d \in Databases, NEW m \in Milks, NEW flag \in {"in", "out"}
  PROVE  /\ Safe(d, SetMilkAvailable(d, m, flag)) /\ SetMilkAvailable(d, m, flag).ratings = d.ratings
         /\ SetMilkAvailable(d, m, flag).milk = [d.milk EXCEPT ![m] = flag]
<1> DEFINE x == [d.milk EXCEPT ![m] = flag]
<1>1. x \in [Milks -> {"absent", "in", "out"}]
  BY DEF Databases
<1>2. SetMilkAvailable(d, m, flag) = [d EXCEPT !.milk = x]
  BY DEF SetMilkAvailable
<1> HIDE DEF x
<1>3. [d EXCEPT !.milk = x] \in Databases
  BY SMTT(30), <1>1 DEF Databases
<1>4. Safe(d, [d EXCEPT !.milk = x])
  BY <1>3 DEF Databases, Safe, Spares, HasSession, Stored
<1>5. /\ [d EXCEPT !.milk = x].ratings = d.ratings
      /\ [d EXCEPT !.milk = x].milk = x
  BY DEF Databases
<1> QED
  BY <1>2, <1>4, <1>5 DEF x

\* A rating is inserted.
LEMMA InsertRatingIsSafe ==
  ASSUME NEW d \in Databases, NEW t \in Targets, NEW stars \in Stars, NEW note \in Notes \cup {None}
  PROVE  Safe(d, InsertRating(d, t, stars, note)) /\ InsertRating(d, t, stars, note).milk = d.milk
<1> DEFINE x == d.ratings \cup {[target |-> t, stars |-> stars, note |-> note]}
<1>1. x \in SUBSET [target : Targets, stars : Stars, note : Notes \cup {None}]
  <2>1. [target |-> t, stars |-> stars, note |-> note] \in
          [target : Targets, stars : Stars, note : Notes \cup {None}]
    OBVIOUS
  <2>2. d.ratings \in SUBSET [target : Targets, stars : Stars, note : Notes \cup {None}]
    BY DEF Databases
  <2> QED
    BY <2>1, <2>2
<1>2. InsertRating(d, t, stars, note) = [d EXCEPT !.ratings = x]
  BY DEF InsertRating
<1> HIDE DEF x
<1>3. [d EXCEPT !.ratings = x] \in Databases
  BY SMTT(30), <1>1 DEF Databases
<1>4. Safe(d, [d EXCEPT !.ratings = x]) /\ [d EXCEPT !.ratings = x].milk = d.milk
  BY <1>3 DEF Databases, Safe, Spares, HasSession, Stored
<1> QED
  BY <1>2, <1>4

\* A rating is updated.
LEMMA UpdateRatingIsSafe ==
  ASSUME NEW d \in Databases, NEW t \in Targets, NEW stars \in Stars, NEW note \in Notes \cup {None}
  PROVE  Safe(d, UpdateRating(d, t, stars, note)) /\ UpdateRating(d, t, stars, note).milk = d.milk
<1> DEFINE x == {IF r.target = t THEN [target |-> t, stars |-> stars, note |-> note] ELSE r : r \in d.ratings}
<1>1. x \in SUBSET [target : Targets, stars : Stars, note : Notes \cup {None}]
  <2>1. [target |-> t, stars |-> stars, note |-> note] \in
          [target : Targets, stars : Stars, note : Notes \cup {None}]
    OBVIOUS
  <2>2. d.ratings \in SUBSET [target : Targets, stars : Stars, note : Notes \cup {None}]
    BY DEF Databases
  <2> QED
    BY <2>1, <2>2
<1>2. UpdateRating(d, t, stars, note) = [d EXCEPT !.ratings = x]
  BY DEF UpdateRating
<1> HIDE DEF x
<1>3. [d EXCEPT !.ratings = x] \in Databases
  BY SMTT(30), <1>1 DEF Databases
<1>4. Safe(d, [d EXCEPT !.ratings = x]) /\ [d EXCEPT !.ratings = x].milk = d.milk
  BY <1>3 DEF Databases, Safe, Spares, HasSession, Stored
<1> QED
  BY <1>2, <1>4

\* A rating goes.
LEMMA ClearRatingIsSafe ==
  ASSUME NEW d \in Databases, NEW t
  PROVE  Safe(d, ClearRating(d, t)) /\ ClearRating(d, t).milk = d.milk
<1> DEFINE x == {r \in d.ratings : r.target # t}
<1>1. x \in SUBSET [target : Targets, stars : Stars, note : Notes \cup {None}]
  BY DEF Databases
<1>2. ClearRating(d, t) = [d EXCEPT !.ratings = x]
  BY DEF ClearRating
<1> HIDE DEF x
<1>3. [d EXCEPT !.ratings = x] \in Databases
  BY SMTT(30), <1>1 DEF Databases
<1>4. Safe(d, [d EXCEPT !.ratings = x]) /\ [d EXCEPT !.ratings = x].milk = d.milk
  BY <1>3 DEF Databases, Safe, Spares, HasSession, Stored
<1> QED
  BY <1>2, <1>4

\* The history is cleared: a session goes with all of its recipes or stays with
\* all of them.
LEMMA ClearHistoryIsHarmless ==
  ASSUME NEW d \in Databases, NEW keep
  PROVE  Harmless(d, ClearHistory(d, keep))
<1> DEFINE favorited == {s \in d.sessions :
                           \E f \in d.favorites : f.source \in d.recipes /\ f.source[1] = s.id}
           kept == IF keep THEN favorited ELSE {}
           ids == {s.id : s \in kept}
           x == {r \in d.recipes : r[1] \in ids}
           y == {r \in d.brewed : r[1] \in ids}
           e == [d EXCEPT !.sessions = kept, !.recipes = x, !.brewed = y]
<1>1. ClearHistory(d, keep) = e
  BY DEF ClearHistory
<1>2. kept \subseteq d.sessions
  OBVIOUS
<1>3. \A s : (\E z \in kept : z.id = s) => {r \in x : r[1] = s} = {r \in d.recipes : r[1] = s}
  OBVIOUS
<1>4. x \in SUBSET Recipes /\ y \in SUBSET Recipes
  BY DEF Databases
<1> HIDE DEF kept, x, y
<1>5. e = [[[d EXCEPT !.sessions = kept] EXCEPT !.recipes = x] EXCEPT !.brewed = y]
  BY DEF Databases
<1>6. [d EXCEPT !.sessions = kept] \in Databases
  BY <1>2 DEF Databases
<1>7. [[d EXCEPT !.sessions = kept] EXCEPT !.recipes = x] \in Databases
  BY <1>4, <1>6, Columns
<1>8. e \in Databases
  BY <1>4, <1>5, <1>7, Columns
<1>9. /\ e.version = d.version /\ e.migrated = d.migrated /\ e.presets = d.presets
      /\ e.active = d.active /\ e.ratings = d.ratings /\ e.milk = d.milk
      /\ e.sessions = kept /\ e.recipes = x
  BY DEF Databases
<1> HIDE DEF e
<1>10. Spares(d, e)
  BY <1>2, <1>3, <1>9 DEF Spares, HasSession, Stored
<1> QED
  BY <1>1, <1>8, <1>9, <1>10 DEF Harmless, Safe

-----------------------------------------------------------------------------
\* A session is stored, without recipes yet.
LEMMA InsertSessionStores ==
  ASSUME NEW d \in Databases, NEW s \in Sessions, NEW p \in Profiles \cup {None},
         NEW h \in [Hoppers -> Beans \cup {None}],
         NEW e, e = InsertSession(d, s, p, h)
  PROVE  /\ e \in Databases
         /\ \A t : HasSession(e, t) <=> HasSession(d, t) \/ t = s
         /\ e = [d EXCEPT !.sessions = e.sessions]
<1> DEFINE row == [id |-> s, profile |-> p, hopper |-> h]
           x == d.sessions \cup {row}
<1>1. x \in SUBSET [id : Sessions, profile : Profiles \cup {None},
                    hopper : [Hoppers -> Beans \cup {None}]]
  <2>1. row \in [id : Sessions, profile : Profiles \cup {None},
                 hopper : [Hoppers -> Beans \cup {None}]]
    OBVIOUS
  <2>2. d.sessions \subseteq [id : Sessions, profile : Profiles \cup {None},
                              hopper : [Hoppers -> Beans \cup {None}]]
    BY DEF Databases
  <2> HIDE DEF row
  <2> QED
    BY <2>1, <2>2
<1>2. \A t : (\E z \in x : z.id = t) <=> HasSession(d, t) \/ t = s
  <2>1. row.id = s
    OBVIOUS
  <2> HIDE DEF row
  <2> QED
    BY <2>1 DEF HasSession
<1>3. e = [d EXCEPT !.sessions = x]
  BY DEF InsertSession
<1> HIDE DEF x
<1>4. e \in Databases
  BY SMTT(30), <1>1, <1>3 DEF Databases
<1>5. e.sessions = x
  BY <1>3 DEF Databases
<1> QED
  BY <1>2, <1>3, <1>4, <1>5 DEF HasSession

\* A recipe is stored.
LEMMA InsertRecipeStores ==
  ASSUME NEW d \in Databases, NEW r \in Recipes, NEW e, e = InsertRecipe(d, r)
  PROVE  /\ e \in Databases
         /\ e = [d EXCEPT !.recipes = d.recipes \cup {r}]
         /\ \A s : HasSession(e, s) <=> HasSession(d, s)
         /\ \A s : Stored(e, s) = IF s = r[1] THEN Stored(d, s) \cup {r} ELSE Stored(d, s)
<1> DEFINE x == d.recipes \cup {r}
<1>1. e = [d EXCEPT !.recipes = x]
  BY DEF InsertRecipe
<1>2. x \in SUBSET Recipes
  BY DEF Databases
<1>3. \A s : {z \in x : z[1] = s} = IF s = r[1] THEN Stored(d, s) \cup {r} ELSE Stored(d, s)
  BY DEF Stored
<1> HIDE DEF x
<1>4. e \in Databases
  BY <1>1, <1>2, Columns
<1>5. e.recipes = x /\ e.sessions = d.sessions
  BY <1>1 DEF Databases
<1> QED
  BY <1>1, <1>3, <1>4, <1>5 DEF HasSession, Stored, x

\* One profile more is active.
LEMMA ActivateProfileActivates ==
  ASSUME NEW d \in Databases, NEW p, NEW e, e = ActivateProfile(d, p)
  PROVE  /\ e \in Databases
         /\ e = [d EXCEPT !.active = e.active]
         /\ e.active \subseteq d.active \cup {p}
<1> DEFINE x == d.active \cup ({p} \cap d.profiles)
<1>1. e = [d EXCEPT !.active = x]
  BY DEF ActivateProfile
<1>2. x \in SUBSET Profiles /\ x \subseteq d.active \cup {p}
  BY DEF Databases
<1> HIDE DEF x
<1>3. e \in Databases
  BY <1>1, <1>2, Columns
<1>4. e.active = x
  BY <1>1 DEF Databases
<1> QED
  BY <1>1, <1>2, <1>3, <1>4

-----------------------------------------------------------------------------
(***************************************************************************)
(* What a step of c leaves the others, and where it takes c.               *)
(***************************************************************************)
\* The requests of the others.
Others(c) ==
  /\ pc' \in [Clients -> Steps] /\ DOMAIN req' = Clients /\ DOMAIN llm' = Clients
  /\ \A b \in Clients \ {c} : pc'[b] = pc[b] /\ req'[b] = req[b] /\ llm'[b] = llm[b]

\* Ratings are written under the lock, a profile is activated in the middle of
\* an activation, and a session is filled by the request that creates it.
Writes(c) ==
  /\ work' \in Databases /\ References(work')
  /\ work'.version = work.version /\ work'.migrated = work.migrated
  /\ work.presets \cap SystemPresets \subseteq work'.presets
  /\ work'.ratings = work.ratings \/ dbLock = c
  /\ \/ work'.active \subseteq work.active
     \/ Activates(c) /\ work'.active \subseteq work.active \cup {req[c].row}
  /\ \A s : HasSession(work', s) =>
       \/ HasSession(work, s) /\ Stored(work', s) = Stored(work, s)
       \/ Creates(c) /\ s = req[c].row

\* What MilkKept asks of a step of c.
KeepsMilk(c) ==
  \A m \in Milks : work.milk[m] # work'.milk[m] /\ work.milk[m] # "absent" =>
    /\ pc[c] # pc'[c]
    /\ \/ req'[c].op = "milk/set_available"
       \/ work'.milk[m] = "absent" /\ req[c].op = "milk/set" /\ m \notin req[c].seen

\* What it takes of the lock, and what it saves.
Locks(c) ==
  \/ dbLock' = dbLock
  \/ dbLock = c /\ dbLock' = NoClient
  \/ dbLock = NoClient /\ dbLock' = c
Saves(c) == disk' \in {disk, work} /\ writers' \subseteq writers \cup {c}

\* The books of the model.
Books ==
  /\ issued \subseteq issued' /\ issued' \subseteq Issuable
  /\ calls' \in 0..MaxCalls
  /\ contended' \in BOOLEAN /\ (contended => contended')

Frame(c) ==
  /\ state = "open" /\ UNCHANGED <<state, migration>>
  /\ Others(c) /\ Writes(c) /\ KeepsMilk(c) /\ Locks(c) /\ Saves(c) /\ Books

\* The lock is held where it should be, and what is relied on at the place c
\* has come to holds.
Holds(c) ==
  /\ pc'[c] \in Under => dbLock' = c
  /\ dbLock' = c => pc'[c] \in Under \cup {"commit"}
Relies(c) ==
  /\ IsRequest(req'[c]) /\ Carries(req'[c])
  /\ pc'[c] = "rate" => (req'[c].seen <=> Rated(work', req'[c].row))
  /\ pc'[c] = "activate" =>
       work'.active = {} /\ (contended' \/ \A b \in Clients : ~Activates(b))
  /\ pc'[c] = "answer" => c \notin writers'
CreatesOn(c) ==
  Creates(c)' =>
    /\ Stage(c)'
    /\ (Creates(c) /\ req'[c].row = req[c].row) \/ req'[c].row \notin issued
HearsOn(c) ==
  /\ pc'[c] \notin Replied => llm'[c].parsed # "valid"
  /\ pc'[c] = "structured" => (llm'[c].errors <=> llm'[c].parsed # "valid")

Own(c) == Holds(c) /\ Relies(c) /\ CreatesOn(c) /\ HearsOn(c)

Kept(c) == Frame(c) /\ Own(c)

-----------------------------------------------------------------------------
(***************************************************************************)
(* The steps that requests are made of.                                    *)
(***************************************************************************)
\* Where nothing is relied on but what a request carries.
Plain == (Steps \ (Under \cup Replied \cup {"activate"})) \cup {"commit"}

\* A request under way finds the connection published.
LEMMA OpenWhenBusy ==
  ASSUME IInv, NEW c \in Clients, pc[c] # "idle"
  PROVE  state = "open"
BY DEF IInv, IdleUnlessOpen

\* Where it goes, and that the others stay where they are.
LEMMA Goes ==
  ASSUME IInv, NEW c \in Clients, NEW step \in Steps, NEW r, Go(c, step, r)
  PROVE  /\ pc' \in [Clients -> Steps] /\ DOMAIN req' = Clients
         /\ pc'[c] = step /\ req'[c] = r
         /\ \A b \in Clients \ {c} : pc'[b] = pc[b] /\ req'[b] = req[b]
BY DEF Go, IInv, Types, TypeOK

\* What is left of the types when a request reads, or its statement fails.
LEMMA NothingWritten ==
  ASSUME IInv, NEW c \in Clients, work' = work
  PROVE  Writes(c) /\ KeepsMilk(c)
BY DEF IInv, Types, TypeOK, SetupInv, MigrationOnCourse, Writes, KeepsMilk

\* The lock is with c only at some steps.
LEMMA LockedUnder ==
  ASSUME IInv, NEW c \in Clients
  PROVE  /\ pc[c] \in Under => dbLock = c
         /\ dbLock = c => pc[c] \in Under \cup {"commit"}
         /\ pc[c] \in Steps
BY DEF IInv, Types, TypeOK, Under

\* Nothing is asked of a request that has gone.
LEMMA NoRequestCarries == IsRequest(NoRequest) /\ Carries(NoRequest)
BY DEF NoRequest, IsRequest, Carries, Generate

\* A request ends.
LEMMA EndKeeps ==
  ASSUME IInv, state = "open", NEW c \in Clients, End(c), Books,
         UNCHANGED <<state, migration, work, disk, writers>>
  PROVE  Kept(c)
<1>1. /\ pc' \in [Clients -> Steps] /\ DOMAIN req' = Clients
      /\ pc'[c] = "idle" /\ req'[c] = NoRequest
      /\ \A b \in Clients \ {c} : pc'[b] = pc[b] /\ req'[b] = req[b]
  BY Goes DEF End, Steps
<1>2. Others(c) /\ llm'[c] = NoReply
  BY <1>1 DEF Others, End, IInv, Types
<1>3. Writes(c) /\ KeepsMilk(c)
  BY NothingWritten
<1>4. Locks(c) /\ Saves(c)
  BY DEF Locks, Saves, End
<1>5. Holds(c)
  BY <1>1, LockedUnder, ConnectionAssumption DEF Holds, End, Under
<1>6. Relies(c) /\ CreatesOn(c) /\ HearsOn(c)
  BY <1>1, <1>2, NoRequestCarries
     DEF Relies, CreatesOn, Creates, Creating, HearsOn, NoReply
<1> QED
  BY <1>2, <1>3, <1>4, <1>5, <1>6 DEF Kept, Frame, Own

\* A request goes on to a place where nothing is relied on.
LEMMA PlainKeeps ==
  ASSUME IInv, state = "open", NEW c \in Clients, pc[c] \notin Replied,
         NEW step \in Plain, NEW r, Go(c, step, r), IsRequest(r), Carries(r),
         pc[c] \in Under => step = "commit",
         step = "commit" => r.op # Generate,
         Writes(c), KeepsMilk(c), Saves(c), Books,
         UNCHANGED <<state, migration, dbLock, llm>>
  PROVE  Kept(c)
<1>1. /\ pc' \in [Clients -> Steps] /\ DOMAIN req' = Clients
      /\ pc'[c] = step /\ req'[c] = r
      /\ \A b \in Clients \ {c} : pc'[b] = pc[b] /\ req'[b] = req[b]
  BY Goes DEF Plain, Steps
<1>2. Others(c)
  BY <1>1 DEF Others, IInv, Types
<1>3. Locks(c)
  BY DEF Locks
<1>4. Holds(c)
  BY <1>1, LockedUnder DEF Holds, Plain, Under, Replied
<1>5. Relies(c)
  BY <1>1 DEF Relies, Plain, Under, Replied
<1>6. CreatesOn(c)
  BY <1>1 DEF CreatesOn, Creates, Creating, Plain, Replied
<1>7. HearsOn(c)
  BY <1>1 DEF HearsOn, IInv, RequestInv, ReplyInv, Plain, Replied
<1> QED
  BY <1>2, <1>3, <1>4, <1>5, <1>6, <1>7 DEF Kept, Frame, Own

\* It reads, and goes on to such a place.
LEMMA ReadOnKeeps ==
  ASSUME IInv, state = "open", NEW c \in Clients, pc[c] \notin Replied \cup Under,
         NEW step \in Plain, NEW r, ReadOn(c, step, r), IsRequest(r), Carries(r),
         step = "commit" => r.op # Generate, Books
  PROVE  Kept(c)
<1>1. Writes(c) /\ KeepsMilk(c) /\ Saves(c)
  BY NothingWritten DEF ReadOn, Saves
<1> QED
  BY <1>1, PlainKeeps DEF ReadOn

\* It executes a statement that the others need not mind.
LEMMA ExecuteKeeps ==
  ASSUME IInv, state = "open", NEW c \in Clients, pc[c] \notin Replied,
         NEW ok, NEW d, NEW step \in Plain, NEW r, Execute(c, ok, d, step, r),
         Safe(work, d), d.ratings = work.ratings \/ dbLock = c,
         \A m \in Milks : work.milk[m] # d.milk[m] /\ work.milk[m] # "absent" =>
           /\ pc[c] # step
           /\ \/ r.op = "milk/set_available"
              \/ d.milk[m] = "absent" /\ req[c].op = "milk/set" /\ m \notin req[c].seen,
         IsRequest(r), Carries(r),
         pc[c] \in Under => step = "commit",
         step = "commit" => r.op # Generate, Books
  PROVE  Kept(c)
<1>1. CASE ~(ok /\ References(d))
  BY <1>1, EndKeeps DEF Execute
<1>2. CASE ok /\ References(d)
  <2>1. /\ work' = d /\ writers' = writers \cup {c} /\ Go(c, step, r)
        /\ UNCHANGED <<state, migration, disk, dbLock, llm>>
    BY <1>2 DEF Execute
  <2>2. Writes(c)
    BY <1>2, <2>1 DEF Writes, Safe, Spares
  <2>3. pc'[c] = step /\ req'[c] = r
    BY <2>1, Goes DEF Plain, Steps
  <2>4. KeepsMilk(c)
    BY <2>1, <2>3 DEF KeepsMilk
  <2>5. Saves(c)
    BY <2>1 DEF Saves
  <2> QED
    BY <2>1, <2>2, <2>4, <2>5, PlainKeeps
<1> QED
  BY <1>1, <1>2

\* It executes a harmless one.
LEMMA HarmlessKeeps ==
  ASSUME IInv, state = "open", NEW c \in Clients, pc[c] \notin Replied,
         NEW ok, NEW d, NEW step \in Plain, NEW r, Execute(c, ok, d, step, r),
         Harmless(work, d), IsRequest(r), Carries(r),
         pc[c] \in Under => step = "commit",
         step = "commit" => r.op # Generate, Books
  PROVE  Kept(c)
BY ExecuteKeeps DEF Harmless

\* The commands whose requests carry something that the invariant types.
Carriers ==
  {Generate, "milk/set", "favorites/add", "recipe/rate", "favorites/update",
   "presets/update", "presets/delete", "extras/set", "probe", "producers/add",
   "producers/update", "additives/add", "additives/update",
   "additives/set_available", "tags/add", "prompts/save"}

\* A request has its four fields.
LEMMA RequestHas ==
  ASSUME NEW op, NEW row, NEW todo, NEW seen, NEW r, r = Request(op, row, todo, seen)
  PROVE  /\ IsRequest(r) /\ r.op = op /\ r.row = row /\ r.todo = todo /\ r.seen = seen
         /\ op \notin Carriers => Carries(r)
<1>1. IsRequest(r) /\ r.op = op /\ r.row = row /\ r.todo = todo /\ r.seen = seen
  BY DEF Request, IsRequest
<1>2. r.op \notin Carriers => Carries(r)
  BY DEF Carries, Carriers
<1> QED
  BY <1>1, <1>2

\* It still has them when one is changed.
LEMMA TodoChanged ==
  ASSUME NEW r, IsRequest(r), NEW x, NEW s, s = [r EXCEPT !.todo = x]
  PROVE  IsRequest(s) /\ s.op = r.op /\ s.row = r.row /\ s.todo = x /\ s.seen = r.seen
BY DEF IsRequest

\* So it has with another field changed.
LEMMA SeenChanged ==
  ASSUME NEW r, IsRequest(r), NEW x, NEW s, s = [r EXCEPT !.seen = x]
  PROVE  IsRequest(s) /\ s.op = r.op /\ s.row = r.row /\ s.todo = r.todo /\ s.seen = x
BY DEF IsRequest

\* A command comes in.
LEMMA Called ==
  ASSUME IInv, NEW c \in Clients, NEW op, Call(c, op)
  PROVE  /\ state = "open" /\ pc[c] = "idle" /\ calls' \in 0..MaxCalls
         /\ pc[c] \notin Replied \cup Under
BY ConnectionAssumption DEF IInv, Types, TypeOK, Call, Replied, Under

\* A request is under way.
LEMMA UnderWay ==
  ASSUME IInv, NEW c \in Clients, NEW op, NEW step, step # "idle", At(c, op, step)
  PROVE  /\ state = "open" /\ pc[c] = step /\ req[c].op = op /\ calls' \in 0..MaxCalls
         /\ IsRequest(req[c]) /\ Carries(req[c])
BY OpenWhenBusy DEF At, IInv, Types, TypeOK

\* The books are kept when no key is given out and no activation begins.
LEMMA BooksKept ==
  ASSUME IInv, calls' \in 0..MaxCalls, UNCHANGED <<issued, contended>>
  PROVE  Books
BY DEF Books, IInv, Types, TypeOK

\* They are when a key is given out.
LEMMA KeyIssued ==
  ASSUME IInv, calls' \in 0..MaxCalls, contended' = contended,
         NEW key \in Issuable, issued' = issued \cup {key}
  PROVE  Books
BY DEF Books, IInv, Types, TypeOK

\* A command of one statement.
LEMMA SingleKeeps ==
  ASSUME IInv, NEW c \in Clients, NEW op, NEW d, Single(c, op, d),
         Harmless(work, d), op \notin Carriers, Books
  PROVE  Kept(c)
<1>1. /\ state = "open" /\ pc[c] \notin Replied \cup Under
      /\ Execute(c, TRUE, d, "commit", Request(op, None, None, None))
  BY Called DEF Single
<1>2. /\ IsRequest(Request(op, None, None, None)) /\ Carries(Request(op, None, None, None))
      /\ Request(op, None, None, None).op # Generate
  BY RequestHas DEF Carriers
<1>3. "commit" \in Plain
  BY DEF Plain
<1> QED
  BY <1>1, <1>2, <1>3, HarmlessKeeps

\* One that gives out no key.
LEMMA UpdateKeeps ==
  ASSUME IInv, NEW c \in Clients, NEW op, NEW d, Update(c, op, d),
         Harmless(work, d), op \notin Carriers
  PROVE  Kept(c)
<1>1. Single(c, op, d) /\ Books
  BY Called, BooksKept DEF Update, Single
<1> QED
  BY <1>1, SingleKeeps

\* One that gives out a key.
LEMMA InsertKeeps ==
  ASSUME IInv, NEW c \in Clients, NEW op, NEW d, NEW key \in Issuable,
         Insert(c, op, key, d), Harmless(work, d), op \notin Carriers
  PROVE  Kept(c)
<1>1. Single(c, op, d) /\ Books
  BY Called, KeyIssued DEF Insert, Single
<1> QED
  BY <1>1, SingleKeeps

\* A command comes in and reads first.
LEMMA CallReads ==
  ASSUME IInv, NEW c \in Clients, NEW op, NEW r, NEW step \in Plain,
         Call(c, op), ReadOn(c, step, r), IsRequest(r), Carries(r), step # "commit", Books
  PROVE  Kept(c)
BY Called, ReadOnKeeps

\* A request under way executes a statement.
LEMMA AtExecutes ==
  ASSUME IInv, NEW c \in Clients, NEW op, NEW step \in Steps \ (Replied \cup {"idle"}),
         At(c, op, step), NEW ok, NEW d, Execute(c, ok, d, "commit", req[c]),
         Harmless(work, d), op # Generate, UNCHANGED <<issued, contended>>
  PROVE  Kept(c)
<1>1. /\ state = "open" /\ pc[c] = step /\ req[c].op = op
      /\ IsRequest(req[c]) /\ Carries(req[c]) /\ Books
  BY UnderWay, BooksKept
<1>2. "commit" \in Plain
  BY DEF Plain
<1> QED
  BY <1>1, <1>2, HarmlessKeeps

\* A request under way reads and goes on.
LEMMA AtReads ==
  ASSUME IInv, NEW c \in Clients, NEW op,
         NEW step \in Steps \ (Replied \cup Under \cup {"idle"}),
         At(c, op, step), NEW next \in Plain, NEW r, ReadOn(c, next, r),
         IsRequest(r), Carries(r), next = "commit" => r.op # Generate,
         UNCHANGED <<issued, contended>>
  PROVE  Kept(c)
<1>1. state = "open" /\ pc[c] = step /\ Books
  BY UnderWay, BooksKept
<1> QED
  BY <1>1, ReadOnKeeps

\* A request under way ends.
LEMMA AtEnds ==
  ASSUME IInv, NEW c \in Clients, NEW op, NEW step, step # "idle",
         At(c, op, step), ReadEnd(c), UNCHANGED <<issued, contended>>
  PROVE  Kept(c)
<1>1. state = "open" /\ Books
  BY UnderWay, BooksKept
<1> QED
  BY <1>1, EndKeeps DEF ReadEnd

-----------------------------------------------------------------------------
(***************************************************************************)
(* The panel's commands.                                                   *)
(***************************************************************************)
\* A command of the panel comes in.
LEMMA PanelBeginKeeps ==
  ASSUME IInv, NEW c \in Clients, NEW op, NEW row, NEW todo,
         PanelBegin(c, op, row, todo), Carries(Request(op, row, todo, None)),
         issued' = issued \/ \E key \in Issuable : issued' = issued \cup {key}
  PROVE  Kept(c)
<1> DEFINE r == Request(op, row, todo, None)
<1>1. Call(c, op) /\ ReadOn(c, "ensure", r) /\ contended' = contended
  BY DEF PanelBegin, ReadOn
<1>2. calls' \in 0..MaxCalls
  BY <1>1, Called
<1>3. Books
  BY <1>1, <1>2, BooksKept, KeyIssued
<1>4. IsRequest(r) /\ Carries(r)
  BY RequestHas
<1>5. "ensure" \in Plain
  BY DEF Plain, Steps, Under, Replied
<1> HIDE DEF r
<1> QED
  BY <1>1, <1>3, <1>4, <1>5, CallReads

\* It executes its statement.
LEMMA PanelStatementKeeps ==
  ASSUME IInv, NEW c \in Clients, NEW op, NEW ok, NEW d, PanelStatement(c, op, ok, d),
         Harmless(work, d), op # Generate
  PROVE  Kept(c)
<1>1. "statement" \in Steps \ (Replied \cup {"idle"})
  BY DEF Steps, Replied
<1> QED
  BY <1>1, AtExecutes DEF PanelStatement

\* A commit on the way.
LEMMA SavesKeeps ==
  ASSUME IInv, state = "open", NEW c \in Clients, pc[c] \notin Replied \cup Under,
         NEW step \in Plain, step # "commit", Go(c, step, req[c]), disk' = work, writers' = {},
         UNCHANGED <<state, migration, work, dbLock, llm>>, Books
  PROVE  Kept(c)
<1>1. Writes(c) /\ KeepsMilk(c)
  BY NothingWritten
<1>2. Saves(c)
  BY DEF Saves
<1>3. IsRequest(req[c]) /\ Carries(req[c])
  BY DEF IInv, Types
<1> QED
  BY <1>1, <1>2, <1>3, PlainKeeps

\* async_ensure_panel_schema commits what the others have executed.
LEMMA EnsurePanelSchemaKeeps ==
  ASSUME IInv, NEW c \in Clients, EnsurePanelSchema(c) PROVE Kept(c)
<1>1. /\ pc[c] = "ensure" /\ disk' = work /\ writers' = {}
      /\ UNCHANGED <<state, migration, work, dbLock, llm, issued, calls, contended>>
  BY DEF EnsurePanelSchema
<1>2. PICK step \in {"ensure", "statement"} : Go(c, step, req[c])
  BY DEF EnsurePanelSchema
<1>3. state = "open" /\ calls' \in 0..MaxCalls
  BY <1>1, OpenWhenBusy DEF IInv, Types, TypeOK
<1>4. Books
  BY <1>1, <1>3, BooksKept
<1>5. step \in Plain /\ step # "commit" /\ pc[c] \notin Replied \cup Under
  BY <1>1 DEF Plain, Steps, Under, Replied
<1> QED
  BY <1>1, <1>2, <1>3, <1>4, <1>5, SavesKeeps

\* The database at hand.
LEMMA Working == ASSUME IInv PROVE work \in Databases /\ disk \in Databases
BY DEF IInv, Types, TypeOK

\* The steps of producers/add.
LEMMA WsProducersAddKeeps == ASSUME IInv, NEW c \in Clients, WsProducersAdd(c) PROVE Kept(c)
<1>1. CASE \E q \in Producers, m \in Names : PanelInsert(c, "producers/add", q, m)
  <2>1. PICK q \in Producers, m \in Names : PanelInsert(c, "producers/add", q, m)
    BY <1>1
  <2>2. /\ PanelBegin(c, "producers/add", q, m)
        /\ q \in Issuable /\ issued' = issued \cup {q}
    BY <2>1 DEF PanelInsert, Issuable
  <2>3. Carries(Request("producers/add", q, m, None))
    BY RequestHas DEF Carries, Generate
  <2> QED
    BY <2>2, <2>3, PanelBeginKeeps
<1>2. CASE PanelStatement(c, "producers/add", NameFree(req[c].row, req[c].todo), AddProducer(work, req[c].row, req[c].todo))
  <2>1. req[c].row \in Producers /\ req[c].todo \in Names
    BY <1>2, UnderWay DEF PanelStatement, Carries
  <2>2. Harmless(work, AddProducer(work, req[c].row, req[c].todo))
    BY <2>1, Working, AddProducerIsHarmless
  <2> QED
    BY <1>2, <2>2, PanelStatementKeeps DEF Generate
<1> QED
  BY <1>1, <1>2 DEF WsProducersAdd

\* The steps of producers/update.
LEMMA WsProducersUpdateKeeps == ASSUME IInv, NEW c \in Clients, WsProducersUpdate(c) PROVE Kept(c)
<1>1. CASE \E q \in Producers, m \in Names \cup {None} : PanelCall(c, "producers/update", q, m)
  <2>1. PICK q \in Producers, m \in Names \cup {None} : PanelCall(c, "producers/update", q, m)
    BY <1>1
  <2>2. PanelBegin(c, "producers/update", q, m) /\ issued' = issued
    BY <2>1 DEF PanelCall
  <2>3. Carries(Request("producers/update", q, m, None))
    BY RequestHas DEF Carries, Generate
  <2> QED
    BY <2>2, <2>3, PanelBeginKeeps
<1>2. CASE req[c].todo # None /\ PanelStatement(c, "producers/update", work.producers[req[c].row] = None \/ NameFree(req[c].row, req[c].todo), UpdateProducer(work, req[c].row, req[c].todo))
  <2>1. req[c].todo \in Names
    BY <1>2, UnderWay DEF PanelStatement, Carries
  <2>2. Harmless(work, UpdateProducer(work, req[c].row, req[c].todo))
    BY <2>1, Working, UpdateProducerIsHarmless, <1>2
  <2> QED
    BY <1>2, <2>2, PanelStatementKeeps DEF Generate
<1>3. CASE PanelStatement(c, "producers/update", TRUE, work)
  <2>2. Harmless(work, work)
    BY Working, NothingIsHarmless
  <2> QED
    BY <1>3, <2>2, PanelStatementKeeps DEF Generate
<1> QED
  BY <1>1, <1>2, <1>3 DEF WsProducersUpdate

\* The steps of producers/delete.
LEMMA WsProducersDeleteKeeps == ASSUME IInv, NEW c \in Clients, WsProducersDelete(c) PROVE Kept(c)
<1>1. CASE \E q \in Producers : PanelCall(c, "producers/delete", q, None)
  <2>1. PICK q \in Producers : PanelCall(c, "producers/delete", q, None)
    BY <1>1
  <2>2. PanelBegin(c, "producers/delete", q, None) /\ issued' = issued
    BY <2>1 DEF PanelCall
  <2>3. Carries(Request("producers/delete", q, None, None))
    BY RequestHas DEF Carriers, Generate
  <2> QED
    BY <2>2, <2>3, PanelBeginKeeps
<1>2. CASE PanelStatement(c, "producers/delete", TRUE, DeleteProducer(work, req[c].row))
  <2>2. Harmless(work, DeleteProducer(work, req[c].row))
    BY Working, DeleteProducerIsHarmless
  <2> QED
    BY <1>2, <2>2, PanelStatementKeeps DEF Generate
<1> QED
  BY <1>1, <1>2 DEF WsProducersDelete

\* The steps of additives/add.
LEMMA WsAdditivesAddKeeps == ASSUME IInv, NEW c \in Clients, WsAdditivesAdd(c) PROVE Kept(c)
<1>1. CASE \E b \in Additives, q \in Producers \cup {None} : PanelInsert(c, "additives/add", b, q)
  <2>1. PICK b \in Additives, q \in Producers \cup {None} : PanelInsert(c, "additives/add", b, q)
    BY <1>1
  <2>2. /\ PanelBegin(c, "additives/add", b, q)
        /\ b \in Issuable /\ issued' = issued \cup {b}
    BY <2>1 DEF PanelInsert, Issuable
  <2>3. Carries(Request("additives/add", b, q, None))
    BY RequestHas DEF Carries, Generate
  <2> QED
    BY <2>2, <2>3, PanelBeginKeeps
<1>2. CASE PanelStatement(c, "additives/add", TRUE, AddAdditive(work, req[c].row, req[c].todo))
  <2>1. req[c].row \in Additives /\ req[c].todo \in Producers \cup {None}
    BY <1>2, UnderWay DEF PanelStatement, Carries
  <2>2. Harmless(work, AddAdditive(work, req[c].row, req[c].todo))
    BY <2>1, Working, AddAdditiveIsHarmless
  <2> QED
    BY <1>2, <2>2, PanelStatementKeeps DEF Generate
<1> QED
  BY <1>1, <1>2 DEF WsAdditivesAdd

\* The steps of additives/update.
LEMMA WsAdditivesUpdateKeeps == ASSUME IInv, NEW c \in Clients, WsAdditivesUpdate(c) PROVE Kept(c)
<1>1. CASE \E b \in Additives, q \in Producers : PanelCall(c, "additives/update", b, q)
  <2>1. PICK b \in Additives, q \in Producers : PanelCall(c, "additives/update", b, q)
    BY <1>1
  <2>2. PanelBegin(c, "additives/update", b, q) /\ issued' = issued
    BY <2>1 DEF PanelCall
  <2>3. Carries(Request("additives/update", b, q, None))
    BY RequestHas DEF Carries, Generate
  <2> QED
    BY <2>2, <2>3, PanelBeginKeeps
<1>2. CASE PanelStatement(c, "additives/update", TRUE, UpdateAdditive(work, req[c].row, req[c].todo))
  <2>1. req[c].todo \in Producers
    BY <1>2, UnderWay DEF PanelStatement, Carries
  <2>2. Harmless(work, UpdateAdditive(work, req[c].row, req[c].todo))
    BY <2>1, Working, UpdateAdditiveIsHarmless
  <2> QED
    BY <1>2, <2>2, PanelStatementKeeps DEF Generate
<1> QED
  BY <1>1, <1>2 DEF WsAdditivesUpdate

\* The steps of additives/delete.
LEMMA WsAdditivesDeleteKeeps == ASSUME IInv, NEW c \in Clients, WsAdditivesDelete(c) PROVE Kept(c)
<1>1. CASE \E b \in Additives : PanelCall(c, "additives/delete", b, None)
  <2>1. PICK b \in Additives : PanelCall(c, "additives/delete", b, None)
    BY <1>1
  <2>2. PanelBegin(c, "additives/delete", b, None) /\ issued' = issued
    BY <2>1 DEF PanelCall
  <2>3. Carries(Request("additives/delete", b, None, None))
    BY RequestHas DEF Carriers, Generate
  <2> QED
    BY <2>2, <2>3, PanelBeginKeeps
<1>2. CASE PanelStatement(c, "additives/delete", TRUE, DeleteAdditive(work, req[c].row))
  <2>2. Harmless(work, DeleteAdditive(work, req[c].row))
    BY Working, DeleteAdditiveIsHarmless
  <2> QED
    BY <1>2, <2>2, PanelStatementKeeps DEF Generate
<1> QED
  BY <1>1, <1>2 DEF WsAdditivesDelete

\* The steps of tags/add.
LEMMA WsTagsAddKeeps == ASSUME IInv, NEW c \in Clients, WsTagsAdd(c) PROVE Kept(c)
<1>1. CASE \E t \in Tags : PanelCall(c, "tags/add", t, None)
  <2>1. PICK t \in Tags : PanelCall(c, "tags/add", t, None)
    BY <1>1
  <2>2. PanelBegin(c, "tags/add", t, None) /\ issued' = issued
    BY <2>1 DEF PanelCall
  <2>3. Carries(Request("tags/add", t, None, None))
    BY RequestHas DEF Carries, Generate
  <2> QED
    BY <2>2, <2>3, PanelBeginKeeps
<1>2. CASE PanelStatement(c, "tags/add", TRUE, AddTag(work, req[c].row))
  <2>1. req[c].row \in Tags
    BY <1>2, UnderWay DEF PanelStatement, Carries
  <2>2. Harmless(work, AddTag(work, req[c].row))
    BY <2>1, Working, AddTagIsHarmless
  <2> QED
    BY <1>2, <2>2, PanelStatementKeeps DEF Generate
<1> QED
  BY <1>1, <1>2 DEF WsTagsAdd

\* The steps of tags/delete.
LEMMA WsTagsDeleteKeeps == ASSUME IInv, NEW c \in Clients, WsTagsDelete(c) PROVE Kept(c)
<1>1. CASE \E t \in Tags : PanelCall(c, "tags/delete", t, None)
  <2>1. PICK t \in Tags : PanelCall(c, "tags/delete", t, None)
    BY <1>1
  <2>2. PanelBegin(c, "tags/delete", t, None) /\ issued' = issued
    BY <2>1 DEF PanelCall
  <2>3. Carries(Request("tags/delete", t, None, None))
    BY RequestHas DEF Carriers, Generate
  <2> QED
    BY <2>2, <2>3, PanelBeginKeeps
<1>2. CASE PanelStatement(c, "tags/delete", TRUE, DeleteTag(work, req[c].row))
  <2>2. Harmless(work, DeleteTag(work, req[c].row))
    BY Working, DeleteTagIsHarmless
  <2> QED
    BY <1>2, <2>2, PanelStatementKeeps DEF Generate
<1> QED
  BY <1>1, <1>2 DEF WsTagsDelete

\* The steps of prompts/save.
LEMMA WsPromptsSaveKeeps == ASSUME IInv, NEW c \in Clients, WsPromptsSave(c) PROVE Kept(c)
<1>1. CASE \E s \in Slots : PanelCall(c, "prompts/save", s, None)
  <2>1. PICK s \in Slots : PanelCall(c, "prompts/save", s, None)
    BY <1>1
  <2>2. PanelBegin(c, "prompts/save", s, None) /\ issued' = issued
    BY <2>1 DEF PanelCall
  <2>3. Carries(Request("prompts/save", s, None, None))
    BY RequestHas DEF Carries, Generate
  <2> QED
    BY <2>2, <2>3, PanelBeginKeeps
<1>2. CASE PanelStatement(c, "prompts/save", TRUE, SavePrompt(work, req[c].row))
  <2>1. req[c].row \in Slots
    BY <1>2, UnderWay DEF PanelStatement, Carries
  <2>2. Harmless(work, SavePrompt(work, req[c].row))
    BY <2>1, Working, SavePromptIsHarmless
  <2> QED
    BY <1>2, <2>2, PanelStatementKeeps DEF Generate
<1> QED
  BY <1>1, <1>2 DEF WsPromptsSave

\* The steps of prompts/reset.
LEMMA WsPromptsResetKeeps == ASSUME IInv, NEW c \in Clients, WsPromptsReset(c) PROVE Kept(c)
<1>1. CASE \E s \in Slots : PanelCall(c, "prompts/reset", s, None)
  <2>1. PICK s \in Slots : PanelCall(c, "prompts/reset", s, None)
    BY <1>1
  <2>2. PanelBegin(c, "prompts/reset", s, None) /\ issued' = issued
    BY <2>1 DEF PanelCall
  <2>3. Carries(Request("prompts/reset", s, None, None))
    BY RequestHas DEF Carriers, Generate
  <2> QED
    BY <2>2, <2>3, PanelBeginKeeps
<1>2. CASE PanelStatement(c, "prompts/reset", TRUE, ResetPrompt(work, req[c].row))
  <2>2. Harmless(work, ResetPrompt(work, req[c].row))
    BY Working, ResetPromptIsHarmless
  <2> QED
    BY <1>2, <2>2, PanelStatementKeeps DEF Generate
<1> QED
  BY <1>1, <1>2 DEF WsPromptsReset

\* It looks for the row before it writes it.
LEMMA WsAdditivesSetAvailableKeeps ==
  ASSUME IInv, NEW c \in Clients, WsAdditivesSetAvailable(c) PROVE Kept(c)
<1> DEFINE op == "additives/set_available"
<1>1. CASE \E b \in Additives, f \in BOOLEAN : PanelCall(c, op, b, f)
  <2>1. PICK b \in Additives, f \in BOOLEAN : PanelCall(c, op, b, f)
    BY <1>1
  <2>2. PanelBegin(c, op, b, f) /\ issued' = issued
    BY <2>1 DEF PanelCall
  <2>3. Carries(Request(op, b, f, None))
    BY RequestHas DEF Carries, Generate
  <2> QED
    BY <2>2, <2>3, PanelBeginKeeps
<1>2. CASE /\ At(c, op, "statement") /\ UNCHANGED <<issued, contended>>
           /\ ReadOn(c, "flag", req[c]) \/ ReadEnd(c)
  <2>1. /\ "statement" \in Steps \ (Replied \cup Under \cup {"idle"})
        /\ "flag" \in Plain /\ "flag" # "commit"
    BY DEF Steps, Replied, Under, Plain
  <2>2. IsRequest(req[c]) /\ Carries(req[c])
    BY <1>2, UnderWay
  <2> QED
    BY <1>2, <2>1, <2>2, AtReads, AtEnds
<1>3. CASE /\ At(c, op, "flag") /\ UNCHANGED <<issued, contended>>
           /\ Execute(c, TRUE, SetAdditiveAvailable(work, req[c].row, req[c].todo), "commit", req[c])
  <2>1. "flag" \in Steps \ (Replied \cup {"idle"})
    BY DEF Steps, Replied
  <2>2. req[c].todo \in BOOLEAN
    BY <1>3, UnderWay DEF Carries
  <2>3. Harmless(work, SetAdditiveAvailable(work, req[c].row, req[c].todo))
    BY <2>2, Working, SetAdditiveAvailableIsHarmless
  <2>4. op # Generate
    BY DEF Generate
  <2> HIDE DEF op
  <2> QED
    BY <1>3, <2>1, <2>3, <2>4, AtExecutes
<1> QED
  BY <1>1, <1>2, <1>3 DEF WsAdditivesSetAvailable

\* It asks the model and answers with what it says.
LEMMA WsBeansAutofillKeeps ==
  ASSUME IInv, NEW c \in Clients, WsBeansAutofill(c) PROVE Kept(c)
<1> DEFINE op == "beans/autofill"
<1>1. CASE PanelCall(c, op, None, None)
  <2>1. PanelBegin(c, op, None, None) /\ issued' = issued
    BY <1>1 DEF PanelCall
  <2>2. Carries(Request(op, None, None, None))
    BY RequestHas DEF Carriers, Generate
  <2> QED
    BY <2>1, <2>2, PanelBeginKeeps
<1>2. CASE At(c, op, "statement") /\ ReadOn(c, "llm", req[c]) /\ UNCHANGED <<issued, contended>>
  <2>1. /\ "statement" \in Steps \ (Replied \cup Under \cup {"idle"})
        /\ "llm" \in Plain /\ "llm" # "commit"
    BY DEF Steps, Replied, Under, Plain
  <2>2. IsRequest(req[c]) /\ Carries(req[c])
    BY <1>2, UnderWay
  <2> QED
    BY <1>2, <2>1, <2>2, AtReads
<1>3. CASE At(c, op, "structured") /\ ReadEnd(c) /\ UNCHANGED <<issued, contended>>
  BY <1>3, AtEnds
<1> QED
  BY <1>1, <1>2, <1>3 DEF WsBeansAutofill

\* It looks for the producer first.
LEMMA WsAdditivesAutofillKeeps ==
  ASSUME IInv, NEW c \in Clients, WsAdditivesAutofill(c) PROVE Kept(c)
<1> DEFINE op == "additives/autofill"
<1>1. CASE \E p \in Producers : PanelCall(c, op, p, None)
  <2>1. PICK p \in Producers : PanelCall(c, op, p, None)
    BY <1>1
  <2>2. PanelBegin(c, op, p, None) /\ issued' = issued
    BY <2>1 DEF PanelCall
  <2>3. Carries(Request(op, p, None, None))
    BY RequestHas DEF Carriers, Generate
  <2> QED
    BY <2>2, <2>3, PanelBeginKeeps
<1>2. CASE /\ At(c, op, "statement") /\ UNCHANGED <<issued, contended>>
           /\ ReadOn(c, "llm", req[c]) \/ ReadEnd(c)
  <2>1. /\ "statement" \in Steps \ (Replied \cup Under \cup {"idle"})
        /\ "llm" \in Plain /\ "llm" # "commit"
    BY DEF Steps, Replied, Under, Plain
  <2>2. IsRequest(req[c]) /\ Carries(req[c])
    BY <1>2, UnderWay
  <2> QED
    BY <1>2, <2>1, <2>2, AtReads, AtEnds
<1>3. CASE At(c, op, "structured") /\ ReadEnd(c) /\ UNCHANGED <<issued, contended>>
  BY <1>3, AtEnds
<1> QED
  BY <1>1, <1>2, <1>3 DEF WsAdditivesAutofill

\* A reply of the language model is judged: a request that goes on with it has
\* errors or a valid object, and one that asks again has had no valid reply.
LEMMA ReplyKeeps ==
  ASSUME IInv, NEW c \in Clients, pc[c] = "llm", NEW step \in {"llm", "structured"},
         Go(c, step, req[c]), NEW reply, llm' = [llm EXCEPT ![c] = reply],
         step = "llm" => reply.parsed # "valid",
         step = "structured" => (reply.errors <=> reply.parsed # "valid"),
         UNCHANGED <<state, migration, work, disk, writers, dbLock, issued, calls, contended>>
  PROVE  Kept(c)
<1>1. /\ pc' \in [Clients -> Steps] /\ DOMAIN req' = Clients
      /\ pc'[c] = step /\ req'[c] = req[c]
      /\ \A b \in Clients \ {c} : pc'[b] = pc[b] /\ req'[b] = req[b]
  BY Goes DEF Steps
<1>2. Others(c) /\ llm'[c] = reply
  BY <1>1 DEF Others, IInv, Types
<1>3. Writes(c) /\ KeepsMilk(c) /\ Saves(c) /\ Locks(c)
  BY NothingWritten DEF Saves, Locks
<1>4. state = "open" /\ Books
  BY OpenWhenBusy, BooksKept DEF IInv, Types, TypeOK
<1>5. Holds(c)
  BY <1>1, LockedUnder DEF Holds, Under
<1>6. Relies(c) /\ CreatesOn(c)
  BY <1>1 DEF Relies, CreatesOn, Creates, Creating, IInv, Types
<1>7. HearsOn(c)
  BY <1>1, <1>2 DEF HearsOn, Replied
<1> QED
  BY <1>2, <1>3, <1>4, <1>5, <1>6, <1>7 DEF Kept, Frame, Own

\* A native reply is valid, and no attempt has been judged before it.
LEMMA SmartChainReplyKeeps ==
  ASSUME IInv, NEW c \in Clients, SmartChainReply(c) PROVE Kept(c)
<1> DEFINE reply == [NoReply EXCEPT !.parsed = "valid"]
<1>1. reply.parsed = "valid" /\ reply.errors = FALSE
  BY DEF NoReply
<1>2. llm' = [llm EXCEPT ![c] = reply]
  BY DEF SmartChainReply, IInv, Types
<1>3. /\ pc[c] = "llm" /\ Go(c, "structured", req[c])
      /\ UNCHANGED <<state, migration, work, disk, writers, dbLock, issued, calls, contended>>
  BY DEF SmartChainReply
<1> HIDE DEF reply
<1> QED
  BY <1>1, <1>2, <1>3, ReplyKeeps

\* An attempt replaces the errors of the one before it, but it may keep an
\* object that one had parsed: no valid one, or there were no second attempt.
LEMMA TextReplyKeeps ==
  ASSUME IInv, NEW c \in Clients, TextReply(c) PROVE Kept(c)
<1>1. /\ pc[c] = "llm"
      /\ UNCHANGED <<state, migration, work, disk, writers, dbLock, issued, calls, contended>>
  BY DEF TextReply
<1>2. PICK raw \in {"valid", "invalid", "notJson"} :
        /\ llm' = [llm EXCEPT ![c] = Judged(llm[c], raw)]
        /\ Go(c, IF raw = "valid" \/ llm[c].attempt + 1 = MaxAttempts
                   THEN "structured" ELSE "llm", req[c])
  BY DEF TextReply
<1> DEFINE step == IF raw = "valid" \/ llm[c].attempt + 1 = MaxAttempts
                     THEN "structured" ELSE "llm"
           reply == Judged(llm[c], raw)
<1>3. llm[c].parsed # "valid"
  BY <1>1 DEF IInv, RequestInv, ReplyInv, Replied
<1>4. /\ reply.errors <=> raw # "valid"
      /\ reply.parsed = IF raw = "notJson" THEN llm[c].parsed ELSE raw
  BY DEF Judged
<1>5. reply.errors <=> reply.parsed # "valid"
  BY <1>3, <1>4
<1>6. step \in {"llm", "structured"} /\ (step = "llm" => raw # "valid")
  OBVIOUS
<1>7. step = "llm" => reply.parsed # "valid"
  BY <1>3, <1>4, <1>6
<1> HIDE DEF step, reply
<1>8. llm' = [llm EXCEPT ![c] = reply] /\ Go(c, step, req[c])
  BY <1>2 DEF step, reply
<1> QED
  BY <1>1, <1>5, <1>6, <1>7, <1>8, ReplyKeeps

\* The conversation agent raises.
LEMMA LLMFailsKeeps ==
  ASSUME IInv, NEW c \in Clients, LLMFails(c) PROVE Kept(c)
<1>1. /\ pc[c] = "llm" /\ ReadEnd(c) /\ UNCHANGED <<issued, calls, contended>>
  BY DEF LLMFails
<1>2. state = "open" /\ Books
  BY <1>1, OpenWhenBusy, BooksKept DEF IInv, Types, TypeOK
<1> QED
  BY <1>1, <1>2, EndKeeps DEF ReadEnd

\* A statement raises for want of its table or column.
LEMMA StatementRaisesKeeps ==
  ASSUME IInv, NEW c \in Clients, StatementRaises(c) PROVE Kept(c)
<1>1. /\ pc[c] # "idle" /\ ReadEnd(c) /\ UNCHANGED <<issued, calls, contended>>
  BY DEF StatementRaises
<1>2. state = "open" /\ Books
  BY <1>1, OpenWhenBusy, BooksKept DEF IInv, Types, TypeOK
<1> QED
  BY <1>1, <1>2, EndKeeps DEF ReadEnd

\* Every step of the panel's commands.
LEMMA PanelStepKeeps ==
  ASSUME IInv, NEW c \in Clients, PanelStep(c) PROVE Kept(c)
BY EnsurePanelSchemaKeeps, WsProducersAddKeeps, WsProducersUpdateKeeps,
   WsProducersDeleteKeeps, WsAdditivesAddKeeps, WsAdditivesUpdateKeeps,
   WsAdditivesDeleteKeeps, WsAdditivesSetAvailableKeeps, WsAdditivesAutofillKeeps,
   WsTagsAddKeeps, WsTagsDeleteKeeps, WsPromptsSaveKeeps, WsPromptsResetKeeps,
   WsBeansAutofillKeeps, SmartChainReplyKeeps, TextReplyKeeps, LLMFailsKeeps
   DEF PanelStep

-----------------------------------------------------------------------------
(***************************************************************************)
(* The lock, the commit, the answer.                                       *)
(***************************************************************************)
\* The lock is taken when it is free.
LEMMA AcquireLockKeeps ==
  ASSUME IInv, NEW c \in Clients, AcquireLock(c) PROVE Kept(c)
<1>1. /\ pc[c] = "lock" /\ dbLock = NoClient /\ dbLock' = c /\ Go(c, "locked", req[c])
      /\ UNCHANGED <<state, migration, work, disk, writers, llm, issued, calls, contended>>
  BY DEF AcquireLock
<1>2. /\ pc' \in [Clients -> Steps] /\ DOMAIN req' = Clients
      /\ pc'[c] = "locked" /\ req'[c] = req[c]
      /\ \A b \in Clients \ {c} : pc'[b] = pc[b] /\ req'[b] = req[b]
  BY <1>1, Goes DEF Steps
<1>3. Others(c)
  BY <1>1, <1>2 DEF Others, IInv, Types
<1>4. Writes(c) /\ KeepsMilk(c) /\ Saves(c) /\ Locks(c)
  BY <1>1, NothingWritten DEF Saves, Locks
<1>5. state = "open" /\ Books
  BY <1>1, OpenWhenBusy, BooksKept DEF IInv, Types, TypeOK
<1>6. Holds(c)
  BY <1>1, <1>2 DEF Holds, Under
<1>7. Relies(c) /\ CreatesOn(c)
  BY <1>2 DEF Relies, CreatesOn, Creates, Creating, IInv, Types
<1>8. HearsOn(c)
  BY <1>1, <1>2 DEF HearsOn, Replied, IInv, RequestInv, ReplyInv
<1> QED
  BY <1>1, <1>3, <1>4, <1>5, <1>6, <1>7, <1>8 DEF Kept, Frame, Own

\* The commit saves what everybody has written, and lets the lock go.
LEMMA CommitKeeps ==
  ASSUME IInv, NEW c \in Clients, Commit(c) PROVE Kept(c)
<1>1. /\ pc[c] = "commit" /\ disk' = work /\ writers' = {} /\ Go(c, "answer", req[c])
      /\ dbLock' = IF dbLock = c THEN NoClient ELSE dbLock
      /\ UNCHANGED <<state, migration, work, llm, issued, calls, contended>>
  BY DEF Commit
<1>2. /\ pc' \in [Clients -> Steps] /\ DOMAIN req' = Clients
      /\ pc'[c] = "answer" /\ req'[c] = req[c]
      /\ \A b \in Clients \ {c} : pc'[b] = pc[b] /\ req'[b] = req[b]
  BY <1>1, Goes DEF Steps
<1>3. Others(c)
  BY <1>1, <1>2 DEF Others, IInv, Types
<1>4. Writes(c) /\ KeepsMilk(c) /\ Saves(c) /\ Locks(c)
  BY <1>1, NothingWritten DEF Saves, Locks
<1>5. state = "open" /\ Books
  BY <1>1, OpenWhenBusy, BooksKept DEF IInv, Types, TypeOK
<1>6. Holds(c)
  BY <1>1, <1>2, ConnectionAssumption DEF Holds, Under
<1>7. Relies(c)
  BY <1>1, <1>2 DEF Relies, IInv, Types
<1>8. CreatesOn(c)
  <2>1. SUFFICES ASSUME Creates(c)'
                 PROVE  Stage(c)' /\ Creates(c) /\ req'[c].row = req[c].row
    BY DEF CreatesOn
  <2>2. Creates(c)
    BY <1>1, <1>2, <2>1 DEF Creates, Creating
  <2>3. Stage(c)
    BY <2>2 DEF IInv, RequestInv, CreationInv
  <2>4. Stage(c)'
    BY <1>1, <1>2, <2>3 DEF Stage
  <2> QED
    BY <1>2, <2>2, <2>4
<1>9. HearsOn(c)
  BY <1>2 DEF HearsOn, Replied
<1> QED
  BY <1>1, <1>3, <1>4, <1>5, <1>6, <1>7, <1>8, <1>9 DEF Kept, Frame, Own

\* The answer ends the request.
LEMMA AnswerKeeps ==
  ASSUME IInv, NEW c \in Clients, Answer(c) PROVE Kept(c)
<1>1. pc[c] = "answer" /\ ReadEnd(c) /\ UNCHANGED <<issued, calls, contended>>
  BY DEF Answer
<1>2. state = "open" /\ Books
  BY <1>1, OpenWhenBusy, BooksKept DEF IInv, Types, TypeOK
<1> QED
  BY <1>1, <1>2, EndKeeps DEF ReadEnd

-----------------------------------------------------------------------------
(***************************************************************************)
(* The Sommelier's commands: beans, hoppers, milk.                         *)
(***************************************************************************)
\* The steps of beans/add.
LEMMA WsBeansAddKeeps ==
  ASSUME IInv, NEW c \in Clients, WsBeansAdd(c) PROVE Kept(c)
<1>1. PICK b \in Beans : Insert(c, "beans/add", b, AddBean(work, b))
  BY DEF WsBeansAdd
<1>2. Harmless(work, AddBean(work, b)) /\ b \in Issuable
  BY Working, AddBeanIsHarmless DEF Issuable
<1>3. "beans/add" \notin Carriers
  BY DEF Carriers, Generate
<1> QED
  BY <1>1, <1>2, <1>3, InsertKeeps

\* A row is read, and its columns that the patch leaves alone are written back.
LEMMA PatchKeeps ==
  ASSUME IInv, NEW c \in Clients, NEW op \in {"beans/update", "profiles/update"},
         UNCHANGED <<issued, contended>>,
         \/ Call(c, op) /\ \E x : ReadOn(c, "patch", Request(op, x, None, None))
         \/ At(c, op, "patch") /\ Execute(c, TRUE, work, "commit", req[c])
  PROVE  Kept(c)
<1>1. CASE Call(c, op) /\ \E x : ReadOn(c, "patch", Request(op, x, None, None))
  <2>1. PICK x : ReadOn(c, "patch", Request(op, x, None, None))
    BY <1>1
  <2>2. IsRequest(Request(op, x, None, None)) /\ Carries(Request(op, x, None, None))
    BY RequestHas DEF Carriers, Generate
  <2>3. "patch" \in Plain
    BY DEF Plain, Steps, Under, Replied
  <2>4. Books
    BY <1>1, Called, BooksKept
  <2> QED
    BY <1>1, <2>1, <2>2, <2>3, <2>4, CallReads
<1>2. CASE At(c, op, "patch") /\ Execute(c, TRUE, work, "commit", req[c])
  <2>1. "patch" \in Steps \ (Replied \cup {"idle"}) /\ op # Generate
    BY DEF Steps, Replied, Generate
  <2>2. Harmless(work, work)
    BY Working, NothingIsHarmless
  <2> QED
    BY <1>2, <2>1, <2>2, AtExecutes
<1> QED
  BY <1>1, <1>2

\* The steps of beans/update.
LEMMA WsBeansUpdateKeeps ==
  ASSUME IInv, NEW c \in Clients, WsBeansUpdate(c) PROVE Kept(c)
BY PatchKeeps DEF WsBeansUpdate, UpdateBean

\* The steps of profiles/update.
LEMMA WsProfilesUpdateKeeps ==
  ASSUME IInv, NEW c \in Clients, WsProfilesUpdate(c) PROVE Kept(c)
BY PatchKeeps DEF WsProfilesUpdate, UpdateProfile

\* The steps of beans/delete.
LEMMA WsBeansDeleteKeeps ==
  ASSUME IInv, NEW c \in Clients, WsBeansDelete(c) PROVE Kept(c)
<1>1. PICK b \in Beans : Update(c, "beans/delete", DeleteBean(work, b))
  BY DEF WsBeansDelete
<1>2. Harmless(work, DeleteBean(work, b))
  BY Working, DeleteBeanIsHarmless
<1>3. "beans/delete" \notin Carriers
  BY DEF Carriers, Generate
<1> QED
  BY <1>1, <1>2, <1>3, UpdateKeeps

\* The steps of hoppers/assign.
LEMMA WsHoppersAssignKeeps ==
  ASSUME IInv, NEW c \in Clients, WsHoppersAssign(c) PROVE Kept(c)
<1>1. PICK h \in Hoppers, b \in Beans \cup {None} :
        Update(c, "hoppers/assign", AssignHopper(work, h, b))
  BY DEF WsHoppersAssign
<1>2. Harmless(work, AssignHopper(work, h, b))
  BY Working, AssignHopperIsHarmless
<1>3. "hoppers/assign" \notin Carriers
  BY DEF Carriers, Generate
<1> QED
  BY <1>1, <1>2, <1>3, UpdateKeeps

\* A statement that leaves the milks that are there as they are.
LEMMA InsertingKeeps ==
  ASSUME IInv, state = "open", NEW c \in Clients, pc[c] = "milk", NEW d, NEW r,
         Execute(c, TRUE, d, "milk", r), Safe(work, d), d.ratings = work.ratings,
         \A m \in Milks : work.milk[m] # "absent" => d.milk[m] = work.milk[m],
         IsRequest(r), Carries(r), Books
  PROVE  Kept(c)
<1>1. "milk" \in Plain /\ pc[c] \notin Replied /\ pc[c] \notin Under /\ "milk" # "commit"
  BY DEF Plain, Steps, Under, Replied
<1> QED
  BY <1>1, ExecuteKeeps

\* Inserting keeps the flag of a milk that is there; pruning spares the list.
LEMMA WsMilkSetKeeps ==
  ASSUME IInv, NEW c \in Clients, WsMilkSet(c) PROVE Kept(c)
<1> DEFINE op == "milk/set"
           todo == req[c].todo
<1> USE DEF Generate
<1>1. CASE /\ Call(c, op) /\ UNCHANGED <<issued, contended>>
           /\ \E list \in SUBSET Milks : ReadOn(c, "milk", Request(op, None, list, list))
  <2>1. PICK list \in SUBSET Milks : ReadOn(c, "milk", Request(op, None, list, list))
    BY <1>1
  <2>2. IsRequest(Request(op, None, list, list)) /\ Carries(Request(op, None, list, list))
    BY RequestHas DEF Carries
  <2>3. "milk" \in Plain
    BY DEF Plain, Steps, Under, Replied
  <2>4. Books
    BY <1>1, Called, BooksKept
  <2> QED
    BY <1>1, <2>1, <2>2, <2>3, <2>4, CallReads
<1>2. CASE /\ At(c, op, "milk") /\ UNCHANGED <<issued, contended>>
           /\ \/ \E m \in todo :
                   Execute(c, TRUE, InsertMilk(work, m), "milk",
                           [req[c] EXCEPT !.todo = todo \ {m}])
              \/ Execute(c, TRUE, PruneMilk(work, req[c].seen), "commit", req[c])
  <2>1. /\ state = "open" /\ pc[c] = "milk" /\ req[c].op = op /\ todo \subseteq Milks
        /\ IsRequest(req[c]) /\ Carries(req[c]) /\ Books
    BY <1>2, UnderWay, BooksKept DEF Carries
  <2>2. /\ pc[c] \notin Replied /\ pc[c] \notin Under
        /\ "milk" \in Plain /\ "commit" \in Plain
    BY <2>1 DEF Plain, Steps, Under, Replied
  <2>3. ASSUME NEW m \in todo,
               Execute(c, TRUE, InsertMilk(work, m), "milk", [req[c] EXCEPT !.todo = todo \ {m}])
        PROVE  Kept(c)
    <3> DEFINE d == InsertMilk(work, m)
               r == [req[c] EXCEPT !.todo = todo \ {m}]
    <3>1. /\ Safe(work, d) /\ d.ratings = work.ratings
          /\ d.milk = [work.milk EXCEPT ![m] = IF @ = "absent" THEN "in" ELSE @]
      BY <2>1, Working, InsertMilkIsSafe
    <3>2. \A n \in Milks : work.milk[n] # d.milk[n] => work.milk[n] = "absent"
      BY <3>1, Working DEF Databases
    <3>3. IsRequest(r) /\ r.op = op /\ r.todo = todo \ {m}
      BY <2>1, TodoChanged
    <3>4. Carries(r)
      BY <2>1, <3>3 DEF Carries
    <3>5. Execute(c, TRUE, d, "milk", r)
      BY <2>3
    <3>6. \A n \in Milks : work.milk[n] # "absent" => d.milk[n] = work.milk[n]
      BY <3>2
    <3> HIDE DEF d, r
    <3> QED
      BY <2>1, <3>1, <3>3, <3>4, <3>5, <3>6, InsertingKeeps
  <2>4. CASE Execute(c, TRUE, PruneMilk(work, req[c].seen), "commit", req[c])
    <3> DEFINE kept == req[c].seen
               d == PruneMilk(work, kept)
    <3>1. /\ Safe(work, d) /\ d.ratings = work.ratings
          /\ d.milk = [m \in Milks |-> IF m \in kept THEN work.milk[m] ELSE "absent"]
      BY Working, PruneMilkIsSafe
    <3>2. \A m \in Milks : work.milk[m] # d.milk[m] => d.milk[m] = "absent" /\ m \notin kept
      BY <3>1
    <3> HIDE DEF d
    <3>3. Execute(c, TRUE, d, "commit", req[c])
      BY <2>4 DEF d
    <3> QED
      BY <2>1, <2>2, <3>1, <3>2, <3>3, ExecuteKeeps
  <2> QED
    BY <1>2, <2>3, <2>4
<1> QED
  BY <1>1, <1>2 DEF WsMilkSet

\* The toggle.
LEMMA WsMilkSetAvailableKeeps ==
  ASSUME IInv, NEW c \in Clients, WsMilkSetAvailable(c) PROVE Kept(c)
<1> DEFINE op == "milk/set_available"
           r == Request(op, None, None, None)
<1>1. PICK m \in Milks, flag \in {"in", "out"} : Update(c, op, SetMilkAvailable(work, m, flag))
  BY DEF WsMilkSetAvailable
<1> DEFINE d == SetMilkAvailable(work, m, flag)
<1>2. Call(c, op) /\ Execute(c, TRUE, d, "commit", r) /\ UNCHANGED <<issued, contended>>
  BY <1>1 DEF Update, Single
<1>3. Safe(work, d) /\ d.ratings = work.ratings
  BY Working, SetMilkAvailableIsSafe
<1>4. IsRequest(r) /\ Carries(r) /\ r.op = op /\ op # Generate
  BY RequestHas DEF Carriers, Generate
<1>5. /\ state = "open" /\ pc[c] = "idle" /\ pc[c] \notin Replied \cup Under /\ Books
  BY <1>2, Called, BooksKept
<1>6. "commit" \in Plain
  BY DEF Plain
<1> HIDE DEF d, r, op
<1> QED
  BY <1>2, <1>3, <1>4, <1>5, <1>6, ExecuteKeeps DEF op

-----------------------------------------------------------------------------
(***************************************************************************)
(* Generate.                                                               *)
(***************************************************************************)
\* A step on the way to a stored session.
LEMMA CreationKeeps ==
  ASSUME IInv, NEW c \in Clients, pc[c] \in {"structured", "session", "recipes"},
         NEW step \in {"session", "recipes", "commit"}, NEW r, Go(c, step, r),
         IsRequest(r), Carries(r), Stage(c)',
         (Creates(c) /\ r.row = req[c].row) \/ r.row \notin issued,
         Writes(c), work'.milk = work.milk, Saves(c), Books,
         UNCHANGED <<state, migration, dbLock, llm>>
  PROVE  Kept(c)
<1>1. /\ pc' \in [Clients -> Steps] /\ DOMAIN req' = Clients
      /\ pc'[c] = step /\ req'[c] = r
      /\ \A b \in Clients \ {c} : pc'[b] = pc[b] /\ req'[b] = req[b]
  BY Goes DEF Steps
<1>2. Others(c)
  BY <1>1 DEF Others, IInv, Types
<1>3. Locks(c) /\ KeepsMilk(c)
  BY DEF Locks, KeepsMilk
<1>4. state = "open"
  BY OpenWhenBusy
<1>5. Holds(c)
  BY <1>1, LockedUnder DEF Holds, Under
<1>6. Relies(c)
  BY <1>1 DEF Relies
<1>7. CreatesOn(c)
  BY <1>1 DEF CreatesOn
<1>8. HearsOn(c)
  BY <1>1 DEF HearsOn, Replied
<1> QED
  BY <1>2, <1>3, <1>4, <1>5, <1>6, <1>7, <1>8 DEF Kept, Frame, Own

\* What is read is of the types that a session wants.
LEMMA ReadContextKeeps ==
  ASSUME IInv, NEW c \in Clients, ReadContext(c), UNCHANGED <<issued, contended>>
  PROVE  Kept(c)
<1> DEFINE seen == req[c].seen
<1>1. /\ {"hopper2", "profile", "prompt"} \subseteq Plain \ {"commit"}
      /\ {"hopper2", "profile"} \subseteq Steps \ (Replied \cup Under \cup {"idle"})
  BY DEF Plain, Steps, Under, Replied
<1>2. ASSUME NEW h \in [Hoppers -> Beans \cup {None}],
             Call(c, Generate),
             ReadOn(c, "hopper2",
                    Request(Generate, None, None, [hopper |-> h, profile |-> None, count |-> 0]))
      PROVE  Kept(c)
  <2> DEFINE x == [hopper |-> h, profile |-> None, count |-> 0]
             r == Request(Generate, None, None, x)
  <2>1. x \in Context
    BY DBAssumption DEF Context
  <2> HIDE DEF x
  <2>2. IsRequest(r) /\ r.op = Generate /\ r.seen = x
    BY RequestHas
  <2>3. Carries(r)
    BY <2>1, <2>2 DEF Carries, Generate
  <2>4. Books
    BY <1>2, Called, BooksKept
  <2> HIDE DEF r
  <2>5. ReadOn(c, "hopper2", r)
    BY <1>2 DEF r, x
  <2> QED
    BY <1>1, <1>2, <2>2, <2>3, <2>4, <2>5, CallReads
<1>3. ASSUME NEW step \in {"hopper2", "profile"}, NEW next \in {"profile", "prompt"},
             NEW x \in Context, At(c, Generate, step),
             ReadOn(c, next, [req[c] EXCEPT !.seen = x])
      PROVE  Kept(c)
  <2> DEFINE r == [req[c] EXCEPT !.seen = x]
  <2>1. IsRequest(req[c]) /\ req[c].op = Generate
    BY <1>3, UnderWay
  <2>2. IsRequest(r) /\ r.op = Generate /\ r.seen = x
    BY <2>1, SeenChanged
  <2>3. Carries(r)
    BY <2>2 DEF Carries, Generate
  <2> HIDE DEF r
  <2>4. ReadOn(c, next, r)
    BY <1>3 DEF r
  <2> QED
    BY <1>1, <1>3, <2>2, <2>3, <2>4, AtReads
<1>4. CASE /\ Call(c, Generate)
           /\ ReadOn(c, "hopper2",
                     Request(Generate, None, None,
                             [hopper |-> [h \in Hoppers |-> work.hoppers[1]],
                              profile |-> None, count |-> 0]))
  <2>1. [h \in Hoppers |-> work.hoppers[1]] \in [Hoppers -> Beans \cup {None}]
    BY Working DEF Databases, Hoppers
  <2> QED
    BY <1>2, <1>4, <2>1
<1>5. CASE /\ At(c, Generate, "hopper2")
           /\ ReadOn(c, "profile",
                     [req[c] EXCEPT !.seen = [seen EXCEPT !.hopper[2] = work.hoppers[2]]])
  <2>1. seen \in Context
    BY <1>5, UnderWay DEF Carries
  <2>2. work.hoppers[2] \in Beans \cup {None}
    BY Working DEF Databases, Hoppers
  <2>3. [seen EXCEPT !.hopper[2] = work.hoppers[2]] \in Context
    <3> DEFINE h == [seen.hopper EXCEPT ![2] = work.hoppers[2]]
    <3>1. h \in [Hoppers -> Beans \cup {None}]
      BY <2>1, <2>2 DEF Context
    <3>2. [seen EXCEPT !.hopper[2] = work.hoppers[2]] = [seen EXCEPT !.hopper = h]
      OBVIOUS
    <3> HIDE DEF h
    <3> QED
      BY <2>1, <3>1, <3>2 DEF Context
  <2> QED
    BY <1>3, <1>5, <2>3
<1>6. CASE /\ At(c, Generate, "profile")
           /\ \E p \in IF work.active = {} THEN {None} ELSE work.active :
                ReadOn(c, "prompt", [req[c] EXCEPT !.seen = [seen EXCEPT !.profile = p]])
  <2>1. seen \in Context
    BY <1>6, UnderWay DEF Carries
  <2>2. PICK p \in IF work.active = {} THEN {None} ELSE work.active :
          ReadOn(c, "prompt", [req[c] EXCEPT !.seen = [seen EXCEPT !.profile = p]])
    BY <1>6
  <2>3. p \in Profiles \cup {None}
    BY Working DEF Databases
  <2>4. [seen EXCEPT !.profile = p] \in Context
    BY <2>1, <2>3 DEF Context
  <2> QED
    BY <1>3, <1>6, <2>2, <2>4
<1> QED
  BY <1>4, <1>5, <1>6 DEF ReadContext

\* Resolving the prompt commits what the others have executed.
LEMMA ReadPromptKeeps ==
  ASSUME IInv, NEW c \in Clients, ReadPrompt(c), UNCHANGED <<issued, contended>>
  PROVE  Kept(c)
<1>1. /\ At(c, Generate, "prompt") /\ disk' = work /\ writers' = {}
      /\ UNCHANGED <<state, migration, work, dbLock, llm>>
  BY DEF ReadPrompt
<1>2. PICK step \in {"prompt", "llm"} : Go(c, step, req[c])
  BY DEF ReadPrompt
<1>3. state = "open" /\ pc[c] = "prompt" /\ Books
  BY <1>1, UnderWay, BooksKept
<1>4. step \in Plain /\ step # "commit" /\ pc[c] \notin Replied \cup Under
  BY <1>3 DEF Plain, Steps, Under, Replied
<1> QED
  BY <1>1, <1>2, <1>3, <1>4, SavesKeeps

\* The session gets a key that nobody has.
LEMMA AcceptRecipesKeeps ==
  ASSUME IInv, NEW c \in Clients, AcceptRecipes(c) PROVE Kept(c)
<1>1. At(c, Generate, "structured") /\ contended' = contended
  BY DEF AcceptRecipes
<1>2. CASE ReadEnd(c) /\ UNCHANGED issued
  BY <1>1, <1>2, AtEnds
<1>3. ASSUME NEW n \in 0..MaxRecipes, NEW s \in Sessions \ issued,
             issued' = issued \cup {s},
             ReadOn(c, "session", Request(Generate, s, n, [req[c].seen EXCEPT !.count = n]))
      PROVE  Kept(c)
  <2> DEFINE x == [req[c].seen EXCEPT !.count = n]
             r == Request(Generate, s, n, x)
  <2>1. pc[c] = "structured" /\ req[c].seen \in Context /\ calls' \in 0..MaxCalls
    BY <1>1, UnderWay DEF Carries
  <2>2. x \in Context /\ x.count = n
    BY <2>1 DEF Context
  <2> HIDE DEF x
  <2>3. IsRequest(r) /\ r.op = Generate /\ r.row = s /\ r.todo = n /\ r.seen = x
    BY RequestHas
  <2>4. Carries(r)
    BY <2>2, <2>3 DEF Carries, Generate
  <2> HIDE DEF r
  <2>5. Go(c, "session", r) /\ UNCHANGED <<state, migration, work, disk, writers, dbLock, llm>>
    BY <1>3 DEF ReadOn, r, x
  <2>6. Writes(c) /\ Saves(c) /\ work'.milk = work.milk
    BY <2>5, NothingWritten DEF Saves
  <2>7. Books
    BY <1>1, <1>3, <2>1, KeyIssued DEF Issuable
  <2>8. ~HasSession(work, s)
    BY <1>3 DEF IInv, RequestInv, CreationInv
  <2>9. pc'[c] = "session" /\ req'[c] = r
    BY <2>5, Goes DEF Steps
  <2>10. Stage(c)'
    BY <1>3, <2>2, <2>3, <2>5, <2>8, <2>9 DEF Stage, HasSession
  <2> QED
    BY <1>3, <2>1, <2>3, <2>4, <2>5, <2>6, <2>7, <2>10, CreationKeeps
<1> QED
  BY <1>2, <1>3 DEF AcceptRecipes

\* The session starts without recipes, for a recipe needs its session; each step
\* adds one to them, unless the history has been cleared.
LEMMA CreateSessionKeeps ==
  ASSUME IInv, NEW c \in Clients, CreateSession(c), UNCHANGED <<issued, contended>>
  PROVE  Kept(c)
<1> DEFINE s == req[c].row
           seen == req[c].seen
           n == seen.count
           todo == req[c].todo
<1>1. PICK step \in {"session", "recipes"} : At(c, Generate, step)
  BY DEF CreateSession
<1>2. /\ state = "open" /\ pc[c] = step /\ req[c].op = Generate /\ seen \in Context
      /\ IsRequest(req[c]) /\ Carries(req[c]) /\ Books
  BY <1>1, UnderWay, BooksKept DEF Carries
<1>3. Creates(c) /\ Stage(c)
  BY <1>2 DEF Creates, Creating, IInv, RequestInv, CreationInv
<1>4. s \in Sessions \cap issued /\ n \in 0..MaxRecipes
  BY <1>2, <1>3 DEF Stage, Context
<1> DEFINE d == InsertSession(work, s, seen.profile, seen.hopper)
<1>5. CASE pc[c] = "session" /\ Execute(c, TRUE, d, "recipes", req[c])
  <2>1. ~HasSession(work, s) /\ todo = n
    BY <1>3, <1>5 DEF Stage
  <2>2. /\ d \in Databases
        /\ \A t : HasSession(d, t) <=> HasSession(work, t) \/ t = s
        /\ d = [work EXCEPT !.sessions = d.sessions]
    BY <1>2, <1>4, Working, InsertSessionStores DEF Context
  <2> HIDE DEF d
  <2>3. CASE ~References(d)
    BY <1>2, <1>5, <2>3, EndKeeps DEF Execute
  <2>4. CASE References(d)
    <3>1. /\ work' = d /\ writers' = writers \cup {c} /\ Go(c, "recipes", req[c])
          /\ UNCHANGED <<state, migration, disk, dbLock, llm>>
      BY <1>5, <2>4 DEF Execute
    <3>2. /\ d.version = work.version /\ d.migrated = work.migrated
          /\ d.presets = work.presets /\ d.ratings = work.ratings
          /\ d.active = work.active /\ d.recipes = work.recipes /\ d.milk = work.milk
      BY <2>2, Working DEF Databases
    <3>3. \A t : Stored(d, t) = Stored(work, t)
      BY <3>2 DEF Stored
    <3>4. Writes(c)
      BY <1>3, <2>2, <2>4, <3>1, <3>2, <3>3 DEF Writes
    <3>5. Stored(work, s) = {}
      BY <2>1 DEF IInv, SetupInv, MigrationOnCourse, References, Stored, HasSession
    <3>6. (n + 1)..n = {}
      BY <1>4
    <3>7. Stored(d, s) = {s} \X ((todo + 1)..n) /\ todo \in 0..n
      BY <1>4, <2>1, <3>3, <3>5, <3>6
    <3>8. pc'[c] = "recipes" /\ req'[c] = req[c]
      BY <3>1, Goes DEF Steps
    <3>9. Stage(c)'
      BY <1>4, <3>1, <3>7, <3>8 DEF Stage
    <3>10. Saves(c) /\ work'.milk = work.milk
      BY <3>1, <3>2 DEF Saves
    <3> QED
      BY <1>2, <1>3, <1>5, <3>1, <3>4, <3>9, <3>10, CreationKeeps
  <2> QED
    BY <2>3, <2>4
<1> DEFINE new == <<s, todo>>
           e == InsertRecipe(work, new)
           r == [req[c] EXCEPT !.todo = todo - 1]
<1>6. CASE pc[c] = "recipes" /\ todo > 0 /\ Execute(c, TRUE, e, "recipes", r)
  <2>1. /\ todo \in 0..n
        /\ HasSession(work, s) => Stored(work, s) = {s} \X ((todo + 1)..n)
    BY <1>3, <1>6 DEF Stage
  <2>2. new \in Recipes /\ new[1] = s
    BY <1>4, <1>6, <2>1, DBAssumption DEF Recipes
  <2> HIDE DEF new
  <2>3. /\ e \in Databases
        /\ e = [work EXCEPT !.recipes = work.recipes \cup {new}]
        /\ \A t : HasSession(e, t) <=> HasSession(work, t)
        /\ \A t : Stored(e, t) = IF t = s THEN Stored(work, t) \cup {new}
                                          ELSE Stored(work, t)
    BY <2>2, Working, InsertRecipeStores
  <2>4. IsRequest(r) /\ r.op = Generate /\ r.row = s /\ r.todo = todo - 1 /\ r.seen = seen
    BY <1>2, TodoChanged
  <2>5. Carries(r)
    BY <1>2, <2>4 DEF Carries, Generate
  <2> HIDE DEF e, r
  <2>6. CASE ~References(e)
    BY <1>2, <1>6, <2>6, EndKeeps DEF Execute
  <2>7. CASE References(e)
    <3>1. /\ work' = e /\ writers' = writers \cup {c} /\ Go(c, "recipes", r)
          /\ UNCHANGED <<state, migration, disk, dbLock, llm>>
      BY <1>6, <2>7 DEF Execute
    <3>2. /\ e.version = work.version /\ e.migrated = work.migrated
          /\ e.presets = work.presets /\ e.ratings = work.ratings
          /\ e.active = work.active /\ e.milk = work.milk
      BY <2>3, Working DEF Databases
    <3>3. Writes(c)
      BY <1>3, <2>3, <2>7, <3>1, <3>2 DEF Writes
    <3>4. todo - 1 \in 0..n /\ todo..n = {todo} \cup ((todo + 1)..n) /\ (todo - 1) + 1 = todo
      BY <1>4, <1>6, <2>1
    <3>5. HasSession(e, s) => Stored(e, s) = {s} \X (todo..n)
      <4>1. ({s} \X ((todo + 1)..n)) \cup {<<s, todo>>} = {s} \X (todo..n)
        BY <3>4
      <4> QED
        BY <2>1, <2>3, <4>1 DEF new
    <3>6. pc'[c] = "recipes" /\ req'[c] = r
      BY <3>1, Goes DEF Steps
    <3>7. Stage(c)'
      BY <1>4, <2>4, <3>1, <3>4, <3>5, <3>6 DEF Stage
    <3>8. Saves(c) /\ work'.milk = work.milk
      BY <3>1, <3>2 DEF Saves
    <3> QED
      BY <1>2, <1>3, <1>6, <2>4, <2>5, <3>1, <3>3, <3>7, <3>8, CreationKeeps
  <2> QED
    BY <2>6, <2>7
<1>7. CASE pc[c] = "recipes" /\ todo = 0 /\ ReadOn(c, "commit", req[c])
  <2>1. HasSession(work, s) => Stored(work, s) = {s} \X (1..n)
    BY <1>3, <1>7 DEF Stage
  <2>2. /\ Go(c, "commit", req[c])
        /\ UNCHANGED <<state, migration, work, disk, writers, dbLock, llm>>
    BY <1>7 DEF ReadOn
  <2>3. Writes(c) /\ Saves(c) /\ work'.milk = work.milk
    BY <2>2, NothingWritten DEF Saves
  <2>4. pc'[c] = "commit" /\ req'[c] = req[c]
    BY <2>2, Goes DEF Steps
  <2>5. Stage(c)'
    BY <1>4, <2>1, <2>2, <2>4 DEF Stage, HasSession, Stored
  <2> QED
    BY <1>2, <1>3, <1>7, <2>2, <2>3, <2>5, CreationKeeps
<1> QED
  BY <1>5, <1>6, <1>7 DEF CreateSession, At

\* generate, step by step.
LEMMA WsGenerateKeeps ==
  ASSUME IInv, NEW c \in Clients, WsGenerate(c) PROVE Kept(c)
BY ReadContextKeeps, ReadPromptKeeps, CreateSessionKeeps, AcceptRecipesKeeps DEF WsGenerate

-----------------------------------------------------------------------------
(***************************************************************************)
(* Under the lock.                                                         *)
(***************************************************************************)
\* A request goes on under the lock.
LEMMA UnderKeeps ==
  ASSUME IInv, NEW c \in Clients, pc[c] \in Under, NEW step \in Under, NEW r, Go(c, step, r),
         IsRequest(r), Carries(r), step = "rate" => (r.seen <=> Rated(work', r.row)),
         Writes(c), KeepsMilk(c), Saves(c), Books,
         UNCHANGED <<state, migration, dbLock, llm>>
  PROVE  Kept(c)
<1>1. /\ pc' \in [Clients -> Steps] /\ DOMAIN req' = Clients
      /\ pc'[c] = step /\ req'[c] = r
      /\ \A b \in Clients \ {c} : pc'[b] = pc[b] /\ req'[b] = req[b]
  BY Goes DEF Under, Steps
<1>2. Others(c)
  BY <1>1 DEF Others, IInv, Types
<1>3. Locks(c) /\ state = "open" /\ pc[c] \notin Replied
  BY OpenWhenBusy DEF Locks, Under, Replied
<1>4. Holds(c)
  BY <1>1, LockedUnder DEF Holds
<1>5. Relies(c)
  BY <1>1 DEF Relies, Under
<1>6. CreatesOn(c)
  BY <1>1 DEF CreatesOn, Creates, Creating, Under
<1>7. HearsOn(c)
  BY <1>1, <1>3 DEF HearsOn, Under, IInv, RequestInv, ReplyInv
<1> QED
  BY <1>2, <1>3, <1>4, <1>5, <1>6, <1>7 DEF Kept, Frame, Own

\* It lets the lock go, to take it again.
LEMMA ReleaseKeeps ==
  ASSUME IInv, NEW c \in Clients, pc[c] \in Under, NEW r, Go(c, "lock", r),
         dbLock' = NoClient, IsRequest(r), Carries(r), work' = work, Saves(c), Books,
         UNCHANGED <<state, migration, llm>>
  PROVE  Kept(c)
<1>1. /\ pc' \in [Clients -> Steps] /\ DOMAIN req' = Clients
      /\ pc'[c] = "lock" /\ req'[c] = r
      /\ \A b \in Clients \ {c} : pc'[b] = pc[b] /\ req'[b] = req[b]
  BY Goes DEF Steps
<1>2. Others(c)
  BY <1>1 DEF Others, IInv, Types
<1>3. Writes(c) /\ KeepsMilk(c)
  BY NothingWritten
<1>4. Locks(c) /\ state = "open" /\ pc[c] \notin Replied
  BY LockedUnder, OpenWhenBusy DEF Locks, Under, Replied
<1>5. Holds(c)
  BY <1>1, ConnectionAssumption DEF Holds, Under
<1>6. Relies(c) /\ CreatesOn(c)
  BY <1>1 DEF Relies, CreatesOn, Creates, Creating
<1>7. HearsOn(c)
  BY <1>1, <1>4 DEF HearsOn, IInv, RequestInv, ReplyInv
<1> QED
  BY <1>2, <1>3, <1>4, <1>5, <1>6, <1>7 DEF Kept, Frame, Own

\* It executes the statement it has taken the lock for, which may write ratings.
LEMMA UnderExecutes ==
  ASSUME IInv, NEW c \in Clients, NEW op, NEW step \in Under, At(c, op, step),
         NEW ok, NEW d, Execute(c, ok, d, "commit", req[c]),
         Safe(work, d), d.milk = work.milk, op # Generate, UNCHANGED <<issued, contended>>
  PROVE  Kept(c)
<1>1. step # "idle"
  BY DEF Under
<1>2. /\ state = "open" /\ pc[c] = step /\ req[c].op = op
      /\ IsRequest(req[c]) /\ Carries(req[c]) /\ Books
  BY <1>1, UnderWay, BooksKept
<1>3. pc[c] \notin Replied /\ "commit" \in Plain /\ dbLock = c
  BY <1>2, LockedUnder DEF Under, Replied, Plain
<1> QED
  BY <1>2, <1>3, ExecuteKeeps

\* A command comes in, that will want the lock.
LEMMA CallLocks ==
  ASSUME IInv, NEW c \in Clients, NEW op, NEW r, Call(c, op), ReadOn(c, "lock", r),
         IsRequest(r), Carries(r), UNCHANGED <<issued, contended>>
  PROVE  Kept(c)
<1>1. "lock" \in Plain
  BY DEF Plain, Steps, Under, Replied
<1>2. Books
  BY Called, BooksKept
<1> QED
  BY <1>1, <1>2, CallReads

-----------------------------------------------------------------------------
(***************************************************************************)
(* Brewing, the history, favorites and ratings.                            *)
(***************************************************************************)
\* A recipe or favorite is read, brewed and marked.
LEMMA BrewKeeps ==
  ASSUME IInv, NEW c \in Clients, NEW op, op \notin Carriers, NEW d, Harmless(work, d),
         UNCHANGED <<issued, contended>>,
         \/ Call(c, op) /\ \E x : ReadOn(c, "brew", Request(op, x, None, None))
         \/ At(c, op, "brew") /\ (ReadEnd(c) \/ ReadOn(c, "mark", req[c]))
         \/ At(c, op, "mark") /\ Execute(c, TRUE, d, "commit", req[c])
  PROVE  Kept(c)
<1>1. /\ {"brew", "mark"} \subseteq Plain \ {"commit"}
      /\ {"brew", "mark"} \subseteq Steps \ (Replied \cup Under \cup {"idle"})
      /\ op # Generate
  BY DEF Plain, Steps, Under, Replied, Carriers
<1>2. CASE Call(c, op) /\ \E x : ReadOn(c, "brew", Request(op, x, None, None))
  <2>1. PICK x : ReadOn(c, "brew", Request(op, x, None, None))
    BY <1>2
  <2>2. IsRequest(Request(op, x, None, None)) /\ Carries(Request(op, x, None, None)) /\ Books
    BY <1>2, RequestHas, Called, BooksKept
  <2> QED
    BY <1>1, <1>2, <2>1, <2>2, CallReads
<1>3. CASE At(c, op, "brew") /\ (ReadEnd(c) \/ ReadOn(c, "mark", req[c]))
  <2>1. IsRequest(req[c]) /\ Carries(req[c])
    BY <1>3, UnderWay
  <2> QED
    BY <1>1, <1>3, <2>1, AtReads, AtEnds
<1>4. CASE At(c, op, "mark") /\ Execute(c, TRUE, d, "commit", req[c])
  BY <1>1, <1>4, AtExecutes
<1> QED
  BY <1>2, <1>3, <1>4

\* The steps of brew.
LEMMA WsBrewKeeps == ASSUME IInv, NEW c \in Clients, WsBrew(c) PROVE Kept(c)
<1>1. Harmless(work, MarkRecipeBrewed(work, req[c].row))
  BY Working, MarkRecipeBrewedIsHarmless
<1>2. "brew" \notin Carriers
  BY DEF Carriers, Generate
<1> QED
  BY <1>1, <1>2, BrewKeeps DEF WsBrew

\* The steps of favorites/brew.
LEMMA WsFavoritesBrewKeeps ==
  ASSUME IInv, NEW c \in Clients, WsFavoritesBrew(c) PROVE Kept(c)
<1>1. Harmless(work, UpdateFavorite(work, req[c].row))
  BY Working, NothingIsHarmless DEF UpdateFavorite
<1>2. "favorites/brew" \notin Carriers
  BY DEF Carriers, Generate
<1> QED
  BY <1>1, <1>2, BrewKeeps DEF WsFavoritesBrew

\* The steps of history/clear.
LEMMA WsHistoryClearKeeps ==
  ASSUME IInv, NEW c \in Clients, WsHistoryClear(c) PROVE Kept(c)
<1> DEFINE op == "history/clear"
<1>1. op \notin Carriers /\ op # Generate
  BY DEF Carriers, Generate
<1>2. CASE /\ Call(c, op) /\ UNCHANGED <<issued, contended>>
           /\ \E keep \in BOOLEAN : ReadOn(c, "lock", Request(op, None, keep, None))
  BY <1>1, <1>2, RequestHas, CallLocks
<1>3. CASE /\ At(c, op, "locked") /\ UNCHANGED <<issued, contended>>
           /\ Execute(c, TRUE, ClearHistory(work, req[c].todo), "commit", req[c])
  <2>1. Harmless(work, ClearHistory(work, req[c].todo)) /\ "locked" \in Under
    BY Working, ClearHistoryIsHarmless DEF Under
  <2> QED
    BY <1>1, <1>3, <2>1, UnderExecutes DEF Harmless
<1> QED
  BY <1>2, <1>3 DEF WsHistoryClear

\* The steps of favorites/add.
LEMMA WsFavoritesAddKeeps ==
  ASSUME IInv, NEW c \in Clients, WsFavoritesAdd(c) PROVE Kept(c)
<1> DEFINE op == "favorites/add"
<1>1. /\ "favorite" \in Plain \ {"commit"} /\ "favorite" \in Steps \ (Replied \cup {"idle"})
      /\ op # Generate
  BY DEF Plain, Steps, Under, Replied, Generate
<1>2. CASE /\ Call(c, op) /\ UNCHANGED contended
           /\ \E r \in work.recipes, f \in Favorites \ issued :
                /\ issued' = issued \cup {f}
                /\ ReadOn(c, "favorite", Request(op, f, r, None))
  <2>1. PICK r \in work.recipes, f \in Favorites \ issued :
          issued' = issued \cup {f} /\ ReadOn(c, "favorite", Request(op, f, r, None))
    BY <1>2
  <2>2. r \in Recipes /\ f \in Issuable
    BY Working DEF Databases, Issuable
  <2>3. IsRequest(Request(op, f, r, None)) /\ Carries(Request(op, f, r, None))
    BY <2>2, RequestHas DEF Carries, Generate
  <2>4. Books
    BY <1>2, <2>1, <2>2, Called, KeyIssued
  <2> QED
    BY <1>1, <1>2, <2>1, <2>3, <2>4, CallReads
<1>3. CASE /\ At(c, op, "favorite") /\ UNCHANGED <<issued, contended>>
           /\ Execute(c, TRUE, AddFavorite(work, req[c].row, req[c].todo), "commit", req[c])
  <2>1. req[c].row \in Favorites /\ req[c].todo \in Recipes
    BY <1>3, UnderWay DEF Carries
  <2>2. Harmless(work, AddFavorite(work, req[c].row, req[c].todo))
    BY <2>1, Working, AddFavoriteIsHarmless
  <2> QED
    BY <1>1, <1>3, <2>2, AtExecutes
<1> QED
  BY <1>2, <1>3 DEF WsFavoritesAdd

\* The steps of favorites/remove.
LEMMA WsFavoritesRemoveKeeps ==
  ASSUME IInv, NEW c \in Clients, WsFavoritesRemove(c) PROVE Kept(c)
<1>1. PICK f \in Favorites : Update(c, "favorites/remove", RemoveFavorite(work, f))
  BY DEF WsFavoritesRemove
<1>2. Harmless(work, RemoveFavorite(work, f))
  BY Working, RemoveFavoriteIsHarmless
<1>3. "favorites/remove" \notin Carriers
  BY DEF Carriers, Generate
<1> QED
  BY <1>1, <1>2, <1>3, UpdateKeeps

\* The look at the row of a rating and the statement it decides on.
LEMMA SetRatingKeeps ==
  ASSUME IInv, NEW c \in Clients, NEW op \in {"recipe/rate", "favorites/update"},
         SetRating(c, op), UNCHANGED <<issued, contended>>,
         req[c].row \in Targets, req[c].todo[1] \in Stars,
         req[c].todo[2] \in Notes \cup {None}
  PROVE  Kept(c)
<1> DEFINE t == req[c].row
           to == req[c].todo
<1>1. op # Generate
  BY DEF Generate
<1>2. ASSUME At(c, op, "locked"), ReadOn(c, "rate", [req[c] EXCEPT !.seen = Rated(work, t)])
      PROVE  Kept(c)
  <2> DEFINE r == [req[c] EXCEPT !.seen = Rated(work, t)]
  <2>1. /\ pc[c] \in Under /\ req[c].op = op /\ IsRequest(req[c]) /\ Carries(req[c])
        /\ Books /\ "rate" \in Under
    BY <1>2, UnderWay, BooksKept DEF Under
  <2>2. IsRequest(r) /\ r.op = op /\ r.row = t /\ r.todo = to /\ (r.seen <=> Rated(work, t))
    BY <2>1, SeenChanged
  <2>3. Carries(r)
    BY <2>1, <2>2 DEF Carries, Generate
  <2> HIDE DEF r
  <2>4. /\ Go(c, "rate", r)
        /\ UNCHANGED <<state, migration, work, disk, writers, dbLock, llm>>
    BY <1>2 DEF ReadOn, r
  <2>5. Writes(c) /\ KeepsMilk(c) /\ Saves(c)
    BY <2>4, NothingWritten DEF Saves
  <2>6. r.seen <=> Rated(work', r.row)
    BY <2>2, <2>4 DEF Rated
  <2> QED
    BY <2>1, <2>2, <2>3, <2>4, <2>5, <2>6, UnderKeeps
<1>3. CASE /\ At(c, op, "rate")
           /\ \/ Execute(c, TRUE, UpdateRating(work, t, to[1], to[2]), "commit", req[c])
              \/ Execute(c, ~Rated(work, t), InsertRating(work, t, to[1], to[2]),
                         "commit", req[c])
  <2> DEFINE d == UpdateRating(work, t, to[1], to[2])
             e == InsertRating(work, t, to[1], to[2])
             ok == ~Rated(work, t)
  <2>1. /\ Safe(work, d) /\ d.milk = work.milk
        /\ Safe(work, e) /\ e.milk = work.milk /\ "rate" \in Under
    BY Working, UpdateRatingIsSafe, InsertRatingIsSafe DEF Under
  <2> HIDE DEF d, e, ok
  <2>2. At(c, op, "rate") /\ (Execute(c, TRUE, d, "commit", req[c]) \/ Execute(c, ok, e, "commit", req[c]))
    BY <1>3 DEF d, e, ok
  <2> QED
    BY <1>1, <2>1, <2>2, UnderExecutes
<1> QED
  BY <1>2, <1>3 DEF SetRating

\* The steps of recipe/rate.
LEMMA WsRecipeRateKeeps ==
  ASSUME IInv, NEW c \in Clients, WsRecipeRate(c) PROVE Kept(c)
<1> DEFINE op == "recipe/rate"
<1>1. CASE /\ Call(c, op) /\ UNCHANGED <<issued, contended>>
           /\ \E t \in Targets, stars \in Stars, note \in Notes \cup {None} :
                ReadOn(c, "lock", Request(op, t, <<stars, note>>, None))
  <2>1. PICK t \in Targets, stars \in Stars, note \in Notes \cup {None} :
          ReadOn(c, "lock", Request(op, t, <<stars, note>>, None))
    BY <1>1
  <2>2. /\ IsRequest(Request(op, t, <<stars, note>>, None))
        /\ Carries(Request(op, t, <<stars, note>>, None))
    BY RequestHas DEF Carries, Generate
  <2> QED
    BY <1>1, <2>1, <2>2, CallLocks
<1>2. CASE SetRating(c, op) /\ UNCHANGED <<issued, contended>>
  <2>1. req[c].op = op /\ Carries(req[c])
    BY <1>2 DEF SetRating, At, IInv, Types
  <2>2. /\ req[c].row \in Targets /\ req[c].todo[1] \in Stars
        /\ req[c].todo[2] \in Notes \cup {None}
    BY <2>1 DEF Carries
  <2> QED
    BY <1>2, <2>2, SetRatingKeeps
<1> QED
  BY <1>1, <1>2 DEF WsRecipeRate

\* The steps of recipe/unrate.
LEMMA WsRecipeUnrateKeeps ==
  ASSUME IInv, NEW c \in Clients, WsRecipeUnrate(c) PROVE Kept(c)
<1> DEFINE op == "recipe/unrate"
<1>1. op \notin Carriers /\ op # Generate
  BY DEF Carriers, Generate
<1>2. CASE /\ Call(c, op) /\ UNCHANGED <<issued, contended>>
           /\ \E t \in Targets : ReadOn(c, "lock", Request(op, t, None, None))
  BY <1>1, <1>2, RequestHas, CallLocks
<1>3. CASE /\ At(c, op, "locked") /\ UNCHANGED <<issued, contended>>
           /\ Execute(c, TRUE, ClearRating(work, req[c].row), "commit", req[c])
  <2>1. /\ Safe(work, ClearRating(work, req[c].row))
        /\ ClearRating(work, req[c].row).milk = work.milk /\ "locked" \in Under
    BY Working, ClearRatingIsSafe DEF Under
  <2> QED
    BY <1>1, <1>3, <2>1, UnderExecutes
<1> QED
  BY <1>2, <1>3 DEF WsRecipeUnrate

\* A name is updated and committed under the lock; a note is rated with the
\* stars read under it.
LEMMA WsFavoritesUpdateKeeps ==
  ASSUME IInv, NEW c \in Clients, WsFavoritesUpdate(c) PROVE Kept(c)
<1> DEFINE op == "favorites/update"
           f == req[c].row
           noted == req[c].todo
           part == noted[3]
           Rate == {r \in work.ratings : r.target = f}
<1>1. UNCHANGED <<issued, contended>> /\ op # Generate /\ {"locked", "renamed"} \subseteq Under
  BY DEF WsFavoritesUpdate, Generate, Under
<1>2. ASSUME NEW g \in Favorites, NEW stars \in Stars \cup {None},
             NEW note \in Notes \cup {None}, NEW what
      PROVE  LET r == Request(op, g, <<stars, note, what>>, None)
             IN IsRequest(r) /\ Carries(r) /\ r.op = op
  BY RequestHas DEF Carries, Generate
<1>3. ASSUME NEW step, step # "idle", At(c, op, step)
      PROVE  /\ state = "open" /\ pc[c] = step /\ Books
             /\ IsRequest(req[c]) /\ Carries(req[c]) /\ req[c].op = op
             /\ f \in Favorites /\ noted[1] \in Stars \cup {None}
             /\ noted[2] \in Notes \cup {None}
  <2>1. /\ state = "open" /\ pc[c] = step /\ IsRequest(req[c]) /\ Carries(req[c]) /\ req[c].op = op
        /\ calls' \in 0..MaxCalls
    BY <1>3, UnderWay
  <2>2. Books
    BY <1>1, <2>1, BooksKept
  <2> QED
    BY <2>1, <2>2 DEF Carries
<1>4. CASE /\ Call(c, op)
           /\ \E g \in Favorites, note \in Notes \cup {None}, what \in {"name", "note", "both"} :
                ReadOn(c, "lock", Request(op, g, <<None, note, what>>, None))
  <2>1. PICK g \in Favorites, note \in Notes \cup {None}, what \in {"name", "note", "both"} :
          ReadOn(c, "lock", Request(op, g, <<None, note, what>>, None))
    BY <1>4
  <2> DEFINE r == Request(op, g, <<None, note, what>>, None)
  <2>2. IsRequest(r) /\ Carries(r)
    BY <1>2
  <2> HIDE DEF r
  <2>3. ReadOn(c, "lock", r)
    BY <2>1 DEF r
  <2> QED
    BY <1>1, <1>4, <2>2, <2>3, CallLocks
<1>5. CASE /\ At(c, op, "locked")
           /\ Execute(c, TRUE, UpdateFavorite(work, f),
                      IF part = "name" THEN "commit" ELSE "renamed", req[c])
  <2> DEFINE step == IF part = "name" THEN "commit" ELSE "renamed"
  <2>1. Execute(c, TRUE, work, step, req[c])
    BY <1>5 DEF UpdateFavorite
  <2>2. step \in {"commit", "renamed"}
    OBVIOUS
  <2> HIDE DEF step, part, Rate
  <2>3. Harmless(work, work) /\ References(work)
    BY Working, NothingIsHarmless DEF IInv, SetupInv, MigrationOnCourse
  <2>4. pc[c] \in Under /\ IsRequest(req[c]) /\ Carries(req[c]) /\ Books
    BY <1>1, <1>3, <1>5
  <2>5. CASE step = "commit"
    BY <1>1, <1>5, <2>1, <2>3, <2>5, UnderExecutes DEF Harmless
  <2>6. CASE step = "renamed"
    <3>1. /\ work' = work /\ writers' = writers \cup {c} /\ Go(c, "renamed", req[c])
          /\ UNCHANGED <<state, migration, disk, dbLock, llm>>
      BY <2>1, <2>3, <2>6 DEF Execute
    <3>2. Writes(c) /\ KeepsMilk(c) /\ Saves(c)
      BY <3>1, NothingWritten DEF Saves
    <3> QED
      BY <1>1, <2>4, <3>1, <3>2, UnderKeeps
  <2> QED
    BY <2>2, <2>5, <2>6
<1>6. ASSUME NEW step \in {"locked", "renamed"}, At(c, op, step), dbLock' = NoClient,
             NEW stars \in Stars \cup {None},
             Go(c, "lock", Request(op, f, <<stars, noted[2], "note">>, None)),
             work' = work, Saves(c), UNCHANGED <<state, migration, llm>>
      PROVE  Kept(c)
  <2> DEFINE r == Request(op, f, <<stars, noted[2], "note">>, None)
  <2>1. pc[c] \in Under /\ Books /\ f \in Favorites /\ noted[2] \in Notes \cup {None}
    BY <1>1, <1>3, <1>6
  <2>2. IsRequest(r) /\ Carries(r)
    BY <1>2, <2>1
  <2> HIDE DEF r
  <2>3. Go(c, "lock", r)
    BY <1>6 DEF r
  <2> QED
    BY <1>6, <2>1, <2>2, <2>3, ReleaseKeeps
<1>7. CASE /\ At(c, op, "renamed")
           /\ disk' = work /\ writers' = {} /\ dbLock' = NoClient
           /\ Go(c, "lock", Request(op, f, <<None, noted[2], "note">>, None))
           /\ UNCHANGED <<state, migration, work, llm>>
  <2>1. Saves(c)
    BY <1>7 DEF Saves
  <2> QED
    BY <1>6, <1>7, <2>1
<1>8. CASE /\ At(c, op, "locked")
           /\ \/ ReadEnd(c)
              \/ \E r \in Rate :
                   /\ Go(c, "lock", Request(op, f, <<r.stars, noted[2], "note">>, None))
                   /\ dbLock' = NoClient
                   /\ UNCHANGED <<state, migration, work, disk, writers, llm>>
  <2>1. CASE ReadEnd(c)
    BY <1>1, <1>8, <2>1, AtEnds
  <2>2. ASSUME NEW r \in Rate,
               Go(c, "lock", Request(op, f, <<r.stars, noted[2], "note">>, None)),
               dbLock' = NoClient, UNCHANGED <<state, migration, work, disk, writers, llm>>
        PROVE  Kept(c)
    <3>1. r.stars \in Stars
      BY Working DEF Databases
    <3>2. Saves(c)
      BY <2>2 DEF Saves
    <3> HIDE DEF Rate
    <3> QED
      BY <1>6, <1>8, <2>2, <3>1, <3>2
  <2> QED
    BY <1>8, <2>1, <2>2
<1>9. CASE req[c].op = op /\ noted[1] # None /\ SetRating(c, op)
  <2>1. pc[c] \in {"locked", "rate"} /\ At(c, op, pc[c])
    BY <1>9 DEF SetRating, At
  <2>2. f \in Targets /\ noted[1] \in Stars /\ noted[2] \in Notes \cup {None}
    BY <1>3, <1>9, <2>1 DEF Targets
  <2> QED
    BY <1>1, <1>9, <2>2, SetRatingKeeps
<1> QED
  BY <1>4, <1>5, <1>7, <1>8, <1>9 DEF WsFavoritesUpdate

-----------------------------------------------------------------------------
(***************************************************************************)
(* Presets, settings, extras, capabilities.                                *)
(***************************************************************************)
\* The steps of presets/add.
LEMMA WsPresetsAddKeeps ==
  ASSUME IInv, NEW c \in Clients, WsPresetsAdd(c) PROVE Kept(c)
<1>1. PICK p \in UserPresets : Insert(c, "presets/add", p, AddPreset(work, p))
  BY DEF WsPresetsAdd
<1>2. Harmless(work, AddPreset(work, p)) /\ p \in Issuable
  BY Working, AddPresetIsHarmless DEF Issuable, Presets
<1>3. "presets/add" \notin Carriers
  BY DEF Carriers, Generate
<1> QED
  BY <1>1, <1>2, <1>3, InsertKeeps

\* What is changed is a preset of the user's.
LEMMA PresetChangeKeeps ==
  ASSUME IInv, NEW c \in Clients, NEW op \in {"presets/update", "presets/delete"},
         NEW d, PresetChange(c, op, d),
         At(c, op, "preset") /\ req[c].row \in UserPresets => Harmless(work, d)
  PROVE  Kept(c)
<1>1. /\ UNCHANGED <<issued, contended>> /\ op # Generate
      /\ "preset" \in Plain \ {"commit"} /\ "preset" \in Steps \ (Replied \cup {"idle"})
  BY DEF PresetChange, Generate, Plain, Steps, Under, Replied
<1>2. CASE /\ Call(c, op)
           /\ \E p \in Presets : Writable(p) /\ ReadOn(c, "preset", Request(op, p, None, None))
  <2>1. PICK p \in Presets : Writable(p) /\ ReadOn(c, "preset", Request(op, p, None, None))
    BY <1>2
  <2>2. p \in UserPresets
    BY <2>1 DEF Presets, Writable
  <2>3. IsRequest(Request(op, p, None, None)) /\ Carries(Request(op, p, None, None))
    BY <2>2, RequestHas DEF Carries, Generate
  <2>4. Books
    BY <1>1, <1>2, Called, BooksKept
  <2> QED
    BY <1>1, <1>2, <2>1, <2>3, <2>4, CallReads
<1>3. CASE At(c, op, "preset") /\ Execute(c, TRUE, d, "commit", req[c])
  <2>1. Harmless(work, d)
    BY <1>3, UnderWay DEF Carries
  <2> QED
    BY <1>1, <1>3, <2>1, AtExecutes
<1> QED
  BY <1>2, <1>3 DEF PresetChange

\* The steps of presets/update.
LEMMA WsPresetsUpdateKeeps ==
  ASSUME IInv, NEW c \in Clients, WsPresetsUpdate(c) PROVE Kept(c)
BY Working, NothingIsHarmless, PresetChangeKeeps DEF WsPresetsUpdate, UpdatePreset

\* The steps of presets/delete.
LEMMA WsPresetsDeleteKeeps ==
  ASSUME IInv, NEW c \in Clients, WsPresetsDelete(c) PROVE Kept(c)
BY Working, DeletePresetIsHarmless, PresetChangeKeeps DEF WsPresetsDelete

\* The steps of settings/set.
LEMMA WsSettingsSetKeeps ==
  ASSUME IInv, NEW c \in Clients, WsSettingsSet(c) PROVE Kept(c)
<1>1. PICK k \in SettingKeys, v \in Texts : Update(c, "settings/set", SetSetting(work, k, v))
  BY DEF WsSettingsSet
<1>2. Harmless(work, SetSetting(work, k, v))
  BY Working, SetSettingIsHarmless
<1>3. "settings/set" \notin Carriers
  BY DEF Carriers, Generate
<1> QED
  BY <1>1, <1>2, <1>3, UpdateKeeps

\* The steps of preferences/set.
LEMMA WsPreferencesSetKeeps ==
  ASSUME IInv, NEW c \in Clients, WsPreferencesSet(c) PROVE Kept(c)
<1>1. PICK k \in PrefKeys, v \in Texts : Update(c, "preferences/set", SetPreference(work, k, v))
  BY DEF WsPreferencesSet
<1>2. Harmless(work, SetPreference(work, k, v))
  BY Working, SetPreferenceIsHarmless
<1>3. "preferences/set" \notin Carriers
  BY DEF Carriers, Generate
<1> QED
  BY <1>1, <1>2, <1>3, UpdateKeeps

\* What is left of the list gets shorter with each item.
LEMMA WsExtrasSetKeeps ==
  ASSUME IInv, NEW c \in Clients, WsExtrasSet(c) PROVE Kept(c)
<1> DEFINE op == "extras/set"
           category == req[c].row
           todo == req[c].todo
<1>1. /\ UNCHANGED <<issued, contended>> /\ op # Generate
      /\ {"items", "commit"} \subseteq Plain
      /\ "items" \in Steps \ (Replied \cup Under \cup {"idle"})
  BY DEF WsExtrasSet, Generate, Plain, Steps, Under, Replied
<1>2. CASE /\ Call(c, op)
           /\ \E k \in Categories, list \in {<<>>} \cup (Items \X Items) :
                Execute(c, TRUE, DeleteExtras(work, k), "items", Request(op, k, list, None))
  <2>1. PICK k \in Categories, list \in {<<>>} \cup (Items \X Items) :
          Execute(c, TRUE, DeleteExtras(work, k), "items", Request(op, k, list, None))
    BY <1>2
  <2>2. list \in Seq(Items)
    <3>1. CASE list = <<>>
      BY <3>1
    <3>2. CASE list \in Items \X Items
      <4>1. PICK i \in Items, j \in Items : list = <<i, j>>
        BY <3>2
      <4> QED
        BY <4>1
    <3> QED
      BY <3>1, <3>2
  <2> DEFINE r == Request(op, k, list, None)
  <2>3. IsRequest(r) /\ r.op = op /\ r.row = k /\ r.todo = list
    BY RequestHas
  <2>4. Carries(r)
    BY <2>2, <2>3 DEF Carries, Generate
  <2>5. Harmless(work, DeleteExtras(work, k))
    BY Working, DeleteExtrasIsHarmless
  <2>6. Books /\ state = "open" /\ pc[c] \notin Replied \cup Under
    BY <1>1, <1>2, Called, BooksKept
  <2> HIDE DEF r
  <2>7. Execute(c, TRUE, DeleteExtras(work, k), "items", r)
    BY <2>1 DEF r
  <2> QED
    BY <1>1, <2>3, <2>4, <2>5, <2>6, <2>7, HarmlessKeeps
<1>3. ASSUME At(c, op, "items"), todo # <<>>,
             Execute(c, <<category, Head(todo)>> \notin work.extras,
                     InsertExtra(work, category, Head(todo)), "items",
                     [req[c] EXCEPT !.todo = Tail(todo)])
      PROVE  Kept(c)
  <2>1. /\ state = "open" /\ pc[c] = "items" /\ req[c].op = op /\ Books
        /\ IsRequest(req[c]) /\ category \in Categories /\ todo \in Seq(Items)
    BY <1>1, <1>3, UnderWay, BooksKept DEF Carries
  <2>2. Head(todo) \in Items /\ Tail(todo) \in Seq(Items)
    BY <1>3, <2>1
  <2> DEFINE ok == <<category, Head(todo)>> \notin work.extras
             d == InsertExtra(work, category, Head(todo))
             rest == Tail(todo)
             r == [req[c] EXCEPT !.todo = rest]
  <2>3. Harmless(work, d)
    BY <2>1, <2>2, Working, InsertExtraIsHarmless
  <2> HIDE DEF rest
  <2>4. IsRequest(r) /\ r.op = op /\ r.row = category /\ r.todo = rest
    BY <2>1, TodoChanged
  <2>5. Carries(r)
    BY <2>1, <2>2, <2>4 DEF Carries, Generate, rest
  <2>6. pc[c] \notin Replied \cup Under
    BY <2>1 DEF Replied, Under
  <2> HIDE DEF ok, d, r
  <2>7. Execute(c, ok, d, "items", r)
    BY <1>3 DEF ok, d, r, rest
  <2> QED
    BY <1>1, <2>1, <2>3, <2>4, <2>5, <2>6, <2>7, HarmlessKeeps
<1>4. CASE At(c, op, "items") /\ ReadOn(c, "commit", req[c])
  <2>1. IsRequest(req[c]) /\ Carries(req[c]) /\ req[c].op # Generate
    BY <1>1, <1>4, UnderWay
  <2> QED
    BY <1>1, <1>4, <2>1, AtReads
<1> QED
  BY <1>2, <1>3, <1>4 DEF WsExtrasSet

\* The callback of the connection manager.
LEMMA ProbeCapabilitiesKeeps ==
  ASSUME IInv, NEW c \in Clients, ProbeCapabilities(c) PROVE Kept(c)
<1> DEFINE op == "probe"
<1>1. CASE /\ Call(c, op) /\ UNCHANGED <<issued, contended>>
           /\ \E e \in Entries : ReadOn(c, "lock", Request(op, e, None, None))
  <2>1. PICK e \in Entries : ReadOn(c, "lock", Request(op, e, None, None))
    BY <1>1
  <2>2. IsRequest(Request(op, e, None, None)) /\ Carries(Request(op, e, None, None))
    BY RequestHas DEF Carries, Generate
  <2> QED
    BY <1>1, <2>1, <2>2, CallLocks
<1>2. CASE /\ At(c, op, "locked") /\ UNCHANGED <<issued, contended>>
           /\ Execute(c, TRUE, SaveCapabilities(work, req[c].row), "commit", req[c])
  <2>1. req[c].row \in Entries
    BY <1>2, UnderWay DEF Carries
  <2>2. /\ Harmless(work, SaveCapabilities(work, req[c].row))
        /\ "locked" \in Under /\ op # Generate
    BY <2>1, Working, SaveCapabilitiesIsHarmless DEF Under, Generate
  <2> QED
    BY <1>2, <2>2, UnderExecutes DEF Harmless
<1> QED
  BY <1>1, <1>2 DEF ProbeCapabilities

-----------------------------------------------------------------------------
(***************************************************************************)
(* Profiles.                                                               *)
(***************************************************************************)
\* The steps of profiles/add.
LEMMA WsProfilesAddKeeps ==
  ASSUME IInv, NEW c \in Clients, WsProfilesAdd(c) PROVE Kept(c)
<1>1. PICK p \in Profiles : Insert(c, "profiles/add", p, AddProfile(work, p))
  BY DEF WsProfilesAdd
<1>2. Harmless(work, AddProfile(work, p)) /\ p \in Issuable
  BY Working, AddProfileIsHarmless DEF Issuable
<1>3. "profiles/add" \notin Carriers
  BY DEF Carriers, Generate
<1> QED
  BY <1>1, <1>2, <1>3, InsertKeeps

\* The steps of profiles/delete.
LEMMA WsProfilesDeleteKeeps ==
  ASSUME IInv, NEW c \in Clients, WsProfilesDelete(c) PROVE Kept(c)
<1>1. PICK p \in Profiles : Update(c, "profiles/delete", DeleteProfile(work, p))
  BY DEF WsProfilesDelete
<1>2. Harmless(work, DeleteProfile(work, p))
  BY Working, DeleteProfileIsHarmless
<1>3. "profiles/delete" \notin Carriers
  BY DEF Carriers, Generate
<1> QED
  BY <1>1, <1>2, <1>3, UpdateKeeps

\* The first statement leaves no profile active, and an activation that comes
\* upon another is contended; the second one finds no profile active unless it
\* is contended.
LEMMA WsProfilesActivateKeeps ==
  ASSUME IInv, NEW c \in Clients, WsProfilesActivate(c) PROVE Kept(c)
<1> DEFINE op == "profiles/activate"
<1>1. op \notin Carriers /\ op # Generate
  BY DEF Carriers, Generate
<1>2. ASSUME NEW p \in Profiles, Call(c, op), issued' = issued,
             Execute(c, TRUE, DeactivateProfiles(work), "activate", Request(op, p, None, None)),
             contended' = (contended \/ \E b \in Clients : Activates(b))
      PROVE  Kept(c)
  <2> DEFINE r == Request(op, p, None, None)
             d == DeactivateProfiles(work)
  <2>1. IsRequest(r) /\ Carries(r) /\ r.op = op
    BY <1>1, RequestHas
  <2>2. Harmless(work, d) /\ d.active = {}
    BY Working, DeactivateProfilesIsHarmless
  <2>3. state = "open" /\ pc[c] = "idle" /\ calls' \in 0..MaxCalls
    BY <1>2, Called
  <2>4. Books
    BY <1>2, <2>3 DEF Books, IInv, Types, TypeOK
  <2> HIDE DEF r, d
  <2>5. Execute(c, TRUE, d, "activate", r)
    BY <1>2 DEF r, d
  <2>6. CASE ~References(d)
    BY <2>3, <2>4, <2>5, <2>6, EndKeeps DEF Execute
  <2>7. CASE References(d)
    <3>1. /\ work' = d /\ writers' = writers \cup {c} /\ Go(c, "activate", r)
          /\ UNCHANGED <<state, migration, disk, dbLock, llm>>
      BY <2>5, <2>7 DEF Execute
    <3>2. /\ pc' \in [Clients -> Steps] /\ DOMAIN req' = Clients
          /\ pc'[c] = "activate" /\ req'[c] = r
          /\ \A b \in Clients \ {c} : pc'[b] = pc[b] /\ req'[b] = req[b]
      BY <3>1, Goes DEF Steps
    <3>3. Others(c)
      BY <3>1, <3>2 DEF Others, IInv, Types
    <3>4. Writes(c)
      BY <2>2, <2>7, <3>1 DEF Writes, Harmless, Safe, Spares
    <3>5. KeepsMilk(c) /\ Locks(c) /\ Saves(c)
      BY <2>2, <3>1 DEF KeepsMilk, Locks, Saves, Harmless
    <3>6. Holds(c)
      BY <2>3, <3>1, <3>2, LockedUnder DEF Holds, Under
    <3>7. Relies(c)
      BY <1>2, <2>1, <2>2, <3>1, <3>2 DEF Relies
    <3>8. CreatesOn(c) /\ HearsOn(c)
      BY <2>3, <3>1, <3>2 DEF CreatesOn, Creates, Creating, HearsOn, Replied,
                              IInv, RequestInv, ReplyInv
    <3> QED
      BY <2>3, <2>4, <3>1, <3>3, <3>4, <3>5, <3>6, <3>7, <3>8 DEF Kept, Frame, Own
  <2> QED
    BY <2>6, <2>7
<1>3. ASSUME At(c, op, "activate"), UNCHANGED <<issued, contended>>,
             Execute(c, TRUE, ActivateProfile(work, req[c].row), "commit", req[c])
      PROVE  Kept(c)
  <2> DEFINE p == req[c].row
             d == ActivateProfile(work, p)
  <2>1. /\ state = "open" /\ pc[c] = "activate" /\ req[c].op = op
        /\ IsRequest(req[c]) /\ Carries(req[c]) /\ Books
    BY <1>3, UnderWay, BooksKept
  <2>2. /\ d \in Databases /\ d = [work EXCEPT !.active = d.active]
        /\ d.active \subseteq work.active \cup {p}
    BY Working, ActivateProfileActivates
  <2> HIDE DEF d
  <2>3. Execute(c, TRUE, d, "commit", req[c])
    BY <1>3 DEF d
  <2>4. CASE ~References(d)
    BY <2>1, <2>3, <2>4, EndKeeps DEF Execute
  <2>5. CASE References(d)
    <3>1. /\ work' = d /\ writers' = writers \cup {c} /\ Go(c, "commit", req[c])
          /\ UNCHANGED <<state, migration, disk, dbLock, llm>>
      BY <2>3, <2>5 DEF Execute
    <3>2. /\ d.version = work.version /\ d.migrated = work.migrated
          /\ d.presets = work.presets /\ d.ratings = work.ratings /\ d.milk = work.milk
          /\ d.sessions = work.sessions /\ d.recipes = work.recipes
      BY <2>2, Working DEF Databases
    <3>3. Writes(c)
      BY <2>1, <2>2, <2>5, <3>1, <3>2 DEF Writes, Activates, HasSession, Stored
    <3>4. KeepsMilk(c) /\ Saves(c)
      BY <3>1, <3>2 DEF KeepsMilk, Saves
    <3>5. "commit" \in Plain /\ pc[c] \notin Replied
      BY <2>1 DEF Plain, Replied
    <3> QED
      BY <1>1, <2>1, <3>1, <3>3, <3>4, <3>5, PlainKeeps
  <2> QED
    BY <2>4, <2>5
<1> QED
  BY <1>2, <1>3 DEF WsProfilesActivate

-----------------------------------------------------------------------------
\* Every step of a request leaves the others what they rely on, and comes to
\* where it may rely on what it has done.
LEMMA RequestStepKeeps ==
  ASSUME IInv, NEW c \in Clients, RequestStep(c) PROVE Kept(c)
<1>1. CASE SommelierStep(c)
  BY <1>1, WsBeansAddKeeps, WsBeansUpdateKeeps, WsBeansDeleteKeeps, WsHoppersAssignKeeps,
     WsMilkSetKeeps, WsMilkSetAvailableKeeps, WsGenerateKeeps, WsBrewKeeps,
     WsHistoryClearKeeps, WsFavoritesAddKeeps, WsFavoritesRemoveKeeps,
     WsFavoritesUpdateKeeps, WsFavoritesBrewKeeps, WsRecipeRateKeeps,
     WsRecipeUnrateKeeps, WsPresetsAddKeeps, WsPresetsUpdateKeeps,
     WsPresetsDeleteKeeps, WsSettingsSetKeeps, WsPreferencesSetKeeps,
     WsExtrasSetKeeps, ProbeCapabilitiesKeeps, WsProfilesAddKeeps,
     WsProfilesUpdateKeeps, WsProfilesDeleteKeeps, WsProfilesActivateKeeps
     DEF SommelierStep
<1> QED
  BY <1>1, AcquireLockKeeps, CommitKeeps, AnswerKeeps, StatementRaisesKeeps, PanelStepKeeps
     DEF RequestStep

-----------------------------------------------------------------------------
(***************************************************************************)
(* The invariant.                                                          *)
(***************************************************************************)
\* A step that keeps to Frame and Own keeps the invariant.
LEMMA KeptInvariant ==
  ASSUME IInv, NEW c \in Clients, Kept(c)
  PROVE  IInv'
<1> USE DEF Kept
<1>1. /\ state = "open" /\ state' = state /\ migration' = migration
      /\ pc' \in [Clients -> Steps] /\ DOMAIN req' = Clients /\ DOMAIN llm' = Clients
      /\ \A b \in Clients \ {c} : pc'[b] = pc[b] /\ req'[b] = req[b] /\ llm'[b] = llm[b]
  BY DEF Frame, Others
<1>2. work' \in Databases /\ disk' \in Databases
  BY Working DEF Frame, Writes, Saves
<1>3. Types'
  <2>1. /\ writers' \subseteq Clients \cup {Setup} /\ dbLock' \in Clients \cup {NoClient}
        /\ migration' \in [due : SUBSET Statements, failed : SUBSET Statements]
    BY <1>1 DEF Frame, Locks, Saves, IInv, Types, TypeOK
  <2>2. /\ issued' \subseteq Issuable /\ calls' \in 0..MaxCalls /\ contended' \in BOOLEAN
    BY DEF Frame, Books
  <2>3. ASSUME NEW b \in Clients
        PROVE  /\ pc'[b] \in Under => dbLock' = b
               /\ dbLock' = b => pc'[b] \in Under \cup {"commit"}
    <3>1. CASE b = c
      BY <3>1 DEF Own, Holds
    <3>2. CASE b # c
      BY <1>1, <3>2, LockedUnder, ConnectionAssumption DEF Frame, Locks
    <3> QED
      BY <3>1, <3>2
  <2>4. \A b \in Clients : IsRequest(req'[b]) /\ Carries(req'[b])
    <3>1. \A b \in Clients \ {c} : IsRequest(req'[b]) /\ Carries(req'[b])
      BY <1>1 DEF IInv, Types
    <3>2. IsRequest(req'[c]) /\ Carries(req'[c])
      BY DEF Own, Relies
    <3> QED
      BY <3>1, <3>2
  <2>5. state' \in {"closed", "migrating", "seeding", "open"}
    BY <1>1
  <2>6. TypeOK'
    BY <1>1, <1>2, <2>1, <2>2, <2>3, <2>5 DEF TypeOK, Under
  <2> QED
    BY <1>1, <2>4, <2>6 DEF Types, IsRequest, Carries
<1>4. IdleUnlessOpen'
  BY <1>1 DEF IdleUnlessOpen
<1>5. SetupInv'
  <2>1. /\ Leftover(disk) /\ References(work) /\ SystemPresets \subseteq work.presets
        /\ VersionTold(work) /\ VersionTold(disk) /\ work.version = LastVersion
    BY <1>1 DEF IInv, SetupInv, MigrationOnCourse, SchemaComplete, SystemPresetsStay
  <2>2. Leftover(work)
    BY <2>1, Working DEF Leftover, PresetsWhole
  <2>3. Leftover(disk')
    BY <2>1, <2>2 DEF Frame, Saves
  <2>4. References(work') /\ SystemPresets \subseteq work'.presets
        /\ work'.version = LastVersion /\ work'.migrated = work.migrated
    BY <2>1 DEF Frame, Writes
  <2>5. VersionTold(work)'
    BY <1>1, <2>1, <2>4 DEF VersionTold, Above
  <2>6. VersionTold(disk)'
    BY <1>1, <2>1 DEF VersionTold, Above, Frame, Saves
  <2> QED
    BY <1>1, <2>3, <2>4, <2>5, <2>6
       DEF SetupInv, MigrationOnCourse, SchemaComplete, SystemPresetsStay, Leftover,
           PresetsWhole, References
<1>6. UpsertsSeeTheRow'
  <2>1. ASSUME NEW b \in Clients, pc'[b] = "rate"
        PROVE  req'[b].seen <=> Rated(work', req'[b].row)
    <3>1. CASE b = c
      BY <2>1, <3>1 DEF Own, Relies
    <3>2. CASE b # c
      <4>1. pc[b] = "rate" /\ req'[b] = req[b]
        BY <1>1, <2>1, <3>2
      <4>2. dbLock = b
        BY <4>1, LockedUnder DEF Under
      <4>3. work'.ratings = work.ratings
        BY <3>2, <4>2 DEF Frame, Writes
      <4> QED
        BY <4>1, <4>3 DEF IInv, RequestInv, UpsertsSeeTheRow, Rated
    <3> QED
      BY <3>1, <3>2
  <2> QED
    BY <2>1 DEF UpsertsSeeTheRow, Rated
<1>7. AnswerIsSaved'
  <2>1. ASSUME NEW b \in Clients, pc'[b] = "answer"
        PROVE  b \notin writers'
    <3>1. CASE b = c
      BY <2>1, <3>1 DEF Own, Relies
    <3>2. CASE b # c
      BY <1>1, <2>1, <3>2 DEF Frame, Saves, IInv, RequestInv, AnswerIsSaved
    <3> QED
      BY <3>1, <3>2
  <2> QED
    BY <2>1 DEF AnswerIsSaved
<1>8. ActiveInv'
  <2>1. SUFFICES ASSUME ~contended'
                 PROVE  OneActive(work') /\ OneActive(disk') /\ OneActivates'
    BY DEF ActiveInv, OneActive
  <2>2. ~contended /\ OneActive(work) /\ OneActive(disk) /\ OneActivates
    BY <2>1 DEF Frame, Books, IInv, RequestInv, ActiveInv
  <2>3. \/ work'.active \subseteq work.active
        \/ Activates(c) /\ work.active = {} /\ work'.active \subseteq {req[c].row}
    <3>1. \/ work'.active \subseteq work.active
          \/ Activates(c) /\ work'.active \subseteq work.active \cup {req[c].row}
      BY DEF Frame, Writes
    <3>2. Activates(c) => work.active = {}
      BY <2>2 DEF OneActivates
    <3> QED
      BY <3>1, <3>2
  <2>4. OneActive(work') /\ OneActive(disk')
    BY <2>2, <2>3 DEF Frame, Saves, OneActive
  <2>5. ASSUME NEW b \in Clients, pc'[b] = "activate"
        PROVE  work'.active = {} /\ (b # c => Activates(b))
    <3>1. CASE b = c
      BY <2>5, <3>1 DEF Own, Relies
    <3>2. CASE b # c
      <4>1. Activates(b)
        BY <1>1, <2>5, <3>2 DEF Activates
      <4>2. work.active = {} /\ ~Activates(c)
        BY <2>2, <3>2, <4>1 DEF OneActivates
      <4> QED
        BY <2>3, <4>1, <4>2
    <3> QED
      BY <3>1, <3>2
  <2>6. pc'[c] = "activate" => \A b \in Clients : ~Activates(b)
    BY <2>1 DEF Own, Relies
  <2>7. \A a, b \in Clients : pc'[a] = "activate" /\ pc'[b] = "activate" => a = b
    BY <2>2, <2>5, <2>6 DEF OneActivates
  <2> QED
    BY <2>4, <2>5, <2>7 DEF OneActivates, Activates
<1>9. CreationInv'
  <2>1. \A s \in Sessions : HasSession(work, s) \/ HasSession(disk, s) => s \in issued
    BY DEF IInv, RequestInv, CreationInv
  <2>2. \A s : HasSession(work', s) =>
          \/ HasSession(work, s) /\ Stored(work', s) = Stored(work, s)
          \/ Creates(c) /\ s = req[c].row
    BY DEF Frame, Writes
  <2>3. \A b \in Clients : Creates(b) => Stage(b)
    BY DEF IInv, RequestInv, CreationInv
  <2>4. \A a, b \in Clients : Creates(a) /\ Creates(b) /\ b # a => req[a].row # req[b].row
    BY DEF IInv, RequestInv, CreationInv
  <2>5. issued \subseteq issued'
    BY DEF Frame, Books
  <2>6. \A s \in Sessions : HasSession(work', s) => s \in issued'
    BY <2>1, <2>2, <2>3, <2>5 DEF Stage
  <2>7. \A s \in Sessions : HasSession(disk', s) => s \in issued'
    BY <2>1, <2>5 DEF Frame, Saves
  <2>8. \A b \in Clients \ {c} : Creates(b)' <=> Creates(b)
    BY <1>1 DEF Creates
  <2>9. ASSUME NEW b \in Clients \ {c}, Creates(b)
        PROVE  Stage(b)'
    <3>1. Stage(b) /\ pc'[b] = pc[b] /\ req'[b] = req[b]
      BY <1>1, <2>3, <2>9
    <3>2. HasSession(work', req[b].row) =>
            /\ HasSession(work, req[b].row)
            /\ Stored(work', req[b].row) = Stored(work, req[b].row)
      BY <2>2, <2>4, <2>9
    <3> QED
      BY <2>5, <3>1, <3>2 DEF Stage, HasSession, Stored
  <2>10. Creates(c)' => Stage(c)'
    BY DEF Own, CreatesOn
  <2>11. \A b \in Clients : Creates(b)' => Stage(b)'
    BY <2>8, <2>9, <2>10
  <2>12. ASSUME Creates(c)', NEW b \in Clients \ {c}, Creates(b)
         PROVE  req'[c].row # req'[b].row
    <3>1. req'[b].row = req[b].row /\ req[b].row \in issued
      BY <1>1, <2>3, <2>12 DEF Stage
    <3>2. (Creates(c) /\ req'[c].row = req[c].row) \/ req'[c].row \notin issued
      BY <2>12 DEF Own, CreatesOn
    <3> QED
      BY <2>4, <2>12, <3>1, <3>2
  <2>13. \A a, b \in Clients : Creates(a)' /\ Creates(b)' /\ b # a => req'[a].row # req'[b].row
    BY <1>1, <2>4, <2>8, <2>12
  <2> QED
    BY <2>6, <2>7, <2>11, <2>13 DEF CreationInv, HasSession
<1>10. ReplyInv'
  <2>1. ASSUME NEW b \in Clients
        PROVE  /\ pc'[b] \notin Replied => llm'[b].parsed # "valid"
               /\ pc'[b] = "structured" => (llm'[b].errors <=> llm'[b].parsed # "valid")
    <3>1. CASE b = c
      BY <3>1 DEF Own, HearsOn
    <3>2. CASE b # c
      BY <1>1, <3>2 DEF IInv, RequestInv, ReplyInv, ErrorsTellValidity
    <3> QED
      BY <3>1, <3>2
  <2> QED
    BY <2>1 DEF ReplyInv, ErrorsTellValidity
<1> QED
  BY <1>3, <1>4, <1>5, <1>6, <1>7, <1>8, <1>9, <1>10 DEF IInv, RequestInv

\* A column that migrations write, or all of them.
LEMMA MigratedColumn ==
  ASSUME NEW d \in Databases, NEW x \in SUBSET Statements, NEW e, e = [d EXCEPT !.migrated = x]
  PROVE  /\ e \in Databases /\ e.migrated = x /\ (References(d) => References(e))
         /\ e.version = d.version /\ e.presets = d.presets /\ e.sessions = d.sessions
         /\ e.active = d.active /\ e.milk = d.milk
<1>1. e \in Databases
  BY DEF Databases
<1>2. /\ e.migrated = x /\ e.version = d.version /\ e.presets = d.presets
      /\ e.sessions = d.sessions /\ e.active = d.active /\ e.milk = d.milk
      /\ e.hoppers = d.hoppers /\ e.beans = d.beans /\ e.profiles = d.profiles
      /\ e.recipes = d.recipes /\ e.additives = d.additives /\ e.producers = d.producers
  BY DEF Databases
<1> QED
  BY <1>1, <1>2 DEF References

\* So it is with the version.
LEMMA VersionColumn ==
  ASSUME NEW d \in Databases, NEW x \in 0..LastVersion, NEW e, e = [d EXCEPT !.version = x]
  PROVE  /\ e \in Databases /\ e.version = x /\ (References(d) => References(e))
         /\ e.migrated = d.migrated /\ e.presets = d.presets /\ e.sessions = d.sessions
         /\ e.active = d.active /\ e.milk = d.milk
<1>1. e \in Databases
  BY DEF Databases
<1>2. /\ e.migrated = d.migrated /\ e.version = x /\ e.presets = d.presets
      /\ e.sessions = d.sessions /\ e.active = d.active /\ e.milk = d.milk
      /\ e.hoppers = d.hoppers /\ e.beans = d.beans /\ e.profiles = d.profiles
      /\ e.recipes = d.recipes /\ e.additives = d.additives /\ e.producers = d.producers
  BY DEF Databases
<1> QED
  BY <1>1, <1>2 DEF References

\* No request is under way while the database is set up, so a step of async_setup
\* keeps the invariant if it keeps its own part and the rows of both databases.
LEMMA SetupKeeps ==
  ASSUME IInv, state # "open", Unused,
         state' \in {"closed", "migrating", "seeding", "open"},
         migration' \in [due : SUBSET Statements, failed : SUBSET Statements],
         work' \in Databases, disk' \in Databases, writers' \subseteq Clients \cup {Setup},
         \E d \in {work, disk} : work'.sessions = d.sessions /\ work'.active = d.active,
         \E d \in {work, disk} : disk'.sessions = d.sessions /\ disk'.active = d.active,
         SetupInv'
  PROVE  IInv'
<1>1. \A c \in Clients : pc[c] = "idle"
  BY DEF IInv, IdleUnlessOpen
<1>2. UNCHANGED <<dbLock, pc, req, llm, issued, calls, contended>>
  BY DEF Unused
<1>3. Types'
  BY <1>2 DEF IInv, Types, TypeOK, IsRequest, Carries
<1>4. IdleUnlessOpen'
  BY <1>1, <1>2 DEF IdleUnlessOpen
<1>5. UpsertsSeeTheRow' /\ AnswerIsSaved'
  BY <1>1, <1>2 DEF UpsertsSeeTheRow, AnswerIsSaved
<1>6. ActiveInv'
  BY <1>1, <1>2 DEF IInv, RequestInv, ActiveInv, OneActive, OneActivates, Activates
<1>7. CreationInv'
  BY <1>1, <1>2 DEF IInv, RequestInv, CreationInv, HasSession, Creates, Creating
<1>8. ReplyInv'
  BY <1>2 DEF IInv, RequestInv, ReplyInv, ErrorsTellValidity
<1> QED
  BY <1>3, <1>4, <1>5, <1>6, <1>7, <1>8 DEF IInv, RequestInv

\* What async_setup has kept so far.
LEMMA SetupSoFar ==
  ASSUME IInv
  PROVE  /\ Leftover(disk) /\ References(work)
         /\ VersionTold(work) /\ VersionTold(disk)
         /\ work \in Databases /\ disk \in Databases
         /\ writers \subseteq Clients \cup {Setup}
         /\ migration \in [due : SUBSET Statements, failed : SUBSET Statements]
         /\ disk.version \in 0..LastVersion /\ work.version \in 0..LastVersion
         /\ work.migrated \subseteq Statements /\ disk.migrated \subseteq Statements
         /\ state = "closed" => work = disk
         /\ state = "migrating" =>
              /\ work.presets = disk.presets
              /\ work.version = disk.version /\ migration.due \subseteq Above(disk.version)
              /\ Statements \ migration.due \subseteq work.migrated \cup migration.failed
         /\ state = "seeding" => work.version = LastVersion
<1>1. work \in Databases /\ disk \in Databases
  BY Working
<1>2. /\ disk.version \in 0..LastVersion /\ work.version \in 0..LastVersion
      /\ work.migrated \subseteq Statements /\ disk.migrated \subseteq Statements
  BY <1>1 DEF Databases
<1> QED
  BY <1>1, <1>2 DEF IInv, Types, TypeOK, SetupInv, MigrationOnCourse, SchemaComplete

\* What it has to keep, said of the next state.
LEMMA SetupInvNext ==
  ASSUME Leftover(disk'), References(work'), VersionTold(work)', VersionTold(disk)',
         state' = "closed" => work' = disk',
         state' = "migrating" =>
           /\ work'.presets = disk'.presets
           /\ work'.version = disk'.version /\ migration'.due \subseteq Above(disk'.version)
           /\ Statements \ migration'.due \subseteq work'.migrated \cup migration'.failed,
         state' \in {"seeding", "open"} => work'.version = LastVersion,
         state' = "open" => SystemPresets \subseteq work'.presets
  PROVE  SetupInv'
BY DEF SetupInv, MigrationOnCourse, SchemaComplete, SystemPresetsStay, Leftover,
       PresetsWhole, References, Above

\* A new file has the whole schema at once; in an old one what is not due has been
\* executed.
LEMMA OpenDatabaseKeeps == ASSUME IInv, OpenDatabase PROVE IInv'
<1>1. /\ state = "closed" /\ state' = "migrating" /\ Unused /\ writers' = writers /\ work = disk
  BY SetupSoFar DEF OpenDatabase
<1>2. CASE disk.version < 1
  <2>1. /\ work' = [work EXCEPT !.migrated = Statements] /\ disk' = work'
        /\ migration' = [due |-> {}, failed |-> {}]
    BY <1>2 DEF OpenDatabase
  <2>2. /\ work' \in Databases /\ work'.migrated = Statements
        /\ References(work) => References(work')
        /\ work'.version = work.version /\ work'.presets = work.presets
        /\ work'.sessions = work.sessions /\ work'.active = work.active
    BY <2>1, Working, MigratedColumn
  <2>3. VersionTold(work)' /\ VersionTold(disk)'
    BY <2>1, <2>2 DEF VersionTold
  <2>4. Leftover(work')
    BY <1>1, <2>2, SetupSoFar DEF Leftover, PresetsWhole
  <2>5. migration' \in [due : SUBSET Statements, failed : SUBSET Statements]
    BY <2>1
  <2>6. SetupInv'
    BY <1>1, <2>1, <2>2, <2>3, <2>4, SetupInvNext DEF Leftover
  <2> QED
    BY <1>1, <2>1, <2>2, <2>5, <2>6, SetupSoFar, SetupKeeps
<1>3. CASE ~(disk.version < 1)
  <2>1. /\ migration' = [migration EXCEPT !.due = Above(disk.version)]
        /\ work' = work /\ disk' = disk
    BY <1>3 DEF OpenDatabase
  <2>2. /\ migration' \in [due : SUBSET Statements, failed : SUBSET Statements]
        /\ migration'.due = Above(disk.version) /\ migration'.failed = migration.failed
    BY <2>1, SetupSoFar DEF Above
  <2>3. VersionTold(work)' /\ VersionTold(disk)'
    BY <2>1, <2>2, SetupSoFar DEF VersionTold, Above
  <2>4. Statements \ migration'.due \subseteq work'.migrated \cup migration'.failed
    BY <1>1, <2>1, <2>2, SetupSoFar DEF VersionTold
  <2>5. SetupInv'
    BY <1>1, <2>1, <2>2, <2>3, <2>4, SetupSoFar, SetupInvNext
  <2> QED
    BY <1>1, <2>1, <2>2, <2>5, SetupSoFar, SetupKeeps
<1> QED
  BY <1>2, <1>3

\* A statement is in memory, and on disk if no transaction is open.
LEMMA MigrationAppliesKeeps ==
  ASSUME IInv, state = "migrating", Unused, state' = state,
         NEW i \in migration.due, MigrationApplies(i)
  PROVE  IInv'
<1> DEFINE x == work.migrated \cup {i}
           y == disk.migrated \cup {i}
<1>1. /\ work' = [work EXCEPT !.migrated = x]
      /\ disk' \in {[disk EXCEPT !.migrated = y], disk}
      /\ writers' \in {{Setup}, writers}
      /\ migration' = [due |-> migration.due \ {i}, failed |-> migration.failed \ {i}]
  BY DEF MigrationApplies
<1>2. /\ migration.due \subseteq Statements /\ migration.failed \subseteq Statements
      /\ migration.due \subseteq Above(disk.version) /\ work.version = disk.version
      /\ Statements \ migration.due \subseteq work.migrated \cup migration.failed
  BY SetupSoFar
<1>3. x \in SUBSET Statements /\ y \in SUBSET Statements
  BY <1>2, SetupSoFar
<1>4. x = work.migrated \cup {i} /\ y = disk.migrated \cup {i}
  OBVIOUS
<1> HIDE DEF x, y
<1>5. /\ work' \in Databases /\ work'.migrated = x /\ References(work')
      /\ work'.version = work.version /\ work'.presets = work.presets
      /\ work'.sessions = work.sessions /\ work'.active = work.active
  <2>1. work \in Databases /\ References(work)
    BY SetupSoFar
  <2> QED
    BY <1>1, <1>3, <2>1, MigratedColumn
<1>6. /\ disk' \in Databases /\ disk.migrated \subseteq disk'.migrated
      /\ References(disk) => References(disk')
      /\ disk'.version = disk.version /\ disk'.presets = disk.presets
      /\ disk'.sessions = disk.sessions /\ disk'.active = disk.active
  <2>1. disk \in Databases
    BY Working
  <2>2. CASE disk' = disk
    BY <2>1, <2>2
  <2>3. CASE disk' = [disk EXCEPT !.migrated = y]
    <3>1. /\ disk' \in Databases /\ disk'.migrated = y
          /\ References(disk) => References(disk')
          /\ disk'.version = disk.version /\ disk'.presets = disk.presets
          /\ disk'.sessions = disk.sessions /\ disk'.active = disk.active
      BY <1>3, <2>1, <2>3, MigratedColumn
    <3> QED
      BY <1>4, <3>1
  <2>4. disk' = disk \/ disk' = [disk EXCEPT !.migrated = y]
    BY <1>1
  <2> QED
    BY <2>2, <2>3, <2>4
<1>7. /\ migration' \in [due : SUBSET Statements, failed : SUBSET Statements]
      /\ migration'.due = migration.due \ {i} /\ migration'.failed = migration.failed \ {i}
  BY <1>1, <1>2
<1>8. VersionTold(work)'
  BY <1>4, <1>5, <1>7, SetupSoFar DEF VersionTold, Above
<1>9. VersionTold(disk)'
  BY <1>2, <1>6, <1>7, SetupSoFar DEF VersionTold, Above
<1>10. Leftover(disk')
  BY <1>6, SetupSoFar DEF Leftover, PresetsWhole
<1>11. /\ Statements \ migration'.due \subseteq work'.migrated \cup migration'.failed
       /\ migration'.due \subseteq Above(disk'.version)
  BY <1>2, <1>4, <1>5, <1>6, <1>7
<1>12. SetupInv'
  BY <1>2, <1>5, <1>6, <1>8, <1>9, <1>10, <1>11, SetupSoFar, SetupInvNext
<1>13. writers' \subseteq Clients \cup {Setup}
  BY <1>1, SetupSoFar
<1> QED
  BY <1>5, <1>6, <1>7, <1>12, <1>13, SetupKeeps

\* A statement that raises is remembered, unless what it defines is there.
LEMMA MigrationFailsKeeps ==
  ASSUME IInv, state = "migrating", Unused, state' = state,
         NEW i \in migration.due, MigrationFails(i)
  PROVE  IInv'
<1>1. /\ work' = work /\ disk' = disk /\ writers' \in {{Setup}, writers}
      /\ migration' = [due    |-> migration.due \ {i},
                       failed |-> migration.failed \cup ({i} \ work.migrated)]
  BY DEF MigrationFails
<1>2. /\ migration.due \subseteq Statements /\ migration.failed \subseteq Statements
      /\ migration.due \subseteq Above(disk.version) /\ work.version = disk.version
      /\ Statements \ migration.due \subseteq work.migrated \cup migration.failed
  BY SetupSoFar
<1>3. /\ migration' \in [due : SUBSET Statements, failed : SUBSET Statements]
      /\ migration'.due = migration.due \ {i}
      /\ migration'.failed = migration.failed \cup ({i} \ work.migrated)
  BY <1>1, <1>2
<1>4. VersionTold(work)' /\ VersionTold(disk)'
  BY <1>1, <1>3, SetupSoFar DEF VersionTold, Above
<1>5. /\ Statements \ migration'.due \subseteq work'.migrated \cup migration'.failed
      /\ migration'.due \subseteq Above(disk'.version)
  BY <1>1, <1>2, <1>3
<1>6. SetupInv'
  BY <1>1, <1>2, <1>4, <1>5, SetupSoFar, SetupInvNext
<1>7. writers' \subseteq Clients \cup {Setup}
  BY <1>1, SetupSoFar
<1> QED
  BY <1>1, <1>3, <1>6, <1>7, SetupSoFar, SetupKeeps

\* Either way the migration goes on.
LEMMA MigrateKeeps == ASSUME IInv, Migrate PROVE IInv'
<1>1. /\ state = "migrating" /\ Unused /\ state' = state
      /\ \E i \in migration.due : MigrationApplies(i) \/ MigrationFails(i)
  BY DEF Migrate
<1> QED
  BY <1>1, MigrationAppliesKeeps, MigrationFailsKeeps

\* Each statement has been executed when the version is stored.
LEMMA FinishMigrationKeeps == ASSUME IInv, FinishMigration PROVE IInv'
<1>1. /\ state = "migrating" /\ migration.due = {} /\ Unused /\ migration' = migration
      /\ work' = [work EXCEPT !.version = LastVersion] /\ disk' = work' /\ writers' = {}
      /\ state' \in {"closed", "seeding", "open"}
      /\ state' = "open" => work.presets \cap SystemPresets # {}
  BY DEF FinishMigration
<1>2. /\ work' \in Databases /\ work'.version = LastVersion /\ References(work')
      /\ work'.migrated = work.migrated /\ work'.presets = work.presets
      /\ work'.sessions = work.sessions /\ work'.active = work.active
  BY <1>1, SetupSoFar, DBAssumption, VersionColumn
<1>3. Statements \subseteq work.migrated \cup migration.failed
  BY <1>1, SetupSoFar
<1>4. VersionTold(work)' /\ VersionTold(disk)'
  BY <1>1, <1>2, <1>3 DEF VersionTold
<1>5. work.presets = disk.presets /\ work.presets \cap SystemPresets \in {{}, SystemPresets}
  BY <1>1, SetupSoFar DEF Leftover, PresetsWhole
<1>6. Leftover(disk')
  BY <1>1, <1>2, <1>5 DEF Leftover, PresetsWhole
<1>7. SetupInv'
  BY <1>1, <1>2, <1>4, <1>5, <1>6, SetupInvNext
<1> QED
  BY <1>1, <1>2, <1>7, SetupSoFar, SetupKeeps

\* A preset is seeded in memory only.
LEMMA SeedPresetKeeps == ASSUME IInv, SeedPreset PROVE IInv'
<1>1. /\ state = "seeding" /\ Unused /\ state' = state /\ migration' = migration
      /\ disk' = disk /\ writers' = {Setup}
  BY DEF SeedPreset
<1>2. PICK p \in SystemPresets : work' = AddPreset(work, p)
  BY DEF SeedPreset
<1>3. work' \in Databases
  BY <1>2, Working, AddPresetIsHarmless DEF Presets, Harmless, Safe
<1>4. /\ work'.version = work.version /\ work'.migrated = work.migrated
      /\ work'.sessions = work.sessions /\ work'.active = work.active
      /\ work'.hoppers = work.hoppers /\ work'.beans = work.beans
      /\ work'.profiles = work.profiles /\ work'.recipes = work.recipes
      /\ work'.additives = work.additives /\ work'.producers = work.producers
  BY <1>2, Working DEF AddPreset, Databases
<1>5. References(work')
  BY <1>4, SetupSoFar DEF References
<1>6. VersionTold(work)' /\ VersionTold(disk)'
  BY <1>1, <1>4, SetupSoFar DEF VersionTold, Above
<1>7. SetupInv'
  BY <1>1, <1>4, <1>5, <1>6, SetupSoFar, SetupInvNext
<1> QED
  BY <1>1, <1>3, <1>4, <1>7, SetupSoFar, SetupKeeps

\* All presets are committed at once.
LEMMA FinishSeedingKeeps == ASSUME IInv, FinishSeeding PROVE IInv'
<1>1. /\ state = "seeding" /\ SystemPresets \subseteq work.presets /\ Unused
      /\ disk' = work /\ writers' = {} /\ state' = "open" /\ migration' = migration /\ work' = work
  BY DEF FinishSeeding
<1>2. Leftover(work)
  BY <1>1, SetupSoFar DEF Leftover, PresetsWhole
<1>3. VersionTold(work)' /\ VersionTold(disk)'
  BY <1>1, SetupSoFar DEF VersionTold
<1>4. SetupInv'
  BY <1>1, <1>2, <1>3, SetupSoFar, SetupInvNext
<1> QED
  BY <1>1, <1>4, SetupSoFar, SetupKeeps

\* Losing the connection leaves what is on disk, and no request.
LEMMA LoseConnectionKeeps == ASSUME IInv, LoseConnection PROVE IInv'
<1>1. /\ state' = "closed" /\ work' = disk /\ disk' = disk /\ writers' = {} /\ dbLock' = NoClient
      /\ pc' = [c \in Clients |-> "idle"] /\ req' = [c \in Clients |-> NoRequest]
      /\ llm' = [c \in Clients |-> NoReply]
      /\ UNCHANGED <<migration, issued, calls, contended>>
  BY DEF LoseConnection
<1>2. Types'
  <2>1. TypeOK'
    BY <1>1, Working, ConnectionAssumption DEF IInv, Types, TypeOK, Steps
  <2>2. DOMAIN req' = Clients /\ DOMAIN llm' = Clients /\ \A c \in Clients : req'[c] = NoRequest
    BY <1>1
  <2> QED
    BY <2>1, <2>2, NoRequestCarries DEF Types, IsRequest, Carries
<1>3. IdleUnlessOpen' /\ UpsertsSeeTheRow' /\ AnswerIsSaved'
  BY <1>1 DEF IdleUnlessOpen, UpsertsSeeTheRow, AnswerIsSaved
<1>4. SetupInv'
  <2>1. Leftover(disk) /\ VersionTold(disk)
    BY SetupSoFar
  <2> QED
    BY <1>1, <2>1 DEF SetupInv, MigrationOnCourse, SchemaComplete, SystemPresetsStay,
                      Leftover, PresetsWhole, VersionTold, References
<1>5. ActiveInv'
  BY <1>1 DEF IInv, RequestInv, ActiveInv, OneActive, OneActivates, Activates
<1>6. CreationInv'
  BY <1>1 DEF IInv, RequestInv, CreationInv, HasSession, Creates, Creating
<1>7. ReplyInv'
  BY <1>1 DEF ReplyInv, ErrorsTellValidity, NoReply
<1> QED
  BY <1>2, <1>3, <1>4, <1>5, <1>6, <1>7 DEF IInv, RequestInv

\* What an earlier run may have left is a place to start from.
LEMMA InitIInv == ASSUME Init PROVE IInv
<1>1. /\ state = "closed" /\ work = disk /\ writers = {} /\ dbLock = NoClient
      /\ migration = [due |-> {}, failed |-> Statements \ (Above(disk.version) \cup disk.migrated)]
      /\ pc = [c \in Clients |-> "idle"] /\ req = [c \in Clients |-> NoRequest]
      /\ llm = [c \in Clients |-> NoReply]
      /\ issued = KeysIn(disk) /\ calls = 0 /\ contended = ~OneActive(disk)
  BY DEF Init
<1>2. Leftover(disk)
  BY ConnectionAssumption DEF Init
<1>3. disk \in Databases
  BY <1>2 DEF Leftover
<1>4. KeysIn(disk) \subseteq Issuable
  <2>1. /\ disk.beans \subseteq Beans /\ disk.profiles \subseteq Profiles
        /\ \A s \in disk.sessions : s.id \in Sessions
        /\ \A f \in disk.favorites : f.id \in Favorites
        /\ \A a \in disk.additives : a.id \in Additives
    BY <1>3 DEF Databases
  <2> QED
    BY <2>1 DEF KeysIn, Issuable
<1>5. Types
  <2>1. TypeOK
    BY <1>1, <1>3, <1>4, ConnectionAssumption DEF TypeOK, Steps
  <2> QED
    BY <1>1, <2>1, NoRequestCarries DEF Types
<1>6. IdleUnlessOpen /\ UpsertsSeeTheRow /\ AnswerIsSaved
  BY <1>1 DEF IdleUnlessOpen, UpsertsSeeTheRow, AnswerIsSaved
<1>7. SetupInv
  BY <1>1, <1>2 DEF SetupInv, MigrationOnCourse, SchemaComplete, SystemPresetsStay,
                    Leftover, PresetsWhole, VersionTold
<1>8. ActiveInv
  BY <1>1 DEF ActiveInv, OneActivates, Activates
<1>9. CreationInv
  BY <1>1 DEF CreationInv, HasSession, KeysIn, Creates, Creating
<1>10. ReplyInv
  BY <1>1 DEF ReplyInv, ErrorsTellValidity, NoReply
<1> QED
  BY <1>5, <1>6, <1>7, <1>8, <1>9, <1>10 DEF IInv, RequestInv

-----------------------------------------------------------------------------
(***************************************************************************)
(* What holds of every run.                                                *)
(***************************************************************************)
\* A step of the system keeps the invariant.
LEMMA NextIInv == ASSUME IInv, [Next]_vars PROVE IInv'
<1>1. CASE SetupStep
  BY <1>1, OpenDatabaseKeeps, MigrateKeeps, FinishMigrationKeeps, SeedPresetKeeps,
     FinishSeedingKeeps DEF SetupStep
<1>2. CASE LoseConnection
  BY <1>2, LoseConnectionKeeps
<1>3. ASSUME NEW c \in Clients, RequestStep(c)
      PROVE  IInv'
  BY <1>3, RequestStepKeeps, KeptInvariant
<1>4. CASE UNCHANGED vars
  <2>1. (Types /\ IdleUnlessOpen)'
    BY <1>4 DEF vars, IInv, Types, TypeOK, IsRequest, Carries, IdleUnlessOpen
  <2>2. SetupInv'
    BY <1>4 DEF vars, IInv, SetupInv, MigrationOnCourse, SchemaComplete, SystemPresetsStay,
                Leftover, PresetsWhole, VersionTold, Above, References
  <2>3. (UpsertsSeeTheRow /\ AnswerIsSaved /\ ReplyInv)'
    BY <1>4 DEF vars, IInv, RequestInv, UpsertsSeeTheRow, Rated, AnswerIsSaved, ReplyInv,
                ErrorsTellValidity
  <2>4. ActiveInv'
    BY <1>4 DEF vars, IInv, RequestInv, ActiveInv, OneActive, OneActivates, Activates
  <2>5. CreationInv'
    BY <1>4 DEF vars, IInv, RequestInv, CreationInv, Creates, Stage, HasSession, Stored
  <2> QED
    BY <2>1, <2>2, <2>3, <2>4, <2>5 DEF IInv, RequestInv
<1> QED
  BY <1>1, <1>2, <1>3, <1>4 DEF Next

\* The inductive invariant holds of every run, whatever the requests and however
\* they interleave.
THEOREM SommelierInvariance == Spec => []IInv
<1>1. Init => IInv
  BY InitIInv
<1>2. IInv /\ [Next]_vars => IInv'
  BY NextIInv
<1> QED
  BY <1>1, <1>2, PTL DEF Spec

\* The state is of its types, and the lock is with the request that is under it.
THEOREM SommelierTypeCorrect == Spec => []TypeOK
<1>1. IInv => TypeOK
  BY DEF IInv, Types
<1> QED
  BY <1>1, SommelierInvariance, PTL

\* async_set_rating never inserts a row that is there nor updates one that is
\* not: what its SELECT has said holds until its statement.
THEOREM RatingUpsert == Spec => []UpsertsSeeTheRow
<1>1. IInv => UpsertsSeeTheRow
  BY DEF IInv, RequestInv
<1> QED
  BY <1>1, SommelierInvariance, PTL

\* Unless two activations of profiles overlap, at most one profile is active,
\* in the database and on disk.
THEOREM ActiveProfile == Spec => []OneActiveUncontended
<1>1. IInv => OneActiveUncontended
  BY DEF IInv, RequestInv, ActiveInv, OneActiveUncontended
<1> QED
  BY <1>1, SommelierInvariance, PTL

\* A generate that is answered has stored all of its recipes, or its session is
\* gone with all of them.
THEOREM GeneratedSession == Spec => []GeneratedWhole
<1>1. ASSUME IInv PROVE GeneratedWhole
  <2>1. SUFFICES ASSUME NEW c \in Clients, pc[c] = "answer", req[c].op = Generate
                 PROVE  LET s == req[c].row
                            stored == {r \in work.recipes : r[1] = s}
                        IN IF \E x \in work.sessions : x.id = s
                             THEN stored = {s} \X (1..req[c].seen.count)
                             ELSE stored = {}
    BY DEF GeneratedWhole
  <2>2. Stage(c)
    BY <1>1, <2>1 DEF IInv, RequestInv, CreationInv, Creates, Creating
  <2>3. HasSession(work, req[c].row) =>
          Stored(work, req[c].row) = {req[c].row} \X (1..req[c].seen.count)
    BY <2>1, <2>2 DEF Stage
  <2>4. ~HasSession(work, req[c].row) => Stored(work, req[c].row) = {}
    BY <1>1 DEF IInv, SetupInv, MigrationOnCourse, References, HasSession, Stored
  <2> QED
    BY <2>3, <2>4 DEF HasSession, Stored
<1> QED
  BY <1>1, SommelierInvariance, PTL

\* The system presets are all there once the database is open, and a file has all
\* of them or none.
THEOREM PresetsStay == Spec => []SystemPresetsStay
<1>1. IInv => SystemPresetsStay
  BY DEF IInv, SetupInv
<1> QED
  BY <1>1, SommelierInvariance, PTL

\* What a request has written is on disk when it is answered.
THEOREM AnswersLast == Spec => []AnswerIsSaved
<1>1. IInv => AnswerIsSaved
  BY DEF IInv, RequestInv
<1> QED
  BY <1>1, SommelierInvariance, PTL

\* Of the migrations up to the version that a file tells, or the connection sees,
\* nothing is missing but statements that raised, whatever cut earlier attempts
\* off and whatever was committed with them; an open database tells the last.
THEOREM SchemaIsComplete == Spec => []SchemaComplete
<1>1. IInv => SchemaComplete
  BY DEF IInv, SetupInv
<1> QED
  BY <1>1, SommelierInvariance, PTL

\* A structured call reports errors iff it has no valid object.
THEOREM ReplyErrors == Spec => []ErrorsTellValidity
<1>1. IInv => ErrorsTellValidity
  BY DEF IInv, RequestInv, ReplyInv
<1> QED
  BY <1>1, SommelierInvariance, PTL

\* Whenever a run is cut off, what it leaves on disk is again what a run may
\* start from: the assumption on StoredBefore holds of the file it leaves.
THEOREM FileReopens == Spec => []Leftover(disk)
<1>1. IInv => Leftover(disk)
  BY DEF IInv, SetupInv, MigrationOnCourse
<1> QED
  BY <1>1, SommelierInvariance, PTL

\* What a step of async_setup leaves of the milks.
LEMMA SetupLeavesMilk ==
  ASSUME IInv, SetupStep PROVE work'.milk = work.milk
<1>1. work \in Databases
  BY Working
<1>2. CASE OpenDatabase
  BY <1>1, <1>2 DEF OpenDatabase, Databases
<1>3. CASE Migrate
  BY <1>1, <1>3 DEF Migrate, MigrationApplies, MigrationFails, Databases
<1>4. CASE FinishMigration
  BY <1>1, <1>4 DEF FinishMigration, Databases
<1>5. CASE SeedPreset
  <2>1. PICK p \in SystemPresets : work' = AddPreset(work, p)
    BY <1>5 DEF SeedPreset
  <2> QED
    BY <1>1, <2>1, AddPresetIsHarmless DEF Harmless, Presets
<1>6. CASE FinishSeeding
  BY <1>6 DEF FinishSeeding
<1> QED
  BY <1>2, <1>3, <1>4, <1>5, <1>6 DEF SetupStep

\* A milk that is there changes its flag by a toggle alone, and goes only by a
\* bulk save whose list it is not in.
THEOREM MilkIsKept == Spec => MilkKept
<1> DEFINE MilkStays(m) ==
      work.milk[m] # work'.milk[m] /\ work.milk[m] # "absent" =>
        \/ state' = "closed"
        \/ \E c \in Clients :
             /\ pc[c] # pc'[c]
             /\ \/ req'[c].op = "milk/set_available"
                \/ work'.milk[m] = "absent" /\ req[c].op = "milk/set" /\ m \notin req[c].seen
<1>1. ASSUME IInv, Next, NEW m \in Milks PROVE MilkStays(m)
  <2>1. CASE SetupStep
    BY <1>1, <2>1, SetupLeavesMilk
  <2>2. CASE LoseConnection
    BY <2>2 DEF LoseConnection
  <2>3. ASSUME NEW c \in Clients, RequestStep(c)
        PROVE  MilkStays(m)
    <3>1. KeepsMilk(c)
      BY <1>1, <2>3, RequestStepKeeps DEF Kept, Frame
    <3> QED
      BY <3>1 DEF KeepsMilk
  <2> QED
    BY <1>1, <2>1, <2>2, <2>3 DEF Next
<1>2. IInv /\ [Next]_vars => [\A m \in Milks : MilkStays(m)]_vars
  BY <1>1
<1> QED
  BY <1>2, SommelierInvariance, PTL DEF Spec, MilkKept
=============================================================================

SPECIFICATION FairSpec
CONSTANTS
  None = None
  Clients = {c1, c2}
  NoClient = NoClient
  Beans = {b1, b2}
  Profiles = {p1, p2, p3}
  Sessions = {s0}
  Favorites = {f0, f1}
  UserPresets = {u1}
  SystemPresets = {sys1, sys2}
  MaxRecipes = 2
  Stars = {}
  Notes = {}
  Milks = {m1, m2}
  Categories = {liqueurs}
  Items = {i1, i2}
  SettingKeys = {llm_agent_id}
  PrefKeys = {use_weather}
  Texts = {v1}
  Entries = {e1}
  Producers = {q1, q2}
  Names = {n1, n2}
  Additives = {a1, a2}
  Tags = {t1}
  Slots = {beans_autofill}
  LastVersion = 1
  Script <- NoMigrations
  SeedNeeds = {}
  MaxFailures = 0
  MaxCalls = 2
  b1 = b1
  p1 = p1
  p2 = p2
  s0 = s0
  f0 = f0
  n1 = n1
  q1 = q1
  a1 = a1
  StoredBefore <- Catalogs
  Requests = {"beans/add", "beans/update", "brew", "favorites/add", "favorites/remove", "favorites/brew", "presets/add", "presets/update", "profiles/add", "profiles/update", "presets/delete", "milk/set", "milk/set_available", "settings/set", "preferences/set", "extras/set", "probe", "producers/add", "producers/update", "producers/delete", "additives/add", "additives/update", "additives/delete", "additives/set_available", "additives/autofill", "tags/add", "tags/delete", "prompts/save", "prompts/reset", "beans/autofill"}
INVARIANTS
  AnswerIsSaved
  ErrorsTellValidity
PROPERTIES
  MilkKept
  RequestsEnd
CHECK_DEADLOCK FALSE

SPECIFICATION Spec
CONSTANTS
  None = None
  Clients = {c1, c2}
  NoClient = NoClient
  Beans = {b1}
  Profiles = {p1, p2}
  Sessions = {s0, s1}
  Favorites = {f0}
  UserPresets = {u1}
  SystemPresets = {sys1, sys2}
  MaxRecipes = 2
  Stars = {5}
  Notes = {}
  Milks = {}
  Categories = {}
  Items = {}
  SettingKeys = {}
  PrefKeys = {}
  Texts = {}
  Entries = {}
  Producers = {}
  Names = {}
  Additives = {}
  Tags = {}
  Slots = {}
  LastVersion = 3
  Script <- Migrations
  SeedNeeds = {3}
  MaxFailures = 1
  MaxCalls = 3
  b1 = b1
  p1 = p1
  p2 = p2
  s0 = s0
  f0 = f0
  n1 = n1
  q1 = q1
  a1 = a1
  StoredBefore <- Libraries
  Requests = {"beans/delete", "hoppers/assign", "generate", "history/clear", "favorites/update", "recipe/rate", "recipe/unrate", "presets/delete", "profiles/delete", "profiles/activate"}
INVARIANTS
  TypeOK
  UpsertsSeeTheRow
  OneActiveUncontended
  GeneratedWhole
  SystemPresetsStay
  SchemaComplete
SYMMETRY Symmetry
CHECK_DEADLOCK FALSE

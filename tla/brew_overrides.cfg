SPECIFICATION Spec
CONSTANTS
  Tasks = {t1, t2}
  NoTask = NoTask
  TypeRegister = recipeType
  Fields = {strength, amount}
  Text = userName
  Retries = 2
INVARIANTS
  OverridesFirst

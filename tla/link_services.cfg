SPECIFICATION FairSpec
CONSTANTS
  Soft = {cup, flush}
  Hard = {water}
  NoPrompt = none
  Daily = daily
  Reconnects = {s1}
  MaxConfirms = 2
INVARIANTS OncePerAppearance
PROPERTIES PromptAnswered ClockCorrected

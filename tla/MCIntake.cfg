\* Two health checks of one company, of a free provider or of two, or one form
\* of any kind; two submissions each, and one failure of any kind.
INIT MCInit
NEXT Next
CONSTANTS
  Visits = {v1, v2}
  Domains = {acme, gmail}
  FreeDomains = {gmail}
  MaxTries = 2
  MaxFaults = 1
INVARIANTS
  AnswersAreTrue
  RepeatIsNoted
  SilenceIsExplained
  SpentTokenNeedsSilence
CHECK_DEADLOCK FALSE

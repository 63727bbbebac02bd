CONSTANTS
  Targets = {cloudflare, google}
  Rounds <- MCRounds
SPECIFICATION MCSpec
INVARIANTS
  PollsAtItsRate
  PanicsOnlyEnding
PROPERTIES
  FoundIsNotified
  WatcherSettles
  SamplerSends
CHECK_DEADLOCK FALSE

CONSTANTS
  Targets = {cloudflare, google}
  Rounds <- MCRounds
SPECIFICATION MCSpec
PROPERTIES
  NotifiesAll
CHECK_DEADLOCK FALSE

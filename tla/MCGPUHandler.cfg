CONSTANTS
  Signals = {s1, s2}
  Timers = {t1, t2}
  Others = {other}
  Callers = {s1, s2, t1, t2, other}
  Nil = nil
  Delay = 2
SPECIFICATION FairSpec
INVARIANTS
  ScheduleMatchesTimer
  OneAtATime
  FlagHasOwner
PROPERTIES
  HangIsActedOn
  CallsReturn
CHECK_DEADLOCK FALSE

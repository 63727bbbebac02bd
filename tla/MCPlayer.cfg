SPECIFICATION MCSpec
CONSTANTS
  h1 = h1
  h2 = h2
  p = p
  w1 = w1
  w2 = w2
  Nil = Nil
  Clients = {p, h1, h2}
  Works = {w1, w2}
  Poller = p
  Handlers = {h1, h2}
  QueueSize = 1
INVARIANTS ChangeWillBeSeen ScreenIsSaved CursorOnScreen OnlyNotifyPanics
PROPERTIES AtomicCalls
CHECK_DEADLOCK FALSE

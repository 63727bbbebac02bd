SPECIFICATION MCSpec
CONSTANTS
  main = main
  c1 = c1
  c2 = c2
  r1 = r1
  r2 = r2
  s1 = s1
  s2 = s2
  Nil = Nil
  Tasks = {main, c1, c2}
  Main = main
  MaxWire = 1
  Requests = {r1, r2}
  Scans = {s1, s2}
INVARIANTS RecordedIsShown SavedTopicStays PanicsOnlyExcused WaitsForRefresh
PROPERTIES FlowsEnd
CHECK_DEADLOCK FALSE

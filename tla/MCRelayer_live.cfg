CONSTANTS
  Conns = {c1, c2}
  Signals = {}
  Calls = {}
  Main = main
  App = app
  Background = background
  DialErrors = {"retry"}
  Nil = nil
SPECIFICATION ReachableSpec
PROPERTIES
  HalfOpenIsDropped
  LostIsReplaced
CHECK_DEADLOCK FALSE

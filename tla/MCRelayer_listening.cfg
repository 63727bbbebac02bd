CONSTANTS
  Conns = {c1, c2}
  Signals = {s1}
  Calls = {k1}
  Main = main
  App = app
  Background = background
  DialErrors = {"retry", "permanent"}
  Nil = nil
SPECIFICATION Spec
SYMMETRY Symmetry
INVARIANT Listening
CHECK_DEADLOCK FALSE

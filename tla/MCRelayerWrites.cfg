CONSTANTS
  Conns = {c1, c2}
  Signals = {s1}
  Calls = {k1}
  Main = main
  App = app
  Background = background
  DialErrors = {"retry", "permanent"}
  Nil = nil
SPECIFICATION MCSpec
SYMMETRY Symmetry
INVARIANTS
  OnlyCurrentReader
  ListeningUnlessClosed
  PingDoneIsOpen
  NoOrphanPinger
  SendKeepsConn
  OnlyNotifyOverlaps
PROPERTIES
  KeepsSession
CHECK_DEADLOCK FALSE

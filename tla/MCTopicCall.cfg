CONSTANTS
  Calls = {k1, k2}
  Handling = {g1, g2}
  Topics = {t1}
  Mediator = mediator
  App = app
  Dead = dead
  Nil = nil
SPECIFICATION Spec
SYMMETRY Symmetry
INVARIANTS
  NoHandlerLeft
  AnsweredIsSaved
  HearsTopic

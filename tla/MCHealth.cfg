CONSTANTS
  Handlers = {h1, h2}
  Period = 2
  MaxStall = 2
  Outcomes = {TRUE}
  Nil = Nil
SPECIFICATION Spec
INVARIANTS TypeOK ReadyMeansAlive
PROPERTIES NoFalseAlarm Recovers

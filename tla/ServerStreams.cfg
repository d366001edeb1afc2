\* Connections, streams and answers before and during a shutdown, under fairness.
\* The process ends, so the system stops.
SPECIFICATION FairDeliverySpec
CONSTANTS
  a1 = a1
  a2 = a2
  x = x
  y = y
  Edits = {}
  Removals = {}
  Answers = {a1, a2}
  AnswerEdits = {}
  Creation = c
  Texts = {t1}
  NoText = NoText
  Conns = {x, y}
  Users = {u, v}
  MaxUses = 2
  NoConn = NoConn
  Author = u
CHECK_DEADLOCK FALSE
INVARIANTS TypeOK OnlyStraysOutlive
  PageMissesNothing
PROPERTIES RegistryDelivers ShutdownEnds

\* A redirect whose second hop no mocker serves.
SPECIFICATION Spec
CONSTANTS
  s1 = s1  s2 = s2  m1 = m1  m2 = m2  t1 = t1  t2 = t2  main = main
  Threads = {main}
  Starters = {main}
  Sessions = {s1, s2}
  SessionClass = SessionClass
  Overriding = {}
  Mockers = {m1, m2}
  Target <- ClassTargets
  Uses <- AllUses
  Callbacks = {}
  CallbackStarters = {}
  Joins <- NoJoins
  MaxDepth = 2
  MaxNested = 1
INVARIANT ServedNotForwarded

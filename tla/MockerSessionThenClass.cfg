\* A mocker of a session and a mocker of the class, stopped innermost first.
SPECIFICATION Spec
CONSTANTS
  s1 = s1  s2 = s2  m1 = m1  m2 = m2  t1 = t1  t2 = t2  main = main
  Threads = {main}
  Starters = {main}
  Sessions = {s1, s2}
  SessionClass = SessionClass
  Overriding = {}
  Mockers = {m1, m2}
  Target <- OuterClass
  Uses <- AllUses
  Callbacks = {}
  CallbackStarters = {}
  Joins <- NoJoins
  MaxDepth = 1
  MaxNested = 1
INVARIANT MockedWhileCovered

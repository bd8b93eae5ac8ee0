\* Mockers of one session nest, one thread uses both sessions, and the class of
\* the mocked session overrides get_adapter.
SPECIFICATION Spec
CONSTANTS
  s1 = s1  s2 = s2  m1 = m1  m2 = m2  t1 = t1  t2 = t2  main = main
  Threads = {main}
  Starters = {main}
  Sessions = {s1, s2}
  SessionClass = SessionClass
  Overriding = {s1}
  Mockers = {m1, m2}
  Target <- SessionTargets
  Uses <- AllUses
  Callbacks = {main}
  CallbackStarters = {}
  Joins <- NoJoins
  MaxDepth = 3
  MaxNested = 1
INVARIANTS SessionIsolation AdapterRestored MockedWhileCovered RunRealNeverExposed
PROPERTY ImplementsMockStack

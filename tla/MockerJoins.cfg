\* A response callback of t1 may wait for t2, which may need the lock t1 holds.
SPECIFICATION FairSpec
CONSTANTS
  s1 = s1  s2 = s2  m1 = m1  m2 = m2  t1 = t1  t2 = t2  main = main
  Threads = {t1, t2}
  Starters = {t1}
  Sessions = {s1, s2}
  SessionClass = SessionClass
  Overriding = {}
  Mockers = {m1}
  Target <- ClassTargets
  Uses <- WorkerUses
  Callbacks = {}
  CallbackStarters = {}
  Joins <- JoinsOther
  MaxDepth = 2
  MaxNested = 1
PROPERTY Returns

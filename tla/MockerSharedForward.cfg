\* Workers that share a session: a forwarded request meets a mock adapter.
SPECIFICATION Spec
CONSTANTS
  s1 = s1  s2 = s2  m1 = m1  m2 = m2  t1 = t1  t2 = t2  main = main
  Threads = {t1, t2, main}
  Starters = {main}
  Sessions = {s1}
  SessionClass = SessionClass
  Overriding = {}
  Mockers = {m1}
  Target <- ClassTargets
  Uses <- SharedUses
  Callbacks = {}
  CallbackStarters = {}
  Joins <- NoJoins
  MaxDepth = 1
  MaxNested = 1
INVARIANT ForwardedIsReal

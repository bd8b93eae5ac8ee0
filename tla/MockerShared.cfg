\* Two worker threads share a session; main starts and stops a mocker of the class.
SPECIFICATION Spec
CONSTANTS
  s1 = s1  s2 = s2  m1 = m1  m2 = m2  t1 = t1  t2 = t2  main = main
  Threads = {t1, t2, main}
  Starters = {main}
  Sessions = {s1}
  SessionClass = SessionClass
  Overriding = {}
  Mockers = {m1}
  Target <- ClassTargets
  Uses <- SharedUses
  Callbacks = {t1, t2}
  CallbackStarters = {}
  Joins <- NoJoins
  MaxDepth = 2
  MaxNested = 1
INVARIANTS TypeOK MockIsolation LockDiscipline AdapterRestored
SYMMETRY WorkerSymmetry

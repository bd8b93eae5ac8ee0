\* Two mockers of the class nest; the worker and main send through sessions of
\* their own, and response callbacks of the worker send requests.
SPECIFICATION Spec
CONSTANTS
  s1 = s1  s2 = s2  m1 = m1  m2 = m2  t1 = t1  t2 = t2  main = main
  Threads = {t1, main}
  Starters = {main}
  Sessions = {s1, s2}
  SessionClass = SessionClass
  Overriding = {}
  Mockers = {m1, m2}
  Target <- ClassTargets
  Uses <- PrivateUses
  Callbacks = {t1, main}
  CallbackStarters = {main}
  Joins <- NoJoins
  MaxDepth = 2
  MaxNested = 1
INVARIANTS InnermostWins ParentChain ForwardedIsReal AdaptersLocked
PROPERTIES ImplementsMockStack NeverEntersStopped
SYMMETRY MockerSymmetry

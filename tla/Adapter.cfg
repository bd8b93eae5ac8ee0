\* Two threads behind a mocker: a response list, a matcher with code, a custom
\* matcher and one that bypasses the mocking.
SPECIFICATION Spec
CONSTANTS
  a = a  b = b  c = c  real = real  r1 = r1  r2 = r2  k1 = k1  k2 = k2  t1 = t1  t2 = t2
  Locked = TRUE
  Threads = {t1, t2}
  Matchers = {a, b, c, real}
  Custom = {c}
  Resetless = {}
  RealHttp = {real}
  Coded = {b, c}
  Responses = {r1, r2}
  List <- Lists
  Kinds = {k1, k2}
  Addressed <- MCAddressed
  Accepted <- MCAccepted
  MaxDepth = 2
  MaxSends = 2
INVARIANTS TypeOK ResponsesInOrder HistoryAligned ResetForgets LatestRegistrationWins RequestKnowsMatcher
SYMMETRY ThreadSymmetry

\* Two requests get one registered response, and the program reads both bodies.
SPECIFICATION FairSpec
CONSTANTS
  q1 = q1  q2 = q2
  Requests = {q1, q2}
  Args <- MCArgs
  Size = 2
INVARIANTS TypeOK BodyIsWhole ReaderLooksLikeHTTPResponse ContextIsFresh 
PROPERTY IterationEnds
\* A registration may be refused, and a request fail.
CHECK_DEADLOCK FALSE

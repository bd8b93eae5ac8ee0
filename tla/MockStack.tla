----------------------------- MODULE MockStack -----------------------------
(***************************************************************************)
(* What requests_mock promises of mockers that nest (the documentation's   *)
(* "Nested Mockers"): the started mockers form a stack, a request is asked *)
(* of the innermost one that covers its session, and whoever refuses it    *)
(* hands it to the one that contains it, the outermost to the unmocked     *)
(* requests.  No attributes, no lock and no adapters: Mocker and Lifecycle *)
(* are the detailed specifications that implement this one.                *)
(***************************************************************************)
EXTENDS Integers, Sequences

CONSTANTS
  Threads,
  Sessions,
  Mockers,
  Covers,      \* pairs <<m, s>> in Mockers \X Sessions: m mocks s, or every session
  Unmocked,    \* requests itself, beyond the outermost mocker; no mocker
  Nobody       \* neither a mocker nor Unmocked

VARIABLES
  started,     \* the started mockers, outermost first
  requests     \* the requests in progress in each thread, outermost first

vars == <<started, requests>>

Answerers == Mockers \cup {Unmocked}

Request ==
  [session : Sessions,
   at      : Answerers,             \* whose turn it is
   asked   : Answerers \cup {Nobody}, \* who has seen it in this turn
   refused : BOOLEAN]               \* some mocker has refused it

TypeOK ==
  /\ started \in Seq(Mockers)
  /\ requests \in [Threads -> Seq(Request)]

\* The places of the mockers that mock s, and the innermost of some places.
Covering(s) == {i \in 1..Len(started) : <<started[i], s>> \in Covers}
Innermost(places) ==
  IF places = {} THEN Unmocked
  ELSE started[CHOOSE i \in places : \A j \in places : j <= i]

\* The mocker that contains m, or that would if m were started now.
Around(m, s) ==
  Innermost({i \in Covering(s) : \A j \in Covering(s) : started[j] = m => i < j})

Init ==
  /\ started = <<>>
  /\ requests = [t \in Threads |-> <<>>]

-----------------------------------------------------------------------------
Start(m) ==
  /\ \A i \in 1..Len(started) : started[i] # m
  /\ started' = Append(started, m)
  /\ UNCHANGED requests

\* The innermost mocker is stopped first.
Stop ==
  /\ started # <<>>
  /\ started' = SubSeq(started, 1, Len(started) - 1)
  /\ UNCHANGED requests

Top(t) == requests[t][Len(requests[t])]
Below(t) == SubSeq(requests[t], 1, Len(requests[t]) - 1)

Begin(t, s) ==
  /\ requests' = [requests EXCEPT ![t] =
       Append(@, [session |-> s, at |-> Innermost(Covering(s)), asked |-> Nobody,
                 refused |-> FALSE])]
  /\ UNCHANGED started

Change(t, r) ==
  /\ requests' = [requests EXCEPT ![t] = Append(Below(t), r)]
  /\ UNCHANGED started

\* The mockers inside whose answer to a request of session s thread t is.
Answering(t, s) ==
  {m \in Mockers : \E i \in 1..Len(requests[t]) - 1 :
     requests[t][i].session = s /\ requests[t][i].asked = m}

\* A request that found no mocker started still finds the adapter of a mocker
\* whose code sends it; one that every mocker has refused does not.
Ask(t) ==
  /\ requests[t] # <<>> /\ Top(t).asked = Nobody
  /\ \E m \in {Top(t).at} \cup Answering(t, Top(t).session) :
       /\ m # Top(t).at => Top(t).at = Unmocked /\ ~Top(t).refused
       /\ Change(t, [Top(t) EXCEPT !.asked = m])

\* real_http: the request goes to the containing mocker.
Refuse(t) ==
  /\ requests[t] # <<>> /\ Top(t).asked \in Mockers
  /\ Change(t, [session |-> Top(t).session, at |-> Around(Top(t).at, Top(t).session),
                asked |-> Nobody, refused |-> TRUE])

\* The request is answered, or ends in an exception.
End(t) ==
  /\ requests[t] # <<>>
  /\ requests' = [requests EXCEPT ![t] = Below(t)]
  /\ UNCHANGED started

Next ==
  \/ \E m \in Mockers : Start(m)
  \/ Stop
  \/ \E t \in Threads :
       \/ \E s \in Sessions : Begin(t, s)
       \/ Ask(t) \/ Refuse(t) \/ End(t)

Spec == Init /\ [][Next]_vars
=============================================================================

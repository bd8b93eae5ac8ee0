------------------------------ MODULE Adapter ------------------------------
(***************************************************************************)
(* The mock adapter and its matchers (src/requests_mock/adapter.py): the   *)
(* loop of Adapter.send over the registered matchers, latest first, the    *)
(* list of responses of each matcher, the two histories a request enters,  *)
(* and reset().                                                            *)
(*                                                                         *)
(* Test code runs in the middle of a send, in additional matchers, custom  *)
(* matchers and response callbacks; there it may send, register and reset. *)
(* Behind a mocker the process-wide lock of _fake_send lets one thread at  *)
(* a time into send; an adapter mounted on sessions has no lock.  No lock  *)
(* is taken by registration and reset in either case.                      *)
(***************************************************************************)
EXTENDS Integers, Sequences, FiniteSets

CONSTANTS
  Threads,    \* threads of the test program
  Locked,     \* whether sends come through a mocker's lock
  Matchers,   \* the matchers the program registers
  Custom,     \* those that are callables of the program (add_matcher)
  Resetless,  \* custom matchers that have no reset method
  RealHttp,   \* those registered with real_http=True
  Coded,      \* those that run code of the program to match
  Responses,  \* responses
  List,       \* the response list each matcher is registered with
  Kinds,      \* requests that the matchers tell apart
  Addressed,  \* <<m, k>>: method, URL and headers of m match k; any k for custom m
  Accepted,   \* <<m, k>>: the code of m accepts k
  MaxDepth,   \* bound: calls to send active in one thread
  MaxSends    \* bound: calls to send

None == "none"

\* register_uri makes one empty response when it is given none, and forbids
\* responses with real_http.
ASSUME MatchersAssumption ==
  /\ IsFiniteSet(Matchers) /\ None \notin Matchers
  /\ Custom \subseteq Coded /\ Coded \subseteq Matchers
  /\ Resetless \subseteq Custom
  /\ RealHttp \subseteq Matchers \ Custom
  /\ List \in [Matchers -> Seq(Responses)]
  /\ \A m \in Matchers : List[m] = <<>> <=> m \in RealHttp \cup Custom
ASSUME RequestsAssumption ==
  /\ Addressed \subseteq Matchers \X Kinds
  /\ Accepted \subseteq Matchers \X Kinds
  /\ Custom \X Kinds \subseteq Addressed
ASSUME BoundsAssumption ==
  /\ Locked \in BOOLEAN
  /\ MaxDepth \in Nat \ {0} /\ MaxSends \in Nat

VARIABLES
  matchers,      \* adapter._matchers, in order of registration
  responses,     \* matcher._responses
  history,       \* adapter.request_history
  matcherHistory, \* matcher.request_history
  sent,          \* every request, in the order their sends began
  calls,         \* calls to Adapter.send active in each thread, outermost first
  resetting,     \* the matcher reset() of each thread comes to next; 0 outside
  taken,         \* history variable: what each matcher took from its list, for whom
  overlapped     \* history variable: requests whose send overlapped a reset

vars == <<matchers, responses, history, matcherHistory, sent, calls, resetting,
          taken, overlapped>>

Ordinary == Matchers \ (Custom \cup RealHttp)
Outcomes == {"response", "real", "no_mock", "error"}
Ids      == 1..MaxSends
Position == 0..Cardinality(Matchers)

Request ==
  [kind    : Kinds,
   known   : Position,                  \* matchers registered when its send began
   matcher : Matchers \cup {None},      \* request._matcher
   outcome : Outcomes \cup {None}]

Call ==
  [id    : Ids,
   index : Position,                    \* the matcher of the loop's current turn
   pc    : {"match", "matching", "take", "record", "callback"},
   pop   : BOOLEAN]                     \* len(self._responses) > 1

TypeOK ==
  /\ matchers \in Seq(Matchers) /\ Len(matchers) \in Position
  /\ responses \in [Matchers -> Seq(Responses)]
  /\ history \in Seq(Ids)
  /\ matcherHistory \in [Matchers -> Seq(Ids)]
  /\ sent \in Seq(Request)
  /\ calls \in [Threads -> Seq(Call)]
  /\ resetting \in [Threads -> 0..Cardinality(Matchers) + 1]
  /\ taken \in [Matchers -> Seq([id : Ids, response : Responses])]
  /\ overlapped \subseteq Ids

-----------------------------------------------------------------------------
Matches(m, k) ==
  <<m, k>> \in Addressed /\ (m \in Coded => <<m, k>> \in Accepted)

Active(t) == calls[t] # <<>>
Top(t) == calls[t][Len(calls[t])]
At(t, label) == Active(t) /\ Top(t).pc = label
Kind(t) == sent[Top(t).id].kind
Matcher(t) == matchers[Top(t).index]

Outer(t) == SubSeq(calls[t], 1, Len(calls[t]) - 1)
SetTop(t, call) == calls' = [calls EXCEPT ![t] = Append(Outer(t), call)]

\* Code of the test program runs: outside requests, or where a matcher calls it.
InUserCode(t) ==
  /\ Active(t) => Top(t).pc \in {"matching", "callback"}
  /\ resetting[t] = 0

\* Mutant of RecordedMatcher: no except clause around matcher(request).
MutRecordedMatcher(t, outcome) ==
  IF outcome = "response" THEN Matcher(t) ELSE None

\* request._matcher is set when a matcher answers and when it raises.
RecordedMatcher(t, outcome) == IF outcome = "no_mock" THEN None ELSE Matcher(t)

End(t, outcome) ==
  /\ sent' = [sent EXCEPT ![Top(t).id].outcome = outcome,
                          ![Top(t).id].matcher = RecordedMatcher(t, outcome)]
  /\ calls' = [calls EXCEPT ![t] = Outer(t)]

InProgress ==
  {id \in Ids : \E t \in Threads : \E i \in 1..Len(calls[t]) : calls[t][i].id = id}

-----------------------------------------------------------------------------
Init ==
  /\ matchers = <<>>
  /\ responses = List
  /\ history = <<>>
  /\ matcherHistory = [m \in Matchers |-> <<>>]
  /\ sent = <<>>
  /\ calls = [t \in Threads |-> <<>>]
  /\ resetting = [t \in Threads |-> 0]
  /\ taken = [m \in Matchers |-> <<>>]
  /\ overlapped = {}

-----------------------------------------------------------------------------
(* Adapter.send.                                                           *)

\* Mutant of MayEnter: _fake_send takes no lock.
MutMayEnter(t) == TRUE

\* `with threading_rlock(...)`: another thread's send is not in progress.
MayEnter(t) == Locked => \A u \in Threads \ {t} : ~Active(u)

\* Mutant of FirstIndex: the loop starts one short of the end of the list.
MutFirstIndex == IF matchers = <<>> THEN 0 ELSE Len(matchers) - 1

\* reversed(self._matchers) begins with the latest.
FirstIndex == Len(matchers)

Send(t, k) ==
  /\ InUserCode(t) /\ MayEnter(t)
  /\ Len(calls[t]) < MaxDepth /\ Len(sent) < MaxSends
  /\ LET id == Len(sent) + 1 IN
     /\ sent' = Append(sent, [kind |-> k, known |-> Len(matchers),
                              matcher |-> None, outcome |-> None])
     /\ history' = Append(history, id)
     /\ calls' = [calls EXCEPT ![t] =
          Append(@, [id |-> id, index |-> FirstIndex, pc |-> "match", pop |-> FALSE])]
     /\ overlapped' = IF \E u \in Threads : resetting[u] # 0
                      THEN overlapped \cup {id} ELSE overlapped
  /\ UNCHANGED <<matchers, responses, matcherHistory, resetting, taken>>

\* Mutant of Several: the list is popped as long as it has a response.
MutSeveral(m) == Len(responses[m]) > 0

Several(m) == Len(responses[m]) > 1

\* The call once its matcher has matched: what len(self._responses) says.
Matched(t) ==
  IF Matcher(t) \in RealHttp THEN End(t, "real")
  ELSE IF Matcher(t) \in Custom THEN End(t, "response")
  ELSE /\ SetTop(t, [Top(t) EXCEPT !.pc = "take",
                                   !.pop = Several(Matcher(t))])
       /\ sent' = sent

\* Mutant of NextIndex: a matcher is skipped.
MutNextIndex(t) == Top(t).index - 2

NextIndex(t) == Top(t).index - 1

NextMatcher(t) ==
  SetTop(t, [Top(t) EXCEPT !.pc = "match", !.index = NextIndex(t)]) /\ sent' = sent

\* One turn of the loop, up to the code of the program that the matcher runs.
TryMatcher(t) ==
  /\ At(t, "match") /\ Top(t).index > 0
  /\ IF <<Matcher(t), Kind(t)>> \notin Addressed THEN NextMatcher(t)
     ELSE IF Matcher(t) \in Coded
     THEN SetTop(t, [Top(t) EXCEPT !.pc = "matching"]) /\ sent' = sent
     ELSE Matched(t)
  /\ UNCHANGED <<matchers, responses, history, matcherHistory, resetting, taken, overlapped>>

CodeDecides(t) ==
  /\ At(t, "matching") /\ resetting[t] = 0
  /\ IF <<Matcher(t), Kind(t)>> \in Accepted THEN Matched(t) ELSE NextMatcher(t)
  /\ UNCHANGED <<matchers, responses, history, matcherHistory, resetting, taken, overlapped>>

\* No matcher is left: NoMockAddress.
NoMockAddress(t) ==
  /\ At(t, "match") /\ Top(t).index = 0
  /\ End(t, "no_mock")
  /\ UNCHANGED <<matchers, responses, history, matcherHistory, resetting, taken, overlapped>>

\* self._responses.pop(0) or self._responses[0]; an IndexError from an empty list.
Take(t) ==
  LET m == Matcher(t) IN
  /\ At(t, "take")
  /\ IF responses[m] = <<>>
     THEN End(t, "error") /\ UNCHANGED <<responses, taken>>
     ELSE /\ taken' = [taken EXCEPT ![m] =
                Append(@, [id |-> Top(t).id, response |-> Head(responses[m])])]
          /\ responses' = IF Top(t).pop THEN [responses EXCEPT ![m] = Tail(@)]
                                        ELSE responses
          /\ SetTop(t, [Top(t) EXCEPT !.pc = "record"])
          /\ sent' = sent
  /\ UNCHANGED <<matchers, history, matcherHistory, resetting, overlapped>>

Record(t) ==
  /\ At(t, "record")
  /\ matcherHistory' = [matcherHistory EXCEPT ![Matcher(t)] = Append(@, Top(t).id)]
  /\ SetTop(t, [Top(t) EXCEPT !.pc = "callback"])
  /\ UNCHANGED <<matchers, responses, history, sent, resetting, taken, overlapped>>

\* get_response returns.
Respond(t) ==
  /\ At(t, "callback") /\ resetting[t] = 0
  /\ End(t, "response")
  /\ UNCHANGED <<matchers, responses, history, matcherHistory, resetting, taken, overlapped>>

\* get_response raises the registered exc, or code of the program raises.
Raise(t) ==
  /\ At(t, "callback") \/ At(t, "matching")
  /\ resetting[t] = 0
  /\ End(t, "error")
  /\ UNCHANGED <<matchers, responses, history, matcherHistory, resetting, taken, overlapped>>

-----------------------------------------------------------------------------
(* What the program does to the adapter without the lock.                  *)

\* register_uri and add_matcher.
Register(t, m) ==
  /\ InUserCode(t)
  /\ \A i \in 1..Len(matchers) : matchers[i] # m
  /\ matchers' = Append(matchers, m)
  /\ UNCHANGED <<responses, history, matcherHistory, sent, calls, resetting, taken, overlapped>>

ResetAdapter(t) ==
  /\ InUserCode(t)
  /\ history' = <<>>
  /\ resetting' = [resetting EXCEPT ![t] = 1]
  /\ overlapped' = overlapped \cup InProgress
  /\ UNCHANGED <<matchers, responses, matcherHistory, sent, calls, taken>>

\* Mutant of ResetDone: the last matcher is left out.
MutResetDone(t) == resetting[t] >= Len(matchers)

ResetDone(t) == resetting[t] > Len(matchers)

\* `for matcher in self._matchers: matcher.reset()`; a matcher without reset
\* ends the loop with an AttributeError.
ResetMatchers(t) ==
  /\ resetting[t] # 0
  /\ IF ResetDone(t) \/ matchers[resetting[t]] \in Resetless
     THEN /\ resetting' = [resetting EXCEPT ![t] = 0]
          /\ matcherHistory' = matcherHistory
     ELSE /\ resetting' = [resetting EXCEPT ![t] = @ + 1]
          /\ matcherHistory' = [matcherHistory EXCEPT ![matchers[resetting[t]]] = <<>>]
  /\ UNCHANGED <<matchers, responses, history, sent, calls, taken, overlapped>>

\* matcher.reset(), which leaves the adapter's history alone.
ResetMatcher(t, m) ==
  /\ InUserCode(t)
  /\ matcherHistory[m] # <<>>
  /\ matcherHistory' = [matcherHistory EXCEPT ![m] = <<>>]
  /\ UNCHANGED <<matchers, responses, history, sent, calls, resetting, taken, overlapped>>

-----------------------------------------------------------------------------
Step(t) ==
  \/ TryMatcher(t) \/ CodeDecides(t) \/ NoMockAddress(t)
  \/ Take(t) \/ Record(t) \/ Respond(t) \/ Raise(t)
  \/ ResetMatchers(t)

UserStep(t) ==
  \/ \E k \in Kinds : Send(t, k)
  \/ \E m \in Matchers : Register(t, m) \/ ResetMatcher(t, m)
  \/ ResetAdapter(t)

Next == \E t \in Threads : Step(t) \/ UserStep(t)

Spec == Init /\ [][Next]_vars

-----------------------------------------------------------------------------
(* Properties.                                                             *)

\* "Multiple responses can be provided to be returned in order [...] If the list
\* is exhausted then the last response will continue to be returned": each
\* matcher gives the responses of its list in order, then the last one for ever.
ResponsesInOrder ==
  \A m \in Ordinary :
    LET n == Len(List[m])
        Turn(i) == IF i < n THEN i ELSE n IN
    /\ \A i \in 1..Len(taken[m]) : taken[m][i].response = List[m][Turn(i)]
    /\ responses[m] = SubSeq(List[m], Turn(Len(taken[m]) + 1), n)

\* A matcher's request_history is the requests it took responses for since it was
\* last reset, in that order: history[i] got the i-th of those responses.
HistoryAligned ==
  \A m \in Ordinary :
    LET pending == {t \in Threads : At(t, "record") /\ Matcher(t) = m}
        settled == Len(taken[m]) - Cardinality(pending)
        n == Len(matcherHistory[m]) IN
    /\ n <= settled
    /\ \A i \in 1..n : matcherHistory[m][i] = taken[m][settled - n + i].id

\* The matcher that answers a request is the latest registered one that matches:
\* none registered later, when the send began, matches, and NoMockAddress is
\* raised only when none does.
LatestRegistrationWins ==
  \A id \in 1..Len(sent) :
    LET r == sent[id]
        matching == {i \in 1..r.known : Matches(matchers[i], r.kind)} IN
    r.outcome # None =>
      /\ \A i \in matching : \E j \in i..r.known : matchers[j] = r.matcher
      /\ r.outcome \in {"response", "real"} => Matches(r.matcher, r.kind)

\* A finished request in a matcher's history names that matcher, also when the
\* response was an exception.
RequestKnowsMatcher ==
  \A m \in Matchers : \A i \in 1..Len(matcherHistory[m]) :
    LET r == sent[matcherHistory[m][i]] IN r.outcome # None => r.matcher = m

\* "Resetting the adapter also resets the associated matchers": outside reset(), a
\* matcher remembers no request that the adapter has forgotten, unless the send of
\* that request was in progress during a reset.
ResetForgets ==
  (\A t \in Threads : resetting[t] = 0) =>
    \A m \in Matchers : \A i \in 1..Len(matcherHistory[m]) :
      \/ \E j \in 1..Len(history) : history[j] = matcherHistory[m][i]
      \/ matcherHistory[m][i] \in overlapped
=============================================================================

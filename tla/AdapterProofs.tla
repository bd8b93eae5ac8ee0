---------------------------- MODULE AdapterProofs ----------------------------
(* Theorems about Adapter, for all values of its constants: any threads,   *)
(* matchers, response lists and kinds of requests.                         *)
EXTENDS Adapter, SequenceFacts, FiniteSetTheorems, TLAPS

\* No matcher is registered twice, and those a request knows are registered.
Distinct == \A i, j \in 1..Len(matchers) : matchers[i] = matchers[j] => i = j
KnownSent == \A id \in 1..Len(sent) : sent[id].known <= Len(matchers)

\* A call is that of a request without an outcome. The loop has come down to a matcher
\* the request knows, all those registered later do not match, and that one does once
\* its response is being made.
CallKept(call) ==
  /\ call.id <= Len(sent)
  /\ LET r == sent[call.id] IN
     /\ r.outcome = None
     /\ call.index <= r.known
     /\ call.pc # "match" => call.index > 0
     /\ call.pc = "matching" =>
          matchers[call.index] \in Coded /\ <<matchers[call.index], r.kind>> \in Addressed
     /\ call.pc \in {"take", "record", "callback"} =>
          matchers[call.index] \in Ordinary /\ Matches(matchers[call.index], r.kind)
     /\ \A i \in call.index + 1..r.known : ~Matches(matchers[i], r.kind)

\* The calls of a thread: none but the last is out of the program's code.
CallsKept == \A t \in Threads :
  /\ Len(calls[t]) <= MaxDepth
  /\ \A i \in 1..Len(calls[t]) : CallKept(calls[t][i])
  /\ \A i \in 1..Len(calls[t]) - 1 : calls[t][i].pc \in {"matching", "callback"}

\* Every call is that of a request of its own.
CallsApart == \A t, u \in Threads : \A i \in 1..Len(calls[t]), j \in 1..Len(calls[u]) :
  calls[t][i].id = calls[u][j].id => t = u /\ i = j

\* What a matcher has in its history has begun, names the matcher when it is finished,
\* and is in that matcher's callback until then.
KnownTo(m, id) ==
  /\ id <= Len(sent)
  /\ sent[id].outcome # None => sent[id].matcher = m
  /\ \A t \in Threads : \A i \in 1..Len(calls[t]) :
       calls[t][i].id = id => calls[t][i].pc = "callback" /\ matchers[calls[t][i].index] = m

Recorded == \A m \in Matchers : \A k \in 1..Len(matcherHistory[m]) :
  KnownTo(m, matcherHistory[m][k])

Loops == TypeOK /\ Distinct /\ KnownSent /\ CallsKept /\ CallsApart /\ LatestRegistrationWins
\* With the lock, one thread is in send; what it read of the list stays true until it
\* takes the response, and what it took is the last that was taken until it records it.
OneThread == \A t, u \in Threads : Active(t) /\ Active(u) => t = u
PopKnown == \A t \in Threads : At(t, "take") => (Top(t).pop <=> Several(Matcher(t)))
LastTaken == \A t \in Threads : At(t, "record") =>
  LET took == taken[Matcher(t)] IN took # <<>> /\ took[Len(took)].id = Top(t).id

LockedInv == OneThread /\ PopKnown /\ LastTaken

\* What ResponsesInOrder and HistoryAligned say of one matcher.
Turn(m, i) == IF i < Len(List[m]) THEN i ELSE Len(List[m])

InOrder(m) ==
  /\ \A i \in 1..Len(taken[m]) : taken[m][i].response = List[m][Turn(m, i)]
  /\ responses[m] = SubSeq(List[m], Turn(m, Len(taken[m]) + 1), Len(List[m]))

Recording(t, m) == At(t, "record") /\ Matcher(t) = m
Settled(m) == Len(taken[m]) - Cardinality({t \in Threads : Recording(t, m)})

Aligned(m) ==
  LET n == Len(matcherHistory[m]) IN
  /\ n <= Settled(m)
  /\ \A i \in 1..n : matcherHistory[m][i] = taken[m][Settled(m) - n + i].id

\* A matcher with a history is registered. Its requests are in the adapter's history,
\* overlapped a reset, or the matcher's turn in a reset is still to come; and those
\* that are in progress are in the adapter's history or overlapped a reset.
Remembered(id) == id \in overlapped \/ \E j \in 1..Len(history) : history[j] = id

StillToReset == \A m \in Matchers : \A k \in 1..Len(matcherHistory[m]) :
  \/ Remembered(matcherHistory[m][k])
  \/ \E t \in Threads : /\ resetting[t] # 0
                        /\ \E i \in resetting[t]..Len(matchers) : matchers[i] = m

HistoriesRegistered == \A m \in Matchers :
  matcherHistory[m] # <<>> => \E i \in 1..Len(matchers) : matchers[i] = m

CallsRemembered == \A t \in Threads : \A i \in 1..Len(calls[t]) : Remembered(calls[t][i].id)

ResetInv == StillToReset /\ HistoriesRegistered /\ CallsRemembered

-----------------------------------------------------------------------------
(* Calls.                                                                  *)

\* The innermost call of a thread, and the others.
LEMMA TopFacts ==
  ASSUME TypeOK, NEW t \in Threads, Active(t)
  PROVE  LET n == Len(calls[t]) IN
         /\ n \in Nat \ {0} /\ Top(t) = calls[t][n] /\ Top(t) \in Call
         /\ Outer(t) \in Seq(Call) /\ Len(Outer(t)) = n - 1
         /\ \A i \in 1..n - 1 : Outer(t)[i] = calls[t][i]
<1>1. calls[t] \in Seq(Call) /\ Len(calls[t]) \in Nat \ {0}
  BY DEF TypeOK, Active
<1>2. QED
  BY <1>1, FrontSeq DEF Top, Outer

\* The innermost call of one thread changes, ends, or begins.
LEMMA SetTopFacts ==
  ASSUME TypeOK, NEW t \in Threads, Active(t), NEW c \in Call, SetTop(t, c)
  PROVE  LET n == Len(calls[t]) IN
         /\ calls' \in [Threads -> Seq(Call)]
         /\ Len(calls'[t]) = n /\ calls'[t][n] = c
         /\ \A i \in 1..n - 1 : calls'[t][i] = calls[t][i]
         /\ \A u \in Threads \ {t} : calls'[u] = calls[u]
<1> DEFINE q == Append(Outer(t), c)
<1>1. calls' = [calls EXCEPT ![t] = q] /\ calls \in [Threads -> Seq(Call)]
  BY DEF SetTop, TypeOK
<1>2. /\ q \in Seq(Call) /\ Len(q) = Len(calls[t]) /\ q[Len(calls[t])] = c
      /\ \A i \in 1..Len(calls[t]) - 1 : q[i] = calls[t][i]
  BY TopFacts
<1> HIDE DEF q
<1>3. QED
  BY <1>1, <1>2

LEMMA PopFacts ==
  ASSUME TypeOK, NEW t \in Threads, Active(t), calls' = [calls EXCEPT ![t] = Outer(t)]
  PROVE  LET n == Len(calls[t]) IN
         /\ calls' \in [Threads -> Seq(Call)]
         /\ Len(calls'[t]) = n - 1
         /\ \A i \in 1..n - 1 : calls'[t][i] = calls[t][i]
         /\ \A u \in Threads \ {t} : calls'[u] = calls[u]
BY TopFacts DEF TypeOK

LEMMA PushFacts ==
  ASSUME TypeOK, NEW t \in Threads, NEW c \in Call,
         calls' = [calls EXCEPT ![t] = Append(@, c)]
  PROVE  LET n == Len(calls[t]) IN
         /\ calls' \in [Threads -> Seq(Call)] /\ n \in Nat
         /\ Len(calls'[t]) = n + 1 /\ calls'[t][n + 1] = c
         /\ \A i \in 1..n : calls'[t][i] = calls[t][i]
         /\ \A u \in Threads \ {t} : calls'[u] = calls[u]
<1>1. calls \in [Threads -> Seq(Call)] /\ calls[t] \in Seq(Call)
  BY DEF TypeOK
<1>2. QED
  BY <1>1

\* The call on top is that of a request that has begun and is not finished.
LEMMA TopKept ==
  ASSUME Loops, NEW t \in Threads, Active(t)
  PROVE  /\ Top(t).id \in 1..Len(sent) /\ Top(t).id \in Ids /\ Top(t).index \in Nat
         /\ CallKept(Top(t)) /\ sent[Top(t).id] \in Request
         /\ Len(matchers) \in Nat
         /\ Top(t).index > 0 => Top(t).index \in 1..Len(matchers) /\ Matcher(t) \in Matchers
<1>1. /\ Len(calls[t]) \in Nat \ {0} /\ Top(t) = calls[t][Len(calls[t])] /\ Top(t) \in Call
  BY TopFacts DEF Loops
<1>2. CallKept(Top(t))
  BY <1>1 DEF Loops, CallsKept
<1>3. Top(t).id \in Ids /\ Top(t).index \in Position
  BY <1>1 DEF Call
<1>4. Top(t).index \in Nat
  BY <1>3, MatchersAssumption, FS_CardinalityType DEF Position
<1>5. Top(t).id \in 1..Len(sent)
  BY <1>2, <1>3 DEF CallKept, Ids
<1>6. sent[Top(t).id] \in Request /\ Len(matchers) \in Nat /\ matchers \in Seq(Matchers)
  BY <1>5 DEF Loops, TypeOK
<1>7. sent[Top(t).id].known \in Nat
  BY <1>6, MatchersAssumption, FS_CardinalityType DEF Request, Position
<1>8. Top(t).index <= Len(matchers)
  BY <1>2, <1>4, <1>5, <1>6, <1>7 DEF Loops, KnownSent, CallKept
<1>9. QED
  BY <1>2, <1>3, <1>4, <1>5, <1>6, <1>8 DEF Matcher

\* The request of a call that ends gets its outcome and its matcher.
LEMMA EndFacts ==
  ASSUME Loops, NEW t \in Threads, Active(t), NEW o \in Outcomes, End(t, o),
         o # "no_mock" => Top(t).index > 0
  PROVE  LET k == Top(t).id IN
         /\ sent' \in Seq(Request) /\ Len(sent') = Len(sent) /\ k \in 1..Len(sent)
         /\ sent'[k].kind = sent[k].kind /\ sent'[k].known = sent[k].known
         /\ sent'[k].outcome = o
         /\ sent'[k].matcher = IF o = "no_mock" THEN None ELSE Matcher(t)
         /\ \A i \in 1..Len(sent) : i # k => sent'[i] = sent[i]
<1> DEFINE k == Top(t).id
           m == IF o = "no_mock" THEN None ELSE Matcher(t)
           r == [sent[k] EXCEPT !.outcome = o, !.matcher = m]
<1>1. k \in 1..Len(sent) /\ sent[k] \in Request /\ sent \in Seq(Request)
      /\ m \in Matchers \cup {None}
  BY TopKept DEF Loops, TypeOK
<1>2. r \in Request /\ r.kind = sent[k].kind /\ r.known = sent[k].known /\ r.outcome = o
      /\ r.matcher = m
  <2> HIDE DEF k, m
  <2> QED BY <1>1 DEF Request
<1>3. sent' = [sent EXCEPT ![k] = r]
  BY <1>1 DEF End, RecordedMatcher
<1> HIDE DEF r, k
<1>4. QED
  BY <1>1, <1>2, <1>3 DEF k

-----------------------------------------------------------------------------
(* The loops of Adapter.send.                                              *)

\* What LatestRegistrationWins says of one request.
Won(id) ==
  LET r == sent[id]
      matching == {i \in 1..r.known : Matches(matchers[i], r.kind)} IN
  r.outcome # None =>
    /\ \A i \in matching : \E j \in i..r.known : matchers[j] = r.matcher
    /\ r.outcome \in {"response", "real"} => Matches(r.matcher, r.kind)

LEMMA KnownNat ==
  ASSUME TypeOK, NEW id \in 1..Len(sent)
  PROVE  sent[id] \in Request /\ sent[id].known \in Nat
<1>1. sent[id] \in Request
  BY DEF TypeOK
<1>2. sent[id].known \in Position
  BY <1>1 DEF Request
<1>3. QED
  BY <1>1, <1>2, MatchersAssumption, FS_CardinalityType DEF Position

LEMMA CallNat ==
  ASSUME NEW c \in Call
  PROVE  c.id \in Nat \ {0} /\ c.index \in Nat
BY MatchersAssumption, FS_CardinalityType DEF Call, Position, Ids

\* A step that keeps to itself the registered matchers and a request keeps what is said
\* of the request and of its call.
LEMMA WonStays ==
  ASSUME Loops, NEW id \in 1..Len(sent), sent'[id] = sent[id],
         \A i \in 1..Len(matchers) : matchers'[i] = matchers[i]
  PROVE  Won(id)'
<1>1. sent[id].known \in Nat /\ sent[id].known <= Len(matchers) /\ Len(matchers) \in Nat
  <2>1. TypeOK /\ KnownSent
    BY DEF Loops
  <2>2. Len(matchers) \in Nat
    BY <2>1 DEF TypeOK
  <2>3. QED
    BY <2>1, <2>2, KnownNat DEF KnownSent
<1>2. \A i \in 1..sent[id].known : matchers'[i] = matchers[i]
  BY <1>1
<1>3. Won(id)
  BY DEF Loops, LatestRegistrationWins, Won
<1>4. QED
  BY <1>1, <1>2, <1>3 DEF Won, Matches

LEMMA CallStaysKept ==
  ASSUME Loops, NEW c \in Call, CallKept(c), Len(sent') >= Len(sent), Len(sent') \in Nat,
         sent'[c.id] = sent[c.id], \A i \in 1..Len(matchers) : matchers'[i] = matchers[i]
  PROVE  CallKept(c)'
<1>1. c.id \in 1..Len(sent) /\ c.index \in Nat /\ Len(sent) \in Nat
  <2>1. Len(sent) \in Nat
    BY DEF Loops, TypeOK
  <2>2. c.id \in Nat \ {0} /\ c.index \in Nat
    BY CallNat
  <2>3. c.id <= Len(sent)
    BY DEF CallKept
  <2>4. QED
    BY <2>1, <2>2, <2>3
<1>2. /\ sent[c.id].known \in Nat /\ sent[c.id].known <= Len(matchers)
      /\ Len(matchers) \in Nat
  <2>1. TypeOK /\ KnownSent
    BY DEF Loops
  <2>2. Len(matchers) \in Nat
    BY <2>1 DEF TypeOK
  <2>3. QED
    BY <1>1, <2>1, <2>2, KnownNat DEF KnownSent
<1>3. \A i \in 1..sent[c.id].known : matchers'[i] = matchers[i]
  BY <1>2
<1>4. QED
  <2>1. c.id <= Len(sent')
    BY <1>1
  <2>2. \A i \in 1..sent[c.id].known : Matches(matchers'[i], sent'[c.id].kind)
                                       <=> Matches(matchers[i], sent[c.id].kind)
    BY <1>3 DEF Matches
  <2>3. c.index > 0 => c.index \in 1..sent[c.id].known
    BY <1>1, <1>2 DEF CallKept
  <2>4. c.index + 1..sent[c.id].known \subseteq 1..sent[c.id].known
    BY <1>1, <1>2
  <2>5. QED
    BY <1>3, <2>1, <2>2, <2>3, <2>4 DEF CallKept

\* Steps that change no call and no request: a matcher may be registered.
LEMMA SameLoops ==
  ASSUME Loops, TypeOK', Distinct', UNCHANGED <<sent, calls>>,
         Len(matchers') >= Len(matchers),
         \A i \in 1..Len(matchers) : matchers'[i] = matchers[i]
  PROVE  Loops'
<1>1. CallsKept'
  <2>1. ASSUME NEW t \in Threads, NEW i \in 1..Len(calls[t])
        PROVE  CallKept(calls[t][i])'
    <3>1. calls[t][i] \in Call /\ CallKept(calls[t][i]) /\ Len(sent) \in Nat
      BY <2>1 DEF Loops, TypeOK, CallsKept
    <3>2. PICK c \in Call : c = calls[t][i]
      BY <3>1
    <3>3. CallKept(c)'
      BY <3>1, <3>2, CallStaysKept
    <3>4. QED
      BY <3>2, <3>3 DEF CallKept
  <2>2. QED
    BY <2>1 DEF CallsKept, Loops
<1>2. LatestRegistrationWins'
  BY WonStays DEF LatestRegistrationWins, Won
<1>3. KnownSent'
  <2>1. Len(matchers) \in Nat /\ Len(matchers') \in Nat
    BY DEF Loops, TypeOK
  <2>2. \A id \in 1..Len(sent) : sent[id].known \in Nat
    BY KnownNat DEF Loops
  <2>3. QED
    BY <2>1, <2>2 DEF KnownSent, Loops
<1>4. QED
  BY <1>1, <1>2, <1>3 DEF Loops, CallsApart

\* A call goes on.
LEMMA MoveLoops ==
  ASSUME Loops, TypeOK', NEW t \in Threads, Active(t), NEW c \in Call,
         c.id = Top(t).id, CallKept(c), SetTop(t, c), UNCHANGED <<matchers, sent>>
  PROVE  Loops'
<1> DEFINE n == Len(calls[t])
<1>1. /\ Len(calls'[t]) = n /\ calls'[t][n] = c
      /\ \A i \in 1..n - 1 : calls'[t][i] = calls[t][i]
      /\ \A u \in Threads \ {t} : calls'[u] = calls[u]
  BY SetTopFacts DEF Loops
<1>2. n \in Nat \ {0} /\ calls[t][n].id = c.id
  BY TopFacts DEF Loops
<1>3. \A u \in Threads : /\ Len(calls'[u]) = Len(calls[u])
                         /\ \A i \in 1..Len(calls[u]) : calls'[u][i].id = calls[u][i].id
  BY <1>1, <1>2
<1>4. CallsApart'
  BY <1>3 DEF CallsApart, Loops
<1>5. CallsKept'
  <2>1. ASSUME NEW u \in Threads, NEW i \in 1..Len(calls[u])
        PROVE  CallKept(calls[u][i])'
    <3>1. calls'[u][i] = c \/ calls'[u][i] = calls[u][i]
      BY <1>1, <1>2, <2>1
    <3>2. CallKept(c) /\ CallKept(calls[u][i])
      BY <2>1 DEF Loops, CallsKept
    <3>3. QED
      BY <3>1, <3>2 DEF CallKept
  <2>2. ASSUME NEW u \in Threads, NEW i \in 1..Len(calls[u]) - 1
        PROVE  calls'[u][i].pc \in {"matching", "callback"}
    <3>1. calls'[u][i] = calls[u][i]
      BY <1>1, <1>2, <2>2
    <3>2. QED
      BY <2>2, <3>1 DEF Loops, CallsKept
  <2>3. QED
    BY <1>3, <2>1, <2>2 DEF CallsKept, Loops
<1>6. QED
  BY <1>4, <1>5 DEF Loops, Distinct, KnownSent, LatestRegistrationWins

\* A call ends with the outcome that its loop leads to.
LEMMA EndLoops ==
  ASSUME Loops, TypeOK', NEW t \in Threads, Active(t), NEW o \in Outcomes, End(t, o),
         matchers' = matchers,
         o = "no_mock" => Top(t).index = 0,
         o # "no_mock" => Top(t).index > 0,
         o \in {"response", "real"} => Matches(Matcher(t), Kind(t))
  PROVE  Loops'
<1> DEFINE n == Len(calls[t])
<1>0. PICK k \in 1..Len(sent) : k = Top(t).id
  BY TopKept
<1>1. /\ Len(calls'[t]) = n - 1
      /\ \A i \in 1..n - 1 : calls'[t][i] = calls[t][i]
      /\ \A u \in Threads \ {t} : calls'[u] = calls[u]
  BY PopFacts DEF Loops, End
<1>2. n \in Nat \ {0} /\ calls[t][n].id = k
  BY <1>0, TopFacts DEF Loops
<1>3. /\ Len(sent') = Len(sent) /\ k \in 1..Len(sent) /\ Len(sent) \in Nat
      /\ sent'[k].kind = sent[k].kind /\ sent'[k].known = sent[k].known
      /\ sent'[k].outcome = o
      /\ sent'[k].matcher = IF o = "no_mock" THEN None ELSE Matcher(t)
      /\ \A i \in 1..Len(sent) : i # k => sent'[i] = sent[i]
  <2>1. Len(sent) \in Nat
    BY DEF Loops, TypeOK
  <2>2. QED
    BY <1>0, <2>1, EndFacts
<1>4. \A u \in Threads : /\ Len(calls'[u]) <= Len(calls[u])
                         /\ \A i \in 1..Len(calls'[u]) :
                              i \in 1..Len(calls[u]) /\ calls'[u][i] = calls[u][i]
  <2>1. \A u \in Threads : Len(calls[u]) \in Nat
    BY DEF Loops, TypeOK
  <2>2. ASSUME NEW u \in Threads
        PROVE  /\ Len(calls'[u]) <= Len(calls[u])
               /\ \A i \in 1..Len(calls'[u]) :
                    i \in 1..Len(calls[u]) /\ calls'[u][i] = calls[u][i]
    <3>1. CASE u = t
      BY <1>1, <1>2, <3>1
    <3>2. CASE u # t
      BY <1>1, <2>1, <3>2
    <3>3. QED
      BY <3>1, <3>2
  <2>3. QED
    BY <2>2
<1>5. CallsApart'
  <2> SUFFICES ASSUME NEW u \in Threads, NEW v \in Threads,
                      NEW i \in 1..Len(calls'[u]), NEW j \in 1..Len(calls'[v]),
                      calls'[u][i].id = calls'[v][j].id
               PROVE  u = v /\ i = j
    BY DEF CallsApart
  <2>1. /\ i \in 1..Len(calls[u]) /\ j \in 1..Len(calls[v])
        /\ calls[u][i].id = calls[v][j].id
    BY <1>4
  <2>2. CallsApart
    BY DEF Loops
  <2>3. QED
    BY <2>1, <2>2 DEF CallsApart
<1>6. \A u \in Threads : \A i \in 1..Len(calls'[u]) : calls[u][i].id # k
  <2> SUFFICES ASSUME NEW u \in Threads, NEW i \in 1..Len(calls'[u]), calls[u][i].id = k
               PROVE  FALSE
    OBVIOUS
  <2>1. i \in 1..Len(calls[u]) /\ n \in 1..Len(calls[t])
    BY <1>2, <1>4
  <2>2. u = t /\ i = n
    BY <1>2, <2>1 DEF Loops, CallsApart
  <2>3. QED
    BY <1>1, <1>2, <2>2
<1>7. CallsKept'
  <2>1. ASSUME NEW u \in Threads, NEW i \in 1..Len(calls'[u])
        PROVE  CallKept(calls[u][i])'
    <3>1. /\ calls'[u][i] = calls[u][i] /\ calls[u][i] \in Call /\ CallKept(calls[u][i])
          /\ calls[u][i].id # k
      <4>1. i \in 1..Len(calls[u]) /\ calls'[u][i] = calls[u][i]
        BY <1>4, <2>1
      <4>2. calls[u][i] \in Call /\ CallKept(calls[u][i])
        BY <4>1 DEF Loops, CallsKept, TypeOK
      <4>3. QED
        BY <1>6, <2>1, <4>1, <4>2
    <3>2. PICK c \in Call : c = calls[u][i]
      BY <3>1
    <3>3. c.id \in 1..Len(sent)
      BY <3>1, <3>2, CallNat DEF CallKept
    <3>4. CallKept(c)'
      BY <1>3, <3>1, <3>2, <3>3, CallStaysKept
    <3>5. QED
      BY <3>1, <3>2, <3>4 DEF CallKept
  <2>2. ASSUME NEW u \in Threads
        PROVE  /\ Len(calls'[u]) <= MaxDepth
               /\ \A i \in 1..Len(calls'[u]) - 1 : calls'[u][i].pc \in {"matching", "callback"}
    <3>1. Len(calls[u]) \in Nat /\ Len(calls'[u]) \in Nat /\ Len(calls[u]) <= MaxDepth
      BY DEF Loops, TypeOK, CallsKept
    <3>2. \A i \in 1..Len(calls'[u]) - 1 : i \in 1..Len(calls[u]) - 1 /\ i \in 1..Len(calls'[u])
      BY <1>4, <3>1
    <3>3. Len(calls'[u]) <= MaxDepth
      BY <1>4, <3>1, BoundsAssumption
    <3>4. \A i \in 1..Len(calls[u]) - 1 : calls[u][i].pc \in {"matching", "callback"}
      BY DEF Loops, CallsKept
    <3>5. QED
      BY <1>4, <3>2, <3>3, <3>4
  <2>3. QED
    BY <2>1, <2>2 DEF CallsKept
<1>8. KnownSent'
  BY <1>3 DEF KnownSent, Loops
<1>9. Won(k)'
  <2>1. CallKept(Top(t)) /\ Top(t).index \in Nat /\ sent[k].known \in Nat
    BY TopKept, KnownNat DEF Loops
  <2>2. \A i \in Top(t).index + 1..sent[k].known : ~Matches(matchers[i], sent[k].kind)
    BY <1>0, <2>1 DEF CallKept
  <2>3. Top(t).index <= sent[k].known
    BY <1>0, <2>1 DEF CallKept
  <2>4. /\ \A i \in 1..sent[k].known :
             Matches(matchers[i], sent[k].kind) =>
               \E j \in i..sent[k].known : matchers[j] = sent'[k].matcher
        /\ o \in {"response", "real"} => Matches(sent'[k].matcher, sent[k].kind)
    <3>1. CASE o = "no_mock"
      <4>1. \A i \in 1..sent[k].known : i \in Top(t).index + 1..sent[k].known
        BY <2>1, <3>1
      <4>2. QED
        BY <2>2, <3>1, <4>1
    <3>2. CASE o # "no_mock"
      <4>1. sent'[k].matcher = matchers[Top(t).index]
        BY <1>3, <3>2 DEF Matcher
      <4>2. \A i \in 1..sent[k].known :
              Matches(matchers[i], sent[k].kind) => Top(t).index \in i..sent[k].known
        BY <2>1, <2>2, <2>3
      <4>3. QED
        BY <1>0, <4>1, <4>2 DEF Matcher, Kind
    <3>3. QED
      BY <3>1, <3>2
  <2>5. QED
    BY <1>3, <2>4 DEF Won, Matches
<1>10. LatestRegistrationWins'
  <2>1. \A id \in 1..Len(sent) : id # k => Won(id)'
    BY <1>3, WonStays
  <2>2. QED
    BY <1>3, <1>9, <2>1 DEF LatestRegistrationWins, Won
<1>11. QED
  BY <1>5, <1>7, <1>8, <1>10 DEF Loops, Distinct

-----------------------------------------------------------------------------
(* Every step keeps Loops.                                                 *)

\* In a step of its loop, a call goes on or ends.
Moves(t, c) ==
  /\ Active(t) /\ c.id = Top(t).id /\ CallKept(c) /\ SetTop(t, c)
  /\ UNCHANGED <<matchers, sent>>

Ends(t, o) ==
  /\ Active(t) /\ End(t, o) /\ matchers' = matchers
  /\ o = "no_mock" <=> Top(t).index = 0
  /\ o \in {"response", "real"} => Matches(Matcher(t), Kind(t))

\* A call whose matcher has matched takes a response, or ends.
LEMMA MatchedShape ==
  ASSUME Loops, NEW t \in Threads, Active(t), Top(t).index > 0,
         Matches(Matcher(t), Kind(t)), Matched(t), matchers' = matchers
  PROVE  \/ \E c \in Call : /\ Moves(t, c) /\ c.pc = "take" /\ c.index = Top(t).index
                            /\ c.pop <=> Several(Matcher(t))
         \/ \E o \in {"response", "real"} : Ends(t, o)
<1> DEFINE c == [Top(t) EXCEPT !.pc = "take", !.pop = Several(Matcher(t))]
<1>1. /\ Top(t) \in Call /\ CallKept(Top(t)) /\ Matcher(t) \in Matchers
      /\ Top(t).index \in Nat
  BY TopKept, TopFacts DEF Loops
<1>2. Several(Matcher(t)) \in BOOLEAN
  BY DEF Several
<1>3. /\ c \in Call /\ c.id = Top(t).id /\ c.index = Top(t).index /\ c.pc = "take"
      /\ c.pop = Several(Matcher(t))
  BY <1>1, <1>2 DEF Call
<1>4. CASE Matcher(t) \in RealHttp \cup Custom
  BY <1>1, <1>4, MatchersAssumption DEF Matched, Ends
<1>5. CASE Matcher(t) \notin RealHttp \cup Custom
  <2>1. SetTop(t, c) /\ sent' = sent
    BY <1>5 DEF Matched
  <2> HIDE DEF c
  <2>2. CallKept(c)
    BY <1>1, <1>3, <1>5 DEF CallKept, Matcher, Kind, Ordinary
  <2>3. QED
    BY <1>3, <2>1, <2>2 DEF Moves
<1>6. QED
  BY <1>4, <1>5

\* A call whose matcher has not matched turns to the one registered before.
LEMMA NextShape ==
  ASSUME Loops, NEW t \in Threads, Active(t), Top(t).index > 0,
         ~Matches(Matcher(t), Kind(t)), NextMatcher(t), matchers' = matchers
  PROVE  \E c \in Call : Moves(t, c) /\ c.pc = "match"
<1> DEFINE c == [Top(t) EXCEPT !.pc = "match", !.index = NextIndex(t)]
<1>1. Top(t) \in Call /\ CallKept(Top(t)) /\ Top(t).index \in Nat
  BY TopKept, TopFacts DEF Loops
<1>2. Top(t).index - 1 \in Position
  BY <1>1, MatchersAssumption, FS_CardinalityType DEF Call, Position
<1>3. c \in Call /\ c.id = Top(t).id /\ c.index = Top(t).index - 1 /\ c.pc = "match"
  BY <1>1, <1>2 DEF Call, NextIndex
<1>4. SetTop(t, c) /\ sent' = sent
  BY DEF NextMatcher
<1> HIDE DEF c
<1>5. sent[c.id].known \in Nat
  BY <1>3, TopKept, KnownNat DEF Loops
<1>6. CallKept(c)
  <2>1. /\ c.id <= Len(sent) /\ sent[c.id].outcome = None
        /\ Top(t).index <= sent[c.id].known
        /\ \A i \in Top(t).index + 1..sent[c.id].known : ~Matches(matchers[i], sent[c.id].kind)
    BY <1>1, <1>3 DEF CallKept
  <2>2. ~Matches(matchers[Top(t).index], sent[c.id].kind)
    BY <1>3 DEF Matcher, Kind
  <2>3. \A i \in c.index + 1..sent[c.id].known :
          i = Top(t).index \/ i \in Top(t).index + 1..sent[c.id].known
    BY <1>1, <1>3, <1>5
  <2>4. c.index <= sent[c.id].known
    BY <1>1, <1>3, <1>5, <2>1
  <2>5. QED
    BY <1>3, <2>1, <2>2, <2>3, <2>4 DEF CallKept
<1>7. QED
  BY <1>3, <1>4, <1>6 DEF Moves

\* One turn of the loop.
LEMMA TurnShape ==
  ASSUME Loops, NEW t \in Threads, TryMatcher(t) \/ CodeDecides(t)
  PROVE  /\ Active(t) /\ Top(t).pc \in {"match", "matching"}
         /\ \/ \E c \in Call : /\ Moves(t, c) /\ c.pc \in {"match", "matching", "take"}
                               /\ c.pc = "take" => /\ c.index = Top(t).index
                                                   /\ c.pop <=> Several(Matcher(t))
            \/ \E o \in {"response", "real"} : Ends(t, o)
<1>1. /\ Active(t) /\ Top(t).pc \in {"match", "matching"} /\ matchers' = matchers
  BY DEF TryMatcher, CodeDecides, At
<1>2. /\ Top(t) \in Call /\ CallKept(Top(t)) /\ Top(t).index \in Nat
      /\ Top(t).index > 0
  <2>1. /\ Top(t) \in Call /\ CallKept(Top(t)) /\ Top(t).index \in Nat
    BY <1>1, TopKept, TopFacts DEF Loops
  <2>2. QED
    BY <2>1 DEF TryMatcher, CodeDecides, At, CallKept
<1>3. Matcher(t) \in Matchers /\ Matcher(t) = matchers[Top(t).index]
      /\ Kind(t) = sent[Top(t).id].kind
  BY <1>1, <1>2, TopKept DEF Matcher, Kind
<1>4. CASE NextMatcher(t) /\ ~Matches(Matcher(t), Kind(t))
  BY <1>1, <1>2, <1>4, NextShape
<1>5. CASE Matched(t) /\ Matches(Matcher(t), Kind(t))
  BY <1>1, <1>2, <1>5, MatchedShape
<1>6. CASE /\ SetTop(t, [Top(t) EXCEPT !.pc = "matching"]) /\ sent' = sent
           /\ Matcher(t) \in Coded /\ <<Matcher(t), Kind(t)>> \in Addressed
  <2> DEFINE c == [Top(t) EXCEPT !.pc = "matching"]
  <2>1. c \in Call /\ c.id = Top(t).id /\ c.index = Top(t).index /\ c.pc = "matching"
    BY <1>2 DEF Call
  <2>2. SetTop(t, c) /\ sent' = sent
    BY <1>6
  <2> HIDE DEF c
  <2>3. CallKept(c)
    BY <1>2, <1>3, <1>6, <2>1 DEF CallKept
  <2>4. QED
    BY <1>1, <2>1, <2>2, <2>3 DEF Moves
<1>7. CASE TryMatcher(t)
  BY <1>4, <1>5, <1>6, <1>7 DEF TryMatcher, Matches
<1>8. CASE CodeDecides(t)
  <2>1. Matcher(t) \in Coded /\ <<Matcher(t), Kind(t)>> \in Addressed
    BY <1>2, <1>3, <1>8 DEF CodeDecides, At, CallKept
  <2>2. QED
    BY <1>4, <1>5, <1>8, <2>1 DEF CodeDecides, Matches
<1>9. QED
  BY <1>7, <1>8

\* The other steps of a call.
LEMMA AnswerShape ==
  ASSUME Loops, NEW t \in Threads, NoMockAddress(t) \/ Respond(t) \/ Raise(t)
  PROVE  /\ Active(t) /\ Top(t).pc \in {"match", "matching", "callback"}
         /\ Top(t).pc = "match" => NoMockAddress(t)
         /\ \E o \in Outcomes : Ends(t, o)
<1>1. Active(t) /\ matchers' = matchers
  BY DEF NoMockAddress, Respond, Raise, At
<1>2. Top(t) \in Call /\ CallKept(Top(t)) /\ Top(t).index \in Nat
  BY <1>1, TopKept, TopFacts DEF Loops
<1>3. CASE NoMockAddress(t)
  BY <1>1, <1>3 DEF NoMockAddress, Ends, At, Outcomes
<1>4. CASE Respond(t)
  <2>1. Top(t).index > 0 /\ Matches(Matcher(t), Kind(t)) /\ Top(t).pc = "callback"
    BY <1>2, <1>4 DEF Respond, At, CallKept, Matcher, Kind
  <2>2. QED
    BY <1>1, <1>2, <1>4, <2>1 DEF Respond, Ends, Outcomes
<1>5. CASE Raise(t)
  <2>1. Top(t).index > 0 /\ Top(t).pc \in {"matching", "callback"}
    BY <1>2, <1>5 DEF Raise, At, CallKept
  <2>2. QED
    BY <1>1, <1>2, <1>5, <2>1 DEF Raise, Ends, Outcomes
<1>6. QED
  BY <1>3, <1>4, <1>5

LEMMA TakeShape ==
  ASSUME Loops, NEW t \in Threads, Take(t) \/ Record(t)
  PROVE  /\ Active(t) /\ Top(t).pc \in {"take", "record"} /\ Matcher(t) \in Ordinary
         /\ \/ \E c \in Call : /\ Moves(t, c) /\ c.index = Top(t).index
                               /\ \/ c.pc = "record" /\ Take(t) /\ responses[Matcher(t)] # <<>>
                                  \/ c.pc = "callback" /\ Record(t)
            \/ Ends(t, "error") /\ Take(t) /\ responses[Matcher(t)] = <<>>
<1>1. Active(t) /\ matchers' = matchers /\ Top(t).pc \in {"take", "record"}
  BY DEF Take, Record, At
<1>2. Top(t) \in Call /\ CallKept(Top(t)) /\ Top(t).index \in Nat
  BY <1>1, TopKept, TopFacts DEF Loops
<1>3. Matcher(t) \in Ordinary /\ Top(t).index > 0
  BY <1>1, <1>2 DEF CallKept, Matcher
<1>4. ASSUME NEW pc \in {"record", "callback"}, SetTop(t, [Top(t) EXCEPT !.pc = pc]),
             sent' = sent
      PROVE  \E c \in Call : Moves(t, c) /\ c.index = Top(t).index /\ c.pc = pc
  <2> DEFINE c == [Top(t) EXCEPT !.pc = pc]
  <2>1. c \in Call /\ c.id = Top(t).id /\ c.index = Top(t).index /\ c.pc = pc
    BY <1>2, <1>4 DEF Call
  <2>2. SetTop(t, c)
    BY <1>4
  <2> HIDE DEF c
  <2>3. CallKept(c)
    BY <1>1, <1>2, <2>1 DEF CallKept
  <2>4. QED
    BY <1>1, <1>4, <2>1, <2>2, <2>3 DEF Moves
<1>5. CASE Take(t)
  BY <1>1, <1>2, <1>3, <1>4, <1>5 DEF Take, Ends, Outcomes
<1>6. CASE Record(t)
  BY <1>1, <1>2, <1>3, <1>4, <1>6 DEF Record
<1>7. QED
  BY <1>5, <1>6

\* What a step of a call does to the types.
LEMMA MovesEndsType ==
  ASSUME Loops, NEW t \in Threads,
         (\E c \in Call : Moves(t, c)) \/ (\E o \in Outcomes : Ends(t, o))
  PROVE  /\ Active(t) /\ matchers' = matchers
         /\ calls' \in [Threads -> Seq(Call)] /\ sent' \in Seq(Request)
<1>1. CASE \E c \in Call : Moves(t, c)
  <2>1. PICK c \in Call : Moves(t, c)
    BY <1>1
  <2>2. Active(t) /\ SetTop(t, c) /\ sent' = sent /\ TypeOK
    BY <2>1 DEF Moves, Loops
  <2>3. calls' \in [Threads -> Seq(Call)]
    BY <2>2, SetTopFacts
  <2>4. QED
    BY <2>1, <2>2, <2>3 DEF Moves, TypeOK
<1>2. CASE \E o \in Outcomes : Ends(t, o)
  <2>1. PICK o \in Outcomes : Ends(t, o)
    BY <1>2
  <2>2. Active(t) /\ End(t, o) /\ (o # "no_mock" => Top(t).index > 0) /\ TypeOK
    <3>1. Active(t) /\ End(t, o) /\ TypeOK
      BY <2>1 DEF Ends, Loops
    <3>2. o # "no_mock" => Top(t).index # 0
      BY <2>1 DEF Ends
    <3>3. QED
      BY <3>1, <3>2, TopKept
  <2>3. calls' \in [Threads -> Seq(Call)]
    BY <2>2, PopFacts DEF End
  <2>4. sent' \in Seq(Request)
    BY <2>2, EndFacts
  <2>5. QED
    BY <2>1, <2>2, <2>3, <2>4 DEF Ends
<1>3. QED
  BY <1>1, <1>2

LEMMA MovesEndsLoops ==
  ASSUME Loops, TypeOK', NEW t \in Threads,
         (\E c \in Call : Moves(t, c)) \/ (\E o \in Outcomes : Ends(t, o))
  PROVE  Loops'
<1>1. CASE \E c \in Call : Moves(t, c)
  BY <1>1, MoveLoops DEF Moves
<1>2. CASE \E o \in Outcomes : Ends(t, o)
  <2>1. PICK o \in Outcomes : Ends(t, o)
    BY <1>2
  <2>2. Active(t) /\ Top(t).index \in Nat
    BY <2>1, TopKept DEF Ends
  <2>3. QED
    BY <2>1, <2>2, EndLoops DEF Ends
<1>3. QED
  BY <1>1, <1>2

\* As many matchers are registered as the program has, at most.
LEMMA MatchersCounted ==
  ASSUME NEW q \in Seq(Matchers), \A i, j \in 1..Len(q) : q[i] = q[j] => i = j
  PROVE  Len(q) \in Position
<1>1. q \in [1..Len(q) -> Matchers] /\ Len(q) \in Nat
  OBVIOUS
<1>2. q \in Injection(1..Len(q), Matchers)
  BY <1>1 DEF Injection, IsInjective
<1>3. Cardinality(1..Len(q)) <= Cardinality(Matchers)
  BY <1>2, MatchersAssumption, FS_Injection
<1>4. Cardinality(1..Len(q)) = Len(q)
  <2>1. PICK n \in Nat : n = Len(q)
    BY <1>1
  <2>2. Cardinality(1..n) = IF 1 > n THEN 0 ELSE n - 1 + 1
    BY FS_Interval
  <2>3. QED
    BY <2>1, <2>2
<1>5. QED
  BY <1>1, <1>3, <1>4, MatchersAssumption, FS_CardinalityType DEF Position

LEMMA RegisterKeeps ==
  ASSUME Loops, NEW t \in Threads, NEW m \in Matchers, Register(t, m)
  PROVE  /\ matchers' \in Seq(Matchers) /\ Len(matchers') = Len(matchers) + 1
         /\ Len(matchers) \in Nat
         /\ \A i \in 1..Len(matchers) : matchers'[i] = matchers[i]
         /\ Distinct' /\ Len(matchers') \in Position
<1>1. /\ matchers' = Append(matchers, m) /\ matchers \in Seq(Matchers) /\ Distinct
      /\ \A i \in 1..Len(matchers) : matchers[i] # m
  BY DEF Register, Loops, TypeOK
<1>2. /\ matchers' \in Seq(Matchers) /\ Len(matchers') = Len(matchers) + 1
      /\ Len(matchers) \in Nat /\ matchers'[Len(matchers) + 1] = m
      /\ \A i \in 1..Len(matchers) : matchers'[i] = matchers[i]
  BY <1>1
<1>3. Distinct'
  BY <1>1, <1>2 DEF Distinct
<1>4. QED
  BY <1>2, <1>3, MatchersCounted DEF Distinct

\* A new request, and its call.
LEMMA SendShape ==
  ASSUME Loops, NEW t \in Threads, NEW k \in Kinds, Send(t, k)
  PROVE  LET id == Len(sent) + 1
             n  == Len(calls[t]) IN
         /\ id \in Ids /\ n \in Nat /\ n < MaxDepth
         /\ sent' \in Seq(Request) /\ Len(sent') = id /\ Len(sent) \in Nat
         /\ \A i \in 1..Len(sent) : sent'[i] = sent[i]
         /\ sent'[id].outcome = None /\ sent'[id].known = Len(matchers)
         /\ calls' \in [Threads -> Seq(Call)] /\ Len(calls'[t]) = n + 1
         /\ \A i \in 1..n : calls'[t][i] = calls[t][i]
         /\ \A u \in Threads \ {t} : calls'[u] = calls[u]
         /\ calls'[t][n + 1].id = id /\ calls'[t][n + 1].index = Len(matchers)
         /\ calls'[t][n + 1].pc = "match"
         /\ history' = Append(history, id)
         /\ n > 0 => calls[t][n].pc \in {"matching", "callback"}
         /\ UNCHANGED <<matchers, responses, matcherHistory, resetting, taken>>
<1> DEFINE id == Len(sent) + 1
           r == [kind |-> k, known |-> Len(matchers), matcher |-> None, outcome |-> None]
           c == [id |-> id, index |-> FirstIndex, pc |-> "match", pop |-> FALSE]
<1>1. /\ sent \in Seq(Request) /\ Len(sent) \in Nat /\ Len(matchers) \in Position /\ TypeOK
      /\ calls[t] \in Seq(Call)
  <2>1. TypeOK
    BY DEF Loops
  <2>2. sent \in Seq(Request) /\ Len(matchers) \in Position /\ calls[t] \in Seq(Call)
    BY <2>1 DEF TypeOK
  <2>3. QED
    BY <2>1, <2>2
<1>2. /\ sent' = Append(sent, r) /\ calls' = [calls EXCEPT ![t] = Append(@, c)]
      /\ history' = Append(history, id) /\ Len(sent) < MaxSends /\ Len(calls[t]) < MaxDepth
      /\ UNCHANGED <<matchers, responses, matcherHistory, resetting, taken>>
  BY DEF Send
<1>3. id \in Ids
  BY <1>1, <1>2, BoundsAssumption DEF Ids
<1>4. r \in Request /\ r.outcome = None /\ r.known = Len(matchers)
  BY <1>1 DEF Request
<1>5. c \in Call /\ c.id = id /\ c.index = Len(matchers) /\ c.pc = "match"
  BY <1>1, <1>3 DEF Call, FirstIndex
<1>6. Len(calls[t]) > 0 => calls[t][Len(calls[t])].pc \in {"matching", "callback"}
  BY <1>1 DEF Send, InUserCode, Active, Top
<1> HIDE DEF r, c
<1>7. /\ sent' \in Seq(Request) /\ Len(sent') = id
      /\ \A i \in 1..Len(sent) : sent'[i] = sent[i]
      /\ sent'[id] = r
  BY <1>1, <1>2, <1>4
<1>8. LET n == Len(calls[t]) IN
         /\ calls' \in [Threads -> Seq(Call)] /\ n \in Nat
         /\ Len(calls'[t]) = n + 1 /\ calls'[t][n + 1] = c
         /\ \A i \in 1..n : calls'[t][i] = calls[t][i]
         /\ \A u \in Threads \ {t} : calls'[u] = calls[u]
  BY <1>1, <1>2, <1>5, PushFacts
<1>9. QED
  BY <1>1, <1>2, <1>3, <1>4, <1>5, <1>6, <1>7, <1>8

LEMMA SendLoops ==
  ASSUME Loops, TypeOK', NEW t \in Threads, NEW k \in Kinds, Send(t, k)
  PROVE  Loops'
<1>1. PICK id \in Ids : id = Len(sent) + 1
  BY SendShape
<1>2. PICK n \in Nat : n = Len(calls[t])
  BY SendShape
<1>3. /\ n < MaxDepth /\ Len(sent') = id /\ Len(sent) \in Nat
      /\ \A i \in 1..Len(sent) : sent'[i] = sent[i]
      /\ sent'[id].outcome = None /\ sent'[id].known = Len(matchers)
      /\ Len(calls'[t]) = n + 1
      /\ \A i \in 1..n : calls'[t][i] = calls[t][i]
      /\ \A u \in Threads \ {t} : calls'[u] = calls[u]
      /\ calls'[t][n + 1].id = id /\ calls'[t][n + 1].index = Len(matchers)
      /\ calls'[t][n + 1].pc = "match"
      /\ n > 0 => calls[t][n].pc \in {"matching", "callback"}
      /\ matchers' = matchers
  BY <1>1, <1>2, SendShape
<1>4. Len(matchers) \in Nat
  BY DEF Loops, TypeOK
<1>5. ASSUME NEW u \in Threads, NEW i \in 1..Len(calls'[u])
      PROVE  \/ u = t /\ i = n + 1
             \/ /\ i \in 1..Len(calls[u]) /\ calls'[u][i] = calls[u][i]
                /\ calls[u][i] \in Call /\ CallKept(calls[u][i]) /\ calls[u][i].id # id
  <2>1. CASE u = t /\ i = n + 1
    BY <2>1
  <2>2. CASE ~(u = t /\ i = n + 1)
    <3>1. i \in 1..Len(calls[u]) /\ calls'[u][i] = calls[u][i]
      <4>1. CASE u = t
        BY <1>2, <1>3, <2>2, <4>1
      <4>2. CASE u # t
        BY <1>3, <4>2
      <4>3. QED
        BY <4>1, <4>2
    <3>2. calls[u][i] \in Call /\ CallKept(calls[u][i])
      BY <3>1 DEF Loops, TypeOK, CallsKept
    <3>3. calls[u][i].id <= Len(sent)
      BY <3>2 DEF CallKept
    <3>4. QED
      BY <1>1, <1>3, <3>1, <3>2, <3>3
  <2>3. QED
    BY <2>1, <2>2
<1>6. CallsApart'
  <2> SUFFICES ASSUME NEW u \in Threads, NEW v \in Threads,
                      NEW i \in 1..Len(calls'[u]), NEW j \in 1..Len(calls'[v]),
                      calls'[u][i].id = calls'[v][j].id
               PROVE  u = v /\ i = j
    BY DEF CallsApart
  <2>1. \/ u = t /\ i = n + 1
        \/ /\ i \in 1..Len(calls[u]) /\ calls'[u][i] = calls[u][i]
           /\ calls'[u][i].id # id
    BY <1>5
  <2>2. \/ v = t /\ j = n + 1
        \/ /\ j \in 1..Len(calls[v]) /\ calls'[v][j] = calls[v][j]
           /\ calls'[v][j].id # id
    BY <1>5
  <2>3. CASE (u = t /\ i = n + 1) \/ (v = t /\ j = n + 1)
    BY <1>3, <2>1, <2>2, <2>3
  <2>4. CASE ~(u = t /\ i = n + 1) /\ ~(v = t /\ j = n + 1)
    <3>1. CallsApart
      BY DEF Loops
    <3>2. /\ i \in 1..Len(calls[u]) /\ j \in 1..Len(calls[v])
          /\ calls[u][i].id = calls[v][j].id
      BY <2>1, <2>2, <2>4
    <3>3. QED
      BY <3>1, <3>2 DEF CallsApart
  <2>5. QED
    BY <2>3, <2>4
<1>7. ASSUME NEW u \in Threads, NEW i \in 1..Len(calls'[u])
      PROVE  CallKept(calls[u][i])'
  <2>1. CASE u = t /\ i = n + 1
    <3>1. \A j \in Len(matchers) + 1..Len(matchers) : FALSE
      BY <1>4
    <3>2. id <= Len(sent') /\ Len(matchers) <= Len(matchers)
      BY <1>3, <1>4
    <3>3. QED
      BY <1>3, <2>1, <3>1, <3>2 DEF CallKept
  <2>2. CASE ~(u = t /\ i = n + 1)
    <3>1. PICK c \in Call : c = calls[u][i] /\ c = calls'[u][i] /\ CallKept(c)
      BY <1>5, <2>2
    <3>2. c.id \in 1..Len(sent) /\ Len(sent') >= Len(sent) /\ Len(sent') \in Nat
      BY <1>1, <1>3, <3>1, CallNat DEF CallKept
    <3>3. CallKept(c)'
      BY <1>3, <3>1, <3>2, CallStaysKept
    <3>4. QED
      BY <3>1, <3>3 DEF CallKept
  <2>3. QED
    BY <2>1, <2>2
<1>8. CallsKept'
  <2>1. ASSUME NEW u \in Threads
        PROVE  /\ Len(calls'[u]) <= MaxDepth
               /\ \A i \in 1..Len(calls'[u]) - 1 : calls'[u][i].pc \in {"matching", "callback"}
    <3>1. CASE u # t
      BY <1>3, <3>1 DEF Loops, CallsKept
    <3>2. CASE u = t
      <4>1. \A i \in 1..n - 1 : calls[t][i].pc \in {"matching", "callback"}
        BY <1>2 DEF Loops, CallsKept
      <4>2. \A i \in 1..n : calls'[t][i].pc \in {"matching", "callback"}
        BY <1>3, <4>1
      <4>3. n + 1 <= MaxDepth /\ n + 1 - 1 = n
        BY <1>3, BoundsAssumption
      <4>4. QED
        BY <1>3, <3>2, <4>2, <4>3
    <3>3. QED
      BY <3>1, <3>2
  <2>2. QED
    BY <1>7, <2>1 DEF CallsKept
<1>9. KnownSent'
  BY <1>1, <1>3, <1>4 DEF KnownSent, Loops
<1>10. LatestRegistrationWins'
  <2>1. \A i \in 1..Len(sent) : Won(i)'
    BY <1>3, WonStays
  <2>2. Won(id)'
    BY <1>3 DEF Won
  <2>3. QED
    BY <1>1, <1>3, <2>1, <2>2 DEF LatestRegistrationWins, Won
<1>11. QED
  BY <1>3, <1>6, <1>8, <1>9, <1>10 DEF Loops, Distinct

\* Of each action, what becomes of calls and requests.
LEMMA StepShape ==
  ASSUME Loops, NEW t \in Threads, Step(t)
  PROVE  \/ ResetMatchers(t)
         \/ (\E c \in Call : Moves(t, c)) \/ (\E o \in Outcomes : Ends(t, o))
<1>1. "error" \in Outcomes /\ {"response", "real"} \subseteq Outcomes
  BY DEF Outcomes
<1>2. CASE TryMatcher(t) \/ CodeDecides(t)
  BY <1>1, <1>2, TurnShape
<1>3. CASE Take(t) \/ Record(t)
  BY <1>1, <1>3, TakeShape
<1>4. CASE NoMockAddress(t) \/ Respond(t) \/ Raise(t)
  BY <1>4, AnswerShape
<1>5. QED
  BY <1>2, <1>3, <1>4 DEF Step

\* What is taken is a response of the list.
LEMMA TakeType ==
  ASSUME Loops, NEW t \in Threads, Take(t)
  PROVE  /\ responses' \in [Matchers -> Seq(Responses)]
         /\ taken' \in [Matchers -> Seq([id : Ids, response : Responses])]
<1>1. Matcher(t) \in Matchers /\ Active(t)
  BY TakeShape DEF Ordinary
<1>2. /\ responses \in [Matchers -> Seq(Responses)]
      /\ taken \in [Matchers -> Seq([id : Ids, response : Responses])]
  BY DEF Loops, TypeOK
<1>3. CASE responses[Matcher(t)] = <<>>
  BY <1>2, <1>3 DEF Take
<1>4. CASE responses[Matcher(t)] # <<>>
  <2>1. PICK m \in Matchers : m = Matcher(t)
    BY <1>1
  <2>2. /\ Head(responses[m]) \in Responses /\ Tail(responses[m]) \in Seq(Responses)
    BY <1>2, <1>4, <2>1
  <2>3. [id |-> Top(t).id, response |-> Head(responses[m])] \in [id : Ids, response : Responses]
    BY <1>1, <2>2, TopKept
  <2>4. responses' \in [Matchers -> Seq(Responses)]
    BY <1>2, <1>4, <2>1, <2>2 DEF Take
  <2>5. taken' = [taken EXCEPT ![m] =
            Append(@, [id |-> Top(t).id, response |-> Head(responses[m])])]
    BY <1>4, <2>1 DEF Take
  <2> DEFINE r == [id |-> Top(t).id, response |-> Head(responses[m])]
  <2> HIDE DEF r
  <2>6. r \in [id : Ids, response : Responses] /\ taken' = [taken EXCEPT ![m] = Append(@, r)]
    BY <2>3, <2>5 DEF r
  <2>7. ASSUME NEW R, taken \in [Matchers -> Seq(R)], r \in R
        PROVE  taken' \in [Matchers -> Seq(R)]
    <3>1. Append(taken[m], r) \in Seq(R)
      BY <2>7
    <3>2. QED
      BY <2>6, <2>7, <3>1
  <2>8. QED
    BY <1>2, <2>4, <2>6, <2>7
<1>5. QED
  BY <1>3, <1>4

LEMMA NextTypeOK ==
  ASSUME Loops, [Next]_vars
  PROVE  TypeOK'
<1>0. TypeOK
  BY DEF Loops
<1>1. CASE UNCHANGED vars
  BY <1>0, <1>1 DEF vars, TypeOK
<1>2. ASSUME NEW t \in Threads,
             TryMatcher(t) \/ CodeDecides(t) \/ NoMockAddress(t) \/ Respond(t) \/ Raise(t)
      PROVE  TypeOK'
  <2>1. /\ matchers' = matchers /\ calls' \in [Threads -> Seq(Call)] /\ sent' \in Seq(Request)
    <3>1. (\E c \in Call : Moves(t, c)) \/ (\E o \in Outcomes : Ends(t, o))
      BY <1>2, TurnShape, AnswerShape DEF Outcomes
    <3>2. QED
      BY <3>1, MovesEndsType
  <2>2. UNCHANGED <<responses, history, matcherHistory, resetting, taken, overlapped>>
    BY <1>2 DEF TryMatcher, CodeDecides, NoMockAddress, Respond, Raise
  <2>3. QED
    BY <1>0, <2>1, <2>2 DEF TypeOK
<1>3. ASSUME NEW t \in Threads, Take(t)
      PROVE  TypeOK'
  <2>1. /\ matchers' = matchers /\ calls' \in [Threads -> Seq(Call)] /\ sent' \in Seq(Request)
    <3>1. (\E c \in Call : Moves(t, c)) \/ (\E o \in Outcomes : Ends(t, o))
      BY <1>3, TakeShape DEF Outcomes
    <3>2. QED
      BY <3>1, MovesEndsType
  <2>2. UNCHANGED <<history, matcherHistory, resetting, overlapped>>
    BY <1>3 DEF Take
  <2>3. QED
    BY <1>0, <1>3, <2>1, <2>2, TakeType DEF TypeOK
<1>4. ASSUME NEW t \in Threads, Record(t)
      PROVE  TypeOK'
  <2>1. /\ matchers' = matchers /\ calls' \in [Threads -> Seq(Call)] /\ sent' \in Seq(Request)
    <3>1. (\E c \in Call : Moves(t, c)) \/ (\E o \in Outcomes : Ends(t, o))
      BY <1>4, TakeShape DEF Outcomes
    <3>2. QED
      BY <3>1, MovesEndsType
  <2>2. UNCHANGED <<responses, history, resetting, taken, overlapped>>
        /\ matcherHistory' = [matcherHistory EXCEPT ![Matcher(t)] = Append(@, Top(t).id)]
    BY <1>4 DEF Record
  <2>3. Top(t).id \in Ids /\ matcherHistory \in [Matchers -> Seq(Ids)]
        /\ Matcher(t) \in Matchers
    BY <1>0, <1>4, TakeShape, TopKept DEF TypeOK, Ordinary
  <2>4. matcherHistory' \in [Matchers -> Seq(Ids)]
    <3>1. Append(matcherHistory[Matcher(t)], Top(t).id) \in Seq(Ids)
      BY <2>3
    <3>2. QED
      BY <2>2, <2>3, <3>1
  <2>5. QED
    BY <1>0, <2>1, <2>2, <2>4 DEF TypeOK
<1>5. ASSUME NEW t \in Threads, NEW k \in Kinds, Send(t, k)
      PROVE  TypeOK'
  <2>1. /\ sent' \in Seq(Request) /\ calls' \in [Threads -> Seq(Call)]
        /\ Len(sent) + 1 \in Ids /\ history' = Append(history, Len(sent) + 1)
        /\ UNCHANGED <<matchers, responses, matcherHistory, resetting, taken>>
    BY <1>5, SendShape
  <2>2. overlapped' \subseteq Ids
    <3>1. overlapped' \subseteq overlapped \cup {Len(sent) + 1}
      BY <1>5 DEF Send
    <3>2. QED
      BY <1>0, <2>1, <3>1 DEF TypeOK
  <2>3. history' \in Seq(Ids)
    BY <1>0, <2>1 DEF TypeOK
  <2>4. QED
    BY <1>0, <2>1, <2>2, <2>3 DEF TypeOK
<1>6. ASSUME NEW t \in Threads, NEW m \in Matchers, Register(t, m)
      PROVE  TypeOK'
  <2>1. matchers' \in Seq(Matchers) /\ Len(matchers') \in Position
    BY <1>6, RegisterKeeps
  <2>2. QED
    BY <1>0, <1>6, <2>1 DEF Register, TypeOK
<1>7. ASSUME NEW t \in Threads, ResetAdapter(t)
      PROVE  TypeOK'
  <2>1. 1 \in 0..Cardinality(Matchers) + 1
    BY MatchersAssumption, FS_CardinalityType
  <2>2. InProgress \subseteq Ids /\ <<>> \in Seq(Ids)
    BY DEF InProgress
  <2>3. /\ history' = <<>> /\ resetting' = [resetting EXCEPT ![t] = 1]
        /\ overlapped' = overlapped \cup InProgress
        /\ UNCHANGED <<matchers, responses, matcherHistory, sent, calls, taken>>
    BY <1>7 DEF ResetAdapter
  <2>4. resetting' \in [Threads -> 0..Cardinality(Matchers) + 1] /\ overlapped' \subseteq Ids
    BY <1>0, <2>1, <2>2, <2>3 DEF TypeOK
  <2>5. QED
    BY <1>0, <2>2, <2>3, <2>4 DEF TypeOK
<1>8. ASSUME NEW t \in Threads, ResetMatchers(t)
      PROVE  TypeOK'
  <2>1. /\ resetting[t] \in 0..Cardinality(Matchers) + 1 /\ resetting[t] # 0
        /\ Cardinality(Matchers) \in Nat
        /\ matchers \in Seq(Matchers) /\ Len(matchers) <= Cardinality(Matchers)
        /\ Len(matchers) \in Nat
    BY <1>0, <1>8, MatchersAssumption, FS_CardinalityType DEF TypeOK, ResetMatchers, Position
  <2>2. CASE ResetDone(t) \/ matchers[resetting[t]] \in Resetless
    <3>1. resetting' = [resetting EXCEPT ![t] = 0] /\ matcherHistory' = matcherHistory
      BY <1>8, <2>2 DEF ResetMatchers
    <3>2. resetting' \in [Threads -> 0..Cardinality(Matchers) + 1]
      BY <1>0, <2>1, <3>1 DEF TypeOK
    <3>3. UNCHANGED <<matchers, responses, history, sent, calls, taken, overlapped>>
      BY <1>8 DEF ResetMatchers
    <3>4. QED
      BY <1>0, <3>1, <3>2, <3>3 DEF TypeOK
  <2>3. CASE ~(ResetDone(t) \/ matchers[resetting[t]] \in Resetless)
    <3>1. /\ resetting' = [resetting EXCEPT ![t] = @ + 1]
          /\ matcherHistory' = [matcherHistory EXCEPT ![matchers[resetting[t]]] = <<>>]
      BY <1>8, <2>3 DEF ResetMatchers
    <3>2. /\ resetting[t] + 1 \in 0..Cardinality(Matchers) + 1
      BY <2>1, <2>3 DEF ResetDone
    <3>3. resetting' \in [Threads -> 0..Cardinality(Matchers) + 1]
      BY <1>0, <3>1, <3>2 DEF TypeOK
    <3>4. matcherHistory' \in [Matchers -> Seq(Ids)]
      <4>1. <<>> \in Seq(Ids) /\ matcherHistory \in [Matchers -> Seq(Ids)]
        BY <1>0 DEF TypeOK
      <4>2. QED
        BY <3>1, <4>1
    <3>5. UNCHANGED <<matchers, responses, history, sent, calls, taken, overlapped>>
      BY <1>8 DEF ResetMatchers
    <3>6. QED
      BY <1>0, <3>3, <3>4, <3>5 DEF TypeOK
  <2>4. QED
    BY <2>2, <2>3
<1>9. ASSUME NEW t \in Threads, NEW m \in Matchers, ResetMatcher(t, m)
      PROVE  TypeOK'
  <2>1. <<>> \in Seq(Ids) /\ matcherHistory \in [Matchers -> Seq(Ids)]
    BY <1>0 DEF TypeOK
  <2>2. matcherHistory' \in [Matchers -> Seq(Ids)]
    BY <1>9, <2>1 DEF ResetMatcher
  <2>3. QED
    BY <1>0, <1>9, <2>2 DEF ResetMatcher, TypeOK
<1>10. QED
  BY <1>1, <1>2, <1>3, <1>4, <1>5, <1>6, <1>7, <1>8, <1>9 DEF Next, Step, UserStep

LEMMA NextLoops ==
  ASSUME Loops, [Next]_vars
  PROVE  Loops'
<1>1. TypeOK'
  BY NextTypeOK
<1>2. ASSUME UNCHANGED <<matchers, sent, calls>>
      PROVE  Loops'
  <2>1. Distinct' /\ Len(matchers) \in Nat
    BY <1>2 DEF Loops, TypeOK, Distinct
  <2>2. QED
    BY <1>1, <1>2, <2>1, SameLoops
<1>3. CASE UNCHANGED vars
  BY <1>2, <1>3 DEF vars
<1>4. ASSUME NEW t \in Threads, Step(t)
      PROVE  Loops'
  <2>1. CASE ResetMatchers(t)
    BY <1>2, <2>1 DEF ResetMatchers
  <2>2. QED
    BY <1>1, <1>4, <2>1, StepShape, MovesEndsLoops
<1>5. ASSUME NEW t \in Threads, UserStep(t)
      PROVE  Loops'
  <2>1. CASE \E k \in Kinds : Send(t, k)
    BY <1>1, <2>1, SendLoops
  <2>2. ASSUME NEW m \in Matchers, Register(t, m)
        PROVE  Loops'
    <3>1. UNCHANGED <<sent, calls>>
      BY <2>2 DEF Register
    <3>2. Len(matchers') >= Len(matchers)
      BY <2>2, RegisterKeeps
    <3>3. QED
      BY <1>1, <2>2, <3>1, <3>2, RegisterKeeps, SameLoops
  <2>3. CASE ResetAdapter(t) \/ \E m \in Matchers : ResetMatcher(t, m)
    BY <1>2, <2>3 DEF ResetAdapter, ResetMatcher
  <2>4. QED
    BY <1>5, <2>1, <2>2, <2>3 DEF UserStep
<1>6. QED
  BY <1>3, <1>4, <1>5 DEF Next

LEMMA InitLoops == Init => Loops
<1> SUFFICES ASSUME Init PROVE Loops
  OBVIOUS
<1>1. TypeOK
  <2>1. 0 \in Position /\ 0 \in 0..Cardinality(Matchers) + 1
    BY MatchersAssumption, FS_CardinalityType DEF Position
  <2>2. QED
    BY <2>1, MatchersAssumption DEF Init, TypeOK
<1>2. /\ Len(matchers) = 0 /\ Len(sent) = 0 /\ \A t \in Threads : Len(calls[t]) = 0
  BY DEF Init
<1>3. CallsKept
  BY <1>2, BoundsAssumption DEF CallsKept
<1>4. QED
  BY <1>1, <1>2, <1>3
  DEF Loops, Distinct, KnownSent, CallsApart, LatestRegistrationWins

LEMMA AlwaysLoops == Spec => []Loops
<1>1. Loops /\ [Next]_vars => Loops'
  BY NextLoops
<1>2. QED
  BY <1>1, InitLoops, PTL DEF Spec

\* Every variable keeps to its type: the loop stays within the matchers, and no more
\* of them are registered than there are.
THEOREM TypeCorrect == Spec => []TypeOK
<1>1. Loops => TypeOK
  BY DEF Loops
<1>2. QED
  BY <1>1, AlwaysLoops, PTL

\* The matcher that answers is the latest registered one that matches, whatever is
\* registered and sent meanwhile, by the threads or by the code of matchers.
THEOREM LatestRegistrationWinsHolds == Spec => []LatestRegistrationWins
<1>1. Loops => LatestRegistrationWins
  BY DEF Loops
<1>2. QED
  BY <1>1, AlwaysLoops, PTL

-----------------------------------------------------------------------------
(* Histories of matchers.                                                  *)

LEMMA KnownToStays ==
  ASSUME Loops, [Next]_vars, NEW m \in Matchers, NEW id \in Ids, KnownTo(m, id)
  PROVE  KnownTo(m, id)'
<1>0. /\ Loops' /\ id \in 1..Len(sent) /\ Len(sent) \in Nat /\ Len(matchers) \in Nat
      /\ TypeOK
  <2>1. TypeOK /\ Loops'
    BY NextLoops DEF Loops
  <2>2. Len(sent) \in Nat /\ Len(matchers) \in Nat
    BY <2>1 DEF TypeOK
  <2>3. QED
    BY <2>1, <2>2 DEF KnownTo, Ids
<1>1. ASSUME UNCHANGED <<sent, calls>>,
             \A i \in 1..Len(matchers) : matchers'[i] = matchers[i]
      PROVE  KnownTo(m, id)'
  <2>1. ASSUME NEW t \in Threads, NEW i \in 1..Len(calls[t]), calls[t][i].id = id
        PROVE  calls[t][i].pc = "callback" /\ matchers'[calls[t][i].index] = m
    <3>1. calls[t][i].pc = "callback" /\ matchers[calls[t][i].index] = m
      BY <2>1 DEF KnownTo
    <3>2. PICK c \in Call : c = calls[t][i] /\ CallKept(c)
      <4>1. calls[t][i] \in Call
        BY <1>0 DEF TypeOK
      <4>2. CallKept(calls[t][i])
        BY DEF Loops, CallsKept
      <4>3. QED
        BY <4>1, <4>2
    <3>3. /\ sent[c.id].known \in Nat /\ sent[c.id].known <= Len(matchers)
          /\ c.index \in Nat
      <4>1. c.id = id
        BY <2>1, <3>2
      <4>2. QED
        BY <1>0, <4>1, KnownNat, CallNat DEF Loops, KnownSent
    <3>4. c.index \in 1..Len(matchers)
      BY <1>0, <3>1, <3>2, <3>3 DEF CallKept
    <3>5. QED
      BY <1>1, <3>1, <3>2, <3>4
  <2>2. QED
    BY <1>1, <2>1 DEF KnownTo
<1>2. ASSUME NEW t \in Threads, NEW c \in Call, Moves(t, c), Top(t).pc # "callback"
      PROVE  KnownTo(m, id)'
  <2>1. /\ Active(t) /\ SetTop(t, c) /\ c.id = Top(t).id /\ UNCHANGED <<matchers, sent>>
    BY <1>2 DEF Moves
  <2>2. /\ Len(calls[t]) \in Nat \ {0} /\ Top(t) = calls[t][Len(calls[t])]
    BY <1>0, <2>1, TopFacts
  <2>3. c.id # id
    BY <1>2, <2>1, <2>2 DEF KnownTo
  <2>4. \A u \in Threads : /\ Len(calls'[u]) = Len(calls[u])
                           /\ \A i \in 1..Len(calls[u]) :
                                calls'[u][i] = c \/ calls'[u][i] = calls[u][i]
    <3>1. /\ Len(calls'[t]) = Len(calls[t]) /\ calls'[t][Len(calls[t])] = c
          /\ \A i \in 1..Len(calls[t]) - 1 : calls'[t][i] = calls[t][i]
          /\ \A u \in Threads \ {t} : calls'[u] = calls[u]
      BY <1>0, <2>1, SetTopFacts
    <3>2. QED
      BY <2>2, <3>1
  <2>5. QED
    BY <2>1, <2>3, <2>4 DEF KnownTo
<1>3. ASSUME NEW t \in Threads, NEW o \in Outcomes, Ends(t, o)
      PROVE  KnownTo(m, id)'
  <2>1. /\ Active(t) /\ End(t, o) /\ (o # "no_mock" => Top(t).index > 0)
        /\ (o = "no_mock" <=> Top(t).index = 0) /\ matchers' = matchers
    <3>1. Active(t)
      BY <1>3 DEF Ends
    <3>2. Top(t).index \in Nat
      BY <3>1, TopKept
    <3>3. QED
      BY <1>3, <3>2 DEF Ends
  <2>2. PICK k \in 1..Len(sent) : k = Top(t).id
    BY <2>1, TopKept
  <2>3. /\ Len(sent') = Len(sent) /\ sent'[k].outcome = o
        /\ sent'[k].matcher = IF o = "no_mock" THEN None ELSE Matcher(t)
        /\ \A i \in 1..Len(sent) : i # k => sent'[i] = sent[i]
    BY <2>1, <2>2, EndFacts
  <2>4. /\ Len(calls[t]) \in Nat \ {0} /\ Top(t) = calls[t][Len(calls[t])]
    BY <1>0, <2>1, TopFacts
  <2>5. \A u \in Threads : \A i \in 1..Len(calls'[u]) :
          i \in 1..Len(calls[u]) /\ calls'[u][i] = calls[u][i]
    <3>1. /\ Len(calls'[t]) = Len(calls[t]) - 1
          /\ \A i \in 1..Len(calls[t]) - 1 : calls'[t][i] = calls[t][i]
          /\ \A u \in Threads \ {t} : calls'[u] = calls[u]
      BY <1>0, <2>1, PopFacts DEF End
    <3>2. QED
      BY <2>4, <3>1
  <2>6. \A u \in Threads : \A i \in 1..Len(calls'[u]) :
          calls'[u][i].id = id => /\ calls'[u][i].pc = "callback"
                                  /\ matchers[calls'[u][i].index] = m
    <3>1. \A u \in Threads : \A i \in 1..Len(calls[u]) :
            calls[u][i].id = id => calls[u][i].pc = "callback" /\ matchers[calls[u][i].index] = m
      BY DEF KnownTo
    <3>2. QED
      BY <2>5, <3>1
  <2>7. sent'[id].outcome # None => sent'[id].matcher = m
    <3>1. CASE id = k
      <4>1. Top(t).pc = "callback" /\ matchers[Top(t).index] = m
        BY <2>2, <2>4, <3>1 DEF KnownTo
      <4>2. Top(t).index > 0
        BY <2>1, <4>1, TopKept DEF CallKept
      <4>3. QED
        BY <2>1, <2>3, <3>1, <4>1, <4>2 DEF Matcher
    <3>2. CASE id # k
      BY <1>0, <2>3, <3>2 DEF KnownTo
    <3>3. QED
      BY <3>1, <3>2
  <2>8. QED
    BY <1>0, <2>1, <2>3, <2>6, <2>7 DEF KnownTo
<1>4. ASSUME NEW t \in Threads, NEW k \in Kinds, Send(t, k)
      PROVE  KnownTo(m, id)'
  <2>1. PICK new \in Ids : new = Len(sent) + 1
    BY <1>4, SendShape
  <2>2. PICK n \in Nat : n = Len(calls[t])
    BY <1>4, SendShape
  <2>3. /\ Len(sent') = new /\ \A i \in 1..Len(sent) : sent'[i] = sent[i]
        /\ Len(calls'[t]) = n + 1 /\ calls'[t][n + 1].id = new
        /\ \A i \in 1..n : calls'[t][i] = calls[t][i]
        /\ \A u \in Threads \ {t} : calls'[u] = calls[u]
        /\ matchers' = matchers
    BY <1>4, <2>1, <2>2, SendShape
  <2>4. id <= Len(sent') /\ id # new
    BY <1>0, <2>1, <2>3
  <2>5. \A u \in Threads : \A i \in 1..Len(calls'[u]) :
          \/ calls'[u][i].id = new
          \/ i \in 1..Len(calls[u]) /\ calls'[u][i] = calls[u][i]
    <3> SUFFICES ASSUME NEW u \in Threads, NEW i \in 1..Len(calls'[u])
                 PROVE  \/ calls'[u][i].id = new
                        \/ i \in 1..Len(calls[u]) /\ calls'[u][i] = calls[u][i]
      OBVIOUS
    <3>1. CASE u = t
      <4>1. i = n + 1 \/ i \in 1..n
        BY <2>3, <3>1
      <4>2. QED
        BY <2>2, <2>3, <3>1, <4>1
    <3>2. CASE u # t
      BY <2>3, <3>2
    <3>3. QED
      BY <3>1, <3>2
  <2>6. \A u \in Threads : \A i \in 1..Len(calls'[u]) :
          calls'[u][i].id = id => /\ calls'[u][i].pc = "callback"
                                  /\ matchers[calls'[u][i].index] = m
    BY <2>4, <2>5 DEF KnownTo
  <2>7. QED
    BY <1>0, <2>3, <2>4, <2>6 DEF KnownTo
<1>5. CASE UNCHANGED vars
  BY <1>1, <1>5 DEF vars
<1>6. ASSUME NEW t \in Threads, Step(t)
      PROVE  KnownTo(m, id)'
  <2>1. CASE ResetMatchers(t)
    BY <1>1, <2>1 DEF ResetMatchers
  <2>2. CASE TryMatcher(t) \/ CodeDecides(t)
    <3>1. Top(t).pc # "callback"
      BY <2>2, TurnShape
    <3>2. (\E c \in Call : Moves(t, c)) \/ (\E o \in Outcomes : Ends(t, o))
      BY <2>2, TurnShape DEF Outcomes
    <3>3. QED
      BY <1>2, <1>3, <3>1, <3>2
  <2>3. CASE Take(t) \/ Record(t)
    <3>1. Top(t).pc # "callback"
      BY <2>3, TakeShape
    <3>2. (\E c \in Call : Moves(t, c)) \/ (\E o \in Outcomes : Ends(t, o))
      BY <2>3, TakeShape DEF Outcomes
    <3>3. QED
      BY <1>2, <1>3, <3>1, <3>2
  <2>4. CASE NoMockAddress(t) \/ Respond(t) \/ Raise(t)
    BY <1>3, <2>4, AnswerShape
  <2>5. QED
    BY <1>6, <2>1, <2>2, <2>3, <2>4 DEF Step
<1>7. ASSUME NEW t \in Threads, UserStep(t)
      PROVE  KnownTo(m, id)'
  <2>1. CASE \E k \in Kinds : Send(t, k)
    BY <1>4, <2>1
  <2>2. ASSUME NEW r \in Matchers, Register(t, r)
        PROVE  KnownTo(m, id)'
    <3>1. UNCHANGED <<sent, calls>>
      BY <2>2 DEF Register
    <3>2. QED
      BY <1>1, <2>2, <3>1, RegisterKeeps
  <2>3. CASE ResetAdapter(t) \/ \E r \in Matchers : ResetMatcher(t, r)
    BY <1>1, <2>3 DEF ResetAdapter, ResetMatcher
  <2>4. QED
    BY <1>7, <2>1, <2>2, <2>3 DEF UserStep
<1>8. QED
  BY <1>5, <1>6, <1>7 DEF Next

\* Of each step, what becomes of the histories.
LEMMA HistoryShape ==
  ASSUME Loops, [Next]_vars, NEW m \in Matchers
  PROVE  \/ matcherHistory'[m] = matcherHistory[m]
         \/ matcherHistory'[m] = <<>>
         \/ \E t \in Threads : /\ Record(t) /\ m = Matcher(t)
                               /\ matcherHistory'[m] = Append(matcherHistory[m], Top(t).id)
<1>1. matcherHistory \in [Matchers -> Seq(Ids)]
  BY DEF Loops, TypeOK
<1>2. ASSUME NEW t \in Threads, Record(t)
      PROVE  \/ matcherHistory'[m] = matcherHistory[m]
             \/ m = Matcher(t) /\ matcherHistory'[m] = Append(matcherHistory[m], Top(t).id)
  BY <1>1, <1>2 DEF Record
<1>3. ASSUME NEW t \in Threads, ResetMatchers(t)
      PROVE  matcherHistory'[m] = matcherHistory[m] \/ matcherHistory'[m] = <<>>
  BY <1>1, <1>3 DEF ResetMatchers
<1>4. ASSUME NEW t \in Threads, NEW r \in Matchers, ResetMatcher(t, r)
      PROVE  matcherHistory'[m] = matcherHistory[m] \/ matcherHistory'[m] = <<>>
  BY <1>1, <1>4 DEF ResetMatcher
<1>5. ASSUME NEW t \in Threads, Step(t), ~Record(t), ~ResetMatchers(t)
      PROVE  matcherHistory' = matcherHistory
  BY <1>5 DEF Step, TryMatcher, CodeDecides, NoMockAddress, Take, Respond, Raise
<1>6. ASSUME NEW t \in Threads, UserStep(t), ~\E r \in Matchers : ResetMatcher(t, r)
      PROVE  matcherHistory' = matcherHistory
  BY <1>6 DEF UserStep, Send, Register, ResetAdapter
<1>7. CASE UNCHANGED vars
  BY <1>7 DEF vars
<1>8. QED
  BY <1>2, <1>3, <1>4, <1>5, <1>6, <1>7 DEF Next

LEMMA NextRecorded ==
  ASSUME Loops, Recorded, [Next]_vars
  PROVE  Recorded'
<1> SUFFICES ASSUME NEW m \in Matchers, NEW k \in 1..Len(matcherHistory'[m])
             PROVE  KnownTo(m, matcherHistory[m][k])'
  BY DEF Recorded
<1>1. matcherHistory[m] \in Seq(Ids) /\ Loops'
  BY NextLoops DEF Loops, TypeOK
<1>2. ASSUME k \in 1..Len(matcherHistory[m]), matcherHistory'[m][k] = matcherHistory[m][k]
      PROVE  KnownTo(m, matcherHistory[m][k])'
  <2>1. PICK id \in Ids : id = matcherHistory[m][k]
    BY <1>1, <1>2
  <2>2. KnownTo(m, id)
    BY <1>2, <2>1 DEF Recorded
  <2>3. KnownTo(m, id)'
    BY <2>2, KnownToStays
  <2>4. QED
    BY <1>2, <2>1, <2>3 DEF KnownTo
<1>3. ASSUME NEW t \in Threads, Record(t), m = Matcher(t),
             matcherHistory'[m] = Append(matcherHistory[m], Top(t).id)
      PROVE  KnownTo(m, matcherHistory[m][k])'
  <2>1. CASE k \in 1..Len(matcherHistory[m])
    BY <1>1, <1>2, <1>3, <2>1
  <2>2. CASE k \notin 1..Len(matcherHistory[m])
    <3>1. /\ Active(t) /\ Matcher(t) \in Ordinary /\ Top(t).pc = "record"
          /\ \E c \in Call : Moves(t, c) /\ c.index = Top(t).index /\ c.pc = "callback"
      BY <1>3, TakeShape DEF Record, Take, At
    <3>2. PICK c \in Call : Moves(t, c) /\ c.index = Top(t).index /\ c.pc = "callback"
      BY <3>1
    <3>3. PICK id \in 1..Len(sent) : id = Top(t).id /\ id \in Ids
      BY <3>1, TopKept
    <3>4. matcherHistory'[m][k] = id
      BY <1>1, <1>3, <2>2, <3>3
    <3>5. /\ SetTop(t, c) /\ c.id = id /\ UNCHANGED <<matchers, sent>> /\ CallKept(c)
      BY <3>2, <3>3 DEF Moves
    <3>6. /\ Len(calls'[t]) = Len(calls[t]) /\ calls'[t][Len(calls[t])] = c
          /\ \A i \in 1..Len(calls[t]) - 1 : calls'[t][i] = calls[t][i]
          /\ \A u \in Threads \ {t} : calls'[u] = calls[u]
          /\ Len(calls[t]) \in Nat \ {0}
      BY <3>1, <3>5, SetTopFacts, TopFacts DEF Loops
    <3>7. ASSUME NEW u \in Threads, NEW i \in 1..Len(calls'[u]), calls'[u][i].id = id
          PROVE  calls'[u][i] = c
      <4>1. Len(calls[t]) \in 1..Len(calls'[t])
        BY <3>6
      <4>2. u = t /\ i = Len(calls[t])
        <5>1. CallsApart'
          BY <1>1 DEF Loops
        <5>2. calls'[t][Len(calls[t])].id = id
          BY <3>5, <3>6
        <5>3. QED
          BY <3>7, <4>1, <5>1, <5>2 DEF CallsApart
      <4>3. QED
        BY <3>6, <4>2
    <3>8. sent'[id].outcome = None /\ id <= Len(sent')
      BY <3>3, <3>5 DEF CallKept
    <3>9. matchers'[c.index] = m
      BY <1>3, <3>2, <3>5 DEF Matcher
    <3>10. QED
      BY <3>2, <3>4, <3>7, <3>8, <3>9 DEF KnownTo
  <2>3. QED
    BY <2>1, <2>2
<1>4. CASE matcherHistory'[m] = <<>>
  BY <1>4
<1>5. CASE matcherHistory'[m] = matcherHistory[m]
  BY <1>2, <1>5
<1>6. QED
  BY <1>3, <1>4, <1>5, HistoryShape

\* A finished request in a matcher's history names that matcher, for any interleaving
\* of sends and resets.
THEOREM RequestKnowsMatcherHolds == Spec => []RequestKnowsMatcher
<1>1. Init => Recorded
  BY DEF Init, Recorded
<1>2. Loops /\ Recorded /\ [Next]_vars => Recorded'
  BY NextRecorded
<1>3. Recorded => RequestKnowsMatcher
  BY DEF Recorded, RequestKnowsMatcher, KnownTo
<1>4. QED
  BY <1>1, <1>2, <1>3, AlwaysLoops, PTL DEF Spec

-----------------------------------------------------------------------------
(* Sends behind the lock.                                                  *)

\* The calls of a thread, and the matcher of the innermost one, are as they were.
Untouched(t) ==
  /\ calls'[t] = calls[t]
  /\ Active(t) /\ Top(t).index > 0 => matchers'[Top(t).index] = matchers[Top(t).index]

\* A thread whose innermost call is in none of the states "take" and "record".
Clear(t) == Active(t) => Top(t).pc \notin {"take", "record"}

LEMMA UntouchedIfSame ==
  ASSUME Loops, NEW t \in Threads, calls'[t] = calls[t],
         \A i \in 1..Len(matchers) : matchers'[i] = matchers[i]
  PROVE  Untouched(t)
BY TopKept DEF Untouched

LEMMA MovesTop ==
  ASSUME Loops, NEW t \in Threads, NEW c \in Call, Moves(t, c)
  PROVE  /\ Active(t) /\ Active(t)' /\ Top(t)' = c
         /\ c.index = Top(t).index => Matcher(t)' = Matcher(t)
         /\ \A u \in Threads \ {t} : Untouched(u)
<1>1. Active(t) /\ SetTop(t, c) /\ matchers' = matchers /\ TypeOK
  BY DEF Moves, Loops
<1>2. /\ Len(calls'[t]) = Len(calls[t]) /\ calls'[t][Len(calls[t])] = c
      /\ \A u \in Threads \ {t} : calls'[u] = calls[u]
      /\ Len(calls[t]) \in Nat \ {0}
  BY <1>1, SetTopFacts, TopFacts
<1>3. Active(t)' /\ Top(t)' = c
  BY <1>2 DEF Active, Top
<1>4. \A u \in Threads \ {t} : Untouched(u)
  BY <1>1, <1>2, UntouchedIfSame
<1>5. QED
  BY <1>1, <1>3, <1>4 DEF Matcher

\* The call that made a call was in code of the program.
LEMMA EndsTop ==
  ASSUME Loops, NEW t \in Threads, NEW o \in Outcomes, Ends(t, o)
  PROVE  /\ Active(t) /\ Clear(t)'
         /\ \A u \in Threads \ {t} : Untouched(u)
<1>1. Active(t) /\ End(t, o) /\ matchers' = matchers /\ TypeOK
  BY DEF Ends, Loops
<1>2. /\ Len(calls'[t]) = Len(calls[t]) - 1
      /\ \A i \in 1..Len(calls[t]) - 1 : calls'[t][i] = calls[t][i]
      /\ \A u \in Threads \ {t} : calls'[u] = calls[u]
      /\ Len(calls[t]) \in Nat \ {0}
  BY <1>1, PopFacts, TopFacts DEF End
<1>3. \A i \in 1..Len(calls[t]) - 1 : calls[t][i].pc \in {"matching", "callback"}
  BY DEF Loops, CallsKept
<1>4. calls'[t] # <<>> => Len(calls'[t]) \in 1..Len(calls[t]) - 1
  <2>1. calls' \in [Threads -> Seq(Call)]
    BY <1>1, PopFacts DEF End
  <2>2. calls'[t] \in Seq(Call)
    BY <2>1
  <2>3. calls'[t] # <<>> => Len(calls'[t]) > 0
    BY <2>2
  <2>4. QED
    BY <1>2, <2>3
<1>5. Clear(t)'
  BY <1>2, <1>3, <1>4 DEF Clear, Active, Top
<1>6. \A u \in Threads \ {t} : Untouched(u)
  BY <1>1, <1>2, UntouchedIfSame
<1>7. QED
  BY <1>1, <1>5, <1>6

LEMMA SendTop ==
  ASSUME Loops, NEW t \in Threads, NEW k \in Kinds, Send(t, k)
  PROVE  Clear(t) /\ Clear(t)' /\ \A u \in Threads \ {t} : Untouched(u)
<1>1. PICK n \in Nat : n = Len(calls[t])
  BY SendShape
<1>2. /\ Len(calls'[t]) = n + 1 /\ calls'[t][n + 1].pc = "match"
      /\ \A u \in Threads \ {t} : calls'[u] = calls[u]
      /\ matchers' = matchers
  BY <1>1, SendShape
<1>3. Clear(t)'
  BY <1>2 DEF Clear, Top
<1>4. Clear(t)
  BY DEF Send, InUserCode, Clear
<1>5. QED
  BY <1>2, <1>3, <1>4, UntouchedIfSame

\* A step other than those that take and record a response: each thread is as it was,
\* or is in neither of these states before and after, or has just looked at the list.
LEMMA QuietStep ==
  ASSUME Loops, [Next]_vars, \A t \in Threads : ~Take(t) /\ ~Record(t)
  PROVE  /\ UNCHANGED <<responses, taken>>
         /\ \A u \in Threads :
              \/ Untouched(u)
              \/ Clear(u) /\ Clear(u)'
              \/ /\ Clear(u) /\ Top(u).pc' = "take"
                 /\ (Top(u).pop <=> Several(Matcher(u)))'
<1> DEFINE Kept(u) == \/ Untouched(u)
                      \/ Clear(u) /\ Clear(u)'
                      \/ /\ Clear(u) /\ Top(u).pc' = "take"
                         /\ (Top(u).pop <=> Several(Matcher(u)))'
<1>1. ASSUME calls' = calls, \A i \in 1..Len(matchers) : matchers'[i] = matchers[i]
      PROVE  \A u \in Threads : Kept(u)
  BY <1>1, UntouchedIfSame
<1>2. CASE UNCHANGED vars
  BY <1>1, <1>2 DEF vars
<1>3. ASSUME NEW t \in Threads, Step(t)
      PROVE  UNCHANGED <<responses, taken>> /\ \A u \in Threads : Kept(u)
  <2>1. CASE ResetMatchers(t)
    BY <1>1, <2>1 DEF ResetMatchers
  <2>2. CASE TryMatcher(t) \/ CodeDecides(t)
    <3>1. UNCHANGED <<responses, taken>> /\ Clear(t)
      BY <2>2, TurnShape DEF TryMatcher, CodeDecides, Clear
    <3>2. ASSUME NEW o \in {"response", "real"}, Ends(t, o)
          PROVE  \A u \in Threads : Kept(u)
      BY <3>1, <3>2, EndsTop DEF Outcomes
    <3>3. ASSUME NEW c \in Call, Moves(t, c), c.pc \in {"match", "matching", "take"},
                 c.pc = "take" => c.index = Top(t).index /\ (c.pop <=> Several(Matcher(t)))
          PROVE  \A u \in Threads : Kept(u)
      <4>1. /\ Top(t)' = c /\ c.index = Top(t).index => Matcher(t)' = Matcher(t)
            /\ Active(t)' /\ \A u \in Threads \ {t} : Untouched(u)
        BY <3>3, MovesTop
      <4>2. CASE c.pc = "take"
        <5>1. Top(t)' = c /\ Matcher(t)' = Matcher(t)
          BY <3>3, <4>2, MovesTop
        <5>2. (Top(t).pop <=> Several(Matcher(t)))'
          BY <3>1, <3>3, <4>2, <5>1 DEF Several
        <5>3. QED
          BY <3>1, <4>1, <4>2, <5>1, <5>2
      <4>3. CASE c.pc # "take"
        <5>1. Top(t)' = c
          BY <3>3, MovesTop
        <5>2. Clear(t)'
          BY <3>3, <4>3, <5>1 DEF Clear
        <5>3. QED
          BY <3>1, <4>1, <5>2
      <4>4. QED
        BY <4>2, <4>3
    <3>4. QED
      BY <2>2, <3>1, <3>2, <3>3, TurnShape
  <2>3. CASE NoMockAddress(t) \/ Respond(t) \/ Raise(t)
    <3>1. UNCHANGED <<responses, taken>>
      BY <2>3 DEF NoMockAddress, Respond, Raise
    <3>2. Clear(t) /\ \E o \in Outcomes : Ends(t, o)
      BY <2>3, AnswerShape DEF Clear
    <3>3. QED
      BY <3>1, <3>2, EndsTop
  <2>4. QED
    BY <1>3, <2>1, <2>2, <2>3 DEF Step
<1>4. ASSUME NEW t \in Threads, UserStep(t)
      PROVE  UNCHANGED <<responses, taken>> /\ \A u \in Threads : Kept(u)
  <2>1. ASSUME NEW k \in Kinds, Send(t, k)
        PROVE  UNCHANGED <<responses, taken>> /\ \A u \in Threads : Kept(u)
    <3>1. UNCHANGED <<responses, taken>>
      BY <2>1 DEF Send
    <3>2. QED
      BY <2>1, <3>1, SendTop
  <2>2. ASSUME NEW m \in Matchers, Register(t, m)
        PROVE  UNCHANGED <<responses, taken>> /\ \A u \in Threads : Kept(u)
    <3>1. UNCHANGED <<responses, taken, calls>>
      BY <2>2 DEF Register
    <3>2. QED
      BY <1>1, <2>2, <3>1, RegisterKeeps
  <2>3. CASE ResetAdapter(t) \/ \E m \in Matchers : ResetMatcher(t, m)
    BY <1>1, <2>3 DEF ResetAdapter, ResetMatcher
  <2>4. QED
    BY <1>4, <2>1, <2>2, <2>3 DEF UserStep
<1>5. QED
  BY <1>2, <1>3, <1>4 DEF Next, vars

\* A request takes the first response that is left, and the list keeps its last.
LEMMA TakeEffect ==
  ASSUME Loops, NEW t \in Threads, Take(t), responses[Matcher(t)] # <<>>,
         NEW m \in Matchers, m = Matcher(t)
  PROVE  /\ Len(taken[m]) \in Nat /\ Len(taken'[m]) = Len(taken[m]) + 1
         /\ \A i \in 1..Len(taken[m]) : taken'[m][i] = taken[m][i]
         /\ taken'[m][Len(taken[m]) + 1].id = Top(t).id
         /\ taken'[m][Len(taken[m]) + 1].response = Head(responses[m])
         /\ responses'[m] = IF Top(t).pop THEN Tail(responses[m]) ELSE responses[m]
         /\ \A n \in Matchers \ {m} : taken'[n] = taken[n] /\ responses'[n] = responses[n]
         /\ matcherHistory' = matcherHistory
<1> DEFINE r == [id |-> Top(t).id, response |-> Head(responses[m])]
<1>1. TypeOK
  BY DEF Loops
<1>2. /\ taken \in [Matchers -> Seq([id : Ids, response : Responses])]
      /\ responses \in [Matchers -> Seq(Responses)]
  BY <1>1 DEF TypeOK
<1>3. /\ taken' = [taken EXCEPT ![m] = Append(@, r)]
      /\ responses' = IF Top(t).pop THEN [responses EXCEPT ![m] = Tail(@)] ELSE responses
      /\ matcherHistory' = matcherHistory
  BY DEF Take
<1>4. r.id = Top(t).id /\ r.response = Head(responses[m])
  OBVIOUS
<1> HIDE DEF r
<1>5. /\ taken'[m] = Append(taken[m], r) /\ Len(taken[m]) \in Nat
      /\ \A n \in Matchers \ {m} : taken'[n] = taken[n] /\ responses'[n] = responses[n]
      /\ responses'[m] = IF Top(t).pop THEN Tail(responses[m]) ELSE responses[m]
  BY <1>2, <1>3
<1>6. /\ Len(taken'[m]) = Len(taken[m]) + 1
      /\ \A i \in 1..Len(taken[m]) : taken'[m][i] = taken[m][i]
      /\ taken'[m][Len(taken[m]) + 1] = r
  <2>1. taken[m] \in Seq([id : Ids, response : Responses])
    BY <1>2
  <2>2. QED
    BY <1>5, <2>1
<1>7. QED
  BY <1>3, <1>4, <1>5, <1>6

LEMMA NextOneThread ==
  ASSUME Locked, Loops, OneThread, [Next]_vars
  PROVE  OneThread'
<1>1. ASSUME \A u \in Threads : Active(u)' => Active(u)
      PROVE  OneThread'
  BY <1>1 DEF OneThread
<1>2. ASSUME NEW t \in Threads, Active(t), \A u \in Threads \ {t} : Untouched(u)
      PROVE  OneThread'
  BY <1>1, <1>2 DEF Untouched, Active
<1>3. CASE UNCHANGED vars
  BY <1>1, <1>3 DEF vars, Active
<1>4. ASSUME NEW t \in Threads, Step(t)
      PROVE  OneThread'
  <2>1. CASE ResetMatchers(t)
    BY <1>1, <2>1 DEF ResetMatchers, Active
  <2>2. CASE (\E c \in Call : Moves(t, c)) \/ (\E o \in Outcomes : Ends(t, o))
    BY <1>2, <2>2, MovesTop, EndsTop
  <2>3. QED
    BY <1>4, <2>1, <2>2, StepShape
<1>5. ASSUME NEW t \in Threads, UserStep(t)
      PROVE  OneThread'
  <2>1. ASSUME NEW k \in Kinds, Send(t, k)
        PROVE  OneThread'
    <3>1. \A u \in Threads \ {t} : ~Active(u)
      BY <2>1 DEF Send, MayEnter
    <3>2. \A u \in Threads \ {t} : calls'[u] = calls[u]
      BY <2>1, SendTop DEF Untouched
    <3>3. QED
      BY <3>1, <3>2 DEF OneThread, Active
  <2>2. CASE ResetAdapter(t) \/ \E m \in Matchers : ResetMatcher(t, m) \/ Register(t, m)
    BY <1>1, <2>2 DEF ResetAdapter, ResetMatcher, Register, Active
  <2>3. QED
    BY <1>5, <2>1, <2>2 DEF UserStep
<1>6. QED
  BY <1>3, <1>4, <1>5 DEF Next

\* The matcher of a call that has matched stays.
LEMMA UntouchedTop ==
  ASSUME Loops, NEW t \in Threads, Untouched(t), Active(t), Top(t).pc # "match"
  PROVE  Active(t)' /\ Top(t)' = Top(t) /\ Matcher(t)' = Matcher(t)
<1>1. Top(t).index > 0
  BY TopKept DEF CallKept
<1>2. QED
  BY <1>1 DEF Untouched, Active, Top, Matcher

LEMMA NextLockedInv ==
  ASSUME Locked, Loops, LockedInv, [Next]_vars
  PROVE  LockedInv'
<1>1. OneThread' /\ OneThread /\ PopKnown /\ LastTaken
  BY NextOneThread DEF LockedInv
<1>2. CASE \A t \in Threads : ~Take(t) /\ ~Record(t)
  <2>1. UNCHANGED <<responses, taken>>
    BY <1>2, QuietStep
  <2>2. ASSUME NEW u \in Threads, At(u, "take")'
        PROVE  (Top(u).pop <=> Several(Matcher(u)))'
    <3>1. CASE Untouched(u)
      <4>1. At(u, "take")
        BY <2>2, <3>1 DEF Untouched, At, Active, Top
      <4>2. Top(u)' = Top(u) /\ Matcher(u)' = Matcher(u)
        BY <3>1, <4>1, UntouchedTop DEF At
      <4>3. QED
        BY <1>1, <2>1, <4>1, <4>2 DEF PopKnown, Several
    <3>2. CASE ~Untouched(u)
      BY <1>2, <2>2, <3>2, QuietStep DEF Clear, At
    <3>3. QED
      BY <3>1, <3>2
  <2>3. ASSUME NEW u \in Threads, At(u, "record")'
        PROVE  (LET took == taken[Matcher(u)] IN took # <<>> /\ took[Len(took)].id = Top(u).id)'
    <3>1. Untouched(u)
      BY <1>2, <2>3, QuietStep DEF Clear, At
    <3>2. At(u, "record")
      BY <2>3, <3>1 DEF Untouched, At, Active, Top
    <3>3. Top(u)' = Top(u) /\ Matcher(u)' = Matcher(u)
      BY <3>1, <3>2, UntouchedTop DEF At
    <3>4. QED
      BY <1>1, <2>1, <3>2, <3>3 DEF LastTaken
  <2>4. QED
    BY <1>1, <2>2, <2>3 DEF LockedInv, PopKnown, LastTaken
<1>3. ASSUME NEW t \in Threads, Take(t) \/ Record(t)
      PROVE  LockedInv'
  <2>1. Active(t) /\ \A u \in Threads \ {t} : ~Active(u)'
    <3>1. Active(t) /\ \A u \in Threads \ {t} : Untouched(u)
      BY <1>3, TakeShape, MovesTop, EndsTop DEF Outcomes
    <3>2. QED
      BY <1>1, <3>1 DEF OneThread, Untouched, Active
  <2>2. CASE Clear(t)'
    BY <1>1, <2>1, <2>2 DEF LockedInv, PopKnown, LastTaken, At, Clear
  <2>3. ASSUME NEW c \in Call, Moves(t, c), c.index = Top(t).index, c.pc = "record", Take(t),
               responses[Matcher(t)] # <<>>
        PROVE  LockedInv'
    <3>1. Top(t)' = c /\ Matcher(t)' = Matcher(t) /\ c.id = Top(t).id
      BY <2>3, MovesTop DEF Moves
    <3>2. PICK m \in Matchers : m = Matcher(t)
      BY <1>3, TakeShape DEF Ordinary
    <3>3. /\ Len(taken[m]) \in Nat /\ Len(taken'[m]) = Len(taken[m]) + 1
          /\ taken'[m][Len(taken[m]) + 1].id = Top(t).id
      BY <2>3, <3>2, TakeEffect
    <3>4. taken'[m] # <<>> /\ taken'[m][Len(taken'[m])].id = Top(t).id
      BY <3>3
    <3>5. QED
      BY <1>1, <2>1, <2>3, <3>1, <3>2, <3>4 DEF LockedInv, PopKnown, LastTaken, At
  <2>4. ASSUME NEW c \in Call, Moves(t, c), c.pc = "callback"
        PROVE  Clear(t)'
    BY <2>4, MovesTop DEF Clear
  <2>5. "error" \in Outcomes
    BY DEF Outcomes
  <2>6. QED
    BY <1>3, <2>2, <2>3, <2>4, <2>5, TakeShape, EndsTop
<1>4. QED
  BY <1>2, <1>3

LEMMA AlwaysLocked == Locked => (Spec => []LockedInv)
<1> SUFFICES ASSUME Locked PROVE Spec => []LockedInv
  OBVIOUS
<1>1. Init => LockedInv
  BY DEF Init, LockedInv, OneThread, PopKnown, LastTaken, Active, At
<1>2. Loops /\ LockedInv /\ [Next]_vars => LockedInv'
  BY NextLockedInv
<1>3. QED
  BY <1>1, <1>2, AlwaysLoops, PTL DEF Spec

\* An ordinary matcher has a list, and one of its responses is next.
LEMMA ListFacts ==
  ASSUME Loops, NEW m \in Ordinary
  PROVE  LET n == Len(List[m])
             p == Turn(m, Len(taken[m]) + 1) IN
         /\ m \in Matchers /\ List[m] \in Seq(Responses) /\ n \in Nat \ {0}
         /\ Len(taken[m]) \in Nat /\ p \in 1..n
<1>1. m \in Matchers /\ List[m] \in Seq(Responses) /\ List[m] # <<>>
  BY MatchersAssumption DEF Ordinary
<1>2. Len(taken[m]) \in Nat
  BY <1>1 DEF Loops, TypeOK
<1>3. Len(List[m]) \in Nat \ {0}
  BY <1>1
<1>4. QED
  BY <1>1, <1>2, <1>3 DEF Turn

LEMMA NextInOrder ==
  ASSUME Loops, LockedInv, NEW m \in Ordinary, InOrder(m), [Next]_vars
  PROVE  InOrder(m)'
<1>1. CASE responses'[m] = responses[m] /\ taken'[m] = taken[m]
  BY <1>1 DEF InOrder
<1>2. CASE \A t \in Threads : ~Take(t)
  <2>1. CASE \A t \in Threads : ~Record(t)
    BY <1>1, <1>2, <2>1, QuietStep
  <2>2. CASE \E t \in Threads : Record(t)
    BY <1>1, <2>2 DEF Record
  <2>3. QED
    BY <2>1, <2>2
<1>3. ASSUME NEW t \in Threads, Take(t)
      PROVE  InOrder(m)'
  <2>1. Matcher(t) \in Matchers /\ m \in Matchers
    BY <1>3, TakeShape, ListFacts DEF Ordinary
  <2>2. CASE responses[Matcher(t)] = <<>>
    BY <1>1, <1>3, <2>2 DEF Take
  <2>3. CASE responses[Matcher(t)] # <<>> /\ Matcher(t) # m
    BY <1>1, <1>3, <2>1, <2>3, TakeEffect
  <2>4. CASE responses[Matcher(t)] # <<>> /\ Matcher(t) = m
    <3>1. PICK n \in Nat \ {0} : n = Len(List[m])
      BY ListFacts
    <3>2. PICK k \in Nat : k = Len(taken[m])
      BY ListFacts
    <3>3. PICK p \in 1..n : p = Turn(m, k + 1)
      BY <3>1, <3>2, ListFacts
    <3>4. /\ Len(taken'[m]) = k + 1
          /\ \A i \in 1..k : taken'[m][i] = taken[m][i]
          /\ taken'[m][k + 1].response = Head(responses[m])
          /\ responses'[m] = IF Top(t).pop THEN Tail(responses[m]) ELSE responses[m]
      BY <1>3, <2>1, <2>4, <3>2, TakeEffect
    <3>5. List[m] \in Seq(Responses) /\ responses[m] = SubSeq(List[m], p, n)
      BY <3>1, <3>2, <3>3, ListFacts DEF InOrder
    <3>6. /\ Len(responses[m]) = n - p + 1 /\ Head(responses[m]) = List[m][p]
          /\ p < n => Tail(responses[m]) = SubSeq(List[m], p + 1, n)
      <4>1. p \in 1..Len(List[m]) /\ List[m] \in Seq(Responses)
        BY <3>1, <3>5
      <4>2. LET rest == SubSeq(List[m], p, Len(List[m])) IN
            /\ rest \in Seq(Responses) /\ Len(rest) = Len(List[m]) - p + 1
            /\ Head(rest) = List[m][p]
            /\ p < Len(List[m]) => Tail(rest) = SubSeq(List[m], p + 1, Len(List[m]))
        BY <4>1, RestSeq
      <4>3. QED
        BY <3>1, <3>5, <4>2
    <3>7. Top(t).pop <=> p < n
      <4>1. At(t, "take")
        BY <1>3 DEF Take
      <4>2. Top(t).pop <=> Len(responses[m]) > 1
        BY <2>4, <4>1 DEF LockedInv, PopKnown, Several
      <4>3. QED
        BY <3>1, <3>3, <3>6, <4>2
    <3>8. Turn(m, k + 1 + 1) = IF p < n THEN p + 1 ELSE n
      BY <3>1, <3>2, <3>3 DEF Turn
    <3>9. responses'[m] = SubSeq(List[m], Turn(m, k + 1 + 1), n)
      <4>1. CASE p < n
        BY <3>4, <3>6, <3>7, <3>8, <4>1
      <4>2. CASE ~(p < n)
        <5>1. p = n
          BY <3>1, <3>3, <4>2
        <5>2. QED
          BY <3>4, <3>5, <3>7, <3>8, <4>2, <5>1
      <4>3. QED
        BY <4>1, <4>2
    <3>10. \A i \in 1..k + 1 : taken'[m][i].response = List[m][Turn(m, i)]
      <4>1. \A i \in 1..k : taken'[m][i].response = List[m][Turn(m, i)]
        BY <3>2, <3>4 DEF InOrder
      <4>2. taken'[m][k + 1].response = List[m][Turn(m, k + 1)]
        BY <3>3, <3>4, <3>6
      <4>3. \A i \in 1..k + 1 : i \in 1..k \/ i = k + 1
        BY <3>2
      <4>4. QED
        BY <4>1, <4>2, <4>3
    <3>11. QED
      BY <3>1, <3>4, <3>9, <3>10 DEF InOrder, Turn
  <2>5. QED
    BY <2>2, <2>3, <2>4
<1>4. QED
  BY <1>2, <1>3

LEMMA InitInOrder ==
  ASSUME Init, NEW m \in Ordinary
  PROVE  InOrder(m)
<1>1. Len(taken[m]) = 0 /\ responses[m] = List[m] /\ Loops
  BY InitLoops, ListFacts DEF Init
<1>2. PICK n \in Nat \ {0} : n = Len(List[m])
  BY <1>1, ListFacts
<1>3. Turn(m, 1) = 1
  <2>1. n = 1 \/ 1 < n
    OBVIOUS
  <2>2. QED
    BY <1>2, <2>1 DEF Turn
<1>4. List[m] \in Seq(Responses)
  BY <1>1, ListFacts
<1>5. SubSeq(List[m], 1, n) = List[m]
  <2>1. /\ \A i \in 1..n : List[m][i] \in Responses
    BY <1>2, <1>4
  <2>2. /\ SubSeq(List[m], 1, n) \in Seq(Responses)
        /\ Len(SubSeq(List[m], 1, n)) = IF 1 <= n THEN n - 1 + 1 ELSE 0
        /\ \A i \in 1..(n - 1 + 1) : SubSeq(List[m], 1, n)[i] = List[m][1 + i - 1]
    BY <1>2, <2>1, SubSeqProperties
  <2>3. n - 1 + 1 = n /\ 1 <= n /\ \A i \in 1..n : 1 + i - 1 = i
    BY <1>2
  <2>4. Len(SubSeq(List[m], 1, n)) = n /\ \A i \in 1..n : SubSeq(List[m], 1, n)[i] = List[m][i]
    BY <2>2, <2>3
  <2>5. QED
    BY <1>2, <1>4, <2>2, <2>4, SeqEqual
<1>6. QED
  BY <1>1, <1>2, <1>3, <1>5 DEF InOrder

\* Behind a mocker, whose lock lets one thread at a time into send, each matcher gives
\* the responses of its list in order and then the last one for ever: reading the
\* length of the list and popping it are not torn apart.
THEOREM ResponsesInOrderHolds == Locked => (Spec => []ResponsesInOrder)
<1> SUFFICES ASSUME Locked PROVE Spec => []ResponsesInOrder
  OBVIOUS
<1> DEFINE AllInOrder == \A m \in Ordinary : InOrder(m)
<1>1. Init => AllInOrder
  BY InitInOrder
<1>2. Loops /\ LockedInv /\ AllInOrder /\ [Next]_vars => AllInOrder'
  BY NextInOrder
<1>3. AllInOrder => ResponsesInOrder
  BY DEF ResponsesInOrder, InOrder, Turn
<1> HIDE DEF AllInOrder
<1>4. QED
  BY <1>1, <1>2, <1>3, AlwaysLoops, AlwaysLocked, PTL DEF Spec

\* How many threads have taken a response of m that they have not recorded.
LEMMA Pending ==
  ASSUME NEW t, NEW m,
         \A u \in Threads \ {t} : ~Recording(u, m)
  PROVE  Cardinality({u \in Threads : Recording(u, m)}) =
           IF t \in Threads /\ Recording(t, m) THEN 1 ELSE 0
<1> DEFINE P == {u \in Threads : Recording(u, m)}
<1>1. CASE t \in Threads /\ Recording(t, m)
  <2>1. P = {t}
    BY <1>1
  <2>2. QED
    BY <1>1, <2>1, FS_Singleton
<1>2. CASE ~(t \in Threads /\ Recording(t, m))
  <2>1. P = {}
    BY <1>2
  <2>2. QED
    BY <1>2, <2>1, FS_EmptySet
<1>3. QED
  BY <1>1, <1>2

LEMMA SettledInt ==
  ASSUME Loops, OneThread, NEW m \in Matchers
  PROVE  Settled(m) \in Int /\ Len(taken[m]) \in Nat /\ Len(matcherHistory[m]) \in Nat
<1>1. Len(taken[m]) \in Nat /\ Len(matcherHistory[m]) \in Nat
  BY DEF Loops, TypeOK
<1>2. CASE \E t \in Threads : Recording(t, m)
  <2>1. PICK t \in Threads : Recording(t, m)
    BY <1>2
  <2>2. \A u \in Threads \ {t} : ~Recording(u, m)
    BY <2>1 DEF OneThread, Recording, At
  <2>3. Cardinality({u \in Threads : Recording(u, m)}) \in Int
    BY <2>2, Pending
  <2>4. QED
    BY <1>1, <2>3 DEF Settled
<1>3. CASE \A t \in Threads : ~Recording(t, m)
  <2>1. {u \in Threads : Recording(u, m)} = {}
    BY <1>3
  <2>2. Cardinality({u \in Threads : Recording(u, m)}) = 0
    BY <2>1, FS_EmptySet
  <2>3. QED
    BY <1>1, <2>2 DEF Settled
<1>4. QED
  BY <1>2, <1>3

LEMMA NextAligned ==
  ASSUME Locked, Loops, LockedInv, NEW m \in Ordinary, Aligned(m), [Next]_vars
  PROVE  Aligned(m)'
<1>1. /\ OneThread /\ LastTaken /\ Loops' /\ OneThread' /\ m \in Matchers
  BY NextLoops, NextOneThread DEF LockedInv, Ordinary
<1>2. /\ Settled(m) \in Int /\ Len(taken[m]) \in Nat /\ Len(matcherHistory[m]) \in Nat
  BY <1>1, SettledInt
<1>3. ASSUME Settled(m)' = Settled(m),
             \A i \in 1..Settled(m) : taken'[m][i] = taken[m][i],
             matcherHistory'[m] \in {matcherHistory[m], <<>>}
      PROVE  Aligned(m)'
  <2>1. Len(matcherHistory[m]) <= Settled(m)
    BY DEF Aligned
  <2>2. CASE matcherHistory'[m] = <<>>
    BY <1>2, <1>3, <2>1, <2>2 DEF Aligned
  <2>3. CASE matcherHistory'[m] = matcherHistory[m]
    <3>1. \A i \in 1..Len(matcherHistory[m]) :
            Settled(m) - Len(matcherHistory[m]) + i \in 1..Settled(m)
      BY <1>2, <2>1
    <3>2. QED
      BY <1>3, <2>3, <3>1 DEF Aligned
  <2>4. QED
    BY <1>3, <2>2, <2>3
<1>4. CASE \A t \in Threads : ~Take(t) /\ ~Record(t)
  <2>1. UNCHANGED taken
    BY <1>4, QuietStep
  <2>2. \A u \in Threads : Recording(u, m)' <=> Recording(u, m)
    <3> TAKE u \in Threads
    <3>1. CASE Untouched(u)
      <4>1. At(u, "record")' <=> At(u, "record")
        BY <3>1 DEF Untouched, At, Active, Top
      <4>2. At(u, "record") => Matcher(u)' = Matcher(u)
        BY <3>1, UntouchedTop DEF At
      <4>3. QED
        BY <4>1, <4>2 DEF Recording
    <3>2. CASE ~Untouched(u)
      BY <1>4, <3>2, QuietStep DEF Clear, At, Recording
    <3>3. QED
      BY <3>1, <3>2
  <2>3. Settled(m)' = Settled(m)
    BY <2>1, <2>2 DEF Settled
  <2>4. matcherHistory'[m] \in {matcherHistory[m], <<>>}
    BY <1>1, <1>4, HistoryShape
  <2>5. QED
    BY <1>3, <2>1, <2>3, <2>4
<1>5. ASSUME NEW t \in Threads, Take(t) \/ Record(t)
      PROVE  /\ Active(t) /\ Matcher(t) \in Matchers
             /\ \A u \in Threads \ {t} : ~Recording(u, m) /\ ~Recording(u, m)'
  <2>1. Active(t) /\ \A u \in Threads \ {t} : Untouched(u)
    BY <1>5, TakeShape, MovesTop, EndsTop DEF Outcomes
  <2>2. \A u \in Threads \ {t} : ~Active(u) /\ ~Active(u)'
    BY <1>1, <2>1 DEF OneThread, Untouched, Active
  <2>3. QED
    BY <1>5, <2>1, <2>2, TakeShape DEF Recording, At, Ordinary
<1>6. ASSUME NEW t \in Threads, Take(t) \/ Record(t)
      PROVE  /\ Settled(m) = Len(taken[m]) - IF Recording(t, m) THEN 1 ELSE 0
             /\ Settled(m)' = Len(taken'[m]) - IF Recording(t, m)' THEN 1 ELSE 0
  <2>1. Cardinality({u \in Threads : Recording(u, m)}) = IF Recording(t, m) THEN 1 ELSE 0
    BY <1>5, <1>6, Pending
  <2>2. Cardinality({u \in Threads : Recording(u, m)'}) = IF Recording(t, m)' THEN 1 ELSE 0
    <3>1. CASE Recording(t, m)'
      <4>1. {u \in Threads : Recording(u, m)'} = {t}
        BY <1>5, <1>6, <3>1
      <4>2. QED
        BY <3>1, <4>1, FS_Singleton
    <3>2. CASE ~Recording(t, m)'
      <4>1. {u \in Threads : Recording(u, m)'} = {}
        BY <1>5, <1>6, <3>2
      <4>2. QED
        BY <3>2, <4>1, FS_EmptySet
    <3>3. QED
      BY <3>1, <3>2
  <2>3. QED
    BY <2>1, <2>2 DEF Settled
<1>7. ASSUME NEW t \in Threads, Take(t)
      PROVE  Aligned(m)'
  <2>1. ~Recording(t, m) /\ matcherHistory' = matcherHistory
    BY <1>7 DEF Take, Recording, At
  <2>2. CASE responses[Matcher(t)] = <<>>
    <3>1. taken' = taken
      BY <1>7, <2>2 DEF Take
    <3>2. ~Recording(t, m)'
      <4>1. Ends(t, "error")
        BY <1>7, <2>2, TakeShape DEF Take, Record, At
      <4>2. Clear(t)'
        BY <4>1, EndsTop DEF Outcomes
      <4>3. QED
        BY <4>2 DEF Clear, Recording, At
    <3>3. QED
      BY <1>2, <1>3, <1>6, <1>7, <2>1, <3>1, <3>2
  <2>3. CASE responses[Matcher(t)] # <<>>
    <3>1. PICK c \in Call : Moves(t, c) /\ c.index = Top(t).index /\ c.pc = "record"
      BY <1>7, <2>3, TakeShape DEF Take, Record, At
    <3>2. Recording(t, m)' <=> Matcher(t) = m
      BY <3>1, MovesTop DEF Recording, At
    <3>3. CASE Matcher(t) # m
      <4>1. taken'[m] = taken[m]
        BY <1>1, <1>5, <1>7, <2>3, <3>3, TakeEffect
      <4>2. ~Recording(t, m)'
        BY <3>2, <3>3
      <4>3. Settled(m)' = Settled(m)
        BY <1>6, <1>7, <2>1, <4>1, <4>2
      <4>4. QED
        BY <1>3, <2>1, <4>1, <4>3
    <3>4. CASE Matcher(t) = m
      <4>1. /\ Len(taken'[m]) = Len(taken[m]) + 1
            /\ \A i \in 1..Len(taken[m]) : taken'[m][i] = taken[m][i]
        BY <1>1, <1>7, <2>3, <3>4, TakeEffect
      <4>2. Settled(m) = Len(taken[m]) /\ Settled(m)' = Settled(m)
        <5>1. Settled(m) = Len(taken[m]) - 0
          BY <1>6, <1>7, <2>1
        <5>2. Settled(m)' = Len(taken'[m]) - 1
          BY <1>6, <1>7, <3>2, <3>4
        <5>3. QED
          BY <1>2, <4>1, <5>1, <5>2
      <4>3. QED
        BY <1>3, <2>1, <4>1, <4>2
    <3>5. QED
      BY <3>3, <3>4
  <2>4. QED
    BY <2>2, <2>3
<1>8. ASSUME NEW t \in Threads, Record(t)
      PROVE  Aligned(m)'
  <2>1. PICK c \in Call : Moves(t, c) /\ c.index = Top(t).index /\ c.pc = "callback"
    BY <1>8, TakeShape DEF Take, Record, At
  <2>2. ~Recording(t, m)'
    BY <2>1, MovesTop DEF Recording, At
  <2>3. taken' = taken /\ (Recording(t, m) <=> Matcher(t) = m) /\ At(t, "record")
    BY <1>8 DEF Record, Recording
  <2>4. CASE Matcher(t) # m
    <3>1. matcherHistory'[m] = matcherHistory[m]
      BY <1>1, <1>8, <2>4 DEF Record, Loops, TypeOK
    <3>2. QED
      BY <1>2, <1>3, <1>6, <1>8, <2>2, <2>3, <2>4, <3>1
  <2>5. CASE Matcher(t) = m
    <3>1. PICK n \in Nat : n = Len(matcherHistory[m])
      BY <1>2
    <3>2. PICK k \in Nat : k = Len(taken[m])
      BY <1>2
    <3>3. Settled(m) = k - 1 /\ Settled(m)' = k
      <4>1. Settled(m) = Len(taken[m]) - 1
        BY <1>6, <1>8, <2>3, <2>5
      <4>2. Settled(m)' = Len(taken[m]) - 0
        BY <1>6, <1>8, <2>2, <2>3
      <4>3. QED
        BY <3>2, <4>1, <4>2
    <3>4. k > 0 /\ taken[m][k].id = Top(t).id
      <4>1. taken[m] # <<>> /\ taken[m][Len(taken[m])].id = Top(t).id
        BY <1>1, <2>3, <2>5 DEF LastTaken
      <4>2. taken[m] \in Seq([id : Ids, response : Responses])
        BY <1>1 DEF Loops, TypeOK
      <4>3. QED
        BY <3>2, <4>1, <4>2
    <3>5. /\ Len(matcherHistory'[m]) = n + 1 /\ matcherHistory'[m][n + 1] = Top(t).id
          /\ \A i \in 1..n : matcherHistory'[m][i] = matcherHistory[m][i]
      <4>1. matcherHistory \in [Matchers -> Seq(Ids)]
        BY DEF Loops, TypeOK
      <4>2. matcherHistory'[m] = Append(matcherHistory[m], Top(t).id)
        BY <1>1, <1>8, <2>5, <4>1 DEF Record
      <4>3. matcherHistory[m] \in Seq(Ids)
        BY <1>1, <4>1
      <4>4. QED
        BY <3>1, <4>2, <4>3
    <3>6. n <= k - 1 /\ \A i \in 1..n : matcherHistory[m][i] = taken[m][k - 1 - n + i].id
      BY <3>1, <3>3 DEF Aligned
    <3>7. ASSUME NEW i \in 1..n + 1
          PROVE  matcherHistory'[m][i] = taken[m][k - (n + 1) + i].id
      <4>1. k - (n + 1) + i = k - 1 - n + i /\ (i \in 1..n \/ i = n + 1)
        BY <3>1, <3>2
      <4>2. k - (n + 1) + (n + 1) = k
        OBVIOUS
      <4>3. QED
        BY <3>4, <3>5, <3>6, <4>1, <4>2
    <3>8. n + 1 <= k
      BY <3>1, <3>2, <3>6
    <3>9. QED
      BY <2>3, <3>3, <3>5, <3>7, <3>8 DEF Aligned
  <2>6. QED
    BY <2>4, <2>5
<1>9. QED
  BY <1>4, <1>7, <1>8

LEMMA InitAligned ==
  ASSUME Init, NEW m \in Ordinary
  PROVE  Aligned(m)
<1>1. /\ {u \in Threads : Recording(u, m)} = {} /\ m \in Matchers
  BY DEF Init, Recording, At, Active, Ordinary
<1>2. Settled(m) = 0 /\ Len(matcherHistory[m]) = 0
  <2>1. Cardinality({u \in Threads : Recording(u, m)}) = 0
    BY <1>1, FS_EmptySet
  <2>2. QED
    BY <1>1, <2>1 DEF Init, Settled
<1>3. QED
  BY <1>2 DEF Aligned

\* A matcher's history is that of the responses it gave since it was last reset, in
\* their order, for any sends nested in callbacks: behind the lock, taking a response
\* and recording the request are not torn apart.
THEOREM HistoryAlignedHolds == Locked => (Spec => []HistoryAligned)
<1> SUFFICES ASSUME Locked PROVE Spec => []HistoryAligned
  OBVIOUS
<1> DEFINE AllAligned == \A m \in Ordinary : Aligned(m)
<1>1. Init => AllAligned
  BY InitAligned
<1>2. Loops /\ LockedInv /\ AllAligned /\ [Next]_vars => AllAligned'
  BY NextAligned
<1>3. AllAligned => HistoryAligned
  BY DEF HistoryAligned, Aligned, Settled, Recording
<1> HIDE DEF AllAligned
<1>4. QED
  BY <1>1, <1>2, <1>3, AlwaysLoops, AlwaysLocked, PTL DEF Spec

-----------------------------------------------------------------------------
(* reset().                                                                *)

\* Only reset() makes the adapter forget.
LEMMA RememberedStays ==
  ASSUME Loops, [Next]_vars, \A t \in Threads : ~ResetAdapter(t),
         NEW id, Remembered(id)
  PROVE  Remembered(id)'
<1>1. history \in Seq(Ids)
  BY DEF Loops, TypeOK
<1>2. CASE UNCHANGED <<history, overlapped>>
  BY <1>2 DEF Remembered
<1>3. ASSUME NEW t \in Threads, NEW k \in Kinds, Send(t, k)
      PROVE  Remembered(id)'
  <2>1. overlapped \subseteq overlapped'
    BY <1>3 DEF Send
  <2>2. PICK new \in Ids : history' = Append(history, new)
    BY <1>3, SendShape
  <2>3. \A j \in 1..Len(history) : j \in 1..Len(history') /\ history'[j] = history[j]
    BY <1>1, <2>2
  <2>4. QED
    BY <2>1, <2>3 DEF Remembered
<1>4. CASE UNCHANGED vars
  BY <1>2, <1>4 DEF vars
<1>5. ASSUME NEW t \in Threads, Step(t)
      PROVE  UNCHANGED <<history, overlapped>>
  BY <1>5 DEF Step, TryMatcher, CodeDecides, NoMockAddress, Take, Record, Respond, Raise,
              ResetMatchers
<1>6. ASSUME NEW t \in Threads, NEW m \in Matchers, Register(t, m) \/ ResetMatcher(t, m)
      PROVE  UNCHANGED <<history, overlapped>>
  BY <1>6 DEF Register, ResetMatcher
<1>7. QED
  BY <1>2, <1>3, <1>4, <1>5, <1>6 DEF Next, UserStep

\* A call is that of an old one's request, or has just been entered in the history.
LEMMA CallIds ==
  ASSUME Loops, [Next]_vars, NEW u \in Threads, NEW i \in 1..Len(calls'[u])
  PROVE  \/ \E j \in 1..Len(calls[u]) : calls'[u][i].id = calls[u][j].id
         \/ \E k \in 1..Len(history') : history'[k] = calls'[u][i].id
<1> DEFINE Old == \E j \in 1..Len(calls[u]) : calls'[u][i].id = calls[u][j].id
<1>1. CASE calls'[u] = calls[u]
  BY <1>1
<1>2. ASSUME NEW t \in Threads, NEW c \in Call, Moves(t, c)
      PROVE  Old
  <2>1. /\ Active(t) /\ SetTop(t, c) /\ c.id = Top(t).id /\ TypeOK
    BY <1>2 DEF Moves, Loops
  <2>2. /\ Len(calls'[t]) = Len(calls[t]) /\ calls'[t][Len(calls[t])] = c
        /\ \A j \in 1..Len(calls[t]) - 1 : calls'[t][j] = calls[t][j]
        /\ \A v \in Threads \ {t} : calls'[v] = calls[v]
        /\ Len(calls[t]) \in Nat \ {0} /\ Top(t) = calls[t][Len(calls[t])]
    BY <2>1, SetTopFacts, TopFacts
  <2>3. CASE u = t
    <3>1. i = Len(calls[t]) \/ i \in 1..Len(calls[t]) - 1
      BY <2>2, <2>3
    <3>2. i \in 1..Len(calls[t])
      BY <2>2, <2>3
    <3>3. QED
      BY <2>1, <2>2, <2>3, <3>1, <3>2
  <2>4. CASE u # t
    BY <1>1, <2>2, <2>4
  <2>5. QED
    BY <2>3, <2>4
<1>3. ASSUME NEW t \in Threads, NEW o \in Outcomes, Ends(t, o)
      PROVE  Old
  <2>1. Active(t) /\ End(t, o) /\ TypeOK
    BY <1>3 DEF Ends, Loops
  <2>2. /\ Len(calls'[t]) = Len(calls[t]) - 1
        /\ \A j \in 1..Len(calls[t]) - 1 : calls'[t][j] = calls[t][j]
        /\ \A v \in Threads \ {t} : calls'[v] = calls[v]
        /\ Len(calls[t]) \in Nat \ {0}
    BY <2>1, PopFacts, TopFacts DEF End
  <2>3. CASE u = t
    <3>1. i \in 1..Len(calls[t]) - 1 /\ i \in 1..Len(calls[t])
      BY <2>2, <2>3
    <3>2. QED
      BY <2>2, <2>3, <3>1
  <2>4. CASE u # t
    BY <1>1, <2>2, <2>4
  <2>5. QED
    BY <2>3, <2>4
<1>4. ASSUME NEW t \in Threads, NEW k \in Kinds, Send(t, k)
      PROVE  Old \/ \E j \in 1..Len(history') : history'[j] = calls'[u][i].id
  <2>1. PICK new \in Ids : new = Len(sent) + 1
    BY <1>4, SendShape
  <2>2. PICK n \in Nat : n = Len(calls[t])
    BY <1>4, SendShape
  <2>3. /\ Len(calls'[t]) = n + 1 /\ calls'[t][n + 1].id = new
        /\ \A j \in 1..n : calls'[t][j] = calls[t][j]
        /\ \A v \in Threads \ {t} : calls'[v] = calls[v]
        /\ history' = Append(history, new)
    BY <1>4, <2>1, <2>2, SendShape
  <2>4. history \in Seq(Ids)
    BY DEF Loops, TypeOK
  <2>5. Len(history') \in 1..Len(history') /\ history'[Len(history')] = new
    BY <2>3, <2>4
  <2>6. CASE u = t
    <3>1. i = n + 1 \/ i \in 1..n
      BY <2>3, <2>6
    <3>2. QED
      BY <2>2, <2>3, <2>5, <2>6, <3>1
  <2>7. CASE u # t
    BY <1>1, <2>3, <2>7
  <2>8. QED
    BY <2>6, <2>7
<1>5. CASE UNCHANGED vars
  BY <1>1, <1>5 DEF vars
<1>6. ASSUME NEW t \in Threads, ResetMatchers(t) \/ ResetAdapter(t)
               \/ \E m \in Matchers : Register(t, m) \/ ResetMatcher(t, m)
      PROVE  calls' = calls
  BY <1>6 DEF ResetMatchers, ResetAdapter, Register, ResetMatcher
<1>7. QED
  BY <1>1, <1>2, <1>3, <1>4, <1>5, <1>6, StepShape DEF Next, UserStep

LEMMA NextCallsRemembered ==
  ASSUME Loops, CallsRemembered, [Next]_vars
  PROVE  CallsRemembered'
<1> SUFFICES ASSUME NEW u \in Threads, NEW i \in 1..Len(calls'[u])
             PROVE  Remembered(calls[u][i].id)'
  BY DEF CallsRemembered
<1>1. CASE \E t \in Threads : ResetAdapter(t)
  <2>1. overlapped' = overlapped \cup InProgress /\ calls' = calls
    BY <1>1 DEF ResetAdapter
  <2>2. calls[u][i].id \in InProgress
    <3>1. calls[u][i] \in Call
      BY <2>1 DEF Loops, TypeOK
    <3>2. calls[u][i].id \in Ids
      BY <3>1 DEF Call
    <3>3. QED
      BY <2>1, <3>2 DEF InProgress
  <2>3. QED
    BY <2>1, <2>2 DEF Remembered
<1>2. CASE \A t \in Threads : ~ResetAdapter(t)
  <2>1. ASSUME NEW j \in 1..Len(calls[u]), calls'[u][i].id = calls[u][j].id
        PROVE  Remembered(calls[u][i].id)'
    <3>1. PICK id : id = calls[u][j].id
      OBVIOUS
    <3>2. Remembered(id)
      BY <3>1 DEF CallsRemembered
    <3>3. Remembered(id)'
      BY <1>2, <3>2, RememberedStays
    <3>4. QED
      BY <2>1, <3>1, <3>3 DEF Remembered
  <2>2. ASSUME NEW k \in 1..Len(history'), history'[k] = calls'[u][i].id
        PROVE  Remembered(calls[u][i].id)'
    BY <2>2 DEF Remembered
  <2>3. QED
    BY <2>1, <2>2, CallIds
<1>3. QED
  BY <1>1, <1>2

\* Matchers stay registered.
LEMMA MatchersStay ==
  ASSUME Loops, [Next]_vars
  PROVE  /\ Len(matchers) \in Nat /\ Len(matchers') \in Nat
         /\ Len(matchers') >= Len(matchers)
         /\ \A i \in 1..Len(matchers) : matchers'[i] = matchers[i]
<1>1. Len(matchers) \in Nat /\ Len(matchers') \in Nat
  BY NextTypeOK DEF Loops, TypeOK
<1>2. CASE matchers' = matchers
  BY <1>1, <1>2
<1>3. ASSUME NEW t \in Threads, NEW m \in Matchers, Register(t, m)
      PROVE  /\ Len(matchers') >= Len(matchers)
             /\ \A i \in 1..Len(matchers) : matchers'[i] = matchers[i]
  BY <1>1, <1>3, RegisterKeeps
<1>4. ASSUME NEW t \in Threads, Step(t)
      PROVE  matchers' = matchers
  BY <1>4 DEF Step, TryMatcher, CodeDecides, NoMockAddress, Take, Record, Respond, Raise,
              ResetMatchers
<1>5. ASSUME NEW t \in Threads, ~\E m \in Matchers : Register(t, m), UserStep(t)
      PROVE  matchers' = matchers
  BY <1>5 DEF UserStep, Send, ResetAdapter, ResetMatcher
<1>6. CASE UNCHANGED vars
  BY <1>2, <1>6 DEF vars
<1>7. QED
  BY <1>1, <1>2, <1>3, <1>4, <1>5, <1>6 DEF Next

LEMMA NextRegistered ==
  ASSUME Loops, HistoriesRegistered, [Next]_vars
  PROVE  HistoriesRegistered'
<1> SUFFICES ASSUME NEW m \in Matchers, matcherHistory'[m] # <<>>
             PROVE  \E i \in 1..Len(matchers') : matchers'[i] = m
  BY DEF HistoriesRegistered
<1>1. ASSUME NEW i \in 1..Len(matchers), matchers[i] = m
      PROVE  \E j \in 1..Len(matchers') : matchers'[j] = m
  BY <1>1, MatchersStay
<1>2. CASE matcherHistory'[m] = matcherHistory[m]
  BY <1>1, <1>2 DEF HistoriesRegistered
<1>3. ASSUME NEW t \in Threads, Record(t), m = Matcher(t)
      PROVE  \E j \in 1..Len(matchers') : matchers'[j] = m
  <2>1. Active(t) /\ Top(t).pc = "record"
    BY <1>3 DEF Record, At
  <2>2. Top(t).index \in 1..Len(matchers)
    BY <2>1, TopKept DEF CallKept
  <2>3. QED
    BY <1>1, <1>3, <2>2 DEF Matcher
<1>4. QED
  BY <1>2, <1>3, HistoryShape

\* Entries that are excused stay so, but for those of the matcher that is reset.
LEMMA NextStillToReset ==
  ASSUME Resetless = {}, Loops, ResetInv, [Next]_vars
  PROVE  StillToReset'
<1> DEFINE Excused(m) == \E t \in Threads :
             /\ resetting[t] # 0
             /\ \E i \in resetting[t]..Len(matchers) : matchers[i] = m
<1>1. /\ StillToReset /\ HistoriesRegistered /\ CallsRemembered
      /\ matcherHistory \in [Matchers -> Seq(Ids)]
      /\ \A t \in Threads : resetting[t] \in Nat
  <2>1. /\ matcherHistory \in [Matchers -> Seq(Ids)]
        /\ \A t \in Threads : resetting[t] \in 0..Cardinality(Matchers) + 1
    BY DEF Loops, TypeOK
  <2>2. QED
    BY <2>1, MatchersAssumption, FS_CardinalityType DEF ResetInv
<1>2. SUFFICES ASSUME NEW m \in Matchers, NEW k \in 1..Len(matcherHistory'[m])
               PROVE  Remembered(matcherHistory[m][k])' \/ Excused(m)'
  BY DEF StillToReset
<1>3. ASSUME k \in 1..Len(matcherHistory[m]), matcherHistory'[m][k] = matcherHistory[m][k],
             \A t \in Threads : ~ResetAdapter(t), Excused(m) => Excused(m)'
      PROVE  Remembered(matcherHistory[m][k])' \/ Excused(m)'
  <2>1. PICK id : id = matcherHistory[m][k]
    OBVIOUS
  <2>2. Remembered(id) \/ Excused(m)
    BY <1>1, <1>3, <2>1 DEF StillToReset
  <2>3. Remembered(id) => Remembered(id)'
    BY <1>3, RememberedStays
  <2>4. QED
    BY <1>3, <2>1, <2>2, <2>3 DEF Remembered
<1>4. ASSUME resetting' = resetting
      PROVE  Excused(m) => Excused(m)'
  <2>1. ASSUME NEW t \in Threads, resetting[t] # 0,
               NEW i \in resetting[t]..Len(matchers), matchers[i] = m
        PROVE  Excused(m)'
    <3>1. i \in 1..Len(matchers) /\ i \in resetting'[t]..Len(matchers')
      BY <1>1, <1>4, <2>1, MatchersStay
    <3>2. matchers'[i] = m
      BY <2>1, <3>1, MatchersStay
    <3>3. QED
      BY <1>4, <2>1, <3>1, <3>2
  <2>2. QED
    BY <2>1
<1>5. ASSUME NEW t \in Threads, ResetAdapter(t)
      PROVE  Excused(m)'
  <2>1. resetting' = [resetting EXCEPT ![t] = 1]
        /\ UNCHANGED <<matchers, matcherHistory>>
    BY <1>5 DEF ResetAdapter
  <2>2. resetting'[t] = 1
    BY <2>1 DEF Loops, TypeOK
  <2>3. matcherHistory[m] # <<>>
    BY <1>1, <1>2, <2>1
  <2>4. PICK i \in 1..Len(matchers) : matchers[i] = m
    BY <1>1, <2>3 DEF HistoriesRegistered
  <2>5. QED
    BY <2>1, <2>2, <2>4
<1>6. ASSUME NEW t \in Threads, ResetMatchers(t)
      PROVE  Remembered(matcherHistory[m][k])' \/ Excused(m)'
  <2>1. /\ resetting \in [Threads -> 0..Cardinality(Matchers) + 1] /\ matchers' = matchers
        /\ resetting[t] # 0 /\ resetting[t] \in Nat /\ Len(matchers) \in Nat
    BY <1>1, <1>6, MatchersStay DEF Loops, TypeOK, ResetMatchers
  <2>2. \A u \in Threads : ~ResetAdapter(u)
    <3> SUFFICES ASSUME NEW u \in Threads, ResetAdapter(u) PROVE FALSE
      OBVIOUS
    <3>1. resetting[u] = 0 /\ resetting' = [resetting EXCEPT ![u] = 1]
      BY DEF ResetAdapter, InUserCode
    <3>2. u # t /\ resetting'[u] = 1
      BY <2>1, <3>1
    <3>3. resetting'[u] = resetting[u]
      BY <1>6, <2>1, <3>2 DEF ResetMatchers
    <3>4. QED
      BY <3>1, <3>2, <3>3
  <2>3. CASE ResetDone(t)
    <3>1. resetting' = [resetting EXCEPT ![t] = 0] /\ matcherHistory' = matcherHistory
      BY <1>6, <2>3 DEF ResetMatchers
    <3>2. ASSUME NEW u \in Threads, resetting[u] # 0,
                 NEW i \in resetting[u]..Len(matchers), matchers[i] = m
          PROVE  Excused(m)'
      <4>1. u # t
        BY <2>1, <2>3, <3>2 DEF ResetDone
      <4>2. resetting'[u] = resetting[u]
        BY <2>1, <3>1, <4>1
      <4>3. QED
        BY <2>1, <3>2, <4>2
    <3>3. Excused(m) => Excused(m)'
      BY <3>2
    <3>4. QED
      BY <1>3, <2>2, <3>1, <3>3
  <2>4. CASE ~ResetDone(t)
    <3>1. /\ resetting' = [resetting EXCEPT ![t] = @ + 1]
          /\ matcherHistory' = [matcherHistory EXCEPT ![matchers[resetting[t]]] = <<>>]
      BY <1>6, <2>4 DEF ResetMatchers
    <3>2. m # matchers[resetting[t]] /\ matcherHistory'[m] = matcherHistory[m]
      BY <1>1, <1>2, <3>1
    <3>3. ASSUME NEW u \in Threads, resetting[u] # 0,
                 NEW i \in resetting[u]..Len(matchers), matchers[i] = m
          PROVE  Excused(m)'
      <4>1. resetting'[u] = resetting[u] \/ (u = t /\ resetting'[u] = resetting[t] + 1)
        <5>1. CASE u = t
          BY <2>1, <3>1, <5>1
        <5>2. CASE u # t
          BY <2>1, <3>1, <5>2
        <5>3. QED
          BY <5>1, <5>2
      <4>2. resetting'[u] # 0 /\ i \in resetting'[u]..Len(matchers)
        BY <1>1, <2>1, <3>2, <3>3, <4>1
      <4>3. QED
        BY <2>1, <3>3, <4>2
    <3>4. Excused(m) => Excused(m)'
      BY <3>3
    <3>5. QED
      BY <1>3, <2>2, <3>2, <3>4
  <2>5. QED
    BY <2>3, <2>4
<1>7. CASE \A t \in Threads : ~ResetAdapter(t) /\ ~ResetMatchers(t)
  <2>1. resetting' = resetting
    BY <1>7 DEF Next, Step, UserStep, TryMatcher, CodeDecides, NoMockAddress, Take, Record,
                Respond, Raise, Send, Register, ResetMatcher, vars
  <2>2. Excused(m) => Excused(m)'
    BY <1>4, <2>1
  <2>3. CASE matcherHistory'[m] = matcherHistory[m]
    BY <1>3, <1>7, <2>2, <2>3
  <2>4. CASE matcherHistory'[m] = <<>>
    BY <1>2, <2>4
  <2>5. ASSUME NEW t \in Threads, Record(t),
               matcherHistory'[m] = Append(matcherHistory[m], Top(t).id)
        PROVE  Remembered(matcherHistory[m][k])' \/ Excused(m)'
    <3>1. matcherHistory[m] \in Seq(Ids)
      BY <1>1
    <3>2. \/ k \in 1..Len(matcherHistory[m]) /\ matcherHistory'[m][k] = matcherHistory[m][k]
          \/ matcherHistory'[m][k] = Top(t).id
      BY <2>5, <3>1
    <3>3. CASE matcherHistory'[m][k] = Top(t).id
      <4>1. Len(calls[t]) \in 1..Len(calls[t]) /\ Top(t) = calls[t][Len(calls[t])]
        BY <2>5, TopFacts DEF Record, At, Loops
      <4>2. PICK id : id = Top(t).id
        OBVIOUS
      <4>3. Remembered(id)
        BY <1>1, <4>1, <4>2 DEF CallsRemembered
      <4>4. Remembered(id)'
        BY <1>7, <4>3, RememberedStays
      <4>5. QED
        BY <3>3, <4>2, <4>4 DEF Remembered
    <3>4. QED
      BY <1>3, <1>7, <2>2, <3>2, <3>3
  <2>6. QED
    BY <2>3, <2>4, <2>5, HistoryShape
<1>8. QED
  BY <1>5, <1>6, <1>7

\* Resetting the adapter resets its matchers, if all of them can be reset: what is left
\* in a matcher's history only, is of requests whose sends overlapped a reset.
THEOREM ResetForgetsHolds == Resetless = {} => (Spec => []ResetForgets)
<1> SUFFICES ASSUME Resetless = {} PROVE Spec => []ResetForgets
  OBVIOUS
<1>1. Init => ResetInv
  BY DEF Init, ResetInv, StillToReset, HistoriesRegistered, CallsRemembered
<1>2. Loops /\ ResetInv /\ [Next]_vars => ResetInv'
  BY NextStillToReset, NextRegistered, NextCallsRemembered DEF ResetInv
<1>3. ResetInv => ResetForgets
  BY DEF ResetInv, StillToReset, ResetForgets, Remembered
<1>4. QED
  BY <1>1, <1>2, <1>3, AlwaysLoops, PTL DEF Spec
=============================================================================

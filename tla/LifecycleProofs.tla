--------------------------- MODULE LifecycleProofs ---------------------------
(* Theorems about Lifecycle, for all values of its constants.              *)
EXTENDS Lifecycle, SequenceFacts, TLAPS

\* The mockers that are started are linked by _last_send, the send of the class is
\* the last one's, and none is started twice.
Chain ==
  /\ \A k, l \in 1..Len(started) : started[k] = started[l] => k = l
  /\ \A m \in Mocks :
       last_send[m] # None <=> \E k \in 1..Len(started) : started[k] = m
  /\ send = IF Len(started) = 0 THEN Original ELSE started[Len(started)]
  /\ \A k \in 1..Len(started) :
       last_send[started[k]] = IF k = 1 THEN Original ELSE started[k - 1]

\* Started mockers are those of active frames, and of two of them the one started
\* last has a frame inside all those of the other.
Nested ==
  /\ \A k \in 1..Len(started) : \E j \in 1..Len(frames) : frames[j].mock = started[k]
  /\ \A k, l \in 1..Len(started) : k < l =>
       \E j \in 1..Len(frames) :
         /\ frames[j].mock = started[l]
         /\ \A i \in j..Len(frames) : frames[i].mock # started[k]

\* Copies are numbered as they are made, and what is not yet made is not in use.
CopiesFresh ==
  /\ \A m \in Copies : m > copies => last_send[m] = None /\ ~registered[m]
  /\ \A i \in 1..Len(frames) : frames[i].mock \in Copies => frames[i].mock <= copies

\* Only the innermost frame is about to call a layer, and there is room for all that
\* are still to come.
LayersToCome ==
  \A i \in 1..Len(frames) : frames[i].pc = "inner" =>
    /\ i = Len(frames)
    /\ frames[i].inner # <<>>
    /\ copies + Len(frames[i].inner) <= MaxCopies
    /\ Len(frames) + Len(frames[i].inner) <= MaxDepth

\* A decorated call hands on its mock.
Given(f) ==
  f.layer # None =>
    /\ f.layer.self.kw = None => Len(f.args) > 0 /\ f.args[Len(f.args)] = f.mock
    /\ f.layer.self.kw # None => f.kwargs[f.layer.self.kw] = f.mock

\* What of a decorator's options is handed on has been handed on.
Reaches(option, made) ==
  option.kw = made.kw /\ option.real_http = made.real_http
    /\ option.sensitive = made.sensitive

\* Layers whose mocker has the options of the one that the program made.
Honest == {layer \in Layer : Reaches(layer.self, layer.made)}

HonestFrame(f) == f.inner \in Seq(Honest) /\ (f.layer # None => f.layer \in Honest)

LayersHonest ==
  /\ methods \in [Classes -> [Methods -> Seq(Honest) \cup {None}]]
  /\ \A i \in 1..Len(frames) : HonestFrame(frames[i])

AllGiven == \A i \in 1..Len(frames) : Given(frames[i])

\* Sub extends Base: a method that is not its own is Base's.
BaseComplete == \A n \in Methods : methods["Base"][n] \in Seq(Honest)

IInv ==
  TypeOK /\ Chain /\ Nested /\ CopiesFresh /\ LayersToCome /\ AllGiven /\ LayersHonest
    /\ BaseComplete /\ OptionsReachTheCall

-----------------------------------------------------------------------------
(* Sequences.                                                              *)

\* Taking the last element out of a sequence of different ones leaves the front.
LEMMA WithoutLast ==
  ASSUME NEW S, NEW s \in Seq(S), Len(s) > 0,
         \A k, l \in 1..Len(s) : s[k] = s[l] => k = l
  PROVE  Without(s, s[Len(s)]) = SubSeq(s, 1, Len(s) - 1)
<1> DEFINE n == Len(s)
           p == CHOOSE i \in 1..Len(s) : s[i] = s[n]
           e(i) == IF i < p THEN s[i] ELSE s[i + 1]
           w == [i \in 1..n - 1 |-> e(i)]
<1>1. n \in Nat \ {0} /\ \A i \in 1..n : s[i] \in S
  OBVIOUS
<1>2. p \in 1..n /\ s[p] = s[n]
  BY <1>1
<1>3. p = n
  BY <1>1, <1>2
<1>4. \A i \in 1..n - 1 : e(i) = s[i]
  BY <1>1, <1>3
<1>5. w \in Seq(S) /\ Len(w) = n - 1 /\ \A i \in 1..n - 1 : w[i] = s[i]
  <2>1. \A i \in 1..n - 1 : e(i) \in S
    BY <1>1, <1>4
  <2>2. n - 1 \in Nat
    BY <1>1
  <2>3. w \in Seq(S)
    <3> HIDE DEF e, p, n
    <3> DEFINE q == n - 1
    <3>1. q \in Nat /\ \A i \in 1..q : e(i) \in S
      BY <2>1, <2>2
    <3> HIDE DEF q
    <3>2. [i \in 1..q |-> e(i)] \in Seq(S)
      BY <3>1, IsASeq
    <3>3. QED
      BY <3>2 DEF q
  <2>4. Len(w) = n - 1
    <3> HIDE DEF e, p, n
    <3> QED BY <2>2
  <2>5. QED
    BY <1>4, <2>3, <2>4
<1>6. w = SubSeq(s, 1, n - 1)
  <2> DEFINE f == SubSeq(s, 1, n - 1)
  <2>1. f \in Seq(S) /\ Len(f) = n - 1 /\ \A i \in 1..n - 1 : f[i] = s[i]
    BY <1>1, FrontSeq
  <2> HIDE DEF f, w, n
  <2>2. QED
    BY <1>5, <2>1, SeqEqual DEF f
<1>7. QED
  BY <1>6 DEF Without

-----------------------------------------------------------------------------
(* Starting and stopping.                                                  *)

\* What start() assigns, given the types of the mockers' variables.
LEMMA StartSteps ==
  ASSUME TypeOK, Chain, NEW m \in Mocks, last_send[m] = None, StartMock(m)
  PROVE  /\ send' = m /\ started' \in Seq(Mocks)
         /\ last_send' \in [Mocks -> Mocks \cup {Original, None}]
         /\ Len(started') = Len(started) + 1 /\ started'[Len(started) + 1] = m
         /\ \A k \in 1..Len(started) : started'[k] = started[k] /\ started[k] # m
         /\ last_send'[m] = send
         /\ \A q \in Mocks \ {m} : last_send'[q] = last_send[q]
<1>1. started' = Append(started, m) /\ started \in Seq(Mocks)
  BY DEF StartMock, TypeOK
<1>2. /\ started' \in Seq(Mocks)
      /\ Len(started') = Len(started) + 1 /\ started'[Len(started) + 1] = m
      /\ \A k \in 1..Len(started) : started'[k] = started[k]
  BY <1>1
<1>3. \A k \in 1..Len(started) : started[k] # m
  BY DEF Chain
<1>4. QED
  BY <1>2, <1>3 DEF StartMock, TypeOK

\* start() of a mocker that is not started keeps the chain.
LEMMA StartChain ==
  ASSUME TypeOK, Chain, NEW m \in Mocks, last_send[m] = None, StartMock(m)
  PROVE  Chain'
<1> DEFINE n == Len(started)
<1>1. /\ send' = m /\ started' \in Seq(Mocks)
      /\ Len(started') = n + 1 /\ started'[n + 1] = m
      /\ \A k \in 1..n : started'[k] = started[k] /\ started[k] # m
      /\ last_send'[m] = send
      /\ \A q \in Mocks \ {m} : last_send'[q] = last_send[q]
  BY StartSteps
<1>2. n \in Nat /\ \A k \in 1..n : started[k] \in Mocks
  BY DEF TypeOK
<1>3. send # None /\ send = IF n = 0 THEN Original ELSE started[n]
  BY LifecycleAssumption DEF TypeOK, Chain
<1>4. \A k, l \in 1..n + 1 : started'[k] = started'[l] => k = l
  <2> TAKE k, l \in 1..n + 1
  <2> HAVE started'[k] = started'[l]
  <2>1. CASE k = n + 1 \/ l = n + 1
    BY <1>1, <1>2, <2>1
  <2>2. CASE k \in 1..n /\ l \in 1..n
    BY <1>1, <2>2 DEF Chain
  <2>3. QED
    BY <1>2, <2>1, <2>2
<1>5. \A q \in Mocks : last_send'[q] # None <=> \E k \in 1..n + 1 : started'[k] = q
  <2> TAKE q \in Mocks
  <2>1. CASE q = m
    BY <1>1, <1>2, <1>3, <2>1
  <2>2. CASE q # m
    <3>1. last_send'[q] = last_send[q]
      BY <1>1, <2>2
    <3>2. (\E k \in 1..n : started[k] = q) <=> \E k \in 1..n + 1 : started'[k] = q
      BY <1>1, <1>2, <2>2
    <3>3. QED
      BY <3>1, <3>2 DEF Chain
  <2>3. QED
    BY <2>1, <2>2
<1>6. \A k \in 1..n + 1 :
        last_send'[started'[k]] = IF k = 1 THEN Original ELSE started'[k - 1]
  <2> TAKE k \in 1..n + 1
  <2>1. CASE k = n + 1
    BY <1>1, <1>2, <1>3, <2>1
  <2>2. CASE k # n + 1
    <3>1. k \in 1..n /\ (k # 1 => k - 1 \in 1..n)
      BY <1>2, <2>2
    <3>2. last_send'[started'[k]] = last_send[started[k]]
      BY <1>1, <1>2, <3>1
    <3>3. QED
      <4>1. last_send[started[k]] = IF k = 1 THEN Original ELSE started[k - 1]
        BY <3>1 DEF Chain
      <4>2. k # 1 => started'[k - 1] = started[k - 1]
        BY <1>1, <3>1
      <4>3. QED
        BY <3>2, <4>1, <4>2
  <2>3. QED
    BY <2>1, <2>2
<1>7. QED
  BY <1>1, <1>2, <1>4, <1>5, <1>6 DEF Chain

\* stop() of the mocker started last, or of one that is not started.
LEMMA StopSteps ==
  ASSUME TypeOK, Chain, NEW m \in Mocks, StopMock(m),
         last_send[m] # None => m = started[Len(started)]
  PROVE  \/ last_send[m] = None /\ UNCHANGED <<send, last_send, started>>
         \/ /\ Len(started) > 0 /\ m = started[Len(started)]
            /\ started' = SubSeq(started, 1, Len(started) - 1)
            /\ started' \in Seq(Mocks) /\ Len(started') = Len(started) - 1
            /\ \A k \in 1..Len(started) - 1 : started'[k] = started[k] /\ started[k] # m
            /\ last_send' = [last_send EXCEPT ![m] = None]
            /\ send' = IF Len(started) = 1 THEN Original ELSE started[Len(started) - 1]
<1>1. CASE last_send[m] = None
  BY <1>1 DEF StopMock
<1>2. CASE last_send[m] # None
  <2> DEFINE n == Len(started)
  <2>1. n \in Nat \ {0} /\ m = started[n] /\ started \in Seq(Mocks)
    BY <1>2 DEF Chain, TypeOK
  <2>2. started' = SubSeq(started, 1, n - 1)
    BY <1>2, <2>1, WithoutLast DEF StopMock, Chain
  <2>3. started' \in Seq(Mocks) /\ Len(started') = n - 1
        /\ \A k \in 1..n - 1 : started'[k] = started[k]
    BY <2>1, <2>2, FrontSeq
  <2>4. \A k \in 1..n - 1 : started[k] # m
    BY <2>1 DEF Chain
  <2>5. last_send[started[n]] = IF n = 1 THEN Original ELSE started[n - 1]
    <3>1. \A k \in 1..n : last_send[started[k]] = IF k = 1 THEN Original ELSE started[k - 1]
      BY DEF Chain
    <3>2. n \in 1..n
      BY <2>1
    <3> HIDE DEF n
    <3>3. QED
      BY <3>1, <3>2
  <2>6. QED
    BY <1>2, <2>1, <2>2, <2>3, <2>4, <2>5 DEF StopMock, PutBack
<1>3. QED
  BY <1>1, <1>2

\* ... keeps the chain and the types, and leaves that mocker stopped.
LEMMA StopChain ==
  ASSUME TypeOK, Chain, NEW m \in Mocks, StopMock(m),
         last_send[m] # None => m = started[Len(started)]
  PROVE  /\ Chain' /\ last_send'[m] = None
         /\ send' \in Mocks \cup {Original} /\ started' \in Seq(Mocks)
         /\ last_send' \in [Mocks -> Mocks \cup {Original, None}]
         /\ \A q \in Mocks : last_send[q] = None => last_send'[q] = None
<1>1. CASE last_send[m] = None /\ UNCHANGED <<send, last_send, started>>
  BY <1>1 DEF Chain, TypeOK
<1>2. CASE /\ Len(started) > 0 /\ m = started[Len(started)]
           /\ started' \in Seq(Mocks) /\ Len(started') = Len(started) - 1
           /\ \A k \in 1..Len(started) - 1 : started'[k] = started[k] /\ started[k] # m
           /\ last_send' = [last_send EXCEPT ![m] = None]
           /\ send' = IF Len(started) = 1 THEN Original ELSE started[Len(started) - 1]
  <2> DEFINE n == Len(started)
  <2>1. n \in Nat \ {0} /\ \A k \in 1..n : started[k] \in Mocks
    BY <1>2 DEF TypeOK
  <2>2. /\ last_send'[m] = None /\ last_send' \in [Mocks -> Mocks \cup {Original, None}]
        /\ \A q \in Mocks \ {m} : last_send'[q] = last_send[q]
    BY <1>2 DEF TypeOK
  <2>3. \A k, l \in 1..n - 1 : started'[k] = started'[l] => k = l
    <3>1. \A k, l \in 1..n : started[k] = started[l] => k = l
      BY DEF Chain
    <3>2. \A k \in 1..n - 1 : k \in 1..n /\ started'[k] = started[k]
      BY <1>2, <2>1
    <3>3. QED
      BY <3>1, <3>2
  <2>4. \A q \in Mocks : last_send'[q] # None <=> \E k \in 1..n - 1 : started'[k] = q
    <3> TAKE q \in Mocks
    <3>1. CASE q = m
      BY <1>2, <2>1, <2>2, <3>1
    <3>2. CASE q # m
      <4>1. last_send'[q] = last_send[q]
        BY <2>2, <3>2
      <4>2. (\E k \in 1..n : started[k] = q) <=> \E k \in 1..n - 1 : started'[k] = q
        BY <1>2, <2>1, <3>2
      <4>3. QED
        BY <4>1, <4>2 DEF Chain
    <3>3. QED
      BY <3>1, <3>2
  <2>5. \A k \in 1..n - 1 :
          last_send'[started'[k]] = IF k = 1 THEN Original ELSE started'[k - 1]
    <3> TAKE k \in 1..n - 1
    <3>1. k \in 1..n /\ (k # 1 => k - 1 \in 1..n - 1)
      BY <2>1
    <3>2. last_send'[started'[k]] = last_send[started[k]]
      BY <1>2, <2>1, <2>2, <3>1
    <3>3. QED
      BY <1>2, <3>1, <3>2 DEF Chain
  <2>6. send' = IF n - 1 = 0 THEN Original ELSE started'[n - 1]
    BY <1>2, <2>1
  <2>7. Chain'
    BY <1>2, <2>1, <2>3, <2>4, <2>5, <2>6 DEF Chain
  <2>8. send' \in Mocks \cup {Original}
    BY <1>2, <2>1
  <2>9. QED
    BY <1>2, <2>2, <2>7, <2>8
<1>3. QED
  BY <1>1, <1>2, StopSteps

-----------------------------------------------------------------------------
(* Frames.                                                                 *)

\* The innermost frame, and the others.
LEMMA TopFacts ==
  ASSUME TypeOK, frames # <<>>
  PROVE  /\ Len(frames) \in Nat \ {0} /\ Top = frames[Len(frames)] /\ Top \in Frame
         /\ Outer \in Seq(Frame) /\ Len(Outer) = Len(frames) - 1
         /\ \A i \in 1..Len(frames) - 1 : Outer[i] = frames[i]
<1>1. frames \in Seq(Frame) /\ Len(frames) \in Nat \ {0}
  BY DEF TypeOK
<1>2. QED
  BY <1>1, FrontSeq DEF Top, Outer

\* The innermost frame changes.
LEMMA RelabelFrames ==
  ASSUME TypeOK, frames # <<>>, NEW f \in Frame
  PROVE  LET new == Append(Outer, f) IN
         /\ new \in Seq(Frame) /\ Len(new) = Len(frames) /\ new[Len(frames)] = f
         /\ \A i \in 1..Len(frames) - 1 : new[i] = frames[i]
<1>1. Outer \in Seq(Frame) /\ Len(Outer) = Len(frames) - 1 /\ Len(frames) \in Nat \ {0}
      /\ \A i \in 1..Len(frames) - 1 : Outer[i] = frames[i]
  BY TopFacts
<1>2. QED
  BY <1>1

\* Nested is about the mocks of frames only.
LEMMA NestedSame ==
  ASSUME Nested, started' = started, Len(frames') = Len(frames),
         \A i \in 1..Len(frames) : frames'[i].mock = frames[i].mock, Len(frames) \in Nat
  PROVE  Nested'
BY DEF Nested

\* A mocker that is started belongs, if its frame is the innermost, on the top.
LEMMA LastStarted ==
  ASSUME TypeOK, Chain, Nested, frames # <<>>, last_send[Top.mock] # None
  PROVE  Len(started) > 0 /\ Top.mock = started[Len(started)]
<1> DEFINE n == Len(started)
<1>1. Top \in Frame /\ Top = frames[Len(frames)] /\ Len(frames) \in Nat \ {0}
  BY TopFacts
<1>2. PICK k \in 1..n : started[k] = Top.mock
  BY <1>1 DEF Chain, Frame
<1>3. n \in Nat
  BY DEF TypeOK
<1>4. ASSUME k < n PROVE FALSE
  <2>1. n \in 1..n
    BY <1>3
  <2>2. PICK j \in 1..Len(frames) : \A i \in j..Len(frames) : frames[i].mock # started[k]
    BY <1>4, <2>1 DEF Nested
  <2>3. Len(frames) \in j..Len(frames)
    BY <1>1
  <2>4. QED
    BY <1>1, <1>2, <2>2, <2>3
<1>5. k = n
  BY <1>3, <1>4
<1>6. QED
  BY <1>2, <1>3, <1>5

\* A frame with a mocker that is started with it.
LEMMA NestedPush ==
  ASSUME TypeOK, Chain, Nested, NEW m \in Mocks, last_send[m] = None, StartMock(m),
         Len(frames') = Len(frames) + 1, frames'[Len(frames) + 1].mock = m,
         \A i \in 1..Len(frames) : frames'[i].mock = frames[i].mock
  PROVE  Nested'
<1> DEFINE n == Len(started)
           d == Len(frames)
<1>1. /\ Len(started') = n + 1 /\ started'[n + 1] = m
      /\ \A k \in 1..n : started'[k] = started[k] /\ started[k] # m
  BY StartSteps
<1>2. n \in Nat /\ d \in Nat
  BY DEF TypeOK
<1>3. \A k \in 1..n + 1 : \E j \in 1..d + 1 : frames'[j].mock = started'[k]
  <2> TAKE k \in 1..n + 1
  <2>1. CASE k = n + 1
    BY <1>1, <1>2, <2>1
  <2>2. CASE k # n + 1
    <3>1. k \in 1..n
      BY <1>2, <2>2
    <3>2. PICK j \in 1..d : frames[j].mock = started[k]
      BY <3>1 DEF Nested
    <3>3. j \in 1..d + 1 /\ frames'[j].mock = started'[k]
      BY <1>1, <1>2, <3>1, <3>2
    <3>4. QED
      BY <3>3
  <2>3. QED
    BY <2>1, <2>2
<1>4. ASSUME NEW k \in 1..n + 1, NEW l \in 1..n + 1, k < l
      PROVE  \E j \in 1..d + 1 :
               /\ frames'[j].mock = started'[l]
               /\ \A i \in j..d + 1 : frames'[i].mock # started'[k]
  <2>1. k \in 1..n /\ started'[k] = started[k] /\ started[k] # m
    BY <1>1, <1>2, <1>4
  <2>2. CASE l = n + 1
    <3>1. d + 1 \in 1..d + 1 /\ \A i \in (d + 1)..(d + 1) : i = d + 1
      BY <1>2
    <3>2. QED
      BY <1>1, <2>1, <2>2, <3>1
  <2>3. CASE l # n + 1
    <3>1. l \in 1..n /\ started'[l] = started[l]
      BY <1>1, <1>2, <2>3
    <3>2. PICK j \in 1..d : /\ frames[j].mock = started[l]
                            /\ \A i \in j..d : frames[i].mock # started[k]
      BY <1>4, <2>1, <3>1 DEF Nested
    <3>3. ASSUME NEW i \in j..d + 1 PROVE frames'[i].mock # started'[k]
      <4>1. CASE i = d + 1
        BY <2>1, <4>1
      <4>2. CASE i # d + 1
        <5>1. i \in j..d /\ i \in 1..d
          BY <1>2, <4>2
        <5>2. QED
          BY <2>1, <3>2, <5>1
      <4>3. QED
        BY <4>1, <4>2
    <3>4. j \in 1..d + 1 /\ frames'[j].mock = started'[l]
      BY <1>2, <3>1, <3>2
    <3>5. QED
      BY <3>3, <3>4
  <2>4. QED
    BY <2>2, <2>3
<1>5. QED
  BY <1>1, <1>3, <1>4 DEF Nested

\* The mocker of the innermost frame is started again.
LEMMA NestedRestart ==
  ASSUME TypeOK, Chain, Nested, frames # <<>>, frames' = frames,
         last_send[Top.mock] = None, StartMock(Top.mock)
  PROVE  Nested'
<1> DEFINE n == Len(started)
           d == Len(frames)
<1>1. Top \in Frame /\ Top = frames[d] /\ d \in Nat \ {0} /\ Top.mock \in Mocks
  BY TopFacts DEF Frame
<1>2. /\ Len(started') = n + 1 /\ started'[n + 1] = Top.mock
      /\ \A k \in 1..n : started'[k] = started[k] /\ started[k] # Top.mock
  BY <1>1, StartSteps
<1>3. n \in Nat
  BY DEF TypeOK
<1>4. \A k \in 1..n + 1 : \E j \in 1..d : frames[j].mock = started'[k]
  <2> TAKE k \in 1..n + 1
  <2>1. CASE k = n + 1
    BY <1>1, <1>2, <2>1
  <2>2. CASE k # n + 1
    <3>1. k \in 1..n
      BY <1>3, <2>2
    <3>2. \E j \in 1..d : frames[j].mock = started[k]
      BY <3>1 DEF Nested
    <3>3. QED
      BY <1>2, <3>1, <3>2
  <2>3. QED
    BY <2>1, <2>2
<1>5. ASSUME NEW k \in 1..n + 1, NEW l \in 1..n + 1, k < l
      PROVE  \E j \in 1..d :
               /\ frames[j].mock = started'[l]
               /\ \A i \in j..d : frames[i].mock # started'[k]
  <2>1. k \in 1..n /\ started'[k] = started[k] /\ started[k] # Top.mock
    BY <1>2, <1>3, <1>5
  <2>2. CASE l = n + 1
    <3>1. d \in 1..d /\ \A i \in d..d : i = d
      BY <1>1
    <3>2. QED
      BY <1>1, <1>2, <2>1, <2>2, <3>1
  <2>3. CASE l # n + 1
    <3>1. l \in 1..n /\ started'[l] = started[l]
      BY <1>2, <1>3, <2>3
    <3>2. QED
      BY <1>5, <2>1, <3>1 DEF Nested
  <2>4. QED
    BY <2>2, <2>3
<1>6. QED
  BY <1>2, <1>4, <1>5 DEF Nested

\* The mocker of the innermost frame is stopped, and the frame may end.
LEMMA NestedStop ==
  ASSUME TypeOK, Chain, Nested, frames # <<>>, StopMock(Top.mock),
         frames' = frames \/ frames' = Outer
  PROVE  Nested'
<1> DEFINE n == Len(started)
           d == Len(frames)
           w == Len(started')
<1>1. /\ Top = frames[d] /\ d \in Nat \ {0} /\ Top.mock \in Mocks
      /\ Len(Outer) = d - 1 /\ \A i \in 1..d - 1 : Outer[i] = frames[i]
  BY TopFacts DEF Frame
<1>2. n \in Nat
  BY DEF TypeOK
<1>3. w \in 0..n /\ \A k \in 1..w : started'[k] = started[k] /\ started[k] # Top.mock
  <2>1. last_send[Top.mock] # None => Top.mock = started[n]
    BY LastStarted
  <2>2. CASE last_send[Top.mock] = None /\ started' = started
    BY <1>1, <1>2, <2>2 DEF Chain
  <2>3. QED
    BY <1>1, <1>2, <2>1, <2>2, StopSteps
<1>4. Len(frames') \in {d - 1, d} /\ \A i \in 1..Len(frames') : frames'[i] = frames[i]
  BY <1>1
<1>5. ASSUME NEW k \in 1..w, NEW j \in 1..d, frames[j].mock = started[k]
      PROVE  j \in 1..d - 1
  BY <1>1, <1>3, <1>5
<1>6. \A k \in 1..w : \E j \in 1..Len(frames') : frames'[j].mock = started'[k]
  <2> TAKE k \in 1..w
  <2>1. PICK j \in 1..d : frames[j].mock = started[k]
    BY <1>2, <1>3 DEF Nested
  <2>2. j \in 1..Len(frames')
    BY <1>1, <1>4, <1>5, <2>1
  <2>3. QED
    BY <1>3, <1>4, <2>1, <2>2
<1>7. ASSUME NEW k \in 1..w, NEW l \in 1..w, k < l
      PROVE  \E j \in 1..Len(frames') :
               /\ frames'[j].mock = started'[l]
               /\ \A i \in j..Len(frames') : frames'[i].mock # started'[k]
  <2>1. k \in 1..n /\ l \in 1..n
    BY <1>2, <1>3
  <2>2. PICK j \in 1..d : /\ frames[j].mock = started[l]
                          /\ \A i \in j..d : frames[i].mock # started[k]
    BY <1>7, <2>1 DEF Nested
  <2>3. j \in 1..Len(frames')
    BY <1>1, <1>4, <1>5, <2>2
  <2>4. \A i \in j..Len(frames') : i \in j..d /\ frames'[i] = frames[i]
    BY <1>1, <1>4
  <2>5. QED
    BY <1>3, <1>4, <2>2, <2>3, <2>4
<1>8. QED
  BY <1>6, <1>7 DEF Nested

-----------------------------------------------------------------------------
(* The steps.                                                              *)

\* Honest layers are layers, also in sequences and in the tables of classes.
LEMMA HonestLayers ==
  /\ Seq(Honest) \subseteq Seq(Layer)
  /\ [Classes -> [Methods -> Seq(Honest) \cup {None}]]
       \subseteq [Classes -> [Methods -> Seq(Layer) \cup {None}]]
<1>1. Honest \subseteq Layer
  BY DEF Honest
<1>2. \A q \in Seq(Honest) : q \in Seq(Layer)
  BY <1>1
<1>3. QED
  BY <1>2

\* What is not about mockers: decorating, registering, exceptions that are caught.
LEMMA AsidePreserves ==
  ASSUME IInv, UNCHANGED <<options, copies, frames, send, last_send, started>>,
         methods' \in [Classes -> [Methods -> Seq(Honest) \cup {None}]], BaseComplete',
         case_sensitive' \in BOOLEAN, raising' \in BOOLEAN,
         registered' \in [Mocks \cup {GivenAdapter} -> BOOLEAN],
         \A m \in Copies : m > copies => ~registered'[m]
  PROVE  IInv'
<1>1. TypeOK'
  BY HonestLayers DEF IInv, TypeOK
<1>2. Chain' /\ Nested'
  <2>1. Chain'
    BY DEF IInv, Chain
  <2>2. Nested'
    BY NestedSame DEF IInv, TypeOK
  <2>3. QED
    BY <2>1, <2>2
<1>3. CopiesFresh' /\ LayersToCome' /\ OptionsReachTheCall'
  BY DEF IInv, CopiesFresh, LayersToCome, OptionsReachTheCall
<1>4. AllGiven' /\ LayersHonest'
  BY DEF IInv, AllGiven, Given, LayersHonest
<1>5. QED
  BY <1>1, <1>2, <1>3, <1>4 DEF IInv

\* The options of a decorator are complete once the default has been taken.
LEMMA ResolvedOption ==
  ASSUME TypeOK, NEW d \in Decorators
  PROVE  Resolved(d) \in Option
<1>1. case_sensitive \in BOOLEAN /\ (d \in Option \/ d \in
          [kw : Keywords \cup {None}, real_http : BOOLEAN, sensitive : {None},
           private : SUBSET Private])
  BY DecoratorsAssumption DEF TypeOK
<1>2. CASE d.sensitive = None
  BY <1>1, <1>2 DEF Option, Resolved
<1>3. CASE d.sensitive # None
  BY <1>1, <1>3 DEF Option, Resolved
<1>4. QED
  BY <1>2, <1>3

\* copy() hands on kw, real_http and case_sensitive, and nothing else.
LEMMA CopiedOption ==
  ASSUME NEW option \in Option
  PROVE  /\ Copied(option) \in Option /\ Copied(option).private = {}
         /\ Reaches(Copied(option), option)
BY DEF Copied, Option, Reaches

\* A method has its one decorator.
LEMMA DecorateMethodPreserves ==
  ASSUME IInv, NEW k \in Classes, NEW n \in Methods, NEW d \in Decorators,
         DecorateMethod(k, n, d)
  PROVE  IInv'
<1> DEFINE layer == [self |-> Resolved(d), made |-> Resolved(d)]
<1>1. layer \in Honest
  BY ResolvedOption DEF IInv, Honest, Layer, Reaches
<1> HIDE DEF layer
<1>2. <<layer>> \in Seq(Honest)
  BY <1>1
<1>3. methods' = [methods EXCEPT ![k][n] = <<layer>>]
  BY DEF DecorateMethod, layer
<1>4. methods \in [Classes -> [Methods -> Seq(Honest) \cup {None}]] /\ BaseComplete
  BY DEF IInv, LayersHonest
<1>5. methods' \in [Classes -> [Methods -> Seq(Honest) \cup {None}]]
  BY <1>2, <1>3, <1>4
<1>6. BaseComplete'
  BY <1>2, <1>3, <1>4 DEF BaseComplete, Classes
<1>7. UNCHANGED <<case_sensitive, options, copies, frames, raising, send, last_send,
                  registered, started>>
  BY DEF DecorateMethod, mockVars
<1>8. QED
  BY <1>5, <1>6, <1>7, AsidePreserves DEF IInv, TypeOK, CopiesFresh

\* The tests of a class get one more layer.
LEMMA DecoratePreserves ==
  ASSUME IInv, NEW k \in Classes, NEW d \in Decorators, DecorateClass(k, d)
  PROVE  IInv'
<1> DEFINE layer == [self |-> Copied(Resolved(d)), made |-> Resolved(d)]
           table == [n \in Methods |-> IF n \in Tests
                       THEN <<layer>> \o Attribute(k, n) ELSE methods[k][n]]
<1>1. layer \in Honest
  BY ResolvedOption, CopiedOption DEF IInv, Honest, Layer
<1>2. methods' = [methods EXCEPT ![k] = table]
  BY DEF DecorateClass, IInv, TypeOK
<1>3. /\ methods \in [Classes -> [Methods -> Seq(Honest) \cup {None}]]
      /\ \A n \in Methods : Attribute(k, n) \in Seq(Honest)
  BY DEF IInv, LayersHonest, BaseComplete, Attribute
<1>4. \A n \in Methods : /\ n \in Tests => table[n] \in Seq(Honest)
                         /\ n \notin Tests => table[n] = methods[k][n]
  <2> TAKE n \in Methods
  <2> HIDE DEF layer
  <2>1. <<layer>> \in Seq(Honest)
    BY <1>1
  <2>2. <<layer>> \o Attribute(k, n) \in Seq(Honest)
    BY <1>3, <2>1, ConcatProperties
  <2>3. QED
    BY <2>2
<1>5. table \in [Methods -> Seq(Honest) \cup {None}]
  <2>1. \A n \in Methods : table[n] \in Seq(Honest) \cup {None}
    BY <1>3, <1>4
  <2>2. QED
    BY <2>1
<1>6. methods' \in [Classes -> [Methods -> Seq(Honest) \cup {None}]] /\ BaseComplete'
  <2> HIDE DEF table
  <2> QED BY <1>2, <1>3, <1>4, <1>5 DEF BaseComplete, IInv, Classes
<1>7. /\ UNCHANGED <<case_sensitive, options, copies, frames, raising, send, last_send,
                     registered, started>>
  BY DEF DecorateClass, mockVars
<1>8. QED
  BY <1>6, <1>7, AsidePreserves DEF IInv, TypeOK, CopiesFresh

\* The innermost body is left, by its end or by an exception.
LEMMA LeavePreserves ==
  ASSUME IInv, (\E raises \in BOOLEAN : Leave(raises)) \/ Propagate
  PROVE  IInv'
<1> DEFINE f == [Top EXCEPT !.pc = "exit"]
           d == Len(frames)
<1>1. /\ frames # <<>> /\ frames' = Append(Outer, f)
      /\ UNCHANGED <<methods, case_sensitive, options, copies, send, last_send,
                     registered, started>>
      /\ raising' \in BOOLEAN
  BY DEF Leave, Propagate, TopAt, mockVars, IInv, TypeOK
<1>2. /\ TypeOK /\ Top \in Frame /\ Top = frames[d] /\ d \in Nat \ {0} /\ d <= MaxDepth
  BY <1>1, TopFacts DEF IInv, TypeOK
<1>3. /\ f \in Frame /\ f.mock = Top.mock /\ f.layer = Top.layer /\ f.args = Top.args
      /\ f.kwargs = Top.kwargs /\ f.pc = "exit" /\ f.inner = Top.inner
  BY <1>2 DEF Frame
<1>4. /\ frames' \in Seq(Frame) /\ Len(frames') = d /\ frames'[d] = f
      /\ \A i \in 1..d - 1 : frames'[i] = frames[i]
  BY <1>1, <1>2, <1>3, RelabelFrames
<1>5. \A i \in 1..d : /\ frames'[i].mock = frames[i].mock
                      /\ frames'[i].layer = frames[i].layer
                      /\ frames'[i].args = frames[i].args
                      /\ frames'[i].kwargs = frames[i].kwargs
                      /\ frames'[i].inner = frames[i].inner
                      /\ frames'[i].pc = "inner" => frames'[i] = frames[i]
  <2> HIDE DEF f
  <2> QED BY <1>2, <1>3, <1>4
<1>6. TypeOK'
  BY <1>1, <1>2, <1>4 DEF TypeOK
<1>7. Nested'
  BY <1>1, <1>2, <1>4, <1>5, NestedSame DEF IInv
<1>8. Chain'
  BY <1>1 DEF IInv, Chain
<1>9. CopiesFresh' /\ OptionsReachTheCall' /\ AllGiven' /\ LayersHonest'
  <2> HIDE DEF f
  <2>1. CopiesFresh' /\ OptionsReachTheCall'
    <3>1. CopiesFresh'
      BY <1>1, <1>4, <1>5 DEF IInv, CopiesFresh
    <3>2. OptionsReachTheCall'
      <4>1. ASSUME NEW i \in 1..d, frames'[i].layer # None
            PROVE  /\ Reaches(options'[frames'[i].mock], frames'[i].layer.made)
                   /\ options'[frames'[i].mock].private = {}
        <5>1. /\ frames'[i].mock = frames[i].mock /\ frames'[i].layer = frames[i].layer
              /\ options' = options
          BY <1>1, <1>5
        <5>2. QED
          BY <4>1, <5>1 DEF IInv, OptionsReachTheCall, Reaches
      <4>2. QED
        BY <1>4, <4>1 DEF OptionsReachTheCall, Reaches
    <3>3. QED
      BY <3>1, <3>2
  <2>2. AllGiven'
    BY <1>4, <1>5 DEF IInv, AllGiven, Given
  <2>3. LayersHonest'
    BY <1>1, <1>4, <1>5 DEF IInv, LayersHonest, HonestFrame
  <2>4. QED
    BY <2>1, <2>2, <2>3
<1>10. LayersToCome'
  <2> SUFFICES ASSUME NEW i \in 1..d, frames'[i].pc = "inner"
               PROVE  /\ i = d /\ frames'[i].inner # <<>>
                      /\ copies + Len(frames'[i].inner) <= MaxCopies
                      /\ d + Len(frames'[i].inner) <= MaxDepth
    BY <1>1, <1>4 DEF LayersToCome
  <2>1. frames'[i] = frames[i]
    BY <1>5
  <2>2. QED
    BY <2>1 DEF IInv, LayersToCome
<1>11. BaseComplete'
  BY <1>1 DEF IInv, BaseComplete
<1>12. QED
  BY <1>11, <1>6, <1>7, <1>8, <1>9, <1>10 DEF IInv

\* __exit__, and a body that stops its own mocker.
LEMMA StopPreserves ==
  ASSUME IInv, StopEarly \/ Exit
  PROVE  IInv'
<1> DEFINE d == Len(frames)
<1>1. /\ frames # <<>> /\ StopMock(Top.mock) /\ (frames' = frames \/ frames' = Outer)
      /\ UNCHANGED <<methods, case_sensitive, options, copies, raising, registered>>
  BY DEF StopEarly, Exit, TopAt, Exits
<1>2. /\ TypeOK /\ Top \in Frame /\ Top = frames[d] /\ d \in Nat \ {0} /\ d <= MaxDepth
      /\ Outer \in Seq(Frame) /\ Len(Outer) = d - 1
      /\ \A i \in 1..d - 1 : Outer[i] = frames[i]
  BY <1>1, TopFacts DEF IInv, TypeOK
<1>3. Top.mock \in Mocks /\ (last_send[Top.mock] # None => Top.mock = started[Len(started)])
  BY <1>1, <1>2, LastStarted DEF IInv, Frame
<1>4. /\ Chain' /\ send' \in Mocks \cup {Original} /\ started' \in Seq(Mocks)
      /\ last_send' \in [Mocks -> Mocks \cup {Original, None}]
      /\ \A q \in Mocks : last_send[q] = None => last_send'[q] = None
  BY <1>1, <1>2, <1>3, StopChain DEF IInv
<1>5. /\ frames' \in Seq(Frame) /\ Len(frames') \in {d - 1, d}
      /\ \A i \in 1..Len(frames') : i \in 1..d /\ frames'[i] = frames[i]
  <2>1. CASE frames' = frames
    BY <1>2, <2>1 DEF TypeOK
  <2>2. CASE frames' = Outer
    BY <1>2, <2>2
  <2>3. QED
    BY <1>1, <2>1, <2>2
<1>6. TypeOK'
  <2>1. Len(frames') <= MaxDepth
    BY <1>2, <1>5, LifecycleAssumption
  <2>2. QED
    BY <1>1, <1>2, <1>4, <1>5, <2>1 DEF TypeOK
<1>7. Nested'
  BY <1>1, <1>2, NestedStop DEF IInv
<1>8. CopiesFresh'
  BY <1>1, <1>4, <1>5 DEF IInv, CopiesFresh, Mocks
<1>9. OptionsReachTheCall'
  BY <1>1, <1>5 DEF IInv, OptionsReachTheCall
<1>10. AllGiven' /\ LayersHonest'
  BY <1>1, <1>5 DEF IInv, AllGiven, Given, LayersHonest
<1>11. LayersToCome'
  <2> SUFFICES ASSUME NEW i \in 1..Len(frames'), frames'[i].pc = "inner"
               PROVE  frames' = frames
    BY <1>1 DEF IInv, LayersToCome
  <2>1. i = d
    BY <1>5 DEF IInv, LayersToCome
  <2>2. CASE frames' = Outer
    BY <1>2, <2>1, <2>2
  <2>3. QED
    BY <1>1, <2>2
<1>12. QED
  BY <1>1, <1>4, <1>6, <1>7, <1>8, <1>9, <1>10, <1>11 DEF IInv, BaseComplete

\* A body starts its own mocker again.
LEMMA RestartPreserves ==
  ASSUME IInv, Restart
  PROVE  IInv'
<1> DEFINE m == Top.mock
           d == Len(frames)
<1>1. /\ frames # <<>> /\ last_send[m] = None /\ StartMock(m)
      /\ UNCHANGED <<methods, case_sensitive, options, copies, frames, raising, registered>>
  BY DEF Restart
<1>2. TypeOK /\ Chain /\ m \in Mocks /\ m = frames[d].mock /\ d \in 1..d
  BY <1>1, TopFacts DEF IInv, Frame
<1>3. /\ send' = m /\ started' \in Seq(Mocks)
      /\ last_send' \in [Mocks -> Mocks \cup {Original, None}]
      /\ \A q \in Mocks \ {m} : last_send'[q] = last_send[q]
  BY <1>1, <1>2, StartSteps
<1>4. Chain'
  BY <1>1, <1>2, StartChain
<1>5. Nested'
  BY <1>1, NestedRestart DEF IInv
<1>6. TypeOK'
  BY <1>1, <1>2, <1>3 DEF TypeOK
<1>7. CopiesFresh'
  <2>1. \A q \in Copies : q > copies => q # m
    <3>1. m \in Copies => m <= copies
      BY <1>2 DEF IInv, CopiesFresh
    <3>2. copies \in Int /\ \A q \in Copies : q \in Int
      BY <1>2, LifecycleAssumption DEF TypeOK, Copies
    <3>3. QED
      BY <3>1, <3>2
  <2>2. QED
    BY <1>1, <1>3, <2>1 DEF IInv, CopiesFresh, Mocks
<1>8. LayersToCome' /\ OptionsReachTheCall' /\ BaseComplete'
  BY <1>1 DEF IInv, LayersToCome, OptionsReachTheCall, BaseComplete
<1>9. AllGiven' /\ LayersHonest'
  BY <1>1 DEF IInv, AllGiven, Given, LayersHonest
<1>10. QED
  BY <1>4, <1>5, <1>6, <1>7, <1>8, <1>9 DEF IInv

\* A frame is entered with a mocker that is started: what all ways of entering one
\* have in common.  below is frames, or frames with the innermost one changed.
LEMMA EnterPreserves ==
  ASSUME IInv, NEW m \in Mocks, NEW f \in Frame, NEW below \in Seq(Frame),
         last_send[m] = None, StartMock(m), frames' = Append(below, f),
         Len(below) = Len(frames), Len(frames) < MaxDepth,
         f.mock = m, Given(f), f.inner \in Seq(Honest),
         f.layer # None => /\ f.layer \in Honest
                           /\ Reaches(options'[m], f.layer.made)
                           /\ options'[m].private = {},
         \A i \in 1..Len(frames) :
           /\ below[i].mock = frames[i].mock /\ below[i].layer = frames[i].layer
           /\ below[i].args = frames[i].args /\ below[i].kwargs = frames[i].kwargs
           /\ below[i].inner = frames[i].inner /\ below[i].pc # "inner",
         f.pc = "inner" => /\ f.inner # <<>>
                           /\ copies' + Len(f.inner) <= MaxCopies
                           /\ Len(frames) + 1 + Len(f.inner) <= MaxDepth,
         UNCHANGED <<methods, case_sensitive, registered, raising>>,
         options' \in [Mocks -> Option \cup {None}],
         copies' \in 0..MaxCopies, copies <= copies',
         m \in Copies => m <= copies',
         \A i \in 1..Len(frames) : options'[frames[i].mock] = options[frames[i].mock]
  PROVE  IInv'
<1> DEFINE d == Len(frames)
<1>1. TypeOK /\ Chain /\ d \in Nat /\ d + 1 <= MaxDepth /\ copies \in 0..MaxCopies
  BY LifecycleAssumption DEF IInv, TypeOK
<1>2. /\ frames' \in Seq(Frame) /\ Len(frames') = d + 1 /\ frames'[d + 1] = f
      /\ \A i \in 1..d : frames'[i] = below[i]
  BY <1>1
<1>3. \A i \in 1..d + 1 : i \in 1..d \/ i = d + 1
  BY <1>1
<1>4. /\ send' = m /\ started' \in Seq(Mocks)
      /\ last_send' \in [Mocks -> Mocks \cup {Original, None}]
      /\ \A q \in Mocks \ {m} : last_send'[q] = last_send[q]
  BY <1>1, StartSteps
<1>5. Chain'
  BY <1>1, StartChain
<1>6. Nested'
  BY <1>1, <1>2, NestedPush DEF IInv
<1>7. TypeOK'
  BY <1>1, <1>2, <1>4 DEF TypeOK
<1>8. CopiesFresh'
  <2>1. ASSUME NEW q \in Copies, q > copies'
        PROVE  last_send'[q] = None /\ ~registered'[q]
    <3>1. q > copies /\ q # m /\ q \in Mocks
      BY <1>1, <2>1, LifecycleAssumption DEF Copies, Mocks
    <3>2. QED
      BY <1>4, <3>1 DEF IInv, CopiesFresh
  <2>2. ASSUME NEW i \in 1..d + 1, frames'[i].mock \in Copies
        PROVE  frames'[i].mock <= copies'
    <3>1. CASE i \in 1..d
      <4>1. frames'[i].mock <= copies /\ frames'[i].mock \in Int
        BY <1>2, <2>2, <3>1 DEF IInv, CopiesFresh, Copies
      <4>2. QED
        BY <1>1, <4>1
    <3>2. CASE i = d + 1
      BY <1>2, <2>2, <3>2
    <3>3. QED
      BY <1>3, <3>1, <3>2
  <2>3. QED
    BY <1>2, <2>1, <2>2 DEF CopiesFresh
<1>9. LayersToCome'
  <2> SUFFICES ASSUME NEW i \in 1..d + 1, frames'[i].pc = "inner"
               PROVE  /\ i = d + 1 /\ frames'[i].inner # <<>>
                      /\ copies' + Len(frames'[i].inner) <= MaxCopies
                      /\ d + 1 + Len(frames'[i].inner) <= MaxDepth
    BY <1>2 DEF LayersToCome
  <2>1. i = d + 1
    BY <1>2, <1>3
  <2>2. QED
    BY <1>2, <2>1
<1>10. AllGiven'
  <2>1. ASSUME NEW i \in 1..d + 1
        PROVE  Given(frames'[i])
    <3>1. CASE i \in 1..d
      <4>1. /\ frames'[i].mock = frames[i].mock /\ frames'[i].layer = frames[i].layer
            /\ frames'[i].args = frames[i].args /\ frames'[i].kwargs = frames[i].kwargs
        BY <1>2, <3>1
      <4>2. Given(frames[i])
        BY <3>1 DEF IInv, AllGiven
      <4>3. QED
        BY <4>1, <4>2 DEF Given
    <3>2. CASE i = d + 1
      BY <1>2, <3>2
    <3>3. QED
      BY <1>3, <3>1, <3>2
  <2>2. QED
    BY <1>2, <2>1 DEF AllGiven, Given
<1>11. OptionsReachTheCall' /\ LayersHonest'
  <2>1. ASSUME NEW i \in 1..d + 1
        PROVE  /\ frames'[i].inner \in Seq(Honest)
               /\ frames'[i].layer # None =>
                    /\ frames'[i].layer \in Honest
                    /\ Reaches(options'[frames'[i].mock], frames'[i].layer.made)
                    /\ options'[frames'[i].mock].private = {}
    <3>1. CASE i \in 1..d
      <4>1. /\ frames'[i].mock = frames[i].mock /\ frames'[i].layer = frames[i].layer
            /\ frames'[i].inner = frames[i].inner
            /\ options'[frames[i].mock] = options[frames[i].mock]
        BY <1>2, <3>1
      <4>2. /\ frames[i].inner \in Seq(Honest)
            /\ frames[i].layer # None => frames[i].layer \in Honest
        <5>1. HonestFrame(frames[i])
          BY <3>1 DEF IInv, LayersHonest
        <5>2. QED
          BY <5>1 DEF HonestFrame
      <4>3. frames[i].layer # None =>
              /\ Reaches(options[frames[i].mock], frames[i].layer.made)
              /\ options[frames[i].mock].private = {}
        BY <3>1 DEF IInv, OptionsReachTheCall, Reaches
      <4>4. QED
        BY <4>1, <4>2, <4>3
    <3>2. CASE i = d + 1
      BY <1>2, <3>2
    <3>3. QED
      BY <1>3, <3>1, <3>2
  <2>2. OptionsReachTheCall'
    BY <1>2, <2>1 DEF OptionsReachTheCall, Reaches
  <2>3. LayersHonest'
    BY <1>2, <2>1 DEF IInv, LayersHonest, HonestFrame
  <2>4. QED
    BY <2>2, <2>3
<1>12. BaseComplete'
  BY DEF IInv, BaseComplete
<1>13. QED
  BY <1>5, <1>6, <1>7, <1>8, <1>9, <1>10, <1>11, <1>12 DEF IInv

\* A body enters a with block, or a test begins with a fixture.
LEMMA EnterMockPreserves ==
  ASSUME IInv, NEW m \in Instances \cup Fixtures, last_send[m] = None,
         EnterMock(m), frames # <<>> => Top.pc = "body"
  PROVE  IInv'
<1> DEFINE f == [mock |-> m, layer |-> None, inner |-> <<>>, args |-> <<>>,
                 kwargs |-> NoKwargs, pc |-> "body"]
<1>1. /\ StartMock(m) /\ frames' = Append(frames, f) /\ Len(frames) < MaxDepth
      /\ UNCHANGED <<methods, case_sensitive, options, copies, registered, raising>>
  BY DEF EnterMock
<1>2. f \in Frame
  <2>1. NoKwargs \in [Keywords -> Mocks \cup {None}]
    BY DEF NoKwargs
  <2>2. <<>> \in Seq(Layer) /\ <<>> \in Seq(Mocks) /\ m \in Mocks
    BY DEF Mocks
  <2>3. QED
    BY <2>1, <2>2 DEF Frame
<1>3. /\ f.mock = m /\ f.layer = None /\ f.pc = "body" /\ Given(f)
      /\ f.inner \in Seq(Honest)
  BY DEF Given
<1>4. \A i \in 1..Len(frames) : frames[i].pc # "inner"
  <2> SUFFICES ASSUME NEW i \in 1..Len(frames), frames[i].pc = "inner" PROVE FALSE
    OBVIOUS
  <2>1. i = Len(frames) /\ frames # <<>>
    BY DEF IInv, LayersToCome, TypeOK
  <2>2. QED
    BY <2>1 DEF Top
<1>5. /\ TypeOK /\ m \in Mocks /\ (m \in Copies => m <= copies)
      /\ frames \in Seq(Frame) /\ options \in [Mocks -> Option \cup {None}]
      /\ copies \in 0..MaxCopies /\ copies <= copies
  BY LifecycleAssumption DEF IInv, TypeOK, Mocks
<1>6. QED
  <2> HIDE DEF f
  <2> QED BY <1>1, <1>2, <1>3, <1>4, <1>5, EnterPreserves

\* A layer of a call begins, with a new copy.
LEMMA EnterLayerPreserves ==
  ASSUME IInv, NEW below \in Seq(Frame), NEW layer \in Honest,
         NEW inner \in Seq(Honest), NEW args \in Seq(Mocks),
         NEW kwargs \in [Keywords -> Mocks \cup {None}],
         EnterLayer(below, layer, inner, args, kwargs),
         Len(below) = Len(frames),
         copies + 1 + Len(inner) <= MaxCopies,
         Len(frames) + 1 + Len(inner) <= MaxDepth,
         \A i \in 1..Len(frames) :
           /\ below[i].mock = frames[i].mock /\ below[i].layer = frames[i].layer
           /\ below[i].args = frames[i].args /\ below[i].kwargs = frames[i].kwargs
           /\ below[i].inner = frames[i].inner /\ below[i].pc # "inner"
  PROVE  /\ IInv' /\ ~registered[copies + 1] /\ options'[copies + 1].private = {}
         /\ Len(frames') = Len(frames) + 1 /\ frames'[Len(frames) + 1].mock = copies + 1
<1> DEFINE m == copies + 1
           f == [mock |-> m, layer |-> layer, inner |-> inner,
                 args   |-> IF layer.self.kw = None THEN Append(args, m) ELSE args,
                 kwargs |-> IF layer.self.kw = None THEN kwargs
                            ELSE [kwargs EXCEPT ![layer.self.kw] = m],
                 pc     |-> IF inner = <<>> THEN "body" ELSE "inner"]
<1>1. /\ copies' = m /\ options' = [options EXCEPT ![m] = Copied(layer.self)] /\ StartMock(m)
      /\ frames' = Append(below, f)
      /\ UNCHANGED <<methods, case_sensitive, registered, raising>>
  BY DEF EnterLayer, CopyOf, Passed
<1>2. /\ TypeOK /\ copies \in 0..MaxCopies /\ copies < MaxCopies /\ Len(inner) \in Nat
      /\ Len(frames) \in Nat /\ MaxCopies \in Nat /\ Len(frames) < MaxDepth
  BY LifecycleAssumption DEF IInv, TypeOK
<1>3. m \in Copies /\ m \in Mocks /\ m > copies /\ m \in 0..MaxCopies /\ copies <= m
  BY <1>2 DEF Copies, Mocks
<1>4. last_send[m] = None /\ ~registered[m]
  BY <1>3 DEF IInv, CopiesFresh
<1>5. f \in Frame
  <2>1. Append(args, m) \in Seq(Mocks)
    BY <1>3
  <2>2. [kwargs EXCEPT ![layer.self.kw] = m] \in [Keywords -> Mocks \cup {None}]
    BY <1>3
  <2>3. f.args \in Seq(Mocks) /\ f.kwargs \in [Keywords -> Mocks \cup {None}]
    <3> HIDE DEF m
    <3> QED BY <2>1, <2>2
  <2>4. layer \in Layer /\ inner \in Seq(Layer)
    BY HonestLayers DEF Honest
  <2>5. QED
    <3> HIDE DEF m
    <3> QED BY <1>3, <2>1, <2>2, <2>4 DEF Frame
<1>6. f.mock = m /\ f.layer = layer /\ f.inner = inner
      /\ (f.pc = "inner" => inner # <<>>)
  OBVIOUS
<1>7. Given(f)
  <2>1. CASE layer.self.kw = None
    <3>1. f.args = Append(args, m)
      BY <2>1
    <3>2. Len(f.args) > 0 /\ f.args[Len(f.args)] = m
      <4> HIDE DEF f, m
      <4> QED BY <3>1, <1>3
    <3>3. QED
      BY <1>6, <2>1, <3>2 DEF Given
  <2>2. CASE layer.self.kw # None
    <3>1. layer.self.kw \in Keywords
      BY <2>2 DEF Honest, Layer, Option
    <3>2. f.kwargs = [kwargs EXCEPT ![layer.self.kw] = m]
      BY <2>2
    <3>3. f.kwargs[layer.self.kw] = m
      <4> HIDE DEF f, m
      <4> QED BY <3>1, <3>2
    <3>4. QED
      BY <1>6, <2>2, <3>3 DEF Given
  <2>3. QED
    BY <2>1, <2>2
<1>8. /\ options' \in [Mocks -> Option \cup {None}] /\ options'[m] = Copied(layer.self)
      /\ \A q \in Mocks : q # m => options'[q] = options[q]
  <2>1. Copied(layer.self) \in Option
    BY CopiedOption DEF Honest, Layer
  <2> HIDE DEF m
  <2> QED BY <1>1, <1>2, <1>3, <2>1 DEF TypeOK
<1>9. \A i \in 1..Len(frames) : options'[frames[i].mock] = options[frames[i].mock]
  <2> TAKE i \in 1..Len(frames)
  <2>1. frames[i].mock \in Mocks
    <3>1. frames[i] \in Frame
      BY <1>2 DEF TypeOK
    <3>2. QED
      BY <3>1 DEF Frame
  <2>2. frames[i].mock # m
    BY <1>2, <1>3 DEF IInv, CopiesFresh
  <2>3. QED
    BY <1>8, <2>1, <2>2
<1>10. /\ f.layer # None => /\ f.layer \in Honest
                          /\ Reaches(options'[m], f.layer.made)
                          /\ options'[m].private = {}
       /\ f.inner \in Seq(Honest) /\ options'[m].private = {}
       /\ f.pc = "inner" => /\ f.inner # <<>> /\ copies' + Len(f.inner) <= MaxCopies
                            /\ Len(frames) + 1 + Len(f.inner) <= MaxDepth
  <2>1. layer.self \in Option /\ Reaches(layer.self, layer.made)
    BY DEF Honest, Layer
  <2>2. Reaches(options'[m], layer.made) /\ options'[m].private = {}
    BY <1>8, <2>1, CopiedOption DEF Reaches
  <2> HIDE DEF f
  <2> QED BY <1>1, <1>6, <2>2
<1>11. IInv'
  <2>1. copies' \in 0..MaxCopies /\ copies <= copies' /\ (m \in Copies => m <= copies')
    BY <1>1, <1>3
  <2> HIDE DEF f, m
  <2>2. QED
    BY <1>1, <1>2, <1>3, <1>4, <1>5, <1>6, <1>7, <1>8, <1>9, <1>10, <2>1, EnterPreserves
<1>12. Len(frames') = Len(frames) + 1 /\ frames'[Len(frames) + 1] = f
  <2> HIDE DEF f
  <2> QED BY <1>1, <1>2, <1>5
<1>13. QED
  BY <1>4, <1>6, <1>10, <1>11, <1>12

\* A decorated method is called from the program or from a body.
LEMMA CallPreserves ==
  ASSUME IInv, NEW k \in Classes, NEW n \in Methods, Call(k, n)
  PROVE  /\ IInv' /\ ~registered[copies + 1] /\ options'[copies + 1].private = {}
         /\ Len(frames') = Len(frames) + 1 /\ frames'[Len(frames) + 1].mock = copies + 1
<1> DEFINE layers == Attribute(k, n)
<1>1. /\ layers # <<>> /\ (frames # <<>> => Top.pc = "body")
      /\ copies + Len(layers) <= MaxCopies /\ Len(frames) + Len(layers) <= MaxDepth
      /\ EnterLayer(frames, Head(layers), Tail(layers), <<>>, NoKwargs)
  BY DEF Call, InBody
<1>2. layers \in Seq(Honest)
  BY DEF IInv, LayersHonest, BaseComplete, Attribute
<1>3. /\ Head(layers) \in Honest /\ Tail(layers) \in Seq(Honest)
      /\ Len(Tail(layers)) = Len(layers) - 1 /\ Len(layers) \in Nat
  <2> HIDE DEF layers
  <2> QED BY <1>1, <1>2, HeadTailProperties
<1>4. /\ frames \in Seq(Frame) /\ <<>> \in Seq(Mocks)
      /\ NoKwargs \in [Keywords -> Mocks \cup {None}]
  BY DEF IInv, TypeOK, NoKwargs
<1>5. /\ copies + 1 + Len(Tail(layers)) <= MaxCopies
      /\ Len(frames) + 1 + Len(Tail(layers)) <= MaxDepth
  <2>1. copies \in Int /\ Len(frames) \in Nat
    BY LifecycleAssumption DEF IInv, TypeOK
  <2> HIDE DEF layers
  <2> QED BY <1>1, <1>3, <2>1
<1>6. \A i \in 1..Len(frames) : frames[i].pc # "inner"
  <2> SUFFICES ASSUME NEW i \in 1..Len(frames), frames[i].pc = "inner" PROVE FALSE
    OBVIOUS
  <2>1. i = Len(frames) /\ frames # <<>>
    BY DEF IInv, LayersToCome, TypeOK
  <2>2. QED
    BY <1>1, <2>1 DEF Top
<1>7. QED
  <2> HIDE DEF layers
  <2> QED BY <1>1, <1>3, <1>4, <1>5, <1>6, EnterLayerPreserves

\* A layer calls the next.
LEMMA CallInnerPreserves ==
  ASSUME IInv, CallInner
  PROVE  /\ IInv' /\ ~registered[copies + 1] /\ options'[copies + 1].private = {}
         /\ Len(frames') = Len(frames) + 1 /\ frames'[Len(frames) + 1].mock = copies + 1
<1> DEFINE f == [Top EXCEPT !.pc = "exit"]
           below == Append(Outer, f)
           d == Len(frames)
<1>1. /\ frames # <<>> /\ Top.pc = "inner"
      /\ EnterLayer(below, Head(Top.inner), Tail(Top.inner), Top.args, Top.kwargs)
  BY DEF CallInner, TopAt
<1>2. /\ TypeOK /\ Top \in Frame /\ Top = frames[d] /\ d \in Nat \ {0} /\ d \in 1..d
      /\ copies \in Int
  BY <1>1, TopFacts, LifecycleAssumption DEF IInv, TypeOK
<1>3. /\ Top.inner \in Seq(Honest) /\ Top.inner # <<>> /\ Top.args \in Seq(Mocks)
      /\ Top.kwargs \in [Keywords -> Mocks \cup {None}]
      /\ copies + Len(Top.inner) <= MaxCopies /\ d + Len(Top.inner) <= MaxDepth
  <2>1. HonestFrame(Top)
    BY <1>2 DEF IInv, LayersHonest
  <2>2. Top.args \in Seq(Mocks) /\ Top.kwargs \in [Keywords -> Mocks \cup {None}]
    BY <1>2 DEF Frame
  <2>3. QED
    BY <1>1, <1>2, <2>1, <2>2 DEF IInv, LayersToCome, HonestFrame
<1>4. /\ Head(Top.inner) \in Honest /\ Tail(Top.inner) \in Seq(Honest)
      /\ Len(Tail(Top.inner)) = Len(Top.inner) - 1 /\ Len(Top.inner) \in Nat
  BY <1>3, HeadTailProperties
<1>5. /\ f \in Frame /\ f.mock = Top.mock /\ f.layer = Top.layer /\ f.args = Top.args
      /\ f.kwargs = Top.kwargs /\ f.pc = "exit" /\ f.inner = Top.inner
  BY <1>2 DEF Frame
<1>6. /\ below \in Seq(Frame) /\ Len(below) = d /\ below[d] = f
      /\ \A i \in 1..d - 1 : below[i] = frames[i]
  BY <1>1, <1>2, <1>5, RelabelFrames
<1>7. \A i \in 1..d :
        /\ below[i].mock = frames[i].mock /\ below[i].layer = frames[i].layer
        /\ below[i].args = frames[i].args /\ below[i].kwargs = frames[i].kwargs
        /\ below[i].inner = frames[i].inner /\ below[i].pc # "inner"
  <2> TAKE i \in 1..d
  <2>1. CASE i = d
    <3> HIDE DEF f, below
    <3> QED BY <1>2, <1>5, <1>6, <2>1
  <2>2. CASE i # d
    <3>1. i \in 1..d - 1 /\ frames[i].pc # "inner"
      BY <1>2, <2>2 DEF IInv, LayersToCome
    <3> HIDE DEF f, below
    <3> QED BY <1>6, <3>1
  <2>3. QED
    BY <2>1, <2>2
<1>8. /\ copies + 1 + Len(Tail(Top.inner)) <= MaxCopies
      /\ d + 1 + Len(Tail(Top.inner)) <= MaxDepth
  <2> DEFINE t == Len(Tail(Top.inner))
             h == Len(Top.inner)
  <2>1. t = h - 1 /\ h \in Nat /\ copies + h <= MaxCopies /\ d + h <= MaxDepth
    BY <1>3, <1>4
  <2>2. d \in Nat /\ copies \in Int
    BY <1>2
  <2> HIDE DEF t, h, d
  <2>3. copies + 1 + t <= MaxCopies /\ d + 1 + t <= MaxDepth
    BY <2>1, <2>2, LifecycleAssumption
  <2>4. QED
    BY <2>3 DEF t
<1>9. QED
  <2> HIDE DEF below, f
  <2> QED BY <1>1, <1>3, <1>4, <1>6, <1>7, <1>8, EnterLayerPreserves

\* Nothing is active at first.
LEMMA InitIInv == Init => IInv
<1> SUFFICES ASSUME Init PROVE IInv
  OBVIOUS
<1>1. Len(frames) = 0 /\ Len(started) = 0 /\ frames \in Seq(Frame) /\ started \in Seq(Mocks)
  BY DEF Init
<1>2. methods \in [Classes -> [Methods -> Seq(Honest) \cup {None}]] /\ BaseComplete
  <2>1. <<>> \in Seq(Honest)
    OBVIOUS
  <2>2. QED
    BY <2>1 DEF Init, Classes, BaseComplete
<1>3. TypeOK
  <2>1. /\ last_send \in [Mocks -> Mocks \cup {Original, None}]
        /\ options \in [Mocks -> Option \cup {None}]
        /\ registered \in [Mocks \cup {GivenAdapter} -> BOOLEAN]
    BY DEF Init
  <2>2. copies \in 0..MaxCopies /\ Len(frames) <= MaxDepth
    BY <1>1, LifecycleAssumption DEF Init
  <2>3. QED
    BY <1>1, <1>2, <2>1, <2>2, HonestLayers DEF Init, TypeOK
<1>4. /\ Chain /\ Nested /\ LayersToCome /\ AllGiven /\ OptionsReachTheCall
      /\ LayersHonest
  BY <1>1, <1>2
  DEF Init, Chain, Nested, LayersToCome, AllGiven, OptionsReachTheCall, LayersHonest
<1>5. CopiesFresh
  <2>1. \A m \in Copies : m \in Mocks /\ last_send[m] = None
    BY DEF Init, Mocks
  <2>2. \A m \in Mocks : ~registered[m]
    BY LifecycleAssumption DEF Init
  <2>3. QED
    BY <1>1, <2>1, <2>2 DEF CopiesFresh
<1>6. QED
  BY <1>2, <1>3, <1>4, <1>5 DEF IInv

\* IInv is inductive.
LEMMA NextIInv == IInv /\ [Next]_vars => IInv'
<1> SUFFICES ASSUME IInv, [Next]_vars PROVE IInv'
  OBVIOUS
<1>1. CASE UNCHANGED vars
  BY <1>1, AsidePreserves DEF vars, mockVars, IInv, TypeOK, LayersHonest,
     BaseComplete, CopiesFresh
<1>2. CASE SetGlobal \/ Catch \/ \E m \in Mocks : StartAgain(m)
  BY <1>2, AsidePreserves
  DEF SetGlobal, Catch, StartAgain, mockVars, IInv, TypeOK, LayersHonest, BaseComplete,
      CopiesFresh
<1>3. CASE Register
  <2>1. /\ frames # <<>> /\ Top.layer # None
        /\ registered' = [registered EXCEPT ![AdapterOf(options[Top.mock], Top.mock)] = TRUE]
        /\ UNCHANGED <<methods, case_sensitive, options, copies, frames, raising, send,
                       last_send, started>>
    BY <1>3 DEF Register
  <2>2. /\ TypeOK /\ Top \in Frame /\ Top = frames[Len(frames)] /\ Len(frames) \in 1..Len(frames)
    BY <2>1, TopFacts DEF IInv
  <2>3. AdapterOf(options[Top.mock], Top.mock) = Top.mock
    BY <2>1, <2>2 DEF IInv, OptionsReachTheCall, AdapterOf
  <2>4. ASSUME NEW m \in Copies, m > copies
        PROVE  ~registered'[m]
    <3>1. m # Top.mock
      <4>1. Top.mock \in Copies => Top.mock <= copies
        BY <2>2 DEF IInv, CopiesFresh
      <4>2. m \in Int /\ copies \in Int
        BY <2>2, LifecycleAssumption DEF TypeOK, Copies
      <4>3. QED
        BY <2>4, <4>1, <4>2
    <3>2. QED
      BY <2>1, <2>2, <2>3, <2>4, <3>1 DEF IInv, CopiesFresh, TypeOK, Mocks
  <2>5. registered' \in [Mocks \cup {GivenAdapter} -> BOOLEAN]
    BY <2>1, <2>2 DEF TypeOK
  <2>6. QED
    BY <2>1, <2>2, <2>4, <2>5, AsidePreserves DEF IInv, TypeOK, LayersHonest, BaseComplete
<1>4. CASE \/ \E k \in Classes, d \in Decorators : DecorateClass(k, d)
           \/ \E k \in Classes, n \in Methods, d \in Decorators : DecorateMethod(k, n, d)
  BY <1>4, DecoratePreserves, DecorateMethodPreserves
<1>5. CASE \E k \in Classes, n \in Methods : Call(k, n)
  BY <1>5, CallPreserves
<1>6. CASE CallInner
  BY <1>6, CallInnerPreserves
<1>7. CASE (\E raises \in BOOLEAN : Leave(raises)) \/ Propagate
  BY <1>7, LeavePreserves
<1>8. CASE StopEarly \/ Exit
  BY <1>8, StopPreserves
<1>9. CASE Restart
  BY <1>9, RestartPreserves
<1>10. CASE \/ \E m \in Instances : With(m)
            \/ \E m \in Fixtures : SetUpFixture(m) \/ PytestFixture(m)
  <2>1. PICK m \in Instances \cup Fixtures :
          last_send[m] = None /\ EnterMock(m) /\ (frames # <<>> => Top.pc = "body")
    BY <1>10 DEF With, SetUpFixture, PytestFixture, InBody
  <2>2. QED
    BY <2>1, EnterMockPreserves
<1>11. QED
  BY <1>1, <1>2, <1>3, <1>4, <1>5, <1>6, <1>7, <1>8, <1>9, <1>10 DEF Next

\* Every state is as IInv says.
LEMMA AlwaysIInv == Spec => []IInv
BY InitIInv, NextIInv, PTL DEF Spec

-----------------------------------------------------------------------------
\* Every variable keeps to its type: what is put back is never a cleared attribute,
\* and no call runs out of the copies its layers need.
THEOREM TypeCorrect == Spec => []TypeOK
<1>1. IInv => TypeOK
  BY DEF IInv
<1>2. QED
  BY <1>1, AlwaysIInv, PTL

\* Whatever is nested and however it is left, requests are as they were at the end.
THEOREM NothingLeftHolds == Spec => []NothingLeft
<1>1. IInv => NothingLeft
  <2> SUFFICES ASSUME IInv, frames = <<>>
               PROVE  send = Original /\ \A m \in Mocks : last_send[m] = None
    BY DEF NothingLeft
  <2>1. Len(frames) = 0 /\ Len(started) \in Nat
    BY DEF IInv, TypeOK
  <2>2. Len(started) = 0
    <3>1. ASSUME Len(started) # 0 PROVE FALSE
      <4>1. 1 \in 1..Len(started)
        BY <2>1, <3>1
      <4>2. \E j \in 1..Len(frames) : frames[j].mock = started[1]
        BY <4>1 DEF IInv, Nested
      <4>3. QED
        BY <2>1, <4>2
    <3>2. QED
      BY <3>1
  <2>3. QED
    BY <2>2 DEF IInv, Chain
<1>2. QED
  BY <1>1, AlwaysIInv, PTL

\* The mock a decorated body is given is the one that answers, for any number of
\* layers, of decorated classes and of calls nested in each other.
THEOREM GivenMockAnswersHolds == Spec => []GivenMockAnswers
<1>1. IInv => GivenMockAnswers
  <2> SUFFICES ASSUME IInv, InCall, last_send[Top.mock] # None
               PROVE  /\ send = Top.mock
                      /\ Top.mock = IF Top.layer.made.kw = None THEN Top.args[Len(Top.args)]
                                    ELSE Top.kwargs[Top.layer.made.kw]
    BY DEF GivenMockAnswers
  <2>1. frames # <<>> /\ Top.layer # None
    BY DEF InCall, TopAt
  <2>2. Top = frames[Len(frames)] /\ Len(frames) \in 1..Len(frames)
    BY <2>1, TopFacts DEF IInv
  <2>3. send = Top.mock
    BY <2>1, LastStarted DEF IInv, Chain, TypeOK
  <2>4. Given(Top) /\ Top.layer.self.kw = Top.layer.made.kw
    <3>1. HonestFrame(Top)
      BY <2>2 DEF IInv, LayersHonest
    <3>2. Given(Top)
      BY <2>2 DEF IInv, AllGiven
    <3>3. QED
      BY <2>1, <3>1, <3>2 DEF HonestFrame, Honest, Reaches
  <2>5. QED
    BY <2>1, <2>3, <2>4 DEF Given
<1>2. QED
  BY <1>1, AlwaysIInv, PTL

\* kw, real_http and case_sensitive of a decorator reach every call through both copies,
\* and what else it was made with reaches none.
THEOREM OptionsReachTheCallHolds == Spec => []OptionsReachTheCall
<1>1. IInv => OptionsReachTheCall
  BY DEF IInv
<1>2. QED
  BY <1>1, AlwaysIInv, PTL

\* The frames grow by a call with a copy that nothing is registered with, or by a with
\* block or fixture.
LEMMA FreshStep ==
  ASSUME IInv, [Next]_vars, Len(frames') > Len(frames)
  PROVE  LET begun == frames'[Len(frames')] IN
         begun.layer # None => ~registered[AdapterOf(options'[begun.mock], begun.mock)]
<1>1. Len(frames) \in Nat
  BY DEF IInv, TypeOK
<1>2. CASE (\E k \in Classes, n \in Methods : Call(k, n)) \/ CallInner
  BY <1>2, CallPreserves, CallInnerPreserves DEF AdapterOf
<1>3. ASSUME NEW m \in Mocks, EnterMock(m)
      PROVE  frames'[Len(frames')].layer = None
  <2> DEFINE f == [mock |-> m, layer |-> None, inner |-> <<>>, args |-> <<>>,
                   kwargs |-> NoKwargs, pc |-> "body"]
  <2>1. frames' = Append(frames, f) /\ f.layer = None
    BY <1>3 DEF EnterMock
  <2> HIDE DEF f
  <2>2. QED
    BY <1>1, <2>1 DEF IInv, TypeOK
<1>4. CASE \/ \E m \in Instances : With(m)
           \/ \E m \in Fixtures : SetUpFixture(m) \/ PytestFixture(m)
  BY <1>3, <1>4 DEF With, SetUpFixture, PytestFixture, Mocks
<1>5. CASE (\E raises \in BOOLEAN : Leave(raises)) \/ Propagate
  <2> DEFINE f == [Top EXCEPT !.pc = "exit"]
  <2>1. frames # <<>> /\ frames' = Append(Outer, f)
    BY <1>5 DEF Leave, Propagate, TopAt
  <2>2. Len(Outer) = Len(frames) - 1 /\ Outer \in Seq(Frame)
    BY <2>1, TopFacts DEF IInv
  <2> HIDE DEF f
  <2>3. Len(frames') = Len(frames)
    BY <1>1, <2>1, <2>2
  <2>4. QED
    BY <1>1, <2>3
<1>6. CASE Exit
  <2>1. frames' = Outer /\ frames # <<>>
    BY <1>6 DEF Exit, TopAt
  <2>2. Len(frames') = Len(frames) - 1
    BY <2>1, TopFacts DEF IInv
  <2>3. QED
    BY <1>1, <2>2
<1>7. CASE frames' = frames
  BY <1>1, <1>7
<1>8. CASE \/ UNCHANGED vars
           \/ SetGlobal \/ Catch \/ Register \/ StopEarly \/ Restart
           \/ \E m \in Mocks : StartAgain(m)
           \/ \E k \in Classes, d \in Decorators : DecorateClass(k, d)
           \/ \E k \in Classes, n \in Methods, d \in Decorators : DecorateMethod(k, n, d)
  BY <1>7, <1>8 DEF vars, SetGlobal, Catch, Register, StopEarly, Restart, StartAgain,
     DecorateClass, DecorateMethod
<1>9. QED
  BY <1>2, <1>4, <1>5, <1>6, <1>8 DEF Next

\* No call gets a mock whose adapter another call, or the program, has registered
\* anything with.
THEOREM FreshMockHolds == Spec => FreshMock
<1>1. IInv /\ [Next]_vars =>
        [Len(frames') > Len(frames) =>
           LET begun == frames'[Len(frames')] IN
           begun.layer # None =>
             ~registered[AdapterOf(options'[begun.mock], begun.mock)]]_vars
  BY FreshStep
<1>2. QED
  BY <1>1, AlwaysIInv, PTL DEF Spec, FreshMock

\* A step of Lifecycle starts a mocker that is not started, stops the innermost one,
\* or leaves them all as they are.
LEMMA StackStep ==
  ASSUME IInv, [Next]_vars
  PROVE  [Stack!Next]_(Stack!vars)
<1> DEFINE StartsOne == \E m \in Mocks : Stack!Start(m)
           same == started' = started
<1>1. ASSUME NEW m \in Mocks, last_send[m] = None, StartMock(m)
      PROVE  Stack!Start(m)
  <2>1. \A k \in 1..Len(started) : started[k] # m
    BY <1>1, StartSteps DEF IInv
  <2>2. QED
    BY <1>1, <2>1 DEF StartMock, Stack!Start
<1>2. ASSUME frames # <<>>, StopMock(Top.mock)
      PROVE  same \/ Stack!Stop
  <2>1. Top.mock \in Mocks
    BY <1>2, TopFacts DEF IInv, Frame
  <2>2. last_send[Top.mock] # None => Top.mock = started[Len(started)]
    BY <1>2, LastStarted DEF IInv
  <2>3. \/ started' = started
        \/ Len(started) > 0 /\ started' = SubSeq(started, 1, Len(started) - 1)
    BY <1>2, <2>1, <2>2, StopSteps DEF IInv
  <2>4. Len(started) > 0 => started # <<>>
    OBVIOUS
  <2>5. QED
    BY <2>3, <2>4 DEF Stack!Stop
<1>3. CASE StopEarly \/ Exit
  BY <1>2, <1>3 DEF StopEarly, Exit, TopAt, Exits, Stack!Next, Stack!vars
<1>4. ASSUME NEW m \in Mocks, last_send[m] = None, StartMock(m)
      PROVE  Stack!Next
  BY <1>1, <1>4 DEF Stack!Next
<1>5. CASE Restart
  <2>1. Top.mock \in Mocks
    BY <1>5, TopFacts DEF IInv, Restart, Frame
  <2>2. QED
    BY <1>4, <1>5, <2>1 DEF Restart
<1>6. CASE \/ \E m \in Instances : With(m)
           \/ \E m \in Fixtures : SetUpFixture(m) \/ PytestFixture(m)
  BY <1>4, <1>6 DEF With, SetUpFixture, PytestFixture, EnterMock, Mocks
<1>7. CASE (\E k \in Classes, n \in Methods : Call(k, n)) \/ CallInner
  <2>1. StartMock(copies + 1) /\ copies' = copies + 1
    BY <1>7 DEF Call, CallInner, EnterLayer, CopyOf
  <2>2. IInv'
    BY NextIInv
  <2>3. copies + 1 \in Copies /\ copies + 1 \in Mocks /\ copies + 1 > copies
    BY <2>1, <2>2, LifecycleAssumption DEF IInv, TypeOK, Copies, Mocks
  <2>4. last_send[copies + 1] = None
    BY <2>3 DEF IInv, CopiesFresh
  <2>5. QED
    BY <1>4, <2>1, <2>3, <2>4
<1>8. CASE \/ UNCHANGED vars
           \/ SetGlobal \/ Catch \/ Propagate \/ Register
           \/ \E raises \in BOOLEAN : Leave(raises)
           \/ \E m \in Mocks : StartAgain(m)
           \/ \E k \in Classes, d \in Decorators : DecorateClass(k, d)
           \/ \E k \in Classes, n \in Methods, d \in Decorators : DecorateMethod(k, n, d)
  BY <1>8 DEF vars, mockVars, SetGlobal, Catch, Propagate, Register, Leave, StartAgain,
     DecorateClass, DecorateMethod, Stack!vars
<1>9. QED
  BY <1>3, <1>5, <1>6, <1>7, <1>8 DEF Next

\* With blocks, decorators and fixtures use mockers as the stack of nested mockers
\* that the documentation describes: Lifecycle implements MockStack.
THEOREM LifecycleImplementsMockStack == Spec => ImplementsMockStack
<1>1. Init => Stack!Init
  BY DEF Init, Stack!Init
<1>2. IInv /\ [Next]_vars => [Stack!Next]_(Stack!vars)
  BY StackStep
<1>3. QED
  BY <1>1, <1>2, AlwaysIInv, PTL DEF Spec, ImplementsMockStack, Stack!Spec
=============================================================================

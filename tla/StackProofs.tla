----------------------------- MODULE StackProofs -----------------------------
(* Mocker implements MockStack, for all values of the constants of Mocker  *)
(* that have sessions that threads do not share, one thread that starts    *)
(* and stops mockers of the class at any time, or of sessions between      *)
(* their calls, but not of both.                                           *)
EXTENDS NestingProofs

USE DEF Original, Absent, Override, None, Real, At, InFakeSend

-----------------------------------------------------------------------------
(* The requests of MockStack: an image of the calls on the stacks.         *)

Request(f) ==
  [session |-> f.session, at |-> f.fn,
   asked   |-> IF f.adapter = Real THEN Original ELSE f.adapter,
   refused |-> f.forwarded]
AllRequests == {Request(f) : f \in Frame}

Image(q) == [i \in 1..Len(q) |-> Request(q[i])]
Requests == [t \in Threads |-> Image(stack[t])]

\* The image of a stack is a stack of requests.
LEMMA ImageSeq ==
  ASSUME NEW q \in Seq(Frame)
  PROVE  /\ Image(q) \in Seq(AllRequests) /\ Len(Image(q)) = Len(q)
         /\ \A i \in 1..Len(q) : Image(q)[i] = Request(q[i])
<1>1. Len(q) \in Nat /\ \A i \in 1..Len(q) : q[i] \in Frame
  OBVIOUS
<1>2. \A i \in 1..Len(q) : Request(q[i]) \in AllRequests
  BY <1>1 DEF AllRequests
<1>3. QED
  BY <1>1, <1>2 DEF Image

\* Stacks whose calls look alike have one image.
LEMMA ImageSame ==
  ASSUME NEW p \in Seq(Frame), NEW q \in Seq(Frame), Len(p) = Len(q),
         \A i \in 1..Len(q) : Request(p[i]) = Request(q[i])
  PROVE  Image(p) = Image(q)
BY DEF Image

\* The image of a stack with a call more.
LEMMA ImageAppend ==
  ASSUME NEW q \in Seq(Frame), NEW f \in Frame
  PROVE  Image(Append(q, f)) = Append(Image(q), Request(f))
<1> DEFINE n == Len(q)
<1>1. /\ n \in Nat /\ Append(q, f) \in Seq(Frame) /\ Len(Append(q, f)) = n + 1
      /\ Append(q, f)[n + 1] = f /\ \A i \in 1..n : Append(q, f)[i] = q[i]
  OBVIOUS
<1>2. /\ Image(q) \in Seq(AllRequests) /\ Len(Image(q)) = n
      /\ \A i \in 1..n : Image(q)[i] = Request(q[i])
  BY ImageSeq
<1>3. /\ Image(Append(q, f)) \in Seq(AllRequests) /\ Len(Image(Append(q, f))) = n + 1
      /\ \A i \in 1..n + 1 : Image(Append(q, f))[i] = Request(Append(q, f)[i])
  BY <1>1, ImageSeq
<1>4. Request(f) \in AllRequests
  BY DEF AllRequests
<1> DEFINE a == Image(Append(q, f))
           b == Append(Image(q), Request(f))
<1>5. b \in Seq(AllRequests) /\ Len(b) = n + 1 /\ b[n + 1] = Request(f)
      /\ \A i \in 1..n : b[i] = Image(q)[i]
  BY <1>2, <1>4
<1>6. \A i \in 1..n + 1 : a[i] = b[i]
  <2>1. \A i \in 1..n + 1 : i = n + 1 \/ i \in 1..n
    BY <1>1
  <2>2. QED
    BY <1>1, <1>2, <1>3, <1>5, <2>1
<1>7. QED
  <2> HIDE DEF a, b
  <2>1. a = b
    BY <1>3, <1>5, <1>6, SeqEqual DEF a
  <2>2. QED
    BY <2>1 DEF a, b

\* The image of the callers of the innermost call.
LEMMA ImageCallers ==
  ASSUME stack \in Stacks, NEW t \in Threads, Active(t)
  PROVE  Image(Callers(t)) = SubSeq(Requests[t], 1, Len(Requests[t]) - 1)
<1> DEFINE n == Len(stack[t])
           b == SubSeq(Image(stack[t]), 1, n - 1)
<1>1. stack[t] \in Seq(Frame) /\ n > 0 /\ n \in Nat
  BY DEF Stacks, Active
<1>2. /\ Image(stack[t]) \in Seq(AllRequests) /\ Len(Image(stack[t])) = n
      /\ \A i \in 1..n : Image(stack[t])[i] = Request(stack[t][i])
  BY <1>1, ImageSeq
<1>3. /\ b \in Seq(AllRequests) /\ Len(b) = n - 1
      /\ \A i \in 1..n - 1 : b[i] = Image(stack[t])[i]
  BY <1>1, <1>2, FrontSeq
<1>4. /\ Callers(t) \in Seq(Frame) /\ Len(Callers(t)) = n - 1
      /\ \A i \in 1..n - 1 : Callers(t)[i] = stack[t][i]
  BY CallersType
<1>5. /\ Image(Callers(t)) \in Seq(AllRequests) /\ Len(Image(Callers(t))) = n - 1
      /\ \A i \in 1..n - 1 : Image(Callers(t))[i] = Request(Callers(t)[i])
  BY <1>4, ImageSeq
<1>6. \A i \in 1..n - 1 : Image(Callers(t))[i] = b[i]
  <2>1. \A i \in 1..n - 1 : i \in 1..n
    BY <1>1
  <2>2. QED
    BY <1>2, <1>3, <1>4, <1>5, <2>1
<1>7. Image(Callers(t)) = b
  <2> HIDE DEF b
  <2> QED BY <1>3, <1>5, <1>6, SeqEqual
<1>8. QED
  BY <1>2, <1>7 DEF Requests

\* What each way of changing a stack does to the requests.
LEMMA RequestsOfSetTop ==
  ASSUME stack \in Stacks, NEW t \in Threads, Active(t), NEW f \in Frame, SetTop(t, f)
  PROVE  /\ Requests' = [Requests EXCEPT ![t] =
                           Append(SubSeq(@, 1, Len(@) - 1), Request(f))]
         /\ Request(f) = Request(Top(t)) => Requests' = Requests
<1>1. stack'[t] = Append(Callers(t), f) /\ \A u \in Threads \ {t} : stack'[u] = stack[u]
  BY DEF SetTop, Stacks
<1>2. Image(stack'[t]) = Append(SubSeq(Requests[t], 1, Len(Requests[t]) - 1), Request(f))
  BY <1>1, CallersType, ImageAppend, ImageCallers
<1>3. ASSUME Request(f) = Request(Top(t))
      PROVE  Image(stack'[t]) = Image(stack[t])
  <2> DEFINE n == Len(stack[t])
  <2>1. /\ stack' \in Stacks /\ Len(stack'[t]) = n /\ stack'[t][n] = f
        /\ \A i \in 1..n - 1 : stack'[t][i] = stack[t][i]
    BY SetTopFrames
  <2>2. n \in Nat /\ stack[t] \in Seq(Frame) /\ stack'[t] \in Seq(Frame)
    BY <2>1 DEF Stacks
  <2>3. \A i \in 1..n : Request(stack'[t][i]) = Request(stack[t][i])
    <3>1. \A i \in 1..n : i = n \/ i \in 1..n - 1
      BY <2>2
    <3>2. QED
      BY <1>3, <2>1, <3>1 DEF Top
  <2>4. QED
    BY <2>1, <2>2, <2>3, ImageSame
<1>4. QED
  BY <1>1, <1>2, <1>3 DEF Requests

LEMMA RequestsOfNest ==
  ASSUME stack \in Stacks, NEW t \in Threads, Active(t), MayNest(t),
         NEW f \in Frame, Nest(t, f)
  PROVE  Requests' = [Requests EXCEPT ![t] = Append(@, Request(f))]
<1> DEFINE n == Len(stack[t])
           g == [Top(t) EXCEPT !.nested = @ + 1]
           q == Append(Callers(t), g)
<1>1. stack'[t] = Append(q, f) /\ \A u \in Threads \ {t} : stack'[u] = stack[u]
  BY DEF Nest, Stacks
<1>2. g \in Frame /\ Request(g) = Request(Top(t))
  <2>1. Top(t).nested + 1 \in 0..MaxNested
    BY TopType, BoundsAssumption DEF MayNest, Frame
  <2>2. QED
    BY <2>1, TopType DEF Frame, Request
<1>3. /\ q \in Seq(Frame) /\ Len(q) = n /\ q[n] = g /\ n \in Nat /\ stack[t] \in Seq(Frame)
      /\ \A i \in 1..(n - 1) : q[i] = stack[t][i]
  <2> HIDE DEF g
  <2> QED BY <1>2, CallersType, TopType DEF Stacks
<1>4. Image(q) = Image(stack[t])
  <2>1. \A i \in 1..n : i = n \/ i \in 1..n - 1
    BY <1>3
  <2>2. \A i \in 1..n : Request(q[i]) = Request(stack[t][i])
    <3> HIDE DEF q, g
    <3> QED BY <1>2, <1>3, <2>1 DEF Top
  <2> HIDE DEF q
  <2>3. QED
    BY <1>3, <2>2, ImageSame
<1>5. Image(stack'[t]) = Append(Image(stack[t]), Request(f))
  <2> HIDE DEF q
  <2> QED BY <1>1, <1>3, <1>4, ImageAppend
<1>6. QED
  BY <1>1, <1>5 DEF Requests

LEMMA RequestsOfReturn ==
  ASSUME stack \in Stacks, NEW t \in Threads, Active(t),
         NEW r \in Results \cup {None}, Return(t, r)
  PROVE  Requests' = [Requests EXCEPT ![t] = SubSeq(@, 1, Len(@) - 1)]
<1> DEFINE n == Len(stack[t])
<1>1. /\ stack' \in Stacks /\ Len(stack'[t]) = n - 1
      /\ \A i \in 1..n - 1 : stack'[t][i] = stack[t][i] \/ stack'[t][i] = Leaving(stack[t][i], r)
      /\ \A u \in Threads \ {t} : stack'[u] = stack[u]
  BY ReturnFrames
<1>2. n \in Nat /\ \A i \in 1..n - 1 : stack[t][i] \in Frame
  BY DEF Stacks
<1>3. \A f \in Frame : Request(Leaving(f, r)) = Request(f)
  BY DEF Request, Leaving, Frame
<1>4. /\ Callers(t) \in Seq(Frame) /\ Len(Callers(t)) = n - 1
      /\ \A i \in 1..n - 1 : Callers(t)[i] = stack[t][i]
  BY CallersType
<1>5. \A i \in 1..n - 1 : Request(stack'[t][i]) = Request(Callers(t)[i])
  BY <1>1, <1>2, <1>3, <1>4
<1>6. Image(stack'[t]) = Image(Callers(t))
  BY <1>1, <1>4, <1>5, ImageSame DEF Stacks
<1>7. QED
  BY <1>1, <1>6, ImageCallers DEF Requests

-----------------------------------------------------------------------------
(* The actions of MockStack, in terms of the calls.                        *)

\* Nothing changes for the stack of mockers.
LEMMA AbstractSame ==
  ASSUME nesting' = nesting, Requests' = Requests
  PROVE  UNCHANGED Stack!vars
BY DEF Stack!vars, Requests, Image, Request

LEMMA AbstractInit == nesting = <<>> /\ Requests = [t \in Threads |-> <<>>] => Stack!Init
BY DEF Stack!Init, Requests, Image, Request

LEMMA AbstractStart ==
  ASSUME NEW m \in Mockers, \A i \in 1..Len(nesting) : nesting[i] # m,
         nesting' = Append(nesting, m), Requests' = Requests
  PROVE  Stack!Start(m)
BY DEF Stack!Start, Requests, Image, Request

LEMMA AbstractStop ==
  ASSUME nesting # <<>>, nesting' = SubSeq(nesting, 1, Len(nesting) - 1),
         Requests' = Requests
  PROVE  Stack!Stop
BY DEF Stack!Stop, Requests, Image, Request

LEMMA AbstractBegin ==
  ASSUME NEW t \in Threads, NEW s \in Sessions, nesting' = nesting,
         NEW r, r = [session |-> s, at |-> Stack!Innermost(Stack!Covering(s)),
                     asked |-> None, refused |-> FALSE],
         Requests' = [Requests EXCEPT ![t] = Append(@, r)]
  PROVE  Stack!Begin(t, s)
BY DEF Stack!Begin, Requests, Image, Request

LEMMA AbstractEnd ==
  ASSUME NEW t \in Threads, nesting' = nesting, Requests[t] # <<>>,
         Requests' = [Requests EXCEPT ![t] = SubSeq(@, 1, Len(@) - 1)]
  PROVE  Stack!End(t)
BY DEF Stack!End, Stack!Below, Requests, Image, Request

LEMMA AbstractRefuse ==
  ASSUME NEW t \in Threads, nesting' = nesting, Requests[t] # <<>>,
         NEW top, top = Requests[t][Len(Requests[t])], top.asked \in Mockers,
         Requests' = [Requests EXCEPT ![t] = Append(SubSeq(@, 1, Len(@) - 1),
           [session |-> top.session, at |-> Stack!Around(top.at, top.session),
            asked |-> None, refused |-> TRUE])]
  PROVE  Stack!Refuse(t)
BY DEF Stack!Refuse, Stack!Change, Stack!Top, Stack!Below, Requests, Image, Request

LEMMA AbstractAsk ==
  ASSUME NEW t \in Threads, nesting' = nesting, Requests[t] # <<>>,
         NEW top, top = Requests[t][Len(Requests[t])], top.asked = None,
         NEW m,
         \/ m = top.at
         \/ /\ m \in Mockers /\ top.at = Original /\ ~top.refused
            /\ \E i \in 1..Len(Requests[t]) - 1 :
                 Requests[t][i].session = top.session /\ Requests[t][i].asked = m,
         Requests' = [Requests EXCEPT ![t] =
                        Append(SubSeq(@, 1, Len(@) - 1), [top EXCEPT !.asked = m])]
  PROVE  Stack!Ask(t)
<1>1. Stack!Top(t) = top
  BY DEF Stack!Top, Requests, Image, Request
<1>2. m = top.at \/ m \in Stack!Answering(t, top.session)
  BY DEF Stack!Answering, Requests, Image, Request
<1>3. Stack!Below(t) = SubSeq(Requests[t], 1, Len(Requests[t]) - 1)
  BY DEF Stack!Below, Requests, Image, Request
<1> DEFINE Asks(k) ==
      /\ k # Stack!Top(t).at => Stack!Top(t).at = Original /\ ~Stack!Top(t).refused
      /\ Requests' = [Requests EXCEPT ![t] =
                        Append(Stack!Below(t), [Stack!Top(t) EXCEPT !.asked = k])]
<1>4. Asks(m)
  BY <1>1, <1>3
<1>5. m \in {Stack!Top(t).at} \cup Stack!Answering(t, Stack!Top(t).session)
  BY <1>1, <1>2
<1>6. \E k \in {Stack!Top(t).at} \cup Stack!Answering(t, Stack!Top(t).session) : Asks(k)
  <2> HIDE DEF Asks
  <2> QED BY <1>4, <1>5
<1>7. Requests[t] # <<>> /\ Stack!Top(t).asked = None /\ nesting' = nesting
  BY <1>1
<1>8. QED
  BY <1>6, <1>7 DEF Stack!Ask, Stack!Change, Requests, Image, Request

-----------------------------------------------------------------------------
(* The stack of started mockers.                                           *)

\* MockStack and Mocker agree on who covers a session, and on the innermost of some
\* places.
LEMMA AbstractCovering ==
  ASSUME TypeInv, NEW s \in Sessions
  PROVE  Stack!Covering(s) = Covering(s)
<1>1. Len(nesting) \in Nat /\ \A i \in 1..Len(nesting) : nesting[i] \in Mockers
  BY DEF TypeInv
<1>2. \A i \in 1..Len(nesting) :
        <<nesting[i], s>> \in {p \in Mockers \X Sessions : Target[p[1]] \in {p[2], SessionClass}}
          <=> Target[nesting[i]] \in {s, SessionClass}
  BY <1>1
<1>3. QED
  BY <1>2 DEF Stack!Covering, Covering

LEMMA InnermostIs ==
  ASSUME NEW places
  PROVE  Stack!Innermost(places) = LastOf(nesting, places)
BY DEF Stack!Innermost, LastOf

\* A session's send is the innermost mocker's.
LEMMA SendIsInnermost ==
  ASSUME TypeInv, Chain, NEW s \in Sessions
  PROVE  SendOf(s) = Stack!Innermost(Stack!Covering(s))
<1> DEFINE n == Len(nesting)
<1>1. n \in Nat
  BY DEF TypeInv
<1>2. SendOf(s) = AroundIn(nesting, s, n + 1)
  BY AroundIsIn DEF Chain, InnermostWins
<1>3. Outside(nesting, s, n + 1) = Stack!Covering(s)
  BY <1>1, AbstractCovering DEF Outside, Covering, Covers
<1>4. QED
  BY <1>2, <1>3, InnermostIs DEF AroundIn

\* What a mocker has in _last_send is the mocker around it, for the sessions it covers.
LEMMA LastSendIsAround ==
  ASSUME TypeInv, Chain, NEW m \in Mockers, last_send[m] # None,
         NEW s \in Sessions, Covers(m, s)
  PROVE  Stack!Around(m, s) = last_send[m]
<1> DEFINE n == Len(nesting)
           before == {i \in Covering(s) : \A j \in Covering(s) : nesting[j] = m => i < j}
<1>1. n \in Nat /\ Covering(s) = {j \in 1..n : Covers(nesting[j], s)}
  BY DEF TypeInv, Covering, Covers
<1>2. Stack!Around(m, s) = LastOf(nesting, before)
  BY AbstractCovering, InnermostIs DEF Stack!Around
<1>3. ASSUME NEW p \in 1..n, nesting[p] = m
      PROVE  LastOf(nesting, before) = last_send[m]
  <2>1. p \in Covering(s) /\ \A j \in Covering(s) : nesting[j] = m => j = p
    BY <1>1, <1>3 DEF Chain, Distinct
  <2>2. before = Outside(nesting, s, p)
    BY <1>1, <1>3, <2>1 DEF Outside
  <2>3. last_send[m] = AroundIn(nesting, s, p)
    BY <1>3, <2>1, AroundIsIn DEF Chain, ParentChain
  <2>4. QED
    BY <2>2, <2>3 DEF AroundIn
<1>4. ASSUME NEW u \in Threads, switching[u] = m
      PROVE  LastOf(nesting, before) = last_send[m]
  <2>1. switching[u] # None
    BY <1>4, MockersAssumption DEF Words
  <2>2. last_send[m] = SendOf(s) /\ \A j \in 1..n : nesting[j] # m
    BY <1>4, <2>1 DEF Chain, HasRead
  <2>3. before = Stack!Covering(s)
    BY <1>1, <2>2, AbstractCovering
  <2>4. QED
    BY <2>2, <2>3, SendIsInnermost, InnermostIs
<1>5. (\E p \in 1..n : nesting[p] = m) \/ \E u \in Threads : switching[u] = m
  BY DEF Chain, Linked
<1>6. QED
  BY <1>2, <1>3, <1>4, <1>5

-----------------------------------------------------------------------------
(* Whom a call has asked.                                                  *)

\* The innermost call has no adapter until it looks one up; that of a mocker that is
\* about to forward it is the mocker's.
Turn(f) ==
  /\ f.pc \in {"acquire", "lookup"} => f.adapter = None
  /\ f.pc = "forward" => f.fn \in Mockers /\ f.adapter = f.fn
Turns == \A t \in Threads : Active(t) => Turn(Top(t))

LEMMA TurnsNext ==
  ASSUME LockInv, Turns, NEW t \in Threads, Progress(t) \/ UserStep(t)
  PROVE  Turns'
<1>1. TypeInv /\ CallersWait /\ stack \in Stacks /\ Places(t)
  BY StepPlaces DEF LockInv, TypeInv
<1>2. ASSUME NEW u \in Threads \ {t}, Active(u)'
      PROVE  Turn(Top(u))'
  BY <1>1, <1>2, OthersStay DEF Turns, Turn, Active, Top
<1>3. ASSUME Active(t)'
      PROVE  Turn(Top(t)')
  <2>1. CASE Top(t)'.pc \in {"adapter", "redirect", "exit"}
    BY <2>1 DEF Turn
  <2>2. CASE stack' = stack
    BY <1>3, <2>2 DEF Turns, Turn, Active, Top
  <2>3. ASSUME NEW s, NEW follow, NEW fn, NEW forwarded
        PROVE  Turn(NewFrame(fn, s, follow, forwarded))
    BY DEF NewFrame, Turn
  <2>4. CASE FakeSendEnter(t) /\ Top(t)' = [Top(t) EXCEPT !.pc = "lookup"]
    <3>1. Active(t) /\ Top(t).adapter = None /\ Top(t) \in Frame
      BY <1>1, <2>4, TopType DEF FakeSendEnter, Turns, Turn
    <3>2. QED
      BY <2>4, <3>1 DEF Turn, Frame
  <2>5. CASE FakeSendExit(t) /\ Top(t)' = [Top(t) EXCEPT !.pc = "forward"]
    <3>1. Active(t) /\ Top(t).fn \in Mockers /\ Top(t).pc = "exit" /\ Top(t) \in Frame
      BY <1>1, <2>5, TopType DEF FakeSendExit
    <3>2. Top(t).adapter = Top(t).fn
      BY <1>1, <3>1, TopType DEF LockInv, MockIsolation, Top
    <3>3. QED
      BY <2>5, <3>1, <3>2 DEF Turn, Frame
  <2>6. QED
    BY <1>1, <1>3, <2>1, <2>2, <2>3, <2>4, <2>5, StepTop
<1>4. QED
  BY <1>2, <1>3 DEF Turns, Turn

-----------------------------------------------------------------------------
(* Every step of Mocker is one of MockStack or changes nothing there.      *)

StackInv == CallInv /\ Chain /\ Restoring /\ Cleared /\ Turns

\* A lookup finds the mocker whose send it is, or, in a call of the genuine send, a real
\* adapter or the mocker whose callback made the call.
LEMMA LookupFinds ==
  ASSUME StackInv, PrivateSessions, NEW t \in Threads, At(t, "lookup"),
         NEW m, m = LET a == AdapterFrom(GetAdapterOf(Top(t).session)) IN
                    IF a = Real THEN Original ELSE a
  PROVE  \/ m = Top(t).fn
         \/ /\ m \in Mockers /\ Top(t).fn = Original /\ ~Top(t).forwarded
            /\ \E i \in 1..Len(stack[t]) - 1 :
                 stack[t][i].session = Top(t).session /\ stack[t][i].adapter = m
<1> DEFINE n == Len(stack[t])
           s == Top(t).session
<1>1. /\ TypeInv /\ LockDiscipline /\ CallersWait /\ MockIsolation /\ Active(t)
      /\ stack \in Stacks
  BY DEF StackInv, CallInv, LockInv, TypeInv
<1>2. n \in Nat \ {0} /\ Top(t) \in Frame /\ Top(t) = stack[t][n] /\ n \in 1..n
  BY <1>1, TopType DEF Top
<1>3. s \in Sessions /\ s \in Uses[t]
  BY <1>2 DEF Frame, StackInv, CallInv, OwnSessions
<1>4. CASE Top(t).fn \in Mockers
  <2>1. adapter_attr[s] = Top(t).fn
    BY <1>1, <1>2, <1>4 DEF MockIsolation
  <2>2. QED
    BY <1>4, <2>1, MockersAssumption DEF GetAdapterOf, AdapterFrom, Words
<1>5. CASE Top(t).fn = Original /\ adapter_attr[s] \notin Mockers
  <2>1. GetAdapterOf(s) \notin Mockers
    BY <1>5, MockersAssumption DEF GetAdapterOf, ClassGetAdapter, Words
  <2>2. QED
    BY <1>5, <2>1 DEF AdapterFrom
<1>6. CASE Top(t).fn = Original /\ adapter_attr[s] \in Mockers
  <2>1. ~Top(t).forwarded
    BY <1>1, <1>6 DEF StackInv, Cleared, Refused
  <2>2. m = adapter_attr[s]
    BY <1>6, MockersAssumption DEF GetAdapterOf, AdapterFrom, Words
  <2>3. PICK u \in Threads : \E i \in Held(u) :
          stack[u][i].session = s /\ stack[u][i].fn = adapter_attr[s]
    <3>1. adapter_attr[s] \notin {Absent} \cup Getters(s)
      BY <1>3, <1>6, GettersAre, MockersAssumption DEF Words
    <3>2. QED
      BY <1>3, <3>1 DEF StackInv, Restoring
  <2>4. PICK i \in Held(u) : stack[u][i].session = s /\ stack[u][i].fn = m
    BY <2>2, <2>3
  <2>5. i \in 1..Len(stack[u]) /\ Holding(stack[u][i])
    BY DEF Held
  <2>6. u = t
    BY <1>3, <2>4, <2>5 DEF StackInv, CallInv, OwnSessions, PrivateSessions
  <2>7. i # n /\ i \in 1..n - 1
    BY <1>2, <1>6, <2>4, <2>5, <2>6, MockersAssumption DEF Holding, Words
  <2>8. stack[t][i].pc \in {"adapter", "redirect"} /\ stack[t][i].fn \in Mockers
    BY <1>1, <2>5, <2>6, <2>7 DEF CallersWait, Holding
  <2>9. stack[t][i].adapter = m
    BY <1>1, <2>4, <2>5, <2>6, <2>8 DEF MockIsolation
  <2>10. QED
    BY <1>6, <2>1, <2>2, <2>4, <2>6, <2>7, <2>9
<1>7. QED
  BY <1>2, <1>4, <1>5, <1>6 DEF Frame, Functions

\* The request that is the image of the innermost call.
LEMMA TopRequest ==
  ASSUME stack \in Stacks, NEW t \in Threads, Active(t)
  PROVE  /\ Requests[t] # <<>> /\ Len(Requests[t]) = Len(stack[t])
         /\ Requests[t][Len(Requests[t])] = Request(Top(t))
         /\ \A i \in 1..Len(stack[t]) : Requests[t][i] = Request(stack[t][i])
<1>1. stack[t] \in Seq(Frame) /\ Len(stack[t]) \in Nat \ {0} /\ Requests[t] = Image(stack[t])
  BY TopType DEF Stacks, Requests
<1>2. /\ Image(stack[t]) \in Seq(AllRequests) /\ Len(Image(stack[t])) = Len(stack[t])
      /\ \A i \in 1..Len(stack[t]) : Image(stack[t])[i] = Request(stack[t][i])
  BY <1>1, ImageSeq
<1>3. Image(stack[t]) # <<>>
  BY <1>1, <1>2
<1>4. QED
  BY <1>1, <1>2, <1>3 DEF Top

\* A call of the genuine or a mocker's send looks get_adapter up.
LEMMA LookupRefines ==
  ASSUME StackInv, PrivateSessions, NEW t \in Threads, GetAdapter(t)
  PROVE  Stack!Ask(t)
<1> DEFINE a == AdapterFrom(GetAdapterOf(Top(t).session))
           m == IF a = Real THEN Original ELSE a
           f == [Top(t) EXCEPT !.pc = "adapter", !.adapter = a]
           top == Request(Top(t))
<1>1. TypeInv /\ stack \in Stacks /\ At(t, "lookup") /\ Active(t) /\ nesting' = nesting
  BY DEF GetAdapter, OnlyStack, targetVars, StackInv, CallInv, LockInv, TypeInv
<1>2. Top(t) \in Frame /\ f \in Frame /\ SetTop(t, f) /\ Top(t).adapter = None
  BY <1>1, TopUpdates DEF GetAdapter, StackInv, Turns, Turn
<1>3. top.asked = None /\ top.session = Top(t).session /\ top.at = Top(t).fn
      /\ top.refused = Top(t).forwarded
  BY <1>2 DEF Request
<1>4. Request(f) = [top EXCEPT !.asked = m]
  BY <1>2 DEF Request, Frame
<1>5. Requests' = [Requests EXCEPT ![t] =
                     Append(SubSeq(@, 1, Len(@) - 1), [top EXCEPT !.asked = m])]
  <2> HIDE DEF f, top, m
  <2> QED BY <1>1, <1>2, <1>4, RequestsOfSetTop
<1>6. \/ m = Top(t).fn
      \/ /\ m \in Mockers /\ Top(t).fn = Original /\ ~Top(t).forwarded
         /\ \E i \in 1..Len(stack[t]) - 1 :
              stack[t][i].session = Top(t).session /\ stack[t][i].adapter = m
  BY <1>1, LookupFinds
<1>7. ASSUME NEW i \in 1..Len(stack[t]) - 1, stack[t][i].session = Top(t).session,
             stack[t][i].adapter = m, m \in Mockers
      PROVE  /\ i \in 1..Len(Requests[t]) - 1
             /\ Requests[t][i].session = top.session /\ Requests[t][i].asked = m
  <2>1. i \in 1..Len(stack[t]) /\ Len(Requests[t]) = Len(stack[t])
    BY <1>1, TopType, TopRequest
  <2>2. Requests[t][i] = Request(stack[t][i])
    BY <1>1, <2>1, TopRequest
  <2>3. stack[t][i].adapter # Real
    BY <1>7, MockersAssumption DEF Words
  <2>4. QED
    BY <1>3, <1>7, <2>1, <2>2, <2>3 DEF Request
<1>8. \/ m = top.at
      \/ /\ m \in Mockers /\ top.at = Original /\ ~top.refused
         /\ \E i \in 1..Len(Requests[t]) - 1 :
              Requests[t][i].session = top.session /\ Requests[t][i].asked = m
  <2> HIDE DEF m, top
  <2> QED BY <1>3, <1>6, <1>7
<1>9. Requests[t] # <<>> /\ top = Requests[t][Len(Requests[t])]
  BY <1>1, TopRequest
<1>10. QED
  <2> HIDE DEF m, top
  <2> QED BY <1>1, <1>3, <1>5, <1>8, <1>9, AbstractAsk

\* A mocker's send hands the request on.
LEMMA ForwardRefines ==
  ASSUME StackInv, NEW t \in Threads, FakeSendForward(t)
  PROVE  Stack!Refuse(t)
<1> DEFINE m == Top(t).fn
           f == NewFrame(last_send[m], Top(t).session, Top(t).follow, TRUE)
           top == Request(Top(t))
<1>1. /\ TypeInv /\ stack \in Stacks /\ Active(t) /\ nesting' = nesting
      /\ m \in Mockers /\ last_send[m] # None /\ SetTop(t, f) /\ Top(t).pc = "forward"
  BY DEF FakeSendForward, OnlyStack, targetVars, Unset, StackInv, CallInv, LockInv, TypeInv
<1>2. Top(t) \in Frame /\ Top(t).adapter = m /\ m # Real /\ Top(t).session \in Sessions
  BY <1>1, TopType, TopFields, MockersAssumption DEF StackInv, Turns, Turn, Words
<1>3. top.asked = m /\ top.at = m /\ top.session = Top(t).session
  BY <1>2 DEF Request
<1>4. Stack!Around(top.at, top.session) = last_send[m]
  <2>1. Len(stack[t]) \in 1..Len(stack[t]) /\ Top(t) = stack[t][Len(stack[t])]
    BY <1>1, TopType DEF Top
  <2>2. Covers(m, Top(t).session)
    BY <1>1, <2>1 DEF StackInv, CallInv, FitInv, FrameFits, Fits, Covers
  <2>3. QED
    BY <1>1, <1>2, <1>3, <2>2, LastSendIsAround DEF StackInv
<1>5. f \in Frame
  BY <1>1, TopFields, NewFrameType DEF TypeInv
<1> DEFINE next == [session |-> top.session, at |-> Stack!Around(top.at, top.session),
                    asked |-> None, refused |-> TRUE]
<1>6. Request(f) = next
  <2>1. Request(f) = [session |-> Top(t).session, at |-> last_send[m], asked |-> None,
                      refused |-> TRUE]
    BY DEF Request, NewFrame
  <2> HIDE DEF f, top
  <2>2. QED
    BY <1>3, <1>4, <2>1
<1>7. Requests' = [Requests EXCEPT ![t] = Append(SubSeq(@, 1, Len(@) - 1), Request(f))]
  <2> HIDE DEF f
  <2> QED BY <1>1, <1>5, RequestsOfSetTop
<1>8. Requests[t] # <<>> /\ top = Requests[t][Len(Requests[t])]
  BY <1>1, TopRequest
<1>9. Requests' = [Requests EXCEPT ![t] = Append(SubSeq(@, 1, Len(@) - 1), next)]
  <2> HIDE DEF f, next
  <2> QED BY <1>6, <1>7
<1>10. top.asked \in Mockers
  BY <1>1, <1>3
<1>11. QED
  <2> HIDE DEF top
  <2> QED BY <1>1, <1>8, <1>9, <1>10, AbstractRefuse

\* A call of a session's send begins.
LEMMA BeginRefines ==
  ASSUME StackInv, NEW t \in Threads, NEW s \in Sessions,
         NEW follow \in BOOLEAN, NEW f, f = NewFrame(SendOf(s), s, follow, FALSE),
         nesting' = nesting,
         \/ Active(t) /\ MayNest(t) /\ Nest(t, f)
         \/ ~Active(t) /\ stack' = [stack EXCEPT ![t] = <<f>>]
  PROVE  Stack!Begin(t, s)
<1> DEFINE r == [session |-> s, at |-> Stack!Innermost(Stack!Covering(s)),
                 asked |-> None, refused |-> FALSE]
<1>1. TypeInv /\ stack \in Stacks /\ f \in Frame
  BY SendOfType, NewFrameType DEF StackInv, CallInv, LockInv, TypeInv
<1>2. Request(f) = r
  <2>1. Request(f) = [session |-> s, at |-> SendOf(s), asked |-> None, refused |-> FALSE]
    BY DEF Request, NewFrame
  <2>2. QED
    BY <1>1, <2>1, SendIsInnermost DEF StackInv
<1>3. Requests' = [Requests EXCEPT ![t] = Append(@, r)]
  <2>1. CASE Active(t) /\ MayNest(t) /\ Nest(t, f)
    <3> HIDE DEF r
    <3> QED BY <1>1, <1>2, <2>1, RequestsOfNest
  <2>2. CASE ~Active(t) /\ stack' = [stack EXCEPT ![t] = <<f>>]
    <3>1. /\ stack'[t] = Append(<<>>, f) /\ stack[t] = <<>>
          /\ \A u \in Threads \ {t} : stack'[u] = stack[u]
      <4>1. stack'[t] = <<f>> /\ \A u \in Threads \ {t} : stack'[u] = stack[u]
        BY <1>1, <2>2 DEF Stacks
      <4>2. stack[t] \in Seq(Frame) /\ ~(Len(stack[t]) > 0)
        BY <1>1, <2>2 DEF Stacks, Active
      <4>3. stack[t] = <<>>
        BY <4>2
      <4>4. Append(<<>>, f) = <<f>>
        OBVIOUS
      <4>5. QED
        BY <4>1, <4>3, <4>4
    <3>2. Image(stack'[t]) = Append(Image(stack[t]), Request(f))
      <4>1. <<>> \in Seq(Frame)
        OBVIOUS
      <4>2. QED
        BY <1>1, <3>1, <4>1, ImageAppend
    <3> HIDE DEF r
    <3>3. QED
      BY <1>2, <3>1, <3>2 DEF Requests
  <2>3. QED
    BY <2>1, <2>2
<1>4. QED
  <2> HIDE DEF r
  <2> QED BY <1>3, AbstractBegin DEF r

\* A call ends.
LEMMA ReturnRefines ==
  ASSUME StackInv, NEW t \in Threads, Active(t), NEW r \in Results \cup {None},
         Return(t, r), nesting' = nesting
  PROVE  Stack!End(t)
<1>1. stack \in Stacks
  BY DEF StackInv, CallInv, LockInv, TypeInv
<1>2. QED
  BY <1>1, RequestsOfReturn, TopRequest, AbstractEnd

\* The innermost call goes on, and the stack of mockers does not see it.
LEMMA SetTopRefines ==
  ASSUME StackInv, NEW t \in Threads, Active(t), NEW f \in Frame, SetTop(t, f),
         f.session = Top(t).session, f.fn = Top(t).fn, f.adapter = Top(t).adapter,
         f.forwarded = Top(t).forwarded, nesting' = nesting
  PROVE  UNCHANGED Stack!vars
<1>1. stack \in Stacks
  BY DEF StackInv, CallInv, LockInv, TypeInv
<1>2. Request(f) = Request(Top(t))
  BY DEF Request
<1>3. Requests' = Requests
  BY <1>1, <1>2, RequestsOfSetTop
<1>4. QED
  BY <1>3, AbstractSame

\* Every step.
LEMMA StepRefines ==
  ASSUME StackInv, PrivateSessions,
         NEW t \in Threads, Progress(t) \/ UserStep(t)
  PROVE  Stack!Next \/ UNCHANGED Stack!vars
<1> USE DEF AdapterDone
<1>1. TypeInv /\ stack \in Stacks /\ (Active(t) => Top(t) \in Frame)
  BY TopType DEF StackInv, CallInv, LockInv, TypeInv
<1>2. ASSUME stack' = stack, nesting' = nesting
      PROVE  UNCHANGED Stack!vars
  <2>1. Requests' = Requests
    BY <1>2 DEF Requests, Image
  <2>2. QED
    BY <1>2, <2>1, AbstractSame
<1>3. CASE FakeSendEnter(t)
  <2> DEFINE f == [Top(t) EXCEPT !.pc = "lookup"]
  <2>1. Active(t) /\ SetTop(t, f) /\ nesting' = nesting
    BY <1>3 DEF FakeSendEnter, targetVars
  <2>2. /\ f \in Frame /\ f.session = Top(t).session /\ f.fn = Top(t).fn
        /\ f.adapter = Top(t).adapter /\ f.forwarded = Top(t).forwarded
    BY <1>1, <2>1 DEF Frame, PCs
  <2> HIDE DEF f
  <2>3. QED
    BY <2>1, <2>2, SetTopRefines
<1>4. CASE AdapterResponds(t) \/ AdapterRedirects(t)
  <2> DEFINE f == Leaving([Top(t) EXCEPT !.served = TRUE], "response")
             g == [Top(t) EXCEPT !.pc = "redirect", !.served = TRUE]
  <2>1. Active(t) /\ (SetTop(t, f) \/ SetTop(t, g)) /\ nesting' = nesting
    BY <1>4 DEF AdapterResponds, AdapterRedirects, OnlyStack, targetVars
  <2>2. /\ f \in Frame /\ f.session = Top(t).session /\ f.fn = Top(t).fn
        /\ f.adapter = Top(t).adapter /\ f.forwarded = Top(t).forwarded
    BY <1>1, <2>1 DEF Frame, PCs, Leaving, Results
  <2>3. /\ g \in Frame /\ g.session = Top(t).session /\ g.fn = Top(t).fn
        /\ g.adapter = Top(t).adapter /\ g.forwarded = Top(t).forwarded
    BY <1>1, <2>1 DEF Frame, PCs
  <2> HIDE DEF f, g
  <2>4. QED
    BY <2>1, <2>2, <2>3, SetTopRefines
<1>5. CASE RedirectsDone(t) \/ \E e \in Results : AdapterRaises(t, e)
  <2>1. PICK r \in Results : SetTop(t, Leaving(Top(t), r))
    BY <1>5 DEF RedirectsDone, AdapterRaises, Results
  <2> DEFINE f == Leaving(Top(t), r)
  <2>2. Active(t) /\ SetTop(t, f) /\ nesting' = nesting
    BY <1>5, <2>1 DEF RedirectsDone, AdapterRaises, OnlyStack, targetVars
  <2>3. /\ f \in Frame /\ f.session = Top(t).session /\ f.fn = Top(t).fn
        /\ f.adapter = Top(t).adapter /\ f.forwarded = Top(t).forwarded
    BY <1>1, <2>2 DEF Frame, PCs, Leaving
  <2> HIDE DEF f
  <2>4. QED
    BY <2>2, <2>3, SetTopRefines
<1>6. ASSUME NEW u \in Threads, CallbackJoins(t, u)
      PROVE  UNCHANGED Stack!vars
  <2> DEFINE f == [Top(t) EXCEPT !.nested = @ + 1]
  <2>1. Active(t) /\ SetTop(t, f) /\ nesting' = nesting /\ Top(t).nested < MaxNested
    BY <1>6 DEF CallbackJoins, InCallback, targetVars
  <2>2. f \in Frame
    BY <1>1, <2>1, TopUpdates
  <2>3. /\ f.session = Top(t).session /\ f.fn = Top(t).fn
        /\ f.adapter = Top(t).adapter /\ f.forwarded = Top(t).forwarded
    BY <1>1, <2>1 DEF Frame
  <2> HIDE DEF f
  <2>4. QED
    BY <2>1, <2>2, <2>3, SetTopRefines
<1>7. CASE FakeSendExit(t)
  <2> DEFINE f == [Top(t) EXCEPT !.pc = "forward"]
  <2>1. Active(t) /\ nesting' = nesting /\ Top(t).result \in Results \cup {None}
    BY <1>1, <1>7, TopFields DEF FakeSendExit, targetVars
  <2>2. /\ f \in Frame /\ f.session = Top(t).session /\ f.fn = Top(t).fn
        /\ f.adapter = Top(t).adapter /\ f.forwarded = Top(t).forwarded
    BY <1>1, <2>1 DEF Frame, PCs
  <2>3. SetTop(t, f) \/ Return(t, Top(t).result)
    BY <1>7 DEF FakeSendExit
  <2> HIDE DEF f
  <2>4. QED
    BY <2>1, <2>2, <2>3, SetTopRefines, ReturnRefines DEF Stack!Next
<1>8. CASE FakeSendTimeout(t) \/ FakeSendForwardNone(t) \/ OriginalReturn(t)
  <2>1. Active(t) /\ Top(t).result \in Results \cup {None} /\ nesting' = nesting
    BY <1>1, <1>8, TopFields DEF FakeSendTimeout, FakeSendForwardNone, OriginalReturn,
       OnlyStack, targetVars
  <2>2. \E r \in Results \cup {None} : Return(t, r)
    BY <1>8, <2>1 DEF FakeSendTimeout, FakeSendForwardNone, OriginalReturn, Results
  <2>3. QED
    BY <2>1, <2>2, ReturnRefines DEF Stack!Next
<1>9. CASE GetAdapter(t)
  BY <1>9, LookupRefines DEF Stack!Next
<1>10. CASE FakeSendForward(t)
  BY <1>10, ForwardRefines DEF Stack!Next
<1>11. CASE FollowRedirect(t)
  <2> PICK s \in Sessions : s = Top(t).session
    BY <1>1, <1>11, TopFields DEF FollowRedirect
  <2>1. /\ Active(t) /\ MayNest(t) /\ nesting' = nesting
        /\ Nest(t, NewFrame(SendOf(s), s, FALSE, FALSE))
    BY <1>11 DEF FollowRedirect, OnlyStack, targetVars
  <2>2. Stack!Begin(t, s)
    BY <2>1, BeginRefines
  <2>3. QED
    BY <2>1, <2>2 DEF Stack!Next
<1>12. ASSUME NEW s \in Sessions, UserSend(t, s) \/ CallbackSend(t, s)
       PROVE  Stack!Next
  <2> DEFINE f == NewFrame(SendOf(s), s, TRUE, FALSE)
  <2>1. /\ nesting' = nesting
        /\ \/ Active(t) /\ MayNest(t) /\ Nest(t, f)
           \/ ~Active(t) /\ stack' = [stack EXCEPT ![t] = <<f>>]
    BY <1>12 DEF UserSend, CallbackSend, InCallback, OnlyStack, targetVars
  <2>2. Stack!Begin(t, s)
    BY <2>1, BeginRefines
  <2>3. QED
    BY <2>2 DEF Stack!Next
<1>13. CASE StartInstall(t)
  <2>1. /\ switching[t] \in Mockers /\ nesting' = Append(nesting, switching[t])
        /\ \A i \in 1..Len(nesting) : nesting[i] # switching[t]
    BY <1>1, <1>13 DEF StartInstall, StackInv, Chain, HasRead, TypeInv
  <2>2. Requests' = Requests
    BY <1>13 DEF StartInstall, Requests, Image
  <2>3. QED
    BY <2>1, <2>2, AbstractStart DEF Stack!Next
<1>14. ASSUME NEW m \in Mockers, StopRestore(t, m)
       PROVE  Stack!Next
  <2>1. nesting # <<>> /\ nesting' = SubSeq(nesting, 1, Len(nesting) - 1)
    BY <1>14 DEF MayStop, StopRestore
  <2>2. Requests' = Requests
    BY <1>14 DEF StopRestore, Requests, Image
  <2>3. QED
    BY <2>1, <2>2, AbstractStop DEF Stack!Next
<1>15. CASE StopClear(t) \/ CallbackResumes(t)
            \/ \E m \in Mockers : StartCapture(t, m) \/ SetRealHttp(t, m)
  BY <1>2, <1>15 DEF StopClear, CallbackResumes, StartCapture, SetRealHttp, targetVars
<1>16. QED
  BY <1>3, <1>4, <1>5, <1>6, <1>7, <1>8, <1>9, <1>10, <1>11, <1>12, <1>13, <1>14, <1>15
     DEF Progress, UserStep

\* The attributes, the lock and the forwarding implement the documentation's stack of
\* mockers: for mockers that one thread starts and stops, innermost first, those of the
\* class at any time and those of a session between its calls, and any number of threads
\* that send through sessions of their own.
THEOREM MockerImplementsMockStack ==
  Unmixed /\ OneStarter /\ QuietSessions /\ PrivateSessions => (Spec => ImplementsMockStack)
<1> SUFFICES ASSUME Unmixed, OneStarter, QuietSessions, PrivateSessions
             PROVE  Spec => ImplementsMockStack
  OBVIOUS
<1>1. Init => Turns
  BY DEF Init, Active, Turns
<1>2. CallInv /\ Turns /\ [Next]_vars => Turns'
  <2> SUFFICES ASSUME CallInv, Turns, [Next]_vars PROVE Turns'
    OBVIOUS
  <2>1. CASE UNCHANGED vars
    BY <2>1 DEF vars, Active, Top, Turns, Turn
  <2>2. ASSUME NEW t \in Threads, Progress(t) \/ UserStep(t)
        PROVE  Turns'
    BY <2>2, TurnsNext DEF CallInv
  <2>3. QED
    BY <2>1, <2>2 DEF Next
<1>3. Init => Stack!Init
  <2> SUFFICES ASSUME Init PROVE Stack!Init
    OBVIOUS
  <2>1. Requests = [t \in Threads |-> <<>>]
    BY DEF Init, Requests, Image
  <2>2. QED
    BY <2>1, AbstractInit DEF Init
<1>4. StackInv /\ [Next]_vars => [Stack!Next]_(Stack!vars)
  <2> SUFFICES ASSUME StackInv, [Next]_vars PROVE Stack!Next \/ UNCHANGED Stack!vars
    OBVIOUS
  <2>1. CASE UNCHANGED vars
    <3>1. Requests' = Requests /\ nesting' = nesting
      BY <2>1 DEF vars, Requests, Image
    <3>2. QED
      BY <3>1, AbstractSame
  <2>2. QED
    BY <2>1, StepRefines DEF Next
<1>5. CallInv /\ (TypeInv /\ Chain) /\ Forwarding /\ Turns => StackInv
  BY DEF StackInv, Forwarding
<1>6. QED
  BY <1>1, <1>2, <1>3, <1>4, <1>5, CallInvHolds, ChainHolds, ForwardingHolds, PTL
     DEF Spec, ImplementsMockStack, Stack!Spec
=============================================================================

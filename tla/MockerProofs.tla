---------------------------- MODULE MockerProofs ----------------------------
(* Theorems about Mocker, for all values of its constants.                 *)
EXTENDS Mocker, SequenceTheorems, FiniteSetTheorems, TLAPS

USE DEF Original, Absent, Override, None, Real, At, InFakeSend

Stacks == [Threads -> Seq(Frame)]

-----------------------------------------------------------------------------
(* What the three ways of changing a stack do to its frames.               *)

\* A new call is a frame.
LEMMA NewFrameType ==
  ASSUME NEW fn \in Functions, NEW s \in Sessions,
         NEW follow \in BOOLEAN, NEW forwarded \in BOOLEAN
  PROVE  NewFrame(fn, s, follow, forwarded) \in Frame
BY BoundsAssumption DEF NewFrame, Frame, PCs, Results

\* A thread that is inside a call has an innermost call, and it is a frame.
LEMMA TopType ==
  ASSUME stack \in Stacks, NEW t \in Threads, Active(t)
  PROVE  /\ Len(stack[t]) \in Nat \ {0}
         /\ Top(t) \in Frame
BY DEF Stacks, Active, Top

\* The callers of the innermost call are the other frames of the stack.
LEMMA CallersType ==
  ASSUME stack \in Stacks, NEW t \in Threads, Active(t)
  PROVE  /\ Callers(t) \in Seq(Frame)
         /\ Len(Callers(t)) = Len(stack[t]) - 1
         /\ \A i \in 1..(Len(stack[t]) - 1) : Callers(t)[i] = stack[t][i]
<1> DEFINE n == Len(stack[t])
<1>1. n \in Nat \ {0} /\ \A i \in 1..(n - 1) : stack[t][i] \in Frame
  BY TopType DEF Stacks
<1>2. /\ SubSeq(stack[t], 1, n - 1) \in Seq(Frame)
      /\ Len(SubSeq(stack[t], 1, n - 1)) = IF 1 <= n - 1 THEN n - 1 - 1 + 1 ELSE 0
      /\ \A i \in 1..(n - 1 - 1 + 1) : SubSeq(stack[t], 1, n - 1)[i] = stack[t][1 + i - 1]
  <2> HIDE DEF n
  <2> QED BY <1>1, SubSeqProperties
<1>3. QED
  BY <1>1, <1>2 DEF Callers

\* SetTop replaces the innermost call and nothing else.
LEMMA SetTopFrames ==
  ASSUME stack \in Stacks, NEW t \in Threads, Active(t),
         NEW f \in Frame, SetTop(t, f)
  PROVE  /\ stack' \in Stacks
         /\ Len(stack'[t]) = Len(stack[t])
         /\ stack'[t][Len(stack[t])] = f
         /\ \A i \in 1..(Len(stack[t]) - 1) : stack'[t][i] = stack[t][i]
         /\ \A u \in Threads \ {t} : stack'[u] = stack[u]
<1>1. stack'[t] = Append(Callers(t), f)
  BY DEF SetTop, Stacks
<1>2. \A u \in Threads \ {t} : stack'[u] = stack[u]
  BY DEF SetTop, Stacks
<1>3. Append(Callers(t), f) \in Seq(Frame)
  BY CallersType
<1>4. stack' \in Stacks
  BY <1>3 DEF SetTop, Stacks
<1>5. QED
  BY <1>1, <1>2, <1>4, CallersType, TopType

\* Nest counts a nested call in the innermost call and puts the callee on top.
LEMMA NestFrames ==
  ASSUME stack \in Stacks, NEW t \in Threads, Active(t), MayNest(t),
         NEW f \in Frame, Nest(t, f)
  PROVE  LET n == Len(stack[t]) IN
         /\ stack' \in Stacks
         /\ Len(stack'[t]) = n + 1
         /\ stack'[t][n + 1] = f
         /\ stack'[t][n] = [Top(t) EXCEPT !.nested = @ + 1]
         /\ \A i \in 1..(n - 1) : stack'[t][i] = stack[t][i]
         /\ \A u \in Threads \ {t} : stack'[u] = stack[u]
<1> DEFINE g == [Top(t) EXCEPT !.nested = @ + 1]
<1>1. g \in Frame
  <2>1. Top(t).nested + 1 \in 0..MaxNested
    BY TopType, BoundsAssumption DEF MayNest, Frame
  <2>2. QED
    BY <2>1, TopType DEF Frame
<1>2. /\ Append(Callers(t), g) \in Seq(Frame)
      /\ Len(Append(Callers(t), g)) = Len(stack[t])
      /\ Append(Callers(t), g)[Len(stack[t])] = g
      /\ \A i \in 1..(Len(stack[t]) - 1) : Append(Callers(t), g)[i] = stack[t][i]
  <2> HIDE DEF g
  <2> QED BY <1>1, CallersType, TopType
<1> DEFINE q == Append(Callers(t), g)
<1>3. stack'[t] = Append(q, f)
  BY DEF Nest, Stacks
<1>4. \A u \in Threads \ {t} : stack'[u] = stack[u]
  BY DEF Nest, Stacks
<1>5. Append(q, f) \in Seq(Frame)
  <2> HIDE DEF q
  <2> QED BY <1>2 DEF q
<1>6. stack' \in Stacks
  BY <1>5 DEF Nest, Stacks
<1>7. QED
  <2> HIDE DEF q
  <2> QED BY <1>2, <1>3, <1>4, <1>6, TopType DEF q

\* Return drops the innermost call; of the others, only a caller that follows
\* redirects can change, and then only its pc and result.
LEMMA ReturnFrames ==
  ASSUME stack \in Stacks, NEW t \in Threads, Active(t),
         NEW r \in Results \cup {None}, Return(t, r)
  PROVE  LET n == Len(stack[t]) IN
         /\ stack' \in Stacks
         /\ Len(stack'[t]) = n - 1
         /\ \A i \in 1..(n - 1) :
              \/ stack'[t][i] = stack[t][i]
              \/ /\ i = n - 1
                 /\ stack[t][i].pc = "redirect"
                 /\ stack'[t][i] = Leaving(stack[t][i], r)
         /\ \A u \in Threads \ {t} : stack'[u] = stack[u]
<1> DEFINE n == Len(stack[t])
<1>1. stack'[t] = Unwound(Callers(t), r)
  BY DEF Return, Stacks
<1>2. \A u \in Threads \ {t} : stack'[u] = stack[u]
  BY DEF Return, Stacks
<1>3. /\ Unwound(Callers(t), r) \in Seq(Frame)
      /\ Len(Unwound(Callers(t), r)) = n - 1
      /\ \A i \in 1..(n - 1) :
              \/ Unwound(Callers(t), r)[i] = stack[t][i]
              \/ /\ i = n - 1
                 /\ stack[t][i].pc = "redirect"
                 /\ Unwound(Callers(t), r)[i] =
                      Leaving(stack[t][i], r)
  <2> DEFINE c == Callers(t)
             g == Leaving(c[n - 1], r)
             caught == n - 1 > 0 /\ r # "response" /\ c[n - 1].pc = "redirect"
  <2>1. /\ c \in Seq(Frame) /\ Len(c) = n - 1 /\ n \in Nat \ {0}
        /\ \A i \in 1..(n - 1) : c[i] = stack[t][i]
    BY CallersType, TopType
  <2>2. Unwound(c, r) = IF caught THEN [c EXCEPT ![n - 1] = g] ELSE c
    BY <2>1 DEF Unwound
  <2>3. CASE caught
    <3>1. n - 1 \in 1..Len(c) /\ c[n - 1] \in Frame
      BY <2>1, <2>3
    <3>2. g \in Frame
      BY <3>1 DEF Frame, PCs, Results, Leaving
    <3>3. /\ c[n - 1] = stack[t][n - 1]
          /\ g = Leaving(stack[t][n - 1], r)
          /\ stack[t][n - 1].pc = "redirect"
      <4>1. n - 1 \in 1..(n - 1)
        BY <2>1, <2>3
      <4>2. c[n - 1] = stack[t][n - 1]
        BY <2>1, <4>1
      <4>3. g = Leaving(stack[t][n - 1], r)
        <5> HIDE DEF c, n
        <5> QED BY <4>2, Zenon
      <4>4. QED
        BY <2>3, <4>2, <4>3
    <3> HIDE DEF g, c, caught, n
    <3>4. /\ [c EXCEPT ![n - 1] = g] \in Seq(Frame)
          /\ Len([c EXCEPT ![n - 1] = g]) = Len(c)
          /\ [c EXCEPT ![n - 1] = g][n - 1] = g
          /\ \A i \in 1..(n - 2) : [c EXCEPT ![n - 1] = g][i] = c[i]
      BY <3>1, <3>2, <2>1
    <3>5. Unwound(c, r) = [c EXCEPT ![n - 1] = g]
      BY <2>2, <2>3
    <3>6. ASSUME NEW i \in 1..(n - 1)
          PROVE  \/ Unwound(c, r)[i] = stack[t][i]
                 \/ /\ i = n - 1
                    /\ stack[t][i].pc = "redirect"
                    /\ Unwound(c, r)[i] = g
      BY <2>1, <3>3, <3>4, <3>5, <3>6
    <3>7. QED
      BY <2>1, <3>3, <3>4, <3>5, <3>6 DEF c, n
  <2>4. CASE ~caught
    BY <2>1, <2>2, <2>4
  <2>5. QED
    BY <2>3, <2>4
<1>4. stack' \in Stacks
  BY <1>3 DEF Return, Stacks
<1>5. QED
  BY <1>1, <1>2, <1>3, <1>4

-----------------------------------------------------------------------------
(* Types.  TypeInv is TypeOK but for two values it leaves open, the lock's *)
(* count below 0 and get_adapter set to None, which need the invariants    *)
(* further down; it is inductive by itself.                                *)

TypeInv ==
  /\ send_attr \in [Sessions \cup {SessionClass} -> Functions \cup {Absent}]
  /\ send_attr[SessionClass] # Absent
  /\ adapter_attr \in [Sessions -> Functions \cup {Absent, Override, None}]
  /\ last_send \in [Mockers -> Functions \cup {None}]
  /\ last_get_adapter \in [Mockers -> Functions \cup {Override, None}]
  /\ real_http \in [Mockers -> BOOLEAN]
  /\ nesting \in Seq(Mockers)
  /\ switching \in [Threads -> Mockers \cup {None}]
  /\ stopping \subseteq Threads
  /\ send_lock \in [owner : Threads \cup {None}, count : Int]
  /\ stack \in Stacks
  /\ joining \in [Threads -> Threads \cup {None}]

\* Looking `send` up always finds a function, on the session or on the class.
LEMMA SendOfType ==
  ASSUME TypeInv, NEW x \in Sessions \cup {SessionClass}
  PROVE  SendOf(x) \in Functions
BY DEF TypeInv, SendOf

\* What the fields of the innermost call hold.
LEMMA TopFields ==
  ASSUME TypeInv, NEW t \in Threads, Active(t)
  PROVE  /\ Top(t).fn \in Functions /\ Top(t).session \in Sessions
         /\ Top(t).follow \in BOOLEAN /\ Top(t).pc \in PCs
         /\ Top(t).result \in Results \cup {None}
BY TopType DEF TypeInv, Frame

\* What each kind of step does to the top call keeps it a frame.
LEMMA TopUpdates ==
  ASSUME TypeInv, NEW t \in Threads, Active(t)
  PROVE  /\ Top(t) \in Frame
         /\ \A p \in PCs : [Top(t) EXCEPT !.pc = p] \in Frame
         /\ \A r \in Results : Leaving(Top(t), r) \in Frame
         /\ Leaving([Top(t) EXCEPT !.served = TRUE], "response") \in Frame
         /\ [Top(t) EXCEPT !.pc = "redirect", !.served = TRUE] \in Frame
         /\ [Top(t) EXCEPT !.pc = "adapter",
               !.adapter = AdapterFrom(GetAdapterOf(Top(t).session))] \in Frame
         /\ Top(t).nested < MaxNested => [Top(t) EXCEPT !.nested = @ + 1] \in Frame
<1>1. Top(t) \in Frame
  BY TopType DEF TypeInv
<1>2. AdapterFrom(GetAdapterOf(Top(t).session)) \in Mockers \cup {None, Real}
  BY DEF AdapterFrom
<1>3. Top(t).nested < MaxNested => Top(t).nested + 1 \in 0..MaxNested
  BY <1>1, BoundsAssumption DEF Frame
<1>4. QED
  BY <1>1, <1>2, <1>3 DEF Frame, PCs, Results, Leaving

\* The stacks stay stacks of frames in every step that is inside a call.
LEMMA ProgressStacks ==
  ASSUME TypeInv, NEW t \in Threads, Progress(t)
  PROVE  stack' \in Stacks
<1>1. CASE FakeSendEnter(t)
  BY <1>1, TopUpdates, SetTopFrames DEF FakeSendEnter, TypeInv, PCs
<1>2. CASE FakeSendTimeout(t)
  BY <1>2, ReturnFrames DEF FakeSendTimeout, TypeInv, Results
<1>3. CASE GetAdapter(t)
  BY <1>3, TopUpdates, SetTopFrames DEF GetAdapter, TypeInv
<1>4. CASE AdapterResponds(t)
  BY <1>4, TopUpdates, SetTopFrames DEF AdapterResponds, AdapterDone, TypeInv
<1>5. CASE AdapterRedirects(t)
  BY <1>5, TopUpdates, SetTopFrames DEF AdapterRedirects, AdapterDone, TypeInv
<1>6. ASSUME NEW e \in Results, AdapterRaises(t, e)
      PROVE  stack' \in Stacks
  BY <1>6, TopUpdates, SetTopFrames DEF AdapterRaises, AdapterDone, TypeInv
<1>7. CASE FollowRedirect(t)
  <2>1. Active(t) /\ MayNest(t) /\ Top(t).session \in Sessions
    BY <1>7, TopFields DEF FollowRedirect
  <2>2. NewFrame(SendOf(Top(t).session), Top(t).session, FALSE, FALSE) \in Frame
    BY <2>1, SendOfType, NewFrameType
  <2>3. QED
    BY <1>7, <2>1, <2>2, NestFrames DEF FollowRedirect, TypeInv
<1>8. CASE RedirectsDone(t)
  BY <1>8, TopUpdates, SetTopFrames DEF RedirectsDone, TypeInv, Results
<1>9. CASE OriginalReturn(t)
  <2>1. Top(t).result \in Results \cup {None}
    BY <1>9, TopFields DEF OriginalReturn
  <2>2. QED
    BY <1>9, <2>1, ReturnFrames DEF OriginalReturn, TypeInv
<1>10. CASE FakeSendExit(t)
  <2>1. Active(t) /\ Top(t).result \in Results \cup {None}
    BY <1>10, TopFields DEF FakeSendExit
  <2>2. CASE Forwards(Top(t))
    BY <1>10, <2>1, <2>2, TopUpdates, SetTopFrames DEF FakeSendExit, TypeInv, PCs
  <2>3. CASE ~Forwards(Top(t))
    BY <1>10, <2>1, <2>3, ReturnFrames DEF FakeSendExit, TypeInv
  <2>4. QED
    BY <2>2, <2>3
<1>11. CASE FakeSendForward(t)
  <2>1. /\ Active(t)
        /\ Top(t).session \in Sessions /\ Top(t).follow \in BOOLEAN
        /\ last_send[Top(t).fn] \in Functions
    <3>1. Active(t) /\ Top(t).fn \in Mockers /\ ~Unset(Top(t).fn)
      BY <1>11 DEF FakeSendForward
    <3>2. QED
      BY <3>1, TopFields DEF TypeInv, Unset
  <2>2. QED
    BY <1>11, <2>1, NewFrameType, SetTopFrames DEF FakeSendForward, TypeInv
<1>12. CASE FakeSendForwardNone(t)
  BY <1>12, ReturnFrames DEF FakeSendForwardNone, TypeInv, Results
<1>13. CASE StartInstall(t) \/ StopClear(t)
  BY <1>13 DEF StartInstall, StopClear, TypeInv
<1>14. CASE CallbackResumes(t)
  BY <1>14 DEF CallbackResumes, TypeInv
<1>15. QED
  BY <1>1, <1>2, <1>3, <1>4, <1>5, <1>6, <1>7, <1>8, <1>9, <1>10, <1>11, <1>12,
     <1>13, <1>14 DEF Progress

\* The stacks stay stacks of frames in every step of the test program.
LEMMA UserStacks ==
  ASSUME TypeInv, NEW t \in Threads, UserStep(t)
  PROVE  stack' \in Stacks
<1>1. ASSUME NEW s \in Sessions, UserSend(t, s)
      PROVE  stack' \in Stacks
  <2> DEFINE f == NewFrame(SendOf(s), s, TRUE, FALSE)
  <2>1. f \in Frame
    BY SendOfType, NewFrameType
  <2>2. <<f>> \in Seq(Frame)
    <3> HIDE DEF f
    <3> QED BY <2>1
  <2>3. QED
    BY <1>1, <2>2 DEF UserSend, TypeInv, Stacks
<1>2. ASSUME NEW s \in Sessions, CallbackSend(t, s)
      PROVE  stack' \in Stacks
  <2>1. NewFrame(SendOf(s), s, TRUE, FALSE) \in Frame
    BY SendOfType, NewFrameType
  <2>2. QED
    BY <1>2, <2>1, NestFrames DEF CallbackSend, InCallback, TypeInv
<1>3. ASSUME NEW u \in Threads, CallbackJoins(t, u)
      PROVE  stack' \in Stacks
  BY <1>3, TopUpdates, SetTopFrames DEF CallbackJoins, InCallback, TypeInv
<1>4. ASSUME NEW m \in Mockers, StartCapture(t, m) \/ StopRestore(t, m) \/ SetRealHttp(t, m)
      PROVE  stack' \in Stacks
  BY <1>4 DEF StartCapture, StopRestore, SetRealHttp, TypeInv
<1>5. QED
  BY <1>1, <1>2, <1>3, <1>4 DEF UserStep

\* TypeInv holds at first.
LEMMA TypeInvInit == Init => TypeInv
BY SessionsAssumption DEF Init, TypeInv, Functions, Stacks

\* Every step keeps TypeInv.
LEMMA TypeInvNext == TypeInv /\ [Next]_vars => TypeInv'
<1> SUFFICES ASSUME TypeInv, [Next]_vars PROVE TypeInv'
  OBVIOUS
<1>1. stack' \in Stacks
  BY ProgressStacks, UserStacks DEF Next, vars, TypeInv
<1>2. CASE UNCHANGED vars
  BY <1>2 DEF TypeInv, vars
<1>3. ASSUME NEW t \in Threads, OnlyStack
      PROVE  TypeInv'
  BY <1>1, <1>3 DEF OnlyStack, targetVars, TypeInv
<1>4. ASSUME NEW t \in Threads, FakeSendEnter(t)
      PROVE  TypeInv'
  <2>1. Top(t).fn \in Functions
    BY <1>4, TopFields DEF FakeSendEnter
  <2>2. send_lock' \in [owner : Threads \cup {None}, count : Int]
    BY <1>4 DEF FakeSendEnter, TypeInv
  <2>3. adapter_attr' \in [Sessions -> Functions \cup {Absent, Override, None}]
    BY <1>4, <2>1 DEF FakeSendEnter, TypeInv
  <2>4. QED
    BY <1>1, <1>4, <2>2, <2>3 DEF FakeSendEnter, targetVars, TypeInv
<1>5. ASSUME NEW t \in Threads, FakeSendExit(t)
      PROVE  TypeInv'
  <2>1. last_get_adapter[Top(t).fn] \in Functions \cup {Override, None}
    BY <1>5 DEF FakeSendExit, TypeInv
  <2>2. adapter_attr' \in [Sessions -> Functions \cup {Absent, Override, None}]
    BY <1>5, <2>1 DEF FakeSendExit, Restored, TypeInv
  <2>3. send_lock' \in [owner : Threads \cup {None}, count : Int]
    BY <1>5 DEF FakeSendExit, Released, TypeInv
  <2>4. QED
    BY <1>1, <1>5, <2>2, <2>3 DEF FakeSendExit, targetVars, TypeInv
<1>6. ASSUME NEW t \in Threads, StartInstall(t)
      PROVE  TypeInv'
  <2>1. switching[t] \in Mockers /\ Target[switching[t]] \in Sessions \cup {SessionClass}
    BY <1>6, MockersAssumption DEF StartInstall, TypeInv
  <2>2. Absent \notin Mockers
    BY MockersAssumption DEF Words
  <2>3. /\ send_attr' \in [Sessions \cup {SessionClass} -> Functions \cup {Absent}]
        /\ send_attr'[SessionClass] # Absent
    BY <1>6, <2>1, <2>2 DEF StartInstall, Patched, TypeInv, Functions
  <2>4. nesting' \in Seq(Mockers)
    BY <1>6, <2>1, AppendProperties DEF StartInstall, TypeInv
  <2>5. QED
    BY <1>1, <1>6, <2>3, <2>4 DEF StartInstall, TypeInv
<1>7. ASSUME NEW t \in Threads, CallbackResumes(t)
      PROVE  TypeInv'
  BY <1>7 DEF CallbackResumes, targetVars, TypeInv
<1>8. ASSUME NEW t \in Threads, NEW u \in Threads, CallbackJoins(t, u)
      PROVE  TypeInv'
  BY <1>1, <1>8 DEF CallbackJoins, targetVars, TypeInv
<1>9. ASSUME NEW t \in Threads, NEW m \in Mockers, StartCapture(t, m)
      PROVE  TypeInv'
  <2>1. Target[m] \in Sessions \cup {SessionClass}
    BY MockersAssumption
  <2>2. PreviousSend(Target[m]) \in Functions
    BY <2>1, SendOfType DEF PreviousSend
  <2>3. PreviousGetAdapter(Target[m]) \in Functions \cup {Override, None}
    BY <2>1 DEF PreviousGetAdapter, GetAdapterOf, ClassGetAdapter, Functions, TypeInv
  <2>4. QED
    BY <1>9, <2>2, <2>3 DEF StartCapture, TypeInv
<1>10. ASSUME NEW t \in Threads, NEW m \in Mockers, StopRestore(t, m)
       PROVE  TypeInv'
  <2>1. last_send[m] \in Functions /\ Target[m] \in Sessions \cup {SessionClass}
    BY <1>10, MockersAssumption DEF MayStop, StopRestore, TypeInv
  <2>2. Absent \notin Functions
    BY MockersAssumption DEF Words, Functions
  <2>3. /\ send_attr' \in [Sessions \cup {SessionClass} -> Functions \cup {Absent}]
        /\ send_attr'[SessionClass] # Absent
    BY <1>10, <2>1, <2>2 DEF MayStop, StopRestore, Unpatched, TypeInv
  <2>4. nesting' \in Seq(Mockers)
    <3>1. nesting \in Seq(Mockers) /\ nesting # <<>>
      BY <1>10 DEF MayStop, StopRestore, TypeInv
    <3>2. \A i \in 1..(Len(nesting) - 1) : nesting[i] \in Mockers
      BY <3>1
    <3>3. SubSeq(nesting, 1, Len(nesting) - 1) \in Seq(Mockers)
      BY <3>1, <3>2, SubSeqProperties
    <3>4. QED
      BY <1>10, <3>3 DEF MayStop, StopRestore
  <2>5. QED
    BY <1>10, <2>3, <2>4 DEF StopRestore, TypeInv
<1>11. ASSUME NEW t \in Threads, NEW m \in Mockers, SetRealHttp(t, m)
       PROVE  TypeInv'
  BY <1>11 DEF SetRealHttp, targetVars, TypeInv
<1>15. ASSUME NEW t \in Threads, StopClear(t)
       PROVE  TypeInv'
  BY <1>15 DEF StopClear, TypeInv
<1>12. ASSUME NEW t \in Threads, Progress(t)
       PROVE  TypeInv'
  BY <1>3, <1>4, <1>5, <1>6, <1>7, <1>12, <1>15 DEF Progress, FakeSendTimeout, GetAdapter,
     AdapterResponds, AdapterRedirects, AdapterRaises, FollowRedirect, RedirectsDone,
     OriginalReturn, FakeSendForward, FakeSendForwardNone
<1>13. ASSUME NEW t \in Threads, UserStep(t)
       PROVE  TypeInv'
  BY <1>3, <1>8, <1>9, <1>10, <1>11, <1>13 DEF UserStep, UserSend, CallbackSend
<1>14. QED
  BY <1>2, <1>12, <1>13 DEF Next

-----------------------------------------------------------------------------
(* The lock.  Its count is the number of frames inside the `with` block,   *)
(* and only the innermost call of a thread can be between two adapters.    *)

Held(t) == {i \in 1..Len(stack[t]) : Holding(stack[t][i])}

\* Every call but a thread's innermost waits for a nested call to return.
CallersWait ==
  \A t \in Threads : \A i \in 1..(Len(stack[t]) - 1) :
    stack[t][i].pc \in {"adapter", "redirect"}

\* The calls of a thread inside the `with` block can be counted.
LEMMA HeldFinite ==
  ASSUME TypeInv, NEW t \in Threads
  PROVE  IsFiniteSet(Held(t)) /\ Cardinality(Held(t)) \in Nat
<1>1. Len(stack[t]) \in Nat
  BY DEF TypeInv, Stacks
<1>2. IsFiniteSet(1..Len(stack[t])) /\ Held(t) \subseteq 1..Len(stack[t])
  BY <1>1, FS_Interval DEF Held
<1>3. QED
  BY <1>2, FS_Subset, FS_CardinalityType

\* Only the owner of the lock has a call inside the `with` block.
LEMMA HoldersOwn ==
  ASSUME TypeInv, LockDiscipline, NEW t \in Threads, NEW i \in 1..Len(stack[t]),
         Holding(stack[t][i])
  PROVE  send_lock.owner = t /\ send_lock.count \in Nat \ {0}
<1>1. i \in Held(t)
  BY DEF Held
<1>2. Cardinality(Held(t)) # 0
  BY <1>1, HeldFinite, FS_EmptySet
<1>3. Cardinality(Held(t)) = IF send_lock.owner = t THEN send_lock.count ELSE 0
  BY DEF LockDiscipline, Held
<1>4. QED
  BY <1>2, <1>3, HeldFinite

\* Steps that touch neither the lock nor the calls that hold it keep the discipline.
LEMMA SameHeld ==
  ASSUME LockDiscipline, send_lock' = send_lock,
         \A u \in Threads : Held(u)' = Held(u)
  PROVE  LockDiscipline'
BY DEF LockDiscipline, Held

\* Replacing the innermost call moves at most that call in or out of the block.
LEMMA SetTopHeld ==
  ASSUME TypeInv, NEW t \in Threads, Active(t), NEW f \in Frame, SetTop(t, f)
  PROVE  /\ \A u \in Threads \ {t} : Held(u)' = Held(u)
         /\ (Holding(f) <=> Holding(Top(t))) => Held(t)' = Held(t)
         /\ (Holding(f) /\ ~Holding(Top(t))) =>
              /\ Held(t)' = Held(t) \cup {Len(stack[t])}
              /\ Len(stack[t]) \notin Held(t)
         /\ (~Holding(f) /\ Holding(Top(t))) =>
              /\ Held(t)' = Held(t) \ {Len(stack[t])}
              /\ Len(stack[t]) \in Held(t)
<1> DEFINE n == Len(stack[t])
<1>1. /\ n \in Nat \ {0} /\ Len(stack'[t]) = n /\ stack'[t][n] = f
      /\ Top(t) = stack[t][n]
      /\ \A i \in 1..(n - 1) : stack'[t][i] = stack[t][i]
      /\ \A u \in Threads \ {t} : stack'[u] = stack[u]
  BY SetTopFrames, TopType DEF TypeInv, Top
<1>2. \A i \in 1..n : i = n \/ i \in 1..(n - 1)
  BY <1>1
<1>3. \A u \in Threads \ {t} : Held(u)' = Held(u)
  BY <1>1 DEF Held
<1>4. Held(t)' = {i \in 1..n : Holding(stack'[t][i])}
  BY <1>1 DEF Held, Holding
<1>5. \A i \in 1..n : Holding(stack'[t][i]) <=>
                        IF i = n THEN Holding(f) ELSE Holding(stack[t][i])
  BY <1>1, <1>2
<1>6. Held(t) = {i \in 1..n : Holding(stack[t][i])} /\ n \in 1..n
  BY <1>1 DEF Held
<1>7. QED
  BY <1>1, <1>3, <1>4, <1>5, <1>6

\* A nested call begins outside the block, and its caller stays where it was.
LEMMA NestHeld ==
  ASSUME TypeInv, NEW t \in Threads, Active(t), MayNest(t),
         NEW f \in Frame, ~Holding(f), Nest(t, f)
  PROVE  \A u \in Threads : Held(u)' = Held(u)
<1> DEFINE n == Len(stack[t])
<1>1. /\ n \in Nat \ {0} /\ Len(stack'[t]) = n + 1 /\ stack'[t][n + 1] = f
      /\ stack'[t][n] = [stack[t][n] EXCEPT !.nested = @ + 1]
      /\ \A i \in 1..(n - 1) : stack'[t][i] = stack[t][i]
      /\ \A u \in Threads \ {t} : stack'[u] = stack[u]
  BY NestFrames, TopType DEF TypeInv, Top
<1>2. stack[t][n] \in Frame
  BY TopType DEF TypeInv, Top
<1>3. Holding(stack'[t][n]) <=> Holding(stack[t][n])
  BY <1>1, <1>2 DEF Holding, Frame
<1>4. \A i \in 1..(n + 1) : i = n + 1 \/ i = n \/ i \in 1..(n - 1)
  BY <1>1
<1>5. \A i \in 1..n : Holding(stack'[t][i]) <=> Holding(stack[t][i])
  BY <1>1, <1>3, <1>4
<1>6. Held(t)' = {i \in 1..(n + 1) : Holding(stack'[t][i])}
  BY <1>1 DEF Held, Holding
<1>7. Held(t)' = Held(t)
  BY <1>1, <1>5, <1>6 DEF Held
<1>8. \A u \in Threads \ {t} : Held(u)' = Held(u)
  BY <1>1 DEF Held
<1>9. QED
  BY <1>7, <1>8

\* A call that ends takes at most itself out of the block.
LEMMA ReturnHeld ==
  ASSUME TypeInv, NEW t \in Threads, Active(t),
         NEW r \in Results \cup {None}, Return(t, r)
  PROVE  /\ \A u \in Threads \ {t} : Held(u)' = Held(u)
         /\ Held(t)' = Held(t) \ {Len(stack[t])}
         /\ Holding(Top(t)) <=> Len(stack[t]) \in Held(t)
<1> DEFINE n == Len(stack[t])
<1>1. stack \in Stacks /\ n \in Nat \ {0}
  BY TopType DEF TypeInv
<1>2. /\ Len(stack'[t]) = n - 1
      /\ \A u \in Threads \ {t} : stack'[u] = stack[u]
  BY <1>1, ReturnFrames
<1>3. \A i \in 1..n : stack[t][i] \in Frame
  BY <1>1 DEF Stacks
<1>4. ASSUME NEW i \in 1..(n - 1)
      PROVE  Holding(stack'[t][i]) <=> Holding(stack[t][i])
  <2>1. stack[t][i] \in Frame
    BY <1>1, <1>3
  <2>2. stack'[t][i] = stack[t][i] \/ (stack[t][i].pc = "redirect" /\ stack'[t][i] = Leaving(stack[t][i], r))
    BY <1>1, ReturnFrames
  <2>3. stack[t][i].pc = "redirect" => (Holding(Leaving(stack[t][i], r)) <=> Holding(stack[t][i]))
    BY <2>1 DEF Holding, Frame, Leaving
  <2>4. QED
    BY <2>2, <2>3
<1>5. Held(t)' = {i \in 1..(n - 1) : Holding(stack'[t][i])}
  BY <1>2 DEF Held, Holding
<1>6. Held(t) = {i \in 1..n : Holding(stack[t][i])}
  BY DEF Held
<1>7. Held(t)' = Held(t) \ {n}
  <2> HIDE DEF n
  <2> QED BY <1>1, <1>4, <1>5, <1>6
<1>8. \A u \in Threads \ {t} : Held(u)' = Held(u)
  BY <1>2 DEF Held
<1>9. Holding(Top(t)) <=> n \in Held(t)
  BY <1>1, <1>6 DEF Top
<1>10. QED
  BY <1>7, <1>8, <1>9

-----------------------------------------------------------------------------
(* The lock's count.                                                       *)

\* Which innermost calls are inside the block.
LEMMA TopHolding ==
  ASSUME TypeInv, NEW t \in Threads, Active(t)
  PROVE  /\ \A p \in PCs :
              Holding([Top(t) EXCEPT !.pc = p]) <=>
                Top(t).fn \in Mockers /\ p \in {"lookup", "adapter", "redirect", "exit"}
         /\ \A r \in Results : Holding(Leaving(Top(t), r)) <=> Top(t).fn \in Mockers
         /\ Holding(Leaving([Top(t) EXCEPT !.served = TRUE], "response"))
              <=> Top(t).fn \in Mockers
         /\ Holding([Top(t) EXCEPT !.pc = "redirect", !.served = TRUE])
              <=> Top(t).fn \in Mockers
         /\ Holding([Top(t) EXCEPT !.pc = "adapter",
                       !.adapter = AdapterFrom(GetAdapterOf(Top(t).session))])
              <=> Top(t).fn \in Mockers
         /\ Holding([Top(t) EXCEPT !.nested = @ + 1]) <=> Holding(Top(t))
<1>1. Top(t) \in Frame
  BY TopUpdates
<1>2. QED
  BY <1>1 DEF Holding, Leaving, Frame

\* The steps that neither take nor release the lock leave the frames inside it.
LEMMA HeldKept ==
  ASSUME TypeInv, NEW t \in Threads,
         \/ FakeSendTimeout(t) \/ GetAdapter(t) \/ AdapterResponds(t)
         \/ AdapterRedirects(t) \/ (\E e \in Results : AdapterRaises(t, e))
         \/ FollowRedirect(t) \/ RedirectsDone(t) \/ OriginalReturn(t)
         \/ FakeSendForward(t) \/ FakeSendForwardNone(t) \/ StartInstall(t) \/ StopClear(t)
         \/ CallbackResumes(t) \/ UserStep(t)
  PROVE  /\ \A u \in Threads : Held(u)' = Held(u)
         /\ send_lock' = send_lock
<1> USE DEF AdapterDone
<1>1. CASE stack' = stack /\ send_lock' = send_lock
  BY <1>1 DEF Held, Holding
<1>2. CASE FakeSendTimeout(t)
  <2>1. Active(t) /\ ~Holding(Top(t)) /\ Return(t, "error")
    BY <1>2 DEF FakeSendTimeout, Holding
  <2>2. QED
    BY <1>2, <2>1, ReturnHeld DEF FakeSendTimeout, OnlyStack, Results
<1>3. CASE GetAdapter(t)
  <2> DEFINE f == [Top(t) EXCEPT !.pc = "adapter",
                   !.adapter = AdapterFrom(GetAdapterOf(Top(t).session))]
  <2>1. Active(t) /\ SetTop(t, f) /\ f \in Frame
    BY <1>3, TopUpdates DEF GetAdapter
  <2>2. Holding(f) <=> Holding(Top(t))
    BY <1>3, TopHolding DEF GetAdapter, Holding
  <2>3. QED
    BY <1>3, <2>1, <2>2, SetTopHeld DEF GetAdapter, OnlyStack
<1>4. CASE AdapterResponds(t)
  <2> DEFINE f == Leaving([Top(t) EXCEPT !.served = TRUE], "response")
  <2>1. Active(t) /\ SetTop(t, f) /\ f \in Frame
    BY <1>4, TopUpdates DEF AdapterResponds
  <2>2. Holding(f) <=> Holding(Top(t))
    BY <1>4, TopHolding DEF AdapterResponds, Holding
  <2>3. QED
    BY <1>4, <2>1, <2>2, SetTopHeld DEF AdapterResponds, OnlyStack
<1>5. CASE AdapterRedirects(t)
  <2> DEFINE f == [Top(t) EXCEPT !.pc = "redirect", !.served = TRUE]
  <2>1. Active(t) /\ SetTop(t, f) /\ f \in Frame
    BY <1>5, TopUpdates DEF AdapterRedirects
  <2>2. Holding(f) <=> Holding(Top(t))
    BY <1>5, TopHolding DEF AdapterRedirects, Holding
  <2>3. QED
    BY <1>5, <2>1, <2>2, SetTopHeld DEF AdapterRedirects, OnlyStack
<1>6. ASSUME NEW e \in Results, AdapterRaises(t, e)
      PROVE  (\A u \in Threads : Held(u)' = Held(u)) /\ send_lock' = send_lock
  <2> DEFINE f == Leaving(Top(t), e)
  <2>1. Active(t) /\ SetTop(t, f) /\ f \in Frame
    BY <1>6, TopUpdates DEF AdapterRaises
  <2>2. Holding(f) <=> Holding(Top(t))
    BY <1>6, TopHolding DEF AdapterRaises, Holding
  <2>3. QED
    BY <1>6, <2>1, <2>2, SetTopHeld DEF AdapterRaises, OnlyStack
<1>7. CASE FollowRedirect(t)
  <2> DEFINE f == NewFrame(SendOf(Top(t).session), Top(t).session, FALSE, FALSE)
  <2>1. Active(t) /\ MayNest(t) /\ Nest(t, f)
    BY <1>7 DEF FollowRedirect
  <2>2. f \in Frame /\ ~Holding(f)
    BY <2>1, TopFields, SendOfType, NewFrameType, MockersAssumption
    DEF NewFrame, Holding, Words
  <2>3. QED
    BY <1>7, <2>1, <2>2, NestHeld DEF FollowRedirect, OnlyStack
<1>8. CASE RedirectsDone(t)
  <2> DEFINE f == Leaving(Top(t), "response")
  <2>1. Active(t) /\ SetTop(t, f) /\ f \in Frame
    BY <1>8, TopUpdates DEF RedirectsDone, Results
  <2>2. Holding(f) <=> Holding(Top(t))
    BY <1>8, TopHolding DEF RedirectsDone, Holding, Results
  <2>3. QED
    BY <1>8, <2>1, <2>2, SetTopHeld DEF RedirectsDone, OnlyStack
<1>9. CASE OriginalReturn(t)
  <2>1. Active(t) /\ ~Holding(Top(t)) /\ Top(t).result \in Results \cup {None}
    BY <1>9, TopFields, MockersAssumption DEF OriginalReturn, Holding, Words
  <2>2. Return(t, Top(t).result) /\ OnlyStack
    BY <1>9 DEF OriginalReturn
  <2>3. QED
    BY <2>1, <2>2, ReturnHeld DEF OnlyStack
<1>10. CASE FakeSendForward(t)
  <2> DEFINE f == NewFrame(last_send[Top(t).fn], Top(t).session, Top(t).follow, TRUE)
  <2>1. Active(t) /\ ~Holding(Top(t)) /\ SetTop(t, f)
    BY <1>10 DEF FakeSendForward, Holding
  <2>2. last_send[Top(t).fn] \in Functions
    BY <1>10, <2>1, TopFields DEF FakeSendForward, Unset, TypeInv
  <2>3. f \in Frame /\ ~Holding(f)
    BY <2>1, <2>2, TopFields, NewFrameType, MockersAssumption DEF NewFrame, Holding, Words
  <2>4. QED
    BY <1>10, <2>1, <2>3, SetTopHeld DEF FakeSendForward, OnlyStack
<1>11. CASE FakeSendForwardNone(t)
  <2>1. Active(t) /\ ~Holding(Top(t)) /\ Return(t, "error")
    BY <1>11 DEF FakeSendForwardNone, Holding
  <2>2. QED
    BY <1>11, <2>1, ReturnHeld DEF FakeSendForwardNone, OnlyStack, Results
<1>12. CASE StartInstall(t) \/ StopClear(t) \/ CallbackResumes(t)
  BY <1>1, <1>12 DEF StartInstall, StopClear, CallbackResumes
<1>13. CASE UserStep(t)
  <2>1. ASSUME NEW s \in Sessions, UserSend(t, s)
        PROVE  (\A u \in Threads : Held(u)' = Held(u)) /\ send_lock' = send_lock
    <3> DEFINE f == NewFrame(SendOf(s), s, TRUE, FALSE)
    <3>1. ~Holding(f)
      BY MockersAssumption DEF NewFrame, Holding, Words
    <3>2. /\ Len(stack[t]) = 0 /\ stack'[t] = <<f>>
          /\ \A u \in Threads \ {t} : stack'[u] = stack[u]
      <4>1. Len(stack[t]) \in Nat
        BY DEF TypeInv, Stacks
      <4>2. ~(Len(stack[t]) > 0) /\ stack' = [stack EXCEPT ![t] = <<f>>]
        BY <2>1 DEF UserSend, Active
      <4> HIDE DEF f
      <4>3. QED
        BY <4>1, <4>2 DEF TypeInv, Stacks
    <3> HIDE DEF f
    <3>3. Held(t) = {} /\ Held(t)' = {}
      BY <3>1, <3>2 DEF Held
    <3>4. \A u \in Threads \ {t} : Held(u)' = Held(u)
      BY <3>2 DEF Held
    <3>5. QED
      BY <2>1, <3>3, <3>4 DEF UserSend, OnlyStack
  <2>2. ASSUME NEW s \in Sessions, CallbackSend(t, s)
        PROVE  (\A u \in Threads : Held(u)' = Held(u)) /\ send_lock' = send_lock
    <3> DEFINE f == NewFrame(SendOf(s), s, TRUE, FALSE)
    <3>1. Active(t) /\ MayNest(t) /\ Nest(t, f)
      BY <2>2 DEF CallbackSend, InCallback
    <3>2. f \in Frame /\ ~Holding(f)
      BY SendOfType, NewFrameType, MockersAssumption DEF NewFrame, Holding, Words
    <3>3. QED
      BY <2>2, <3>1, <3>2, NestHeld DEF CallbackSend, OnlyStack
  <2>3. ASSUME NEW u \in Threads, CallbackJoins(t, u)
        PROVE  (\A v \in Threads : Held(v)' = Held(v)) /\ send_lock' = send_lock
    <3> DEFINE f == [Top(t) EXCEPT !.nested = @ + 1]
    <3>1. Active(t) /\ SetTop(t, f) /\ f \in Frame
      BY <2>3, TopUpdates DEF CallbackJoins, InCallback
    <3>2. Holding(f) <=> Holding(Top(t))
      BY <3>1, TopHolding
    <3>3. QED
      BY <2>3, <3>1, <3>2, SetTopHeld DEF CallbackJoins
  <2>4. ASSUME NEW m \in Mockers, StartCapture(t, m) \/ StopRestore(t, m) \/ SetRealHttp(t, m)
        PROVE  (\A u \in Threads : Held(u)' = Held(u)) /\ send_lock' = send_lock
    BY <1>1, <2>4 DEF StartCapture, StopRestore, SetRealHttp
  <2>5. QED
    BY <1>13, <2>1, <2>2, <2>3, <2>4 DEF UserStep
<1>14. QED
  BY <1>2, <1>3, <1>4, <1>5, <1>6, <1>7, <1>8, <1>9, <1>10, <1>11, <1>12, <1>13

\* LockDiscipline gives the number of calls inside the block.
LEMMA HeldCounted ==
  ASSUME \A u \in Threads :
           Cardinality(Held(u)') = IF send_lock'.owner = u THEN send_lock'.count ELSE 0,
         send_lock'.owner = None <=> send_lock'.count = 0
  PROVE  LockDiscipline'
BY DEF LockDiscipline, Held

\* Every step keeps the lock discipline.
LEMMA LockDisciplineNext ==
  TypeInv /\ LockDiscipline /\ [Next]_vars => LockDiscipline'
<1> SUFFICES ASSUME TypeInv, LockDiscipline, [Next]_vars PROVE LockDiscipline'
  OBVIOUS
<1>1. \A u \in Threads : /\ IsFiniteSet(Held(u)) /\ Cardinality(Held(u)) \in Nat
                         /\ Cardinality(Held(u)) =
                              IF send_lock.owner = u THEN send_lock.count ELSE 0
  BY HeldFinite DEF LockDiscipline, Held
<1>2. ASSUME NEW t \in Threads, FakeSendEnter(t)
      PROVE  LockDiscipline'
  <2> DEFINE n == Len(stack[t])
             f == [Top(t) EXCEPT !.pc = "lookup"]
  <2>1. Active(t) /\ ~Holding(Top(t)) /\ SetTop(t, f) /\ f \in Frame
    BY <1>2, TopUpdates DEF FakeSendEnter, Holding, PCs
  <2>2. Holding(f)
    BY <1>2, <2>1, TopUpdates DEF FakeSendEnter, Holding, Frame
  <2>3. /\ \A u \in Threads \ {t} : Held(u)' = Held(u)
        /\ Held(t)' = Held(t) \cup {n} /\ n \notin Held(t)
    BY <2>1, <2>2, SetTopHeld
  <2>4. Cardinality(Held(t)') = Cardinality(Held(t)) + 1
    BY <1>1, <2>3, FS_AddElement
  <2>5. /\ send_lock.owner = None \/ send_lock.owner = t
        /\ send_lock' = [owner |-> t, count |-> send_lock.count + 1]
    BY <1>2 DEF FakeSendEnter, LockFree
  <2>6. Cardinality(Held(t)) = send_lock.count
    BY <1>1, <2>5, ThreadsAssumption DEF LockDiscipline
  <2>7. \A u \in Threads \ {t} : Cardinality(Held(u)') = 0
    BY <1>1, <2>3, <2>5, ThreadsAssumption
  <2>8. send_lock.count \in Nat
    BY <1>1, <2>6
  <2>9. QED
    BY <2>4, <2>5, <2>6, <2>7, <2>8, HeldCounted, ThreadsAssumption
<1>3. ASSUME NEW t \in Threads, FakeSendExit(t)
      PROVE  LockDiscipline'
  <2> DEFINE n == Len(stack[t])
             f == [Top(t) EXCEPT !.pc = "forward"]
  <2>1. /\ Active(t) /\ Holding(Top(t)) /\ f \in Frame
        /\ Top(t).result \in Results \cup {None}
    BY <1>3, TopUpdates, TopFields DEF FakeSendExit, Holding, PCs
  <2>2. /\ \A u \in Threads \ {t} : Held(u)' = Held(u)
        /\ Held(t)' = Held(t) \ {n} /\ n \in Held(t)
    <3>1. CASE SetTop(t, f)
      <4>1. ~Holding(f)
        BY <2>1 DEF Holding, Frame
      <4>2. QED
        BY <2>1, <3>1, <4>1, SetTopHeld
    <3>2. CASE Return(t, Top(t).result)
      BY <2>1, <3>2, ReturnHeld
    <3>3. QED
      BY <1>3, <3>1, <3>2 DEF FakeSendExit
  <2>3. n \in 1..Len(stack[t]) /\ Holding(stack[t][n])
    BY <2>2 DEF Held
  <2>4. send_lock.owner = t /\ send_lock.count \in Nat \ {0}
    <3> HIDE DEF n
    <3> QED BY <2>3, HoldersOwn
  <2>5. Cardinality(Held(t)') = send_lock.count - 1
    <3> HIDE DEF n
    <3> QED BY <1>1, <2>2, <2>4, FS_RemoveElement
  <2>6. \A u \in Threads \ {t} : Cardinality(Held(u)') = 0
    BY <1>1, <2>2, <2>4
  <2>7. send_lock' = [owner |-> IF send_lock.count = 1 THEN None ELSE t,
                      count |-> send_lock.count - 1]
    BY <1>3, <2>4 DEF FakeSendExit, Released
  <2>8. QED
    BY <2>4, <2>5, <2>6, <2>7, HeldCounted, ThreadsAssumption
<1>4. CASE UNCHANGED vars
  BY <1>4 DEF vars, LockDiscipline, Holding
<1>5. ASSUME NEW t \in Threads, Progress(t) \/ UserStep(t),
             ~FakeSendEnter(t), ~FakeSendExit(t)
      PROVE  LockDiscipline'
  BY <1>5, HeldKept, SameHeld DEF Progress
<1>6. QED
  BY <1>2, <1>3, <1>4, <1>5 DEF Next

\* Nobody holds the lock at first.
LEMMA LockDisciplineInit == Init => LockDiscipline
<1> SUFFICES ASSUME Init PROVE LockDiscipline
  OBVIOUS
<1>1. \A t \in Threads : {i \in 1..Len(stack[t]) : Holding(stack[t][i])} = {}
  BY DEF Init
<1>2. QED
  BY <1>1, FS_EmptySet, ThreadsAssumption DEF Init, LockDiscipline

-----------------------------------------------------------------------------
(* The adapter a fake send finds.                                          *)

Isolated(attr, f) ==
  f.fn \in Mockers =>
    /\ f.pc = "lookup" => attr[f.session] = f.fn
    /\ f.pc \in {"adapter", "redirect", "exit"} => f.adapter = f.fn

\* Where a step of t takes the function of a new top call from.
Source(t, fn) ==
  \/ Active(t) /\ fn = Top(t).fn
  \/ \E s \in Sessions : fn = SendOf(s)
  \/ \E m \in Mockers : last_send[m] # None /\ fn = last_send[m]

\* How a step of t changes the stacks, and what it may put on top.
Shape(t) ==
  \/ stack' = stack /\ adapter_attr' = adapter_attr
  \/ \E f \in Frame : /\ ~Active(t) /\ stack' = [stack EXCEPT ![t] = <<f>>]
                      /\ Isolated(adapter_attr', f) /\ Source(t, f.fn)
  \/ \E f \in Frame : /\ Active(t) /\ SetTop(t, f)
                      /\ Isolated(adapter_attr', f) /\ Source(t, f.fn)
  \/ \E f \in Frame : /\ Active(t) /\ MayNest(t) /\ Nest(t, f)
                      /\ Top(t).pc \in {"adapter", "redirect"}
                      /\ Isolated(adapter_attr', f) /\ Source(t, f.fn)
  \/ \E r \in Results \cup {None} : Active(t) /\ Return(t, r)

\* A new call has not come to the adapter yet.
LEMMA NewFrameIsolated ==
  ASSUME NEW fn \in Functions, NEW s, NEW follow, NEW forwarded
  PROVE  \A attr : Isolated(attr, NewFrame(fn, s, follow, forwarded))
BY MockersAssumption DEF Isolated, NewFrame, Words

\* MockIsolation says of the innermost call that it is isolated.
LEMMA TopIsolated ==
  ASSUME TypeInv, MockIsolation, NEW t \in Threads, Active(t)
  PROVE  Isolated(adapter_attr, Top(t))
<1>1. Len(stack[t]) \in 1..Len(stack[t])
  BY TopType DEF TypeInv
<1>2. QED
  BY <1>1 DEF MockIsolation, Isolated, Top

\* Every step of a thread changes the stacks in one of the ways of Shape.
LEMMA StepShape ==
  ASSUME TypeInv, MockIsolation, NEW t \in Threads, Progress(t) \/ UserStep(t)
  PROVE  Shape(t)
<1> USE DEF AdapterDone
<1>1. CASE FakeSendEnter(t)
  <2> DEFINE f == [Top(t) EXCEPT !.pc = "lookup"]
  <2>1. Active(t) /\ SetTop(t, f) /\ f \in Frame /\ Top(t) \in Frame
    BY <1>1, TopUpdates DEF FakeSendEnter, PCs
  <2>2. f.pc = "lookup" /\ f.fn = Top(t).fn /\ f.session = Top(t).session
    BY <2>1 DEF Frame
  <2>3. adapter_attr'[Top(t).session] = Top(t).fn
    BY <1>1, <2>1, TopFields DEF FakeSendEnter, TypeInv
  <2>4. Isolated(adapter_attr', f)
    BY <2>2, <2>3 DEF Isolated
  <2>5. QED
    BY <2>1, <2>2, <2>4 DEF Shape, Source
<1>2. CASE FakeSendTimeout(t)
  BY <1>2 DEF FakeSendTimeout, Shape, Results
<1>3. CASE GetAdapter(t)
  <2> DEFINE a == AdapterFrom(GetAdapterOf(Top(t).session))
             f == [Top(t) EXCEPT !.pc = "adapter", !.adapter = a]
  <2>1. Active(t) /\ Top(t).pc = "lookup" /\ SetTop(t, f) /\ f \in Frame /\ Top(t) \in Frame
    BY <1>3, TopUpdates DEF GetAdapter
  <2>2. f.pc = "adapter" /\ f.fn = Top(t).fn /\ f.adapter = a
    BY <2>1 DEF Frame
  <2>3. Top(t).fn \in Mockers => a = Top(t).fn
    BY <2>1, TopIsolated, MockersAssumption DEF Isolated, AdapterFrom, GetAdapterOf, Words
  <2>4. Isolated(adapter_attr', f)
    BY <2>2, <2>3 DEF Isolated
  <2>5. QED
    BY <2>1, <2>2, <2>4 DEF Shape, Source
<1>4. CASE AdapterResponds(t)
  <2> DEFINE f == Leaving([Top(t) EXCEPT !.served = TRUE], "response")
  <2>1. Active(t) /\ Top(t).pc = "adapter" /\ SetTop(t, f) /\ f \in Frame /\ Top(t) \in Frame
    BY <1>4, TopUpdates DEF AdapterResponds
  <2>2. f.pc = "exit" /\ f.fn = Top(t).fn /\ f.adapter = Top(t).adapter
    BY <2>1 DEF Frame, Leaving
  <2>3. Isolated(adapter_attr', f)
    BY <2>1, <2>2, TopIsolated DEF Isolated
  <2>4. QED
    BY <2>1, <2>2, <2>3 DEF Shape, Source, NewFrame
<1>5. CASE AdapterRedirects(t)
  <2> DEFINE f == [Top(t) EXCEPT !.pc = "redirect", !.served = TRUE]
  <2>1. Active(t) /\ Top(t).pc = "adapter" /\ SetTop(t, f) /\ f \in Frame /\ Top(t) \in Frame
    BY <1>5, TopUpdates DEF AdapterRedirects
  <2>2. f.pc = "redirect" /\ f.fn = Top(t).fn /\ f.adapter = Top(t).adapter
    BY <2>1 DEF Frame
  <2>3. Isolated(adapter_attr', f)
    BY <2>1, <2>2, TopIsolated DEF Isolated
  <2>4. QED
    BY <2>1, <2>2, <2>3 DEF Shape, Source, NewFrame
<1>6. ASSUME NEW e \in Results, AdapterRaises(t, e)
      PROVE  Shape(t)
  <2> DEFINE f == Leaving(Top(t), e)
  <2>1. Active(t) /\ Top(t).pc = "adapter" /\ SetTop(t, f) /\ f \in Frame /\ Top(t) \in Frame
    BY <1>6, TopUpdates DEF AdapterRaises
  <2>2. f.pc = "exit" /\ f.fn = Top(t).fn /\ f.adapter = Top(t).adapter
    BY <2>1 DEF Frame, Leaving
  <2>3. Isolated(adapter_attr', f)
    BY <2>1, <2>2, TopIsolated DEF Isolated
  <2>4. QED
    BY <2>1, <2>2, <2>3 DEF Shape, Source, NewFrame
<1>7. CASE FollowRedirect(t)
  <2> DEFINE f == NewFrame(SendOf(Top(t).session), Top(t).session, FALSE, FALSE)
  <2>1. Active(t) /\ MayNest(t) /\ Nest(t, f) /\ Top(t).pc = "redirect"
    BY <1>7 DEF FollowRedirect
  <2>2. f \in Frame /\ Isolated(adapter_attr', f)
    BY <2>1, TopFields, SendOfType, NewFrameType, NewFrameIsolated
  <2>3. Source(t, f.fn)
    BY <2>1, TopFields DEF Source, NewFrame
  <2>4. QED
    BY <2>1, <2>2, <2>3 DEF Shape
<1>8. CASE RedirectsDone(t)
  <2> DEFINE f == Leaving(Top(t), "response")
  <2>1. Active(t) /\ Top(t).pc = "redirect" /\ SetTop(t, f) /\ f \in Frame /\ Top(t) \in Frame
    BY <1>8, TopUpdates DEF RedirectsDone, Results
  <2>2. f.pc = "exit" /\ f.fn = Top(t).fn /\ f.adapter = Top(t).adapter
    BY <2>1 DEF Frame, Leaving
  <2>3. Isolated(adapter_attr', f)
    BY <2>1, <2>2, TopIsolated DEF Isolated
  <2>4. QED
    BY <2>1, <2>2, <2>3 DEF Shape, Source, NewFrame
<1>9. CASE OriginalReturn(t)
  BY <1>9, TopFields DEF OriginalReturn, Shape
<1>10. CASE FakeSendExit(t)
  <2> DEFINE f == [Top(t) EXCEPT !.pc = "forward"]
  <2>1. Active(t) /\ f \in Frame /\ Top(t) \in Frame /\ Top(t).result \in Results \cup {None}
    BY <1>10, TopUpdates, TopFields DEF FakeSendExit, PCs
  <2>2. f.pc = "forward" /\ f.fn = Top(t).fn
    BY <2>1 DEF Frame
  <2>3. Isolated(adapter_attr', f)
    BY <2>2 DEF Isolated
  <2>4. SetTop(t, f) \/ Return(t, Top(t).result)
    BY <1>10 DEF FakeSendExit
  <2>5. QED
    BY <2>1, <2>2, <2>3, <2>4 DEF Shape, Source
<1>11. CASE FakeSendForward(t)
  <2> DEFINE f == NewFrame(last_send[Top(t).fn], Top(t).session, Top(t).follow, TRUE)
  <2>1. Active(t) /\ SetTop(t, f)
    BY <1>11 DEF FakeSendForward
  <2>2. last_send[Top(t).fn] \in Functions
    BY <1>11, <2>1 DEF FakeSendForward, Unset, TypeInv
  <2>3. f \in Frame /\ Isolated(adapter_attr', f)
    BY <2>1, <2>2, TopFields, NewFrameType, NewFrameIsolated
  <2>4. Source(t, f.fn)
    BY <1>11 DEF FakeSendForward, Unset, Source, NewFrame
  <2>5. QED
    BY <2>1, <2>3, <2>4 DEF Shape
<1>12. CASE FakeSendForwardNone(t)
  BY <1>12 DEF FakeSendForwardNone, Shape, Results
<1>13. CASE StartInstall(t) \/ StopClear(t) \/ CallbackResumes(t)
  BY <1>13 DEF StartInstall, StopClear, CallbackResumes, Shape
<1>14. ASSUME NEW s \in Sessions, UserSend(t, s)
       PROVE  Shape(t)
  <2> DEFINE f == NewFrame(SendOf(s), s, TRUE, FALSE)
  <2>1. f \in Frame /\ Isolated(adapter_attr', f)
    BY SendOfType, NewFrameType, NewFrameIsolated
  <2>2. QED
    BY <1>14, <2>1 DEF UserSend, Shape, Source, NewFrame
<1>15. ASSUME NEW s \in Sessions, CallbackSend(t, s)
       PROVE  Shape(t)
  <2> DEFINE f == NewFrame(SendOf(s), s, TRUE, FALSE)
  <2>1. f \in Frame /\ Isolated(adapter_attr', f)
    BY SendOfType, NewFrameType, NewFrameIsolated
  <2>2. QED
    BY <1>15, <2>1 DEF CallbackSend, InCallback, Shape, Source, NewFrame
<1>16. ASSUME NEW u \in Threads, CallbackJoins(t, u)
       PROVE  Shape(t)
  <2> DEFINE f == [Top(t) EXCEPT !.nested = @ + 1]
  <2>1. Active(t) /\ Top(t).pc = "adapter" /\ SetTop(t, f) /\ f \in Frame /\ Top(t) \in Frame
    BY <1>16, TopUpdates DEF CallbackJoins, InCallback
  <2>2. f.pc = "adapter" /\ f.fn = Top(t).fn /\ f.adapter = Top(t).adapter
    BY <2>1 DEF Frame
  <2>3. Isolated(adapter_attr', f)
    BY <2>1, <2>2, TopIsolated DEF Isolated
  <2>4. QED
    BY <2>1, <2>2, <2>3 DEF Shape, Source, NewFrame
<1>17. ASSUME NEW m \in Mockers, StartCapture(t, m) \/ StopRestore(t, m) \/ SetRealHttp(t, m)
       PROVE  Shape(t)
  BY <1>17 DEF StartCapture, StopRestore, SetRealHttp, Shape
<1>18. QED
  BY <1>1, <1>2, <1>3, <1>4, <1>5, <1>6, <1>7, <1>8, <1>9, <1>10, <1>11, <1>12,
     <1>13, <1>14, <1>15, <1>16, <1>17 DEF Progress, UserStep

\* Every step keeps callers waiting.
LEMMA CallersWaitNext ==
  ASSUME TypeInv, CallersWait, NEW t \in Threads, Shape(t)
  PROVE  CallersWait'
<1>1. stack \in Stacks /\ Len(stack[t]) \in Nat
  BY DEF TypeInv, Stacks
<1>2. SUFFICES /\ \A u \in Threads \ {t} : stack'[u] = stack[u]
               /\ \A i \in 1..(Len(stack'[t]) - 1) :
                    stack'[t][i].pc \in {"adapter", "redirect"}
  BY DEF CallersWait
<1>3. CASE stack' = stack
  BY <1>3 DEF CallersWait
<1>4. ASSUME NEW f \in Frame, stack' = [stack EXCEPT ![t] = <<f>>]
      PROVE  /\ \A u \in Threads \ {t} : stack'[u] = stack[u]
             /\ \A i \in 1..(Len(stack'[t]) - 1) :
                  stack'[t][i].pc \in {"adapter", "redirect"}
  <2>1. stack'[t] = <<f>> /\ \A u \in Threads \ {t} : stack'[u] = stack[u]
    BY <1>1, <1>4 DEF Stacks
  <2>2. Len(stack'[t]) = 1
    BY <2>1
  <2>3. QED
    BY <2>1, <2>2
<1>5. ASSUME NEW f \in Frame, Active(t), SetTop(t, f)
      PROVE  /\ \A u \in Threads \ {t} : stack'[u] = stack[u]
             /\ \A i \in 1..(Len(stack'[t]) - 1) :
                  stack'[t][i].pc \in {"adapter", "redirect"}
  BY <1>1, <1>5, SetTopFrames DEF CallersWait
<1>6. ASSUME NEW f \in Frame, Active(t), MayNest(t), Nest(t, f),
             Top(t).pc \in {"adapter", "redirect"}
      PROVE  /\ \A u \in Threads \ {t} : stack'[u] = stack[u]
             /\ \A i \in 1..(Len(stack'[t]) - 1) :
                  stack'[t][i].pc \in {"adapter", "redirect"}
  <2> DEFINE n == Len(stack[t])
  <2>1. /\ Len(stack'[t]) = n + 1
        /\ stack'[t][n] = [Top(t) EXCEPT !.nested = @ + 1]
        /\ \A i \in 1..(n - 1) : stack'[t][i] = stack[t][i]
        /\ \A u \in Threads \ {t} : stack'[u] = stack[u]
    BY <1>1, <1>6, NestFrames
  <2>2. Top(t) \in Frame
    BY <1>1, <1>6, TopType
  <2>3. stack'[t][n].pc \in {"adapter", "redirect"}
    BY <1>6, <2>1, <2>2 DEF Frame
  <2>4. ASSUME NEW i \in 1..(Len(stack'[t]) - 1)
        PROVE  stack'[t][i].pc \in {"adapter", "redirect"}
    <3>1. i = n \/ i \in 1..(n - 1)
      BY <1>1, <2>1
    <3>2. CASE i = n
      BY <2>3, <3>2
    <3>3. CASE i \in 1..(n - 1)
      BY <2>1, <3>3 DEF CallersWait
    <3>4. QED
      BY <3>1, <3>2, <3>3
  <2>5. QED
    BY <2>1, <2>4
<1>7. ASSUME NEW r \in Results \cup {None}, Active(t), Return(t, r)
      PROVE  /\ \A u \in Threads \ {t} : stack'[u] = stack[u]
             /\ \A i \in 1..(Len(stack'[t]) - 1) :
                  stack'[t][i].pc \in {"adapter", "redirect"}
  <2> DEFINE n == Len(stack[t])
  <2>1. /\ Len(stack'[t]) = n - 1
        /\ \A u \in Threads \ {t} : stack'[u] = stack[u]
    BY <1>1, <1>7, ReturnFrames
  <2>2. ASSUME NEW i \in 1..(n - 1 - 1)
        PROVE  stack'[t][i] = stack[t][i] /\ i \in 1..(n - 1)
    <3>1. i \in 1..(n - 1) /\ i # n - 1
      BY <1>1
    <3>2. QED
      BY <1>1, <1>7, <3>1, ReturnFrames
  <2>3. QED
    BY <2>1, <2>2 DEF CallersWait
<1>8. QED
  BY <1>3, <1>4, <1>5, <1>6, <1>7 DEF Shape

\* Every step keeps mock isolation: only the lock's owner assigns get_adapter.
LEMMA MockIsolationNext ==
  ASSUME TypeInv, LockDiscipline, CallersWait, MockIsolation,
         NEW t \in Threads, Progress(t) \/ UserStep(t), Shape(t)
  PROVE  MockIsolation'
<1>1. stack \in Stacks /\ Len(stack[t]) \in Nat
  BY DEF TypeInv, Stacks
<1>2. \A u \in Threads : \A i \in 1..Len(stack[u]) : Isolated(adapter_attr, stack[u][i])
  BY DEF MockIsolation, Isolated
<1>3. SUFFICES \A u \in Threads : \A i \in 1..Len(stack'[u]) :
                 Isolated(adapter_attr', stack'[u][i])
  BY DEF MockIsolation, Isolated
<1>4. \/ adapter_attr' = adapter_attr
      \/ FakeSendEnter(t)
      \/ FakeSendExit(t)
  BY DEF Progress, UserStep, OnlyStack, FakeSendTimeout, GetAdapter, AdapterResponds,
     AdapterRedirects, AdapterRaises, FollowRedirect, RedirectsDone, OriginalReturn,
     FakeSendForward, FakeSendForwardNone, StartInstall, StopClear, CallbackResumes, UserSend,
     CallbackSend, CallbackJoins, StartCapture, StopRestore, SetRealHttp
\* A waiting caller has had its lookup, so adapter_attr no longer matters to it.
<1>5. ASSUME NEW i \in 1..(Len(stack[t]) - 1)
      PROVE  Isolated(adapter_attr', stack[t][i])
  <2>1. stack[t][i].pc \in {"adapter", "redirect"} /\ i \in 1..Len(stack[t])
    BY <1>1 DEF CallersWait
  <2>2. QED
    BY <1>2, <2>1 DEF Isolated
\* Another thread that waits for its lookup owns the lock: t cannot interfere.
<1>6. ASSUME NEW u \in Threads \ {t}, NEW i \in 1..Len(stack[u])
      PROVE  Isolated(adapter_attr', stack[u][i])
  <2>1. CASE adapter_attr' = adapter_attr
    BY <1>2, <2>1
  <2>2. CASE ~(stack[u][i].fn \in Mockers /\ stack[u][i].pc = "lookup")
    BY <1>2, <2>2 DEF Isolated
  <2>3. CASE stack[u][i].fn \in Mockers /\ stack[u][i].pc = "lookup"
    <3>1. send_lock.owner = u
      BY <2>3, HoldersOwn DEF Holding
    <3>2. ~FakeSendEnter(t)
      BY <3>1, ThreadsAssumption DEF FakeSendEnter, LockFree
    <3>3. ~FakeSendExit(t)
      <4>1. SUFFICES ASSUME FakeSendExit(t) PROVE FALSE
        OBVIOUS
      <4>2. Len(stack[t]) \in 1..Len(stack[t]) /\ Holding(stack[t][Len(stack[t])])
        BY <1>1, <4>1 DEF FakeSendExit, Active, Top, Holding
      <4>3. send_lock.owner = t
        BY <4>2, HoldersOwn
      <4>4. QED
        BY <3>1, <4>3
    <3>4. QED
      BY <1>4, <2>1, <3>2, <3>3
  <2>4. QED
    BY <2>2, <2>3
<1>7. CASE stack' = stack /\ adapter_attr' = adapter_attr
  BY <1>2, <1>7
<1>8. ASSUME NEW f \in Frame, stack' = [stack EXCEPT ![t] = <<f>>],
             Isolated(adapter_attr', f)
      PROVE  \A u \in Threads : \A i \in 1..Len(stack'[u]) :
               Isolated(adapter_attr', stack'[u][i])
  <2>1. stack'[t] = <<f>> /\ \A u \in Threads \ {t} : stack'[u] = stack[u]
    BY <1>1, <1>8 DEF Stacks
  <2>2. \A i \in 1..Len(stack'[t]) : stack'[t][i] = f
    BY <2>1
  <2>3. QED
    BY <1>6, <1>8, <2>1, <2>2
<1>9. ASSUME NEW f \in Frame, Active(t), SetTop(t, f), Isolated(adapter_attr', f)
      PROVE  \A u \in Threads : \A i \in 1..Len(stack'[u]) :
               Isolated(adapter_attr', stack'[u][i])
  <2> DEFINE n == Len(stack[t])
  <2>1. /\ Len(stack'[t]) = n /\ stack'[t][n] = f
        /\ \A i \in 1..(n - 1) : stack'[t][i] = stack[t][i]
        /\ \A u \in Threads \ {t} : stack'[u] = stack[u]
    BY <1>1, <1>9, SetTopFrames
  <2>2. ASSUME NEW i \in 1..Len(stack'[t])
        PROVE  Isolated(adapter_attr', stack'[t][i])
    <3>1. i = n \/ i \in 1..(n - 1)
      BY <1>1, <2>1
    <3>2. QED
      BY <1>5, <1>9, <2>1, <3>1
  <2>3. QED
    BY <1>6, <2>1, <2>2
<1>10. ASSUME NEW f \in Frame, Active(t), MayNest(t), Nest(t, f),
              Top(t).pc \in {"adapter", "redirect"}, Isolated(adapter_attr', f)
       PROVE  \A u \in Threads : \A i \in 1..Len(stack'[u]) :
                Isolated(adapter_attr', stack'[u][i])
  <2> DEFINE n == Len(stack[t])
             g == [Top(t) EXCEPT !.nested = @ + 1]
  <2>1. /\ Len(stack'[t]) = n + 1 /\ stack'[t][n + 1] = f /\ stack'[t][n] = g
        /\ \A i \in 1..(n - 1) : stack'[t][i] = stack[t][i]
        /\ \A u \in Threads \ {t} : stack'[u] = stack[u]
    BY <1>1, <1>10, NestFrames
  <2>2. Isolated(adapter_attr', g)
    <3>1. Top(t) \in Frame /\ Isolated(adapter_attr, Top(t))
      BY <1>1, <1>10, TopType, TopIsolated
    <3>2. g.pc = Top(t).pc /\ g.fn = Top(t).fn /\ g.adapter = Top(t).adapter
      BY <3>1 DEF Frame
    <3>3. QED
      BY <1>10, <3>1, <3>2 DEF Isolated
  <2>3. ASSUME NEW i \in 1..Len(stack'[t])
        PROVE  Isolated(adapter_attr', stack'[t][i])
    <3>1. i = n + 1 \/ i = n \/ i \in 1..(n - 1)
      BY <1>1, <2>1
    <3> HIDE DEF g
    <3>2. QED
      BY <1>5, <1>10, <2>1, <2>2, <3>1
  <2>4. QED
    BY <1>6, <2>1, <2>3
<1>11. ASSUME NEW r \in Results \cup {None}, Active(t), Return(t, r)
       PROVE  \A u \in Threads : \A i \in 1..Len(stack'[u]) :
                Isolated(adapter_attr', stack'[u][i])
  <2> DEFINE n == Len(stack[t])
  <2>1. /\ Len(stack'[t]) = n - 1
        /\ \A u \in Threads \ {t} : stack'[u] = stack[u]
    BY <1>1, <1>11, ReturnFrames
  <2>2. ASSUME NEW i \in 1..(n - 1)
        PROVE  Isolated(adapter_attr', stack'[t][i])
    <3>1. \/ stack'[t][i] = stack[t][i]
          \/ stack[t][i].pc = "redirect" /\ stack'[t][i] = Leaving(stack[t][i], r)
      BY <1>1, <1>11, ReturnFrames
    <3>2. CASE stack'[t][i] = stack[t][i]
      BY <1>5, <3>2
    <3>3. CASE stack[t][i].pc = "redirect" /\ stack'[t][i] = Leaving(stack[t][i], r)
      <4>1. i \in 1..Len(stack[t])
        BY <1>1
      <4>2. stack[t][i] \in Frame /\ Isolated(adapter_attr, stack[t][i])
        BY <1>1, <1>2, <4>1 DEF Stacks
      <4>3. QED
        BY <3>3, <4>2 DEF Leaving, Frame, Isolated
    <3>4. QED
      BY <3>1, <3>2, <3>3
  <2>3. QED
    BY <1>6, <2>1, <2>2
<1>12. QED
  BY <1>7, <1>8, <1>9, <1>10, <1>11 DEF Shape

-----------------------------------------------------------------------------
(* What start() has read.  A mocker whose functions are reachable, from an *)
(* attribute, from another mocker or from a running call, has been started *)
(* at least once, so its _last_get_adapter is a function.                  *)

Captured == {Original} \cup {m \in Mockers : last_get_adapter[m] # None}

CapturedInv ==
  /\ \A s \in Sessions : adapter_attr[s] # None
  /\ \A x \in Sessions \cup {SessionClass} : send_attr[x] \in Captured \cup {Absent}
  /\ \A m \in Mockers :
       last_send[m] # None => last_send[m] \in Captured /\ m \in Captured
  /\ \A t \in Threads : switching[t] \in Captured \cup {None}
  /\ \A t \in Threads : \A i \in 1..Len(stack[t]) : stack[t][i].fn \in Captured

\* Nothing that was read by start() is forgotten.
LEMMA CapturedGrows ==
  ASSUME TypeInv, CapturedInv, NEW t \in Threads, Progress(t) \/ UserStep(t)
  PROVE  Captured \subseteq Captured'
<1>1. CASE last_get_adapter' = last_get_adapter
  BY <1>1 DEF Captured
<1>2. ASSUME NEW m \in Mockers, StartCapture(t, m)
      PROVE  Captured \subseteq Captured'
  <2>1. Target[m] # SessionClass => Target[m] \in Sessions
    BY MockersAssumption
  <2>2. PreviousGetAdapter(Target[m]) # None
    BY <2>1 DEF CapturedInv, PreviousGetAdapter, GetAdapterOf, ClassGetAdapter
  <2>3. last_get_adapter' =
          [last_get_adapter EXCEPT ![m] = PreviousGetAdapter(Target[m])]
    BY <1>2 DEF StartCapture
  <2>4. QED
    BY <2>2, <2>3 DEF Captured, TypeInv
<1>3. QED
  BY <1>1, <1>2 DEF Progress, UserStep, OnlyStack, targetVars, FakeSendEnter,
     FakeSendTimeout, GetAdapter, AdapterResponds, AdapterRedirects, AdapterRaises,
     FollowRedirect, RedirectsDone, OriginalReturn, FakeSendExit, FakeSendForward,
     FakeSendForwardNone, StartInstall, StopClear, CallbackResumes, UserSend, CallbackSend,
     CallbackJoins, StopRestore, SetRealHttp

\* The mocker that start() reads for has a get_adapter to put back from then on.
LEMMA CaptureCaptures ==
  ASSUME TypeInv, CapturedInv, NEW t \in Threads, NEW m \in Mockers, StartCapture(t, m)
  PROVE  m \in Captured'
<1>1. Target[m] # SessionClass => Target[m] \in Sessions
  BY MockersAssumption
<1>2. PreviousGetAdapter(Target[m]) # None
  BY <1>1 DEF CapturedInv, PreviousGetAdapter, GetAdapterOf, ClassGetAdapter
<1>3. last_get_adapter' =
        [last_get_adapter EXCEPT ![m] = PreviousGetAdapter(Target[m])]
  BY DEF StartCapture
<1>4. QED
  BY <1>2, <1>3 DEF Captured, TypeInv

\* Every send that can be called belongs to a captured mocker or to requests.
LEMMA SendOfCaptured ==
  ASSUME TypeInv, CapturedInv, NEW x \in Sessions \cup {SessionClass}
  PROVE  SendOf(x) \in Captured
BY DEF TypeInv, CapturedInv, SendOf

\* The calls on the stacks keep to captured functions.
LEMMA StacksCaptured ==
  ASSUME TypeInv, CapturedInv, NEW t \in Threads, Shape(t)
  PROVE  \A u \in Threads : \A i \in 1..Len(stack'[u]) : stack'[u][i].fn \in Captured
<1> DEFINE P == \A u \in Threads : \A i \in 1..Len(stack'[u]) :
                  stack'[u][i].fn \in Captured
<1>1. stack \in Stacks /\ Len(stack[t]) \in Nat
  BY DEF TypeInv, Stacks
<1>2. \A u \in Threads : \A i \in 1..Len(stack[u]) : stack[u][i].fn \in Captured
  BY DEF CapturedInv
<1>3. Active(t) => Top(t) \in Frame /\ Top(t).fn \in Captured
  BY <1>1, <1>2, TopType DEF Top
<1>4. \A fn : Source(t, fn) => fn \in Captured
  BY <1>3, SendOfCaptured DEF Source, CapturedInv
<1>5. CASE stack' = stack
  BY <1>2, <1>5
<1>6. ASSUME NEW f \in Frame, stack' = [stack EXCEPT ![t] = <<f>>], f.fn \in Captured
      PROVE  P
  <2>1. stack'[t] = <<f>> /\ \A u \in Threads \ {t} : stack'[u] = stack[u]
    BY <1>1, <1>6 DEF Stacks
  <2>2. \A i \in 1..Len(stack'[t]) : stack'[t][i] = f
    BY <2>1
  <2>3. QED
    BY <1>2, <1>6, <2>1, <2>2
<1>7. ASSUME NEW f \in Frame, Active(t), SetTop(t, f), f.fn \in Captured
      PROVE  P
  <2> DEFINE n == Len(stack[t])
  <2>1. /\ Len(stack'[t]) = n /\ stack'[t][n] = f
        /\ \A i \in 1..(n - 1) : stack'[t][i] = stack[t][i]
        /\ \A u \in Threads \ {t} : stack'[u] = stack[u]
    BY <1>1, <1>7, SetTopFrames
  <2>2. ASSUME NEW i \in 1..Len(stack'[t])
        PROVE  stack'[t][i].fn \in Captured
    <3>1. i = n \/ (i \in 1..(n - 1) /\ i \in 1..Len(stack[t]))
      BY <1>1, <2>1
    <3>2. QED
      BY <1>2, <1>7, <2>1, <3>1
  <2>3. QED
    BY <1>2, <2>1, <2>2
<1>8. ASSUME NEW f \in Frame, Active(t), MayNest(t), Nest(t, f), f.fn \in Captured
      PROVE  P
  <2> DEFINE n == Len(stack[t])
             g == [Top(t) EXCEPT !.nested = @ + 1]
  <2>1. /\ Len(stack'[t]) = n + 1 /\ stack'[t][n + 1] = f /\ stack'[t][n] = g
        /\ \A i \in 1..(n - 1) : stack'[t][i] = stack[t][i]
        /\ \A u \in Threads \ {t} : stack'[u] = stack[u]
    BY <1>1, <1>8, NestFrames
  <2>2. g.fn \in Captured
    BY <1>3, <1>8 DEF Frame
  <2>3. ASSUME NEW i \in 1..Len(stack'[t])
        PROVE  stack'[t][i].fn \in Captured
    <3>1. i = n + 1 \/ i = n \/ (i \in 1..(n - 1) /\ i \in 1..Len(stack[t]))
      BY <1>1, <2>1
    <3> HIDE DEF g
    <3>2. QED
      BY <1>2, <1>8, <2>1, <2>2, <3>1
  <2>4. QED
    BY <1>2, <2>1, <2>3
<1>9. ASSUME NEW r \in Results \cup {None}, Active(t), Return(t, r)
      PROVE  P
  <2> DEFINE n == Len(stack[t])
  <2>1. /\ Len(stack'[t]) = n - 1
        /\ \A u \in Threads \ {t} : stack'[u] = stack[u]
    BY <1>1, <1>9, ReturnFrames
  <2>2. ASSUME NEW i \in 1..(n - 1)
        PROVE  stack'[t][i].fn \in Captured
    <3>1. i \in 1..Len(stack[t])
      BY <1>1
    <3>2. stack[t][i] \in Frame /\ stack[t][i].fn \in Captured
      BY <1>1, <1>2, <3>1 DEF Stacks
    <3>3. stack'[t][i] = stack[t][i] \/ stack'[t][i] = Leaving(stack[t][i], r)
      BY <1>1, <1>9, ReturnFrames
    <3>4. QED
      BY <3>2, <3>3 DEF Leaving, Frame
  <2>3. QED
    BY <1>2, <2>1, <2>2
<1>10. QED
  BY <1>4, <1>5, <1>6, <1>7, <1>8, <1>9 DEF Shape

\* Every step keeps CapturedInv.
LEMMA CapturedNext ==
  ASSUME TypeInv, CapturedInv, NEW t \in Threads, Progress(t) \/ UserStep(t), Shape(t)
  PROVE  CapturedInv'
<1>1. Captured \subseteq Captured'
  BY CapturedGrows
<1>2. \A s \in Sessions : adapter_attr'[s] # None
  <2>1. CASE adapter_attr' = adapter_attr
    BY <2>1 DEF CapturedInv
  <2>2. CASE FakeSendEnter(t)
    <3>1. Top(t).fn # None
      BY <2>2, MockersAssumption DEF FakeSendEnter, Words
    <3>2. QED
      BY <2>2, <3>1 DEF FakeSendEnter, CapturedInv, TypeInv
  <2>3. CASE FakeSendExit(t)
    <3>1. Active(t) /\ Top(t).fn \in Mockers
      BY <2>3 DEF FakeSendExit
    <3>2. Top(t).fn \in Captured
      BY <3>1, TopType DEF CapturedInv, TypeInv, Top
    <3>3. last_get_adapter[Top(t).fn] # None
      BY <3>1, <3>2, MockersAssumption DEF Captured, Words
    <3>4. QED
      BY <2>3, <3>3 DEF FakeSendExit, Restored, CapturedInv, TypeInv
  <2>4. QED
    BY <2>1, <2>2, <2>3 DEF Progress, UserStep, OnlyStack, FakeSendTimeout, GetAdapter,
       AdapterResponds, AdapterRedirects, AdapterRaises, FollowRedirect, RedirectsDone,
       OriginalReturn, FakeSendForward, FakeSendForwardNone, StartInstall,
       StopClear, CallbackResumes, UserSend, CallbackSend, CallbackJoins, StartCapture, StopRestore,
       SetRealHttp
<1>3. CASE UNCHANGED targetVars
  BY <1>1, <1>2, <1>3, StacksCaptured DEF targetVars, CapturedInv
<1>4. CASE StartInstall(t)
  <2>1. switching[t] \in Captured /\ Target[switching[t]] \in Sessions \cup {SessionClass}
    BY <1>4, MockersAssumption DEF StartInstall, CapturedInv, TypeInv
  <2>2. \A x \in Sessions \cup {SessionClass} : send_attr'[x] \in Captured \cup {Absent}
    BY <1>4, <2>1 DEF StartInstall, Patched, CapturedInv, TypeInv
  <2>3. \A u \in Threads : switching'[u] \in Captured \cup {None}
    BY <1>4 DEF StartInstall, CapturedInv, TypeInv
  <2>4. last_send' = last_send
    BY <1>4 DEF StartInstall
  <2>5. QED
    BY <1>1, <1>2, <2>2, <2>3, <2>4, StacksCaptured DEF CapturedInv
<1>5. ASSUME NEW m \in Mockers, StartCapture(t, m)
      PROVE  CapturedInv'
  <2>1. PreviousSend(Target[m]) \in Captured
    BY MockersAssumption, SendOfCaptured DEF PreviousSend
  <2>2. \A n \in Mockers :
          last_send'[n] # None => last_send'[n] \in Captured' /\ n \in Captured'
    BY <1>1, <1>5, <2>1, CaptureCaptures DEF StartCapture, CapturedInv, TypeInv
  <2>3. \A u \in Threads : switching'[u] \in Captured' \cup {None}
    <3>1. switching' = [switching EXCEPT ![t] = m] /\ m \in Captured'
      BY <1>5, CaptureCaptures DEF StartCapture
    <3>2. QED
      BY <1>1, <3>1 DEF CapturedInv, TypeInv
  <2>4. send_attr' = send_attr
    BY <1>5 DEF StartCapture
  <2>5. QED
    BY <1>1, <1>2, <2>2, <2>3, <2>4, StacksCaptured DEF CapturedInv
<1>6. ASSUME NEW m \in Mockers, StopRestore(t, m)
      PROVE  CapturedInv'
  <2>1. last_send[m] \in Captured /\ Target[m] \in Sessions \cup {SessionClass}
    BY <1>6, MockersAssumption DEF MayStop, StopRestore, CapturedInv, TypeInv
  <2>2. \A x \in Sessions \cup {SessionClass} : send_attr'[x] \in Captured \cup {Absent}
    BY <1>6, <2>1 DEF MayStop, StopRestore, Unpatched, CapturedInv, TypeInv
  <2>3. \A u \in Threads : switching'[u] \in Captured \cup {None}
    BY <1>6 DEF MayStop, StopRestore, CapturedInv, TypeInv
  <2>4. last_send' = last_send
    BY <1>6 DEF StopRestore
  <2>5. QED
    BY <1>1, <1>2, <2>2, <2>3, <2>4, StacksCaptured DEF CapturedInv
<1>7. CASE StopClear(t)
  <2>1. \A n \in Mockers : last_send'[n] # None => last_send'[n] = last_send[n]
    BY <1>7 DEF StopClear, TypeInv
  <2>2. \A u \in Threads : switching'[u] \in Captured \cup {None}
    BY <1>7 DEF StopClear, CapturedInv, TypeInv
  <2>3. send_attr' = send_attr
    BY <1>7 DEF StopClear
  <2>4. QED
    BY <1>1, <1>2, <2>1, <2>2, <2>3, StacksCaptured DEF CapturedInv
<1>8. QED
  BY <1>3, <1>4, <1>5, <1>6, <1>7 DEF Progress, UserStep, OnlyStack, targetVars, FakeSendEnter,
     FakeSendTimeout, GetAdapter, AdapterResponds, AdapterRedirects, AdapterRaises,
     FollowRedirect, RedirectsDone, OriginalReturn, FakeSendExit, FakeSendForward,
     FakeSendForwardNone, CallbackResumes, UserSend, CallbackSend, CallbackJoins,
     SetRealHttp

-----------------------------------------------------------------------------
\* The inductive invariant behind the lock's promise.
LockInv == TypeInv /\ LockDiscipline /\ CallersWait /\ MockIsolation

\* LockInv holds in every reachable state.
LEMMA LockInvHolds == Spec => []LockInv
<1>1. Init => LockInv
  <2> SUFFICES ASSUME Init PROVE LockInv
    OBVIOUS
  <2>1. CallersWait /\ MockIsolation
    BY DEF Init, CallersWait, MockIsolation
  <2>2. QED
    BY <2>1, TypeInvInit, LockDisciplineInit DEF LockInv
<1>2. LockInv /\ [Next]_vars => LockInv'
  <2> SUFFICES ASSUME LockInv, [Next]_vars PROVE LockInv'
    OBVIOUS
  <2>1. TypeInv' /\ LockDiscipline'
    BY TypeInvNext, LockDisciplineNext DEF LockInv
  <2>2. CASE UNCHANGED vars
    BY <2>1, <2>2 DEF LockInv, vars, CallersWait, MockIsolation
  <2>3. ASSUME NEW t \in Threads, Progress(t) \/ UserStep(t)
        PROVE  CallersWait' /\ MockIsolation'
    BY <2>3, StepShape, CallersWaitNext, MockIsolationNext DEF LockInv
  <2>4. QED
    BY <2>1, <2>2, <2>3 DEF Next, LockInv
<1>3. QED
  BY <1>1, <1>2, PTL DEF Spec

\* A send of a mocker always finds that mocker's adapter, for any number of
\* threads, sessions and mockers and any nesting of calls: what the lock in
\* _fake_send is there to guarantee.
THEOREM MockIsolationHolds == Spec => []MockIsolation
BY LockInvHolds, PTL DEF LockInv

\* The recursion count of _send_lock is the number of calls inside the `with`
\* block, all of them the owner's: the lock is released as often as it is taken,
\* whichever way a call ends.
THEOREM LockDisciplineHolds == Spec => []LockDiscipline
BY LockInvHolds, PTL DEF LockInv

\* CapturedInv holds in every reachable state.
LEMMA CapturedInvHolds == Spec => []CapturedInv
<1>1. Init => CapturedInv
  BY DEF Init, CapturedInv, Captured
<1>2. LockInv /\ CapturedInv /\ [Next]_vars => CapturedInv'
  <2> SUFFICES ASSUME LockInv, CapturedInv, [Next]_vars PROVE CapturedInv'
    OBVIOUS
  <2>1. CASE UNCHANGED vars
    BY <2>1 DEF vars, CapturedInv, Captured
  <2>2. ASSUME NEW t \in Threads, Progress(t) \/ UserStep(t)
        PROVE  CapturedInv'
    BY <2>2, StepShape, CapturedNext DEF LockInv
  <2>3. QED
    BY <2>1, <2>2 DEF Next
<1>3. QED
  BY LockInvHolds, <1>1, <1>2, PTL DEF Spec

\* Every variable keeps to the values it is declared with: in particular no mocker
\* ever puts back a get_adapter that its start() has not read, and the lock is
\* never released more often than it was taken.
THEOREM TypeCorrect == Spec => []TypeOK
<1>1. LockInv /\ CapturedInv => TypeOK
  <2> SUFFICES ASSUME LockInv, CapturedInv PROVE TypeOK
    OBVIOUS
  <2>1. send_lock.count \in Nat
    <3>1. CASE send_lock.owner \in Threads
      <4>1. Cardinality(Held(send_lock.owner)) = send_lock.count
        BY <3>1 DEF LockInv, LockDiscipline, Held
      <4>2. QED
        BY <3>1, <4>1, HeldFinite DEF LockInv
    <3>2. CASE send_lock.owner = None
      BY <3>2 DEF LockInv, LockDiscipline
    <3>3. QED
      BY <3>1, <3>2 DEF LockInv, TypeInv
  <2>2. send_lock \in [owner : Threads \cup {None}, count : Nat]
    BY <2>1 DEF LockInv, TypeInv
  <2>3. adapter_attr \in [Sessions -> Functions \cup {Absent, Override}]
    BY DEF LockInv, TypeInv, CapturedInv
  <2>4. QED
    BY <2>2, <2>3 DEF LockInv, TypeInv, TypeOK, Stacks
<1>2. QED
  BY <1>1, LockInvHolds, CapturedInvHolds, PTL
=============================================================================

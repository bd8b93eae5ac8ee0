---------------------------- MODULE NestingProofs ----------------------------
(* Theorems about mockers that nest, and about the sessions they mock, for *)
(* all values of the constants of Mocker.                                  *)
EXTENDS MockerProofs, SequenceFacts

USE DEF Original, Absent, Override, None, Real, At, InFakeSend

-----------------------------------------------------------------------------
(* The call that a step puts on top of a stack: the innermost call, with   *)
(* the adapter it has looked up; a call of some session's send; or the     *)
(* send that the innermost call forwards to.  Only a mocker's adapter      *)
(* raises _RunRealHTTP ("run_real"), and only the send of the requests     *)
(* package passes it on.                                                   *)

Continues(t, f) ==
  /\ Active(t) /\ f.fn = Top(t).fn /\ f.session = Top(t).session
  /\ f.forwarded = Top(t).forwarded
  /\ \/ f.adapter = Top(t).adapter
     \/ At(t, "lookup") /\ f.adapter = AdapterFrom(GetAdapterOf(f.session))
  /\ f.result = "run_real" => Top(t).result = "run_real" \/ f.adapter \in Mockers

Begins(t, f) ==
  /\ f.fn = SendOf(f.session) /\ f.adapter = None /\ ~f.forwarded /\ f.result = None
  /\ f.session \in Uses[t] \/ (Active(t) /\ f.session = Top(t).session)

ForwardsTo(t, f) ==
  /\ At(t, "forward") /\ Top(t).fn \in Mockers /\ f.session = Top(t).session
  /\ last_send[Top(t).fn] # None /\ f.fn = last_send[Top(t).fn] /\ f.adapter = None
  /\ f.forwarded /\ f.result = None

Places(t) ==
  \/ stack' = stack
  \/ \E f \in Frame : /\ ~Active(t) /\ Begins(t, f)
                      /\ stack' = [stack EXCEPT ![t] = <<f>>]
  \/ \E f \in Frame : Active(t) /\ (Continues(t, f) \/ ForwardsTo(t, f)) /\ SetTop(t, f)
  \/ \E f \in Frame : /\ Active(t) /\ MayNest(t) /\ Begins(t, f) /\ Nest(t, f)
                      /\ At(t, "redirect") \/ t \in Callbacks
  \/ \E r \in Results \cup {None} :
       /\ Active(t) /\ Return(t, r)
       /\ r = "run_real" => Top(t).fn = Original /\ Top(t).result = "run_real"

\* A new call of a session's send.
LEMMA NewFrameBegins ==
  ASSUME TypeInv, NEW t \in Threads, NEW s \in Sessions, NEW follow \in BOOLEAN,
         s \in Uses[t] \/ (Active(t) /\ s = Top(t).session)
  PROVE  LET f == NewFrame(SendOf(s), s, follow, FALSE) IN f \in Frame /\ Begins(t, f)
<1>1. SendOf(s) \in Functions
  BY SendOfType
<1>2. NewFrame(SendOf(s), s, follow, FALSE) \in Frame
  BY <1>1, NewFrameType
<1>3. QED
  BY <1>2 DEF NewFrame, Begins

\* Every step places such a call, or drops the innermost one.
LEMMA StepPlaces ==
  ASSUME TypeInv, NEW t \in Threads, Progress(t) \/ UserStep(t)
  PROVE  Places(t)
<1> USE DEF AdapterDone
<1>1. CASE FakeSendEnter(t) \/ RedirectsDone(t)
  <2> DEFINE f == [Top(t) EXCEPT !.pc = "lookup"]
             g == Leaving(Top(t), "response")
  <2>1. Active(t) /\ f \in Frame /\ g \in Frame /\ Top(t) \in Frame
    BY <1>1, TopUpdates DEF FakeSendEnter, RedirectsDone, PCs, Results
  <2>2. Continues(t, f) /\ Continues(t, g)
    BY <2>1 DEF Continues, Frame, Leaving
  <2>3. SetTop(t, f) \/ SetTop(t, g)
    BY <1>1 DEF FakeSendEnter, RedirectsDone
  <2>4. QED
    BY <2>1, <2>2, <2>3 DEF Places
<1>2. CASE FakeSendTimeout(t) \/ FakeSendForwardNone(t)
  BY <1>2 DEF FakeSendTimeout, FakeSendForwardNone, Places, Results
<1>3. CASE GetAdapter(t)
  <2> DEFINE f == [Top(t) EXCEPT !.pc = "adapter",
                     !.adapter = AdapterFrom(GetAdapterOf(Top(t).session))]
  <2>1. Active(t) /\ SetTop(t, f) /\ f \in Frame /\ Top(t) \in Frame
    BY <1>3, TopUpdates DEF GetAdapter
  <2>2. Continues(t, f)
    BY <1>3, <2>1 DEF Continues, Frame, GetAdapter
  <2>3. QED
    BY <2>1, <2>2 DEF Places
<1>4. CASE AdapterResponds(t) \/ AdapterRedirects(t)
  <2> DEFINE f == Leaving([Top(t) EXCEPT !.served = TRUE], "response")
             g == [Top(t) EXCEPT !.pc = "redirect", !.served = TRUE]
  <2>1. Active(t) /\ f \in Frame /\ g \in Frame /\ Top(t) \in Frame
    BY <1>4, TopUpdates DEF AdapterResponds, AdapterRedirects
  <2>2. Continues(t, f) /\ Continues(t, g)
    BY <2>1 DEF Continues, Frame, Leaving
  <2>3. SetTop(t, f) \/ SetTop(t, g)
    BY <1>4 DEF AdapterResponds, AdapterRedirects
  <2>4. QED
    BY <2>1, <2>2, <2>3 DEF Places
<1>5. ASSUME NEW e \in Results, AdapterRaises(t, e)
      PROVE  Places(t)
  <2> DEFINE f == Leaving(Top(t), e)
  <2>1. Active(t) /\ SetTop(t, f) /\ f \in Frame /\ Top(t) \in Frame
    BY <1>5, TopUpdates DEF AdapterRaises
  <2>2. e = "run_real" => Top(t).adapter \in Mockers
    BY <1>5 DEF AdapterRaises
  <2>3. /\ f.fn = Top(t).fn /\ f.session = Top(t).session /\ f.forwarded = Top(t).forwarded
        /\ f.adapter = Top(t).adapter /\ f.result = e
    BY <2>1 DEF Frame, Leaving
  <2>4. Continues(t, f)
    BY <2>1, <2>2, <2>3 DEF Continues
  <2>5. QED
    BY <2>1, <2>4 DEF Places
<1>6. CASE FollowRedirect(t)
  <2>1. Active(t) /\ MayNest(t) /\ Top(t).session \in Sessions /\ At(t, "redirect")
    BY <1>6, TopFields DEF FollowRedirect
  <2>2. Nest(t, NewFrame(SendOf(Top(t).session), Top(t).session, FALSE, FALSE))
    BY <1>6 DEF FollowRedirect
  <2>3. QED
    BY <2>1, <2>2, NewFrameBegins DEF Places
<1>7. CASE OriginalReturn(t)
  BY <1>7, TopFields DEF OriginalReturn, Places
<1>8. CASE FakeSendExit(t)
  <2> DEFINE f == [Top(t) EXCEPT !.pc = "forward"]
  <2>1. Active(t) /\ f \in Frame /\ Top(t) \in Frame /\ Top(t).result \in Results \cup {None}
    BY <1>8, TopUpdates, TopFields DEF FakeSendExit, PCs
  <2>2. Continues(t, f)
    BY <2>1 DEF Continues, Frame
  <2>3. SetTop(t, f) \/ (Return(t, Top(t).result) /\ Top(t).result # "run_real")
    BY <1>8 DEF FakeSendExit, Forwards
  <2>4. QED
    BY <2>1, <2>2, <2>3 DEF Places
<1>9. CASE FakeSendForward(t)
  <2> DEFINE f == NewFrame(last_send[Top(t).fn], Top(t).session, Top(t).follow, TRUE)
  <2>1. /\ Active(t) /\ SetTop(t, f) /\ last_send[Top(t).fn] \in Functions
        /\ At(t, "forward") /\ Top(t).fn \in Mockers /\ last_send[Top(t).fn] # None
    BY <1>9 DEF FakeSendForward, Unset, TypeInv
  <2>2. f \in Frame
    BY <2>1, TopFields, NewFrameType
  <2>3. ForwardsTo(t, f)
    BY <2>1 DEF ForwardsTo, NewFrame
  <2>4. QED
    BY <2>1, <2>2, <2>3 DEF Places
<1>10. ASSUME NEW s \in Sessions, UserSend(t, s)
       PROVE  Places(t)
  <2>1. /\ ~Active(t) /\ s \in Uses[t]
        /\ stack' = [stack EXCEPT ![t] = <<NewFrame(SendOf(s), s, TRUE, FALSE)>>]
    BY <1>10 DEF UserSend
  <2>2. QED
    BY <2>1, NewFrameBegins DEF Places
<1>11. ASSUME NEW s \in Sessions, CallbackSend(t, s)
       PROVE  Places(t)
  <2>1. /\ Active(t) /\ s \in Uses[t] /\ MayNest(t) /\ t \in Callbacks
        /\ Nest(t, NewFrame(SendOf(s), s, TRUE, FALSE))
    BY <1>11 DEF CallbackSend, InCallback
  <2>2. QED
    BY <2>1, NewFrameBegins DEF Places
<1>12. ASSUME NEW u \in Threads, CallbackJoins(t, u)
       PROVE  Places(t)
  <2> DEFINE f == [Top(t) EXCEPT !.nested = @ + 1]
  <2>1. Active(t) /\ SetTop(t, f) /\ f \in Frame /\ Top(t) \in Frame
    BY <1>12, TopUpdates DEF CallbackJoins, InCallback
  <2>2. Continues(t, f)
    BY <2>1 DEF Continues, Frame
  <2>3. QED
    BY <2>1, <2>2 DEF Places
<1>13. QED
  BY <1>1, <1>2, <1>3, <1>4, <1>5, <1>6, <1>7, <1>8, <1>9, <1>10, <1>11, <1>12
     DEF Progress, UserStep, StartInstall, StopClear, CallbackResumes, StartCapture, StopRestore,
         SetRealHttp, Places

\* What all frames of a stack have, they keep if the call that a step places has it
\* too, and if counting a nested call or leaving does not take it away.
LEMMA FramesStay ==
  ASSUME TypeInv, NEW t \in Threads, Places(t), NEW S,
         \A i \in 1..Len(stack[t]) : stack[t][i] \in S,
         \A f \in Frame : Begins(t, f) \/ Continues(t, f) \/ ForwardsTo(t, f) => f \in S,
         Active(t) /\ MayNest(t) => [Top(t) EXCEPT !.nested = @ + 1] \in S,
         \A f \in Frame \cap S : \A r \in Results \cup {None} : Leaving(f, r) \in S
  PROVE  \A i \in 1..Len(stack'[t]) : stack'[t][i] \in S
<1>1. stack \in Stacks /\ Len(stack[t]) \in Nat
  BY DEF TypeInv, Stacks
<1>2. CASE stack' = stack
  BY <1>2
<1>3. ASSUME NEW f \in Frame, Begins(t, f), stack' = [stack EXCEPT ![t] = <<f>>]
      PROVE  \A i \in 1..Len(stack'[t]) : stack'[t][i] \in S
  <2>1. stack'[t] = <<f>>
    BY <1>1, <1>3 DEF Stacks
  <2>2. f \in S
    BY <1>3
  <2>3. QED
    BY <2>1, <2>2
<1>4. ASSUME NEW f \in Frame, Active(t), Continues(t, f) \/ ForwardsTo(t, f), SetTop(t, f)
      PROVE  \A i \in 1..Len(stack'[t]) : stack'[t][i] \in S
  <2> DEFINE n == Len(stack[t])
  <2>1. /\ Len(stack'[t]) = n /\ stack'[t][n] = f
        /\ \A i \in 1..(n - 1) : stack'[t][i] = stack[t][i]
    BY <1>1, <1>4, SetTopFrames
  <2>2. f \in S
    BY <1>4
  <2>3. \A i \in 1..n : i = n \/ i \in 1..(n - 1)
    BY <1>1
  <2>4. QED
    BY <2>1, <2>2, <2>3
<1>5. ASSUME NEW f \in Frame, Active(t), MayNest(t), Begins(t, f), Nest(t, f)
      PROVE  \A i \in 1..Len(stack'[t]) : stack'[t][i] \in S
  <2> DEFINE n == Len(stack[t])
             g == [Top(t) EXCEPT !.nested = @ + 1]
  <2>1. /\ Len(stack'[t]) = n + 1 /\ stack'[t][n + 1] = f /\ stack'[t][n] = g
        /\ \A i \in 1..(n - 1) : stack'[t][i] = stack[t][i]
    BY <1>1, <1>5, NestFrames
  <2>2. f \in S /\ g \in S
    BY <1>5
  <2> HIDE DEF g
  <2>3. \A i \in 1..n + 1 : i = n + 1 \/ i = n \/ (i \in 1..(n - 1) /\ i \in 1..n)
    BY <1>1
  <2>4. QED
    BY <2>1, <2>2, <2>3
<1>6. ASSUME NEW r \in Results \cup {None}, Active(t), Return(t, r)
      PROVE  \A i \in 1..Len(stack'[t]) : stack'[t][i] \in S
  <2> DEFINE n == Len(stack[t])
  <2>1. Len(stack'[t]) = n - 1
    BY <1>1, <1>6, ReturnFrames
  <2>2. ASSUME NEW i \in 1..(n - 1)
        PROVE  stack'[t][i] \in S
    <3>1. stack'[t][i] = stack[t][i] \/ stack'[t][i] = Leaving(stack[t][i], r)
      BY <1>1, <1>6, ReturnFrames
    <3>2. i \in 1..n /\ stack[t][i] \in Frame \cap S
      BY <1>1 DEF Stacks
    <3>3. Leaving(stack[t][i], r) \in S
      BY <3>2
    <3>4. QED
      BY <3>1, <3>2, <3>3
  <2>3. QED
    BY <2>1, <2>2
<1>7. QED
  BY <1>2, <1>3, <1>4, <1>5, <1>6 DEF Places

\* The stacks of the other threads do not change.
LEMMA OthersStay ==
  ASSUME TypeInv, NEW t \in Threads, Places(t)
  PROVE  \A u \in Threads \ {t} : stack'[u] = stack[u]
<1>1. stack \in Stacks
  BY DEF TypeInv
<1>2. QED
  BY <1>1, SetTopFrames, NestFrames, ReturnFrames DEF Places, Stacks

-----------------------------------------------------------------------------
(* Sessions.  A mocker of one session is found on that session, in the     *)
(* fields of mockers of that session, and in calls for that session.       *)

Fits(fn, x) == fn \in Mockers => Target[fn] \in {x, SessionClass}

Contained ==
  /\ \A x \in Sessions \cup {SessionClass} : Fits(send_attr[x], x)
  /\ \A s \in Sessions : Fits(adapter_attr[s], s)
  /\ \A m \in Mockers : Fits(last_send[m], Target[m]) /\ Fits(last_get_adapter[m], Target[m])

FrameFits(f) == Fits(f.fn, f.session) /\ Fits(f.adapter, f.session)

\* What a lookup of send or get_adapter finds.
LEMMA LookupsFit ==
  ASSUME TypeInv, Contained
  PROVE  /\ \A x \in Sessions \cup {SessionClass} : Fits(SendOf(x), x)
         /\ \A s \in Sessions : Fits(GetAdapterOf(s), s)
         /\ \A m \in Mockers : Fits(PreviousGetAdapter(Target[m]), Target[m])
<1>1. \A x \in Sessions \cup {SessionClass} : Fits(SendOf(x), x)
  BY DEF Contained, SendOf, Fits
<1>2. \A s \in Sessions : Fits(GetAdapterOf(s), s)
  BY MockersAssumption DEF Contained, GetAdapterOf, ClassGetAdapter, Fits, Words
<1>3. \A m \in Mockers : Target[m] # SessionClass => Target[m] \in Sessions
  BY MockersAssumption
<1>4. QED
  BY <1>1, <1>2, <1>3, MockersAssumption DEF PreviousGetAdapter, Fits, Words

\* A mocker's fake send only hands on what fits the sessions it serves.
LEMMA FitsOnward ==
  ASSUME NEW m \in Mockers, NEW s \in Sessions, Fits(m, s), NEW g, Fits(g, Target[m])
  PROVE  Fits(g, s)
BY DEF Fits

\* The stacks keep to their sessions.
LEMMA FramesFitNext ==
  ASSUME TypeInv, Contained, NEW t \in Threads, Places(t),
         \A i \in 1..Len(stack[t]) : FrameFits(stack[t][i])
  PROVE  \A i \in 1..Len(stack'[t]) : FrameFits(stack'[t][i])
<1> DEFINE S == {f \in Frame : FrameFits(f)}
<1>1. stack \in Stacks /\ Len(stack[t]) \in Nat
  BY DEF TypeInv, Stacks
<1>2. \A i \in 1..Len(stack[t]) : stack[t][i] \in S
  BY <1>1 DEF Stacks
<1>3. Active(t) => Top(t) \in S
  BY <1>1, <1>2, TopType DEF Top
<1>4. ASSUME NEW f \in Frame, Begins(t, f) \/ Continues(t, f) \/ ForwardsTo(t, f)
      PROVE  f \in S
  <2>1. f.session \in Sessions
    BY DEF Frame
  <2>2. CASE Begins(t, f)
    <3>1. Fits(f.fn, f.session)
      BY <2>1, <2>2, LookupsFit DEF Begins
    <3>2. Fits(f.adapter, f.session)
      BY <2>2, MockersAssumption DEF Begins, Fits, Words
    <3>3. QED
      BY <3>1, <3>2 DEF FrameFits
  <2>3. CASE Continues(t, f)
    <3>1. FrameFits(Top(t)) /\ f.fn = Top(t).fn /\ f.session = Top(t).session
      BY <1>3, <2>3 DEF Continues
    <3>2. Fits(AdapterFrom(GetAdapterOf(f.session)), f.session)
      BY <2>1, LookupsFit, MockersAssumption DEF AdapterFrom, Fits, Words
    <3>3. QED
      BY <2>3, <3>1, <3>2 DEF Continues, FrameFits
  <2>4. CASE ForwardsTo(t, f)
    <3>1. /\ FrameFits(Top(t)) /\ Top(t).fn \in Mockers /\ f.session = Top(t).session
          /\ f.fn = last_send[Top(t).fn] /\ f.adapter = None
      BY <1>3, <2>4 DEF ForwardsTo
    <3>2. Fits(last_send[Top(t).fn], Target[Top(t).fn])
      BY <3>1 DEF Contained
    <3>3. Fits(f.fn, f.session)
      BY <2>1, <3>1, <3>2, FitsOnward DEF FrameFits
    <3>4. Fits(f.adapter, f.session)
      BY <3>1, MockersAssumption DEF Fits, Words
    <3>5. QED
      BY <3>3, <3>4 DEF FrameFits
  <2>5. QED
    BY <1>4, <2>2, <2>3, <2>4
<1>5. ASSUME NEW f \in Frame \cap S, NEW r \in Results \cup {None}
      PROVE  Leaving(f, r) \in S
  <2>1. Leaving(f, r) \in Frame
    BY DEF Leaving, Frame, PCs
  <2>2. QED
    BY <2>1 DEF Leaving, Frame, FrameFits
<1>6. Active(t) /\ MayNest(t) => [Top(t) EXCEPT !.nested = @ + 1] \in S
  <2> SUFFICES ASSUME Active(t), MayNest(t) PROVE [Top(t) EXCEPT !.nested = @ + 1] \in S
    OBVIOUS
  <2>1. Top(t).nested + 1 \in 0..MaxNested
    BY <1>3, BoundsAssumption DEF MayNest, Frame
  <2>2. QED
    BY <1>3, <2>1 DEF Frame, FrameFits
<1>7. \A i \in 1..Len(stack'[t]) : stack'[t][i] \in S
  <2> HIDE DEF S
  <2> QED BY <1>2, <1>4, <1>5, <1>6, FramesStay
<1>8. QED
  BY <1>7

\* The attributes and fields keep to their sessions.
LEMMA ContainedNext ==
  ASSUME TypeInv, Contained, NEW t \in Threads, Progress(t) \/ UserStep(t),
         \A i \in 1..Len(stack[t]) : FrameFits(stack[t][i])
  PROVE  Contained'
<1>1. Active(t) => FrameFits(Top(t)) /\ Top(t).fn \in Functions /\ Top(t).session \in Sessions
  BY TopType, TopFields DEF Top, TypeInv
<1>2. ASSUME adapter_attr' = adapter_attr, send_attr' = send_attr,
             last_send' = last_send, last_get_adapter' = last_get_adapter
      PROVE  Contained'
  BY <1>2 DEF Contained, Fits
<1>3. ASSUME NEW s \in Sessions, NEW g, Fits(g, s),
             adapter_attr' = [adapter_attr EXCEPT ![s] = g], send_attr' = send_attr,
             last_send' = last_send, last_get_adapter' = last_get_adapter
      PROVE  Contained'
  BY <1>3 DEF Contained, Fits, TypeInv
<1>4. CASE FakeSendEnter(t)
  <2>1. Active(t) /\ adapter_attr' = [adapter_attr EXCEPT ![Top(t).session] = Top(t).fn]
    BY <1>4 DEF FakeSendEnter
  <2>2. QED
    BY <1>1, <1>3, <1>4, <2>1 DEF FakeSendEnter, targetVars, FrameFits
<1>5. CASE FakeSendExit(t)
  <2> DEFINE g == last_get_adapter[Top(t).fn]
  <2>1. /\ Active(t) /\ Top(t).fn \in Mockers
        /\ adapter_attr' = [adapter_attr EXCEPT ![Top(t).session] = g]
    BY <1>5 DEF FakeSendExit, Restored
  <2>2. Fits(g, Top(t).session)
    <3>1. Fits(g, Target[Top(t).fn]) /\ Fits(Top(t).fn, Top(t).session)
      BY <1>1, <2>1 DEF Contained, FrameFits
    <3>2. QED
      BY <1>1, <2>1, <3>1, FitsOnward
  <2>3. QED
    BY <1>1, <1>3, <1>5, <2>1, <2>2 DEF FakeSendExit, targetVars
<1>6. CASE StartInstall(t)
  <2> DEFINE m == switching[t]
  <2>1. /\ m \in Mockers /\ Fits(m, Target[m])
        /\ send_attr' = [send_attr EXCEPT ![Target[m]] = m]
    BY <1>6 DEF StartInstall, Patched, TypeInv, Fits
  <2>2. QED
    BY <1>6, <2>1 DEF StartInstall, Contained, Fits, TypeInv
<1>7. ASSUME NEW m \in Mockers, StartCapture(t, m)
      PROVE  Contained'
  <2>1. Target[m] \in Sessions \cup {SessionClass}
    BY MockersAssumption
  <2>2. Fits(SendOf(Target[m]), Target[m]) /\ Fits(PreviousGetAdapter(Target[m]), Target[m])
    BY <2>1, LookupsFit
  <2>3. QED
    BY <1>7, <2>2 DEF StartCapture, PreviousSend, Contained, Fits, TypeInv
<1>8. ASSUME NEW m \in Mockers, StopRestore(t, m)
      PROVE  Contained'
  <2>1. /\ send_attr' = [send_attr EXCEPT ![Target[m]] = last_send[m]]
        /\ last_send' = last_send
        /\ adapter_attr' = adapter_attr /\ last_get_adapter' = last_get_adapter
    BY <1>8 DEF StopRestore, Unpatched
  <2>2. Fits(last_send[m], Target[m]) /\ None \notin Mockers
    BY MockersAssumption DEF Contained, Words
  <2>3. QED
    BY <2>1, <2>2 DEF Contained, Fits, TypeInv
<1>9. CASE StopClear(t)
  <2>1. None \notin Mockers
    BY MockersAssumption DEF Words
  <2>2. QED
    BY <1>9, <2>1 DEF StopClear, Contained, Fits, TypeInv
<1>10. QED
  BY <1>2, <1>4, <1>5, <1>6, <1>7, <1>8, <1>9 DEF Progress, UserStep, OnlyStack, targetVars,
     FakeSendTimeout, GetAdapter, AdapterResponds, AdapterRedirects, AdapterRaises,
     FollowRedirect, RedirectsDone, OriginalReturn, FakeSendForward, FakeSendForwardNone,
     CallbackResumes, UserSend, CallbackSend, CallbackJoins, SetRealHttp

FitInv == Contained /\ \A t \in Threads : \A i \in 1..Len(stack[t]) : FrameFits(stack[t][i])

\* Every step keeps all of them.
LEMMA FitNext ==
  ASSUME TypeInv, FitInv, NEW t \in Threads, Progress(t) \/ UserStep(t)
  PROVE  FitInv'
<1>1. Places(t)
  BY StepPlaces
<1>2. Contained'
  BY ContainedNext DEF FitInv
<1>3. \A i \in 1..Len(stack'[t]) : FrameFits(stack'[t][i])
  BY <1>1, FramesFitNext DEF FitInv
<1>4. \A u \in Threads \ {t} : stack'[u] = stack[u]
  BY <1>1, OthersStay
<1>5. QED
  BY <1>2, <1>3, <1>4 DEF FitInv, FrameFits, Fits

\* The calls of a thread are for sessions it uses.
OwnSessions == \A t \in Threads : \A i \in 1..Len(stack[t]) : stack[t][i].session \in Uses[t]

\* The calls of a thread stay with the sessions it uses.
LEMMA OwnNext ==
  ASSUME TypeInv, OwnSessions, NEW t \in Threads, Places(t)
  PROVE  OwnSessions'
<1> DEFINE S == {f \in Frame : f.session \in Uses[t]}
<1>1. stack \in Stacks /\ Len(stack[t]) \in Nat
  BY DEF TypeInv, Stacks
<1>2. \A i \in 1..Len(stack[t]) : stack[t][i] \in S
  BY <1>1 DEF OwnSessions, Stacks
<1>3. Active(t) => Top(t) \in S
  BY <1>1, <1>2, TopType DEF Top
<1>4. \A f \in Frame : Begins(t, f) \/ Continues(t, f) \/ ForwardsTo(t, f) => f \in S
  BY <1>3 DEF Begins, Continues, ForwardsTo
<1>5. ASSUME NEW f \in Frame \cap S, NEW r \in Results \cup {None}
      PROVE  Leaving(f, r) \in S
  BY DEF Leaving, Frame, PCs
<1>6. Active(t) /\ MayNest(t) => [Top(t) EXCEPT !.nested = @ + 1] \in S
  <2> SUFFICES ASSUME Active(t), MayNest(t) PROVE [Top(t) EXCEPT !.nested = @ + 1] \in S
    OBVIOUS
  <2>1. Top(t).nested + 1 \in 0..MaxNested
    BY <1>3, BoundsAssumption DEF MayNest, Frame
  <2>2. QED
    BY <1>3, <2>1 DEF Frame
<1>7. \A i \in 1..Len(stack'[t]) : stack'[t][i] \in S
  <2> HIDE DEF S
  <2> QED BY <1>2, <1>4, <1>5, <1>6, FramesStay
<1>8. QED
  BY <1>7, OthersStay DEF OwnSessions

\* What every behaviour has of its calls, whatever the constants are.
CallInv == LockInv /\ CapturedInv /\ FitInv /\ OwnSessions

LEMMA CallInvHolds == Spec => []CallInv
<1>1. Init => FitInv /\ OwnSessions
  <2> SUFFICES ASSUME Init PROVE FitInv /\ OwnSessions
    OBVIOUS
  <2>1. Contained
    BY MockersAssumption, SessionsAssumption DEF Init, Contained, Fits, Words
  <2>2. QED
    BY <2>1 DEF Init, FitInv, OwnSessions
<1>2. LockInv /\ FitInv /\ OwnSessions /\ [Next]_vars => (FitInv /\ OwnSessions)'
  <2> SUFFICES ASSUME LockInv, FitInv, OwnSessions, [Next]_vars
               PROVE  FitInv' /\ OwnSessions'
    OBVIOUS
  <2>1. CASE UNCHANGED vars
    BY <2>1 DEF vars, FitInv, Contained, FrameFits, Fits, OwnSessions
  <2>2. ASSUME NEW t \in Threads, Progress(t) \/ UserStep(t)
        PROVE  FitInv' /\ OwnSessions'
    BY <2>2, FitNext, StepPlaces, OwnNext DEF LockInv
  <2>3. QED
    BY <2>1, <2>2 DEF Next
<1>3. QED
  BY <1>1, <1>2, LockInvHolds, CapturedInvHolds, PTL DEF Spec, CallInv

\* A mocker of one session takes part in no request of another, whatever is started,
\* stopped, nested, redirected or forwarded, by any threads.
THEOREM SessionIsolationHolds == Spec => []SessionIsolation
<1>1. CallInv => SessionIsolation
  BY DEF CallInv, FitInv, SessionIsolation, FrameFits, Fits
<1>2. QED
  BY <1>1, CallInvHolds, PTL

-----------------------------------------------------------------------------
(* Quiet times.  Nobody starts or stops a mocker while a call that it      *)
(* covers is under way: the one thread that starts mockers is the one that *)
(* sends through those sessions, and it does so outside callbacks.         *)

QuietFor(m) ==
  \A t \in Threads : (\E s \in Uses[t] : Target[m] \in {s, SessionClass}) =>
    Starters \subseteq {t} /\ t \notin CallbackStarters

Quiet == \A m \in Mockers : QuietFor(m)

\* So it is for the mockers of sessions; those of the class come and go at any time.
QuietSessions == \A m \in Mockers : Target[m] # SessionClass => QuietFor(m)

LEMMA QuietTime ==
  ASSUME CallInv, NEW m \in Mockers, QuietFor(m), NEW t \in Threads, InStarterCode(t)
  PROVE  \A u \in Threads : \A i \in 1..Len(stack[u]) :
           Target[m] \notin {stack[u][i].session, SessionClass}
<1> SUFFICES ASSUME NEW u \in Threads, NEW i \in 1..Len(stack[u]),
                    Target[m] \in {stack[u][i].session, SessionClass}
             PROVE  FALSE
  OBVIOUS
<1>1. stack[u][i].session \in Uses[u]
  BY DEF CallInv, OwnSessions
<1>2. Starters \subseteq {u} /\ u \notin CallbackStarters
  BY <1>1 DEF QuietFor
<1>3. u = t
  BY <1>2, ThreadsAssumption DEF InStarterCode
<1>4. Active(u)
  BY DEF Active, CallInv, LockInv, TypeInv, Stacks
<1>5. QED
  BY <1>2, <1>3, <1>4 DEF InStarterCode

-----------------------------------------------------------------------------
(* Starts and stops, by one thread: of mockers of the class, or of mockers *)
(* of sessions, but not of both.                                           *)

OneStarter == \A t, u \in Starters : t = u

Unmixed ==
  \/ \A m \in Mockers : Target[m] = SessionClass
  \/ \A m \in Mockers : Target[m] # SessionClass

Covers(m, s) == Target[m] \in {s, SessionClass}

\* Covering and Around, of any list of mockers.
Outside(q, s, i) == {j \in 1..Len(q) : Covers(q[j], s) /\ j < i}

LastOf(q, places) ==
  IF places = {} THEN Original
  ELSE q[CHOOSE j \in places : \A k \in places : k <= j]

AroundIn(q, s, i) == LastOf(q, Outside(q, s, i))

LEMMA AroundIsIn ==
  ASSUME NEW s, NEW i
  PROVE  /\ Around(s, i) = AroundIn(nesting, s, i)
         /\ Around(s, i)' = AroundIn(nesting', s, i)
         /\ Covering(s) = {j \in 1..Len(nesting) : Covers(nesting[j], s)}
         /\ Covering(s)' = {j \in 1..Len(nesting') : Covers(nesting'[j], s)}
<1>1. /\ {j \in Covering(s) : j < i} = Outside(nesting, s, i)
      /\ {j \in Covering(s)' : j < i} = Outside(nesting', s, i)
  BY DEF Covering, Outside, Covers
<1>2. /\ Around(s, i) = LastOf(nesting, {j \in Covering(s) : j < i})
      /\ Around(s, i)' = LastOf(nesting', {j \in Covering(s)' : j < i})
  BY DEF Around, LastOf
<1>3. QED
  BY <1>1, <1>2 DEF AroundIn, Covering, Covers

\* It is Original, when no mocker outside place i covers the session, or the last of
\* those mockers.
LEMMA AroundLast ==
  ASSUME NEW q \in Seq(Mockers), NEW s, NEW i
  PROVE  \/ Outside(q, s, i) = {} /\ AroundIn(q, s, i) = Original
         \/ \E j \in Outside(q, s, i) :
              (\A k \in Outside(q, s, i) : k <= j) /\ AroundIn(q, s, i) = q[j]
<1> DEFINE outer == Outside(q, s, i)
<1>1. outer \in SUBSET (1..Len(q)) /\ Len(q) \in Nat
  BY DEF Outside
<1>2. CASE outer = {}
  BY <1>2 DEF AroundIn, LastOf
<1>3. CASE outer # {}
  <2> DEFINE j == CHOOSE j \in outer : \A k \in outer : k <= j
  <2>1. j \in outer /\ \A k \in outer : k <= j
    <3> HIDE DEF outer
    <3> QED BY <1>1, <1>3, LargestPlace
  <2>2. AroundIn(q, s, i) = q[j]
    BY <1>3 DEF AroundIn, LastOf
  <2>3. QED
    BY <2>1, <2>2
<1>4. QED
  BY <1>2, <1>3

LEMMA AroundOf ==
  ASSUME NEW q \in Seq(Mockers), NEW s, NEW i, NEW j \in Outside(q, s, i),
         \A k \in Outside(q, s, i) : k <= j
  PROVE  AroundIn(q, s, i) = q[j]
<1>1. PICK l \in Outside(q, s, i) :
        (\A k \in Outside(q, s, i) : k <= l) /\ AroundIn(q, s, i) = q[l]
  BY AroundLast
<1>2. l <= j /\ j <= l /\ l \in Int /\ j \in Int
  BY <1>1 DEF Outside
<1>3. QED
  BY <1>1, <1>2

\* One more mocker started, or one fewer: what is around the others stays, and what is
\* around them all is the new mocker, where it covers.
LEMMA AroundPush ==
  ASSUME NEW q \in Seq(Mockers), NEW r \in Seq(Mockers), Len(r) = Len(q) + 1,
         \A i \in 1..Len(q) : r[i] = q[i], NEW s
  PROVE  /\ \A i \in 1..Len(q) + 1 : AroundIn(r, s, i) = AroundIn(q, s, i)
         /\ AroundIn(r, s, Len(r) + 1) =
              IF Covers(r[Len(r)], s) THEN r[Len(r)] ELSE AroundIn(q, s, Len(q) + 1)
<1> DEFINE n == Len(q)
<1>1. n \in Nat /\ Len(r) = n + 1
  OBVIOUS
<1>2. ASSUME NEW i \in 1..n + 2, i \in 1..n + 1 \/ ~Covers(r[n + 1], s),
             NEW p \in 1..n + 1, \A j \in 1..n : j < i <=> j < p
      PROVE  AroundIn(r, s, i) = AroundIn(q, s, p)
  <2>1. Outside(r, s, i) = Outside(q, s, p)
    <3>1. ASSUME NEW j \in 1..n + 1
          PROVE  j \in Outside(r, s, i) <=> j \in 1..n /\ j \in Outside(q, s, p)
      BY <1>1, <1>2 DEF Outside
    <3>2. \A j : j \in Outside(r, s, i) => j \in 1..n + 1
      BY <1>1 DEF Outside
    <3>3. \A j : j \in Outside(q, s, p) => j \in 1..n + 1 /\ j \in 1..n
      BY <1>1 DEF Outside
    <3>4. QED
      BY <3>1, <3>2, <3>3
  <2>2. CASE Outside(q, s, p) = {}
    BY <2>1, <2>2 DEF AroundIn, LastOf
  <2>3. CASE Outside(q, s, p) # {}
    <3>1. PICK j \in Outside(q, s, p) :
            (\A k \in Outside(q, s, p) : k <= j) /\ AroundIn(q, s, p) = q[j]
      BY <2>3, AroundLast
    <3>2. AroundIn(r, s, i) = r[j]
      BY <2>1, <3>1, AroundOf
    <3>3. j \in 1..n
      BY DEF Outside
    <3>4. QED
      BY <3>1, <3>2, <3>3
  <2>4. QED
    BY <2>2, <2>3
<1>3. ASSUME NEW i \in 1..n + 1
      PROVE  AroundIn(r, s, i) = AroundIn(q, s, i)
  <2>1. i \in 1..n + 2
    BY <1>1
  <2>2. QED
    BY <1>2, <2>1
<1>4. CASE Covers(r[n + 1], s)
  <2>1. n + 1 \in Outside(r, s, n + 2) /\ \A k \in Outside(r, s, n + 2) : k <= n + 1
    BY <1>1, <1>4 DEF Outside
  <2>2. AroundIn(r, s, n + 2) = r[n + 1]
    BY <2>1, AroundOf
  <2>3. Len(r) + 1 = n + 2
    BY <1>1
  <2>4. QED
    BY <1>1, <1>3, <1>4, <2>2, <2>3
<1>5. CASE ~Covers(r[n + 1], s)
  <2>1. n + 2 \in 1..n + 2 /\ n + 1 \in 1..n + 1 /\ Len(r) + 1 = n + 2
    BY <1>1
  <2>2. \A j \in 1..n : j < n + 2 <=> j < n + 1
    BY <1>1
  <2>3. AroundIn(r, s, n + 2) = AroundIn(q, s, n + 1)
    BY <1>2, <1>5, <2>1, <2>2
  <2>4. QED
    BY <1>1, <1>3, <1>5, <2>1, <2>3
<1>6. QED
  BY <1>4, <1>5

LEMMA AroundType ==
  ASSUME TypeInv, NEW s, NEW i
  PROVE  /\ Around(s, i) \in Functions
         /\ Around(s, i) # Original =>
              \E j \in Covering(s) : j < i /\ Around(s, i) = nesting[j]
<1>1. nesting \in Seq(Mockers)
  BY DEF TypeInv
<1>2. \/ Outside(nesting, s, i) = {} /\ Around(s, i) = Original
      \/ \E j \in Outside(nesting, s, i) : Around(s, i) = nesting[j]
  BY <1>1, AroundLast, AroundIsIn
<1>3. \A j \in Outside(nesting, s, i) : j \in Covering(s) /\ j < i /\ nesting[j] \in Mockers
  BY <1>1 DEF Outside, Covering, Covers
<1>4. QED
  BY <1>2, <1>3 DEF Functions

\* What the started mockers have besides: none is started twice; the attributes that no
\* mocker targets are untouched; a mocker that start() or stop() is inside of has in
\* _last_send the send of the sessions it covers, and is not one of the started; and these, and no others, have
\* something in _last_send.
Distinct == \A i, j \in 1..Len(nesting) : nesting[i] = nesting[j] => i = j

Untouched ==
  \A x \in Sessions \cup {SessionClass} : (\A m \in Mockers : Target[m] # x) =>
    send_attr[x] = IF x = SessionClass THEN Original ELSE Absent

HasRead ==
  \A t \in Threads : switching[t] # None =>
    /\ t \in Starters
    /\ \A s \in Sessions : Covers(switching[t], s) => last_send[switching[t]] = SendOf(s)
    /\ \A i \in 1..Len(nesting) : nesting[i] # switching[t]

Linked ==
  \A m \in Mockers : last_send[m] # None <=>
    \/ \E i \in 1..Len(nesting) : nesting[i] = m
    \/ \E t \in Threads : switching[t] = m

Chain == Distinct /\ ParentChain /\ InnermostWins /\ Untouched /\ HasRead /\ Linked

\* The sessions a mocker covers find the send of its target.
LEMMA SendOfTarget ==
  ASSUME TypeInv, Unmixed, Untouched, NEW m \in Mockers, NEW s \in Sessions, Covers(m, s)
  PROVE  SendOf(Target[m]) = SendOf(s)
<1>1. CASE Target[m] = s
  BY <1>1
<1>2. CASE Target[m] = SessionClass
  <2>1. \A k \in Mockers : Target[k] # s
    BY <1>2, SessionsAssumption DEF Unmixed
  <2>2. send_attr[s] = Absent
    BY <2>1, SessionsAssumption DEF Untouched
  <2>3. QED
    BY <1>2, <2>2, SessionsAssumption DEF SendOf
<1>3. QED
  BY <1>1, <1>2 DEF Covers

\* Assigning send on a mocker's target changes the send of the sessions it covers.
LEMMA Assigned ==
  ASSUME TypeInv, Unmixed, Untouched, NEW m \in Mockers, NEW g \in Functions,
         send_attr' = [send_attr EXCEPT ![Target[m]] = g]
  PROVE  /\ Untouched'
         /\ \A s \in Sessions : SendOf(s)' = IF Covers(m, s) THEN g ELSE SendOf(s)
<1>1. g # Absent /\ Target[m] \in Sessions \cup {SessionClass}
  BY MockersAssumption DEF Functions, Words
<1>2. /\ send_attr'[Target[m]] = g
      /\ \A x \in Sessions \cup {SessionClass} : x # Target[m] => send_attr'[x] = send_attr[x]
  BY <1>1 DEF TypeInv
<1>3. Untouched'
  BY <1>2 DEF Untouched
<1>4. ASSUME NEW s \in Sessions
      PROVE  SendOf(s)' = IF Covers(m, s) THEN g ELSE SendOf(s)
  <2>1. s # SessionClass /\ SendOf(s)' = IF send_attr'[s] = Absent THEN send_attr'[SessionClass]
                                         ELSE send_attr'[s]
    BY SessionsAssumption DEF SendOf
  <2>2. CASE Target[m] = SessionClass
    <3>1. \A k \in Mockers : Target[k] # s
      BY <2>1, <2>2 DEF Unmixed
    <3>2. send_attr'[s] = Absent
      BY <1>3, <2>1, <3>1 DEF Untouched
    <3>3. QED
      BY <1>2, <2>1, <2>2, <3>2 DEF Covers
  <2>3. CASE Target[m] = s
    BY <1>1, <1>2, <2>1, <2>3 DEF Covers
  <2>4. CASE Target[m] \notin {s, SessionClass}
    BY <1>2, <2>1, <2>4 DEF Covers, SendOf
  <2>5. QED
    BY <2>2, <2>3, <2>4
<1>5. QED
  BY <1>3, <1>4

\* start() reads what it will forward to.
LEMMA CaptureKeepsChain ==
  ASSUME TypeInv, Unmixed, OneStarter, Chain,
         NEW t \in Threads, NEW m \in Mockers, StartCapture(t, m)
  PROVE  Chain'
<1>1. /\ t \in Starters /\ switching[t] = None /\ last_send[m] = None
      /\ last_send' = [last_send EXCEPT ![m] = SendOf(Target[m])]
      /\ switching' = [switching EXCEPT ![t] = m]
      /\ nesting' = nesting /\ send_attr' = send_attr
  BY ThreadsAssumption DEF StartCapture, InStarterCode, InUserCode, PreviousSend
<1>2. /\ \A i \in 1..Len(nesting) : nesting[i] \in Mockers
      /\ \A u \in Threads : switching[u] # None => u = t
      /\ m # None /\ SendOf(Target[m]) \in Functions /\ None \notin Functions
  <2>1. \A i \in 1..Len(nesting) : nesting[i] \in Mockers
    BY DEF TypeInv
  <2>2. \A u \in Threads : switching[u] # None => u = t
    BY <1>1 DEF Chain, HasRead, OneStarter
  <2>3. m # None /\ None \notin Functions /\ Target[m] \in Sessions \cup {SessionClass}
    BY MockersAssumption DEF Functions, Words
  <2>4. QED
    BY <2>1, <2>2, <2>3, SendOfType
<1>3. /\ \A s, i : Around(s, i)' = Around(s, i)
      /\ \A s \in Sessions : SendOf(s)' = SendOf(s) /\ Covering(s)' = Covering(s)
  BY <1>1 DEF Around, Covering, SendOf
<1>4. /\ \A k \in Mockers : k # m => last_send'[k] = last_send[k]
      /\ last_send'[m] = SendOf(Target[m])
      /\ switching'[t] = m /\ \A u \in Threads : u # t => switching'[u] = switching[u]
  BY <1>1 DEF TypeInv
<1>5. \A i \in 1..Len(nesting) : nesting[i] # m
  BY <1>1, <1>2 DEF Chain, Linked
<1>6. Distinct' /\ InnermostWins' /\ Untouched'
  <2>1. Distinct'
    BY <1>1 DEF Chain, Distinct
  <2>2. InnermostWins'
    BY <1>1, <1>3 DEF Chain, InnermostWins
  <2>3. Untouched'
    BY <1>1 DEF Chain, Untouched
  <2>4. QED
    BY <2>1, <2>2, <2>3
<1>7. ParentChain'
  <2> SUFFICES ASSUME NEW s \in Sessions, NEW i \in Covering(s)
               PROVE  last_send'[nesting[i]] = Around(s, i)
    BY <1>1, <1>3 DEF ParentChain
  <2>1. i \in 1..Len(nesting)
    BY DEF Covering
  <2>2. last_send'[nesting[i]] = last_send[nesting[i]]
    BY <1>2, <1>4, <1>5, <2>1
  <2>3. QED
    BY <2>2 DEF Chain, ParentChain
<1>8. HasRead'
  <2> SUFFICES ASSUME NEW u \in Threads, switching'[u] # None
               PROVE  /\ u \in Starters
                      /\ \A s \in Sessions : Covers(switching'[u], s) =>
                           last_send'[switching'[u]] = SendOf(s)
                      /\ \A i \in 1..Len(nesting) : nesting[i] # switching'[u]
    BY <1>1, <1>3 DEF HasRead, Covers
  <2>1. u = t /\ switching'[u] = m
    BY <1>2, <1>4
  <2>2. \A s \in Sessions : Covers(m, s) => last_send'[m] = SendOf(s)
    BY <1>4, SendOfTarget DEF Chain
  <2>3. QED
    BY <1>1, <1>5, <2>1, <2>2
<1>9. Linked'
  <2> SUFFICES ASSUME NEW k \in Mockers
               PROVE  last_send'[k] # None <=>
                        \/ \E i \in 1..Len(nesting) : nesting[i] = k
                        \/ \E u \in Threads : switching'[u] = k
    BY <1>1 DEF Linked
  <2>1. CASE k = m
    BY <1>2, <1>4, <2>1
  <2>2. CASE k # m
    <3>1. k # None
      BY MockersAssumption DEF Words
    <3>2. \A u \in Threads : switching[u] # k /\ switching'[u] # k
      BY <1>1, <1>2, <1>4, <2>2, <3>1
    <3>3. QED
      BY <1>4, <2>2, <3>2 DEF Chain, Linked
  <2>3. QED
    BY <2>1, <2>2
<1>10. QED
  BY <1>6, <1>7, <1>8, <1>9 DEF Chain

\* start() installs: the new mocker is the innermost of the sessions it covers, and
\* forwards to the one that was.
LEMMA InstallKeepsChain ==
  ASSUME TypeInv, Unmixed, OneStarter, Chain, NEW t \in Threads, StartInstall(t)
  PROVE  Chain'
<1> DEFINE m == switching[t]
           n == Len(nesting)
<1>1. /\ m \in Mockers /\ m \in Functions /\ m # None /\ t \in Starters /\ n \in Nat
      /\ \A i \in 1..n : nesting[i] # m /\ nesting[i] \in Mockers
      /\ \A s \in Sessions : Covers(m, s) => last_send[m] = SendOf(s)
  BY MockersAssumption DEF StartInstall, Chain, HasRead, TypeInv, Functions, Words
<1>2. /\ send_attr' = [send_attr EXCEPT ![Target[m]] = m]
      /\ nesting' = Append(nesting, m)
      /\ switching' = [switching EXCEPT ![t] = None]
      /\ last_send' = last_send
  BY DEF StartInstall, Patched
<1> HIDE DEF m
<1>3. /\ nesting \in Seq(Mockers) /\ nesting' \in Seq(Mockers)
      /\ Len(nesting') = n + 1 /\ nesting'[n + 1] = m
      /\ \A i \in 1..n : nesting'[i] = nesting[i]
  BY <1>1, <1>2 DEF TypeInv
<1>4. \A u \in Threads : switching'[u] = None /\ (switching[u] # None => switching[u] = m)
  <2> SUFFICES ASSUME NEW u \in Threads
               PROVE  switching'[u] = None /\ (switching[u] # None => switching[u] = m)
    OBVIOUS
  <2>1. switching[u] # None => u = t
    BY <1>1 DEF Chain, HasRead, OneStarter
  <2>2. QED
    BY <1>2, <2>1 DEF TypeInv, m
<1>5. Untouched' /\ \A s \in Sessions : SendOf(s)' = IF Covers(m, s) THEN m ELSE SendOf(s)
  BY <1>1, <1>2, Assigned DEF Chain
<1>6. ASSUME NEW s \in Sessions
      PROVE  /\ \A i \in 1..n + 1 : AroundIn(nesting', s, i) = Around(s, i)
             /\ AroundIn(nesting', s, n + 2) = IF Covers(m, s) THEN m ELSE Around(s, n + 1)
  <2>1. \A i : Around(s, i) = AroundIn(nesting, s, i)
    BY AroundIsIn
  <2>2. Len(nesting') = Len(nesting) + 1 /\ n + 2 = Len(nesting') + 1
    BY <1>1, <1>3
  <2>3. /\ \A i \in 1..n + 1 : AroundIn(nesting', s, i) = AroundIn(nesting, s, i)
        /\ AroundIn(nesting', s, n + 2) = IF Covers(m, s) THEN m ELSE AroundIn(nesting, s, n + 1)
    BY <1>3, <2>2, AroundPush
  <2>4. QED
    BY <2>1, <2>3
<1>7. Distinct'
  BY <1>1, <1>3 DEF Chain, Distinct
<1>8. InnermostWins'
  <2> SUFFICES ASSUME NEW s \in Sessions
               PROVE  SendOf(s)' = AroundIn(nesting', s, n + 2)
    <3>1. n + 2 = Len(nesting') + 1
      BY <1>1, <1>3
    <3>2. QED
      BY <3>1, AroundIsIn DEF InnermostWins
  <2>1. SendOf(s) = Around(s, n + 1)
    BY DEF Chain, InnermostWins
  <2>2. QED
    BY <1>5, <1>6, <2>1
<1>9. ParentChain'
  <2> SUFFICES ASSUME NEW s \in Sessions, NEW i \in Covering(s)'
               PROVE  last_send'[nesting'[i]] = Around(s, i)'
    BY DEF ParentChain
  <2>1. i \in 1..n + 1 /\ Covers(nesting'[i], s)
    BY <1>3, AroundIsIn
  <2>2. Around(s, i)' = Around(s, i)
    BY <1>6, <2>1, AroundIsIn
  <2>3. CASE i \in 1..n
    <3>1. i \in Covering(s)
      BY <1>3, <2>1, <2>3, AroundIsIn
    <3>2. QED
      BY <1>2, <1>3, <2>2, <2>3, <3>1 DEF Chain, ParentChain
  <2>4. CASE i = n + 1
    <3>1. last_send[m] = SendOf(s)
      BY <1>1, <1>3, <2>1, <2>4
    <3>2. QED
      BY <1>2, <1>3, <2>2, <2>4, <3>1 DEF Chain, InnermostWins
  <2>5. QED
    BY <1>1, <2>1, <2>3, <2>4
<1>10. HasRead'
  BY <1>4 DEF HasRead
<1>11. Linked'
  <2> SUFFICES ASSUME NEW k \in Mockers
               PROVE  last_send[k] # None <=> \E i \in 1..n + 1 : nesting'[i] = k
    BY <1>2, <1>3, <1>4, MockersAssumption DEF Linked, Words
  <2>1. last_send[k] # None <=> (\E i \in 1..n : nesting[i] = k) \/ k = m
    <3>1. k # None /\ switching[t] = m
      BY MockersAssumption DEF Words, m
    <3>2. (\E u \in Threads : switching[u] = k) <=> k = m
      BY <1>4, <3>1
    <3>3. QED
      BY <3>2 DEF Chain, Linked
  <2>2. n + 1 \in 1..n + 1 /\ \A i \in 1..n + 1 : i \in 1..n \/ i = n + 1
    BY <1>1
  <2>3. \A i \in 1..n : i \in 1..n + 1
    BY <1>1
  <2>4. QED
    BY <1>3, <2>1, <2>2, <2>3
<1>12. QED
  BY <1>5, <1>7, <1>8, <1>9, <1>10, <1>11 DEF Chain

\* stop() of the innermost mocker leaves the sessions it covered to the one it was in.
LEMMA RestoreKeepsChain ==
  ASSUME TypeInv, Unmixed, OneStarter, Chain, NEW t \in Threads, NEW m \in Mockers, StopRestore(t, m)
  PROVE  Chain'
<1> DEFINE n == Len(nesting)
<1>1. /\ t \in Starters /\ switching[t] = None /\ switching' = [switching EXCEPT ![t] = m]
      /\ n \in Nat \ {0} /\ n \in 1..n /\ nesting[n] = m /\ last_send[m] \in Functions
      /\ send_attr' = [send_attr EXCEPT ![Target[m]] = last_send[m]]
      /\ last_send' = last_send /\ last_send[m] # None
      /\ nesting' = SubSeq(nesting, 1, n - 1)
  <2>1. n \in Nat /\ n # 0
    BY DEF MayStop, StopRestore, TypeInv
  <2>2. QED
    BY <2>1, ThreadsAssumption DEF MayStop, StopRestore, InStarterCode, InUserCode, Unpatched, TypeInv
<1>2. /\ nesting' \in Seq(Mockers) /\ nesting \in Seq(Mockers) /\ Len(nesting') = n - 1
      /\ \A i \in 1..n - 1 : nesting'[i] = nesting[i] /\ i \in 1..n
  <2>1. n > 0 /\ nesting \in Seq(Mockers)
    BY <1>1 DEF TypeInv
  <2>2. \A i \in 1..n - 1 : i \in 1..n
    BY <1>1
  <2>3. QED
    BY <1>1, <2>1, <2>2, FrontSeq
<1>3. m # None
  BY MockersAssumption DEF Words
<1>4. /\ \A u \in Threads : switching[u] = None
      /\ switching'[t] = m /\ \A u \in Threads : u # t => switching'[u] = None
  <2>1. \A u \in Threads : switching[u] = None
    BY <1>1 DEF Chain, HasRead, OneStarter
  <2>2. QED
    BY <1>1, <2>1 DEF TypeInv
<1>5. /\ Untouched'
      /\ \A s \in Sessions : SendOf(s)' = IF Covers(m, s) THEN last_send[m] ELSE SendOf(s)
  BY <1>1, Assigned DEF Chain
<1>6. ASSUME NEW s \in Sessions
      PROVE  /\ \A i \in 1..n : AroundIn(nesting', s, i) = Around(s, i)
             /\ Around(s, n + 1) = IF Covers(m, s) THEN m ELSE Around(s, n)
  <2>1. \A i : Around(s, i) = AroundIn(nesting, s, i)
    BY AroundIsIn
  <2>2. /\ Len(nesting) = Len(nesting') + 1 /\ n = Len(nesting') + 1
        /\ n + 1 = Len(nesting) + 1 /\ nesting[Len(nesting)] = m
    BY <1>1, <1>2
  <2>3. \A i \in 1..Len(nesting') : nesting[i] = nesting'[i]
    BY <1>2
  <2>4. /\ \A i \in 1..n : AroundIn(nesting, s, i) = AroundIn(nesting', s, i)
        /\ AroundIn(nesting, s, n + 1) = IF Covers(m, s) THEN m ELSE AroundIn(nesting', s, n)
    <3>1. /\ \A i \in 1..Len(nesting') + 1 : AroundIn(nesting, s, i) = AroundIn(nesting', s, i)
          /\ AroundIn(nesting, s, Len(nesting) + 1) =
               IF Covers(nesting[Len(nesting)], s) THEN nesting[Len(nesting)]
               ELSE AroundIn(nesting', s, Len(nesting') + 1)
      BY <1>2, <2>2, <2>3, AroundPush
    <3>2. QED
      BY <2>2, <3>1
  <2>5. QED
    BY <1>1, <2>1, <2>4
<1>7. Distinct'
  <2>1. \A i, j \in 1..n : nesting[i] = nesting[j] => i = j
    BY DEF Chain, Distinct
  <2>2. \A i, j \in 1..n - 1 : nesting'[i] = nesting'[j] => i = j
    BY <1>2, <2>1
  <2>3. QED
    BY <1>2, <2>2 DEF Distinct
<1>8. InnermostWins'
  <2> SUFFICES ASSUME NEW s \in Sessions
               PROVE  SendOf(s)' = AroundIn(nesting', s, n)
    <3>1. n = Len(nesting') + 1
      BY <1>1, <1>2
    <3>2. QED
      BY <3>1, AroundIsIn DEF InnermostWins
  <2>1. AroundIn(nesting', s, n) = Around(s, n) /\ SendOf(s) = Around(s, n + 1)
    BY <1>1, <1>6 DEF Chain, InnermostWins
  <2>2. CASE Covers(m, s)
    <3>1. n \in Covering(s)
      BY <1>1, <2>2, AroundIsIn
    <3>2. last_send[m] = Around(s, n)
      BY <1>1, <3>1 DEF Chain, ParentChain
    <3>3. QED
      BY <1>5, <2>1, <2>2, <3>2
  <2>3. CASE ~Covers(m, s)
    BY <1>5, <1>6, <2>1, <2>3
  <2>4. QED
    BY <2>2, <2>3
<1>9. \A i \in 1..n - 1 : nesting[i] # m /\ nesting[i] \in Mockers
  <2>1. \A i \in 1..n - 1 : i \in 1..n /\ i # n
    BY <1>1
  <2>2. n \in 1..n /\ nesting[n] = m /\ \A i \in 1..n : nesting[i] \in Mockers
    BY <1>1, <1>2
  <2>3. Distinct
    BY DEF Chain
  <2>4. QED
    BY <2>1, <2>2, <2>3 DEF Distinct
<1>10. ParentChain'
  <2> SUFFICES ASSUME NEW s \in Sessions, NEW i \in Covering(s)'
               PROVE  last_send'[nesting'[i]] = Around(s, i)'
    BY DEF ParentChain
  <2>1. i \in 1..n - 1 /\ Covers(nesting'[i], s)
    BY <1>2, AroundIsIn
  <2>2. nesting'[i] = nesting[i] /\ i \in 1..n
    BY <1>2, <2>1
  <2>3. i \in Covering(s)
    BY <2>1, <2>2, AroundIsIn
  <2>4. last_send[nesting[i]] = Around(s, i)
    BY <2>3 DEF Chain, ParentChain
  <2>5. Around(s, i)' = Around(s, i)
    BY <1>6, <2>2, AroundIsIn
  <2>6. last_send'[nesting[i]] = last_send[nesting[i]]
    BY <1>1
  <2>7. QED
    BY <2>2, <2>4, <2>5, <2>6
<1>11. HasRead'
  <2>1. \A s \in Sessions : Covers(m, s) => last_send'[m] = SendOf(s)'
    BY <1>1, <1>5
  <2>2. \A i \in 1..Len(nesting') : nesting'[i] # m
    BY <1>2, <1>9
  <2>3. \A u \in Threads : switching'[u] # None => u = t /\ switching'[u] = m
    BY <1>4
  <2>4. QED
    BY <1>1, <2>1, <2>2, <2>3 DEF HasRead, Covers
<1>12. Linked'
  <2> SUFFICES ASSUME NEW k \in Mockers
               PROVE  last_send[k] # None <=>
                        \/ \E i \in 1..n - 1 : nesting[i] = k
                        \/ \E u \in Threads : switching'[u] = k
    BY <1>1, <1>2 DEF Linked
  <2>1. CASE k = m
    BY <1>1, <1>4, <2>1
  <2>2. CASE k # m
    <3>1. last_send[k] # None <=> \E i \in 1..n : nesting[i] = k
      BY <1>4, MockersAssumption DEF Chain, Linked, Words
    <3>2. \A i \in 1..n : i \in 1..n - 1 \/ i = n
      BY <1>1
    <3>3. \A i \in 1..n - 1 : i \in 1..n
      BY <1>2
    <3>4. \A u \in Threads : switching'[u] # k
      BY <1>4, <2>2, MockersAssumption DEF Words
    <3>5. QED
      BY <1>1, <2>2, <3>1, <3>2, <3>3, <3>4
  <2>3. QED
    BY <2>1, <2>2
<1>13. QED
  BY <1>5, <1>7, <1>8, <1>10, <1>11, <1>12 DEF Chain

\* stop() forgets what it has put back.
LEMMA ClearKeepsChain ==
  ASSUME TypeInv, Unmixed, OneStarter, Chain, NEW t \in Threads, StopClear(t)
  PROVE  Chain'
<1> DEFINE m == switching[t]
<1>1. /\ m \in Mockers /\ m # None /\ t \in Starters
      /\ \A i \in 1..Len(nesting) : nesting[i] # m /\ nesting[i] \in Mockers
  BY MockersAssumption DEF StopClear, Chain, HasRead, TypeInv, Words
<1>2. /\ last_send' = [last_send EXCEPT ![m] = None]
      /\ switching' = [switching EXCEPT ![t] = None]
      /\ nesting' = nesting /\ send_attr' = send_attr
  BY DEF StopClear
<1> HIDE DEF m
<1>3. /\ \A k \in Mockers : k # m => last_send'[k] = last_send[k]
      /\ last_send'[m] = None
  BY <1>1, <1>2 DEF TypeInv
<1>4. \A u \in Threads : switching'[u] = None /\ (switching[u] # None => switching[u] = m)
  <2> SUFFICES ASSUME NEW u \in Threads
               PROVE  switching'[u] = None /\ (switching[u] # None => switching[u] = m)
    OBVIOUS
  <2>1. switching[u] # None => u = t
    BY <1>1 DEF Chain, HasRead, OneStarter
  <2>2. QED
    BY <1>2, <2>1 DEF TypeInv, m
<1>5. /\ \A s, i : Around(s, i)' = Around(s, i)
      /\ \A s \in Sessions : SendOf(s)' = SendOf(s) /\ Covering(s)' = Covering(s)
  BY <1>2 DEF Around, Covering, SendOf
<1>6. Distinct' /\ InnermostWins' /\ Untouched'
  <2>1. Distinct'
    BY <1>2 DEF Chain, Distinct
  <2>2. InnermostWins'
    BY <1>2, <1>5 DEF Chain, InnermostWins
  <2>3. Untouched'
    BY <1>2 DEF Chain, Untouched
  <2>4. QED
    BY <2>1, <2>2, <2>3
<1>7. ParentChain'
  <2> SUFFICES ASSUME NEW s \in Sessions, NEW i \in Covering(s)
               PROVE  last_send'[nesting[i]] = Around(s, i)
    BY <1>2, <1>5 DEF ParentChain
  <2>1. i \in 1..Len(nesting)
    BY DEF Covering
  <2>2. last_send'[nesting[i]] = last_send[nesting[i]]
    BY <1>1, <1>3, <2>1
  <2>3. QED
    BY <2>2 DEF Chain, ParentChain
<1>8. HasRead'
  BY <1>4 DEF HasRead
<1>9. Linked'
  <2> SUFFICES ASSUME NEW k \in Mockers
               PROVE  last_send'[k] # None <=> \E i \in 1..Len(nesting) : nesting[i] = k
    BY <1>2, <1>4, MockersAssumption DEF Linked, Words
  <2>1. CASE k = m
    BY <1>1, <1>3, <2>1
  <2>2. CASE k # m
    <3>1. k # None
      BY MockersAssumption DEF Words
    <3>2. \A u \in Threads : switching[u] # k
      BY <1>4, <2>2, <3>1
    <3>3. QED
      BY <1>3, <2>2, <3>2 DEF Chain, Linked
  <2>3. QED
    BY <2>1, <2>2
<1>10. QED
  BY <1>6, <1>7, <1>8, <1>9 DEF Chain

\* Every other step leaves the chain alone.
LEMMA ChainStays ==
  ASSUME Chain, UNCHANGED targetVars
  PROVE  Chain'
<1>1. /\ \A s, i : Around(s, i)' = Around(s, i)
      /\ \A s : SendOf(s)' = SendOf(s) /\ Covering(s)' = Covering(s)
  BY DEF targetVars, Around, Covering, SendOf
<1>2. Distinct' /\ Untouched' /\ Linked'
  BY DEF targetVars, Chain, Distinct, Untouched, Linked
<1>3. ParentChain'
  BY <1>1 DEF targetVars, Chain, ParentChain
<1>4. InnermostWins'
  BY <1>1 DEF targetVars, Chain, InnermostWins
<1>5. HasRead'
  BY <1>1 DEF targetVars, Chain, HasRead, Covers
<1>6. QED
  BY <1>2, <1>3, <1>4, <1>5 DEF Chain

LEMMA ChainNext ==
  ASSUME TypeInv, Unmixed, OneStarter, Chain,
         NEW t \in Threads, Progress(t) \/ UserStep(t)
  PROVE  Chain'
<1>1. \/ UNCHANGED targetVars
      \/ StartInstall(t) \/ StopClear(t)
      \/ \E m \in Mockers : StartCapture(t, m) \/ StopRestore(t, m)
  BY DEF Progress, UserStep, OnlyStack, FakeSendEnter, FakeSendExit,
     FakeSendTimeout, GetAdapter, AdapterResponds, AdapterRedirects, AdapterRaises,
     FollowRedirect, RedirectsDone, OriginalReturn, FakeSendForward, FakeSendForwardNone,
     CallbackResumes, UserSend, CallbackSend, CallbackJoins, SetRealHttp
<1>2. QED
  BY <1>1, ChainStays, InstallKeepsChain, CaptureKeepsChain, RestoreKeepsChain,
     ClearKeepsChain

\* The chain, for all behaviours of one starter.
LEMMA ChainHolds == Unmixed /\ OneStarter => (Spec => [](TypeInv /\ Chain))
<1> SUFFICES ASSUME Unmixed, OneStarter PROVE Spec => [](TypeInv /\ Chain)
  OBVIOUS
<1>1. Init => Chain
  <2> SUFFICES ASSUME Init PROVE Chain
    OBVIOUS
  <2>1. nesting = <<>> /\ \A s : Covering(s) = {}
    BY DEF Init, Covering
  <2>2. \A s \in Sessions : SendOf(s) = Original /\ Around(s, Len(nesting) + 1) = Original
    BY <2>1, SessionsAssumption DEF Init, SendOf, Around
  <2>3. Distinct /\ ParentChain /\ InnermostWins
    BY <2>1, <2>2 DEF Distinct, ParentChain, InnermostWins
  <2>4. Untouched /\ HasRead
    BY DEF Init, Untouched, HasRead
  <2>5. Linked
    BY <2>1, MockersAssumption DEF Init, Linked, Words
  <2>6. QED
    BY <2>3, <2>4, <2>5 DEF Chain
<1>2. LockInv /\ Chain /\ [Next]_vars => Chain'
  <2> SUFFICES ASSUME LockInv, Chain, [Next]_vars PROVE Chain'
    OBVIOUS
  <2>1. CASE UNCHANGED vars
    BY <2>1, ChainStays DEF vars, targetVars
  <2>2. ASSUME NEW t \in Threads, Progress(t) \/ UserStep(t)
        PROVE  Chain'
    BY <2>2, ChainNext DEF LockInv
  <2>3. QED
    BY <2>1, <2>2 DEF Next
<1>3. LockInv => TypeInv
  BY DEF LockInv
<1>4. QED
  BY LockInvHolds, <1>1, <1>2, <1>3, PTL DEF Spec

\* "When nesting mockers the innermost Mocker replaces all others": however many
\* mockers one thread starts and stops, of the class or of any sessions, and whatever
\* other threads do meanwhile, a session's send is that of the innermost started mocker
\* that covers it, or the one it had before the first.
THEOREM InnermostWinsHolds == Unmixed /\ OneStarter => (Spec => []InnermostWins)
<1>1. Chain => InnermostWins
  BY DEF Chain
<1>2. QED
  BY <1>1, ChainHolds, PTL

\* The sends of a session are intercepted exactly while a started mocker covers it.
THEOREM MockedWhileCoveredHolds ==
  Unmixed /\ OneStarter => (Spec => []MockedWhileCovered)
<1>1. TypeInv /\ Chain => MockedWhileCovered
  <2> SUFFICES ASSUME TypeInv, Chain, NEW s \in Sessions
               PROVE  SendOf(s) # Original <=> Covering(s) # {}
    BY DEF MockedWhileCovered
  <2> DEFINE n == Len(nesting)
  <2>1. SendOf(s) = Around(s, n + 1)
    BY DEF Chain, InnermostWins
  <2>2. CASE SendOf(s) # Original
    BY <2>1, <2>2, AroundType
  <2>3. CASE Covering(s) # {}
    <3>1. PICK i \in Covering(s) : TRUE
      BY <2>3
    <3>2. nesting \in Seq(Mockers) /\ i \in Outside(nesting, s, n + 1)
      BY <3>1 DEF TypeInv, Covering, Outside, Covers
    <3>3. \E j \in Outside(nesting, s, n + 1) : Around(s, n + 1) = nesting[j]
      BY <3>2, AroundLast, AroundIsIn
    <3>4. Around(s, n + 1) \in Mockers
      BY <3>2, <3>3 DEF Outside
    <3>5. QED
      BY <2>1, <2>3, <3>4, MockersAssumption DEF Words
  <2>4. QED
    BY <2>2, <2>3
<1>2. QED
  BY <1>1, ChainHolds, PTL

\* Each started mocker forwards to the one that contains it, among those that cover the
\* session, and the outermost of them to the send of the requests package.
THEOREM ParentChainHolds == Unmixed /\ OneStarter => (Spec => []ParentChain)
<1>1. Chain => ParentChain
  BY DEF Chain
<1>2. QED
  BY <1>1, ChainHolds, PTL

-----------------------------------------------------------------------------
(* What get_adapter is put back to, when the mockers of a session start    *)
(* while it has no call under way, and those of the class at any time.     *)

\* The get_adapter functions that a session may have while no call for it is mocked: its
\* own class's, and that of requests.Session, which a mocker of the class puts there.
Getters(s) ==
  {ClassGetAdapter(s)} \cup {g \in {Original} : \E m \in Mockers : Target[m] = SessionClass}

PreviousGetters(m) == IF Target[m] = SessionClass THEN {Original} ELSE Getters(Target[m])

\* start() only ever reads one of those, and what else a session has is from a call for
\* that session, which is inside the `with` block.
Restoring ==
  /\ \A m \in Mockers : last_get_adapter[m] \in {None} \cup PreviousGetters(m)
  /\ \A s \in Sessions :
       \/ adapter_attr[s] \in {Absent} \cup Getters(s)
       \/ \E u \in Threads : \E i \in Held(u) :
            stack[u][i].session = s /\ stack[u][i].fn = adapter_attr[s]

LEMMA GettersAre ==
  /\ \A s \in Sessions : Getters(s) \subseteq {Original, Override}
  /\ \A s \in Sessions : Absent \notin Getters(s) /\ None \notin Getters(s)
                           /\ Getters(s) \cap Mockers = {}
  /\ \A m \in Mockers, s \in Sessions : Fits(m, s) => PreviousGetters(m) \subseteq Getters(s)
<1>1. \A s \in Sessions : Getters(s) \subseteq {Original, Override}
  BY DEF Getters, ClassGetAdapter
<1>2. \A s \in Sessions : Absent \notin Getters(s) /\ None \notin Getters(s)
                            /\ Getters(s) \cap Mockers = {}
  BY <1>1, MockersAssumption DEF Words
<1>3. \A m \in Mockers, s \in Sessions : Fits(m, s) => PreviousGetters(m) \subseteq Getters(s)
  BY DEF Fits, PreviousGetters, Getters
<1>4. QED
  BY <1>1, <1>2, <1>3

\* A call that is inside the block puts one of its session's own functions back.
LEMMA PutsBack ==
  ASSUME CallInv, Restoring, NEW t \in Threads, Active(t), Top(t).fn \in Mockers
  PROVE  last_get_adapter[Top(t).fn] \in Getters(Top(t).session)
<1>1. TypeInv /\ Len(stack[t]) \in 1..Len(stack[t]) /\ Top(t).session \in Sessions
  BY TopType, TopFields DEF CallInv, LockInv, TypeInv
<1>2. Fits(Top(t).fn, Top(t).session)
  BY <1>1 DEF CallInv, FitInv, FrameFits, Top
<1>3. Top(t).fn \in Captured
  BY <1>1 DEF CallInv, CapturedInv, Top
<1>4. last_get_adapter[Top(t).fn] \in PreviousGetters(Top(t).fn)
  BY <1>3, MockersAssumption DEF Captured, Restoring, Words
<1>5. QED
  BY <1>1, <1>2, <1>4, GettersAre

\* A call keeps its session for as long as it is on the stack, and its mocker while it
\* is inside the block.
LEMMA CallsKept ==
  ASSUME TypeInv, NEW t \in Threads, Places(t),
         NEW i \in 1..Len(stack[t]), i \in 1..Len(stack'[t])
  PROVE  /\ stack'[t][i].session = stack[t][i].session
         /\ Holding(stack[t][i]) => stack'[t][i].fn = stack[t][i].fn
<1> DEFINE n == Len(stack[t])
           kept == /\ stack'[t][i].session = stack[t][i].session
                   /\ Holding(stack[t][i]) => stack'[t][i].fn = stack[t][i].fn
<1>1. stack \in Stacks /\ n \in Nat /\ n > 0 /\ Active(t) /\ stack[t][i] \in Frame
  BY DEF TypeInv, Stacks, Active
<1>2. Top(t) = stack[t][n] /\ Top(t) \in Frame /\ (i = n \/ i \in 1..n - 1)
  BY <1>1, TopType DEF Top
<1>3. CASE stack' = stack
  BY <1>3
<1>4. ASSUME NEW f \in Frame, Continues(t, f) \/ ForwardsTo(t, f), SetTop(t, f)
      PROVE  kept
  <2>1. stack'[t][n] = f /\ \A j \in 1..n - 1 : stack'[t][j] = stack[t][j]
    BY <1>1, <1>4, SetTopFrames
  <2>2. f.session = Top(t).session /\ (Holding(Top(t)) => f.fn = Top(t).fn)
    BY <1>4 DEF Continues, ForwardsTo, Holding
  <2>3. QED
    BY <1>2, <2>1, <2>2
<1>5. ASSUME NEW f \in Frame, MayNest(t), Nest(t, f)
      PROVE  kept
  <2>1. /\ stack'[t][n] = [Top(t) EXCEPT !.nested = @ + 1]
        /\ \A j \in 1..n - 1 : stack'[t][j] = stack[t][j]
    BY <1>1, <1>5, NestFrames
  <2>2. /\ [Top(t) EXCEPT !.nested = @ + 1].session = Top(t).session
        /\ [Top(t) EXCEPT !.nested = @ + 1].fn = Top(t).fn
    BY <1>2 DEF Frame
  <2>3. QED
    BY <1>2, <2>1, <2>2
<1>6. ASSUME NEW r \in Results \cup {None}, Return(t, r)
      PROVE  kept
  <2>1. /\ Len(stack'[t]) = n - 1
        /\ \A j \in 1..n - 1 : stack'[t][j] = stack[t][j] \/ stack'[t][j] = Leaving(stack[t][j], r)
    BY <1>1, <1>6, ReturnFrames
  <2>2. /\ Leaving(stack[t][i], r).session = stack[t][i].session
        /\ Leaving(stack[t][i], r).fn = stack[t][i].fn
    BY <1>1 DEF Leaving, Frame
  <2>3. QED
    BY <2>1, <2>2
<1>7. QED
  BY <1>1, <1>3, <1>4, <1>5, <1>6 DEF Places

\* A call that stays inside the block stays the same mocker's, for the same session.
LEMMA HolderStays ==
  ASSUME TypeInv, NEW t \in Threads, Places(t),
         NEW u \in Threads, NEW i \in Held(u), i \in Held(u)'
  PROVE  stack'[u][i].session = stack[u][i].session /\ stack'[u][i].fn = stack[u][i].fn
<1>1. i \in 1..Len(stack[u]) /\ i \in 1..Len(stack'[u]) /\ Holding(stack[u][i])
  BY DEF Held
<1>2. CASE u = t
  BY <1>1, <1>2, CallsKept
<1>3. CASE u # t
  BY <1>3, OthersStay
<1>4. QED
  BY <1>2, <1>3

\* start() reads one of the functions of its target.
LEMMA ReadsGetter ==
  ASSUME CallInv, Restoring, QuietSessions,
         NEW t \in Threads, NEW m \in Mockers, StartCapture(t, m)
  PROVE  PreviousGetAdapter(Target[m]) \in PreviousGetters(m)
<1>1. CASE Target[m] = SessionClass
  BY <1>1 DEF PreviousGetAdapter, PreviousGetters
<1>2. CASE Target[m] # SessionClass
  <2>1. Target[m] \in Sessions /\ QuietFor(m) /\ InStarterCode(t)
    BY <1>2, MockersAssumption DEF QuietSessions, StartCapture
  <2>2. \A u \in Threads : \A i \in Held(u) : stack[u][i].session # Target[m]
    BY <2>1, QuietTime DEF Held
  <2>3. adapter_attr[Target[m]] \in {Absent} \cup Getters(Target[m])
    BY <2>1, <2>2 DEF Restoring
  <2>4. GetAdapterOf(Target[m]) \in Getters(Target[m])
    BY <2>3 DEF GetAdapterOf, Getters
  <2>5. QED
    BY <1>2, <2>4 DEF PreviousGetAdapter, PreviousGetters
<1>3. QED
  BY <1>1, <1>2

\* Every step keeps Restoring.
LEMMA RestoringNext ==
  ASSUME TypeInv, CallInv, Restoring, QuietSessions,
         NEW t \in Threads, Progress(t) \/ UserStep(t)
  PROVE  Restoring'
<1> DEFINE n == Len(stack[t])
<1>1. Places(t)
  BY StepPlaces
<1>2. \A m \in Mockers : last_get_adapter'[m] \in {None} \cup PreviousGetters(m)
  <2>1. ASSUME NEW m \in Mockers, StartCapture(t, m)
        PROVE  \A k \in Mockers : last_get_adapter'[k] \in {None} \cup PreviousGetters(k)
    <3>1. last_get_adapter' = [last_get_adapter EXCEPT ![m] = PreviousGetAdapter(Target[m])]
      BY <2>1 DEF StartCapture
    <3>2. PreviousGetAdapter(Target[m]) \in PreviousGetters(m)
      BY <2>1, ReadsGetter
    <3>3. QED
      BY <3>1, <3>2 DEF Restoring, TypeInv
  <2>2. CASE last_get_adapter' = last_get_adapter
    BY <2>2 DEF Restoring
  <2>3. QED
    BY <2>1, <2>2 DEF Progress, UserStep, OnlyStack, targetVars,
       FakeSendEnter, FakeSendTimeout, GetAdapter, AdapterResponds, AdapterRedirects,
       AdapterRaises, FollowRedirect, RedirectsDone, OriginalReturn, FakeSendExit,
       FakeSendForward, FakeSendForwardNone, StartInstall, StopClear, CallbackResumes, UserSend,
       CallbackSend, CallbackJoins, StopRestore, SetRealHttp
<1>3. ASSUME adapter_attr' = adapter_attr, \A u \in Threads : Held(u)' = Held(u)
      PROVE  Restoring'
  <2>1. \A u \in Threads : \A i \in Held(u) :
          /\ i \in Held(u)'
          /\ stack'[u][i].session = stack[u][i].session /\ stack'[u][i].fn = stack[u][i].fn
    BY <1>1, <1>3, HolderStays
  <2>2. QED
    BY <1>2, <1>3, <2>1 DEF Restoring, PreviousGetters, Getters, ClassGetAdapter
<1>4. CASE FakeSendEnter(t)
  <2> DEFINE f == [Top(t) EXCEPT !.pc = "lookup"]
  <2>1. /\ Active(t) /\ f \in Frame /\ SetTop(t, f) /\ Top(t).session \in Sessions
        /\ adapter_attr' = [adapter_attr EXCEPT ![Top(t).session] = Top(t).fn]
    BY <1>4, TopUpdates, TopFields DEF FakeSendEnter, PCs
  <2>2. Holding(f) /\ ~Holding(Top(t))
    BY <1>4, <2>1, TopHolding DEF FakeSendEnter, Holding, PCs
  <2>3. /\ Held(t)' = Held(t) \cup {n}
        /\ \A u \in Threads : Held(u) \subseteq Held(u)'
    <3> HIDE DEF f
    <3> QED BY <2>1, <2>2, SetTopHeld
  <2>4. stack'[t][n].session = Top(t).session /\ stack'[t][n].fn = Top(t).fn
    <3>1. stack'[t][n] = f
      BY <2>1, SetTopFrames DEF TypeInv
    <3>2. QED
      BY <2>1, <3>1, TopUpdates DEF Frame
  <2>5. \A u \in Threads : \A i \in Held(u) :
          /\ i \in Held(u)'
          /\ stack'[u][i].session = stack[u][i].session /\ stack'[u][i].fn = stack[u][i].fn
    BY <1>1, <2>3, HolderStays
  <2>6. ASSUME NEW s \in Sessions
        PROVE  \/ adapter_attr'[s] \in {Absent} \cup Getters(s)
               \/ \E u \in Threads : \E i \in Held(u)' :
                    stack'[u][i].session = s /\ stack'[u][i].fn = adapter_attr'[s]
    <3>1. CASE s = Top(t).session
      <4>1. adapter_attr'[s] = Top(t).fn
        BY <2>1, <3>1 DEF TypeInv
      <4>2. QED
        BY <2>3, <2>4, <3>1, <4>1
    <3>2. CASE s # Top(t).session
      <4>1. adapter_attr'[s] = adapter_attr[s]
        BY <2>1, <3>2 DEF TypeInv
      <4>2. QED
        BY <2>5, <4>1 DEF Restoring
    <3>3. QED
      BY <3>1, <3>2
  <2>7. QED
    BY <1>2, <2>6 DEF Restoring
<1>5. CASE FakeSendExit(t)
  <2>1. /\ Active(t) /\ Top(t).fn \in Mockers /\ Holding(Top(t))
        /\ Top(t).session \in Sessions
        /\ adapter_attr' = [adapter_attr EXCEPT ![Top(t).session] = last_get_adapter[Top(t).fn]]
    BY <1>5, TopFields DEF FakeSendExit, Restored, Holding
  <2>2. last_get_adapter[Top(t).fn] \in Getters(Top(t).session)
    BY <2>1, PutsBack
  <2>3. /\ Held(t)' = Held(t) \ {n}
        /\ \A u \in Threads \ {t} : Held(u)' = Held(u)
    <3>1. CASE Forwards(Top(t))
      <4> DEFINE f == [Top(t) EXCEPT !.pc = "forward"]
      <4>1. SetTop(t, f) /\ f \in Frame
        BY <1>5, <2>1, <3>1, TopUpdates DEF FakeSendExit, PCs
      <4>2. ~Holding(f)
        BY <2>1, TopHolding DEF PCs
      <4> HIDE DEF f
      <4>3. QED
        BY <2>1, <4>1, <4>2, SetTopHeld
    <3>2. CASE ~Forwards(Top(t))
      BY <1>5, <2>1, <3>2, ReturnHeld, TopFields DEF FakeSendExit
    <3>3. QED
      BY <3>1, <3>2
  <2>4. ASSUME NEW s \in Sessions
        PROVE  \/ adapter_attr'[s] \in {Absent} \cup Getters(s)
               \/ \E u \in Threads : \E i \in Held(u)' :
                    stack'[u][i].session = s /\ stack'[u][i].fn = adapter_attr'[s]
    <3>1. CASE s = Top(t).session
      BY <2>1, <2>2, <3>1 DEF TypeInv
    <3>2. CASE s # Top(t).session
      <4>1. adapter_attr'[s] = adapter_attr[s]
        BY <2>1, <3>2 DEF TypeInv
      <4>2. ASSUME NEW u \in Threads, NEW i \in Held(u), stack[u][i].session = s
            PROVE  /\ i \in Held(u)' /\ stack'[u][i].session = s
                   /\ stack'[u][i].fn = stack[u][i].fn
        <5>1. u # t \/ i # n
          BY <3>2, <4>2 DEF Top
        <5>2. i \in Held(u)'
          BY <2>3, <5>1
        <5>3. QED
          BY <1>1, <4>2, <5>2, HolderStays
      <4>3. QED
        BY <4>1, <4>2 DEF Restoring
    <3>3. QED
      BY <3>1, <3>2
  <2>5. QED
    BY <1>2, <2>4 DEF Restoring
<1>6. CASE ~FakeSendEnter(t) /\ ~FakeSendExit(t)
  <2>1. adapter_attr' = adapter_attr
    BY <1>6 DEF Progress, UserStep, OnlyStack, FakeSendTimeout, GetAdapter,
       AdapterResponds, AdapterRedirects, AdapterRaises, FollowRedirect, RedirectsDone,
       OriginalReturn, FakeSendForward, FakeSendForwardNone, StartInstall, StopClear,
       CallbackResumes, UserSend, CallbackSend, CallbackJoins, StartCapture, StopRestore,
       SetRealHttp
  <2>2. \A u \in Threads : Held(u)' = Held(u)
    BY <1>6, HeldKept DEF Progress
  <2>3. QED
    BY <1>3, <2>1, <2>2
<1>7. QED
  BY <1>4, <1>5, <1>6

LEMMA RestoringHolds == QuietSessions => (Spec => []Restoring)
<1> SUFFICES ASSUME QuietSessions PROVE Spec => []Restoring
  OBVIOUS
<1>1. Init => Restoring
  BY DEF Init, Restoring
<1>2. CallInv /\ Restoring /\ [Next]_vars => Restoring'
  <2> SUFFICES ASSUME CallInv, Restoring, [Next]_vars PROVE Restoring'
    OBVIOUS
  <2>1. CASE UNCHANGED vars
    BY <2>1 DEF vars, Restoring, Held, Holding
  <2>2. ASSUME NEW t \in Threads, Progress(t) \/ UserStep(t)
        PROVE  Restoring'
    BY <2>2, RestoringNext DEF CallInv, LockInv
  <2>3. QED
    BY <2>1, <2>2 DEF Next
<1>3. QED
  BY <1>1, <1>2, CallInvHolds, PTL DEF Spec

\* A mocker of the class puts back the get_adapter of requests.Session, which is not
\* that of a session whose own class overrides it.
PlainSessions == (\E m \in Mockers : Target[m] = SessionClass) => Overriding = {}

\* While nobody is inside a mocked send, every session finds the get_adapter it had
\* before it was mocked, whichever mockers of the class were started and stopped while
\* calls were under way, and those of a session between its calls, and however those
\* calls ended.
THEOREM AdapterRestoredHolds ==
  QuietSessions /\ PlainSessions => (Spec => []AdapterRestored)
<1> SUFFICES ASSUME QuietSessions, PlainSessions PROVE Spec => []AdapterRestored
  OBVIOUS
<1>1. LockInv /\ Restoring => AdapterRestored
  <2> SUFFICES ASSUME LockInv, Restoring, send_lock.owner = None, NEW s \in Sessions
               PROVE  GetAdapterOf(s) = ClassGetAdapter(s)
    BY DEF AdapterRestored
  <2>1. \A u \in Threads : Held(u) = {}
    BY HoldersOwn, ThreadsAssumption DEF LockInv, Held
  <2>2. adapter_attr[s] \in {Absent} \cup Getters(s)
    BY <2>1 DEF Restoring
  <2>3. Getters(s) = {ClassGetAdapter(s)}
    BY DEF Getters, ClassGetAdapter, PlainSessions
  <2>4. QED
    BY <2>2, <2>3 DEF GetAdapterOf
<1>2. QED
  BY <1>1, LockInvHolds, RestoringHolds, PTL

-----------------------------------------------------------------------------
(* Requests that are forwarded, by threads that do not share sessions.     *)

PrivateSessions == \A t, u \in Threads : t # u => Uses[t] \cap Uses[u] = {}

\* A call that its mocker has refused, on its way to the next mocker or to a lookup by
\* the requests package.
Refused(f) == f.pc = "forward" \/ (f.fn = Original /\ f.forwarded /\ f.pc = "lookup")

\* No mocker is left on the session of such a call.
Cleared == \A t \in Threads : Active(t) /\ Refused(Top(t)) => adapter_attr[Top(t).session] \notin Mockers

\* A call that gets control back is at its adapter, at a redirect or leaving.
LEMMA ReturnTop ==
  ASSUME TypeInv, CallersWait, NEW t \in Threads, Active(t), NEW r \in Results \cup {None},
         Return(t, r), Len(stack'[t]) > 0
  PROVE  stack'[t][Len(stack'[t])].pc \in {"adapter", "redirect", "exit"}
<1> DEFINE n == Len(stack[t])
<1>1. stack \in Stacks /\ n \in Nat /\ Len(stack'[t]) = n - 1 /\ n - 1 \in 1..n - 1
  BY ReturnFrames DEF TypeInv, Stacks
<1>2. /\ stack[t][n - 1] \in Frame
      /\ stack[t][n - 1].pc \in {"adapter", "redirect"}
      /\ \/ stack'[t][n - 1] = stack[t][n - 1]
         \/ stack'[t][n - 1] = Leaving(stack[t][n - 1], r)
  <2>1. n - 1 \in 1..n
    BY <1>1
  <2>2. stack[t][n - 1] \in Frame
    BY <1>1, <2>1 DEF Stacks
  <2>3. stack[t][n - 1].pc \in {"adapter", "redirect"}
    BY <1>1 DEF CallersWait
  <2>4. \A i \in 1..n - 1 :
          stack'[t][i] = stack[t][i] \/ stack'[t][i] = Leaving(stack[t][i], r)
    BY <1>1, ReturnFrames
  <2>5. QED
    BY <1>1, <2>2, <2>3, <2>4
<1>3. Leaving(stack[t][n - 1], r).pc = "exit"
  BY <1>2 DEF Leaving, Frame
<1>4. QED
  BY <1>1, <1>2, <1>3

\* The innermost call after a step: one at its adapter, at a redirect or leaving; the one
\* before the step; a new one; or one that a mocker's send has just moved on.
LEMMA StepTop ==
  ASSUME TypeInv, CallersWait, NEW t \in Threads, Progress(t) \/ UserStep(t), Active(t)'
  PROVE  \/ Top(t)'.pc \in {"adapter", "redirect", "exit"}
         \/ stack' = stack /\ adapter_attr' = adapter_attr
         \/ \E s \in Sessions, follow \in BOOLEAN :
              Top(t)' = NewFrame(SendOf(s), s, follow, FALSE)
         \/ FakeSendEnter(t) /\ Top(t)' = [Top(t) EXCEPT !.pc = "lookup"]
         \/ FakeSendExit(t) /\ Top(t)' = [Top(t) EXCEPT !.pc = "forward"]
         \/ /\ FakeSendForward(t)
            /\ Top(t)' = NewFrame(last_send[Top(t).fn], Top(t).session, Top(t).follow, TRUE)
<1> USE DEF AdapterDone
<1> DEFINE n == Len(stack[t])
           top == stack'[t][Len(stack'[t])]
<1>1. stack \in Stacks /\ (Active(t) => Top(t) \in Frame)
  BY TopType DEF TypeInv
<1>2. Top(t)' = top /\ Len(stack'[t]) > 0
  BY DEF Active, Top
<1>3. ASSUME NEW f \in Frame, Active(t), SetTop(t, f)
      PROVE  top = f
  BY <1>1, <1>3, SetTopFrames
<1>4. ASSUME NEW r \in Results \cup {None}, Active(t), Return(t, r)
      PROVE  top.pc \in {"adapter", "redirect", "exit"}
  BY <1>2, <1>4, ReturnTop
<1>5. ASSUME NEW s \in Sessions, NEW follow \in BOOLEAN, NEW f,
             f = NewFrame(SendOf(s), s, follow, FALSE),
             \/ Active(t) /\ MayNest(t) /\ Nest(t, f)
             \/ stack' = [stack EXCEPT ![t] = <<f>>]
      PROVE  top = f
  <2>1. f \in Frame
    BY <1>5, SendOfType, NewFrameType
  <2>2. CASE Active(t) /\ MayNest(t) /\ Nest(t, f)
    BY <1>1, <2>1, <2>2, NestFrames, TopType
  <2>3. CASE stack' = [stack EXCEPT ![t] = <<f>>]
    <3>1. stack'[t] = <<f>>
      BY <1>1, <2>3 DEF Stacks
    <3>2. QED
      BY <3>1
  <2>4. QED
    BY <1>5, <2>2, <2>3
<1>6. CASE FakeSendEnter(t)
  <2> DEFINE f == [Top(t) EXCEPT !.pc = "lookup"]
  <2>1. Active(t) /\ SetTop(t, f) /\ f \in Frame
    BY <1>6, TopUpdates DEF FakeSendEnter, PCs
  <2>2. QED
    BY <1>2, <1>3, <1>6, <2>1
<1>7. CASE FakeSendExit(t)
  <2> DEFINE f == [Top(t) EXCEPT !.pc = "forward"]
  <2>1. Active(t) /\ f \in Frame /\ Top(t).result \in Results \cup {None}
    BY <1>7, TopUpdates, TopFields DEF FakeSendExit, PCs
  <2>2. SetTop(t, f) \/ Return(t, Top(t).result)
    BY <1>7 DEF FakeSendExit
  <2>3. QED
    BY <1>2, <1>3, <1>4, <1>7, <2>1, <2>2
<1>8. CASE FakeSendForward(t)
  <2> DEFINE f == NewFrame(last_send[Top(t).fn], Top(t).session, Top(t).follow, TRUE)
  <2>1. Active(t) /\ SetTop(t, f) /\ last_send[Top(t).fn] \in Functions
    BY <1>8 DEF FakeSendForward, Unset, TypeInv
  <2>2. f \in Frame
    BY <2>1, TopFields, NewFrameType
  <2>3. QED
    BY <1>2, <1>3, <1>8, <2>1, <2>2
<1>9. CASE GetAdapter(t) \/ AdapterResponds(t) \/ AdapterRedirects(t) \/ RedirectsDone(t)
           \/ \E e \in Results : AdapterRaises(t, e)
  <2> DEFINE a == [Top(t) EXCEPT !.pc = "adapter",
                     !.adapter = AdapterFrom(GetAdapterOf(Top(t).session))]
             f == Leaving([Top(t) EXCEPT !.served = TRUE], "response")
             g == [Top(t) EXCEPT !.pc = "redirect", !.served = TRUE]
  <2>1. /\ Active(t) /\ a \in Frame /\ f \in Frame /\ g \in Frame
        /\ \A r \in Results : Leaving(Top(t), r) \in Frame
    BY <1>9, TopUpdates DEF GetAdapter, AdapterResponds, AdapterRedirects, RedirectsDone,
       AdapterRaises
  <2>2. /\ a.pc = "adapter" /\ f.pc = "exit" /\ g.pc = "redirect"
        /\ \A r \in Results : Leaving(Top(t), r).pc = "exit"
    BY <1>1, <2>1 DEF Frame, Leaving
  <2>3. \/ SetTop(t, a) \/ SetTop(t, f) \/ SetTop(t, g)
        \/ \E r \in Results : SetTop(t, Leaving(Top(t), r))
    BY <1>9 DEF GetAdapter, AdapterResponds, AdapterRedirects, RedirectsDone, AdapterRaises,
       Results
  <2> HIDE DEF a, f, g
  <2>4. QED
    BY <1>2, <1>3, <2>1, <2>2, <2>3
<1>10. ASSUME NEW u \in Threads, CallbackJoins(t, u)
       PROVE  top.pc = "adapter"
  <2> DEFINE f == [Top(t) EXCEPT !.nested = @ + 1]
  <2>1. Active(t) /\ SetTop(t, f) /\ f \in Frame /\ Top(t).pc = "adapter"
    BY <1>10, TopUpdates DEF CallbackJoins, InCallback
  <2>2. f.pc = "adapter"
    BY <1>1, <2>1 DEF Frame
  <2>3. QED
    BY <1>3, <2>1, <2>2
<1>11. CASE FollowRedirect(t)
  <2>1. /\ Active(t) /\ MayNest(t) /\ Top(t).session \in Sessions
        /\ Nest(t, NewFrame(SendOf(Top(t).session), Top(t).session, FALSE, FALSE))
    BY <1>11, TopFields DEF FollowRedirect
  <2>2. QED
    BY <1>2, <1>5, <2>1
<1>12. ASSUME NEW s \in Sessions, UserSend(t, s) \/ CallbackSend(t, s)
       PROVE  top = NewFrame(SendOf(s), s, TRUE, FALSE)
  <2> DEFINE f == NewFrame(SendOf(s), s, TRUE, FALSE)
  <2>1. \/ Active(t) /\ MayNest(t) /\ Nest(t, f)
        \/ stack' = [stack EXCEPT ![t] = <<f>>]
    BY <1>12 DEF UserSend, CallbackSend, InCallback
  <2>2. QED
    BY <1>5, <2>1
<1>13. CASE FakeSendTimeout(t) \/ FakeSendForwardNone(t) \/ OriginalReturn(t)
  <2>1. Active(t) /\ Top(t).result \in Results \cup {None}
    BY <1>13, TopFields DEF FakeSendTimeout, FakeSendForwardNone, OriginalReturn
  <2>2. \E r \in Results \cup {None} : Return(t, r)
    BY <1>13, <2>1 DEF FakeSendTimeout, FakeSendForwardNone, OriginalReturn, Results
  <2>3. QED
    BY <1>2, <1>4, <2>1, <2>2
<1>14. CASE StartInstall(t) \/ StopClear(t) \/ CallbackResumes(t)
            \/ \E m \in Mockers : StartCapture(t, m) \/ StopRestore(t, m) \/ SetRealHttp(t, m)
  BY <1>14 DEF StartInstall, StopClear, CallbackResumes, StartCapture, StopRestore, SetRealHttp
<1>15. QED
  BY <1>2, <1>6, <1>7, <1>8, <1>9, <1>10, <1>11, <1>12, <1>13, <1>14 DEF Progress, UserStep

\* Every step keeps Cleared.
LEMMA ClearedNext ==
  ASSUME CallInv, Restoring, PrivateSessions, Cleared,
         NEW t \in Threads, Progress(t) \/ UserStep(t)
  PROVE  Cleared'
<1>1. TypeInv /\ CallersWait /\ OwnSessions /\ stack \in Stacks /\ Places(t)
  BY StepPlaces DEF CallInv, LockInv, TypeInv
<1>2. \A u \in Threads \ {t} : stack'[u] = stack[u]
  BY <1>1, OthersStay
<1>3. Active(t) => Top(t).session \in Uses[t] /\ Top(t).session \in Sessions /\ Top(t) \in Frame
  BY <1>1, TopType, TopFields DEF OwnSessions, Top
<1>4. \/ adapter_attr' = adapter_attr
      \/ \E g : Active(t) /\ adapter_attr' = [adapter_attr EXCEPT ![Top(t).session] = g]
  <2>1. CASE FakeSendEnter(t) \/ FakeSendExit(t)
    BY <2>1 DEF FakeSendEnter, FakeSendExit, Restored
  <2>2. QED
    BY <2>1 DEF Progress, UserStep, OnlyStack, FakeSendTimeout, GetAdapter,
       AdapterResponds, AdapterRedirects, AdapterRaises, FollowRedirect, RedirectsDone,
       OriginalReturn, FakeSendForward, FakeSendForwardNone, StartInstall, StopClear,
       CallbackResumes, UserSend, CallbackSend, CallbackJoins, StartCapture, StopRestore,
       SetRealHttp
<1>5. ASSUME NEW u \in Threads \ {t}, Active(u)', Refused(Top(u))'
      PROVE  adapter_attr'[Top(u)'.session] \notin Mockers
  <2>1. Active(u) /\ Top(u)' = Top(u) /\ Refused(Top(u))
    BY <1>2, <1>5 DEF Active, Top, Refused
  <2>2. Top(u).session \in Uses[u] /\ Top(u).session \in Sessions
    BY <1>1, <2>1, TopType, TopFields DEF OwnSessions, Top
  <2>3. Active(t) => Top(u).session # Top(t).session
    BY <1>3, <2>2 DEF PrivateSessions
  <2>4. adapter_attr'[Top(u).session] = adapter_attr[Top(u).session]
    BY <1>1, <1>4, <2>2, <2>3 DEF TypeInv
  <2>5. QED
    BY <2>1, <2>4 DEF Cleared
<1>6. ASSUME Active(t)', Refused(Top(t))'
      PROVE  adapter_attr'[Top(t)'.session] \notin Mockers
  <2>1. Refused(Top(t)')
    BY <1>6 DEF Refused
  <2>2. CASE stack' = stack /\ adapter_attr' = adapter_attr
    BY <1>6, <2>2 DEF Cleared, Active, Top, Refused
  <2>3. CASE FakeSendEnter(t) /\ Top(t)' = [Top(t) EXCEPT !.pc = "lookup"]
    BY <1>3, <2>1, <2>3, MockersAssumption DEF FakeSendEnter, Refused, Frame, Words
  <2>4. CASE FakeSendExit(t) /\ Top(t)' = [Top(t) EXCEPT !.pc = "forward"]
    <3>1. Active(t) /\ Top(t).fn \in Mockers
      BY <2>4 DEF FakeSendExit
    <3>2. Top(t)'.session = Top(t).session
      BY <1>3, <2>4, <3>1 DEF Frame
    <3>3. last_get_adapter[Top(t).fn] \in Getters(Top(t).session)
      BY <3>1, PutsBack
    <3>4. adapter_attr'[Top(t).session] \in Getters(Top(t).session)
      BY <1>1, <1>3, <2>4, <3>1, <3>3 DEF FakeSendExit, Restored, TypeInv
    <3>5. QED
      BY <1>3, <3>1, <3>2, <3>4, GettersAre
  <2>5. CASE /\ FakeSendForward(t)
             /\ Top(t)' = NewFrame(last_send[Top(t).fn], Top(t).session, Top(t).follow, TRUE)
    <3>1. Active(t) /\ Refused(Top(t)) /\ adapter_attr' = adapter_attr
      BY <2>5 DEF FakeSendForward, OnlyStack, Refused
    <3>2. Top(t)'.session = Top(t).session
      BY <2>5 DEF NewFrame
    <3>3. QED
      BY <3>1, <3>2 DEF Cleared
  <2>6. ASSUME NEW s \in Sessions, NEW follow \in BOOLEAN
        PROVE  ~Refused(NewFrame(SendOf(s), s, follow, FALSE))
    BY DEF NewFrame, Refused
  <2>7. QED
    BY <1>1, <1>6, <2>1, <2>2, <2>3, <2>4, <2>5, <2>6, StepTop DEF Refused
<1>7. QED
  BY <1>5, <1>6 DEF Cleared

\* The calls that were forwarded to the requests package have no mocker for an adapter.
ForwardedReal(f) == (f.fn = Original /\ f.forwarded) => f.adapter \in {None, Real}

\* The lookup of a forwarded call finds a real adapter.
LEMMA ForwardedNext ==
  ASSUME TypeInv, Cleared, ForwardedIsReal, NEW t \in Threads, Places(t)
  PROVE  ForwardedIsReal'
<1> DEFINE S == {f \in Frame : ForwardedReal(f)}
<1>1. stack \in Stacks /\ Len(stack[t]) \in Nat
  BY DEF TypeInv, Stacks
<1>2. \A i \in 1..Len(stack[t]) : stack[t][i] \in S
  BY <1>1 DEF ForwardedIsReal, ForwardedReal, Stacks
<1>3. Active(t) => Top(t) \in S
  BY <1>1, <1>2, TopType DEF Top
<1>4. ASSUME NEW f \in Frame, Begins(t, f) \/ Continues(t, f) \/ ForwardsTo(t, f)
      PROVE  f \in S
  <2>1. CASE Begins(t, f) \/ ForwardsTo(t, f)
    BY <2>1 DEF Begins, ForwardsTo, ForwardedReal
  <2>2. CASE Continues(t, f)
    <3>1. /\ Active(t) /\ ForwardedReal(Top(t)) /\ Top(t).session \in Sessions
          /\ f.fn = Top(t).fn /\ f.forwarded = Top(t).forwarded /\ f.session = Top(t).session
      BY <1>3, <2>2, TopFields DEF Continues
    <3>2. CASE f.adapter = Top(t).adapter
      BY <3>1, <3>2 DEF ForwardedReal
    <3>3. CASE At(t, "lookup") /\ f.adapter = AdapterFrom(GetAdapterOf(f.session))
      <4> SUFFICES ASSUME f.fn = Original, f.forwarded PROVE f.adapter = Real
        BY DEF ForwardedReal
      <4>1. adapter_attr[Top(t).session] \notin Mockers
        BY <3>1, <3>3 DEF Cleared, Refused
      <4>2. GetAdapterOf(f.session) \notin Mockers
        BY <3>1, <4>1, MockersAssumption DEF GetAdapterOf, ClassGetAdapter, Words
      <4>3. QED
        BY <3>3, <4>2 DEF AdapterFrom
    <3>4. QED
      BY <2>2, <3>2, <3>3 DEF Continues
  <2>3. QED
    BY <1>4, <2>1, <2>2
<1>5. ASSUME NEW f \in Frame \cap S, NEW r \in Results \cup {None}
      PROVE  Leaving(f, r) \in S
  <2>1. Leaving(f, r) \in Frame
    BY DEF Leaving, Frame, PCs
  <2>2. QED
    BY <2>1 DEF Leaving, Frame, ForwardedReal
<1>6. Active(t) /\ MayNest(t) => [Top(t) EXCEPT !.nested = @ + 1] \in S
  <2> SUFFICES ASSUME Active(t), MayNest(t) PROVE [Top(t) EXCEPT !.nested = @ + 1] \in S
    OBVIOUS
  <2>1. Top(t).nested + 1 \in 0..MaxNested
    BY <1>3, BoundsAssumption DEF MayNest, Frame
  <2>2. QED
    BY <1>3, <2>1 DEF Frame, ForwardedReal
<1>7. \A i \in 1..Len(stack'[t]) : stack'[t][i] \in S
  <2> HIDE DEF S
  <2> QED BY <1>2, <1>4, <1>5, <1>6, FramesStay
<1>8. QED
  BY <1>7, OthersStay DEF ForwardedIsReal, ForwardedReal

Forwarding == Restoring /\ Cleared /\ ForwardedIsReal

LEMMA ForwardingHolds == QuietSessions /\ PrivateSessions => (Spec => []Forwarding)
<1> SUFFICES ASSUME QuietSessions, PrivateSessions PROVE Spec => []Forwarding
  OBVIOUS
<1>1. Init => Forwarding
  BY DEF Init, Forwarding, Restoring, Cleared, Active, ForwardedIsReal
<1>2. CallInv /\ Forwarding /\ [Next]_vars => Forwarding'
  <2> SUFFICES ASSUME CallInv, Forwarding, [Next]_vars PROVE Forwarding'
    OBVIOUS
  <2>1. CASE UNCHANGED vars
    <3>1. Restoring'
      BY <2>1 DEF vars, Forwarding, Restoring, Held, Holding
    <3>2. Cleared' /\ ForwardedIsReal'
      BY <2>1 DEF vars, Forwarding, Cleared, Active, Top, Refused, ForwardedIsReal
    <3>3. QED
      BY <3>1, <3>2 DEF Forwarding
  <2>2. ASSUME NEW t \in Threads, Progress(t) \/ UserStep(t)
        PROVE  Forwarding'
    <3>1. TypeInv /\ Places(t)
      BY <2>2, StepPlaces DEF CallInv, LockInv
    <3>2. Restoring' /\ Cleared'
      BY <2>2, <3>1, RestoringNext, ClearedNext DEF Forwarding
    <3>3. QED
      BY <3>1, <3>2, ForwardedNext DEF Forwarding
  <2>3. QED
    BY <2>1, <2>2 DEF Next
<1>3. QED
  BY <1>1, <1>2, CallInvHolds, PTL DEF Spec

\* A request that every mocker in its way refused is performed for real, by any thread,
\* though the lock is released before it is forwarded: as long as no other thread uses
\* the session (the run mocker_shared_forward shows what happens when one does) and the
\* session's own mockers start and stop between its calls.
THEOREM ForwardedIsRealHolds ==
  QuietSessions /\ PrivateSessions => (Spec => []ForwardedIsReal)
BY ForwardingHolds, PTL DEF Forwarding

-----------------------------------------------------------------------------
(* Calls of mockers that are stopped: none begins.                         *)

\* A session's send is not that of a stopped mocker, nor does a mocker that has not been
\* stopped forward to one that has.
LEMMA SendsToLive ==
  ASSUME TypeInv, Chain, NEW s \in Sessions
  PROVE  /\ SendOf(s) \in Mockers => last_send[SendOf(s)] # None
         /\ \A m \in Mockers : Covers(m, s) /\ last_send[m] \in Mockers =>
              last_send[last_send[m]] # None
<1>1. None \notin Functions /\ None \notin Mockers /\ Original \notin Mockers
  BY MockersAssumption DEF Functions, Words
<1>2. ASSUME NEW i, Around(s, i) \in Mockers
      PROVE  last_send[Around(s, i)] # None
  <2>1. PICK j \in Covering(s) : Around(s, i) = nesting[j]
    BY <1>1, <1>2, AroundType
  <2>2. last_send[nesting[j]] = Around(s, j)
    BY DEF Chain, ParentChain
  <2>3. QED
    BY <1>1, <2>1, <2>2, AroundType
<1>3. SendOf(s) \in Mockers => last_send[SendOf(s)] # None
  BY <1>2 DEF Chain, InnermostWins
<1>4. ASSUME NEW m \in Mockers, Covers(m, s), last_send[m] \in Mockers
      PROVE  last_send[last_send[m]] # None
  <2>1. \/ \E i \in 1..Len(nesting) : nesting[i] = m
        \/ \E t \in Threads : switching[t] = m
    BY <1>1, <1>4 DEF Chain, Linked
  <2>2. ASSUME NEW i \in 1..Len(nesting), nesting[i] = m
        PROVE  last_send[last_send[m]] # None
    <3>1. i \in Covering(s)
      BY <1>4, <2>2, AroundIsIn
    <3>2. last_send[m] = Around(s, i)
      BY <2>2, <3>1 DEF Chain, ParentChain
    <3>3. QED
      BY <1>2, <1>4, <3>2
  <2>3. ASSUME NEW t \in Threads, switching[t] = m
        PROVE  last_send[last_send[m]] # None
    BY <1>1, <1>3, <1>4, <2>3 DEF Chain, HasRead
  <2>4. QED
    BY <2>1, <2>2, <2>3
<1>5. QED
  BY <1>3, <1>4

\* Only the second assignment of stop() clears a _last_send.
LEMMA StaysSet ==
  ASSUME TypeInv, NEW t \in Threads, Progress(t) \/ UserStep(t), ~StopClear(t),
         NEW k \in Mockers, last_send[k] # None
  PROVE  last_send'[k] # None
<1>1. CASE last_send' = last_send
  BY <1>1
<1>2. ASSUME NEW m \in Mockers, StartCapture(t, m)
      PROVE  last_send'[k] # None
  BY <1>2 DEF StartCapture, TypeInv
<1>3. QED
  BY <1>1, <1>2 DEF Progress, UserStep, OnlyStack, targetVars, FakeSendEnter,
     FakeSendExit, FakeSendTimeout, GetAdapter, AdapterResponds, AdapterRedirects,
     AdapterRaises, FollowRedirect, RedirectsDone, OriginalReturn, FakeSendForward,
     FakeSendForwardNone, StartInstall, CallbackResumes, UserSend, CallbackSend,
     CallbackJoins, StopRestore, SetRealHttp

\* A call that has just entered a fake send has come from a session's send, or from the
\* _last_send of the mocker that forwards to it.
LEMMA EntersLive ==
  ASSUME CallInv, Chain, NEW t \in Threads, Progress(t) \/ UserStep(t),
         ~InFakeSend(t, "acquire"), InFakeSend(t, "acquire")'
  PROVE  ~Unset(Top(t).fn)'
<1> DEFINE fn == Top(t)'.fn
<1>1. /\ TypeInv /\ CallersWait /\ FitInv /\ Active(t)' /\ fn \in Mockers
      /\ Top(t)'.pc = "acquire"
  BY DEF CallInv, LockInv, InFakeSend, At
<1>2. stack' # stack
  BY DEF InFakeSend, At, Active, Top
<1>3. ~StopClear(t)
  BY <1>2 DEF StopClear
<1>4. last_send[fn] # None
  <2>1. ASSUME NEW s \in Sessions, NEW follow \in BOOLEAN,
               Top(t)' = NewFrame(SendOf(s), s, follow, FALSE)
        PROVE  last_send[fn] # None
    BY <1>1, <2>1, SendsToLive DEF NewFrame
  <2>2. ASSUME FakeSendForward(t),
               Top(t)' = NewFrame(last_send[Top(t).fn], Top(t).session, Top(t).follow, TRUE)
        PROVE  last_send[fn] # None
    <3>1. /\ Active(t) /\ Top(t).fn \in Mockers /\ Top(t).session \in Sessions
          /\ fn = last_send[Top(t).fn]
      BY <1>1, <2>2, TopFields DEF FakeSendForward, InFakeSend, At, NewFrame
    <3>2. FrameFits(Top(t))
      <4>1. Len(stack[t]) \in 1..Len(stack[t])
        BY <1>1, <3>1, TopType DEF TypeInv
      <4>2. QED
        BY <1>1, <4>1 DEF FitInv, Top
    <3>3. Covers(Top(t).fn, Top(t).session)
      BY <3>1, <3>2 DEF FrameFits, Fits, Covers
    <3>4. QED
      BY <1>1, <3>1, <3>3, SendsToLive
  <2>3. ASSUME FakeSendEnter(t) /\ Top(t)' = [Top(t) EXCEPT !.pc = "lookup"]
        PROVE  FALSE
    BY <1>1, <2>3, TopType DEF FakeSendEnter, InFakeSend, At, TypeInv, Frame
  <2>4. ASSUME FakeSendExit(t) /\ Top(t)' = [Top(t) EXCEPT !.pc = "forward"]
        PROVE  FALSE
    BY <1>1, <2>4, TopType DEF FakeSendExit, InFakeSend, At, TypeInv, Frame
  <2>5. QED
    BY <1>1, <1>2, <2>1, <2>2, <2>3, <2>4, StepTop
<1>5. QED
  BY <1>1, <1>3, <1>4, StaysSet DEF Unset

\* However mockers start and stop, and whoever sends or forwards meanwhile, no call of
\* send begins in the fake send of a mocker with no _last_send: the order of the two
\* assignments in stop(), and of those in start(), keeps the None of mocker.py:201 from
\* every request but those that were inside when stop() came.
THEOREM NeverEntersStoppedHolds ==
  Unmixed /\ OneStarter => (Spec => NeverEntersStopped)
<1> SUFFICES ASSUME Unmixed, OneStarter PROVE Spec => NeverEntersStopped
  OBVIOUS
<1> DEFINE A == \A t \in Threads :
                  ~InFakeSend(t, "acquire") /\ InFakeSend(t, "acquire")' => ~Unset(Top(t).fn)'
<1>1. CallInv /\ Chain /\ [Next]_vars => [A]_vars
  <2> SUFFICES ASSUME CallInv, Chain, Next, NEW t \in Threads,
                      ~InFakeSend(t, "acquire"), InFakeSend(t, "acquire")'
               PROVE  ~Unset(Top(t).fn)'
    OBVIOUS
  <2>1. PICK u \in Threads : Progress(u) \/ UserStep(u)
    BY DEF Next
  <2>2. u = t
    <3>1. CASE u # t
      <4>1. stack'[t] = stack[t]
        BY <2>1, <3>1, StepPlaces, OthersStay DEF CallInv, LockInv
      <4>2. QED
        BY <4>1 DEF InFakeSend, At, Active, Top
    <3>2. QED
      BY <3>1
  <2>3. QED
    BY <2>1, <2>2, EntersLive
<1>2. QED
  BY <1>1, CallInvHolds, ChainHolds, PTL DEF Spec, NeverEntersStopped

-----------------------------------------------------------------------------
(* _RunRealHTTP, which only a mock adapter raises and a fake send catches. *)

\* What a step does to the calls of its thread: call i is one that was there, perhaps
\* with a result it has got from the call above, or it is the innermost and was placed;
\* the calls below it keep their function and session.
Same(t, i) ==
  /\ i \in 1..Len(stack[t])
  /\ stack'[t][i].fn = stack[t][i].fn /\ stack'[t][i].session = stack[t][i].session

WasThere(t, i) ==
  /\ Same(t, i)
  /\ stack'[t][i].adapter = stack[t][i].adapter
  /\ stack'[t][i].forwarded = stack[t][i].forwarded
  /\ stack'[t][i].result = "run_real" =>
       \/ stack[t][i].result = "run_real"
       \/ /\ Active(t) /\ i = Len(stack[t]) - 1
          /\ Top(t).fn = Original /\ Top(t).result = "run_real"

WasPlaced(t, i) ==
  \/ i = Len(stack[t]) /\ (Continues(t, stack'[t][i]) \/ ForwardsTo(t, stack'[t][i]))
  \/ i = Len(stack[t]) + 1 /\ Begins(t, stack'[t][i])

LEMMA CallsStep ==
  ASSUME TypeInv, NEW t \in Threads, Places(t), NEW i \in 1..Len(stack'[t])
  PROVE  /\ WasThere(t, i) \/ WasPlaced(t, i)
         /\ \A j \in 1..i - 1 : Same(t, j)
<1> DEFINE n == Len(stack[t])
<1>1. stack \in Stacks /\ n \in Nat /\ \A j \in 1..n : stack[t][j] \in Frame
  BY DEF TypeInv, Stacks
<1>2. Active(t) => Top(t) = stack[t][n] /\ Top(t) \in Frame /\ n \in 1..n
  BY <1>1, TopType DEF Top, Active
<1>3. CASE stack' = stack
  BY <1>1, <1>3 DEF WasThere, Same
<1>4. ASSUME NEW f \in Frame, ~Active(t), Begins(t, f), stack' = [stack EXCEPT ![t] = <<f>>]
      PROVE  /\ WasThere(t, i) \/ WasPlaced(t, i)
             /\ \A j \in 1..i - 1 : Same(t, j)
  <2>1. stack'[t] = <<f>> /\ n = 0
    BY <1>1, <1>4 DEF Stacks, Active
  <2>2. i = 1
    BY <2>1
  <2>3. QED
    BY <1>4, <2>1, <2>2 DEF WasPlaced
<1>5. ASSUME NEW f \in Frame, Active(t), Continues(t, f) \/ ForwardsTo(t, f), SetTop(t, f)
      PROVE  /\ WasThere(t, i) \/ WasPlaced(t, i)
             /\ \A j \in 1..i - 1 : Same(t, j)
  <2>1. /\ Len(stack'[t]) = n /\ stack'[t][n] = f
        /\ \A j \in 1..n - 1 : stack'[t][j] = stack[t][j]
    BY <1>1, <1>5, SetTopFrames
  <2>2. \A j \in 1..n - 1 : WasThere(t, j)
    BY <1>1, <2>1 DEF WasThere, Same
  <2>3. WasPlaced(t, n)
    BY <1>5, <2>1 DEF WasPlaced
  <2>4. (i = n \/ i \in 1..n - 1) /\ \A j \in 1..i - 1 : j \in 1..n - 1
    BY <1>1, <2>1
  <2>5. QED
    BY <2>2, <2>3, <2>4 DEF WasThere
<1>6. ASSUME NEW f \in Frame, Active(t), MayNest(t), Begins(t, f), Nest(t, f)
      PROVE  /\ WasThere(t, i) \/ WasPlaced(t, i)
             /\ \A j \in 1..i - 1 : Same(t, j)
  <2> DEFINE g == [Top(t) EXCEPT !.nested = @ + 1]
  <2>1. /\ Len(stack'[t]) = n + 1 /\ stack'[t][n + 1] = f /\ stack'[t][n] = g
        /\ \A j \in 1..n - 1 : stack'[t][j] = stack[t][j]
    BY <1>1, <1>6, NestFrames
  <2>2. \A j \in 1..n - 1 : WasThere(t, j)
    BY <1>1, <2>1 DEF WasThere, Same
  <2>3. /\ g.fn = Top(t).fn /\ g.session = Top(t).session /\ g.adapter = Top(t).adapter
        /\ g.forwarded = Top(t).forwarded /\ g.result = Top(t).result
    BY <1>2, <1>6 DEF Frame
  <2>4. WasThere(t, n)
    <3> HIDE DEF g
    <3> QED BY <1>2, <1>6, <2>1, <2>3 DEF WasThere, Same
  <2>5. WasPlaced(t, n + 1)
    BY <1>6, <2>1 DEF WasPlaced
  <2>6. /\ i = n + 1 \/ i = n \/ i \in 1..n - 1
        /\ \A j \in 1..i - 1 : j = n \/ j \in 1..n - 1
    BY <1>1, <2>1
  <2>7. QED
    BY <2>2, <2>4, <2>5, <2>6 DEF WasThere
<1>7. ASSUME NEW r \in Results \cup {None}, Active(t), Return(t, r),
             r = "run_real" => Top(t).fn = Original /\ Top(t).result = "run_real"
      PROVE  /\ WasThere(t, i) \/ WasPlaced(t, i)
             /\ \A j \in 1..i - 1 : Same(t, j)
  <2>1. /\ Len(stack'[t]) = n - 1
        /\ \A j \in 1..n - 1 :
             \/ stack'[t][j] = stack[t][j]
             \/ j = n - 1 /\ stack'[t][j] = Leaving(stack[t][j], r)
    BY <1>1, <1>7, ReturnFrames
  <2>2. ASSUME NEW j \in 1..n - 1
        PROVE  WasThere(t, j)
    <3>1. j \in 1..n /\ stack[t][j] \in Frame
      BY <1>1
    <3>2. CASE stack'[t][j] = stack[t][j]
      BY <3>1, <3>2 DEF WasThere, Same
    <3>3. CASE j = n - 1 /\ stack'[t][j] = Leaving(stack[t][j], r)
      <4>1. /\ stack'[t][j].fn = stack[t][j].fn /\ stack'[t][j].session = stack[t][j].session
            /\ stack'[t][j].adapter = stack[t][j].adapter
            /\ stack'[t][j].forwarded = stack[t][j].forwarded /\ stack'[t][j].result = r
        BY <3>1, <3>3 DEF Leaving, Frame
      <4>2. QED
        BY <1>7, <3>1, <3>3, <4>1 DEF WasThere, Same
    <3>4. QED
      BY <2>1, <3>2, <3>3
  <2>3. i \in 1..n - 1 /\ \A j \in 1..i - 1 : j \in 1..n - 1
    BY <1>1, <2>1
  <2>4. QED
    BY <2>2, <2>3 DEF WasThere
<1>8. QED
  BY <1>3, <1>4, <1>5, <1>6, <1>7 DEF Places

\* A call of the requests package that has met a mocker's adapter, or passes on what
\* one raised: such a call strays into the mocker of a call below it.
Stray(f) == f.fn = Original /\ (f.adapter \in Mockers \/ f.result = "run_real")

StrayInside ==
  \A t \in Threads : \A i \in 1..Len(stack[t]) :
    Stray(stack[t][i]) => \E j \in 1..i - 1 : stack[t][j].fn \in Mockers

\* A mocker's adapter is only found where a call below is inside the `with` block.
LEMMA StrayLookup ==
  ASSUME CallInv, Restoring, PrivateSessions, NEW t \in Threads, Active(t),
         Top(t).fn = Original, GetAdapterOf(Top(t).session) \in Mockers
  PROVE  \E j \in 1..Len(stack[t]) - 1 :
           stack[t][j].fn \in Mockers /\ stack[t][j].session = Top(t).session
<1> DEFINE n == Len(stack[t])
           s == Top(t).session
<1>1. /\ TypeInv /\ n \in Nat \ {0} /\ n \in 1..n /\ Top(t) = stack[t][n]
      /\ s \in Sessions /\ s \in Uses[t]
  <2>1. TypeInv /\ n \in Nat \ {0} /\ s \in Sessions
    BY TopType, TopFields DEF CallInv, LockInv, TypeInv
  <2>2. QED
    BY <2>1 DEF CallInv, OwnSessions, Top
<1>2. adapter_attr[s] \in Mockers
  BY MockersAssumption DEF GetAdapterOf, ClassGetAdapter, Words
<1>3. PICK u \in Threads :
        \E i \in Held(u) : stack[u][i].session = s /\ stack[u][i].fn = adapter_attr[s]
  BY <1>1, <1>2, GettersAre, MockersAssumption DEF Restoring, Words
<1>4. PICK i \in Held(u) : stack[u][i].session = s /\ stack[u][i].fn = adapter_attr[s]
  BY <1>3
<1>5. i \in 1..Len(stack[u]) /\ s \in Uses[u]
  BY <1>4 DEF Held, CallInv, OwnSessions
<1>6. u = t
  BY <1>1, <1>5 DEF PrivateSessions
<1>7. i # n
  BY <1>1, <1>2, <1>4, <1>6, MockersAssumption DEF Words
<1>8. i \in 1..n - 1
  BY <1>1, <1>5, <1>6, <1>7
<1>9. QED
  BY <1>2, <1>4, <1>6, <1>8

\* How a step can place a call that strays.
LEMMA StrayPlaced ==
  ASSUME TypeInv, NEW t \in Threads, NEW i, WasPlaced(t, i), Stray(stack'[t][i])
  PROVE  /\ i = Len(stack[t]) /\ Active(t) /\ Top(t).fn = Original
         /\ stack'[t][i].session = Top(t).session
         /\ stack'[t][i].forwarded = Top(t).forwarded
         /\ Stray(Top(t)) \/ (At(t, "lookup") /\ GetAdapterOf(Top(t).session) \in Mockers)
<1>1. CASE Begins(t, stack'[t][i]) \/ ForwardsTo(t, stack'[t][i])
  BY <1>1, MockersAssumption DEF Begins, ForwardsTo, Stray, Words
<1>2. CASE i = Len(stack[t]) /\ Continues(t, stack'[t][i])
  <2>1. AdapterFrom(GetAdapterOf(Top(t).session)) \in Mockers =>
          GetAdapterOf(Top(t).session) \in Mockers
    BY MockersAssumption DEF AdapterFrom, Words
  <2>2. QED
    BY <1>2, <2>1 DEF Continues, Stray
<1>3. QED
  BY <1>1, <1>2 DEF WasPlaced

LEMMA StrayInsideNext ==
  ASSUME TypeInv, CallInv, Restoring, PrivateSessions, StrayInside, NEW t \in Threads, Places(t)
  PROVE  StrayInside'
<1> DEFINE n == Len(stack[t])
<1>1. \A u \in Threads \ {t} : stack'[u] = stack[u]
  BY OthersStay
<1>2. n \in Nat /\ (Active(t) => n \in 1..n /\ Top(t) = stack[t][n])
  BY DEF TypeInv, Stacks, Active, Top
<1>3. ASSUME NEW i \in 1..Len(stack'[t]), Stray(stack'[t][i])
      PROVE  \E j \in 1..i - 1 : stack'[t][j].fn \in Mockers
  <2>1. \A j \in 1..i - 1 : Same(t, j)
    BY CallsStep
  <2>2. ASSUME NEW j \in 1..i - 1, stack[t][j].fn \in Mockers
        PROVE  stack'[t][j].fn \in Mockers
    BY <2>1, <2>2 DEF Same
  <2>3. CASE WasThere(t, i)
    <3>1. CASE Stray(stack[t][i])
      BY <2>2, <2>3, <3>1 DEF StrayInside, WasThere, Same
    <3>2. CASE Active(t) /\ i = n - 1 /\ Top(t).fn = Original /\ Top(t).result = "run_real"
      <4>1. Stray(stack[t][n])
        BY <1>2, <3>2 DEF Stray
      <4>2. PICK j \in 1..n - 1 : stack[t][j].fn \in Mockers
        BY <1>2, <3>2, <4>1 DEF StrayInside
      <4>3. stack[t][i].fn = Original
        BY <1>3, <2>3 DEF WasThere, Same, Stray
      <4>4. j \in 1..i - 1
        BY <1>2, <3>2, <4>2, <4>3, MockersAssumption DEF Words
      <4>5. QED
        BY <2>2, <4>2, <4>4
    <3>3. QED
      BY <1>3, <2>3, <3>1, <3>2 DEF WasThere, Same, Stray
  <2>4. CASE WasPlaced(t, i)
    <3>1. /\ i = n /\ Active(t) /\ Top(t).fn = Original
          /\ Stray(Top(t)) \/ GetAdapterOf(Top(t).session) \in Mockers
      BY <1>3, <2>4, StrayPlaced
    <3>2. CASE Stray(Top(t))
      BY <1>2, <2>2, <3>1, <3>2 DEF StrayInside
    <3>3. CASE GetAdapterOf(Top(t).session) \in Mockers
      BY <2>2, <3>1, <3>3, StrayLookup
    <3>4. QED
      BY <3>1, <3>2, <3>3
  <2>5. QED
    BY <2>3, <2>4, CallsStep
<1>4. QED
  BY <1>1, <1>3 DEF StrayInside, Stray

\* Where callbacks send nothing, the calls that wait are following redirects.
CallersRedirect ==
  \A t \in Threads : \A i \in 1..Len(stack[t]) - 1 : stack[t][i].pc = "redirect"

LEMMA CallersRedirectNext ==
  ASSUME TypeInv, Callbacks = {}, CallersRedirect, NEW t \in Threads, Places(t)
  PROVE  CallersRedirect'
<1> DEFINE n == Len(stack[t])
<1>1. stack \in Stacks /\ n \in Nat /\ (Active(t) => Top(t) = stack[t][n] /\ Top(t) \in Frame)
  BY TopType DEF TypeInv, Stacks, Top
<1>2. \A u \in Threads \ {t} : stack'[u] = stack[u]
  BY OthersStay
<1>3. \A i \in 1..Len(stack'[t]) - 1 : stack'[t][i].pc = "redirect"
  <2>1. CASE stack' = stack
    BY <2>1 DEF CallersRedirect
  <2>2. ASSUME NEW f \in Frame, stack' = [stack EXCEPT ![t] = <<f>>]
        PROVE  \A i \in 1..Len(stack'[t]) - 1 : stack'[t][i].pc = "redirect"
    <3>1. stack'[t] = <<f>>
      BY <1>1, <2>2 DEF Stacks
    <3>2. Len(stack'[t]) = 1
      BY <3>1
    <3>3. \A i : i \notin 1..1 - 1
      OBVIOUS
    <3>4. QED
      BY <3>2, <3>3
  <2>3. ASSUME NEW f \in Frame, Active(t), SetTop(t, f)
        PROVE  \A i \in 1..Len(stack'[t]) - 1 : stack'[t][i].pc = "redirect"
    BY <1>1, <2>3, SetTopFrames DEF CallersRedirect
  <2>4. ASSUME NEW f \in Frame, Active(t), MayNest(t), Nest(t, f), At(t, "redirect")
        PROVE  \A i \in 1..Len(stack'[t]) - 1 : stack'[t][i].pc = "redirect"
    <3> DEFINE g == [Top(t) EXCEPT !.nested = @ + 1]
    <3>1. /\ Len(stack'[t]) = n + 1 /\ stack'[t][n] = g
          /\ \A i \in 1..n - 1 : stack'[t][i] = stack[t][i]
      BY <1>1, <2>4, NestFrames
    <3>2. g.pc = "redirect"
      BY <1>1, <2>4 DEF Frame
    <3> HIDE DEF g
    <3>3. \A i \in 1..(n + 1) - 1 : i = n \/ i \in 1..n - 1
      BY <1>1
    <3>4. QED
      BY <3>1, <3>2, <3>3 DEF CallersRedirect
  <2>5. ASSUME NEW r \in Results \cup {None}, Active(t), Return(t, r)
        PROVE  \A i \in 1..Len(stack'[t]) - 1 : stack'[t][i].pc = "redirect"
    <3>1. /\ Len(stack'[t]) = n - 1
          /\ \A i \in 1..n - 1 : stack'[t][i] = stack[t][i] \/ i = n - 1
      BY <1>1, <2>5, ReturnFrames
    <3>2. \A i \in 1..(n - 1) - 1 : i \in 1..n - 1 /\ i # n - 1
      BY <1>1
    <3>3. QED
      BY <3>1, <3>2 DEF CallersRedirect
  <2>6. QED
    BY <2>1, <2>2, <2>3, <2>4, <2>5 DEF Places
<1>4. QED
  BY <1>2, <1>3 DEF CallersRedirect

\* Where mockers start and stop in quiet times, no call strays: a call that a mocker
\* intercepts is for a session whose send stays a mocker's, so a call of the requests
\* package above it is for another session, or has been forwarded.
Intercepted ==
  \A t \in Threads : \A i \in 1..Len(stack[t]) :
    stack[t][i].fn \in Mockers => SendOf(stack[t][i].session) # Original

Direct ==
  \A t \in Threads : \A i \in 1..Len(stack[t]) :
    stack[t][i].fn = Original /\ ~stack[t][i].forwarded =>
      \A j \in 1..i - 1 : stack[t][j].fn \in Mockers =>
        stack[t][j].session # stack[t][i].session

NoStray == \A t \in Threads : \A i \in 1..Len(stack[t]) : ~Stray(stack[t][i])

LEMMA InterceptedNext ==
  ASSUME CallInv, Quiet, Intercepted, NEW t \in Threads, Progress(t) \/ UserStep(t)
  PROVE  Intercepted'
<1>1. /\ TypeInv /\ Places(t)
      /\ \A u \in Threads : \A i \in 1..Len(stack[u]) : stack[u][i].session \in Sessions
  <2>1. TypeInv /\ Places(t)
    BY StepPlaces DEF CallInv, LockInv
  <2>2. \A u \in Threads : \A i \in 1..Len(stack[u]) : stack[u][i] \in Frame
    BY <2>1 DEF TypeInv, Stacks
  <2>3. QED
    BY <2>1, <2>2 DEF Frame
<1>2. ASSUME NEW u \in Threads, NEW i \in 1..Len(stack'[u]), stack'[u][i].fn \in Mockers
      PROVE  SendOf(stack'[u][i].session) # Original
  <2>1. CASE u # t
    BY <1>1, <1>2, <2>1, OthersStay DEF Intercepted
  <2>2. CASE u = t
    <3>1. CASE WasThere(t, i)
      BY <1>2, <2>2, <3>1 DEF WasThere, Same, Intercepted
    <3>2. CASE WasPlaced(t, i)
      <4>1. CASE Begins(t, stack'[t][i])
        BY <1>2, <2>2, <4>1, MockersAssumption DEF Begins, Words
      <4>2. CASE Continues(t, stack'[t][i]) \/ ForwardsTo(t, stack'[t][i])
        <5>1. /\ Active(t) /\ Top(t).fn \in Mockers
              /\ stack'[t][i].session = Top(t).session
          BY <1>2, <2>2, <4>2 DEF Continues, ForwardsTo
        <5>2. Len(stack[t]) \in 1..Len(stack[t])
          BY <1>1, <5>1, TopType DEF TypeInv
        <5>3. QED
          BY <2>2, <5>1, <5>2 DEF Intercepted, Top
      <4>3. QED
        BY <3>2, <4>1, <4>2 DEF WasPlaced
    <3>3. QED
      BY <1>1, <1>2, <2>2, <3>1, <3>2, CallsStep
  <2>3. QED
    BY <2>1, <2>2
<1>3. CASE send_attr' = send_attr
  <2>1. \A s : SendOf(s)' = SendOf(s)
    BY <1>3 DEF SendOf
  <2>2. QED
    BY <1>2, <2>1 DEF Intercepted, SendOf
<1>4. CASE StartInstall(t)
  <2> DEFINE m == switching[t]
  <2>1. /\ m \in Mockers /\ stack' = stack /\ m # Absent /\ m # Original
        /\ send_attr' = [send_attr EXCEPT ![Target[m]] = m]
    BY <1>1, <1>4, MockersAssumption DEF StartInstall, Patched, TypeInv, Words
  <2> HIDE DEF m
  <2>2. \A s \in Sessions : SendOf(s) # Original => SendOf(s)' # Original
    BY <1>1, <2>1 DEF SendOf, TypeInv
  <2>3. QED
    BY <1>1, <2>1, <2>2 DEF Intercepted
<1>5. ASSUME NEW m \in Mockers, StopRestore(t, m)
      PROVE  Intercepted'
  <2>1. /\ InStarterCode(t) /\ stack' = stack
        /\ send_attr' = [send_attr EXCEPT ![Target[m]] = last_send[m]]
    BY <1>5 DEF MayStop, StopRestore, Unpatched
  <2>2. \A u \in Threads : \A i \in 1..Len(stack[u]) :
          Target[m] \notin {stack[u][i].session, SessionClass}
    BY <2>1, QuietTime DEF Quiet
  <2>3. \A s \in Sessions : Target[m] \notin {s, SessionClass} => SendOf(s)' = SendOf(s)
    BY <1>1, <2>1 DEF SendOf, TypeInv
  <2>4. QED
    BY <1>1, <2>1, <2>2, <2>3 DEF Intercepted
<1>6. QED
  BY <1>3, <1>4, <1>5 DEF Progress, UserStep, OnlyStack, targetVars, FakeSendEnter,
     FakeSendExit, FakeSendTimeout, GetAdapter, AdapterResponds, AdapterRedirects,
     AdapterRaises, FollowRedirect, RedirectsDone, OriginalReturn, FakeSendForward,
     FakeSendForwardNone, StopClear, CallbackResumes, UserSend, CallbackSend, CallbackJoins,
     StartCapture, SetRealHttp

LEMMA DirectNext ==
  ASSUME TypeInv, Intercepted, Direct, NEW t \in Threads, Places(t)
  PROVE  Direct'
<1> DEFINE n == Len(stack[t])
<1>1. n \in Nat /\ (Active(t) => n \in 1..n /\ Top(t) = stack[t][n])
  BY DEF TypeInv, Stacks, Active, Top
<1>2. ASSUME NEW i \in 1..Len(stack'[t]),
             stack'[t][i].fn = Original, ~stack'[t][i].forwarded,
             NEW j \in 1..i - 1, stack'[t][j].fn \in Mockers
      PROVE  stack'[t][j].session # stack'[t][i].session
  <2>1. /\ j \in 1..n /\ stack[t][j].fn \in Mockers
        /\ stack'[t][j].session = stack[t][j].session
    BY <1>2, CallsStep DEF Same
  <2>2. CASE WasThere(t, i)
    BY <1>2, <2>1, <2>2 DEF WasThere, Same, Direct
  <2>3. CASE i = n /\ Continues(t, stack'[t][i])
    <3>1. /\ stack[t][n].fn = Original /\ ~stack[t][n].forwarded
          /\ stack'[t][i].session = stack[t][n].session
      BY <1>1, <1>2, <2>3 DEF Continues
    <3>2. n \in 1..Len(stack[t]) /\ j \in 1..n - 1
      BY <1>1, <2>1, <2>3
    <3>3. stack[t][j].session # stack[t][n].session
      BY <2>1, <3>1, <3>2 DEF Direct
    <3>4. QED
      BY <2>1, <3>1, <3>3
  <2>4. CASE ForwardsTo(t, stack'[t][i])
    BY <1>2, <2>4 DEF ForwardsTo
  <2>5. CASE Begins(t, stack'[t][i])
    <3>1. SendOf(stack'[t][i].session) = Original
      BY <1>2, <2>5 DEF Begins
    <3>2. QED
      BY <2>1, <3>1 DEF Intercepted
  <2>6. QED
    BY <2>2, <2>3, <2>4, <2>5, CallsStep DEF WasPlaced
<1>3. \A u \in Threads \ {t} : stack'[u] = stack[u]
  BY OthersStay
<1>4. QED
  BY <1>2, <1>3 DEF Direct

LEMMA NoStrayNext ==
  ASSUME TypeInv, CallInv, Restoring, PrivateSessions, Cleared, Direct, NoStray,
         NEW t \in Threads, Places(t)
  PROVE  NoStray'
<1> DEFINE n == Len(stack[t])
<1>1. n \in Nat /\ (Active(t) => n \in 1..n /\ Top(t) = stack[t][n])
  BY DEF TypeInv, Stacks, Active, Top
<1>2. ASSUME NEW i \in 1..Len(stack'[t]), Stray(stack'[t][i])
      PROVE  FALSE
  <2>1. CASE WasThere(t, i)
    <3>1. ~Stray(stack[t][i]) /\ (Active(t) => ~Stray(Top(t)))
      BY <1>1, <2>1 DEF NoStray, WasThere, Same
    <3>2. QED
      BY <1>2, <2>1, <3>1 DEF WasThere, Same, Stray
  <2>2. CASE WasPlaced(t, i)
    <3>1. /\ Active(t) /\ Top(t).fn = Original
          /\ Stray(Top(t)) \/ (At(t, "lookup") /\ GetAdapterOf(Top(t).session) \in Mockers)
      BY <1>2, <2>2, StrayPlaced
    <3>2. At(t, "lookup") /\ GetAdapterOf(Top(t).session) \in Mockers
      BY <1>1, <3>1 DEF NoStray
    <3>3. PICK j \in 1..n - 1 : stack[t][j].fn \in Mockers /\ stack[t][j].session = Top(t).session
      BY <3>1, <3>2, StrayLookup
    <3>4. Top(t).forwarded
      BY <1>1, <3>1, <3>3 DEF Direct
    <3>5. adapter_attr[Top(t).session] \notin Mockers
      BY <3>1, <3>2, <3>4 DEF Cleared, Refused
    <3>6. QED
      BY <3>2, <3>5, MockersAssumption DEF GetAdapterOf, ClassGetAdapter, Words
  <2>3. QED
    BY <2>1, <2>2, CallsStep
<1>3. \A u \in Threads \ {t} : stack'[u] = stack[u]
  BY OthersStay
<1>4. QED
  BY <1>2, <1>3 DEF NoStray, Stray

\* What each of the two gives for the program.
LEMMA StrayInsideHolds == QuietSessions /\ PrivateSessions => (Spec => []StrayInside)
<1> SUFFICES ASSUME QuietSessions, PrivateSessions PROVE Spec => []StrayInside
  OBVIOUS
<1>1. Init => StrayInside
  BY DEF Init, StrayInside
<1>2. CallInv /\ Forwarding /\ StrayInside /\ [Next]_vars => StrayInside'
  <2> SUFFICES ASSUME CallInv, Forwarding, StrayInside, [Next]_vars PROVE StrayInside'
    OBVIOUS
  <2>1. CASE UNCHANGED vars
    BY <2>1 DEF vars, StrayInside, Stray
  <2>2. ASSUME NEW t \in Threads, Progress(t) \/ UserStep(t)
        PROVE  StrayInside'
    BY <2>2, StepPlaces, StrayInsideNext DEF CallInv, LockInv, Forwarding
  <2>3. QED
    BY <2>1, <2>2 DEF Next
<1>3. QED
  BY <1>1, <1>2, CallInvHolds, ForwardingHolds, PTL DEF Spec

LEMMA CallersRedirectHolds == Callbacks = {} => (Spec => []CallersRedirect)
<1> SUFFICES ASSUME Callbacks = {} PROVE Spec => []CallersRedirect
  OBVIOUS
<1>1. Init => CallersRedirect
  BY DEF Init, CallersRedirect
<1>2. CallInv /\ CallersRedirect /\ [Next]_vars => CallersRedirect'
  <2> SUFFICES ASSUME CallInv, CallersRedirect, [Next]_vars PROVE CallersRedirect'
    OBVIOUS
  <2>1. CASE UNCHANGED vars
    BY <2>1 DEF vars, CallersRedirect
  <2>2. ASSUME NEW t \in Threads, Progress(t) \/ UserStep(t)
        PROVE  CallersRedirect'
    BY <2>2, StepPlaces, CallersRedirectNext DEF CallInv, LockInv
  <2>3. QED
    BY <2>1, <2>2 DEF Next
<1>3. QED
  BY <1>1, <1>2, CallInvHolds, PTL DEF Spec

LEMMA NoStrayHolds == Quiet /\ PrivateSessions => (Spec => []NoStray)
<1> SUFFICES ASSUME Quiet, PrivateSessions PROVE Spec => []NoStray
  OBVIOUS
<1>1. QuietSessions
  BY DEF Quiet, QuietSessions
<1> DEFINE Inv == Intercepted /\ Direct /\ NoStray
<1>2. Init => Inv
  BY DEF Init, Intercepted, Direct, NoStray
<1>3. CallInv /\ Forwarding /\ Inv /\ [Next]_vars => Inv'
  <2> SUFFICES ASSUME CallInv, Forwarding, Inv, [Next]_vars PROVE Inv'
    OBVIOUS
  <2>1. CASE UNCHANGED vars
    BY <2>1 DEF vars, Intercepted, SendOf, Direct, NoStray, Stray
  <2>2. ASSUME NEW t \in Threads, Progress(t) \/ UserStep(t)
        PROVE  Inv'
    <3>1. TypeInv /\ Places(t)
      BY <2>2, StepPlaces DEF CallInv, LockInv
    <3>2. QED
      BY <2>2, <3>1, InterceptedNext, DirectNext, NoStrayNext DEF Forwarding
  <2>3. QED
    BY <2>1, <2>2 DEF Next
<1>4. Inv => NoStray
  OBVIOUS
<1>5. QED
  BY <1>1, <1>2, <1>3, <1>4, CallInvHolds, ForwardingHolds, PTL DEF Spec

\* "This should never be exposed to a user": where threads do not share sessions, the
\* program never gets _RunRealHTTP from a send, if its callbacks send no requests, or if
\* nobody starts or stops a mocker during a call for a session that it covers.
THEOREM RunRealNeverExposedHolds ==
  PrivateSessions /\ QuietSessions /\ (Callbacks = {} \/ Quiet) =>
    (Spec => []RunRealNeverExposed)
<1> SUFFICES ASSUME PrivateSessions, QuietSessions, Callbacks = {} \/ Quiet
             PROVE  Spec => []RunRealNeverExposed
  OBVIOUS
<1>1. CallInv /\ ((StrayInside /\ CallersRedirect) \/ NoStray) => RunRealNeverExposed
  <2> SUFFICES ASSUME CallInv, (StrayInside /\ CallersRedirect) \/ NoStray,
                      NEW t \in Threads, At(t, "exit"), Top(t).result = "run_real",
                      Top(t).fn \notin Mockers
               PROVE  Len(stack[t]) > 1 /\ stack[t][Len(stack[t]) - 1].pc = "redirect"
    BY DEF RunRealNeverExposed, Forwards
  <2> DEFINE n == Len(stack[t])
  <2>1. n \in Nat /\ n \in 1..n /\ Top(t) = stack[t][n] /\ Top(t).fn = Original
    BY TopType, TopFields DEF CallInv, LockInv, TypeInv, Top, Functions
  <2>2. Stray(stack[t][n])
    BY <2>1 DEF Stray
  <2>3. PICK j \in 1..n - 1 : stack[t][j].fn \in Mockers
    BY <2>1, <2>2 DEF StrayInside, NoStray
  <2>4. n > 1 /\ n - 1 \in 1..n - 1
    BY <2>1, <2>3
  <2>5. QED
    BY <2>1, <2>2, <2>4 DEF CallersRedirect, NoStray
<1>2. CASE Callbacks = {}
  BY <1>1, <1>2, CallInvHolds, StrayInsideHolds, CallersRedirectHolds, PTL
<1>3. CASE Quiet
  BY <1>1, <1>3, CallInvHolds, NoStrayHolds, PTL
<1>4. QED
  BY <1>2, <1>3

\* No two threads are in mock adapters at once: a call that a mock adapter answers is one
\* of the lock's owner, whoever's send it is a call of, and whatever is forwarded, nested
\* and stopped meanwhile. It is what Adapter's theorems behind a lock stand on. Where
\* threads share a session it fails, for a forwarded request (mocker_shared_forward).
THEOREM AdaptersLockedHolds ==
  QuietSessions /\ PrivateSessions => (Spec => []AdaptersLocked)
<1> SUFFICES ASSUME QuietSessions, PrivateSessions PROVE Spec => []AdaptersLocked
  OBVIOUS
<1>1. CallInv /\ StrayInside => AdaptersLocked
  <2> SUFFICES ASSUME CallInv, StrayInside, NEW t \in Threads, NEW i \in 1..Len(stack[t]),
                      stack[t][i].pc = "adapter", stack[t][i].adapter \in Mockers
               PROVE  send_lock.owner = t
    BY DEF AdaptersLocked
  <2>1. TypeInv /\ LockDiscipline /\ CallersWait /\ stack[t][i] \in Frame /\ Len(stack[t]) \in Nat
    BY DEF CallInv, LockInv, TypeInv, Stacks
  <2>2. PICK j \in 1..Len(stack[t]) : stack[t][j].pc \in {"adapter", "redirect"}
                                      /\ stack[t][j].fn \in Mockers
    <3>1. CASE stack[t][i].fn \in Mockers
      BY <3>1
    <3>2. CASE stack[t][i].fn = Original
      <4>1. PICK j \in 1..i - 1 : stack[t][j].fn \in Mockers
        BY <3>2 DEF StrayInside, Stray
      <4>2. j \in 1..Len(stack[t]) - 1 /\ j \in 1..Len(stack[t])
        BY <2>1
      <4>3. QED
        BY <2>1, <4>1, <4>2 DEF CallersWait
    <3>3. QED
      BY <2>1, <3>1, <3>2 DEF Frame, Functions
  <2>3. Holding(stack[t][j])
    BY <2>2 DEF Holding
  <2>4. QED
    BY <2>1, <2>3, HoldersOwn
<1>2. QED
  BY <1>1, CallInvHolds, StrayInsideHolds, PTL
=============================================================================

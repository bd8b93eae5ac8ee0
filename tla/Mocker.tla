------------------------------- MODULE Mocker -------------------------------
(***************************************************************************)
(* The core of requests_mock: mockers that are started and stopped, and    *)
(* requests that threads send meanwhile (src/requests_mock/mocker.py).     *)
(*                                                                         *)
(* A mocker intercepts by assigning attributes.  start() assigns `send` on *)
(* the class requests.Session or on one session; the fake send it assigns  *)
(* takes a process-wide reentrant lock, assigns `get_adapter` on the       *)
(* session the request came through, calls the genuine Session.send (which *)
(* looks that attribute up once), puts `get_adapter` back, releases the    *)
(* lock, and last, without the lock, hands a request its adapter refused   *)
(* to whatever `send` was before start().                                  *)
(*                                                                         *)
(* Each thread has a stack of calls to send: a redirect or a response      *)
(* callback makes a nested call.  The genuine Session.send, which is code  *)
(* of the requests package, is modelled from how mocker.py relies on it    *)
(* (the comment in _fake_send): one adapter lookup, one adapter call, then *)
(* nested calls of self.send for redirects.                                *)
(***************************************************************************)
EXTENDS Integers, Sequences, FiniteSets

CONSTANTS
  Threads,        \* threads of the test program
  Starters,       \* the threads that start, stop and configure mockers
  Sessions,       \* requests.Session objects
  SessionClass,   \* the class requests.Session itself
  Overriding,     \* sessions whose own class overrides get_adapter
  Mockers,        \* Mocker objects
  Target,         \* _mock_target of each mocker
  Uses,           \* the sessions each thread sends through
  Callbacks,      \* the threads whose response callbacks send requests
  CallbackStarters, \* the starters that also start and stop inside callbacks
  Joins,          \* <<t, u>>: a callback run by t may wait for thread u
  MaxDepth,       \* bound: calls to send active in one thread
  MaxNested       \* bound: redirects, callbacks' sends and joins per call to send

\* What a `send` or `get_adapter` attribute holds besides a mocker's function.
Original == "original"    \* the function of the requests package
Absent   == "absent"      \* no instance attribute: lookups reach the class
Override == "override"    \* the get_adapter of a subclass of Session
None     == "none"        \* Python's None; no thread, no adapter, no result
Real     == "real"        \* an adapter that performs the request for real

Words == {Original, Absent, Override, None, Real}

ASSUME ThreadsAssumption ==
  /\ Starters \subseteq Threads
  /\ Callbacks \subseteq Threads
  /\ CallbackStarters \subseteq Starters
  /\ Joins \subseteq Threads \X Threads
  /\ None \notin Threads
ASSUME SessionsAssumption ==
  /\ SessionClass \notin Sessions
  /\ Overriding \subseteq Sessions
  /\ Uses \in [Threads -> SUBSET Sessions]
ASSUME MockersAssumption ==
  /\ Mockers \cap Words = {}
  /\ Target \in [Mockers -> Sessions \cup {SessionClass}]
ASSUME BoundsAssumption ==
  /\ MaxDepth \in Nat \ {0}
  /\ MaxNested \in Nat

VARIABLES
  send_attr,         \* attribute `send` of the class and of each session
  adapter_attr,      \* instance attribute `get_adapter` of each session
  last_send,         \* mocker._last_send
  last_get_adapter,  \* mocker._last_get_adapter
  real_http,         \* mocker.real_http
  nesting,           \* started mockers, outermost first
  switching,         \* the mocker each thread is inside start() or stop() of
  stopping,          \* the threads for which that is stop()
  send_lock,         \* _send_lock: owner and recursion count
  stack,             \* calls to send active in each thread, outermost first
  joining            \* the thread a callback of each thread waits for

targetVars == <<send_attr, last_send, last_get_adapter, nesting, switching, stopping>>
vars == <<send_attr, adapter_attr, last_send, last_get_adapter, real_http,
          nesting, switching, stopping, send_lock, stack, joining>>

Functions == Mockers \cup {Original}
Results   == {"response", "no_mock", "run_real", "error"}
PCs       == {"acquire", "lookup", "adapter", "redirect", "exit", "forward"}

Frame ==
  [fn        : Functions,                         \* whose send is running
   session   : Sessions,
   follow    : BOOLEAN,                           \* allow_redirects
   forwarded : BOOLEAN,                           \* reached from another fake send
   pc        : PCs,
   adapter   : Mockers \cup {None, Real},         \* what get_adapter returned
   served    : BOOLEAN,                           \* that adapter answered
   nested    : 0..MaxNested,
   result    : Results \cup {None}]

TypeOK ==
  /\ send_attr \in [Sessions \cup {SessionClass} -> Functions \cup {Absent}]
  /\ adapter_attr \in [Sessions -> Functions \cup {Absent, Override}]
  /\ last_send \in [Mockers -> Functions \cup {None}]
  /\ last_get_adapter \in [Mockers -> Functions \cup {Override, None}]
  /\ real_http \in [Mockers -> BOOLEAN]
  /\ nesting \in Seq(Mockers)
  /\ switching \in [Threads -> Mockers \cup {None}]
  /\ stopping \subseteq Threads
  /\ send_lock \in [owner : Threads \cup {None}, count : Nat]
  /\ stack \in [Threads -> Seq(Frame)]
  /\ joining \in [Threads -> Threads \cup {None}]

-----------------------------------------------------------------------------
(* Attribute lookup, as Python does it: the instance, then its class.      *)

ClassGetAdapter(s) == IF s \in Overriding THEN Override ELSE Original

GetAdapterOf(s) ==
  IF adapter_attr[s] = Absent THEN ClassGetAdapter(s) ELSE adapter_attr[s]

SendOf(target) ==
  IF target # SessionClass /\ send_attr[target] = Absent
  THEN send_attr[SessionClass]
  ELSE send_attr[target]

\* The adapter that a value of `get_adapter` returns.
AdapterFrom(getter) == IF getter \in Mockers THEN getter ELSE Real

-----------------------------------------------------------------------------
(* Calls to send.                                                          *)

NewFrame(fn, s, follow, forwarded) ==
  [fn |-> fn, session |-> s, follow |-> follow, forwarded |-> forwarded,
   pc |-> IF fn = Original THEN "lookup" ELSE "acquire",
   adapter |-> None, served |-> FALSE, nested |-> 0, result |-> None]

Active(t) == Len(stack[t]) > 0
Top(t) == stack[t][Len(stack[t])]
At(t, label) == Active(t) /\ Top(t).pc = label
InFakeSend(t, label) == At(t, label) /\ Top(t).fn \in Mockers

Callers(t) == SubSeq(stack[t], 1, Len(stack[t]) - 1)
SetTop(t, frame) == stack' = [stack EXCEPT ![t] = Append(Callers(t), frame)]

\* The top call makes the nested call `callee`.
MayNest(t) == Top(t).nested < MaxNested /\ Len(stack[t]) < MaxDepth
Nest(t, callee) ==
  stack' = [stack EXCEPT ![t] =
              Append(Append(Callers(t), [Top(t) EXCEPT !.nested = @ + 1]), callee)]

\* The call of a frame that gets r from what it was doing, and is about to leave.
Leaving(frame, r) == [frame EXCEPT !.pc = "exit", !.result = r]

\* The top call of t ends with r.  An exception goes on through a caller that
\* is following redirects; a callback gets it, and may return or raise.
Unwound(callers, r) ==
  LET n == Len(callers) IN
  IF n > 0 /\ r # "response" /\ callers[n].pc = "redirect"
  THEN [callers EXCEPT ![n] = Leaving(callers[n], r)]
  ELSE callers
Return(t, r) == stack' = [stack EXCEPT ![t] = Unwound(Callers(t), r)]

\* A frame of a mocker's send that is inside `with threading_rlock(...)`.
Holding(frame) ==
  frame.fn \in Mockers /\ frame.pc \in {"lookup", "adapter", "redirect", "exit"}

\* t runs the test program's code: outside requests, or in a response callback
\* or matcher that a mock adapter calls.
InCallback(t) == At(t, "adapter") /\ Top(t).adapter \in Mockers
InUserCode(t) ==
  /\ Active(t) => InCallback(t)
  /\ switching[t] = None /\ joining[t] = None
InStarterCode(t) ==
  InUserCode(t) /\ t \in IF Active(t) THEN CallbackStarters ELSE Starters

\* What most steps leave alone: everything but the stack of calls.
OnlyStack == UNCHANGED <<targetVars, adapter_attr, real_http, send_lock, joining>>

-----------------------------------------------------------------------------
Init ==
  /\ send_attr = [x \in Sessions \cup {SessionClass} |->
                    IF x = SessionClass THEN Original ELSE Absent]
  /\ adapter_attr = [s \in Sessions |-> Absent]
  /\ last_send = [m \in Mockers |-> None]
  /\ last_get_adapter = [m \in Mockers |-> None]
  /\ real_http \in [Mockers -> BOOLEAN]
  /\ nesting = <<>>
  /\ switching = [t \in Threads |-> None] /\ stopping = {}
  /\ send_lock = [owner |-> None, count |-> 0]
  /\ stack = [t \in Threads |-> <<>>]
  /\ joining = [t \in Threads |-> None]

-----------------------------------------------------------------------------
(* The test program sends requests.                                        *)

UserSend(t, s) ==
  /\ s \in Uses[t]
  /\ InUserCode(t) /\ ~Active(t)
  /\ \A u \in Threads : joining[u] # t      \* a joined thread sends no more
  /\ stack' = [stack EXCEPT ![t] = <<NewFrame(SendOf(s), s, TRUE, FALSE)>>]
  /\ OnlyStack

CallbackSend(t, s) ==
  /\ t \in Callbacks /\ s \in Uses[t]
  /\ InCallback(t) /\ InUserCode(t) /\ MayNest(t)
  /\ Nest(t, NewFrame(SendOf(s), s, TRUE, FALSE))
  /\ OnlyStack

\* A callback waits for another thread of the program to finish its request.
CallbackJoins(t, u) ==
  /\ <<t, u>> \in Joins
  /\ InCallback(t) /\ InUserCode(t)
  /\ Top(t).nested < MaxNested
  /\ SetTop(t, [Top(t) EXCEPT !.nested = @ + 1])
  /\ joining' = [joining EXCEPT ![t] = u]
  /\ UNCHANGED <<targetVars, adapter_attr, real_http, send_lock>>

CallbackResumes(t) ==
  /\ joining[t] # None /\ ~Active(joining[t])
  /\ joining' = [joining EXCEPT ![t] = None]
  /\ UNCHANGED <<targetVars, adapter_attr, real_http, send_lock, stack>>

-----------------------------------------------------------------------------
(* _fake_send up to the call of _original_send.  Taking the lock and       *)
(* assigning get_adapter are one step: the first commutes with every step  *)
(* of another thread that can come between them.                           *)

\* Mutant of LockFree: _fake_send takes no lock.
MutNoLock(t) == TRUE

LockFree(t) == send_lock.owner \in {None, t}

FakeSendEnter(t) ==
  /\ InFakeSend(t, "acquire")
  /\ LockFree(t)
  /\ send_lock' = [owner |-> t, count |-> send_lock.count + 1]
  /\ adapter_attr' = [adapter_attr EXCEPT ![Top(t).session] = Top(t).fn]
  /\ SetTop(t, [Top(t) EXCEPT !.pc = "lookup"])
  /\ UNCHANGED <<targetVars, real_http, joining>>

\* Mutant of FakeSendTimeout: acquire() without a timeout waits for ever.
MutNoTimeout(t) == FALSE

\* _send_lock.acquire(timeout=10) gives up.
FakeSendTimeout(t) ==
  /\ InFakeSend(t, "acquire")
  /\ ~LockFree(t)
  /\ Return(t, "error")
  /\ OnlyStack

-----------------------------------------------------------------------------
(* requests.Session.send, called directly or by a fake send.               *)

GetAdapter(t) ==
  /\ At(t, "lookup")
  /\ SetTop(t, [Top(t) EXCEPT !.pc = "adapter",
                  !.adapter = AdapterFrom(GetAdapterOf(Top(t).session))])
  /\ OnlyStack

\* The adapter, and the callbacks it runs, are done.
AdapterDone(t) == At(t, "adapter") /\ joining[t] = None /\ switching[t] = None

AdapterResponds(t) ==
  /\ AdapterDone(t)
  /\ SetTop(t, Leaving([Top(t) EXCEPT !.served = TRUE], "response"))
  /\ OnlyStack

AdapterRedirects(t) ==
  /\ AdapterDone(t) /\ Top(t).follow
  /\ SetTop(t, [Top(t) EXCEPT !.pc = "redirect", !.served = TRUE])
  /\ OnlyStack

\* A real adapter raises transport errors; a mock adapter also raises
\* NoMockAddress when nothing matches and _RunRealHTTP from a real_http matcher.
AdapterRaises(t, e) ==
  /\ AdapterDone(t)
  /\ e = "error" \/ (e \in {"no_mock", "run_real"} /\ Top(t).adapter \in Mockers)
  /\ SetTop(t, Leaving(Top(t), e))
  /\ OnlyStack

\* resolve_redirects calls self.send(..., allow_redirects=False) for each hop.
FollowRedirect(t) ==
  /\ At(t, "redirect") /\ MayNest(t)
  /\ Nest(t, NewFrame(SendOf(Top(t).session), Top(t).session, FALSE, FALSE))
  /\ OnlyStack

RedirectsDone(t) ==
  /\ At(t, "redirect")
  /\ SetTop(t, Leaving(Top(t), "response"))
  /\ OnlyStack

OriginalReturn(t) ==
  /\ At(t, "exit") /\ Top(t).fn = Original
  /\ Return(t, Top(t).result)
  /\ OnlyStack

-----------------------------------------------------------------------------
(* The rest of _fake_send.                                                 *)

\* Mutant of Forwards: no except clause for _RunRealHTTP.
MutNoRealClause(frame) == frame.result = "no_mock" /\ real_http[frame.fn]

\* The except clauses: NoMockAddress with real_http, or _RunRealHTTP.
Forwards(frame) ==
  \/ frame.result = "no_mock" /\ real_http[frame.fn]
  \/ frame.result = "run_real"

\* Mutant of Restored: get_adapter is not put back.
MutNotRestored(frame) == adapter_attr

Restored(frame) ==
  [adapter_attr EXCEPT ![frame.session] = last_get_adapter[frame.fn]]

\* Mutant of Released: an exception that leaves the mocker skips the release.
MutReleasedIfOk(frame) ==
  IF frame.result \in {"no_mock", "error"} THEN send_lock
  ELSE [owner |-> IF send_lock.count = 1 THEN None ELSE send_lock.owner,
        count |-> send_lock.count - 1]

Released(frame) == [owner |-> IF send_lock.count = 1 THEN None ELSE send_lock.owner,
                    count |-> send_lock.count - 1]

\* Both clauses of `finally`, then back to the caller or on to the forwarding.
FakeSendExit(t) ==
  /\ InFakeSend(t, "exit")
  /\ adapter_attr' = Restored(Top(t))
  /\ send_lock' = Released(Top(t))
  /\ IF Forwards(Top(t)) THEN SetTop(t, [Top(t) EXCEPT !.pc = "forward"])
                         ELSE Return(t, Top(t).result)
  /\ UNCHANGED <<targetVars, real_http, joining>>

\* Mutant of Unset: _last_send is taken for set.
MutNeverUnset(m) == FALSE

Unset(m) == last_send[m] = None

\* return self._last_send(...), after the lock is released.
FakeSendForward(t) ==
  /\ InFakeSend(t, "forward") /\ ~Unset(Top(t).fn)
  /\ SetTop(t, NewFrame(last_send[Top(t).fn], Top(t).session, Top(t).follow, TRUE))
  /\ OnlyStack

\* The same line once stop() has run: None is called, a TypeError.
FakeSendForwardNone(t) ==
  /\ InFakeSend(t, "forward") /\ Unset(Top(t).fn)
  /\ Return(t, "error")
  /\ OnlyStack

-----------------------------------------------------------------------------
(* start() and stop().  Another thread can run between reading the         *)
(* attributes and assigning `send`, and between putting `send` back and    *)
(* clearing _last_send.                                                    *)

\* Mutant of PreviousSend: the genuine Session.send, whatever the target has.
MutOriginalSend(target) == Original

PreviousSend(target) == SendOf(target)

\* Mutant of PreviousGetAdapter: Session.get_adapter, whatever the target has.
MutOriginalGetAdapter(target) == Original

PreviousGetAdapter(target) ==
  IF target = SessionClass THEN Original ELSE GetAdapterOf(target)

StartCapture(t, m) ==
  /\ InStarterCode(t)
  /\ last_send[m] = None                    \* else RuntimeError, no effect
  /\ last_send' = [last_send EXCEPT ![m] = PreviousSend(Target[m])]
  /\ last_get_adapter' =
       [last_get_adapter EXCEPT ![m] = PreviousGetAdapter(Target[m])]
  /\ switching' = [switching EXCEPT ![t] = m]
  /\ UNCHANGED <<send_attr, adapter_attr, real_http, nesting, stopping, send_lock,
                 stack, joining>>

\* Mutant of Patched: the class is patched whatever the target is.
MutClassPatched(m) == [send_attr EXCEPT ![SessionClass] = m]

Patched(m) == [send_attr EXCEPT ![Target[m]] = m]

StartInstall(t) ==
  /\ switching[t] # None /\ t \notin stopping
  /\ send_attr' = Patched(switching[t])
  /\ nesting' = Append(nesting, switching[t])
  /\ switching' = [switching EXCEPT ![t] = None]
  /\ UNCHANGED <<adapter_attr, last_send, last_get_adapter, real_http, stopping,
                 send_lock, stack, joining>>

\* Mutants of Unpatched: the genuine send is put back, or nothing is.
MutUnpatchedToOriginal(m) == [send_attr EXCEPT ![Target[m]] = Original]
MutNotUnpatched(m) == send_attr

Unpatched(m) == [send_attr EXCEPT ![Target[m]] = last_send[m]]

\* The documentation leaves any other order of stopping undefined, so the
\* program stops the innermost mocker.
MayStop(t, m) ==
  /\ InStarterCode(t)
  /\ nesting # <<>> /\ nesting[Len(nesting)] = m
  /\ last_send[m] # None                    \* else no effect

\* Mutant of StopRestore: _last_send is cleared first.
MutClearsFirst(t, m) ==
  /\ MayStop(t, m)
  /\ last_send' = [last_send EXCEPT ![m] = None]
  /\ switching' = [switching EXCEPT ![t] = m] /\ stopping' = stopping \cup {t}
  /\ UNCHANGED <<send_attr, adapter_attr, last_get_adapter, real_http, nesting,
                 send_lock, stack, joining>>

StopRestore(t, m) ==
  /\ MayStop(t, m)
  /\ send_attr' = Unpatched(m)
  /\ nesting' = SubSeq(nesting, 1, Len(nesting) - 1)
  /\ switching' = [switching EXCEPT ![t] = m] /\ stopping' = stopping \cup {t}
  /\ UNCHANGED <<adapter_attr, last_send, last_get_adapter, real_http, send_lock,
                 stack, joining>>

StopClear(t) ==
  /\ switching[t] # None /\ t \in stopping
  /\ last_send' = [last_send EXCEPT ![switching[t]] = None]
  /\ switching' = [switching EXCEPT ![t] = None] /\ stopping' = stopping \ {t}
  /\ UNCHANGED <<send_attr, adapter_attr, last_get_adapter, real_http, nesting,
                 send_lock, stack, joining>>

\* The program assigns mocker.real_http while the mocker is in use.
SetRealHttp(t, m) ==
  /\ InStarterCode(t)
  /\ real_http' = [real_http EXCEPT ![m] = ~@]
  /\ UNCHANGED <<targetVars, adapter_attr, send_lock, stack, joining>>

-----------------------------------------------------------------------------
\* The steps of a thread that is inside a call; the library takes them.
Progress(t) ==
  \/ FakeSendEnter(t) \/ FakeSendTimeout(t)
  \/ GetAdapter(t)
  \/ AdapterResponds(t) \/ AdapterRedirects(t)
  \/ \E e \in Results : AdapterRaises(t, e)
  \/ FollowRedirect(t) \/ RedirectsDone(t)
  \/ OriginalReturn(t)
  \/ FakeSendExit(t)
  \/ FakeSendForward(t) \/ FakeSendForwardNone(t)
  \/ StartInstall(t) \/ StopClear(t)
  \/ CallbackResumes(t)

\* The steps that the test program chooses to take.
UserStep(t) ==
  \/ \E s \in Sessions : UserSend(t, s) \/ CallbackSend(t, s)
  \/ \E u \in Threads : CallbackJoins(t, u)
  \/ \E m \in Mockers : StartCapture(t, m) \/ StopRestore(t, m) \/ SetRealHttp(t, m)

Next == \E t \in Threads : Progress(t) \/ UserStep(t)

Spec == Init /\ [][Next]_vars

\* A running thread is scheduled again; a callback returns after it has made
\* the calls it makes (MaxNested bounds them).
FairSpec == Spec /\ \A t \in Threads : WF_vars(Progress(t))

-----------------------------------------------------------------------------
(* Properties.                                                             *)

\* A send of mocker m finds m's own adapter, whatever other threads and nested
\* calls do to the session's get_adapter between the assignment and the lookup
\* (the race the lock in _fake_send is there for).
MockIsolation ==
  \A t \in Threads : \A i \in 1..Len(stack[t]) :
    LET f == stack[t][i] IN
    f.fn \in Mockers =>
      /\ f.pc = "lookup" => adapter_attr[f.session] = f.fn
      /\ f.pc \in {"adapter", "redirect", "exit"} => f.adapter = f.fn

\* The calls of the lock's owner that are inside the `with` block are as many as
\* the lock's count, no other thread has one, and nobody owns a lock with count 0.
LockDiscipline ==
  /\ \A t \in Threads :
       Cardinality({i \in 1..Len(stack[t]) : Holding(stack[t][i])}) =
         IF send_lock.owner = t THEN send_lock.count ELSE 0
  /\ send_lock.owner = None <=> send_lock.count = 0

\* Mock adapters answer the owner of the lock and nobody else, nested sends and the
\* requests of callbacks included: no two threads are in a mocker's adapter at once,
\* which no other lock protects (`Locked` in Adapter).
AdaptersLocked ==
  \A t \in Threads : \A i \in 1..Len(stack[t]) :
    stack[t][i].pc = "adapter" /\ stack[t][i].adapter \in Mockers => send_lock.owner = t

\* When nobody is inside a fake send, every session finds the get_adapter it had
\* before it was mocked ("restore get_adapter", mocker.py:194).
AdapterRestored ==
  send_lock.owner = None => \A s \in Sessions : GetAdapterOf(s) = ClassGetAdapter(s)

\* The places in nesting of the started mockers that cover a session, and the
\* innermost of those before place i.
Covering(s) == {i \in 1..Len(nesting) : Target[nesting[i]] \in {s, SessionClass}}
Around(s, i) ==
  LET outer == {j \in Covering(s) : j < i} IN
  IF outer = {} THEN Original
  ELSE nesting[CHOOSE j \in outer : \A k \in outer : k <= j]

\* "When nesting mockers the innermost Mocker replaces all others": the session's
\* send is the innermost mocker's, and the unmocked one when none is started.
InnermostWins == \A s \in Sessions : SendOf(s) = Around(s, Len(nesting) + 1)

\* start() is "Start mocking requests." and stop() "Stop mocking requests.": the
\* requests of a session are intercepted while a started mocker covers it, and
\* only then, whatever was started and stopped before.
MockedWhileCovered ==
  \A s \in Sessions : SendOf(s) # Original <=> Covering(s) # {}

\* Each started mocker hands what it refuses to the mocker that contains it, and
\* the outermost to the requests package.
ParentChain ==
  \A s \in Sessions : \A i \in Covering(s) : last_send[nesting[i]] = Around(s, i)

\* A mocker of one session takes part only in requests of that session.
SessionIsolation ==
  \A t \in Threads : \A i \in 1..Len(stack[t]) :
    LET f == stack[t][i] IN
    \A m \in Mockers :
      (f.fn = m \/ f.adapter = m) => Target[m] \in {f.session, SessionClass}

\* A request that every mocker in its way refused is performed for real.
ForwardedIsReal ==
  \A t \in Threads : \A i \in 1..Len(stack[t]) :
    LET f == stack[t][i] IN
    (f.fn = Original /\ f.forwarded) => f.adapter \in {None, Real}

\* _RunRealHTTP "should never be exposed to a user" (adapter.py:75).
RunRealNeverExposed ==
  \A t \in Threads :
    At(t, "exit") /\ Top(t).result = "run_real" =>
      \/ Top(t).fn \in Mockers /\ Forwards(Top(t))
      \/ Len(stack[t]) > 1 /\ stack[t][Len(stack[t]) - 1].pc = "redirect"

\* Only requests "that are not handled by the mocking adapter" are forwarded.
ServedNotForwarded ==
  \A t \in Threads : At(t, "forward") => ~Top(t).served

\* Between its two assignments stop() leaves a mocker that no new call can enter and
\* that can still forward: no call of send, by the program, a redirect or a mocker that
\* forwards, begins in the fake send of a mocker with no _last_send.  The None that
\* mocker.py:201 calls is met only by requests that were inside before stop() ended.
NeverEntersStopped ==
  [][\A t \in Threads :
       ~InFakeSend(t, "acquire") /\ InFakeSend(t, "acquire")' => ~Unset(Top(t).fn)']_vars

\* Every send comes back to its caller, even when a callback that holds the lock
\* waits for a thread that needs it.
Returns == \A t \in Threads : Active(t) ~> ~Active(t)

-----------------------------------------------------------------------------
(* The stack of mockers that the documentation describes: a call of send is *)
(* a request, asked of the mocker whose fake send runs.                     *)

Stack == INSTANCE MockStack WITH
  Covers   <- {p \in Mockers \X Sessions : Target[p[1]] \in {p[2], SessionClass}},
  Unmocked <- Original,
  Nobody   <- None,
  started  <- nesting,
  requests <- [t \in Threads |-> [i \in 1..Len(stack[t]) |->
                LET f == stack[t][i] IN
                [session |-> f.session, at |-> f.fn,
                 asked |-> IF f.adapter = Real THEN Original ELSE f.adapter,
                 refused |-> f.forwarded]]]

\* "When nesting mockers the innermost Mocker replaces all others. [...] the
\* request is passed to the containing Mocker": the attributes, the lock and the
\* forwarding of mocker.py implement the stack, for mockers of the class whenever
\* they start and stop, or of sessions between their calls, and sessions that
\* threads do not share.
ImplementsMockStack == Stack!Spec
=============================================================================

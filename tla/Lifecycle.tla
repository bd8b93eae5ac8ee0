----------------------------- MODULE Lifecycle -----------------------------
(***************************************************************************)
(* Who starts and stops mockers (src/requests_mock/mocker.py and contrib/): *)
(* classes and functions decorated with a Mocker, with blocks, the Fixture *)
(* and the pytest fixture, nested in each other by one thread.  A decorator *)
(* never starts: every call of what it decorated runs under copies made of *)
(* it, one for each layer of decoration.  Exceptions leave at any point.   *)
(* copy() passes kw, real_http and case_sensitive on; a session, an adapter *)
(* or a json_encoder of the decorator stay behind, so that the mockers here *)
(* are those of the class requests.Session.                                *)
(***************************************************************************)
EXTENDS Integers, Sequences

CONSTANTS
  Methods,     \* the methods of the class Base, which Sub extends
  Tests,       \* those whose name begins with TEST_PREFIX
  Keywords,    \* values of the option kw
  Decorators,  \* the arguments of the Mockers that decorate
  Instances,   \* mockers the program makes for with blocks
  Fixtures,    \* mockers made by the Fixture or the pytest fixture
  MaxCopies,   \* bound: copies made by calls
  MaxDepth,    \* bound: with blocks and layers of calls active at once
  MaxLayers,   \* bound: decorations of one method
  Original,    \* the Session.send of requests
  GivenAdapter, \* an adapter of the program, with matchers, that decorators are made with
  None

Classes  == {"Base", "Sub"}
Copies   == 1..MaxCopies
Mocks    == Instances \cup Fixtures \cup Copies

ASSUME LifecycleAssumption ==
  /\ Tests \subseteq Methods
  /\ Instances \cap Fixtures = {}
  /\ (Instances \cup Fixtures) \cap Copies = {}
  /\ Original # None /\ {Original, None, GivenAdapter} \cap Mocks = {}
  /\ None \notin Keywords
  /\ MaxCopies \in Nat /\ MaxDepth \in Nat \ {0} /\ MaxLayers \in Nat

\* What a mocker is made with; private: which of the arguments it was given that
\* copy() does not pass on.
Private == {"session", "adapter", "json_encoder"}
Option == [kw : Keywords \cup {None}, real_http : BOOLEAN, sensitive : BOOLEAN,
           private : SUBSET Private]

ASSUME DecoratorsAssumption ==
  Decorators \subseteq Option \cup
    [kw : Keywords \cup {None}, real_http : BOOLEAN, sensitive : {None},
     private : SUBSET Private]

\* A layer of decoration: the mocker that inner() copies, and the one the program made
\* (a history), which for a class is the one that the former was copied from.
Layer == [self : Option, made : Option]

VARIABLES
  methods,     \* the decorators around each class's own method, outermost first
  case_sensitive, \* Mocker.case_sensitive, the global default
  send,        \* requests.Session.send
  last_send,   \* mocker._last_send
  options,     \* the options each mocker was made with
  registered,  \* whether anything is registered with an adapter; a mocker's own
               \* adapter has the name of the mocker
  copies,      \* number of copies made
  frames,      \* with blocks and layers of calls that are active, outermost first
  raising,     \* an exception is on its way out
  started      \* history variable: started mockers in the order of start()

mockVars == <<send, last_send, registered, started>>
vars == <<methods, case_sensitive, options, copies, frames, raising, mockVars>>

Frame ==
  [mock   : Mocks,
   layer  : Layer \cup {None},              \* that the call has come to, if it is one
   inner  : Seq(Layer),                     \* layers of the call that come next
   args   : Seq(Mocks),                     \* mocks the call passes on by position
   kwargs : [Keywords -> Mocks \cup {None}], \* and by name
   pc     : {"inner", "body", "exit"}]

TypeOK ==
  /\ methods \in [Classes -> [Methods -> Seq(Layer) \cup {None}]]
  /\ case_sensitive \in BOOLEAN
  /\ send \in Mocks \cup {Original}
  /\ last_send \in [Mocks -> Mocks \cup {Original, None}]
  /\ options \in [Mocks -> Option \cup {None}]
  /\ registered \in [Mocks \cup {GivenAdapter} -> BOOLEAN]
  /\ copies \in 0..MaxCopies
  /\ frames \in Seq(Frame) /\ Len(frames) <= MaxDepth
  /\ raising \in BOOLEAN
  /\ started \in Seq(Mocks)

Init ==
  /\ methods = [k \in Classes |-> [n \in Methods |-> IF k = "Base" THEN <<>> ELSE None]]
  /\ case_sensitive = FALSE
  /\ send = Original
  /\ last_send = [m \in Mocks |-> None]
  /\ options = [m \in Mocks |-> None]
  /\ registered = [a \in Mocks \cup {GivenAdapter} |-> a = GivenAdapter]
  /\ copies = 0 /\ frames = <<>> /\ raising = FALSE /\ started = <<>>

-----------------------------------------------------------------------------
Top == frames[Len(frames)]
Outer == SubSeq(frames, 1, Len(frames) - 1)
TopAt(label) == frames # <<>> /\ Top.pc = label
InBody == ~raising /\ (frames # <<>> => Top.pc = "body")

\* seq without its first m.
Without(seq, m) ==
  LET p == CHOOSE i \in 1..Len(seq) : seq[i] = m IN
  [i \in 1..Len(seq) - 1 |-> IF i < p THEN seq[i] ELSE seq[i + 1]]

\* MockerCore.start
StartMock(m) ==
  /\ last_send' = [last_send EXCEPT ![m] = send]
  /\ send' = m
  /\ started' = Append(started, m)

\* Mutant of PutBack: what is left after _last_send has been cleared is put back.
MutPutBackCleared(m) == None

PutBack(m) == last_send[m]

\* MockerCore.stop: no effect on a mocker that is not started.
StopMock(m) ==
  IF last_send[m] = None THEN UNCHANGED <<send, last_send, started>>
  ELSE /\ send' = PutBack(m)
       /\ last_send' = [last_send EXCEPT ![m] = None]
       /\ started' = Without(started, m)

\* getattr(klass, attr_name)
Attribute(k, n) == IF methods[k][n] = None THEN methods["Base"][n] ELSE methods[k][n]

\* Mutant of Copied: case_sensitive is left out of the arguments.
MutCopied(option) == [option EXCEPT !.private = {}, !.sensitive = case_sensitive]

\* copy()
Copied(option) == [option EXCEPT !.private = {}]

\* The adapter of the mocker m made with these options.
AdapterOf(option, m) == IF "adapter" \in option.private THEN GivenAdapter ELSE m

-----------------------------------------------------------------------------
(* Decorating.                                                             *)

\* requests_mock.mock.case_sensitive = True, outside the tests.
SetGlobal ==
  /\ ~case_sensitive /\ InBody /\ frames = <<>>
  /\ case_sensitive' = TRUE
  /\ UNCHANGED <<methods, options, copies, frames, raising, mockVars>>

\* kwargs.pop('case_sensitive', self.case_sensitive)
Resolved(d) == [d EXCEPT !.sensitive = IF @ = None THEN case_sensitive ELSE @]

\* Functions and classes are decorated as modules are loaded, before anything is
\* mocked: first, at most once (a bound), the methods in the body of a class.
DecorateMethod(k, n, d) ==
  /\ InBody /\ copies = 0 /\ frames = <<>>
  /\ methods[k][n] = <<>>
  /\ methods' = [methods EXCEPT ![k][n] = <<[self |-> Resolved(d), made |-> Resolved(d)]>>]
  /\ UNCHANGED <<case_sensitive, options, copies, frames, raising, mockVars>>

\* A Mocker decorates a class: the tests among the attributes in dir(klass), which
\* are those of the base class too.
DecorateClass(k, d) ==
  /\ InBody /\ copies = 0 /\ frames = <<>>
  /\ \A n \in Tests : Len(Attribute(k, n)) < MaxLayers
  /\ methods' = [methods EXCEPT ![k] =
       [n \in Methods |->
          IF n \in Tests
          THEN <<[self |-> Copied(Resolved(d)), made |-> Resolved(d)]>> \o Attribute(k, n)
          ELSE @[n]]]
  /\ UNCHANGED <<case_sensitive, options, copies, frames, raising, mockVars>>

-----------------------------------------------------------------------------
(* Calls of decorated methods.                                             *)

\* Mutant of CopyOf: a decorator is entered itself, not a copy of it.
MutCopyOf == 1

CopyOf == copies + 1

\* Mutant of Passed: the mock goes before the arguments there are.
MutPassed(args, m) == <<m>> \o args

\* args.append(m)
Passed(args, m) == Append(args, m)

\* `with self.copy() as m`, and m added to the arguments for the next layer.
EnterLayer(below, layer, inner, args, kwargs) ==
  LET m == CopyOf
      kw == layer.self.kw IN
  /\ copies' = m
  /\ options' = [options EXCEPT ![m] = Copied(layer.self)]
  /\ StartMock(m)
  /\ frames' = Append(below,
       [mock |-> m, layer |-> layer, inner |-> inner,
        args   |-> IF kw = None THEN Passed(args, m) ELSE args,
        kwargs |-> IF kw = None THEN kwargs ELSE [kwargs EXCEPT ![kw] = m],
        pc     |-> IF inner = <<>> THEN "body" ELSE "inner"])
  /\ UNCHANGED <<methods, case_sensitive, registered, raising>>

NoKwargs == [k \in Keywords |-> None]

Call(k, n) ==
  LET layers == Attribute(k, n) IN
  /\ InBody /\ layers # <<>>
  /\ copies + Len(layers) <= MaxCopies /\ Len(frames) + Len(layers) <= MaxDepth
  /\ EnterLayer(frames, Head(layers), Tail(layers), <<>>, NoKwargs)

\* func is itself decorated: the inner layer of the call begins.
CallInner ==
  /\ TopAt("inner")
  /\ EnterLayer(Append(Outer, [Top EXCEPT !.pc = "exit"]),
                Head(Top.inner), Tail(Top.inner), Top.args, Top.kwargs)

\* The body of a with block or of a function ends, or raises.
Leave(raises) ==
  /\ TopAt("body") /\ ~raising
  /\ frames' = Append(Outer, [Top EXCEPT !.pc = "exit"])
  /\ raising' = raises
  /\ UNCHANGED <<methods, case_sensitive, options, copies, mockVars>>

\* An exception that comes to a body is caught there, or ends the body too.
Catch ==
  /\ raising /\ (frames # <<>> => Top.pc = "body")
  /\ raising' = FALSE
  /\ UNCHANGED <<methods, case_sensitive, options, copies, frames, mockVars>>

Propagate ==
  /\ raising /\ TopAt("body")
  /\ frames' = Append(Outer, [Top EXCEPT !.pc = "exit"])
  /\ UNCHANGED <<methods, case_sensitive, options, copies, raising, mockVars>>

\* Mutant of Exits: an exception skips __exit__.
MutExits == ~raising

Exits == TRUE

\* __exit__, or the clean-up of a fixture: stop() in any case.
Exit ==
  /\ TopAt("exit")
  /\ frames' = Outer
  /\ IF Exits THEN StopMock(Top.mock) ELSE UNCHANGED <<send, last_send, started>>
  /\ UNCHANGED <<methods, case_sensitive, options, copies, raising, registered>>

-----------------------------------------------------------------------------
(* With blocks, fixtures, and what bodies do with their mocks.             *)

EnterMock(m) ==
  /\ Len(frames) < MaxDepth
  /\ StartMock(m)
  /\ frames' = Append(frames, [mock |-> m, layer |-> None, inner |-> <<>>,
                               args |-> <<>>, kwargs |-> NoKwargs, pc |-> "body"])
  /\ UNCHANGED <<methods, case_sensitive, options, copies, registered, raising>>

With(m) == InBody /\ last_send[m] = None /\ EnterMock(m)

\* A test's fixtures are set up outside everything else: Fixture.setUp, which has
\* stop as its clean-up, or the requests_mock fixture of pytest, a with block
\* around the test.  What options these mockers are made with is not followed.
SetUpFixture(m) == frames = <<>> /\ ~raising /\ last_send[m] = None /\ EnterMock(m)
PytestFixture(m) == frames = <<>> /\ With(m)

\* start() of a mocker that is started: RuntimeError.
StartAgain(m) ==
  /\ InBody /\ frames # <<>> /\ last_send[m] # None
  /\ raising' = TRUE
  /\ UNCHANGED <<methods, case_sensitive, options, copies, frames, mockVars>>

\* The body stops its own mocker before its end, and may start it again.
StopEarly ==
  /\ InBody /\ frames # <<>> /\ last_send[Top.mock] # None
  /\ StopMock(Top.mock)
  /\ UNCHANGED <<methods, case_sensitive, options, copies, frames, raising, registered>>

Restart ==
  /\ InBody /\ frames # <<>> /\ last_send[Top.mock] = None
  /\ StartMock(Top.mock)
  /\ UNCHANGED <<methods, case_sensitive, options, copies, frames, raising, registered>>

\* m.get(...) and the like, followed for the mocks that calls are given.
Register ==
  /\ InBody /\ frames # <<>> /\ Top.layer # None
  /\ registered' = [registered EXCEPT ![AdapterOf(options[Top.mock], Top.mock)] = TRUE]
  /\ UNCHANGED <<methods, case_sensitive, options, copies, frames, raising, send,
                 last_send, started>>

Next ==
  \/ SetGlobal
  \/ \E k \in Classes, d \in Decorators : DecorateClass(k, d)
  \/ \E k \in Classes, n \in Methods, d \in Decorators : DecorateMethod(k, n, d)
  \/ \E k \in Classes, n \in Methods : Call(k, n)
  \/ CallInner
  \/ \E raises \in BOOLEAN : Leave(raises)
  \/ Catch \/ Propagate \/ Exit
  \/ \E m \in Instances : With(m)
  \/ \E m \in Fixtures : SetUpFixture(m) \/ PytestFixture(m)
  \/ \E m \in Mocks : StartAgain(m)
  \/ Register \/ StopEarly \/ Restart

Spec == Init /\ [][Next]_vars

-----------------------------------------------------------------------------
(* Properties.                                                             *)

InCall == TopAt("body") /\ Top.layer # None

\* "The created object will then be passed as the last positional argument", or as
\* the keyword argument: what a decorated body gets there is the mocker that
\* answers its requests, however many layers decorate it.
GivenMockAnswers ==
  InCall /\ last_send[Top.mock] # None =>
    /\ send = Top.mock
    /\ Top.mock = IF Top.layer.made.kw = None THEN Top.args[Len(Top.args)]
                                             ELSE Top.kwargs[Top.layer.made.kw]

\* A call shares its mock with no other: nothing is registered with the adapter of the
\* mock that a call gets, by an earlier call of the function, by one it is nested in,
\* or by the program with an adapter it made the decorator with.
FreshMock ==
  [][Len(frames') > Len(frames) =>
       LET begun == frames'[Len(frames')] IN
       begun.layer # None =>
         ~registered[AdapterOf(options'[begun.mock], begun.mock)]]_vars

\* kw, real_http and case_sensitive of the decorator the program made reach the mock of
\* each call, for a class through the copy made for the method and the one made for the
\* call, whatever the global default is by then; of the rest of what the decorator was
\* made with, nothing does ("an exact copy of current mock" is not one).
OptionsReachTheCall ==
  \A i \in 1..Len(frames) : frames[i].layer # None =>
    LET option == options[frames[i].mock]
        made   == frames[i].layer.made IN
    /\ option.kw = made.kw /\ option.real_http = made.real_http
    /\ option.sensitive = made.sensitive
    /\ option.private = {}

\* Requests are as they were when everything has been left, however it was left.
NothingLeft ==
  frames = <<>> => send = Original /\ \A m \in Mocks : last_send[m] = None

\* Mockers nest as the documentation of nested mockers has it, and the innermost is
\* stopped first: what Mocker takes for granted of the program, with blocks,
\* decorators and fixtures do.
Stack == INSTANCE MockStack WITH
  Threads  <- {"main"},
  Sessions <- {"any"},
  Mockers  <- Mocks,
  Covers   <- Mocks \X {"any"},
  Unmocked <- Original,
  Nobody   <- None,
  requests <- [t \in {"main"} |-> <<>>]
ImplementsMockStack == Stack!Spec
=============================================================================

# Verification of requests-mock

TLA+ models of requests-mock, model-checked with TLC on small instances, and
theorems about them that TLAPS proves for all values of the parameters.
Definitions are translated from the sources under `src/requests_mock`;
`PROJECT.json` maps each to its lines, and lists the hazards the properties are
for.

## The system

requests-mock replaces the network in tests of programs that use `requests`.

| Component | State | Operations | Interacts with |
|---|---|---|---|
| Mocker core (`mocker.py`, `MockerCore`) | `_last_send`, `_last_get_adapter`, `real_http`; the `send` attribute of the class or session it targets; the process-wide `_send_lock` | `start`, `stop`, the fake `send` | assigns attributes of `requests.Session`; calls the genuine `send`, which calls the adapter |
| Adapter (`adapter.py`) | `_matchers`, `request_history` | `send`, `register_uri`, `add_matcher`, `reset` | called by `Session.send`; calls matchers, latest first |
| Matcher (`_Matcher`) | `_responses`, `request_history` | `__call__`, `reset` | runs additional matchers and response callbacks of the program |
| Matching (`_Matcher._match`, `request.py`) | the parsed matcher; the parsed query of one request | method, URL, query, headers, additional matcher | reads the request proxy |
| Responses (`response.py`) | the arguments of a response, a registered cookie jar or body, the read position of each body | `_check_body_arguments`, `get_response`, `create_response`, `_IOReader.read` | called by the matcher; its bodies are read by `urllib3` |
| Decorators (`Mocker.copy`, `decorate_*`) | the decorated attributes of classes | one copy of the mocker per call | start and stop a mocker around a function |
| Fixtures (`contrib`) | none | set up, clean up | start and stop a mocker around a test |

What is hard here:

* A mocker works by assigning attributes that all threads read. The fake `send`
  assigns `get_adapter` on the session, and the genuine `send` looks it up later;
  the lock must cover exactly that, for calls that nest (redirects, callbacks).
* `start` and `stop` save and put back what they find, so correctness depends on
  the order of a whole sequence of calls, on instance against class attributes,
  and on what other mockers did before.
* Exceptions are control flow: `NoMockAddress` and `_RunRealHTTP` travel through
  nested calls and decide who forwards a request.
* The lock is held while code of the program runs. That code may send, register,
  reset, start and stop mockers, or wait for another thread.
* The adapter's lists are read and changed in separate steps, and registration
  and reset take no lock at all.
* A query is compared by removing values from a parsed copy; texts are
  unescaped, requoted and lower-cased in a different order on the two sides.
* One registered response is given to many requests, which overlap: bodies,
  headers and cookies must be its own for each.
* A decorator is used by every call of what it decorates, nested calls included,
  and an exception may leave at any point.

## Modules

| Module | Models | Instance |
|---|---|---|
| `MockStack` | what nested mockers promise: a stack, and requests that go from the innermost outward | (abstract) |
| `Mocker` | `MockerCore`: start, stop, fake send, lock | `MCMocker` |
| `Adapter` | `Adapter`, `_Matcher.__call__`, histories, reset | `MCAdapter` |
| `Matching` | `_Matcher._match` and the parts of the request it reads | `MCMatching` |
| `Response` | `_MatcherResponse`, `create_response`, `_IOReader` | `MCResponse` |
| `Lifecycle` | with blocks, decorators, copies, fixtures | `MCLifecycle` |
| `MockerProofs`, `NestingProofs`, `StackProofs`; `AdapterProofs`, `MatchingProofs`, `ResponseProofs`, `LifecycleProofs`; `SequenceFacts` | theorems | |

`Mocker` and `Lifecycle` each contain an instance of `MockStack` with a refinement
mapping; the two modules meet there. `Mocker` takes any order of starts and stops
in which the innermost mocker is stopped first, and follows the requests;
`Lifecycle` takes the requests out and shows that with blocks, decorators and
fixtures start and stop mockers in such an order. `AdaptersLocked` is what `Mocker`
promises `Adapter`: mock adapters are entered by the owner of the lock only, which
is `Locked` there. In the same way `Adapter` takes the verdict of `_match` as a
constant relation, which `Matching` computes, and the making of a response as one
step, which `Response` takes apart.

### Mocker

State: `send_attr` and `adapter_attr` are the attributes `send` (of the class and of
each session) and `get_adapter` (of each session); `"absent"` means that the lookup goes
on to the class. `last_send`, `last_get_adapter` and `real_http` are the mocker's
fields, `send_lock` the owner and count of the lock, `nesting` the started mockers in
order, `switching[t]` the mocker whose `start` or `stop` thread `t` is inside,
`stopping` the threads for which that is `stop`. `stack[t]` is the Python call stack of
thread `t`, reduced to calls of `send`: a frame says whose `send` runs, for which
session, and how far it has come (`acquire`, `lookup`, `adapter`, `redirect`, `exit`,
`forward`).

| Action | Code |
|---|---|
| `StartCapture`, `StartInstall` | `start`: reading the attributes, then assigning `send` |
| `StopRestore`, `StopClear` | `stop`: putting `send` back, then clearing `_last_send` |
| `SetRealHttp` | the program assigns `mocker.real_http` |
| `FakeSendEnter`, `FakeSendTimeout` | `_fake_send` up to `_original_send`; the lock's 10 s timeout |
| `GetAdapter`, `Adapter...`, `FollowRedirect`, `RedirectsDone`, `OriginalReturn` | `requests.Session.send`, as far as `_fake_send` relies on it |
| `FakeSendExit` | the `except` and `finally` clauses and the release of the lock |
| `FakeSendForward`, `FakeSendForwardNone` | `self._last_send(...)`; the second, when `stop` has cleared it |
| `UserSend`, `CallbackSend`, `CallbackJoins`, `CallbackResumes` | the program sends, sends from a callback, waits for a thread in a callback |

Taking the lock and assigning `get_adapter` are one step: the thread that takes the lock
is the only one that assigns that attribute next, and a reader that comes between the
two cannot tell (it reads the value before the step). `start` and `stop` are two steps
each, because sends of other threads go on between them: `start` reads the attributes
before it assigns `send`, and `stop` puts `send` back before it clears `_last_send`,
which requests that are inside still read when they are forwarded. The genuine `send` is
not part of this repository; the comment at `mocker.py:163-170` says what is assumed of
it.

The program stops the innermost mocker first, since `mocker.rst:227` leaves the
rest undefined, and starts and stops from one thread. `CallbackStarters` says
whether it also does so inside callbacks.

### MockStack

A stack `started` of mockers, and for each thread a stack of `requests`. A request
begins at the innermost mocker that covers its session (`Begin`), finds somebody
(`Ask`), is answered (`End`) or handed to the mocker around the one that refused
it (`Refuse`). `Ask` has one liberty, which the code takes: a request of a mocker's
own callback that was sent when no mocker was started any more still finds the
adapter that is on the session.

### Adapter

State: `matchers`, `responses`, `history` and `matcherHistory` are the lists of the
code. `sent` has one record for each request, with the matcher the request names
and how its send ended; `calls[t]` is the stack of calls to `Adapter.send` in
thread `t`, each with its turn of the loop over the matchers. `resetting[t]` is
where a running `reset()` has come to. Two history variables only record: `taken`
(what each matcher took from its list, for which request) and `overlapped` (the
requests in progress during a reset).

`Send` makes the proxy and enters the history; `TryMatcher` is one turn of the loop,
which stops at `CodeDecides` when an additional or custom matcher runs code of the
program; `Take` is the `pop(0)` or `[0]` that follows the reading of the length;
`Record` is `_add_to_history`; `Respond` and `Raise` end `get_response`; `Register`,
`ResetAdapter`, `ResetMatchers` (one matcher per step) and `ResetMatcher` are the
calls that take no lock. Which matcher matches which request is a constant relation
(`Addressed`, `Accepted`), `Locked` says whether sends come through a mocker. A
matcher is registered once.

### Matching

A text is a record: a word, whether it has a capital, and whether that letter is
percent-escaped (the empty text and `/` have no letter; a method, a scheme or a host is
a `Name`, which has no escapes). That is what the conversions of the code tell apart:
`Lower` does not see what is escaped, `Requoted` escapes what is outside ASCII and
unescapes the rest, `Unquoted` undoes every escape. `pc` follows `_match` through its
parts; `left` and `todo` are the parsed queries from which `RemoveValue` takes one
occurrence at a time, in any order; `TryNext` asks the next matcher about the same
request. `Declared` is the documentation's meaning of a match, with no conversions and
no loop, and `VerdictIsDeclared` compares.

### Response

`Register` checks the arguments (`register_uri` and `_MatcherResponse`), then each
request in `Requests` runs `GetResponse`, its callback's changes to the context
(`SetsHeader`, `SetsCookie`) and `CreateResponse`; after that the program reads
(`Read`), closes (`Close`) and iterates over (`StartIterating`, `Iterate`,
`StopIterating`) the bodies, in any interleaving. An argument list may hold what
registration does not look at: `headers` without `copy()`, a text its charset cannot
encode, a `json`, `body` or `raw` of the wrong kind; `Unusable` and `GetResponse` say
where a request fails for it. What a callback returns may be unusable in the same
ways. `readers` has a reader for each
response and one, `Shared`, for the object registered as `body` or `raw`. Marks in
`headers`, `cookies` and `jar` say whose callback set something. Two history variables
only record: `shut` (the readers the program closed) and `ended` (those that had no
byte for a read that asked for some).

### Lifecycle

`methods[k][n]` is the sequence of decorators around a method of a class, filled by
`DecorateMethod` and `DecorateClass`, which also finds the methods of the base class. A
layer is the mocker that decorates (`self`), for a method of a decorated class already a
copy, with the decorator as the program made it (`made`). A call runs through the layers
(`Call`, `CallInner`), each with a copy and a started mocker; `Copied` is what `copy()`
passes on, which leaves out `session`, `adapter` and `json_encoder` (`private`).
`AdapterOf` is the adapter of a mocker, its own or the program's `GivenAdapter`, on
which something is registered from the beginning. `Leave`, `Propagate` and `Catch` are
the ways of normal and exceptional ends, `Exit` is `__exit__` or a clean-up. `With`,
`SetUpFixture` and `PytestFixture` start the other mockers, `StartAgain`, `StopEarly`
and `Restart` are what bodies do with `start` and `stop`, and `Register` stands for
anything registered with the mock of a call. Mockers are those of the class `Session`,
and `start` is one step: there is one thread.

## Runs

| Run | Instance | States | Properties |
|---|---|---|---|
| `mocker_shared` | 2 workers on one session, `main` with 1 class mocker, depth 2 | 263 k | `MockIsolation`, `LockDiscipline`, `AdapterRestored`, `TypeOK` |
| `mocker_nested` | a worker and `main`, 2 class mockers, callbacks start and stop | 810 k | `InnermostWins`, `ParentChain`, `ForwardedIsReal`, `AdaptersLocked`, `NeverEntersStopped`, `ImplementsMockStack` |
| `mocker_joins` | 2 workers, a callback waits for the other | 15 k | `Returns` |
| `mocker_sessions` | 1 thread, 2 mockers of one session with an overriding class, depth 3 | 11 k | `SessionIsolation`, `AdapterRestored`, `MockedWhileCovered`, `RunRealNeverExposed`, `ImplementsMockStack` |
| `adapter` | 2 threads behind the lock, 4 kinds of matcher, 2 kinds of request, 2 sends, depth 2 | 3.4 M | `ResponsesInOrder`, `HistoryAligned`, `ResetForgets`, `LatestRegistrationWins`, `RequestKnowsMatcher`, `TypeOK` |
| `matching` | 34 000 pairs of matcher and request; up to 2 matchers in turn; queries of 2 against 3 pairs | 144 k | `VerdictIsDeclared`, `QueryCounted`, `TypeOK` |
| `response` | 2 overlapping requests, a body of 2 bytes, 130 argument lists | 263 k | `BodyIsWhole`, `ReaderLooksLikeHTTPResponse`, `ContextIsFresh`, `CheckedArgumentsWork`, `IterationEnds`, `TypeOK` |
| `lifecycle` | 2 classes, 2 methods, 2 decorators, a with block and a fixture, 2 copies, depth 3 | 3.9 M | `GivenMockAnswers`, `OptionsReachTheCall`, `FreshMock`, `NothingLeft`, `ImplementsMockStack`, `TypeOK` |

Four runs end in a violation; each states what the documentation says and what the
code does not do (`findings` in `PROJECT.json`):

* `mocker_shared_forward`: a refused request is forwarded after the lock is
  released, and meets the adapter another thread has just put on the session.
* `mocker_session_then_class`: `stop` leaves the session with an instance
  attribute `send`, which hides a class mocker that is started later.
* `mocker_served_forward`: the `except` clauses also catch what a redirect's
  next hop raises, and send the request that was already answered on again, to the
  mocker around or to the network.
* `matching_registered`: a URL whose query has a capital that is, or will be,
  percent-escaped is lower-cased on one side only and does not match itself.

Three more divergences have no run: a session whose class overrides `get_adapter` has
the plain one for good after a class mocker (`mocker.py:195`), and a custom matcher
without `reset` ends `Adapter.reset` midway (`adapter.py:320`); and the "exact copy" of
`mocker.py:294` loses `session`, `adapter` and `json_encoder`. The first is why
`mocker_sessions` mocks overriding sessions one by one, the second why
`ResetForgetsHolds` assumes `Resetless = {}`, the third is part of what
`OptionsReachTheCall` says.

Bounds. Two threads are enough for every race here, since each involves one thread
between two steps and one that interferes; a third, `main`, changes the mockers
meanwhile. Two mockers give an outer and an inner one. `MaxDepth` 2 lets one send
nest in another, as a callback or a redirect, with all their exceptions; 3 lets a
redirect happen inside a callback's send. `MaxNested` bounds the nested calls of one
send. In `Adapter` two sends take both responses of a list, or one of them runs
inside the callback of the other; what happens after the last response is
exhausted, and any number of sends, is what the proofs are for. In `Matching` the
matcher's query has up to two pairs and the request's up to three, so that a pair
can be missing, repeated or left over. In `Response` two readers interleave, and a
body of two bytes is read in part, whole and beyond. In `Lifecycle` depth 3 has two
layers of a call inside a with block or a fixture.

Deadlock is checked except where the end is the end: a decided match, a refused
registration. Symmetry is used for threads that nothing tells apart, and in
`mocker_nested` for mockers of the class.

Fairness. In `Mocker`, `FairSpec` adds weak fairness of `Progress(t)` for every
thread: a thread that is inside a call is scheduled again, and the code of a
callback ends. Under it, `Returns` holds only because `FakeSendTimeout` exists:
without the timeout the same run deadlocks. In `Response`, a loop of `iter_content`
that has begun goes on; nothing else has to happen. Nothing is assumed of the
program's own choices.

Refinement. `ImplementsMockStack` says that attributes, lock and forwarding implement
the stack, in `mocker_nested` for mockers of the class and sessions that threads do
not share, in `mocker_sessions` for mockers of one session; where threads share
sessions, `mocker_shared_forward` shows that they do not.
`ImplementsMockStack` in `lifecycle` says it of starts and stops, with no requests.

Each property of a passing run has a mutant in its module (`Mut...`), a plausible
bug in the code that makes TLC find the property violated.

## Proofs

All theorems hold for every value of the constants that satisfies the named
assumptions of the component's module; further assumptions are in the theorem.

**`MockerProofs`**: `TypeCorrect`, `LockDisciplineHolds`, `MockIsolationHolds`, for
any threads, sessions, mockers, targets and bounds. The inductive invariant is
`LockInv`, the conjunction of

* `TypeInv`, types with two values left open (a negative count of the lock, a
  `get_adapter` of `None`), inductive by itself;
* `LockDiscipline`: the count of the lock is the number of its owner's calls inside
  the `with` block, and no other thread has one;
* `CallersWait`: every call but a thread's innermost is at its adapter or following
  redirects. Without it a caller could be waiting for its lookup while a callee
  restores `get_adapter`; this is the comment at `mocker.py:163-170` as a formula;
* `MockIsolation`: a fake send waiting for its lookup finds its mocker's function.

`MockIsolation` is preserved because the only steps that assign `get_adapter`
(`FakeSendEnter`, `FakeSendExit`) are taken by a thread that owns the lock
afterwards or before, and by `LockDiscipline` a frame that waits for its lookup
belongs to the owner; by `CallersWait` it is the owner's innermost call.
`TypeCorrect` adds `CapturedInv`: every mocker that can be reached from an
attribute, another mocker or a running call has been started, so that what it puts
back is a function.

**`NestingProofs`**: what mockers that nest and requests that are forwarded keep to,
for any number of mockers, sessions and threads. Nothing more is assumed of
`SessionIsolationHolds`; the others assume what their property needs, and TLC, or the
code, shows that it fails without:

* `Unmixed`: the mockers are all of the class or all of sessions. With both,
  `InnermostWins` is what `mocker_session_then_class` refutes.
* `OneStarter`: one thread starts and stops. With two there is the race of `start()`.
* `QuietFor(m)`: nobody starts or stops `m` during a call that it covers. `Quiet` is
  that of all mockers, `QuietSessions` of those of sessions only: one that starts
  during a call for its session reads the adapter function of that call, and puts it
  back later. Mockers of the class read it from the class, at any time.
* `PrivateSessions`: threads do not share sessions (`mocker_shared_forward`).
* `PlainSessions`: no session that overrides `get_adapter` under a mocker of the class
  (it loses the override, see above).

| Theorem | Assumes | Inductive invariant |
|---|---|---|
| `SessionIsolationHolds` | | `CallInv` |
| `InnermostWinsHolds`, `MockedWhileCoveredHolds`, `ParentChainHolds` | `Unmixed`, `OneStarter` | `Chain` |
| `AdapterRestoredHolds` | `QuietSessions`, `PlainSessions` | `Restoring` |
| `ForwardedIsRealHolds` | `QuietSessions`, `PrivateSessions` | `Forwarding` |
| `AdaptersLockedHolds` | `QuietSessions`, `PrivateSessions` | `StrayInside` |
| `NeverEntersStoppedHolds` | `Unmixed`, `OneStarter` | `Chain` |
| `RunRealNeverExposedHolds` | `PrivateSessions`, `QuietSessions`, and `Quiet` or no callback that sends | `NoStray`, or `StrayInside` and `CallersRedirect` |

* `CallInv` is what holds of the calls whatever the constants are: `LockInv`,
  `CapturedInv`, `FitInv` (whatever is on a session, and whatever its mockers remember,
  is a mocker that may be there; the calls too) and `OwnSessions` (a thread's calls are
  for its sessions).
* `Chain`: no mocker is started twice (`Distinct`); each has in `_last_send` the mocker
  around it and each session the innermost (`ParentChain`, `InnermostWins`); targets of
  no mocker are as they were (`Untouched`); a mocker inside `start()` or `stop()` has in
  `_last_send` what its target has now (`HasRead`); these and no others have a
  `_last_send` (`Linked`). The lemmas about `AroundIn` say how the mocker around a place
  changes when a mocker is pushed or popped, and rest on `LargestPlace` of
  `SequenceFacts`.
* `Restoring`: `start()` only ever reads a session's own functions (`Getters`), and what
  a session has besides is of a call for it that is inside the `with` block.
* `Forwarding` adds `Cleared`: no mocker is left on the session of a refused call until
  its next lookup.
* `NeverEntersStopped` needs nothing quiet: `RestoreKeepsChain` says that when `stop`
  has put `send` back no attribute and no other mocker's `_last_send` leads to the
  mocker, so that `ClearKeepsChain` holds of what follows. The `None` of
  `FakeSendForwardNone` is met only by requests that were inside before.
* A call of the genuine `send` that meets a mocker's adapter, or carries `_RunRealHTTP`,
  is a `Stray`. By `StrayInside` a call of a mocker is below it on the stack, so that
  the thread owns the lock (`AdaptersLocked`); by `CallersRedirect`, if callbacks send
  nothing, what it raises goes on to that call. In quiet times there is no such call
  (`NoStray`): what a mocker intercepts (`Intercepted`) is for a session whose calls
  keep coming through a mocker, until they are forwarded (`Direct`).

**`StackProofs`**: `MockerImplementsMockStack`, under `Unmixed`, `OneStarter`,
`QuietSessions` and `PrivateSessions`. `Request` maps a call to a request, and
`Requests` a stack to the thread's requests; there is one lemma for each way a stack
changes (`RequestsOfSetTop`, `RequestsOfNest`, `RequestsOfReturn`) and one for each
abstract action. `LookupFinds` (a lookup finds the mocker whose `send` it is, or one
whose callback sent the request), `SendIsInnermost` and `LastSendIsAround` (what a
session and a mocker have is the innermost mocker and the one around) are what the
refinement rests on, and they follow from `StackInv`: `CallInv`, `Chain`, `Restoring`
and `Cleared` together with `Turns`, whom the innermost call has asked.

**`AdapterProofs`**: three theorems hold with or without a lock, two behind it, one
if all matchers can be reset.

* `TypeCorrect`, `LatestRegistrationWinsHolds`: `Loops` is inductive. It adds to the two
  properties that matchers are registered once and stay (`Distinct`, `KnownSent`), that
  a call in progress has found no match among the matchers above its turn and has a
  match once its response is made (`CallsKept`), and that no two calls are of one
  request (`CallsApart`).
* `RequestKnowsMatcherHolds`: `Recorded` says it also of requests in progress: what a
  matcher has in its history is in that matcher's callback until it is finished.
* `ResponsesInOrderHolds`, `HistoryAlignedHolds`, under `Locked`, which
  `AdaptersLockedHolds` justifies: `LockedInv` has one thread in `send`, the truth of
  what it read of the list's length until it takes (`PopKnown`), and that what it took
  is the last taken until it is recorded (`LastTaken`). Without the lock both fail, as
  TLC shows for the mutant `MayEnter`.
* `ResetForgetsHolds`, under `Resetless = {}`: `ResetInv` says what a running `reset()`
  still owes (`StillToReset`), that only registered matchers have histories, and that
  the calls in progress are in the adapter's history or overlapped.

**`MatchingProofs`**: `TypeCorrect`, `QueryCountedHolds`, `VerdictIsDeclaredHolds`, for
any texts and queries of any length.

* `LoopCounts`: for every pair, what is left and what has been removed make up the
  request's count, and the same for the matcher's.
* `Declared` quantifies over the ways to send the places of one query to those of
  another; that there is one exactly if no pair is too few is `CountsSend` and
  `SendCounts`, from facts about injections between finite sets (`FewerInject`,
  `InjectFewer`).
* The conversions of the two sides come to one `Form` of a text, with the words it has
  and its capitals if they count (`FoldedForm`, `PathsAgree`, `NamesAgree`,
  `PairsAgree`); so equal texts there are texts declared the same.
* `Decided` is inductive: after each part of `_match` the parts before it were right,
  and a verdict of "no" has a part that was not; by `RightIsDeclared` all of them right
  is `Declared`.

As in the run, the theorem is about matchers and requests that `Readable` and
`PurlAsString` admit; those it leaves out are the finding of `matching_registered` and
purl URLs that never match.

**`ResponseProofs`**: `TypeCorrect`, `BodyIsWholeHolds`, `ReaderHolds`,
`ContextIsFreshHolds`, `CheckedArgumentsWorkHolds`, for any number of requests and
any size, and any arguments, well-formed or not. `ReadersKept` (whose reader a response
has, and that nothing is read before there is one) and `ArgumentsChecked` (responses
come of checked arguments) are what the properties rest on; `ReaderLooksLikeHTTPResponse`
is part of the inductive invariant as it stands.

**`LifecycleProofs`**: `TypeCorrect`, `NothingLeftHolds`, `GivenMockAnswersHolds`,
`OptionsReachTheCallHolds`, `FreshMockHolds`, and `LifecycleImplementsMockStack`,
the refinement. The heart of `IInv` is `Chain` (started mockers are linked by
`_last_send`, and `send` is the last one's) and `Nested` (of two started mockers,
the one started later has a frame inside all those of the other): together they
say that the mocker a frame stops is the innermost. `CopiesFresh`, `LayersToCome`,
`AllGiven` and `BaseComplete` are about copies, pending layers, arguments and
inherited methods, and `LayersHonest` says that every layer there is, on a class or in
a call, still has the options its decorator was made with.

`SequenceFacts` has the facts about places and about `SubSeq` that several of them use.

Only model-checked: liveness (`Returns`, `IterationEnds`), which is outside what the
prover can do, and what the four violations show. Every invariant, action property
and refinement that a passing run checks is a theorem, and the run's instance satisfies the
theorem's assumptions.

## Not modelled

* The network, and `requests` and `urllib3` beyond what the code here uses.
* Two threads that start or stop mockers at once, among them two threads in
  decorated functions; stopping in any order but innermost first.
* Decorated generators and coroutine functions, whose bodies run after the mock is
  stopped.
* Regular expressions, beyond that they see the URL as it is sent; the parsing of
  URLs and `purl` objects, beyond their parts.
* How `json_encoder` is passed on (`mocker.py:234`), the values of status, reason
  and encoding, and the connection object.
* The accessors of `_RequestObjectProxy` that keep no state, and pickling.
* Weak references and garbage collection: matchers live as long as their adapter.
* The ini option of the pytest plugin; type stubs, exceptions and exports, which
  have no behaviour.

## Plan

1. Done: `Mocker`, `Adapter`, `Matching`, `Response`, `Lifecycle`, `MockStack` with
   its two refinements, and the proofs above.
2. Done: the proofs about nesting and forwarding, and `Mocker`'s refinement.
3. Done: all other safety properties for all values of the constants, mockers of any
   sessions, and `AdaptersLocked`, which joins `Mocker` and `Adapter`.
4. A run with two starters, for the check in `start` that is not atomic.

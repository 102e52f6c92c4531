# Verification of fipper

TLA+ models of the run-time core of fipper (a C++ HTTP server library), the TLC
configurations that check them on small instances, and proofs that TLAPS checks
for every instance. Paths below are relative to the repository; `fp/` stands for
`lib/include/fp/`.

## 1. Inventory

| Component | State it keeps | Operations | What makes it correct |
|---|---|---|---|
| `StackBasedRollingQueue` (`fp/containers/`) | `m_start`, `m_size`, N slots of raw storage | push, pop, copy and move, destruction, range-for | bounded FIFO; exactly the stored elements are live objects |
| `JobQueue` (`lib/src/jobScheduler.cpp`) | six queues (one per `JobPriority`), a counter, a mutex, a condition variable, all static | push, pop, the two lock guards | counter equals queues; highest priority first, FIFO within it; refused only when the level is full |
| `JobScheduler` (same file) | `s_running` (static), worker threads | create, destructor, `s_threadMain` | accepted jobs are run, no wakeup lost, the destructor returns |
| Asynchronous endpoints (`fp/coroutines/async.*`, `fp/endpoint.inl`) | two coroutines per request, their promises and tasks, one awaiter and one process per await | handleRequest, await_suspend, complete, resume | one thread per request at a time; each await gets its own value; answered once, after the endpoint returned |
| `Server` (`lib/src/server.cpp`) | scheduler, endpoints, server socket, `s_endSignal` (static) | create, run, handle a request, signal handler, destructor | one failure does not take others down; nothing is used after it is destroyed |
| Endpoint table (`fp/server.inl`) | vector of (route, map of methods), sorted by the length of the route | `m_addEndpoint`, look-up | every registered endpoint is found |
| `RouteString` (`fp/routeString.inl`) | template, generator data | generate, isInstance, extract parameters | instances are exactly what the template generates |
| `Request`, `Response`, headers (`fp/request.inl`) | parameters and their names, body | setParams, getParam, deserialize | typed access to what was extracted |
| Serialization (`lib/src/deserialier.cpp`, `serializer.cpp`) | none | text to values and back | round trip, range of integers |
| `Socket` (`lib/src/socket.cpp`) | a file descriptor | create, listen, accept, poll, receive, send, move | one owner, closed once |
| `ErrorStack` (`lib/src/errorStack.cpp`) | one stack per thread in a static map | push, iterate, logAll | a thread sees its own errors |
| Reflection of enums (`fp/utils/enums.*`, `constexprMap.hpp`) | none at run time | scan of indices, `toString` of a value | every enumerator in the scanned range has its name, nothing else has one |
| tables, other compile-time utilities, benchmark, sample, scripts | none at run time | | |

How they interact. `Server::run` accepts connections on the main thread and, for
each request, pushes an `eMedium` job (a `JobPushingLockGuard` scope). A worker
takes the job, looks the route up in the endpoint table and calls the endpoint's
`handleRequest`. A synchronous endpoint is answered there. An endpoint that
returns `fp::Async` suspends at each `co_await`: the worker stores the wrapper's
handle in the awaiter, calls the awaiter's callback, which starts a process on
some other thread, and goes back to the queue. When the process calls
`complete`, it stores the value and pushes an `__eResumingJob` job, and whichever
worker takes it runs the endpoint on. All queues are `StackBasedRollingQueue`s of
`FP_JOB_QUEUE_SIZE` (16, `CMakeLists.txt:25`) jobs.

What is hard in this code: the counter and the queues change in separate
statements; the notification comes after the unlock; waits have deadlines and
spurious wakeups; the destructor notifies nobody; several static flags outlive
the objects they belong to; a request moves from thread to thread while its first
thread is still inside the callback; the results of some pushes are discarded;
the ring constructs and destroys objects by hand. `PROJECT.json` lists each of
these under `hazards`, at its line, with the properties that watch it.

## 2. Modules

| Module | What it models |
|---|---|
| `BoundedFifo` | abstract: a bounded FIFO queue |
| `RollingQueue` | `StackBasedRollingQueue` slot by slot; implements `BoundedFifo` |
| `RollingQueueProofs` | invariants of `RollingQueue` and its refinement of `BoundedFifo`, for any capacity |
| `JobPool` | abstract: bounded priority queues, jobs refused or run once |
| `JobScheduler`, `MCJobScheduler` | threads, mutex, condition variable, counter, life of the scheduler; implements `JobPool` |
| `JobSchedulerProofs` | invariants of `JobScheduler` and its refinement of `JobPool`, for any threads and jobs |
| `SequentialEndpoint` | abstract: an endpoint goes through its awaits in order and is answered at its end |
| `AsyncEndpoint`, `MCAsyncEndpoint` | the coroutines of an asynchronous request, over the promise of `JobPool`; implements `SequentialEndpoint` |
| `AsyncEndpointProofs` | invariants of `AsyncEndpoint` and its refinement of `SequentialEndpoint`, for any requests and workers |
| `Server`, `MCServer` | the accept loop, requests in pieces, descriptors, dispatch, SIGINT, destruction and the next server, over the promise of `JobPool` |
| `ServerProofs` | invariants of `Server`, for any clients, workers and descriptors |
| `RouteString` | templates: validity, instances, parameters by position and by name; and the language a template describes |
| `RouteStringProofs` | what `isInstance` and the parameters compute, for any templates and routes |
| `Conversion` | text to integers, with their widths |
| `EndpointTable`, `MCEndpointTable` | registration and look-up, built on `RouteString` and `Conversion` |
| `EndpointTableProofs` | what every history of registrations makes of the table and what its answers mean, for any templates, routes and bodies |
| `ErrorStack` | the stacks of errors by thread, in a map without a lock |
| `Enums` | which enumerators have a name |
| `ErrorNames`, `MCErrorNames` | the errors of `ErrorStack` with the results they are pushed with, named by `Enums` |
| `ErrorStackProofs` | invariants of `ErrorStack` and `ErrorNames`, for any threads, errors and enums |
| `SequenceLemmas` | lemmas that the proofs cite: queues without repetition, least and greatest numbers, folds over positions, remainders and powers of two |

An `MC` module gives constants their values. A definition that stands right
before another one and is used by no action (`PushUnchecked`, `NotifyNobody`, ...)
is a plausible wrong version of the one that follows it; replacing the one by the
other makes TLC find the property violated that `PROJECT.json` names for it.

### RollingQueue

`rings[q]` is one queue object: `start` is the index of the slot `m_start` points
to, `size` is `m_size`, a slot holds a live element or `Dead`. `Push`,
`PushSaturated`, `Pop` and `PopEmpty` are the branches of the member functions.
`Assign` is `operator=`: the destructor and then the copy or move constructor on
the same storage (the move constructor reads its source through a pointer to
const, so it copies). A range-for is `Begin`, `Dereference` and `Advance`, with
any other call in its body. `faults` is what the last call did wrong to the life
of some object. Left out: self-assignment, whose constructor reads members that
its own destructor has just wound down, and the postfix `operator++`.

### JobScheduler

`mutex` names the owner. A pusher goes through lock, `JobQueue::push` (the queue,
then the counter), unlock, notify, one action each; a refused push skips the
counter and still notifies. A worker is `s_threadMain` with `wait_for` inlined:
test the predicate under the mutex, wait, be notified, wake spuriously or time
out, relock, test again. A thread that was notified can still find its deadline
passed. `pop` is two steps, as in the code: the counter first, then the queue.
`Create`, `Destroy` and `Join` are the owner's. Pushers stand for every thread
that can be inside a `JobPushingLockGuard` scope, workers included: a worker that
pushes while it runs a job holds neither the mutex nor a place in the queues, so
that a separate pusher can do whatever it does.

### AsyncEndpoint

`session[r]` holds the two coroutines of a request, the flags of their promise and
task, and the awaiter and process of the current await. `TakeRequest` runs
`handleRequest` up to its loop, the endpoint included up to its first await.
`AwaitTask`, `SetHandle`, `Launch` and `Return` are what a worker does in one
`co_await task`; after `Launch` the process, and after it another worker, may
overtake the first one. `Complete` and `PushResuming` are `complete()`: value,
then push, whose result nobody looks at. `TakeResuming` and `Resume` run the
endpoint on; `Respond` is the end of `handleRequest`. `FreshBool` gives the
values that each request's uninitialised `EndpointPromise::m_done` may have. A worker
that calls an empty callback is `"crashed"` and the program with it: every step needs
all workers to be `Alive`, and only `Ended` is left.

`SequentialEndpoint` is what the author of a coroutine endpoint reads in its text
(the sample's `/api/data`, `sandbox/src/main.cpp:99-114`): the awaits one after the
other, each with the completion of its own process (lines 50-56), and one answer.
It has no threads, no queue and no frames. `AsyncEndpoint` implements it with
`step` as how far the endpoint has come, `ready` as whether its process has
completed, and `outcome` as what its client saw. Two deviations of the code are
part of the promise: an endpoint that never awaits crashes, which ends the program and
so every other endpoint (`Next` needs nobody to have crashed), and a hasty one
(`m_done` starts as true) may be answered early. Any other one, such as a value
that is delivered twice, the resumption of an await that has not completed, or an
answer that comes twice, breaks the refinement.

### Server

`main` is where the thread is that owns the server: `create`, the loop of `run`
with each of its exits, and the destruction of the members in reverse order
(`Destroy` the socket and the endpoints, `StopWorkers` and `Join` the scheduler).
A connection is followed by its descriptor: `table` is the kernel's, and `mainFd`,
`jobFd` and `frameFd` are the `Socket::m_socket` of the loop, of a job and of an
endpoint's coroutine, between which it is moved. A worker that reaches
`m_endpoints` after their destruction is `"crashed"`. The job queue is the promise
of `JobPool`, so the six levels, the mutex and the counter are not repeated here;
endpoints answer without awaiting, since `AsyncEndpoint` has those that do.

Clients may be silent, send, close or reset at any time. A request is `Pieces` = 2
pieces long: `sent` counts those that have arrived, `request` those that the loop
has read. A client may write the two at once or one after the other, and one call
of `recv` may find any part of what is there, since its buffer has a limit; the
loop of `recieve` goes on (`Recheck`) while more has arrived. Half a request may be
cut anywhere, so that its dispatch may end in any way. After `"gone"` the owner may
`Create` another server: it finds `s_running`, `s_endSignal` and the queue as the
first one left them. Left out: `SIGPIPE`, and what the requests and answers say.

### RouteString, Conversion and EndpointTable

A route is a sequence of symbols; in a template one symbol stands for a whole
specifier, whose `Name`, `Width` (in characters, which the order of the table
depends on) and `:not_empty` are constants. `IsInstance` is the loop of
`isInstance` as a function of its two iterators, `Describes` the reference it is
compared with. `ExtractParams` yields the parameters that a route may be found to
have: the first is the text that the iterators delimit; the search for a second one
starts from an iterator into the other string (`routeString.inl:165`), which is
undefined, so that any text of `Garbage` may come out, or the program die, as it
does for an empty route. `GetParam` is the look-up by name.

`Deserialize` parses at the width of `long` and narrows; `Narrowed` is modulo the
width of the type. `BodyText` is the body of a request: without a blank line
`find() + 4` wraps, and the text starts in the request's first line.
`AddEndpoint` is `m_addEndpoint` (a `find_if` over the lengths), `Found`
and `NotFound` the dispatch and the part of `handleRequest` before the callback.
`registered` remembers what the program asked for. Routes passed to
templates without parameters are compared as strings, as `RouteString<>` does.

### ErrorStack

Each call is a stay in the map (`Enter`, then the action that leaves) and what it
does to the thread's own stack. Two threads in the map at once, one of them
inserting, is a race; pop of an empty stack and a view of a destroyed string are
the other two ways to be `undefined`, after which nothing is expected. `logAll` is
`LogAll`, `LogNothing`, `LogLoop` and then the loop, `iterate()` the loop alone;
a body may push, start another loop, or leave. `inLoop`, `habits`, `reported` and
`repeated` are history for the properties.

### Enums and ErrorNames

An enum is a record of its type, its scan and its enumerators. `Indices` is the
recursion of `EnumValueFinder` over `std::size_t` indices, from one that is negative
for `fp::Result` (`result.hpp:19`) and so wraps; `Finder` puts together the tuples of
the valid ones, `StringMap` is the `ConstexprMap` built from the last to the first,
`NameOf` the look-up in it. The value of a flag is `1 << index2`, shifted in an `int`
and then stored in the type of the enum (`Value`): in a wider type the last bit of an
`int` fills all bits above (`SignExtended`), so that this flag has no name. `Scanned`
is the reference: the values between the two indices, or the single bits between them
(`Bit`), but for that flag. These are operators without state.

`ErrorNames` is what a caller of `ErrorStack::push(ret, str)` gets of them
(`errorStack.hpp:81-92`). Every step of it is one of `ErrorStack`; it adds the enum
that `fp::Result` is (`results`, any enum of the instance, chosen once), the result
that each push is given, what its text starts with, and what loops have read.
`Prefix` is the formatting: a result that is passed as a value is put before the text
by its name; a variable is not (its `Return` is a reference, which is not the
same as `fp::Result`), nor is anything else.

## 3. Runs

| Run | Instance | Shows |
|---|---|---|
| `rolling_queue` | two queues, two values, N = 2 | shape, live window, no lost object, `BoundedFifo` |
| `rolling_queue_raw_storage` | the same | violated: copies destroy raw storage |
| `rolling_queue_range` | one queue | violated: a range-for dereferences past the last element |
| `job_scheduler` | 2 workers, 2 pushers, 4 jobs (3 at one level of 2, 1 above) | counter, pop never empty-handed, no lost wakeup, `JobPool`; a queued job is run while the scheduler is up; the destructor returns |
| `job_scheduler_twice` | two lifetimes | violated: the second scheduler's threads exit at once |
| `async_endpoint` | 3 requests with 2, 2 and 0 awaits, 2 workers, `m_done` of either value for two of them | one driver, sound resumptions, none lost; every endpoint runs as its author wrote it (`SequentialEndpoint`); every request that awaits is answered, unless the one without an await ends the program |
| `async_endpoint_fresh_done` | `m_done` of either value | violated: the response precedes the end of the endpoint |
| `async_endpoint_dropped` | resuming queue of 1 | violated: a resumption is dropped |
| `server` | 3 clients, 1 worker, queue of 1, 2 descriptors, 2 calls of `run`, servers one after the other | one holder per descriptor, answers reach their client, causes of failure, quiet end (no job of a server that is gone is run by the next one's threads), bounded descriptors, whole requests unless their client split them, SIGINT is final; requests are answered, SIGINT ends the loop |
| `endpoint_table` | 7 templates, 2 methods, 3 registrations, 37 routes, 16 bodies | the last registration wins, what is found is described and conversely, parameters by name and bodies are what the request says, 400 exactly when it should be |
| `endpoint_table_405` | the same | violated: 405 for a method that was registered |
| `error_stack` | 2 threads, 2 errors each, loops nested twice; 124 enums in the place of `fp::Result`, for one thread | races only for a first entry, nothing lost or shown twice without a cause, undefined behaviour needs nested loops; an error is read with the name of the result it was pushed with |

Bounds. N = 2 already has full, empty and wrapped rings, and two queues give
copies between any two of them. Two workers and two pushers give every pair of
roles in conflict on the mutex (the invariants of a third thread are proved, see
below); three jobs at a level of two saturate it. `MaxLifetimes` bounds the
schedulers that are destroyed. Two awaits are enough for a value of an earlier
await to be confused with a later one. In `server` a queue of one and two
descriptors make both run out, and three clients let a descriptor's number be
used again while its first connection is still being served; `MCConduct` lets each
client do part of what clients do, and together they do all of it: one sends its
request at once, one in two pieces or resets, one closes without a word. Two pieces
are enough for a buffer that is too small and for a request that is cut. In
`endpoint_table` three registrations give an entry before, between and after
others of its length; types of two and three bits against a `long` of three have
numbers in each of the ranges that the conversions tell apart; two texts of
`Garbage`, the empty one and one with a slash, stand for those that `:not_empty`
refuses and accepts. The enums have types of one to three bits, signed or not, in a
`std::size_t` of three and with an `int` of two, so that scans that wrap, that exceed
the type, and that are as long as `std::size_t` allows all occur, and flags narrower
and wider than an `int`; one enumerator is at any place, a second one at 1. The names
of one thread do not depend on another's: `OneCaller` lets both threads make calls
only when no push is given a result (`WithoutNames`, an enum without enumerators),
and one of them, by symmetry either, when pushes are given results. In `error_stack`
two errors and two nested loops give every way for the step of one loop to meet
what another one, or a push, has left. `MaxRuns`, `MaxRegistrations`, `MaxErrors`
and `MaxNesting` appear in guards and bound nothing that the code bounds.

Fairness. Threads that can run do: WF of each worker, of a pusher that is inside
its scope and of the server's loop; jobs and callbacks return, waits in `poll`
have deadlines, processes complete (the library has no timeout for them: this is
asked of the endpoint's author). The refinements are safety and assume no
fairness. `DestructorReturns` alone assumes in addition
that a deadline that has passed is noticed (`Deadlines`, SF: `wait_for` with a
predicate keeps one absolute deadline over spurious wakeups); that queued jobs are
run is checked without it, so that no thread relies on it. Nobody has to push,
create, destroy, connect, send or signal. With finitely many jobs no level
starves; a steady stream of urgent jobs can starve the others, as
`fp/jobScheduler.hpp:24-25` wants.

## 4. Proofs

Each proof module defines an inductive invariant, shows that `Init` implies it and
that every action keeps it (a lemma per action, a step per conjunct that the action
disturbs), and derives the properties of section 3 from it. The invariants were
checked by TLC before they were proved.

* `RollingQueueProofs`, for every N > 0, every set of values and queues:
  `TypeOK`, `LiveWindow`, `NoLostObject` and `ImplementsFifo`. The argument is
  `RingsOK`: each ring is well formed and its live slots are exactly those its
  destructor would walk. `WalkSlots` describes these without the wrap, and one lemma
  per member function (`PushedOK`, `PoppedOK`, `CopiedOK`, `EmptyOK`) shows that it
  keeps the ring so; the pointer arithmetic is linear because each pointer wraps
  once. For the refinement a lemma of the same kind says what each function does
  to the sequence of the elements (`ContentsPushed`, `ContentsPopped`,
  `ContentsCopied`), and `FifoStep` maps each action to one of the abstract queue.
* `JobSchedulerProofs`, for every finite set of threads, every set of jobs,
  assignment of priorities and capacity: `TypeOK` (the counter never underflows),
  `CountMatchesQueues`, `PopFindsJob`, mutual exclusion, `NoLostWakeup` and
  `ImplementsJobPool`. `Inv` adds to the invariants what their induction needs: a
  thread at the second statement of a push or pop owns the mutex and has what it
  works on, and no worker exists without a scheduler. `UncountedByOwner` is the key
  lemma: the owner of the mutex alone decides whether the counter is one behind the
  queues. `NoLostWakeup` is not inductive, because the counter lags behind its push:
  `WakeupsPending` counts the job that is about to be counted. The refinement needs
  `JobsOnce`: a job is in one place, not offered, offered by one thread, in one
  position of one queue, or in one worker's hands.
* `AsyncEndpointProofs`, for every set of requests and workers, every number of
  awaits of each and every capacity: `TypeOK`, `OneDriver`, `ResumeIsSound`,
  `NoResumptionLost` and `ImplementsSequential`. `IInv` describes the session of a
  request in each place where it can be (`Driven` by a worker, with its process, in
  a queue); the places exclude one another because their sessions differ, which
  gives `OneDriver` without counting. That the awaiter in a frame is the one of the
  current await (`Awaiting`, `Awoken`) is what the refinement rests on; it is proved
  request by request (`Alike`, one lemma per abstract action). `NoResumptionLost` is
  proved under `Roomy`, that the resuming queue has room for all requests that
  await: without it the run `async_endpoint_dropped` refutes it.
* `ServerProofs`, for every set of clients, whatever each of them does, every set of
  workers, queue size, number of descriptors and of runs: `TypeOK`, `OneHolder`,
  `AnswerReachesItsClient`, `FailureHasCause`, `GoneIsQuiet`, `WholeUnlessSplit`,
  `SignalIsFinal` and `DescriptorsBounded`. `IInv` says where a client can be (in the
  backlog, with the loop, in the queue, with one worker), which socket has its
  descriptor there (`SocketAt`), and that no descriptor is forgotten (`Owned`).
  `Answered` ties the answer to the last statement of the job, so that it is not sent
  again. The number of workers is not assumed to be finite: finitely many of them are
  busy (`SpecFinitelyBusy`), and `NoMoreThanPlaces` maps each open descriptor to a
  place of its own.
* `RouteStringProofs`, for any alphabet, set of specifiers, template and route. A text
  is cut by its slashes into segments (`Border`, counted by cardinalities) and
  `Find` moves from one border to the next. The loop of `isInstance` is the recursive
  function of `IsInstance`; that this function exists is proved by a least
  counterexample (`IsInstanceUnfolds`), so that each round (`Round`) can be taken by
  itself. From there: when every segment of a template fits that of the route, every
  round succeeds (`RoundSucceeds`, `DescribesIsInstance`: nothing that a template
  describes is refused); when all rounds succeed, the segments fit but for an empty
  route and for what follows the last literal segment (`RoundsFit`,
  `InstanceIsDescribed`); and `getParam` returns the segment of its hole
  (`FirstParamIsSegment`, `NthFirst`, `GetParamIs`).
* `EndpointTableProofs`, for every set of templates, methods and routes: `TypeOK`,
  `LatestWins` and `SplitOnlyByEqualLength`. The table is sorted by length, which makes
  the first entry that is long enough the only place where a route can be or belongs
  (`PlaceSplits`); `Latest` says of each registration that no later one repeats that
  the first entry with its route and method has its endpoint, `Split` that something
  else lies between two entries of a route, and `Given` of what the last answer was
  computed. With the lemmas about routes this gives `DescribedIsFound`,
  `FoundIsDescribed` and `NamedParamIsSegment`, which compares the code of the answer
  with the body of the request, not with what was made of it (`UnreadIsNoNumber`).
  `BodyIsValue` rests on `NarrowedIs`: a
  conversion gives the one value of the type that is congruent (`CongruentIs`), and
  2^v is a multiple of 2^w for w <= v (`PowerDivides`). Two theorems go beyond the
  runs: whatever `isInstance` computes, the dispatch finds the shortest registered
  template that matches (`SpecShortestInstanceFound`), and when no two templates have
  the same length (`LengthsDiffer`) 405 is never answered to a method that was
  registered (`SpecNotAllowedIsNotRegistered`): the disagreement that
  `endpoint_table_405` shows needs two of the same length.
* `ErrorStackProofs`, for every set of threads, number of errors and depth of nesting:
  `TypeOK`, `RaceNeedsFirstCall`, `UndefinedNeedsNesting`, `LostOnlyInLoop` and
  `ShownOnce`. Errors are numbered in the order of their pushes, so that a stack is an
  increasing sequence (`Numbered`). The last three need to know what a loop will pop
  with its next step: something shown or pushed in a body (`Doomed`), something above
  the loop's own error only if it was pushed in a body (`Above`), and for a thread
  that never nested loops an error that is still there (`Unnested`). After undefined
  behaviour only types, and what caused it, are claimed.
  For the names, `EnumeratorsNamed` is about any enum: any type, first and last index
  and set of enumerators; it says more than the run reads, also that each value is
  counted once. An index is congruent to the number it stands for modulo
  2^`SizeWidth`, and so modulo the 2^`width` of the type (`ScanOfNumbers`); a bit
  comes out of the shift of an `int` as it is, unless it is the sign of a wider type
  (`BitIsValue`), and the values of flags are different powers of two as long as the
  type holds them (`ScanOfFlags`). `Finder` and `StringMap` are folds: `FoldExists`
  (by suffixes of the positions) gives the function in the definition of a fold,
  `FinderIs` and `StringMapIs` say which elements it collects, and that each is there
  once. `ShownByName` needs besides that an error is read with its own text:
  `Recorded` counts arguments and texts against the errors and the push that is on
  its way (`Due`), and `NamedMoves` shows that every step with names is one of
  `ErrorStack`, so that `IInv` carries over and a loop reads only of errors that were
  pushed.

`SequenceLemmas` has the two facts that stand in for what the provers lack. They know
nothing of an exponent that is not a number: `PowerOfTwo` takes 2^w for the number of
the subsets of 1..w, which is how it is known to be a number, twice the one before.
And they cannot instantiate the library's induction: `LeastIsIn` and `GreatestIsIn`
give a least or greatest counterexample, which the lemmas above refute.

Assumptions. Those the modules state on their constants: capacities are positive,
the model values for "nobody", "nothing" and texts that are no numbers are distinct
from the rest, a slash is not a specifier, templates are sequences that
`__generateRouteString` accepts and routes are sequences, the threads of a scheduler
are finitely many (`FiniteAssumption`; a process has no others). An enum's type is no
wider than `std::size_t`, and its scan goes up and ends within it
(`EnumsAssumption`): the recursion of templates that is the scan would not end
otherwise; nor would an enum of flags compile whose scan shifts beyond an `int`. TLC evaluates them in every run. `Roomy` and `LengthsDiffer` are hypotheses
of one theorem each.

Only model-checked. Everything about liveness (`QueuedJobRuns`, `DestructorReturns`,
`EveryRequestAnswered`, `RequestAnswered`, `SignalEndsRun`), which the prover does not
reach. Every invariant and every refinement of the runs that pass is proved.

## 5. What the code does not do

Six statements of the repository are refuted by runs (`findings` in
`PROJECT.json`): copies of a queue run destructors on raw bytes; a range-for over
a queue reads one element too many; a second scheduler in a process has no
working threads; an uninitialised flag can end an endpoint after its first
await; a resumption is dropped when the resuming queue is full; two routes of one
length can split the entry of a third registration, whose method is then answered
with 405. Behaviour that no line of the repository denies (a server destroyed
under its workers, a race for the first error, errors lost by nested loops) is
bounded by properties that hold.

## 6. Plan

The order was: the queue, the scheduler and its proofs, asynchronous endpoints,
the server, the table with its routes and bodies, the error stacks, and then the
proofs about each of them. What is left:

1. Endpoints that answer at once and endpoints that await in one module, so that
   answers of the dispatch (400, 405) and of a coroutine use the same descriptors.
2. `SIGPIPE`: a client that closes its side and then resets the connection leaves
   `send` (`socket.cpp:118`) to raise it. No client of the run does both.

## 7. Not modelled

* Constant tables (HTTP codes and methods, header types), type traits,
  macros that concatenate tokens and string literal types: the compiler evaluates
  them and they have no behaviour to check. The hash of a string only selects a
  benchmark at compile time.
* The benchmark timers are compiled out by default, and `Janitor` is a scope guard.
* The sample and the scripts are users of the library; the sample's `main` is where
  the life of a server, and that of an endpoint that awaits, are taken from.
* JSON is an external library, floating-point conversions and `std::to_string` are
  the standard library's. Bodies that are strings are copied.
* Registering endpoints while `run` is looping: nothing in the code guards against
  it, and no caller in the repository does it.
* The lifetime of the callbacks, which endpoints refer to and do not keep
  (`fp/endpoint.hpp:76`), and of the text of a request, which belongs to its job and
  which an endpoint that awaits outlives (`fp/endpoint.inl:25`): nothing reads that
  text after the first await, unless the body is deserialised into a
  `std::string_view`; the callbacks of the models have no state that could be gone.
* What is left of a partial `send`: its result only decides what is logged.
* A steady stream of urgent jobs keeps others waiting: `fp/jobScheduler.hpp:24-25`
  wants it so.

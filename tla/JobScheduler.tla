---------------------------- MODULE JobScheduler ----------------------------
(***************************************************************************)
(* fp::JobQueue and fp::JobScheduler: threads that push jobs and worker    *)
(* threads that wait for them, over one mutex, one condition variable, six *)
(* bounded queues and a counter that the waiters test.  A pusher is any    *)
(* thread inside a JobPushingLockGuard scope: the accept loop, an          *)
(* asynchronous process that completes, or a worker in the middle of a job.*)
(* Each queue is the FIFO that RollingQueue is shown to implement.         *)
(***************************************************************************)
EXTENDS Naturals, Sequences, FiniteSets

CONSTANTS
  Workers,       \* the threads a scheduler creates
  Pushers,       \* the threads that push
  Jobs,          \* the jobs ever pushed, each once
  Priority,      \* Priority[j]: the JobMetadata::priority of j
  QueueSize,     \* FP_JOB_QUEUE_SIZE
  MaxLifetimes,  \* bound: JobScheduler objects ever destroyed
  Free,          \* the mutex when nobody owns it
  NoJob          \* std::nullopt

Level == 0 .. 5   \* JobPriority, __eLowest = 0 to __eResumingJob = 5

ASSUME PriorityAssumption == Priority \in [Jobs -> Level]
ASSUME QueueSizeAssumption == QueueSize \in Nat \ {0}
ASSUME LifetimesAssumption == MaxLifetimes \in Nat \ {0}
ASSUME ThreadAssumption == /\ Workers \cap Pushers = {}
                           /\ Free \notin Workers \cup Pushers
ASSUME FiniteAssumption == IsFiniteSet(Workers) /\ IsFiniteSet(Pushers)
ASSUME NoJobAssumption == NoJob \notin Jobs

VARIABLES
  mutex,            \* JobQueue::s_mutex: its owner, or Free
  queues,           \* JobQueue::s_queues, each oldest first
  queuedJobsCount,  \* JobQueue::s_queuedJobsCount
  running,          \* JobScheduler::s_running
  scheduler,        \* the thread that owns the scheduler object
  lifetimes,        \* schedulers destroyed so far
  at, job,          \* per worker: where it is in s_threadMain, and its job
  pushing, offer,   \* per pusher: where it is in the scope, and its job
  fresh, refused, done  \* jobs not pushed yet, refused by push, run

queueVars == <<queues, queuedJobsCount>>
ownerVars == <<running, scheduler, lifetimes>>
workerVars == <<at, job>>
pusherVars == <<pushing, offer>>
jobVars == <<fresh, refused, done>>
vars == <<mutex, queues, queuedJobsCount, running, scheduler, lifetimes,
          at, job, pushing, offer, fresh, refused, done>>

-----------------------------------------------------------------------------
Init ==
  /\ mutex = Free
  /\ queues = [l \in Level |-> <<>>]
  /\ queuedJobsCount = 0
  /\ running = TRUE
  /\ scheduler = "idle"
  /\ lifetimes = 0
  /\ at = [w \in Workers |-> "absent"]
  /\ job = [w \in Workers |-> NoJob]
  /\ pushing = [p \in Pushers |-> "idle"]
  /\ offer = [p \in Pushers |-> NoJob]
  /\ fresh = Jobs
  /\ refused = {}
  /\ done = {}

-----------------------------------------------------------------------------
(* A pusher: { JobPushingLockGuard _{}; JobQueue::push(metadata, job); }    *)

PushLock(p) ==
  /\ pushing[p] = "idle"
  /\ mutex = Free
  /\ mutex' = p
  /\ \E j \in fresh :
       /\ offer' = [offer EXCEPT ![p] = j]
       /\ fresh' = fresh \ {j}
  /\ pushing' = [pushing EXCEPT ![p] = "push"]
  /\ UNCHANGED <<queueVars, ownerVars, workerVars, refused, done>>

PushUnbounded(p) ==
  LET l == Priority[offer[p]] IN
  /\ pushing[p] = "push"
  /\ queues' = [queues EXCEPT ![l] = Append(@, offer[p])]
  /\ offer' = [offer EXCEPT ![p] = NoJob]
  /\ pushing' = [pushing EXCEPT ![p] = "count"]
  /\ UNCHANGED <<mutex, queuedJobsCount, ownerVars, workerVars, jobVars>>
PushEnqueue(p) ==
  LET l == Priority[offer[p]] IN
  /\ pushing[p] = "push"
  /\ Len(queues[l]) < QueueSize
  /\ queues' = [queues EXCEPT ![l] = Append(@, offer[p])]
  /\ offer' = [offer EXCEPT ![p] = NoJob]
  /\ pushing' = [pushing EXCEPT ![p] = "count"]
  /\ UNCHANGED <<mutex, queuedJobsCount, ownerVars, workerVars, jobVars>>

(* queue.push returned eSaturated: push returns before it counts the job. *)
PushSaturatedCounts(p) ==
  /\ pushing[p] = "push"
  /\ Len(queues[Priority[offer[p]]]) = QueueSize
  /\ refused' = refused \cup {offer[p]}
  /\ offer' = [offer EXCEPT ![p] = NoJob]
  /\ pushing' = [pushing EXCEPT ![p] = "count"]
  /\ UNCHANGED <<mutex, queueVars, ownerVars, workerVars, fresh, done>>
PushSaturated(p) ==
  /\ pushing[p] = "push"
  /\ Len(queues[Priority[offer[p]]]) = QueueSize
  /\ refused' = refused \cup {offer[p]}
  /\ offer' = [offer EXCEPT ![p] = NoJob]
  /\ pushing' = [pushing EXCEPT ![p] = "unlock"]
  /\ UNCHANGED <<mutex, queueVars, ownerVars, workerVars, fresh, done>>

PushCount(p) ==
  /\ pushing[p] = "count"
  /\ queuedJobsCount' = queuedJobsCount + 1
  /\ pushing' = [pushing EXCEPT ![p] = "unlock"]
  /\ UNCHANGED <<mutex, queues, ownerVars, workerVars, offer, jobVars>>

(* ~JobPushingLockGuard unlocks first and notifies afterwards, whether or   *)
(* not the push was accepted.                                               *)
PushUnlock(p) ==
  /\ pushing[p] = "unlock"
  /\ mutex' = Free
  /\ pushing' = [pushing EXCEPT ![p] = "notify"]
  /\ UNCHANGED <<queueVars, ownerVars, workerVars, offer, jobVars>>

Waiting == {w \in Workers : at[w] = "waiting"}

NotifyNobody(p) ==
  /\ pushing[p] = "notify"
  /\ pushing' = [pushing EXCEPT ![p] = "idle"]
  /\ UNCHANGED <<mutex, queueVars, ownerVars, workerVars, offer, jobVars>>
Notify(p) ==
  /\ pushing[p] = "notify"
  /\ \/ Waiting = {} /\ UNCHANGED at
     \/ \E w \in Waiting : at' = [at EXCEPT ![w] = "awake"]
  /\ pushing' = [pushing EXCEPT ![p] = "idle"]
  /\ UNCHANGED <<mutex, queueVars, ownerVars, job, offer, jobVars>>

-----------------------------------------------------------------------------
(* A worker: JobScheduler::s_threadMain, with wait_for inlined.  wait_for   *)
(* tests the predicate, waits while it is false, and tests it a last time   *)
(* when the deadline has passed.                                            *)

Stop(w) ==
  /\ at[w] = "top"
  /\ ~running
  /\ at' = [at EXCEPT ![w] = "exited"]
  /\ UNCHANGED <<mutex, queueVars, ownerVars, job, pusherVars, jobVars>>

Continue(w) ==
  /\ at[w] = "top"
  /\ running
  /\ at' = [at EXCEPT ![w] = "lock"]
  /\ UNCHANGED <<mutex, queueVars, ownerVars, job, pusherVars, jobVars>>

(* The guard's constructor, and the condition variable's relocking.  *)
Relocked == [lock |-> "check", awake |-> "check", timedOut |-> "lastCheck"]

Lock(w) ==
  /\ at[w] \in DOMAIN Relocked
  /\ mutex = Free
  /\ mutex' = w
  /\ at' = [at EXCEPT ![w] = Relocked[at[w]]]
  /\ UNCHANGED <<queueVars, ownerVars, job, pusherVars, jobVars>>

(* The predicate holds: waitForJob returns true, with the mutex. *)
HasJob(w) ==
  /\ at[w] \in {"check", "lastCheck"}
  /\ queuedJobsCount # 0
  /\ at' = [at EXCEPT ![w] = "select"]
  /\ UNCHANGED <<mutex, queueVars, ownerVars, job, pusherVars, jobVars>>

WaitUntested(w) ==
  /\ at[w] = "check"
  /\ mutex' = Free
  /\ at' = [at EXCEPT ![w] = "waiting"]
  /\ UNCHANGED <<queueVars, ownerVars, job, pusherVars, jobVars>>
Wait(w) ==
  /\ at[w] = "check"
  /\ queuedJobsCount = 0
  /\ mutex' = Free
  /\ at' = [at EXCEPT ![w] = "waiting"]
  /\ UNCHANGED <<queueVars, ownerVars, job, pusherVars, jobVars>>

GiveUpRetries(w) ==
  /\ at[w] = "lastCheck"
  /\ queuedJobsCount = 0
  /\ mutex' = Free
  /\ at' = [at EXCEPT ![w] = "lock"]
  /\ UNCHANGED <<queueVars, ownerVars, job, pusherVars, jobVars>>
GiveUp(w) ==
  /\ at[w] = "lastCheck"
  /\ queuedJobsCount = 0
  /\ mutex' = Free
  /\ at' = [at EXCEPT ![w] = "top"]
  /\ UNCHANGED <<queueVars, ownerVars, job, pusherVars, jobVars>>

SpuriousWakeup(w) ==
  /\ at[w] = "waiting"
  /\ at' = [at EXCEPT ![w] = "awake"]
  /\ UNCHANGED <<mutex, queueVars, ownerVars, job, pusherVars, jobVars>>

(* A thread that was woken may still find that its deadline has passed. *)
Timeout(w) ==
  /\ at[w] \in {"waiting", "awake"}
  /\ at' = [at EXCEPT ![w] = "timedOut"]
  /\ UNCHANGED <<mutex, queueVars, ownerVars, job, pusherVars, jobVars>>

NonEmpty == {l \in Level : queues[l] # <<>>}
Lowest(l) == l \in NonEmpty /\ \A m \in NonEmpty : m >= l
Highest(l) == l \in NonEmpty /\ \A m \in NonEmpty : m <= l

(* JobQueue::pop finds a queue and decrements the counter; when every queue *)
(* is empty it returns std::nullopt, which the loop logs before it goes on. *)
SelectUncounted(w) ==
  /\ at[w] = "select"
  /\ IF NonEmpty = {}
       THEN /\ mutex' = Free
            /\ at' = [at EXCEPT ![w] = "top"]
       ELSE /\ at' = [at EXCEPT ![w] = "take"]
            /\ UNCHANGED mutex
  /\ UNCHANGED <<queueVars, ownerVars, job, pusherVars, jobVars>>
Select(w) ==
  /\ at[w] = "select"
  /\ IF NonEmpty = {}
       THEN /\ mutex' = Free
            /\ at' = [at EXCEPT ![w] = "top"]
            /\ UNCHANGED queuedJobsCount
       ELSE /\ queuedJobsCount' = queuedJobsCount - 1
            /\ at' = [at EXCEPT ![w] = "take"]
            /\ UNCHANGED mutex
  /\ UNCHANGED <<queues, ownerVars, job, pusherVars, jobVars>>

(* queue.pop(), and the end of the guard's scope. *)
Take(w) ==
  /\ at[w] = "take"
  /\ \E l \in Level :
       /\ Highest(l)
       /\ job' = [job EXCEPT ![w] = Head(queues[l])]
       /\ queues' = [queues EXCEPT ![l] = Tail(@)]
  /\ mutex' = Free
  /\ at' = [at EXCEPT ![w] = "work"]
  /\ UNCHANGED <<queuedJobsCount, ownerVars, pusherVars, jobVars>>

(* job.work() returns, with success or not: a failure is only logged. *)
Work(w) ==
  /\ at[w] = "work"
  /\ done' = done \cup {job[w]}
  /\ job' = [job EXCEPT ![w] = NoJob]
  /\ at' = [at EXCEPT ![w] = "top"]
  /\ UNCHANGED <<mutex, queueVars, ownerVars, pusherVars, fresh, refused>>

-----------------------------------------------------------------------------
(* The owner of the scheduler: create, then the destructor and its joins.   *)

Create ==
  /\ scheduler = "idle"
  /\ lifetimes < MaxLifetimes
  /\ scheduler' = "up"
  /\ at' = [w \in Workers |-> "top"]
  /\ UNCHANGED <<mutex, queueVars, running, lifetimes, job, pusherVars, jobVars>>

(* The object may be destroyed without create having been called. *)
Destroy ==
  /\ scheduler \in {"idle", "up"}
  /\ lifetimes < MaxLifetimes
  /\ scheduler' = "joining"
  /\ lifetimes' = lifetimes + 1
  /\ running' = FALSE
  /\ UNCHANGED <<mutex, queueVars, workerVars, pusherVars, jobVars>>

Join ==
  /\ scheduler = "joining"
  /\ \A w \in Workers : at[w] \in {"absent", "exited"}
  /\ scheduler' = "idle"
  /\ at' = [w \in Workers |-> "absent"]
  /\ UNCHANGED <<mutex, queueVars, running, lifetimes, job, pusherVars, jobVars>>

(* The program has ended: nobody pushes and no scheduler is left to create. *)
Ended ==
  /\ scheduler = "idle"
  /\ lifetimes = MaxLifetimes
  /\ fresh = {}
  /\ \A p \in Pushers : pushing[p] = "idle"
  /\ UNCHANGED vars

-----------------------------------------------------------------------------
PusherStep(p) ==
  \/ PushLock(p) \/ PushEnqueue(p) \/ PushSaturated(p)
  \/ PushCount(p) \/ PushUnlock(p) \/ Notify(p)

WorkerStep(w) ==
  \/ Stop(w) \/ Continue(w) \/ Lock(w)
  \/ HasJob(w) \/ Wait(w) \/ GiveUp(w)
  \/ Select(w) \/ Take(w) \/ Work(w)

Next ==
  \/ \E p \in Pushers : PusherStep(p)
  \/ \E w \in Workers : WorkerStep(w) \/ SpuriousWakeup(w) \/ Timeout(w)
  \/ Create \/ Destroy \/ Join \/ Ended

Spec == Init /\ [][Next]_vars

(* Fairness.  A thread that can run runs, a job returns and the owner joins.*)
(* Nobody is obliged to push, to create a scheduler or to destroy one.      *)
FairSpec ==
  /\ Spec
  /\ \A w \in Workers : WF_vars(WorkerStep(w))
  /\ \A p \in Pushers : WF_vars(pushing[p] # "idle" /\ PusherStep(p))
  /\ WF_vars(Join)

(* A deadline that passes is noticed (SF: the C++ deadline is absolute, a   *)
(* spurious wakeup does not extend it).  Only what needs it assumes it.     *)
Deadlines == \A w \in Workers : SF_vars(Timeout(w))

-----------------------------------------------------------------------------
(* The program counters that imply owning s_mutex. *)
LockedWorker == {"check", "lastCheck", "select", "take"}
LockedPusher == {"push", "count", "unlock"}

TypeOK ==
  /\ mutex \in Workers \cup Pushers \cup {Free}
  /\ queues \in [Level -> Seq(Jobs)]
  /\ \A l \in Level : Len(queues[l]) <= QueueSize
  /\ queuedJobsCount \in Nat
  /\ running \in BOOLEAN
  /\ scheduler \in {"idle", "up", "joining"}
  /\ lifetimes \in 0 .. MaxLifetimes
  /\ at \in [Workers -> {"absent", "top", "lock", "waiting", "awake",
                         "timedOut", "work", "exited"} \cup LockedWorker]
  /\ job \in [Workers -> Jobs \cup {NoJob}]
  /\ pushing \in [Pushers -> {"idle", "notify"} \cup LockedPusher]
  /\ offer \in [Pushers -> Jobs \cup {NoJob}]
  /\ fresh \subseteq Jobs /\ refused \subseteq Jobs /\ done \subseteq Jobs

(* A thread is inside a lock guard exactly while it owns the mutex, through *)
(* the waits and relocks of the condition variable.                         *)
MutexOK ==
  /\ \A w \in Workers : at[w] \in LockedWorker <=> mutex = w
  /\ \A p \in Pushers : pushing[p] \in LockedPusher <=> mutex = p

Total == Len(queues[0]) + Len(queues[1]) + Len(queues[2])
           + Len(queues[3]) + Len(queues[4]) + Len(queues[5])

(* A job is in a queue and not counted: between the two statements of       *)
(* JobQueue::push, or between those of JobQueue::pop.                       *)
Uncounted == \/ \E w \in Workers : at[w] = "take"
             \/ \E p \in Pushers : pushing[p] = "count"

(* s_queuedJobsCount, which the waiters test instead of the queues, is the  *)
(* number of queued jobs whenever the mutex is free; it never underflows.   *)
CountMatchesQueues ==
  Total = queuedJobsCount + (IF Uncounted THEN 1 ELSE 0)

(* "No job actually retrieved from the job queue" (jobScheduler.cpp:97) is  *)
(* never logged: whenever the wait says there is a job, pop finds one.      *)
PopFindsJob == \A w \in Workers : at[w] = "select" => NonEmpty # {}

(* While the scheduler runs, no queued job is left to a timeout: if some    *)
(* worker sleeps, then for each queued job there is a thread that is on its *)
(* way to the queues or a pusher that has not notified yet.                 *)
Coming == {w \in Workers : at[w] \in {"top", "lock", "check", "lastCheck",
                                      "awake", "timedOut", "select"}}
Notifying == {p \in Pushers : pushing[p] \in {"count", "unlock", "notify"}}
NoLostWakeup ==
  running /\ Waiting # {} =>
    queuedJobsCount <= Cardinality(Coming) + Cardinality(Notifying)

(* What makes the three invariants above inductive: besides them and the    *)
(* mutex, a thread about to use a job has one, a worker that was told there *)
(* is a job still finds it at its second statement, and no worker exists    *)
(* when no scheduler does.                                                  *)
InHand ==
  /\ \A w \in Workers : at[w] = "take" => NonEmpty # {}
  /\ \A w \in Workers : at[w] = "work" => job[w] \in Jobs
  /\ \A p \in Pushers : pushing[p] = "push" => offer[p] \in Jobs
  /\ scheduler = "idle" => \A w \in Workers : at[w] = "absent"

Inv == TypeOK /\ MutexOK /\ CountMatchesQueues /\ PopFindsJob /\ InHand

(* A job that a pusher holds while it is inside push is not decided yet.    *)
Pool == INSTANCE JobPool
          WITH fresh <- fresh \cup ({offer[p] : p \in Pushers} \ {NoJob}),
               held  <- {job[w] : w \in Workers} \ {NoJob}

(* The threads together are a pool that refuses a job only when its level   *)
(* is full and otherwise runs it once, highest priority first and oldest    *)
(* first within a priority.                                                 *)
ImplementsJobPool == Pool!PoolSpec

Queued(j) == \E i \in 1 .. Len(queues[Priority[j]]) : queues[Priority[j]][i] = j

(* Every accepted job is run while the scheduler is up, even if no timed    *)
(* wait ever expires: no wakeup is lost and no job is forgotten in a queue. *)
(* (With a finite number of jobs: a stream of urgent ones may starve it.)   *)
QueuedJobRuns ==
  \A j \in Jobs : Queued(j) /\ scheduler = "up" ~> j \in done \/ scheduler # "up"

(* ~JobScheduler returns: it notifies nobody, so that each sleeping worker  *)
(* has to notice s_running at its deadline, and none may sleep on.          *)
DestructorReturns == Deadlines => (scheduler = "joining" ~> scheduler = "idle")

(* "Created {} working thread" (jobScheduler.cpp:75): the threads of a      *)
(* scheduler that was created, and is not being destroyed, are at work.     *)
CreatedThreadsWork ==
  scheduler = "up" => \A w \in Workers : at[w] # "exited"
=============================================================================

------------------------------ MODULE JobPool ------------------------------
(***************************************************************************)
(* What fp::JobQueue and fp::JobScheduler promise together: every job that *)
(* is offered is either refused, which may happen only when the queue of   *)
(* its priority is full, or kept and run once; what is taken next is the   *)
(* oldest job of the highest priority that has any.  Threads, the mutex,   *)
(* the condition variable and the counter are in JobScheduler.             *)
(***************************************************************************)
EXTENDS Naturals, Sequences

CONSTANTS
  Jobs,       \* the jobs ever offered
  Priority,   \* Priority[j]: the level of the queue j is pushed to
  QueueSize   \* FP_JOB_QUEUE_SIZE

Level == 0 .. 5   \* JobPriority, __eLowest = 0 to __eResumingJob = 5

VARIABLES
  queues,     \* queues[l]: the jobs waiting at level l, oldest first
  fresh,      \* jobs not offered yet, or whose push has not decided yet
  refused,    \* jobs whose push returned eSaturated
  held,       \* jobs being run
  done        \* jobs whose work() has returned

poolVars == <<queues, fresh, refused, held, done>>

PoolInit ==
  /\ queues = [l \in Level |-> <<>>]
  /\ fresh = Jobs
  /\ refused = {} /\ held = {} /\ done = {}

Submit(j) ==
  /\ j \in fresh
  /\ Len(queues[Priority[j]]) < QueueSize
  /\ queues' = [queues EXCEPT ![Priority[j]] = Append(@, j)]
  /\ fresh' = fresh \ {j}
  /\ UNCHANGED <<refused, held, done>>

Refuse(j) ==
  /\ j \in fresh
  /\ Len(queues[Priority[j]]) = QueueSize
  /\ fresh' = fresh \ {j}
  /\ refused' = refused \cup {j}
  /\ UNCHANGED <<queues, held, done>>

Take(l) ==
  /\ queues[l] # <<>>
  /\ \A m \in Level : m > l => queues[m] = <<>>
  /\ queues' = [queues EXCEPT ![l] = Tail(@)]
  /\ held' = held \cup {Head(queues[l])}
  /\ UNCHANGED <<fresh, refused, done>>

Finish(j) ==
  /\ j \in held
  /\ held' = held \ {j}
  /\ done' = done \cup {j}
  /\ UNCHANGED <<queues, fresh, refused>>

PoolNext ==
  \/ \E j \in Jobs : Submit(j) \/ Refuse(j) \/ Finish(j)
  \/ \E l \in Level : Take(l)

PoolSpec == PoolInit /\ [][PoolNext]_poolVars
=============================================================================

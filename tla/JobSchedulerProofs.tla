------------------------ MODULE JobSchedulerProofs ------------------------
(***************************************************************************)
(* Proofs about JobScheduler for any threads, any jobs and priorities, any *)
(* queue size and any number of scheduler lifetimes.  Inv is inductive;    *)
(* TypeOK, mutual exclusion, the counter and PopFindsJob follow from it.   *)
(* WakeupsPending and JobsOnce are inductive relative to it: the first is  *)
(* why no wakeup is lost, the second why the threads implement JobPool.    *)
(***************************************************************************)
EXTENDS JobScheduler, Integers, TLAPS, SequenceTheorems, FiniteSetTheorems

(* Changing one of six numbers by d changes their sum by d. *)
LEMMA SumOfSix ==
  ASSUME NEW before, NEW after, NEW l \in Level, NEW d \in Int,
         \A m \in Level : before[m] \in Int,
         \A m \in Level : after[m] = IF m = l THEN before[m] + d ELSE before[m]
  PROVE  after[0] + after[1] + after[2] + after[3] + after[4] + after[5] =
           before[0] + before[1] + before[2] + before[3] + before[4] + before[5] + d
BY DEF Level

(* A job pushed at some level adds one to the sum of the six lengths. *)
LEMMA TotalAfterPush ==
  ASSUME queues \in [Level -> Seq(Jobs)], NEW l \in Level, NEW j \in Jobs,
         queues' = [queues EXCEPT ![l] = Append(@, j)]
  PROVE  Total' = Total + 1 /\ NonEmpty' # {}
<1> DEFINE before == [m \in Level |-> Len(queues[m])]
           after == [m \in Level |-> Len(queues'[m])]
<1>1. Len(Append(queues[l], j)) = Len(queues[l]) + 1
  BY AppendProperties
<1>2. \A m \in Level : Len(queues[m]) \in Nat
  BY LenProperties
<1>3. /\ queues'[l] = Append(queues[l], j)
      /\ \A m \in Level : m # l => queues'[m] = queues[m]
  OBVIOUS
<1>4. \A m \in Level : after[m] = IF m = l THEN before[m] + 1 ELSE before[m]
  BY <1>1, <1>3
<1>5. Total' = Total + 1
  <2>1. \A m \in Level : before[m] \in Int
    BY <1>2
  <2>2. /\ Total = before[0] + before[1] + before[2] + before[3] + before[4] + before[5]
        /\ Total' = after[0] + after[1] + after[2] + after[3] + after[4] + after[5]
    BY DEF Total, Level
  <2> HIDE DEF before, after
  <2> QED
    BY <1>4, <2>1, <2>2, SumOfSix
<1>6. queues'[l] # <<>>
  BY <1>1, <1>2, <1>3, EmptySeq
<1> QED
  BY <1>5, <1>6 DEF NonEmpty

(* A job taken from a level that has one takes one off that sum. *)
LEMMA TotalAfterTake ==
  ASSUME queues \in [Level -> Seq(Jobs)], NEW l \in Level, queues[l] # <<>>,
         queues' = [queues EXCEPT ![l] = Tail(@)]
  PROVE  Total = Total' + 1 /\ Total' \in Int
<1> DEFINE before == [m \in Level |-> Len(queues[m])]
           after == [m \in Level |-> Len(queues'[m])]
<1>1. Len(Tail(queues[l])) = Len(queues[l]) - 1
  BY HeadTailProperties
<1>2. \A m \in Level : Len(queues[m]) \in Nat
  BY LenProperties
<1>3. /\ queues'[l] = Tail(queues[l])
      /\ \A m \in Level : m # l => queues'[m] = queues[m]
  OBVIOUS
<1>4. \A m \in Level : before[m] = IF m = l THEN after[m] + 1 ELSE after[m]
  BY <1>1, <1>2, <1>3
<1>5. \A m \in Level : after[m] \in Int
  BY <1>1, <1>2, <1>3
<1>6. /\ Total = before[0] + before[1] + before[2] + before[3] + before[4] + before[5]
      /\ Total' = after[0] + after[1] + after[2] + after[3] + after[4] + after[5]
  BY DEF Total, Level
<1> HIDE DEF before, after
<1>7. before[0] + before[1] + before[2] + before[3] + before[4] + before[5] =
        after[0] + after[1] + after[2] + after[3] + after[4] + after[5] + 1
  BY ONLY <1>4, <1>5, 1 \in Int, l \in Level, SumOfSix
<1>8. Total' \in Int
  BY <1>5, <1>6 DEF Level
<1>9. Total = Total' + 1
  BY ONLY <1>6, <1>7
<1> QED
  BY <1>8, <1>9

(* The sum is zero exactly when no queue holds a job. *)
LEMMA TotalZero ==
  ASSUME queues \in [Level -> Seq(Jobs)]
  PROVE  Total \in Nat /\ (Total = 0 <=> NonEmpty = {})
<1>1. \A m \in Level : Len(queues[m]) \in Nat /\ (Len(queues[m]) = 0 <=> queues[m] = <<>>)
  BY LenProperties, EmptySeq
<1>2. \A m \in Level : m \in NonEmpty <=> queues[m] # <<>>
  BY DEF NonEmpty
<1>3. NonEmpty = {} <=> \A m \in Level : queues[m] = <<>>
  BY <1>2 DEF NonEmpty
<1> QED
  BY <1>1, <1>3 DEF Total, Level

(* The owner of the mutex tells whether a queued job is uncounted. *)
LEMMA UncountedByOwner ==
  ASSUME MutexOK
  PROVE  /\ \A p \in Pushers : pushing[p] \in LockedPusher =>
                                (Uncounted <=> pushing[p] = "count")
         /\ \A w \in Workers : at[w] \in LockedWorker =>
                                (Uncounted <=> at[w] = "take")
         /\ mutex = Free => ~Uncounted
BY ThreadAssumption DEF MutexOK, Uncounted, LockedPusher, LockedWorker

(* Inv holds in the initial state. *)
LEMMA InvInit == Init => Inv
<1> SUFFICES ASSUME Init PROVE Inv
  OBVIOUS
<1>1. TypeOK
  BY EmptySeq, LifetimesAssumption, QueueSizeAssumption DEF Init, TypeOK
<1>2. MutexOK
  BY ThreadAssumption DEF Init, MutexOK, LockedWorker, LockedPusher
<1>3. NonEmpty = {}
  BY DEF Init, NonEmpty
<1>4. CountMatchesQueues
  BY <1>1, <1>3, TotalZero DEF Init, TypeOK, CountMatchesQueues, Uncounted
<1>5. PopFindsJob /\ InHand
  BY DEF Init, PopFindsJob, InHand
<1> QED
  BY <1>1, <1>2, <1>4, <1>5 DEF Inv

(* Every step preserves Inv: one step below for each action. *)
LEMMA InvNext == Inv /\ [Next]_vars => Inv'
<1> SUFFICES ASSUME Inv, [Next]_vars PROVE Inv'
  OBVIOUS
<1> USE PriorityAssumption, QueueSizeAssumption, LifetimesAssumption, ThreadAssumption, NoJobAssumption
<1>1. ASSUME NEW p \in Pushers, PushLock(p) PROVE Inv'
  <2>1. TypeOK'
    BY <1>1 DEF PushLock, Inv, TypeOK, InHand, LockedWorker, LockedPusher, queueVars, ownerVars, workerVars, pusherVars, jobVars, Relocked
  <2>2. MutexOK'
    BY <1>1 DEF PushLock, Inv, TypeOK, MutexOK, InHand, LockedWorker, LockedPusher, queueVars, ownerVars, workerVars, pusherVars, jobVars, Relocked
  <2>3. CountMatchesQueues'
    BY <1>1 DEF PushLock, Inv, TypeOK, MutexOK, LockedWorker, LockedPusher, CountMatchesQueues, Uncounted, Total, queueVars, ownerVars, workerVars, pusherVars, jobVars, Relocked
  <2>4. PopFindsJob'
    BY <1>1 DEF PushLock, Inv, TypeOK, MutexOK, LockedWorker, LockedPusher, PopFindsJob, NonEmpty, queueVars, ownerVars, workerVars, pusherVars, jobVars, Relocked
  <2>5. InHand'
    BY <1>1 DEF PushLock, Inv, TypeOK, MutexOK, LockedWorker, LockedPusher, InHand, NonEmpty, queueVars, ownerVars, workerVars, pusherVars, jobVars, Relocked
  <2> QED
    BY <2>1, <2>2, <2>3, <2>4, <2>5 DEF Inv
<1>2. ASSUME NEW p \in Pushers, PushEnqueue(p) PROVE Inv'
  <2>1. TypeOK'
    BY <1>2 DEF PushEnqueue, Inv, TypeOK, InHand, LockedWorker, LockedPusher, queueVars, ownerVars, workerVars, pusherVars, jobVars, Relocked
  <2>2. MutexOK'
    BY <1>2 DEF PushEnqueue, Inv, TypeOK, MutexOK, InHand, LockedWorker, LockedPusher, queueVars, ownerVars, workerVars, pusherVars, jobVars, Relocked
  <2>3. CountMatchesQueues'
    <3>1. ~Uncounted /\ Total = queuedJobsCount
      BY <1>2, UncountedByOwner DEF PushEnqueue, Inv, CountMatchesQueues, LockedPusher, TypeOK
    <3>2. Uncounted' /\ queuedJobsCount' = queuedJobsCount
      BY <1>2 DEF PushEnqueue, Inv, TypeOK, Uncounted
    <3>3. Total' = Total + 1
      BY <1>2, TotalAfterPush DEF PushEnqueue, Inv, TypeOK, InHand
    <3> QED
      BY <3>1, <3>2, <3>3 DEF CountMatchesQueues
  <2>4. PopFindsJob'
    BY <1>2 DEF PushEnqueue, Inv, TypeOK, MutexOK, LockedWorker, LockedPusher, PopFindsJob, NonEmpty, queueVars, ownerVars, workerVars, pusherVars, jobVars, Relocked
  <2>5. InHand'
    BY <1>2 DEF PushEnqueue, Inv, TypeOK, MutexOK, LockedWorker, LockedPusher, InHand, NonEmpty, queueVars, ownerVars, workerVars, pusherVars, jobVars, Relocked
  <2> QED
    BY <2>1, <2>2, <2>3, <2>4, <2>5 DEF Inv
<1>3. ASSUME NEW p \in Pushers, PushSaturated(p) PROVE Inv'
  <2>1. TypeOK'
    BY <1>3 DEF PushSaturated, Inv, TypeOK, InHand, LockedWorker, LockedPusher, queueVars, ownerVars, workerVars, pusherVars, jobVars, Relocked
  <2>2. MutexOK'
    BY <1>3 DEF PushSaturated, Inv, TypeOK, MutexOK, InHand, LockedWorker, LockedPusher, queueVars, ownerVars, workerVars, pusherVars, jobVars, Relocked
  <2>3. CountMatchesQueues'
    BY <1>3 DEF PushSaturated, Inv, TypeOK, MutexOK, LockedWorker, LockedPusher, CountMatchesQueues, Uncounted, Total, queueVars, ownerVars, workerVars, pusherVars, jobVars, Relocked
  <2>4. PopFindsJob'
    BY <1>3 DEF PushSaturated, Inv, TypeOK, MutexOK, LockedWorker, LockedPusher, PopFindsJob, NonEmpty, queueVars, ownerVars, workerVars, pusherVars, jobVars, Relocked
  <2>5. InHand'
    BY <1>3 DEF PushSaturated, Inv, TypeOK, MutexOK, LockedWorker, LockedPusher, InHand, NonEmpty, queueVars, ownerVars, workerVars, pusherVars, jobVars, Relocked
  <2> QED
    BY <2>1, <2>2, <2>3, <2>4, <2>5 DEF Inv
<1>4. ASSUME NEW p \in Pushers, PushCount(p) PROVE Inv'
  <2>1. TypeOK'
    BY <1>4 DEF PushCount, Inv, TypeOK, InHand, LockedWorker, LockedPusher, queueVars, ownerVars, workerVars, pusherVars, jobVars, Relocked
  <2>2. MutexOK'
    BY <1>4 DEF PushCount, Inv, TypeOK, MutexOK, InHand, LockedWorker, LockedPusher, queueVars, ownerVars, workerVars, pusherVars, jobVars, Relocked
  <2>3. CountMatchesQueues'
    <3>1. Uncounted /\ Total = queuedJobsCount + 1
      BY <1>4 DEF PushCount, Inv, CountMatchesQueues, Uncounted
    <3>2. ~Uncounted'
      BY <1>4, <2>2 DEF PushCount, Inv, TypeOK, MutexOK, Uncounted, LockedPusher, LockedWorker, workerVars
    <3>3. Total' = Total
      BY <1>4 DEF PushCount, Total
    <3> QED
      BY <1>4, <3>1, <3>2, <3>3 DEF PushCount, CountMatchesQueues, Inv, TypeOK
  <2>4. PopFindsJob'
    BY <1>4 DEF PushCount, Inv, TypeOK, MutexOK, LockedWorker, LockedPusher, PopFindsJob, NonEmpty, queueVars, ownerVars, workerVars, pusherVars, jobVars, Relocked
  <2>5. InHand'
    BY <1>4 DEF PushCount, Inv, TypeOK, MutexOK, LockedWorker, LockedPusher, InHand, NonEmpty, queueVars, ownerVars, workerVars, pusherVars, jobVars, Relocked
  <2> QED
    BY <2>1, <2>2, <2>3, <2>4, <2>5 DEF Inv
<1>5. ASSUME NEW p \in Pushers, PushUnlock(p) PROVE Inv'
  <2>1. TypeOK'
    BY <1>5 DEF PushUnlock, Inv, TypeOK, InHand, LockedWorker, LockedPusher, queueVars, ownerVars, workerVars, pusherVars, jobVars, Relocked
  <2>2. MutexOK'
    BY <1>5 DEF PushUnlock, Inv, TypeOK, MutexOK, InHand, LockedWorker, LockedPusher, queueVars, ownerVars, workerVars, pusherVars, jobVars, Relocked
  <2>3. CountMatchesQueues'
    BY <1>5 DEF PushUnlock, Inv, TypeOK, MutexOK, LockedWorker, LockedPusher, CountMatchesQueues, Uncounted, Total, queueVars, ownerVars, workerVars, pusherVars, jobVars, Relocked
  <2>4. PopFindsJob'
    BY <1>5 DEF PushUnlock, Inv, TypeOK, MutexOK, LockedWorker, LockedPusher, PopFindsJob, NonEmpty, queueVars, ownerVars, workerVars, pusherVars, jobVars, Relocked
  <2>5. InHand'
    BY <1>5 DEF PushUnlock, Inv, TypeOK, MutexOK, LockedWorker, LockedPusher, InHand, NonEmpty, queueVars, ownerVars, workerVars, pusherVars, jobVars, Relocked
  <2> QED
    BY <2>1, <2>2, <2>3, <2>4, <2>5 DEF Inv
<1>6. ASSUME NEW p \in Pushers, Notify(p) PROVE Inv'
  <2>1. TypeOK'
    BY <1>6 DEF Notify, Inv, TypeOK, InHand, LockedWorker, LockedPusher, queueVars, ownerVars, workerVars, pusherVars, jobVars, Relocked
  <2>2. MutexOK'
    <3>1. CASE Waiting = {} /\ UNCHANGED at
      BY <1>6, <3>1 DEF Notify, Inv, TypeOK, MutexOK, LockedPusher, LockedWorker
    <3>2. ASSUME NEW w \in Waiting, at' = [at EXCEPT ![w] = "awake"] PROVE MutexOK'
      BY <1>6, <3>2 DEF Notify, Waiting, Inv, TypeOK, MutexOK, LockedPusher, LockedWorker
    <3> QED
      BY <1>6, <3>1, <3>2 DEF Notify
  <2>3. CountMatchesQueues'
    <3>1. \A w \in Workers : at'[w] = "take" <=> at[w] = "take"
      BY <1>6 DEF Notify, Waiting, Inv, TypeOK
    <3>2. \A r \in Pushers : pushing'[r] = "count" <=> pushing[r] = "count"
      BY <1>6 DEF Notify, Inv, TypeOK
    <3>3. Total' = Total /\ queuedJobsCount' = queuedJobsCount
      BY <1>6 DEF Notify, Total, queueVars
    <3> QED
      BY <3>1, <3>2, <3>3 DEF Inv, CountMatchesQueues, Uncounted
  <2>4. PopFindsJob'
    BY <1>6 DEF Notify, Inv, TypeOK, MutexOK, LockedWorker, LockedPusher, PopFindsJob, NonEmpty, queueVars, ownerVars, workerVars, pusherVars, jobVars, Relocked
  <2>5. InHand'
    <3>1. \A w \in Workers : /\ at'[w] \in {"take", "work"} => at'[w] = at[w]
                             /\ at[w] = "absent" => at'[w] = "absent"
      BY <1>6 DEF Notify, Waiting, Inv, TypeOK
    <3>2. \A r \in Pushers : pushing'[r] = "push" => pushing[r] = "push"
      BY <1>6 DEF Notify, Inv, TypeOK
    <3> QED
      BY <1>6, <3>1, <3>2 DEF Notify, Inv, InHand, NonEmpty, queueVars, ownerVars
  <2> QED
    BY <2>1, <2>2, <2>3, <2>4, <2>5 DEF Inv
<1>7. ASSUME NEW w \in Workers, Stop(w) PROVE Inv'
  <2>1. TypeOK'
    BY <1>7 DEF Stop, Inv, TypeOK, InHand, LockedWorker, LockedPusher, queueVars, ownerVars, workerVars, pusherVars, jobVars, Relocked
  <2>2. MutexOK'
    BY <1>7 DEF Stop, Inv, TypeOK, MutexOK, InHand, LockedWorker, LockedPusher, queueVars, ownerVars, workerVars, pusherVars, jobVars, Relocked
  <2>3. CountMatchesQueues'
    BY <1>7 DEF Stop, Inv, TypeOK, MutexOK, LockedWorker, LockedPusher, CountMatchesQueues, Uncounted, Total, queueVars, ownerVars, workerVars, pusherVars, jobVars, Relocked
  <2>4. PopFindsJob'
    BY <1>7 DEF Stop, Inv, TypeOK, MutexOK, LockedWorker, LockedPusher, PopFindsJob, NonEmpty, queueVars, ownerVars, workerVars, pusherVars, jobVars, Relocked
  <2>5. InHand'
    BY <1>7 DEF Stop, Inv, TypeOK, MutexOK, LockedWorker, LockedPusher, InHand, NonEmpty, queueVars, ownerVars, workerVars, pusherVars, jobVars, Relocked
  <2> QED
    BY <2>1, <2>2, <2>3, <2>4, <2>5 DEF Inv
<1>8. ASSUME NEW w \in Workers, Continue(w) PROVE Inv'
  <2>1. TypeOK'
    BY <1>8 DEF Continue, Inv, TypeOK, InHand, LockedWorker, LockedPusher, queueVars, ownerVars, workerVars, pusherVars, jobVars, Relocked
  <2>2. MutexOK'
    BY <1>8 DEF Continue, Inv, TypeOK, MutexOK, InHand, LockedWorker, LockedPusher, queueVars, ownerVars, workerVars, pusherVars, jobVars, Relocked
  <2>3. CountMatchesQueues'
    BY <1>8 DEF Continue, Inv, TypeOK, MutexOK, LockedWorker, LockedPusher, CountMatchesQueues, Uncounted, Total, queueVars, ownerVars, workerVars, pusherVars, jobVars, Relocked
  <2>4. PopFindsJob'
    BY <1>8 DEF Continue, Inv, TypeOK, MutexOK, LockedWorker, LockedPusher, PopFindsJob, NonEmpty, queueVars, ownerVars, workerVars, pusherVars, jobVars, Relocked
  <2>5. InHand'
    BY <1>8 DEF Continue, Inv, TypeOK, MutexOK, LockedWorker, LockedPusher, InHand, NonEmpty, queueVars, ownerVars, workerVars, pusherVars, jobVars, Relocked
  <2> QED
    BY <2>1, <2>2, <2>3, <2>4, <2>5 DEF Inv
<1>9. ASSUME NEW w \in Workers, Lock(w) PROVE Inv'
  <2>1. TypeOK'
    BY <1>9 DEF Lock, Inv, TypeOK, InHand, LockedWorker, LockedPusher, queueVars, ownerVars, workerVars, pusherVars, jobVars, Relocked
  <2>2. MutexOK'
    BY <1>9 DEF Lock, Inv, TypeOK, MutexOK, InHand, LockedWorker, LockedPusher, queueVars, ownerVars, workerVars, pusherVars, jobVars, Relocked
  <2>3. CountMatchesQueues'
    <3>1. ~Uncounted /\ ~Uncounted'
      BY <1>9, <2>2, UncountedByOwner DEF Lock, Relocked, Inv, TypeOK, MutexOK, Uncounted, LockedPusher, LockedWorker, pusherVars
    <3>2. Total' = Total /\ queuedJobsCount' = queuedJobsCount
      BY <1>9 DEF Lock, Total, queueVars
    <3> QED
      BY <3>1, <3>2 DEF Inv, CountMatchesQueues
  <2>4. PopFindsJob'
    BY <1>9 DEF Lock, Inv, TypeOK, MutexOK, LockedWorker, LockedPusher, PopFindsJob, NonEmpty, queueVars, ownerVars, workerVars, pusherVars, jobVars, Relocked
  <2>5. InHand'
    BY <1>9 DEF Lock, Inv, TypeOK, MutexOK, LockedWorker, LockedPusher, InHand, NonEmpty, queueVars, ownerVars, workerVars, pusherVars, jobVars, Relocked
  <2> QED
    BY <2>1, <2>2, <2>3, <2>4, <2>5 DEF Inv
<1>10. ASSUME NEW w \in Workers, HasJob(w) PROVE Inv'
  <2>1. TypeOK'
    BY <1>10 DEF HasJob, Inv, TypeOK, InHand, LockedWorker, LockedPusher, queueVars, ownerVars, workerVars, pusherVars, jobVars, Relocked
  <2>2. MutexOK'
    BY <1>10 DEF HasJob, Inv, TypeOK, MutexOK, InHand, LockedWorker, LockedPusher, queueVars, ownerVars, workerVars, pusherVars, jobVars, Relocked
  <2>3. CountMatchesQueues'
    BY <1>10 DEF HasJob, Inv, TypeOK, MutexOK, LockedWorker, LockedPusher, CountMatchesQueues, Uncounted, Total, queueVars, ownerVars, workerVars, pusherVars, jobVars, Relocked
  <2>4. PopFindsJob'
    <3>1. ~Uncounted
      BY <1>10, UncountedByOwner DEF HasJob, Inv, LockedWorker
    <3>2. Total # 0
      BY <1>10, <3>1 DEF HasJob, Inv, TypeOK, CountMatchesQueues
    <3>3. NonEmpty # {}
      BY <3>2, TotalZero DEF Inv, TypeOK
    <3> QED
      BY <1>10, <3>3 DEF HasJob, PopFindsJob, NonEmpty, queueVars
  <2>5. InHand'
    BY <1>10 DEF HasJob, Inv, TypeOK, MutexOK, LockedWorker, LockedPusher, InHand, NonEmpty, queueVars, ownerVars, workerVars, pusherVars, jobVars, Relocked
  <2> QED
    BY <2>1, <2>2, <2>3, <2>4, <2>5 DEF Inv
<1>11. ASSUME NEW w \in Workers, Wait(w) PROVE Inv'
  <2>1. TypeOK'
    BY <1>11 DEF Wait, Inv, TypeOK, InHand, LockedWorker, LockedPusher, queueVars, ownerVars, workerVars, pusherVars, jobVars, Relocked
  <2>2. MutexOK'
    BY <1>11 DEF Wait, Inv, TypeOK, MutexOK, InHand, LockedWorker, LockedPusher, queueVars, ownerVars, workerVars, pusherVars, jobVars, Relocked
  <2>3. CountMatchesQueues'
    BY <1>11 DEF Wait, Inv, TypeOK, MutexOK, LockedWorker, LockedPusher, CountMatchesQueues, Uncounted, Total, queueVars, ownerVars, workerVars, pusherVars, jobVars, Relocked
  <2>4. PopFindsJob'
    BY <1>11 DEF Wait, Inv, TypeOK, MutexOK, LockedWorker, LockedPusher, PopFindsJob, NonEmpty, queueVars, ownerVars, workerVars, pusherVars, jobVars, Relocked
  <2>5. InHand'
    BY <1>11 DEF Wait, Inv, TypeOK, MutexOK, LockedWorker, LockedPusher, InHand, NonEmpty, queueVars, ownerVars, workerVars, pusherVars, jobVars, Relocked
  <2> QED
    BY <2>1, <2>2, <2>3, <2>4, <2>5 DEF Inv
<1>12. ASSUME NEW w \in Workers, GiveUp(w) PROVE Inv'
  <2>1. TypeOK'
    BY <1>12 DEF GiveUp, Inv, TypeOK, InHand, LockedWorker, LockedPusher, queueVars, ownerVars, workerVars, pusherVars, jobVars, Relocked
  <2>2. MutexOK'
    BY <1>12 DEF GiveUp, Inv, TypeOK, MutexOK, InHand, LockedWorker, LockedPusher, queueVars, ownerVars, workerVars, pusherVars, jobVars, Relocked
  <2>3. CountMatchesQueues'
    BY <1>12 DEF GiveUp, Inv, TypeOK, MutexOK, LockedWorker, LockedPusher, CountMatchesQueues, Uncounted, Total, queueVars, ownerVars, workerVars, pusherVars, jobVars, Relocked
  <2>4. PopFindsJob'
    BY <1>12 DEF GiveUp, Inv, TypeOK, MutexOK, LockedWorker, LockedPusher, PopFindsJob, NonEmpty, queueVars, ownerVars, workerVars, pusherVars, jobVars, Relocked
  <2>5. InHand'
    BY <1>12 DEF GiveUp, Inv, TypeOK, MutexOK, LockedWorker, LockedPusher, InHand, NonEmpty, queueVars, ownerVars, workerVars, pusherVars, jobVars, Relocked
  <2> QED
    BY <2>1, <2>2, <2>3, <2>4, <2>5 DEF Inv
<1>13. ASSUME NEW w \in Workers, Select(w) PROVE Inv'
  <2>1. TypeOK'
    <3>1. NonEmpty # {}
      BY <1>13 DEF Select, Inv, PopFindsJob
    <3>2. Total # 0 /\ Total \in Nat
      BY <3>1, TotalZero DEF Inv, TypeOK
    <3>3. Total = queuedJobsCount
      BY <1>13, UncountedByOwner DEF Select, Inv, TypeOK, CountMatchesQueues, LockedWorker
    <3>4. queuedJobsCount - 1 \in Nat
      BY <3>2, <3>3
    <3> QED
      BY <1>13, <3>1, <3>4 DEF Select, Inv, TypeOK, LockedWorker, ownerVars, pusherVars, jobVars
  <2>2. MutexOK'
    <3>1. NonEmpty # {}
      BY <1>13 DEF Select, Inv, PopFindsJob
    <3> QED
      BY <1>13, <3>1 DEF Select, Inv, TypeOK, MutexOK, LockedWorker, LockedPusher, pusherVars
  <2>3. CountMatchesQueues'
    <3>1. NonEmpty # {}
      BY <1>13 DEF Select, Inv, PopFindsJob
    <3>2. Total = queuedJobsCount
      BY <1>13, UncountedByOwner DEF Select, Inv, TypeOK, CountMatchesQueues, LockedWorker
    <3>3. queuedJobsCount' = queuedJobsCount - 1 /\ Uncounted'
      BY <1>13, <3>1 DEF Select, Inv, TypeOK, Uncounted
    <3>4. Total' = Total
      BY <1>13 DEF Select, Total
    <3> QED
      BY <3>2, <3>3, <3>4 DEF Inv, TypeOK, CountMatchesQueues
  <2>4. PopFindsJob'
    BY <1>13 DEF Select, Inv, TypeOK, MutexOK, LockedWorker, LockedPusher, PopFindsJob, NonEmpty, queueVars, ownerVars, workerVars, pusherVars, jobVars, Relocked
  <2>5. InHand'
    BY <1>13 DEF Select, Inv, TypeOK, MutexOK, LockedWorker, LockedPusher, InHand, NonEmpty, queueVars, ownerVars, workerVars, pusherVars, jobVars, Relocked
  <2> QED
    BY <2>1, <2>2, <2>3, <2>4, <2>5 DEF Inv
<1>14. ASSUME NEW w \in Workers, Take(w) PROVE Inv'
  <2>0. PICK l \in Level : /\ Highest(l)
                            /\ job' = [job EXCEPT ![w] = Head(queues[l])]
                            /\ queues' = [queues EXCEPT ![l] = Tail(@)]
    BY <1>14 DEF Take
  <2>a. /\ queues[l] # <<>> /\ queues[l] \in Seq(Jobs) /\ Head(queues[l]) \in Jobs
        /\ Tail(queues[l]) \in Seq(Jobs) /\ Len(Tail(queues[l])) = Len(queues[l]) - 1
    BY <2>0, HeadTailProperties DEF Highest, NonEmpty, Inv, TypeOK
  <2>1. TypeOK'
    <3>1. queues' \in [Level -> Seq(Jobs)] /\ job' \in [Workers -> Jobs \cup {NoJob}]
      BY <2>0, <2>a DEF Inv, TypeOK
    <3>2. \A m \in Level : Len(queues'[m]) <= QueueSize
      BY <2>0, <2>a, LenProperties DEF Inv, TypeOK
    <3> QED
      BY <1>14, <3>1, <3>2 DEF Take, Inv, TypeOK, LockedWorker, ownerVars, pusherVars, jobVars
  <2>2. MutexOK'
    BY <1>14 DEF Take, Inv, TypeOK, MutexOK, InHand, LockedWorker, LockedPusher, queueVars, ownerVars, workerVars, pusherVars, jobVars, Relocked
  <2>3. CountMatchesQueues'
    <3>1. Total = queuedJobsCount + 1
      BY <1>14 DEF Take, Inv, CountMatchesQueues, Uncounted
    <3>2. ~Uncounted'
      BY <1>14, <2>2 DEF Take, Inv, TypeOK, MutexOK, Uncounted, LockedPusher, LockedWorker, pusherVars
    <3>3. Total = Total' + 1 /\ Total' \in Int
      BY <2>0, <2>a, TotalAfterTake DEF Inv, TypeOK
    <3>4. queuedJobsCount' = queuedJobsCount /\ queuedJobsCount \in Int
      BY <1>14 DEF Take, Inv, TypeOK
    <3>5. \A m, n \in Int : m + 1 = n + 1 => m = n
      OBVIOUS
    <3>6. Total' = queuedJobsCount
      BY <3>1, <3>3, <3>4, <3>5
    <3> QED
      BY <3>2, <3>4, <3>6 DEF CountMatchesQueues
  <2>4. PopFindsJob'
    BY <1>14 DEF Take, Inv, TypeOK, MutexOK, LockedWorker, LockedPusher, PopFindsJob, NonEmpty, queueVars, ownerVars, workerVars, pusherVars, jobVars, Relocked
  <2>5. InHand'
    <3>1. \A v \in Workers : at[v] = "take" => v = w
      BY <1>14 DEF Take, Inv, MutexOK, LockedWorker
    <3>2. \A v \in Workers : at'[v] # "take"
      BY <1>14, <3>1 DEF Take, Inv, TypeOK
    <3>3. \A v \in Workers : at'[v] = "work" => job'[v] \in Jobs
      BY <1>14, <2>0, <2>a DEF Take, Inv, TypeOK, InHand
    <3>4. scheduler' # "idle"
      BY <1>14 DEF Take, Inv, InHand, ownerVars
    <3> QED
      BY <1>14, <3>2, <3>3, <3>4 DEF Take, Inv, InHand, pusherVars
  <2> QED
    BY <2>1, <2>2, <2>3, <2>4, <2>5 DEF Inv
<1>15. ASSUME NEW w \in Workers, Work(w) PROVE Inv'
  <2>1. TypeOK'
    BY <1>15 DEF Work, Inv, TypeOK, InHand, LockedWorker, LockedPusher, queueVars, ownerVars, workerVars, pusherVars, jobVars, Relocked
  <2>2. MutexOK'
    BY <1>15 DEF Work, Inv, TypeOK, MutexOK, InHand, LockedWorker, LockedPusher, queueVars, ownerVars, workerVars, pusherVars, jobVars, Relocked
  <2>3. CountMatchesQueues'
    BY <1>15 DEF Work, Inv, TypeOK, MutexOK, LockedWorker, LockedPusher, CountMatchesQueues, Uncounted, Total, queueVars, ownerVars, workerVars, pusherVars, jobVars, Relocked
  <2>4. PopFindsJob'
    BY <1>15 DEF Work, Inv, TypeOK, MutexOK, LockedWorker, LockedPusher, PopFindsJob, NonEmpty, queueVars, ownerVars, workerVars, pusherVars, jobVars, Relocked
  <2>5. InHand'
    BY <1>15 DEF Work, Inv, TypeOK, MutexOK, LockedWorker, LockedPusher, InHand, NonEmpty, queueVars, ownerVars, workerVars, pusherVars, jobVars, Relocked
  <2> QED
    BY <2>1, <2>2, <2>3, <2>4, <2>5 DEF Inv
<1>16. ASSUME NEW w \in Workers, SpuriousWakeup(w) PROVE Inv'
  <2>1. TypeOK'
    BY <1>16 DEF SpuriousWakeup, Inv, TypeOK, InHand, LockedWorker, LockedPusher, queueVars, ownerVars, workerVars, pusherVars, jobVars, Relocked
  <2>2. MutexOK'
    BY <1>16 DEF SpuriousWakeup, Inv, TypeOK, MutexOK, InHand, LockedWorker, LockedPusher, queueVars, ownerVars, workerVars, pusherVars, jobVars, Relocked
  <2>3. CountMatchesQueues'
    BY <1>16 DEF SpuriousWakeup, Inv, TypeOK, MutexOK, LockedWorker, LockedPusher, CountMatchesQueues, Uncounted, Total, queueVars, ownerVars, workerVars, pusherVars, jobVars, Relocked
  <2>4. PopFindsJob'
    BY <1>16 DEF SpuriousWakeup, Inv, TypeOK, MutexOK, LockedWorker, LockedPusher, PopFindsJob, NonEmpty, queueVars, ownerVars, workerVars, pusherVars, jobVars, Relocked
  <2>5. InHand'
    BY <1>16 DEF SpuriousWakeup, Inv, TypeOK, MutexOK, LockedWorker, LockedPusher, InHand, NonEmpty, queueVars, ownerVars, workerVars, pusherVars, jobVars, Relocked
  <2> QED
    BY <2>1, <2>2, <2>3, <2>4, <2>5 DEF Inv
<1>17. ASSUME NEW w \in Workers, Timeout(w) PROVE Inv'
  <2>1. TypeOK'
    BY <1>17 DEF Timeout, Inv, TypeOK, InHand, LockedWorker, LockedPusher, queueVars, ownerVars, workerVars, pusherVars, jobVars, Relocked
  <2>2. MutexOK'
    BY <1>17 DEF Timeout, Inv, TypeOK, MutexOK, InHand, LockedWorker, LockedPusher, queueVars, ownerVars, workerVars, pusherVars, jobVars, Relocked
  <2>3. CountMatchesQueues'
    BY <1>17 DEF Timeout, Inv, TypeOK, MutexOK, LockedWorker, LockedPusher, CountMatchesQueues, Uncounted, Total, queueVars, ownerVars, workerVars, pusherVars, jobVars, Relocked
  <2>4. PopFindsJob'
    BY <1>17 DEF Timeout, Inv, TypeOK, MutexOK, LockedWorker, LockedPusher, PopFindsJob, NonEmpty, queueVars, ownerVars, workerVars, pusherVars, jobVars, Relocked
  <2>5. InHand'
    BY <1>17 DEF Timeout, Inv, TypeOK, MutexOK, LockedWorker, LockedPusher, InHand, NonEmpty, queueVars, ownerVars, workerVars, pusherVars, jobVars, Relocked
  <2> QED
    BY <2>1, <2>2, <2>3, <2>4, <2>5 DEF Inv
<1>18. ASSUME Create PROVE Inv'
  <2>1. TypeOK'
    BY <1>18 DEF Create, Inv, TypeOK, InHand, LockedWorker, LockedPusher, queueVars, ownerVars, workerVars, pusherVars, jobVars, Relocked
  <2>2. MutexOK'
    BY <1>18 DEF Create, Inv, TypeOK, MutexOK, InHand, LockedWorker, LockedPusher, queueVars, ownerVars, workerVars, pusherVars, jobVars, Relocked
  <2>3. CountMatchesQueues'
    <3>1. Uncounted' <=> Uncounted
      BY <1>18 DEF Create, Inv, InHand, Uncounted, pusherVars
    <3>2. Total' = Total /\ queuedJobsCount' = queuedJobsCount
      BY <1>18 DEF Create, Total, queueVars
    <3> QED
      BY <3>1, <3>2 DEF Inv, CountMatchesQueues
  <2>4. PopFindsJob'
    BY <1>18 DEF Create, Inv, TypeOK, MutexOK, LockedWorker, LockedPusher, PopFindsJob, NonEmpty, queueVars, ownerVars, workerVars, pusherVars, jobVars, Relocked
  <2>5. InHand'
    BY <1>18 DEF Create, Inv, TypeOK, MutexOK, LockedWorker, LockedPusher, InHand, NonEmpty, queueVars, ownerVars, workerVars, pusherVars, jobVars, Relocked
  <2> QED
    BY <2>1, <2>2, <2>3, <2>4, <2>5 DEF Inv
<1>19. ASSUME Destroy PROVE Inv'
  <2>1. TypeOK'
    <3>1. lifetimes + 1 \in 0 .. MaxLifetimes
      BY <1>19 DEF Destroy, Inv, TypeOK
    <3> QED
      BY <1>19, <3>1 DEF Destroy, Inv, TypeOK, queueVars, workerVars, pusherVars, jobVars
  <2>2. MutexOK'
    BY <1>19 DEF Destroy, Inv, TypeOK, MutexOK, InHand, LockedWorker, LockedPusher, queueVars, ownerVars, workerVars, pusherVars, jobVars, Relocked
  <2>3. CountMatchesQueues'
    BY <1>19 DEF Destroy, Inv, TypeOK, MutexOK, LockedWorker, LockedPusher, CountMatchesQueues, Uncounted, Total, queueVars, ownerVars, workerVars, pusherVars, jobVars, Relocked
  <2>4. PopFindsJob'
    BY <1>19 DEF Destroy, Inv, TypeOK, MutexOK, LockedWorker, LockedPusher, PopFindsJob, NonEmpty, queueVars, ownerVars, workerVars, pusherVars, jobVars, Relocked
  <2>5. InHand'
    BY <1>19 DEF Destroy, Inv, TypeOK, MutexOK, LockedWorker, LockedPusher, InHand, NonEmpty, queueVars, ownerVars, workerVars, pusherVars, jobVars, Relocked
  <2> QED
    BY <2>1, <2>2, <2>3, <2>4, <2>5 DEF Inv
<1>20. ASSUME Join PROVE Inv'
  <2>1. TypeOK'
    BY <1>20 DEF Join, Inv, TypeOK, InHand, LockedWorker, LockedPusher, queueVars, ownerVars, workerVars, pusherVars, jobVars, Relocked
  <2>2. MutexOK'
    BY <1>20 DEF Join, Inv, TypeOK, MutexOK, InHand, LockedWorker, LockedPusher, queueVars, ownerVars, workerVars, pusherVars, jobVars, Relocked
  <2>3. CountMatchesQueues'
    BY <1>20 DEF Join, Inv, TypeOK, MutexOK, LockedWorker, LockedPusher, CountMatchesQueues, Uncounted, Total, queueVars, ownerVars, workerVars, pusherVars, jobVars, Relocked
  <2>4. PopFindsJob'
    BY <1>20 DEF Join, Inv, TypeOK, MutexOK, LockedWorker, LockedPusher, PopFindsJob, NonEmpty, queueVars, ownerVars, workerVars, pusherVars, jobVars, Relocked
  <2>5. InHand'
    BY <1>20 DEF Join, Inv, TypeOK, MutexOK, LockedWorker, LockedPusher, InHand, NonEmpty, queueVars, ownerVars, workerVars, pusherVars, jobVars, Relocked
  <2> QED
    BY <2>1, <2>2, <2>3, <2>4, <2>5 DEF Inv
<1>21. CASE UNCHANGED vars
  BY <1>21 DEF vars, Inv, TypeOK, MutexOK, CountMatchesQueues, Uncounted, Total, PopFindsJob, InHand, NonEmpty
<1> QED
  BY <1>1, <1>2, <1>3, <1>4, <1>5, <1>6, <1>7, <1>8, <1>9, <1>10, <1>11, <1>12, <1>13, <1>14, <1>15, <1>16, <1>17, <1>18, <1>19, <1>20, <1>21 DEF Next, PusherStep, WorkerStep, Ended

(* Every reachable state satisfies the inductive invariant. *)
THEOREM SpecInv == Spec => []Inv
BY InvInit, InvNext, PTL DEF Spec

(* The queues hold jobs, no more than FP_JOB_QUEUE_SIZE of them each, and   *)
(* s_queuedJobsCount never underflows.                                      *)
THEOREM SpecTypeOK == Spec => []TypeOK
<1>1. Inv => TypeOK
  BY DEF Inv
<1> QED
  BY <1>1, SpecInv, PTL

(* The two lock guards give mutual exclusion over the queues. *)
THEOREM SpecMutexOK == Spec => []MutexOK
<1>1. Inv => MutexOK
  BY DEF Inv
<1> QED
  BY <1>1, SpecInv, PTL

(* The counter that the workers wait on is the number of queued jobs.       *)
THEOREM SpecCountMatchesQueues == Spec => []CountMatchesQueues
<1>1. Inv => CountMatchesQueues
  BY DEF Inv
<1> QED
  BY <1>1, SpecInv, PTL

(* jobScheduler.cpp:97 is unreachable: after a wait that returned true, pop *)
(* finds a job, whatever the other threads do.                              *)
THEOREM SpecPopFindsJob == Spec => []PopFindsJob
<1>1. Inv => PopFindsJob
  BY DEF Inv
<1> QED
  BY <1>1, SpecInv, PTL

-----------------------------------------------------------------------------
(* A job that is in a queue and about to be counted by its pusher. *)
Counting == \E p \in Pushers : pushing[p] = "count"

(* NoLostWakeup, with the job a pusher is about to count already counted:   *)
(* the pusher that will notify for it is on its way, too.                   *)
WakeupsPending ==
  running /\ Waiting # {} =>
    queuedJobsCount + (IF Counting THEN 1 ELSE 0)
      <= Cardinality(Coming) + Cardinality(Notifying)

(* The threads counted by NoLostWakeup are finitely many. *)
LEMMA FewThreads ==
  /\ IsFiniteSet(Coming) /\ Cardinality(Coming) \in Nat
  /\ IsFiniteSet(Notifying) /\ Cardinality(Notifying) \in Nat
<1>1. Coming \subseteq Workers /\ Notifying \subseteq Pushers
  BY DEF Coming, Notifying
<1> QED
  BY <1>1, FiniteAssumption, FS_Subset, FS_CardinalityType

(* A worker that wakes up, or is done with a job, is one more on its way. *)
LEMMA ComingMore ==
  ASSUME NEW w \in Workers, Coming' = Coming \cup {w}
  PROVE  /\ Cardinality(Coming) <= Cardinality(Coming')
         /\ w \notin Coming => Cardinality(Coming') = Cardinality(Coming) + 1
<1>1. CASE w \in Coming
  <2>1. Coming' = Coming
    BY <1>1
  <2>2. Cardinality(Coming') = Cardinality(Coming)
    BY <2>1, Zenon
  <2> QED
    BY <1>1, <2>2, FewThreads
<1>2. CASE w \notin Coming
  <2>1. Cardinality(Coming') = Cardinality(Coming) + 1
    BY <1>2, FewThreads, FS_AddElement
  <2> QED
    BY <2>1, FewThreads
<1> QED
  BY <1>1, <1>2

(* A worker that counted its job off leaves those on their way. *)
LEMMA ComingLess ==
  ASSUME NEW w \in Coming, Coming' = Coming \ {w}
  PROVE  Cardinality(Coming') = Cardinality(Coming) - 1
BY FewThreads, FS_RemoveElement

(* The set of the workers on their way after one of them has moved. *)
LEMMA ComingMoves ==
  ASSUME TypeOK, NEW w \in Workers, NEW x, at' = [at EXCEPT ![w] = x]
  PROVE  Coming' = IF x \in {"top", "lock", "check", "lastCheck",
                             "awake", "timedOut", "select"}
                   THEN Coming \cup {w} ELSE Coming \ {w}
BY DEF Coming, TypeOK

(* No wakeup is pending in the initial state, where nobody sleeps. *)
LEMMA WakeupsInit == Init => WakeupsPending
BY DEF Init, WakeupsPending, Waiting

(* Every step keeps a thread on its way for each counted job. *)
LEMMA WakeupsNext == Inv /\ WakeupsPending /\ [Next]_vars => WakeupsPending'
<1> SUFFICES ASSUME Inv, WakeupsPending, [Next]_vars, running', Waiting' # {}
             PROVE  queuedJobsCount' + (IF Counting' THEN 1 ELSE 0)
                      <= Cardinality(Coming') + Cardinality(Notifying')
  BY DEF WakeupsPending
<1> DEFINE pending == queuedJobsCount + (IF Counting THEN 1 ELSE 0)
           others == pending' <= Cardinality(Coming') + Cardinality(Notifying')
<1>a. /\ TypeOK /\ MutexOK /\ queuedJobsCount \in Nat /\ pending \in Nat
      /\ Cardinality(Coming) \in Nat /\ Cardinality(Coming') \in Nat
      /\ Cardinality(Notifying) \in Nat /\ Cardinality(Notifying') \in Nat
  <2>1. Cardinality(Coming') \in Nat /\ Cardinality(Notifying') \in Nat
    <3>1. Coming' \subseteq Workers /\ Notifying' \subseteq Pushers
      BY DEF Coming, Notifying
    <3> QED
      BY <3>1, FiniteAssumption, FS_Subset, FS_CardinalityType
  <2> QED
    BY <2>1, FewThreads DEF Inv, TypeOK
<1>b. running /\ Waiting # {} => pending <= Cardinality(Coming) + Cardinality(Notifying)
  BY DEF WakeupsPending
\* A worker's step that leaves the pushers and the counter alone.
<1>c. ASSUME NEW w \in Workers, NEW x, at' = [at EXCEPT ![w] = x],
             x \in {"top", "lock", "check", "lastCheck", "awake", "timedOut", "select"},
             UNCHANGED <<queuedJobsCount, pushing, running>>
      PROVE  others
  <2>1. Cardinality(Coming) <= Cardinality(Coming')
    BY <1>a, <1>c, ComingMoves, ComingMore
  <2>2. Waiting # {}
    BY <1>a, <1>c DEF Waiting, TypeOK
  <2>3. Notifying' = Notifying /\ pending' = pending /\ running
    BY <1>c DEF Notifying, Counting
  <2> HIDE DEF pending
  <2> QED
    BY <1>a, <1>b, <2>1, <2>2, <2>3
<1>1. ASSUME NEW p \in Pushers, PushLock(p) PROVE others
  <2>1. UNCHANGED <<queuedJobsCount, running, at>> /\ ~Counting /\ ~Counting'
    BY <1>1, <1>a, ThreadAssumption
    DEF PushLock, Counting, MutexOK, TypeOK, LockedPusher, queueVars, ownerVars, workerVars
  <2>2. Notifying' = Notifying /\ Coming' = Coming /\ Waiting' = Waiting
    BY <1>1, <1>a, <2>1 DEF PushLock, Notifying, Coming, Waiting, TypeOK
  <2> QED
    BY <1>b, <2>1, <2>2
<1>2. ASSUME NEW p \in Pushers, PushEnqueue(p) PROVE others
  <2>1. UNCHANGED <<queuedJobsCount, running, at>> /\ ~Counting /\ Counting'
    BY <1>2, <1>a, ThreadAssumption
    DEF PushEnqueue, Counting, MutexOK, TypeOK, LockedPusher, queueVars, ownerVars, workerVars
  <2>2. /\ Notifying' = Notifying \cup {p} /\ p \notin Notifying
        /\ Coming' = Coming /\ Waiting' = Waiting
    BY <1>2, <1>a, <2>1 DEF PushEnqueue, Notifying, Coming, Waiting, TypeOK
  <2>3. Cardinality(Notifying') = Cardinality(Notifying) + 1
    BY <2>2, FewThreads, FS_AddElement
  <2> QED
    BY <1>a, <1>b, <2>1, <2>2, <2>3
<1>3. ASSUME NEW p \in Pushers, PushSaturated(p) PROVE others
  <2>1. UNCHANGED <<queuedJobsCount, running, at>> /\ ~Counting /\ ~Counting'
    BY <1>3, <1>a, ThreadAssumption
    DEF PushSaturated, Counting, MutexOK, TypeOK, LockedPusher, queueVars, ownerVars, workerVars
  <2>2. /\ Notifying' = Notifying \cup {p} /\ p \notin Notifying
        /\ Coming' = Coming /\ Waiting' = Waiting
    BY <1>3, <1>a, <2>1 DEF PushSaturated, Notifying, Coming, Waiting, TypeOK
  <2>3. Cardinality(Notifying') = Cardinality(Notifying) + 1
    BY <2>2, FewThreads, FS_AddElement
  <2> QED
    BY <1>a, <1>b, <2>1, <2>2, <2>3
<1>4. ASSUME NEW p \in Pushers, PushCount(p) PROVE others
  <2>1. /\ queuedJobsCount' = queuedJobsCount + 1
        /\ UNCHANGED <<running, at>> /\ Counting /\ ~Counting'
    BY <1>4, <1>a, ThreadAssumption
    DEF PushCount, Counting, MutexOK, TypeOK, LockedPusher, ownerVars, workerVars
  <2>2. Notifying' = Notifying /\ Coming' = Coming /\ Waiting' = Waiting
    BY <1>4, <1>a, <2>1 DEF PushCount, Notifying, Coming, Waiting, TypeOK
  <2> QED
    BY <1>a, <1>b, <2>1, <2>2
<1>5. ASSUME NEW p \in Pushers, PushUnlock(p) PROVE others
  <2>1. UNCHANGED <<queuedJobsCount, running, at>> /\ Counting' = Counting
    BY <1>5, <1>a DEF PushUnlock, Counting, TypeOK, queueVars, ownerVars, workerVars
  <2>2. Notifying' = Notifying /\ Coming' = Coming /\ Waiting' = Waiting
    BY <1>5, <1>a, <2>1 DEF PushUnlock, Notifying, Coming, Waiting, TypeOK
  <2> QED
    BY <1>b, <2>1, <2>2
<1>6. ASSUME NEW p \in Pushers, Notify(p) PROVE others
  <2>1. UNCHANGED <<queuedJobsCount, running>> /\ Counting' = Counting
    BY <1>6, <1>a DEF Notify, Counting, TypeOK, queueVars, ownerVars
  <2>2. Notifying' = Notifying \ {p} /\ p \in Notifying
    BY <1>6, <1>a DEF Notify, Notifying, TypeOK
  <2>3. Cardinality(Notifying') = Cardinality(Notifying) - 1
    BY <2>2, FewThreads, FS_RemoveElement
  <2>4. PICK w \in Waiting : at' = [at EXCEPT ![w] = "awake"]
    BY <1>6 DEF Notify, Waiting
  <2>5. w \in Workers /\ w \notin Coming
    BY <2>4 DEF Waiting, Coming
  <2>6. Cardinality(Coming') = Cardinality(Coming) + 1
    BY <1>a, <2>4, <2>5, ComingMoves, ComingMore
  <2> QED
    BY <1>a, <1>b, <2>1, <2>3, <2>4, <2>6
<1>7. ASSUME NEW w \in Workers, Stop(w) PROVE others
  BY <1>7 DEF Stop, ownerVars
<1>8. ASSUME NEW w \in Workers, Continue(w) PROVE others
  BY <1>8, <1>c DEF Continue, queueVars, ownerVars, pusherVars
<1>9. ASSUME NEW w \in Workers, Lock(w) PROVE others
  <2>1. Relocked[at[w]] \in {"check", "lastCheck"}
    BY <1>9 DEF Lock, Relocked
  <2> QED
    BY <1>9, <1>c, <2>1 DEF Lock, queueVars, ownerVars, pusherVars
<1>10. ASSUME NEW w \in Workers, HasJob(w) PROVE others
  BY <1>10, <1>c DEF HasJob, queueVars, ownerVars, pusherVars
<1>11. ASSUME NEW w \in Workers, Wait(w) PROVE others
  <2>1. queuedJobsCount' = 0 /\ ~Counting'
    BY <1>11, <1>a, ThreadAssumption
    DEF Wait, Counting, MutexOK, LockedPusher, LockedWorker, queueVars, pusherVars
  <2> QED
    BY <1>a, <2>1
<1>12. ASSUME NEW w \in Workers, GiveUp(w) PROVE others
  BY <1>12, <1>c DEF GiveUp, queueVars, ownerVars, pusherVars
<1>13. ASSUME NEW w \in Workers, Select(w) PROVE others
  <2>1. NonEmpty # {}
    BY <1>13 DEF Select, Inv, PopFindsJob
  <2>2. /\ queuedJobsCount' = queuedJobsCount - 1 /\ at' = [at EXCEPT ![w] = "take"]
        /\ UNCHANGED <<running, pushing>> /\ w \in Coming
    BY <1>13, <2>1 DEF Select, ownerVars, pusherVars, Coming
  <2>3. Cardinality(Coming') = Cardinality(Coming) - 1
    BY <1>a, <2>2, ComingMoves, ComingLess
  <2>4. Notifying' = Notifying /\ Counting' = Counting
    BY <2>2 DEF Notifying, Counting
  <2>5. Waiting # {}
    BY <1>a, <2>2 DEF Waiting, TypeOK
  <2> QED
    BY <1>a, <1>b, <2>2, <2>3, <2>4, <2>5
<1>14. ASSUME NEW w \in Workers, Take(w) PROVE others
  <2>1. Coming' = Coming /\ Waiting' = Waiting
    BY <1>14, <1>a DEF Take, Coming, Waiting, TypeOK
  <2>2. UNCHANGED <<queuedJobsCount, running>> /\ Notifying' = Notifying /\ Counting' = Counting
    BY <1>14 DEF Take, ownerVars, pusherVars, Notifying, Counting
  <2> QED
    BY <1>b, <2>1, <2>2
<1>15. ASSUME NEW w \in Workers, Work(w) PROVE others
  BY <1>15, <1>c DEF Work, queueVars, ownerVars, pusherVars
<1>16. ASSUME NEW w \in Workers, SpuriousWakeup(w) PROVE others
  BY <1>16, <1>c DEF SpuriousWakeup, queueVars, ownerVars, pusherVars
<1>17. ASSUME NEW w \in Workers, Timeout(w) PROVE others
  BY <1>17, <1>c DEF Timeout, queueVars, ownerVars, pusherVars
<1>18. CASE Create \/ Join
  BY <1>18 DEF Create, Join, Waiting
<1>19. CASE Destroy
  BY <1>19 DEF Destroy
<1>20. CASE UNCHANGED vars
  <2>1. UNCHANGED <<queuedJobsCount, running, at, pushing>>
    BY <1>20 DEF vars
  <2> QED
    BY <1>b, <2>1 DEF Notifying, Coming, Waiting, Counting
<1> QED
  BY <1>1, <1>2, <1>3, <1>4, <1>5, <1>6, <1>7, <1>8, <1>9, <1>10, <1>11, <1>12, <1>13, <1>14,
     <1>15, <1>16, <1>17, <1>18, <1>19, <1>20 DEF Next, PusherStep, WorkerStep, Ended

(* As long as the scheduler runs, no queued job is left to a timeout: the   *)
(* notification sent after the unlock, and the test of the counter before a *)
(* worker waits, are enough, however many threads there are.                *)
THEOREM SpecNoLostWakeup == Spec => []NoLostWakeup
<1>1. Inv /\ WakeupsPending => NoLostWakeup
  <2> SUFFICES ASSUME Inv, WakeupsPending, running, Waiting # {}
               PROVE  queuedJobsCount <= Cardinality(Coming) + Cardinality(Notifying)
    BY DEF NoLostWakeup
  <2> QED
    BY FewThreads DEF WakeupsPending, Inv, TypeOK
<1>2. Inv /\ WakeupsPending /\ [Next]_vars => (Inv /\ WakeupsPending)'
  BY InvNext, WakeupsNext
<1> QED
  BY <1>1, <1>2, InvInit, WakeupsInit, PTL DEF Spec

-----------------------------------------------------------------------------
(* A job is in one place: not pushed yet, in the hands of one pusher, at one *)
(* position of one queue, or run by one worker.                              *)
InHands ==
  /\ \A w \in Workers : job[w] # NoJob => at[w] = "work"
  /\ \A p \in Pushers : offer[p] # NoJob => pushing[p] = "push"

OfferedOnce ==
  \A p \in Pushers :
    /\ offer[p] \notin fresh
    /\ \A w \in Workers : offer[p] = job[w] => offer[p] = NoJob

HeldOnce ==
  \A w \in Workers :
    /\ job[w] \notin fresh
    /\ \A v \in Workers : v # w /\ job[v] = job[w] => job[w] = NoJob

QueuedOnce ==
  \A l \in Level : \A i \in 1 .. Len(queues[l]) :
    /\ queues[l][i] \notin fresh
    /\ \A p \in Pushers : offer[p] # queues[l][i]
    /\ \A w \in Workers : job[w] # queues[l][i]
    /\ \A m \in Level : \A k \in 1 .. Len(queues[m]) :
         queues[m][k] = queues[l][i] => m = l /\ k = i

JobsOnce == InHands /\ OfferedOnce /\ HeldOnce /\ QueuedOnce

(* Initially every job is fresh. *)
LEMMA JobsOnceInit == Init => JobsOnce
<1> SUFFICES ASSUME Init PROVE JobsOnce
  OBVIOUS
<1>1. \A l \in Level : Len(queues[l]) = 0
  BY EmptySeq DEF Init
<1> QED
  BY <1>1, NoJobAssumption DEF Init, JobsOnce, InHands, OfferedOnce, HeldOnce, QueuedOnce

(* Only one pusher at a time is inside push with a job. *)
LEMMA OneOffer ==
  ASSUME MutexOK, InHands, NEW p \in Pushers, pushing[p] = "push"
  PROVE  \A q \in Pushers : q # p => offer[q] = NoJob
BY DEF MutexOK, InHands, LockedPusher

(* Every step moves a job from one place to another, or leaves it. *)
LEMMA JobsOnceNext == Inv /\ JobsOnce /\ [Next]_vars => JobsOnce'
<1> SUFFICES ASSUME Inv, JobsOnce, [Next]_vars PROVE JobsOnce'
  OBVIOUS
<1>a. TypeOK /\ MutexOK /\ InHand /\ InHands /\ OfferedOnce /\ HeldOnce /\ QueuedOnce
  BY DEF Inv, JobsOnce
<1>b. ASSUME UNCHANGED <<queues, fresh, offer, job>>,
             \A w \in Workers : at[w] = "work" => at'[w] = "work",
             \A p \in Pushers : pushing[p] = "push" => pushing'[p] = "push"
      PROVE  JobsOnce'
  <2>1. InHands'
    BY <1>a, <1>b DEF InHands
  <2>2. OfferedOnce'
    BY <1>a, <1>b DEF OfferedOnce
  <2>3. HeldOnce'
    BY <1>a, <1>b DEF HeldOnce
  <2>4. QueuedOnce'
    BY <1>a, <1>b DEF QueuedOnce
  <2> QED
    BY <2>1, <2>2, <2>3, <2>4 DEF JobsOnce
<1>c. ASSUME NEW w \in Workers, NEW x, at' = [at EXCEPT ![w] = x], at[w] # "work",
             UNCHANGED <<queues, fresh, offer, job, pushing>>
      PROVE  JobsOnce'
  BY <1>a, <1>b, <1>c DEF TypeOK
<1>1. ASSUME NEW p \in Pushers, PushLock(p) PROVE JobsOnce'
  <2>1. PICK j \in fresh : /\ offer' = [offer EXCEPT ![p] = j]
                           /\ fresh' = fresh \ {j}
    BY <1>1 DEF PushLock
  <2>2. j \in Jobs /\ j # NoJob
    BY <1>a, NoJobAssumption DEF TypeOK
  <2>3. UNCHANGED <<queues, at, job>> /\ pushing' = [pushing EXCEPT ![p] = "push"]
    BY <1>1 DEF PushLock, queueVars, workerVars
  <2>4. \A q \in Pushers : offer'[q] = IF q = p THEN j ELSE offer[q]
    BY <1>a, <2>1 DEF TypeOK
  <2>5. InHands'
    BY <1>a, <2>3, <2>4 DEF InHands, TypeOK
  <2>6. OfferedOnce'
    BY <1>a, <2>1, <2>3, <2>4 DEF OfferedOnce, HeldOnce
  <2>7. HeldOnce'
    BY <1>a, <2>1, <2>3 DEF HeldOnce
  <2>8. QueuedOnce'
    BY <1>a, <2>1, <2>3, <2>4 DEF QueuedOnce
  <2> QED
    BY <2>5, <2>6, <2>7, <2>8 DEF JobsOnce
<1>2. ASSUME NEW p \in Pushers, PushEnqueue(p) PROVE JobsOnce'
  <2> DEFINE l == Priority[offer[p]]
             j == offer[p]
  <2>1. /\ j \in Jobs /\ j # NoJob /\ l \in Level /\ pushing[p] = "push"
        /\ queues' = [queues EXCEPT ![l] = Append(@, j)]
        /\ offer' = [offer EXCEPT ![p] = NoJob]
        /\ pushing' = [pushing EXCEPT ![p] = "count"]
        /\ UNCHANGED <<fresh, at, job>>
    BY <1>2, <1>a, NoJobAssumption, PriorityAssumption
    DEF PushEnqueue, InHand, jobVars, workerVars
  <2>2. \A q \in Pushers : offer'[q] = NoJob
    BY <1>a, <2>1, OneOffer DEF TypeOK
  <2>3. j \notin fresh /\ \A w \in Workers : job[w] # j
    BY <1>a, <2>1 DEF OfferedOnce
  <2>4. \A m \in Level : \A k \in 1 .. Len(queues[m]) : queues[m][k] # j
    BY <1>a DEF QueuedOnce
  <2>5. /\ Len(queues'[l]) = Len(queues[l]) + 1 /\ Len(queues[l]) \in Nat
        /\ queues'[l][Len(queues[l]) + 1] = j
        /\ \A k \in 1 .. Len(queues[l]) : queues'[l][k] = queues[l][k]
        /\ \A m \in Level : m # l => queues'[m] = queues[m]
    <3>1. queues[l] \in Seq(Jobs) /\ queues'[l] = Append(queues[l], j)
      BY <1>a, <2>1 DEF TypeOK
    <3> QED
      BY <1>a, <2>1, <3>1, AppendProperties, LenProperties DEF TypeOK
  <2> HIDE DEF l, j
  <2>6. ASSUME NEW m \in Level, NEW i \in 1 .. Len(queues'[m])
        PROVE  \/ m = l /\ i = Len(queues[l]) + 1 /\ queues'[m][i] = j
               \/ i \in 1 .. Len(queues[m]) /\ queues'[m][i] = queues[m][i]
    BY <2>5
  <2>7. InHands'
    BY <1>a, <2>1, <2>2 DEF InHands, TypeOK
  <2>8. OfferedOnce'
    BY <1>a, <2>1, <2>2, NoJobAssumption DEF OfferedOnce, TypeOK
  <2>9. HeldOnce'
    BY <1>a, <2>1 DEF HeldOnce
  <2>10. QueuedOnce'
    <3> SUFFICES ASSUME NEW m \in Level, NEW i \in 1 .. Len(queues'[m])
                 PROVE  /\ queues'[m][i] \notin fresh'
                        /\ \A q \in Pushers : offer'[q] # queues'[m][i]
                        /\ \A w \in Workers : job'[w] # queues'[m][i]
                        /\ \A n \in Level : \A k \in 1 .. Len(queues'[n]) :
                             queues'[n][k] = queues'[m][i] => n = m /\ k = i
      BY DEF QueuedOnce
    <3>1. queues'[m][i] \in Jobs /\ queues'[m][i] # NoJob
      BY <1>a, <2>1, <2>6, ElementOfSeq, NoJobAssumption DEF TypeOK
    <3>2. queues'[m][i] \notin fresh' /\ \A w \in Workers : job'[w] # queues'[m][i]
      BY <1>a, <2>1, <2>3, <2>6 DEF QueuedOnce
    <3>3. ASSUME NEW n \in Level, NEW k \in 1 .. Len(queues'[n]), queues'[n][k] = queues'[m][i]
          PROVE  n = m /\ k = i
      BY <1>a, <2>4, <2>6, <3>3 DEF QueuedOnce
    <3> QED
      BY <2>2, <3>1, <3>2, <3>3
  <2> QED
    BY <2>7, <2>8, <2>9, <2>10 DEF JobsOnce
<1>3. ASSUME NEW p \in Pushers, PushSaturated(p) PROVE JobsOnce'
  <2>1. /\ offer' = [offer EXCEPT ![p] = NoJob]
        /\ pushing' = [pushing EXCEPT ![p] = "unlock"]
        /\ UNCHANGED <<queues, fresh, at, job>> /\ pushing[p] = "push"
    BY <1>3 DEF PushSaturated, queueVars, workerVars
  <2>2. \A q \in Pushers : offer'[q] = NoJob
    BY <1>a, <2>1, OneOffer DEF TypeOK
  <2>3. InHands'
    BY <1>a, <2>1, <2>2 DEF InHands, TypeOK
  <2>4. OfferedOnce'
    BY <1>a, <2>1, <2>2, NoJobAssumption DEF OfferedOnce, TypeOK
  <2>5. HeldOnce'
    BY <1>a, <2>1 DEF HeldOnce
  <2>6. QueuedOnce'
    <3>1. \A m \in Level : \A i \in 1 .. Len(queues[m]) : queues[m][i] # NoJob
      BY <1>a, ElementOfSeq, NoJobAssumption DEF TypeOK
    <3> QED
      BY <1>a, <2>1, <2>2, <3>1 DEF QueuedOnce
  <2> QED
    BY <2>3, <2>4, <2>5, <2>6 DEF JobsOnce
<1>4. ASSUME NEW p \in Pushers, PushCount(p) \/ PushUnlock(p) PROVE JobsOnce'
  BY <1>4, <1>a, <1>b DEF PushCount, PushUnlock, TypeOK, queueVars, workerVars, jobVars
<1>5. ASSUME NEW p \in Pushers, Notify(p) PROVE JobsOnce'
  <2>1. /\ UNCHANGED <<queues, fresh, offer, job>>
        /\ \A q \in Pushers : pushing[q] = "push" => pushing'[q] = "push"
    BY <1>5, <1>a DEF Notify, TypeOK, queueVars, jobVars
  <2>2. \A w \in Workers : at[w] = "work" => at'[w] = "work"
    BY <1>5, <1>a DEF Notify, Waiting, TypeOK
  <2> QED
    BY <1>b, <2>1, <2>2
<1>6. ASSUME NEW w \in Workers, Stop(w) \/ Continue(w) PROVE JobsOnce'
  BY <1>6, <1>c DEF Stop, Continue, queueVars, pusherVars, jobVars
<1>7. ASSUME NEW w \in Workers, Lock(w) PROVE JobsOnce'
  BY <1>7, <1>c DEF Lock, Relocked, queueVars, pusherVars, jobVars
<1>8. ASSUME NEW w \in Workers, HasJob(w) \/ Wait(w) \/ GiveUp(w) PROVE JobsOnce'
  BY <1>8, <1>c DEF HasJob, Wait, GiveUp, queueVars, pusherVars, jobVars
<1>9. ASSUME NEW w \in Workers, Select(w) PROVE JobsOnce'
  BY <1>9, <1>c DEF Select, pusherVars, jobVars
<1>10. ASSUME NEW w \in Workers, Take(w) PROVE JobsOnce'
  <2>1. PICK l \in Level : /\ Highest(l)
                           /\ job' = [job EXCEPT ![w] = Head(queues[l])]
                           /\ queues' = [queues EXCEPT ![l] = Tail(@)]
    BY <1>10 DEF Take
  <2> DEFINE j == Head(queues[l])
  <2>2. /\ queues[l] \in Seq(Jobs) /\ queues[l] # <<>> /\ Len(queues[l]) \in Nat
        /\ j = queues[l][1] /\ 1 \in 1 .. Len(queues[l]) /\ j \in Jobs
        /\ Len(queues'[l]) = Len(queues[l]) - 1
        /\ \A k \in 1 .. Len(queues'[l]) : queues'[l][k] = queues[l][k + 1]
        /\ \A m \in Level : m # l => queues'[m] = queues[m]
    <3>1. queues[l] \in Seq(Jobs) /\ queues[l] # <<>> /\ queues'[l] = Tail(queues[l])
      BY <1>a, <2>1 DEF TypeOK, Highest, NonEmpty
    <3>2. Len(queues[l]) \in Nat \ {0}
      BY <3>1, EmptySeq
    <3> QED
      BY <1>a, <2>1, <3>1, <3>2, HeadTailProperties DEF TypeOK
  <2> HIDE DEF j
  <2>3. /\ UNCHANGED <<fresh, offer, pushing>>
        /\ at' = [at EXCEPT ![w] = "work"] /\ at[w] = "take"
        /\ \A v \in Workers : job'[v] = IF v = w THEN j ELSE job[v]
    BY <1>10, <1>a, <2>1 DEF Take, TypeOK, pusherVars, jobVars, j
  <2>4. /\ j \notin fresh /\ \A p \in Pushers : offer[p] # j
        /\ \A v \in Workers : job[v] # j
    BY <1>a, <2>2 DEF QueuedOnce
  <2>5. ASSUME NEW m \in Level, NEW i \in 1 .. Len(queues'[m])
        PROVE  \/ m = l /\ i + 1 \in 2 .. Len(queues[l]) /\ queues'[m][i] = queues[l][i + 1]
               \/ m # l /\ i \in 1 .. Len(queues[m]) /\ queues'[m][i] = queues[m][i]
    BY <2>2
  <2>6. InHands'
    BY <1>a, <2>3 DEF InHands, TypeOK
  <2>7. OfferedOnce'
    BY <1>a, <2>3, <2>4 DEF OfferedOnce
  <2>8. HeldOnce'
    BY <1>a, <2>3, <2>4 DEF HeldOnce
  <2>9. QueuedOnce'
    <3> SUFFICES ASSUME NEW m \in Level, NEW i \in 1 .. Len(queues'[m])
                 PROVE  /\ queues'[m][i] \notin fresh'
                        /\ \A q \in Pushers : offer'[q] # queues'[m][i]
                        /\ \A v \in Workers : job'[v] # queues'[m][i]
                        /\ \A n \in Level : \A k \in 1 .. Len(queues'[n]) :
                             queues'[n][k] = queues'[m][i] => n = m /\ k = i
      BY DEF QueuedOnce
    <3>1. PICK i0 \in 1 .. Len(queues[m]) : /\ queues'[m][i] = queues[m][i0]
                                            /\ i0 = IF m = l THEN i + 1 ELSE i
                                            /\ m = l => i0 # 1
      BY <2>2, <2>5
    <3>2. queues'[m][i] # j
      BY <1>a, <2>2, <3>1 DEF QueuedOnce
    <3>3. ASSUME NEW n \in Level, NEW k \in 1 .. Len(queues'[n]), queues'[n][k] = queues'[m][i]
          PROVE  n = m /\ k = i
      <4>1. PICK k0 \in 1 .. Len(queues[n]) : /\ queues'[n][k] = queues[n][k0]
                                              /\ k0 = IF n = l THEN k + 1 ELSE k
        BY <2>2, <2>5
      <4>2. n = m /\ k0 = i0
        BY <1>a, <3>1, <3>3, <4>1 DEF QueuedOnce
      <4> QED
        BY <3>1, <4>1, <4>2
    <3> QED
      BY <1>a, <2>3, <3>1, <3>2, <3>3 DEF QueuedOnce
  <2> QED
    BY <2>6, <2>7, <2>8, <2>9 DEF JobsOnce
<1>11. ASSUME NEW w \in Workers, Work(w) PROVE JobsOnce'
  <2>1. /\ UNCHANGED <<queues, fresh, offer, pushing>>
        /\ at' = [at EXCEPT ![w] = "top"]
        /\ \A v \in Workers : job'[v] = IF v = w THEN NoJob ELSE job[v]
    BY <1>11, <1>a DEF Work, TypeOK, queueVars, pusherVars
  <2>2. InHands'
    BY <1>a, <2>1 DEF InHands, TypeOK
  <2>3. OfferedOnce'
    BY <1>a, <2>1 DEF OfferedOnce
  <2>4. HeldOnce'
    BY <1>a, <2>1, NoJobAssumption DEF HeldOnce, TypeOK
  <2>5. QueuedOnce'
    <3>1. \A m \in Level : \A i \in 1 .. Len(queues[m]) : queues[m][i] # NoJob
      BY <1>a, ElementOfSeq, NoJobAssumption DEF TypeOK
    <3> QED
      BY <1>a, <2>1, <3>1 DEF QueuedOnce
  <2> QED
    BY <2>2, <2>3, <2>4, <2>5 DEF JobsOnce
<1>12. ASSUME NEW w \in Workers, SpuriousWakeup(w) \/ Timeout(w) PROVE JobsOnce'
  BY <1>12, <1>c DEF SpuriousWakeup, Timeout, queueVars, pusherVars, jobVars
<1>13. CASE Create
  BY <1>13, <1>a, <1>b DEF Create, InHand, queueVars, pusherVars, jobVars
<1>14. CASE Destroy
  BY <1>14, <1>b DEF Destroy, queueVars, workerVars, pusherVars, jobVars
<1>15. CASE Join
  BY <1>15, <1>a, <1>b DEF Join, queueVars, pusherVars, jobVars
<1>16. CASE UNCHANGED vars
  BY <1>16, <1>b DEF vars
<1> QED
  BY <1>1, <1>2, <1>3, <1>4, <1>5, <1>6, <1>7, <1>8, <1>9, <1>10, <1>11, <1>12, <1>13, <1>14,
     <1>15, <1>16 DEF Next, PusherStep, WorkerStep, Ended

-----------------------------------------------------------------------------
(* The jobs in the hands of the pushers, and those in the workers' hands. *)
Offered == {offer[p] : p \in Pushers} \ {NoJob}
Held == {job[w] : w \in Workers} \ {NoJob}

(* Every step of the threads is a step of the pool, or hidden from it. *)
LEMMA PoolStep == Inv /\ JobsOnce /\ [Next]_vars => [Pool!PoolNext]_(Pool!poolVars)
<1> SUFFICES ASSUME Inv, JobsOnce, [Next]_vars
             PROVE  [Pool!PoolNext]_(Pool!poolVars)
  OBVIOUS
<1>a. TypeOK /\ MutexOK /\ InHand /\ InHands /\ OfferedOnce /\ HeldOnce /\ QueuedOnce
  BY DEF Inv, JobsOnce
<1>b. ASSUME UNCHANGED <<queues, offer, job, fresh, refused, done>>
      PROVE  UNCHANGED Pool!poolVars
  BY <1>b DEF Pool!poolVars
<1>1. ASSUME NEW p \in Pushers, PushLock(p) PROVE UNCHANGED Pool!poolVars
  <2>1. PICK j \in fresh : /\ offer' = [offer EXCEPT ![p] = j]
                           /\ fresh' = fresh \ {j}
    BY <1>1 DEF PushLock
  <2>2. j # NoJob /\ offer[p] = NoJob
    BY <1>1, <1>a, NoJobAssumption DEF PushLock, TypeOK, InHands
  <2>3. Offered' = Offered \cup {j}
    BY <1>a, <2>1, <2>2 DEF Offered, TypeOK
  <2>4. (fresh \cup Offered)' = fresh \cup Offered
    BY <2>1, <2>3
  <2> QED
    BY <1>1, <2>4 DEF PushLock, Pool!poolVars, Offered, queueVars, workerVars
<1>2. ASSUME NEW p \in Pushers, PushEnqueue(p)
      PROVE  Pool!PoolNext
  <2>1. offer[p] \in Jobs /\ offer[p] # NoJob /\ offer[p] \notin fresh
    BY <1>2, <1>a, NoJobAssumption DEF PushEnqueue, InHand, OfferedOnce
  <2>2. Offered = {offer[p]} /\ Offered' = {}
    BY <1>2, <1>a, <2>1, OneOffer DEF PushEnqueue, Offered, TypeOK
  <2>3. offer[p] \in fresh \cup Offered /\ (fresh \cup Offered)' = (fresh \cup Offered) \ {offer[p]}
    BY <1>2, <2>1, <2>2 DEF PushEnqueue, jobVars
  <2>4. PICK j \in Jobs : j = offer[p]
    BY <2>1
  <2>5. Pool!Submit(j)
    BY <1>2, <2>1, <2>3, <2>4 DEF PushEnqueue, Pool!Submit, Offered, workerVars, jobVars
  <2> QED
    BY <2>5 DEF Pool!PoolNext
<1>3. ASSUME NEW p \in Pushers, PushSaturated(p)
      PROVE  Pool!PoolNext
  <2>1. offer[p] \in Jobs /\ offer[p] # NoJob /\ offer[p] \notin fresh
    BY <1>3, <1>a, NoJobAssumption DEF PushSaturated, InHand, OfferedOnce
  <2>2. Offered = {offer[p]} /\ Offered' = {}
    BY <1>3, <1>a, <2>1, OneOffer DEF PushSaturated, Offered, TypeOK
  <2>3. offer[p] \in fresh \cup Offered /\ (fresh \cup Offered)' = (fresh \cup Offered) \ {offer[p]}
    BY <1>3, <2>1, <2>2 DEF PushSaturated
  <2>4. PICK j \in Jobs : j = offer[p]
    BY <2>1
  <2>5. Pool!Refuse(j)
    BY <1>3, <2>1, <2>3, <2>4 DEF PushSaturated, Pool!Refuse, Offered, queueVars, workerVars
  <2> QED
    BY <2>5 DEF Pool!PoolNext
<1>4. ASSUME NEW p \in Pushers, PushCount(p) \/ PushUnlock(p) \/ Notify(p)
      PROVE  UNCHANGED Pool!poolVars
  BY <1>4, <1>b DEF PushCount, PushUnlock, Notify, queueVars, workerVars, jobVars
<1>5. ASSUME NEW w \in Workers,
             \/ Stop(w) \/ Continue(w) \/ Lock(w) \/ HasJob(w) \/ Wait(w) \/ GiveUp(w)
             \/ Select(w) \/ SpuriousWakeup(w) \/ Timeout(w)
      PROVE  UNCHANGED Pool!poolVars
  BY <1>5, <1>b DEF Stop, Continue, Lock, HasJob, Wait, GiveUp, Select, SpuriousWakeup, Timeout,
     queueVars, pusherVars, jobVars
<1>6. ASSUME NEW w \in Workers, Take(w) PROVE Pool!PoolNext
  <2>1. PICK l \in Level : /\ Highest(l)
                           /\ job' = [job EXCEPT ![w] = Head(queues[l])]
                           /\ queues' = [queues EXCEPT ![l] = Tail(@)]
    BY <1>6 DEF Take
  <2>2. queues[l] # <<>> /\ queues[l] \in Seq(Jobs) /\ Head(queues[l]) # NoJob
    BY <1>a, <2>1, HeadTailProperties, NoJobAssumption DEF Highest, NonEmpty, TypeOK
  <2>3. \A m \in Level : m > l => queues[m] = <<>>
    BY <2>1 DEF Highest, NonEmpty, Level
  <2>4. job[w] = NoJob
    BY <1>6, <1>a DEF Take, InHands
  <2>5. Held' = Held \cup {Head(queues[l])}
    BY <1>a, <2>1, <2>2, <2>4 DEF Held, TypeOK
  <2>6. UNCHANGED <<offer, fresh, refused, done>>
    BY <1>6 DEF Take, pusherVars, jobVars
  <2>7. Pool!Take(l)
    BY <2>1, <2>2, <2>3, <2>5, <2>6 DEF Pool!Take, Pool!Level, Level, Held
  <2> QED
    BY <2>7 DEF Pool!PoolNext, Pool!Level, Level
<1>7. ASSUME NEW w \in Workers, Work(w) PROVE Pool!PoolNext
  <2>1. job[w] \in Jobs /\ job[w] # NoJob
    BY <1>7, <1>a, NoJobAssumption DEF Work, InHand
  <2>2. job[w] \in Held
    BY <2>1 DEF Held
  <2>3. Held' = Held \ {job[w]}
    BY <1>7, <1>a, <2>1 DEF Work, Held, HeldOnce, TypeOK
  <2>4. PICK j \in Jobs : j = job[w]
    BY <2>1
  <2>5. Pool!Finish(j)
    BY <1>7, <2>1, <2>2, <2>3, <2>4 DEF Work, Pool!Finish, Held, queueVars, pusherVars
  <2> QED
    BY <2>5 DEF Pool!PoolNext
<1>8. CASE Create \/ Destroy \/ Join
  BY <1>8, <1>b DEF Create, Destroy, Join, queueVars, workerVars, pusherVars, jobVars
<1>9. CASE UNCHANGED vars
  BY <1>9, <1>b DEF vars
<1>10. ASSUME NEW p \in Pushers, PusherStep(p)
       PROVE  Pool!PoolNext \/ UNCHANGED Pool!poolVars
  BY <1>1, <1>2, <1>3, <1>4, <1>10 DEF PusherStep
<1>11. ASSUME NEW w \in Workers, WorkerStep(w) \/ SpuriousWakeup(w) \/ Timeout(w)
       PROVE  Pool!PoolNext \/ UNCHANGED Pool!poolVars
  BY <1>5, <1>6, <1>7, <1>11 DEF WorkerStep
<1> QED
  BY <1>8, <1>9, <1>10, <1>11 DEF Next, Ended

(* The mutex, the condition variable and the counter together give what a   *)
(* job pool promises: a push is refused only when its level is full, and an *)
(* accepted job is run once, the oldest of the highest priority first, for  *)
(* any threads, jobs, priorities and queue size.                            *)
THEOREM SpecImplementsJobPool == Spec => ImplementsJobPool
<1>1. Init => Pool!PoolInit
  <2> SUFFICES ASSUME Init PROVE Pool!PoolInit
    OBVIOUS
  <2>1. Offered = {} /\ Held = {}
    BY DEF Init, Offered, Held
  <2> QED
    BY <2>1 DEF Init, Pool!PoolInit, Pool!Level, Level, Offered, Held
<1>2. Inv /\ JobsOnce /\ [Next]_vars => (Inv /\ JobsOnce)'
  BY InvNext, JobsOnceNext
<1> QED
  BY <1>1, <1>2, InvInit, JobsOnceInit, PoolStep, PTL DEF Spec, ImplementsJobPool, Pool!PoolSpec
=============================================================================

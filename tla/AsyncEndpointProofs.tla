------------------------ MODULE AsyncEndpointProofs ------------------------
(***************************************************************************)
(* Proofs about AsyncEndpoint for any workers, requests, numbers of awaits,*)
(* queue size and contents of the uninitialised flag.  IInv says what the  *)
(* session of a request looks like in each place the request can be; the   *)
(* places exclude each other because their sessions differ.                *)
(***************************************************************************)
EXTENDS AsyncEndpoint, Integers, SequenceLemmas

-----------------------------------------------------------------------------
(* What a session looks like, place by place *)

(* The endpoint's coroutine is suspended at one of its awaits, its promise   *)
(* holds what it started with, and nothing was answered.                     *)
Paused(s, r) ==
  /\ s.frame = "suspended" /\ s.awaited \in 1 .. Awaits[r]
  /\ s.promiseDone = TRUE => TRUE \in FreshBool[r]
  /\ s.response = "none"

(* The process of its await has completed, or not yet. *)
Asleep(s, r) ==
  Paused(s, r) /\ s.wrapper = "suspended" /\ ~s.callback /\ ~s.taskDone
Awaiting(s, r) == Asleep(s, r) /\ s.handle /\ s.value = 0
Awoken(s, r) == Asleep(s, r) /\ s.handle /\ s.value = s.awaited

(* The wrapper is at the test of its loop: the endpoint has either stopped   *)
(* at an await that nobody has started yet, or it has returned.  The task is *)
(* done only after a resumption.                                             *)
Looping(s, r) ==
  /\ s.wrapper = "running" /\ s.process = "none" /\ s.response = "none"
  /\ s.value = 0
  /\ \/ Paused(s, r) /\ s.callback /\ ~s.handle /\ (s.taskDone => s.awaited > 1)
     \/ /\ s.frame = "final" /\ ~s.callback /\ s.awaited = Awaits[r]
        /\ s.taskDone <=> Awaits[r] > 0
  /\ s.taskDone => s.promiseDone

(* The session of the request that a worker at a drives. *)
Driven(a, s, r) ==
  /\ a = "loop" => Looping(s, r)
  /\ a = "crashed" => Looping(s, r) /\ s.frame = "final" /\ ~s.taskDone
  /\ a = "setHandle" =>
       Asleep(s, r) /\ s.process = "none" /\ ~s.handle /\ s.value = 0
  /\ a = "launch" => Awaiting(s, r) /\ s.process = "none"
  /\ a = "resume" =>
       /\ Paused(s, r) /\ s.wrapper = "running" /\ s.process = "over"
       /\ ~s.callback /\ ~s.taskDone /\ s.handle /\ s.value = s.awaited

Driving == {"loop", "setHandle", "launch", "resume", "crashed"}

(* The session of a request that nobody drives. *)
Left(s, r) ==
  /\ s.wrapper = "none" => s = NoSession
  /\ s.process = "running" => Awaiting(s, r)
  /\ s.process = "completing" => Awoken(s, r)

WorkersOK ==
  \A w \in Workers :
    /\ at[w] # "idle" => job[w] \in Requests
    /\ at[w] \in Driving => Driven(at[w], session[job[w]], job[w])
    /\ \A v \in Workers :
         v # w /\ at[v] \in Driving /\ at[w] \in Driving => job[v] # job[w]

QueuesOK ==
  /\ Distinct(incoming) /\ Distinct(resuming)
  /\ \A r \in Requests :
       /\ IsIn(r, incoming) => session[r].wrapper = "none"
       /\ IsIn(r, resuming) => Awoken(session[r], r) /\ session[r].process = "over"

IInv ==
  /\ TypeOK /\ WorkersOK /\ QueuesOK
  /\ \A r \in Requests : Left(session[r], r)

(* The number of awaits of an endpoint is a natural number. *)
LEMMA AwaitsNat == \A r \in Requests : Awaits[r] \in Nat
BY AwaitsAssumption

(* Running the endpoint ends at its next await, or at its end. *)
LEMMA RunEndpointSession ==
  ASSUME NEW s \in Session, NEW r \in Requests, s.awaited <= Awaits[r]
  PROVE  LET t == RunEndpoint(s, r) IN
         /\ t \in Session /\ t.awaited <= Awaits[r]
         /\ t.wrapper = s.wrapper /\ t.taskDone = s.taskDone /\ t.response = s.response
         /\ t.process = "none" /\ ~t.handle /\ t.value = 0
         /\ IF s.awaited < Awaits[r]
            THEN /\ t.frame = "suspended" /\ t.awaited = s.awaited + 1
                 /\ t.promiseDone = s.promiseDone /\ t.callback
            ELSE /\ t.frame = "final" /\ t.awaited = s.awaited
                 /\ t.promiseDone /\ ~t.callback
<1>1. Awaits[r] \in Nat /\ s.awaited \in Nat
  BY AwaitsNat DEF Session
<1>2. CASE s.awaited < Awaits[r]
  <2> DEFINE t == RunEndpoint(s, r)
  <2>1. t = [s EXCEPT !.frame = "suspended", !.awaited = s.awaited + 1, !.process = "none",
                      !.callback = TRUE, !.handle = FALSE, !.value = 0]
    BY <1>2 DEF RunEndpoint
  <2>2. /\ s.awaited + 1 \in Nat /\ s.awaited + 1 <= Awaits[r]
        /\ "suspended" \in {"none", "suspended", "final", "destroyed"}
        /\ "none" \in {"none", "running", "completing", "over"}
    BY <1>1, <1>2
  <2>3. t \in Session
    <3>1. /\ s.wrapper \in {"none", "running", "suspended", "ended"}
          /\ s.promiseDone \in BOOLEAN /\ s.taskDone \in BOOLEAN
          /\ s.response \in {"none", "final", "early"}
      BY DEF Session
    <3>2. t = [wrapper |-> s.wrapper, frame |-> "suspended", awaited |-> s.awaited + 1,
               promiseDone |-> s.promiseDone, taskDone |-> s.taskDone, callback |-> TRUE,
               handle |-> FALSE, value |-> 0, process |-> "none", response |-> s.response]
      BY <2>1 DEF Session
    <3> QED
      BY <2>2, <3>1, <3>2 DEF Session
  <2>4. /\ t.wrapper = s.wrapper /\ t.taskDone = s.taskDone /\ t.response = s.response
        /\ t.process = "none" /\ t.handle = FALSE /\ t.value = 0
        /\ t.frame = "suspended" /\ t.awaited = s.awaited + 1
        /\ t.promiseDone = s.promiseDone /\ t.callback = TRUE
    BY <2>1 DEF Session
  <2> QED
    BY <1>2, <2>2, <2>3, <2>4
<1>3. CASE ~ s.awaited < Awaits[r]
  BY <1>1, <1>3 DEF RunEndpoint, Session
<1> QED
  BY <1>2, <1>3

-----------------------------------------------------------------------------
(* Nobody drives anything and nothing is queued at first. *)
LEMMA IInvInit == Init => IInv
<1> SUFFICES ASSUME Init PROVE IInv
  OBVIOUS
<1>1. NoSession \in Session
  BY DEF NoSession, Session
<1>2. TypeOK
  BY <1>1, EmptySeq, QueueSizeAssumption, AwaitsNat DEF Init, TypeOK, NoSession
<1>3. \A r \in Requests : ~IsIn(r, incoming) /\ ~IsIn(r, resuming)
  BY EmptySeq DEF Init, IsIn
<1>4. Distinct(incoming) /\ Distinct(resuming)
  BY EmptySeq DEF Init, Distinct
<1>5. WorkersOK
  BY DEF Init, WorkersOK, Driving
<1>6. \A r \in Requests : Left(session[r], r)
  BY DEF Init, Left, NoSession
<1> QED
  BY <1>2, <1>3, <1>4, <1>5, <1>6 DEF IInv, QueuesOK

(* A request that a worker drives is in no queue. *)
LEMMA DrivenIsOut ==
  ASSUME IInv, NEW w \in Workers, at[w] \in Driving
  PROVE  /\ job[w] \in Requests /\ session[job[w]] \in Session
         /\ session[job[w]].awaited <= Awaits[job[w]]
         /\ Driven(at[w], session[job[w]], job[w])
         /\ ~IsIn(job[w], incoming) /\ ~IsIn(job[w], resuming)
<1>1. job[w] \in Requests /\ Driven(at[w], session[job[w]], job[w])
  BY DEF IInv, WorkersOK, Driving
<1>2. session[job[w]].wrapper # "none"
  BY <1>1 DEF Driven, Driving, Looping, Asleep, Awaiting
<1>3. ~(Awoken(session[job[w]], job[w]) /\ session[job[w]].process = "over")
  BY <1>1 DEF Driven, Driving, Looping, Asleep, Awaiting, Awoken
<1> QED
  BY <1>1, <1>2, <1>3 DEF IInv, QueuesOK, TypeOK

(* A step of the worker that drives a request disturbs nothing else. *)
LEMMA DriverStep ==
  ASSUME IInv, NEW w \in Workers, at[w] \in Driving, NEW r, r = job[w],
         NEW a \in Driving \cup {"launched", "idle"}, NEW s \in Session,
         at' = [at EXCEPT ![w] = a],
         session' = [session EXCEPT ![r] = s],
         job' = IF a = "idle" THEN [job EXCEPT ![w] = NoRequest] ELSE job,
         UNCHANGED <<incoming, resuming>>,
         s.awaited <= Awaits[r], Left(s, r), a \in Driving => Driven(a, s, r)
  PROVE  IInv'
<1>1. r \in Requests /\ ~IsIn(r, incoming) /\ ~IsIn(r, resuming)
  BY DrivenIsOut
<1>2. /\ \A q \in Requests : session'[q] = IF q = r THEN s ELSE session[q]
      /\ \A v \in Workers : at'[v] = IF v = w THEN a ELSE at[v]
      /\ \A v \in Workers : v # w => job'[v] = job[v]
      /\ a # "idle" => job'[w] = r
  BY <1>1 DEF IInv, TypeOK
<1>3. TypeOK'
  <2>1. session' \in [Requests -> Session]
    BY DEF IInv, TypeOK
  <2>2. at' \in [Workers -> {"idle", "loop", "setHandle", "launch", "launched", "resume", "crashed"}]
    BY DEF IInv, TypeOK, Driving
  <2>3. job' \in [Workers -> Requests \cup {NoRequest}]
    BY DEF IInv, TypeOK
  <2>4. \A q \in Requests : session'[q].awaited <= Awaits[q]
    BY <1>2 DEF IInv, TypeOK
  <2> QED
    BY <2>1, <2>2, <2>3, <2>4 DEF IInv, TypeOK
<1>4. WorkersOK'
  <2> SUFFICES ASSUME NEW v \in Workers
               PROVE  /\ at'[v] # "idle" => job'[v] \in Requests
                      /\ at'[v] \in Driving => Driven(at'[v], session'[job'[v]], job'[v])
                      /\ \A u \in Workers :
                           u # v /\ at'[u] \in Driving /\ at'[v] \in Driving => job'[u] # job'[v]
    BY DEF WorkersOK
  <2>0. "idle" \notin Driving
    BY DEF Driving
  <2>1. at'[v] # "idle" => job'[v] \in Requests
    BY <1>1, <1>2 DEF IInv, WorkersOK
  <2>2. ASSUME at'[v] \in Driving PROVE Driven(at'[v], session'[job'[v]], job'[v])
    <3>1. CASE v = w
      BY <1>1, <1>2, <2>0, <2>2, <3>1
    <3>2. CASE v # w
      <4>1. at[v] \in Driving /\ at'[v] = at[v] /\ job'[v] = job[v]
        BY <1>2, <2>2, <3>2
      <4>2. job[v] # r /\ job[v] \in Requests /\ Driven(at[v], session[job[v]], job[v])
        BY <2>0, <3>2, <4>1 DEF IInv, WorkersOK
      <4>3. session'[job[v]] = session[job[v]]
        BY <1>2, <4>2
      <4> QED
        BY <4>1, <4>2, <4>3
    <3> QED
      BY <3>1, <3>2
  <2>3. ASSUME NEW u \in Workers, u # v, at'[u] \in Driving, at'[v] \in Driving
        PROVE  job'[u] # job'[v]
    <3>1. CASE u = w
      BY <1>2, <2>0, <2>3, <3>1 DEF IInv, WorkersOK
    <3>2. CASE v = w
      BY <1>2, <2>0, <2>3, <3>2 DEF IInv, WorkersOK
    <3>3. CASE u # w /\ v # w
      BY <1>2, <2>3, <3>3 DEF IInv, WorkersOK
    <3> QED
      BY <3>1, <3>2, <3>3
  <2> QED
    BY <2>1, <2>2, <2>3
<1>5. QueuesOK'
  BY <1>1, <1>2 DEF IInv, QueuesOK
<1>6. \A q \in Requests : Left(session'[q], q)
  BY <1>2 DEF IInv
<1> QED
  BY <1>3, <1>4, <1>5, <1>6 DEF IInv

(* A process that goes on disturbs nothing but its own request's session. *)
LEMMA ProcessMoves ==
  ASSUME IInv, NEW r \in Requests, NEW s \in Session,
         session[r].process \in {"running", "completing"},
         session' = [session EXCEPT ![r] = s], UNCHANGED <<incoming, at, job>>,
         resuming' = resuming \/ /\ resuming' = Append(resuming, r)
                                 /\ Len(resuming) < QueueSize
                                 /\ Awoken(s, r) /\ s.process = "over",
         s.awaited <= Awaits[r], Left(s, r)
  PROVE  IInv'
<1>1. Asleep(session[r], r)
  BY DEF IInv, Left, Awaiting, Awoken
<1>2. ~IsIn(r, incoming) /\ ~IsIn(r, resuming)
  BY <1>1 DEF IInv, QueuesOK, Asleep
<1>3. \A w \in Workers : at[w] \in Driving => job[w] # r
  <2> SUFFICES ASSUME NEW w \in Workers, at[w] \in Driving, job[w] = r PROVE FALSE
    OBVIOUS
  <2>1. Driven(at[w], session[r], r)
    BY DrivenIsOut
  <2> QED
    BY <1>1, <2>1 DEF Driven, Driving, Looping, Asleep
<1>4. \A q \in Requests : session'[q] = IF q = r THEN s ELSE session[q]
  BY DEF IInv, TypeOK
<1>5. /\ resuming' \in Seq(Requests) /\ Len(resuming') <= QueueSize /\ Distinct(resuming')
      /\ \A q \in Requests : IsIn(q, resuming') =>
           \/ IsIn(q, resuming)
           \/ q = r /\ Awoken(s, r) /\ s.process = "over"
  <2>1. CASE resuming' = resuming
    BY <2>1 DEF IInv, TypeOK, QueuesOK
  <2>2. CASE resuming' # resuming
    <3>1. resuming \in Seq(Requests) /\ Distinct(resuming) /\ Len(resuming) \in Nat
      BY LenProperties DEF IInv, TypeOK, QueuesOK
    <3>2. /\ resuming' = Append(resuming, r) /\ Len(resuming) < QueueSize
          /\ Awoken(s, r) /\ s.process = "over"
      BY <2>2
    <3>3. /\ resuming' \in Seq(Requests) /\ Len(resuming') = Len(resuming) + 1
          /\ \A x : IsIn(x, resuming') <=> IsIn(x, resuming) \/ x = r
          /\ Distinct(resuming')
      BY <1>2, <3>1, <3>2, AppendIsIn
    <3>4. Len(resuming') <= QueueSize
      BY <3>1, <3>2, <3>3, QueueSizeAssumption
    <3> QED
      BY <3>2, <3>3, <3>4
  <2> QED
    BY <2>1, <2>2
<1>6. TypeOK'
  BY <1>4, <1>5 DEF IInv, TypeOK
<1>7. WorkersOK'
  BY <1>3, <1>4 DEF IInv, WorkersOK, Driving
<1>8. QueuesOK'
  BY <1>2, <1>4, <1>5 DEF IInv, QueuesOK
<1>9. \A q \in Requests : Left(session'[q], q)
  BY <1>4 DEF IInv
<1> QED
  BY <1>6, <1>7, <1>8, <1>9 DEF IInv

(* A worker that takes a job starts to drive a request that nobody drove. *)
LEMMA WorkerStarts ==
  ASSUME IInv, NEW w \in Workers, at[w] = "idle",
         NEW r \in Requests, NEW a \in Driving, NEW s \in Session,
         at' = [at EXCEPT ![w] = a], job' = [job EXCEPT ![w] = r],
         session' = [session EXCEPT ![r] = s],
         IsIn(r, incoming) \/ IsIn(r, resuming),
         incoming' \in Seq(Requests), resuming' \in Seq(Requests),
         Len(incoming') <= QueueSize, Len(resuming') <= QueueSize,
         Distinct(incoming'), Distinct(resuming'),
         \A q : IsIn(q, incoming') => IsIn(q, incoming),
         \A q : IsIn(q, resuming') => IsIn(q, resuming),
         ~IsIn(r, incoming'), ~IsIn(r, resuming'),
         s.awaited <= Awaits[r], Left(s, r), Driven(a, s, r)
  PROVE  IInv'
<1>1. /\ \A q \in Requests : session'[q] = IF q = r THEN s ELSE session[q]
      /\ \A v \in Workers : at'[v] = IF v = w THEN a ELSE at[v]
      /\ \A v \in Workers : job'[v] = IF v = w THEN r ELSE job[v]
  BY DEF IInv, TypeOK
<1>2. \A v \in Workers : at[v] \in Driving => job[v] # r
  BY DrivenIsOut
<1>3. TypeOK'
  <2>1. at' \in [Workers -> {"idle", "loop", "setHandle", "launch", "launched", "resume", "crashed"}]
    BY DEF IInv, TypeOK, Driving
  <2>2. job' \in [Workers -> Requests \cup {NoRequest}]
    BY DEF IInv, TypeOK
  <2>3. session' \in [Requests -> Session]
    BY DEF IInv, TypeOK
  <2>4. \A q \in Requests : session'[q].awaited <= Awaits[q]
    BY <1>1 DEF IInv, TypeOK
  <2> QED
    BY <2>1, <2>2, <2>3, <2>4 DEF TypeOK
<1>4. WorkersOK'
  <2> SUFFICES ASSUME NEW v \in Workers
               PROVE  /\ at'[v] # "idle" => job'[v] \in Requests
                      /\ at'[v] \in Driving => Driven(at'[v], session'[job'[v]], job'[v])
                      /\ \A u \in Workers :
                           u # v /\ at'[u] \in Driving /\ at'[v] \in Driving => job'[u] # job'[v]
    BY DEF WorkersOK
  <2>1. CASE v = w
    BY <1>1, <1>2, <2>1 DEF IInv, WorkersOK
  <2>2. CASE v # w
    <3>1. at'[v] = at[v] /\ job'[v] = job[v]
      BY <1>1, <2>2
    <3>2. at[v] # "idle" => job[v] \in Requests
      BY DEF IInv, WorkersOK
    <3>3. ASSUME at[v] \in Driving
          PROVE  /\ Driven(at[v], session'[job[v]], job[v])
                 /\ \A u \in Workers : u # v /\ at'[u] \in Driving => job'[u] # job[v]
      <4>1. job[v] \in Requests /\ job[v] # r /\ Driven(at[v], session[job[v]], job[v])
        BY <1>2, <3>3, DrivenIsOut
      <4>2. session'[job[v]] = session[job[v]]
        BY <1>1, <4>1
      <4> QED
        BY <1>1, <3>3, <4>1, <4>2 DEF IInv, WorkersOK
    <3> QED
      BY <3>1, <3>2, <3>3
  <2> QED
    BY <2>1, <2>2
<1>5. QueuesOK'
  BY <1>1 DEF IInv, QueuesOK
<1>6. \A q \in Requests : Left(session'[q], q)
  BY <1>1 DEF IInv
<1> QED
  BY <1>3, <1>4, <1>5, <1>6 DEF IInv

-----------------------------------------------------------------------------
(* Every step preserves IInv: one step below for each action. *)
LEMMA IInvNext == IInv /\ [Next]_vars => IInv'
<1> SUFFICES ASSUME IInv, [Next]_vars PROVE IInv'
  OBVIOUS
<1>a. TypeOK /\ WorkersOK /\ QueuesOK /\ \A r \in Requests : Left(session[r], r)
  BY DEF IInv
<1>1. ASSUME NEW r \in Requests, Arrive(r) PROVE IInv'
  <2>1. /\ incoming' = Append(incoming, r) /\ session[r].wrapper = "none"
        /\ ~IsIn(r, incoming) /\ Len(incoming) < QueueSize
        /\ UNCHANGED <<resuming, at, job, session>>
    BY <1>1 DEF Arrive, IsIn
  <2>2. incoming \in Seq(Requests) /\ Distinct(incoming) /\ Len(incoming) \in Nat
    BY <1>a, LenProperties DEF TypeOK, QueuesOK
  <2>3. /\ incoming' \in Seq(Requests) /\ Len(incoming') <= QueueSize
        /\ Distinct(incoming')
        /\ \A q : IsIn(q, incoming') => IsIn(q, incoming) \/ q = r
    BY <2>1, <2>2, AppendIsIn, QueueSizeAssumption
  <2>4. TypeOK'
    BY <1>a, <2>1, <2>3 DEF TypeOK
  <2>5. WorkersOK' /\ \A q \in Requests : Left(session'[q], q)
    BY <1>a, <2>1 DEF WorkersOK
  <2>6. QueuesOK'
    BY <1>a, <2>1, <2>3 DEF QueuesOK
  <2> QED
    BY <2>4, <2>5, <2>6 DEF IInv
<1>2. ASSUME NEW r \in Requests, Complete(r) PROVE IInv'
  <2> DEFINE s == [[session[r] EXCEPT !.process = "completing"] EXCEPT !.value = session[r].awaited]
  <2>1. session[r] \in Session /\ session[r].awaited <= Awaits[r] /\ Awaiting(session[r], r)
    BY <1>2, <1>a DEF Complete, TypeOK, Left
  <2>2. session' = [session EXCEPT ![r] = s]
    BY <1>2, <1>a DEF Complete, TypeOK
  <2>3. s \in Session /\ s.awaited <= Awaits[r]
    BY <2>1 DEF Session
  <2>4. /\ s.process = "completing" /\ s.value = s.awaited
        /\ s.wrapper = session[r].wrapper /\ s.frame = session[r].frame
        /\ s.awaited = session[r].awaited /\ s.promiseDone = session[r].promiseDone
        /\ s.taskDone = session[r].taskDone /\ s.callback = session[r].callback
        /\ s.handle = session[r].handle /\ s.response = session[r].response
    BY <2>1 DEF Session
  <2> HIDE DEF s
  <2>5. Left(s, r)
    BY <2>1, <2>4 DEF Left, Awaiting, Awoken, Asleep, Paused
  <2> QED
    BY <1>2, <2>2, <2>3, <2>5, ProcessMoves DEF Complete
<1>3. ASSUME NEW r \in Requests, PushResuming(r) PROVE IInv'
  <2> DEFINE s == [session[r] EXCEPT !.process = "over"]
  <2>1. session[r] \in Session /\ session[r].awaited <= Awaits[r] /\ Awoken(session[r], r)
    BY <1>3, <1>a DEF PushResuming, TypeOK, Left
  <2>2. session' = [session EXCEPT ![r] = s]
    BY <1>3, <1>a DEF PushResuming, TypeOK
  <2>3. s \in Session /\ s.awaited <= Awaits[r]
    BY <2>1 DEF Session
  <2>4. /\ s.process = "over" /\ s.value = session[r].value
        /\ s.wrapper = session[r].wrapper /\ s.frame = session[r].frame
        /\ s.awaited = session[r].awaited /\ s.promiseDone = session[r].promiseDone
        /\ s.taskDone = session[r].taskDone /\ s.callback = session[r].callback
        /\ s.handle = session[r].handle /\ s.response = session[r].response
    BY <2>1 DEF Session
  <2> HIDE DEF s
  <2>5. Awoken(s, r) /\ Left(s, r)
    BY <2>1, <2>4 DEF Left, Awoken, Asleep, Paused
  <2> QED
    BY <1>3, <2>2, <2>3, <2>4, <2>5, ProcessMoves DEF PushResuming
<1>4. ASSUME NEW w \in Workers, TakeRequest(w) PROVE IInv'
  <2> DEFINE r == Head(incoming)
  <2>1. PICK fresh \in FreshBool[r] :
          session' = [session EXCEPT ![r] =
            RunEndpoint([session[r] EXCEPT !.wrapper = "running", !.promiseDone = fresh], r)]
    BY <1>4, <1>a DEF TakeRequest
  <2> DEFINE s0 == [session[r] EXCEPT !.wrapper = "running", !.promiseDone = fresh]
             s == RunEndpoint(s0, r)
  <2>2. /\ at[w] = "idle" /\ resuming = <<>> /\ incoming # <<>>
        /\ job' = [job EXCEPT ![w] = r] /\ incoming' = Tail(incoming)
        /\ at' = [at EXCEPT ![w] = "loop"] /\ UNCHANGED resuming
    BY <1>4 DEF TakeRequest
  <2>3. /\ r \in Requests /\ IsIn(r, incoming) /\ ~IsIn(r, incoming')
        /\ incoming' \in Seq(Requests) /\ Len(incoming') <= QueueSize
        /\ Distinct(incoming') /\ \A q : IsIn(q, incoming') => IsIn(q, incoming)
    <3>1. incoming \in Seq(Requests) /\ Distinct(incoming) /\ Len(incoming) <= QueueSize
      BY <1>a DEF TypeOK, QueuesOK
    <3> QED
      BY <2>2, <3>1, TailIsIn, LenProperties, QueueSizeAssumption
  <2> HIDE DEF r
  <2>4. session[r] = NoSession /\ NoSession \in Session
    BY <1>a, <2>3 DEF QueuesOK, Left, Session, NoSession
  <2>5. fresh \in BOOLEAN
    BY <2>1, <2>3, FreshBoolAssumption
  <2>6. /\ s0 \in Session /\ s0.wrapper = "running" /\ s0.promiseDone = fresh
        /\ s0.awaited = 0 /\ s0.taskDone = FALSE /\ s0.response = "none"
    <3>1. s0 = [[NoSession EXCEPT !.wrapper = "running"] EXCEPT !.promiseDone = fresh]
      BY <2>4 DEF NoSession
    <3> HIDE DEF s0
    <3>2. "running" \in {"none", "running", "suspended", "ended"}
      OBVIOUS
    <3>3. NoSession.awaited = 0 /\ NoSession.taskDone = FALSE /\ NoSession.response = "none"
      BY DEF NoSession
    <3> QED
      BY <2>4, <2>5, <3>1, <3>2, <3>3 DEF Session
  <2> HIDE DEF s0
  <2>7. 0 <= Awaits[r] /\ Awaits[r] \in Nat
    BY <2>3, AwaitsNat
  <2>8. /\ s \in Session /\ s.awaited <= Awaits[r]
        /\ s.wrapper = "running" /\ s.taskDone = FALSE /\ s.response = "none"
        /\ s.process = "none" /\ ~s.handle /\ s.value = 0
        /\ IF 0 < Awaits[r]
           THEN /\ s.frame = "suspended" /\ s.awaited = 1
                /\ s.promiseDone = fresh /\ s.callback
           ELSE /\ s.frame = "final" /\ s.awaited = 0
                /\ s.promiseDone /\ ~s.callback
    BY <2>3, <2>6, <2>7, RunEndpointSession
  <2>9. session' = [session EXCEPT ![r] = s]
    BY <2>1 DEF s0
  <2> HIDE DEF s
  <2>10. Left(s, r) /\ Driven("loop", s, r)
    <3>1. CASE 0 < Awaits[r]
      <4>1. s.promiseDone = TRUE => TRUE \in FreshBool[r]
        BY <2>1, <2>8, <3>1
      <4>2. s.frame = "suspended" /\ s.awaited = 1 /\ s.response = "none"
        BY <2>8, <3>1
      <4>3. Paused(s, r)
        <5>1. s.awaited \in 1 .. Awaits[r]
          BY <2>7, <3>1, <4>2
        <5> QED
          BY <4>1, <4>2, <5>1, Zenon DEF Paused
      <4> QED
        BY <2>8, <3>1, <4>3 DEF Left, Driven, Looping
    <3>2. CASE ~ 0 < Awaits[r]
      BY <2>7, <2>8, <3>2 DEF Left, Driven, Looping
    <3> QED
      BY <3>1, <3>2
  <2>11. ~IsIn(r, resuming') /\ resuming' \in Seq(Requests) /\ Len(resuming') <= QueueSize /\ Distinct(resuming')
    BY <1>a, <2>2, EmptySeq DEF TypeOK, QueuesOK, IsIn
  <2>12. "loop" \in Driving
    BY DEF Driving
  <2> QED
    BY <2>2, <2>3, <2>8, <2>9, <2>10, <2>11, <2>12, WorkerStarts
<1>5. ASSUME NEW w \in Workers, TakeResuming(w) PROVE IInv'
  <2> DEFINE r == Head(resuming)
             s == [session[r] EXCEPT !.wrapper = "running"]
  <2>1. /\ at[w] = "idle" /\ resuming # <<>>
        /\ job' = [job EXCEPT ![w] = r] /\ resuming' = Tail(resuming)
        /\ session' = [session EXCEPT ![r] = s]
        /\ at' = [at EXCEPT ![w] = "resume"] /\ UNCHANGED incoming
    BY <1>5, <1>a DEF TakeResuming, TypeOK
  <2>2. /\ r \in Requests /\ IsIn(r, resuming) /\ ~IsIn(r, resuming')
        /\ resuming' \in Seq(Requests) /\ Len(resuming') <= QueueSize
        /\ Distinct(resuming') /\ \A q : IsIn(q, resuming') => IsIn(q, resuming)
    <3>1. resuming \in Seq(Requests) /\ Distinct(resuming) /\ Len(resuming) <= QueueSize
      BY <1>a DEF TypeOK, QueuesOK
    <3> QED
      BY <2>1, <3>1, TailIsIn, LenProperties, QueueSizeAssumption
  <2> HIDE DEF r
  <2>3. /\ Awoken(session[r], r) /\ session[r].process = "over"
        /\ session[r] \in Session /\ session[r].awaited <= Awaits[r]
    BY <1>a, <2>2 DEF QueuesOK, TypeOK
  <2>4. /\ s \in Session /\ s.awaited <= Awaits[r]
        /\ s.process = "over" /\ s.value = session[r].value
        /\ s.wrapper = "running" /\ s.frame = session[r].frame
        /\ s.awaited = session[r].awaited /\ s.promiseDone = session[r].promiseDone
        /\ s.taskDone = session[r].taskDone /\ s.callback = session[r].callback
        /\ s.handle = session[r].handle /\ s.response = session[r].response
    BY <2>3 DEF Session
  <2> HIDE DEF s
  <2>5. Left(s, r) /\ Driven("resume", s, r)
    BY <2>3, <2>4 DEF Left, Driven, Awoken, Asleep, Paused
  <2>6. ~IsIn(r, incoming') /\ incoming' \in Seq(Requests) /\ Len(incoming') <= QueueSize /\ Distinct(incoming')
    BY <1>a, <2>1, <2>2, <2>3 DEF TypeOK, QueuesOK, Awoken, Asleep
  <2>7. "resume" \in Driving
    BY DEF Driving
  <2> QED
    BY <2>1, <2>2, <2>4, <2>5, <2>6, <2>7, WorkerStarts
<1>6. ASSUME NEW w \in Workers, AwaitTask(w) PROVE IInv'
  <2> DEFINE r == job[w]
             s == [[session[r] EXCEPT !.wrapper = "suspended"] EXCEPT !.callback = FALSE]
  <2>1. /\ at[w] = "loop" /\ at[w] \in Driving
        /\ "setHandle" \in Driving /\ "crashed" \in Driving /\ "idle" \notin Driving
    BY <1>6 DEF AwaitTask, Driving
  <2>2. /\ r \in Requests /\ session[r] \in Session /\ session[r].awaited <= Awaits[r]
        /\ Looping(session[r], r) /\ Left(session[r], r)
    BY <1>a, <2>1, DrivenIsOut DEF Driven
  <2>3. CASE session[r].callback
    <3>1. /\ session' = [session EXCEPT ![r] = s] /\ at' = [at EXCEPT ![w] = "setHandle"]
          /\ UNCHANGED <<incoming, resuming, job>> /\ ~session[r].taskDone
      BY <1>6, <2>2, <2>3, <1>a DEF AwaitTask, TypeOK
    <3>2. /\ s \in Session /\ s.awaited <= Awaits[r]
          /\ s.process = session[r].process /\ s.value = session[r].value
          /\ s.wrapper = "suspended" /\ s.frame = session[r].frame
          /\ s.awaited = session[r].awaited /\ s.promiseDone = session[r].promiseDone
          /\ s.taskDone = session[r].taskDone /\ s.callback = FALSE
          /\ s.handle = session[r].handle /\ s.response = session[r].response
      BY <2>2 DEF Session
    <3> HIDE DEF s, r
    <3>3. Left(s, r) /\ Driven("setHandle", s, r)
      BY <2>2, <2>3, <3>1, <3>2 DEF Left, Driven, Looping, Asleep, Paused
    <3> QED
      BY <2>1, <3>1, <3>2, <3>3, DriverStep DEF r
  <2>4. CASE ~session[r].callback
    <3>1. /\ at' = [at EXCEPT ![w] = "crashed"]
          /\ UNCHANGED <<incoming, resuming, job, session>> /\ ~session[r].taskDone
      BY <1>6, <2>4 DEF AwaitTask
    <3>2. session' = [session EXCEPT ![r] = session[r]]
      BY <1>a, <3>1 DEF TypeOK
    <3>3. Driven("crashed", session[r], r)
      BY <2>2, <2>4, <3>1 DEF Driven, Looping, Paused
    <3> HIDE DEF r
    <3> QED
      BY <2>1, <2>2, <3>1, <3>2, <3>3, DriverStep DEF r
  <2> QED
    BY <2>3, <2>4
<1>7. ASSUME NEW w \in Workers, SetHandle(w) PROVE IInv'
  <2> DEFINE r == job[w]
             s == [session[r] EXCEPT !.handle = TRUE]
  <2>1. at[w] = "setHandle" /\ at[w] \in Driving /\ "launch" \in Driving /\ "idle" \notin Driving
    BY <1>7 DEF SetHandle, Driving
  <2>2. /\ r \in Requests /\ session[r] \in Session /\ session[r].awaited <= Awaits[r]
        /\ Driven("setHandle", session[r], r)
    BY <1>a, <2>1, DrivenIsOut
  <2>3. /\ session' = [session EXCEPT ![r] = s] /\ at' = [at EXCEPT ![w] = "launch"]
        /\ UNCHANGED <<incoming, resuming, job>>
    BY <1>7, <2>2, <1>a DEF SetHandle, TypeOK
  <2>4. /\ s \in Session /\ s.awaited <= Awaits[r]
        /\ s.process = session[r].process /\ s.value = session[r].value
        /\ s.wrapper = session[r].wrapper /\ s.frame = session[r].frame
        /\ s.awaited = session[r].awaited /\ s.promiseDone = session[r].promiseDone
        /\ s.taskDone = session[r].taskDone /\ s.callback = session[r].callback
        /\ s.handle = TRUE /\ s.response = session[r].response
    BY <2>2 DEF Session
  <2> HIDE DEF s, r
  <2>5. Left(s, r) /\ Driven("launch", s, r)
    BY <2>2, <2>4 DEF Left, Driven, Awaiting, Asleep, Paused
  <2> QED
    BY <2>1, <2>3, <2>4, <2>5, DriverStep DEF r
<1>8. ASSUME NEW w \in Workers, Launch(w) PROVE IInv'
  <2> DEFINE r == job[w]
             s == [session[r] EXCEPT !.process = "running"]
  <2>1. at[w] = "launch" /\ at[w] \in Driving /\ "launched" \notin Driving
    BY <1>8 DEF Launch, Driving
  <2>2. /\ r \in Requests /\ session[r] \in Session /\ session[r].awaited <= Awaits[r]
        /\ Driven("launch", session[r], r)
    BY <1>a, <2>1, DrivenIsOut
  <2>3. /\ session' = [session EXCEPT ![r] = s] /\ at' = [at EXCEPT ![w] = "launched"]
        /\ UNCHANGED <<incoming, resuming, job>>
    BY <1>8, <2>2, <1>a DEF Launch, TypeOK
  <2>4. /\ s \in Session /\ s.awaited <= Awaits[r]
        /\ s.process = "running" /\ s.value = session[r].value
        /\ s.wrapper = session[r].wrapper /\ s.frame = session[r].frame
        /\ s.awaited = session[r].awaited /\ s.promiseDone = session[r].promiseDone
        /\ s.taskDone = session[r].taskDone /\ s.callback = session[r].callback
        /\ s.handle = session[r].handle /\ s.response = session[r].response
    BY <2>2 DEF Session
  <2> HIDE DEF s, r
  <2>5. Left(s, r)
    BY <2>2, <2>4 DEF Left, Driven, Awaiting, Asleep, Paused
  <2> QED
    BY <2>1, <2>3, <2>4, <2>5, DriverStep DEF r
<1>9. ASSUME NEW w \in Workers, Return(w) PROVE IInv'
  <2>1. /\ UNCHANGED <<incoming, resuming, session>> /\ at[w] = "launched"
        /\ \A v \in Workers : /\ at'[v] = IF v = w THEN "idle" ELSE at[v]
                              /\ job'[v] = IF v = w THEN NoRequest ELSE job[v]
    BY <1>9, <1>a DEF Return, TypeOK
  <2>2. TypeOK'
    BY <1>9, <1>a DEF Return, TypeOK
  <2>3. WorkersOK'
    BY <1>a, <2>1 DEF WorkersOK, Driving
  <2>4. QueuesOK' /\ \A r \in Requests : Left(session'[r], r)
    BY <1>a, <2>1 DEF QueuesOK
  <2> QED
    BY <2>2, <2>3, <2>4 DEF IInv
<1>10. ASSUME NEW w \in Workers, Resume(w) PROVE IInv'
  <2> DEFINE r == job[w]
             t == RunEndpoint(session[r], r)
             s == [t EXCEPT !.taskDone = t.promiseDone]
  <2>1. at[w] = "resume" /\ at[w] \in Driving /\ "loop" \in Driving /\ "idle" \notin Driving
    BY <1>10 DEF Resume, Driving
  <2>2. /\ r \in Requests /\ session[r] \in Session /\ session[r].awaited <= Awaits[r]
        /\ Driven("resume", session[r], r) /\ Awaits[r] \in Nat
    BY <1>a, <2>1, DrivenIsOut, AwaitsNat
  <2>3. /\ session' = [session EXCEPT ![r] = s] /\ at' = [at EXCEPT ![w] = "loop"]
        /\ UNCHANGED <<incoming, resuming, job>>
    BY <1>10 DEF Resume
  <2> HIDE DEF r
  <2>4. /\ t \in Session /\ t.awaited <= Awaits[r]
        /\ t.wrapper = session[r].wrapper /\ t.response = session[r].response
        /\ t.process = "none" /\ ~t.handle /\ t.value = 0
        /\ IF session[r].awaited < Awaits[r]
           THEN /\ t.frame = "suspended" /\ t.awaited = session[r].awaited + 1
                /\ t.promiseDone = session[r].promiseDone /\ t.callback
           ELSE /\ t.frame = "final" /\ t.awaited = session[r].awaited
                /\ t.promiseDone /\ ~t.callback
    BY <2>2, RunEndpointSession
  <2> HIDE DEF t
  <2>5. /\ s \in Session /\ s.awaited = t.awaited
        /\ s.process = t.process /\ s.value = t.value
        /\ s.wrapper = t.wrapper /\ s.frame = t.frame
        /\ s.promiseDone = t.promiseDone
        /\ s.taskDone = t.promiseDone /\ s.callback = t.callback
        /\ s.handle = t.handle /\ s.response = t.response
    BY <2>4 DEF Session
  <2> HIDE DEF s
  <2>6. s.awaited \in 1 .. Awaits[r]
    BY <2>2, <2>4, <2>5 DEF Driven, Paused
  <2>7. Left(s, r) /\ Looping(s, r)
    <3>1. CASE session[r].awaited < Awaits[r]
      <4>1. s.promiseDone = session[r].promiseDone /\ s.awaited = session[r].awaited + 1
        BY <2>4, <2>5, <3>1
      <4>2. Paused(s, r) /\ s.awaited > 1
        <5>1. s.awaited > 1
          BY <2>2, <3>1, <4>1 DEF Driven, Paused
        <5>2. s.frame = "suspended" /\ s.response = "none"
          BY <2>2, <2>4, <2>5, <3>1 DEF Driven, Paused
        <5>3. s.promiseDone = TRUE => TRUE \in FreshBool[r]
          BY <2>2, <4>1 DEF Driven, Paused
        <5> QED
          BY <2>6, <5>1, <5>2, <5>3, Zenon DEF Paused
      <4>3. s.wrapper = "running" /\ s.process = "none" /\ s.callback /\ ~s.handle /\ s.value = 0
        BY <2>2, <2>4, <2>5, <3>1 DEF Driven
      <4> QED
        BY <2>5, <4>2, <4>3 DEF Left, Looping, Paused
    <3>2. CASE ~ session[r].awaited < Awaits[r]
      <4>1. s.awaited = Awaits[r] /\ Awaits[r] > 0
        BY <2>2, <2>4, <2>5, <2>6, <3>2 DEF Driven, Paused
      <4>2. /\ s.wrapper = "running" /\ s.process = "none" /\ s.response = "none"
            /\ s.frame = "final" /\ ~s.callback /\ s.value = 0
            /\ s.promiseDone = TRUE /\ s.taskDone = TRUE
        BY <2>2, <2>4, <2>5, <3>2 DEF Driven, Paused, Session
      <4> QED
        BY <4>1, <4>2 DEF Left, Looping
    <3> QED
      BY <3>1, <3>2
  <2>8. Driven("loop", s, r) /\ s.awaited <= Awaits[r]
    BY <2>4, <2>5, <2>7 DEF Driven
  <2> QED
    BY <2>1, <2>3, <2>5, <2>7, <2>8, DriverStep DEF r
<1>11. ASSUME NEW w \in Workers, Respond(w) PROVE IInv'
  <2> DEFINE r == job[w]
             answer == IF session[r].frame = "final" THEN "final" ELSE "early"
             s == [[[[session[r] EXCEPT !.response = answer] EXCEPT !.frame = "destroyed"]
                      EXCEPT !.wrapper = "ended"] EXCEPT !.callback = FALSE]
  <2>1. at[w] = "loop" /\ at[w] \in Driving /\ "idle" \notin Driving
    BY <1>11 DEF Respond, Driving
  <2>2. /\ r \in Requests /\ session[r] \in Session /\ session[r].awaited <= Awaits[r]
        /\ Looping(session[r], r)
    BY <1>a, <2>1, DrivenIsOut DEF Driven
  <2>3. /\ session' = [session EXCEPT ![r] = s] /\ at' = [at EXCEPT ![w] = "idle"]
        /\ job' = [job EXCEPT ![w] = NoRequest] /\ UNCHANGED <<incoming, resuming>>
    BY <1>11, <2>2, <1>a DEF Respond, TypeOK
  <2>4. answer \in {"none", "final", "early"}
    OBVIOUS
  <2> HIDE DEF answer
  <2>5. /\ s \in Session /\ s.awaited <= Awaits[r]
        /\ s.process = session[r].process /\ s.wrapper = "ended"
    BY <2>2, <2>4 DEF Session
  <2> HIDE DEF s, r
  <2>6. Left(s, r)
    BY <2>2, <2>5 DEF Left, Looping
  <2> QED
    BY <2>1, <2>3, <2>5, <2>6, DriverStep DEF r
<1>12. CASE UNCHANGED vars
  BY <1>12, <1>a DEF vars, IInv, TypeOK, WorkersOK, QueuesOK
<1> QED
  BY <1>1, <1>2, <1>3, <1>4, <1>5, <1>6, <1>7, <1>8, <1>9, <1>10, <1>11, <1>12
  DEF Next, WorkerStep, ProcessStep, Ended

(* Every reachable state satisfies the inductive invariant. *)
THEOREM SpecIInv == Spec => []IInv
BY IInvInit, IInvNext, PTL DEF Spec

(* Sessions, queues and workers keep their types; no endpoint goes beyond   *)
(* its last await.                                                          *)
THEOREM SpecTypeOK == Spec => []TypeOK
<1>1. IInv => TypeOK
  BY DEF IInv
<1> QED
  BY <1>1, SpecIInv, PTL

-----------------------------------------------------------------------------
(* One place for each request *)

(* A set without two different elements has at most one. *)
LEMMA AtMostOne ==
  ASSUME NEW S, \A x, y \in S : x = y
  PROVE  Cardinality(S) = IF S = {} THEN 0 ELSE 1
<1>1. CASE S = {}
  BY <1>1, FS_EmptySet
<1>2. CASE S # {}
  <2>1. PICK x \in S : S = {x}
    BY <1>2
  <2> QED
    BY <1>2, <2>1, FS_Singleton
<1> QED
  BY <1>1, <1>2

(* The four kinds of places exclude each other. *)
LEMMA OnePlace ==
  ASSUME IInv, NEW r \in Requests
  PROVE  /\ Drivers(r) # {} =>
              ~IsIn(r, incoming) /\ ~IsIn(r, resuming) /\ InProcess(r) = {}
         /\ IsIn(r, incoming) => ~IsIn(r, resuming) /\ InProcess(r) = {}
         /\ IsIn(r, resuming) => InProcess(r) = {}
<1>1. ASSUME NEW w \in Drivers(r)
      PROVE  ~IsIn(r, incoming) /\ ~IsIn(r, resuming) /\ InProcess(r) = {}
  <2>1. w \in Workers /\ job[w] = r /\ at[w] \in Driving
    BY DEF Drivers, Driving, IInv, TypeOK
  <2>2. Driven(at[w], session[r], r) /\ ~IsIn(r, incoming) /\ ~IsIn(r, resuming)
    BY <2>1, DrivenIsOut
  <2>3. session[r].process \in {"none", "over"}
    BY <2>1, <2>2 DEF Driven, Driving, Looping, Awaiting, Asleep
  <2> QED
    BY <2>2, <2>3 DEF InProcess
<1>2. IsIn(r, incoming) => session[r].wrapper = "none" /\ session[r].process = "none"
  BY DEF IInv, QueuesOK, Left, NoSession
<1>3. IsIn(r, resuming) => session[r].wrapper = "suspended" /\ session[r].process = "over"
  BY DEF IInv, QueuesOK, Awoken, Asleep
<1> QED
  BY <1>1, <1>2, <1>3 DEF InProcess

(* No two workers hold a request, and none that is queued. *)
LEMMA IInvOneDriver == IInv => OneDriver
<1> SUFFICES ASSUME IInv, NEW r \in Requests
             PROVE  Cardinality(Drivers(r)) + Cardinality(Positions(incoming, r))
                      + Cardinality(Positions(resuming, r)) + Cardinality(InProcess(r)) <= 1
  BY DEF OneDriver
<1>1. Cardinality(Drivers(r)) = IF Drivers(r) = {} THEN 0 ELSE 1
  <2>1. \A v, w \in Drivers(r) : v = w
    BY DEF Drivers, Driving, IInv, TypeOK, WorkersOK
  <2> QED
    BY <2>1, AtMostOne
<1>2. Cardinality(Positions(incoming, r)) = IF IsIn(r, incoming) THEN 1 ELSE 0
  <2>1. \A i, k \in Positions(incoming, r) : i = k
    BY DEF Positions, IInv, QueuesOK, Distinct
  <2>2. Positions(incoming, r) = {} <=> ~IsIn(r, incoming)
    BY DEF Positions, IsIn
  <2> QED
    BY <2>1, <2>2, AtMostOne
<1>3. Cardinality(Positions(resuming, r)) = IF IsIn(r, resuming) THEN 1 ELSE 0
  <2>1. \A i, k \in Positions(resuming, r) : i = k
    BY DEF Positions, IInv, QueuesOK, Distinct
  <2>2. Positions(resuming, r) = {} <=> ~IsIn(r, resuming)
    BY DEF Positions, IsIn
  <2> QED
    BY <2>1, <2>2, AtMostOne
<1>4. Cardinality(InProcess(r)) = IF InProcess(r) = {} THEN 0 ELSE 1
  <2>1. \A p, q \in InProcess(r) : p = q
    BY DEF InProcess
  <2> QED
    BY <2>1, AtMostOne
<1> QED
  BY <1>1, <1>2, <1>3, <1>4, OnePlace

(* However workers and processes interleave, a request is queued once, or    *)
(* run by one worker, or with its process: no coroutine is resumed while     *)
(* another worker runs it.                                                   *)
THEOREM SpecOneDriver == Spec => []OneDriver
BY SpecIInv, IInvOneDriver, PTL

(* Whoever resumes a wrapper finds both coroutines suspended, the handle     *)
(* stored and the value of the await the endpoint is suspended at.           *)
THEOREM SpecResumeIsSound == Spec => []ResumeIsSound
<1>1. ASSUME IInv PROVE ResumeIsSound
  <2>1. ASSUME NEW i \in 1 .. Len(resuming)
        PROVE  Resumable(session[resuming[i]], "suspended")
    <3>1. resuming[i] \in Requests /\ IsIn(resuming[i], resuming)
      BY <1>1, ElementOfSeq DEF IInv, TypeOK, IsIn
    <3> QED
      BY <1>1, <3>1 DEF IInv, QueuesOK, Awoken, Asleep, Paused, Resumable
  <2>2. ASSUME NEW w \in Workers, at[w] = "resume"
        PROVE  Resumable(session[job[w]], "running")
    <3>1. at[w] \in Driving
      BY <2>2 DEF Driving
    <3> QED
      BY <1>1, <2>2, <3>1, DrivenIsOut DEF Driven, Paused, Resumable
  <2> QED
    BY <2>1, <2>2 DEF ResumeIsSound
<1> QED
  BY <1>1, SpecIInv, PTL

-----------------------------------------------------------------------------
(* No resumption is lost where the queue has room for all *)

(* The requests that can ever be waiting to be resumed, and a queue that can *)
(* hold them all: the code checks neither.                                   *)
Resumers == {r \in Requests : Awaits[r] > 0}
Roomy == IsFiniteSet(Resumers) /\ Cardinality(Resumers) <= QueueSize

(* The queue of resumptions is not full while a resumption is to be pushed. *)
LEMMA RoomToResume ==
  ASSUME Roomy, IInv, NEW r \in Requests, session[r].process = "completing"
  PROVE  Len(resuming) < QueueSize
<1> DEFINE n == Len(resuming)
           others == Resumers \ {r}
<1>1. r \in Resumers /\ ~IsIn(r, resuming)
  <2>1. Awoken(session[r], r)
    BY DEF IInv, Left
  <2>2. session[r].awaited \in 1 .. Awaits[r] /\ Awaits[r] \in Nat
    BY <2>1, AwaitsNat DEF Awoken, Asleep, Paused
  <2>3. ~IsIn(r, resuming)
    BY DEF IInv, QueuesOK
  <2> QED
    BY <2>2, <2>3 DEF Resumers
<1>2. n \in Nat /\ resuming \in Seq(Requests) /\ Distinct(resuming)
  BY LenProperties DEF IInv, TypeOK, QueuesOK
<1>3. \A i \in 1 .. n : resuming[i] \in others
  <2> SUFFICES ASSUME NEW i \in 1 .. n PROVE resuming[i] \in others
    OBVIOUS
  <2>1. resuming[i] \in Requests /\ IsIn(resuming[i], resuming)
    BY <1>2, ElementOfSeq DEF IsIn
  <2>2. session[resuming[i]].awaited \in 1 .. Awaits[resuming[i]]
    BY <2>1 DEF IInv, QueuesOK, Awoken, Asleep, Paused
  <2>3. Awaits[resuming[i]] > 0
    BY <2>1, <2>2, AwaitsNat
  <2> QED
    BY <1>1, <2>1, <2>3 DEF Resumers
<1>4. IsFiniteSet(others) /\ Cardinality(others) = Cardinality(Resumers) - 1
  BY <1>1, FS_RemoveElement DEF Roomy
<1> DEFINE f == [i \in 1 .. n |-> resuming[i]]
<1>5. f \in Injection(1 .. n, others)
  BY <1>2, <1>3 DEF Distinct, Injection, IsInjective
<1> HIDE DEF f, others
<1>6. Cardinality(1 .. n) <= Cardinality(others)
  <2> DEFINE places == 1 .. n
  <2>1. IsFiniteSet(others) /\ f \in Injection(places, others)
    BY <1>4, <1>5
  <2> HIDE DEF places
  <2>2. Cardinality(places) <= Cardinality(others)
    BY <2>1, FS_Injection
  <2> QED
    BY <2>2 DEF places
<1>7. Cardinality(1 .. n) = n
  <2>1. PICK l \in Nat : l = n
    BY <1>2
  <2> HIDE DEF n
  <2>2. Cardinality(1 .. l) = IF 1 > l THEN 0 ELSE l - 1 + 1
    BY FS_Interval
  <2> QED
    BY <2>1, <2>2
<1>8. Cardinality(Resumers) \in Nat
  BY FS_CardinalityType DEF Roomy
<1> QED
  BY <1>2, <1>4, <1>6, <1>7, <1>8, QueueSizeAssumption DEF Roomy

(* Somebody will resume r. *)
Kept(r) ==
  \/ \E v \in Workers : job[v] = r /\ at[v] \in Driving
  \/ session[r].process \in {"running", "completing"}
  \/ IsIn(r, resuming)
AllKept == \A r \in Requests : session[r].wrapper = "suspended" => Kept(r)

(* For requests in the places of IInv the two statements are one. *)
LEMMA AllKeptIsIt == IInv => (AllKept <=> NoResumptionLost)
<1> SUFFICES ASSUME IInv, NEW r \in Requests
             PROVE  Kept(r) <=> \/ Drivers(r) # {} \/ InProcess(r) # {}
                                \/ Positions(resuming, r) # {}
  BY DEF AllKept, NoResumptionLost
<1>1. Drivers(r) # {} <=> \E v \in Workers : job[v] = r /\ at[v] \in Driving
  BY DEF Drivers, Driving, IInv, TypeOK
<1>2. InProcess(r) # {} <=> session[r].process \in {"running", "completing"}
  BY DEF InProcess
<1>3. Positions(resuming, r) # {} <=> IsIn(r, resuming)
  BY DEF Positions, IsIn
<1> QED
  BY <1>1, <1>2, <1>3 DEF Kept

(* A worker's step on r takes nothing from the other requests. *)
LEMMA OthersKept ==
  ASSUME NEW w \in Workers, NEW r, at[w] \in Driving => job[w] = r,
         NEW q \in Requests, q # r, Kept(q),
         \A v \in Workers : v # w => at'[v] = at[v] /\ job'[v] = job[v],
         session'[q] = session[q],
         IsIn(q, resuming) => IsIn(q, resuming')
  PROVE  Kept(q)'
BY DEF Kept

(* With room in the resuming queue every step keeps a way back. *)
LEMMA KeptNext ==
  ASSUME Roomy, IInv, AllKept, [Next]_vars
  PROVE  AllKept'
<1>a. TypeOK
  BY DEF IInv
<1> SUFFICES ASSUME NEW q \in Requests, session'[q].wrapper = "suspended"
             PROVE  Kept(q)'
  BY DEF AllKept
<1>b. session[q].wrapper = "suspended" => Kept(q)
  BY DEF AllKept
<1>1. ASSUME NEW r \in Requests, Arrive(r) PROVE Kept(q)'
  BY <1>1, <1>b DEF Arrive, Kept
<1>2. ASSUME NEW r \in Requests, Complete(r) PROVE Kept(q)'
  <2>1. CASE q = r
    BY <1>2, <1>a, <2>1 DEF Complete, Kept, TypeOK, Session
  <2>2. CASE q # r
    BY <1>2, <1>a, <1>b, <2>2 DEF Complete, Kept, TypeOK
  <2> QED
    BY <2>1, <2>2
<1>3. ASSUME NEW r \in Requests, PushResuming(r) PROVE Kept(q)'
  <2>1. resuming' = Append(resuming, r) /\ resuming \in Seq(Requests)
    BY <1>3, <1>a, RoomToResume DEF PushResuming, TypeOK
  <2>2. \A x : IsIn(x, resuming') <=> IsIn(x, resuming) \/ x = r
    BY <2>1, AppendIsIn
  <2>3. CASE q = r
    BY <2>2, <2>3 DEF Kept
  <2>4. CASE q # r
    BY <1>3, <1>a, <1>b, <2>2, <2>4 DEF PushResuming, Kept, TypeOK
  <2> QED
    BY <2>3, <2>4
<1>4. ASSUME NEW w \in Workers, TakeRequest(w) PROVE Kept(q)'
  <2>1. /\ at[w] = "idle" /\ Head(incoming) \in Requests
        /\ at' = [at EXCEPT ![w] = "loop"] /\ job' = [job EXCEPT ![w] = Head(incoming)]
        /\ resuming' = resuming
    BY <1>4, <1>a, TailIsIn DEF TakeRequest, TypeOK
  <2>2. CASE q = Head(incoming)
    <3>1. at'[w] = "loop" /\ job'[w] = q
      BY <1>a, <2>1, <2>2 DEF TypeOK
    <3> QED
      BY <3>1 DEF Kept, Driving
  <2>3. CASE q # Head(incoming)
    <3>1. session'[q] = session[q]
      BY <1>4, <1>a, <2>3 DEF TakeRequest, TypeOK
    <3>2. /\ \A v \in Workers : v # w => at'[v] = at[v] /\ job'[v] = job[v]
          /\ at[w] \notin Driving
      BY <1>a, <2>1 DEF TypeOK, Driving
    <3> QED
      BY <1>b, <2>1, <2>3, <3>1, <3>2, OthersKept
  <2> QED
    BY <2>2, <2>3
<1>5. ASSUME NEW w \in Workers, TakeResuming(w) PROVE Kept(q)'
  <2>1. /\ at[w] = "idle" /\ Head(resuming) \in Requests /\ resuming' = Tail(resuming)
        /\ at' = [at EXCEPT ![w] = "resume"] /\ job' = [job EXCEPT ![w] = Head(resuming)]
        /\ \A x : IsIn(x, resuming) /\ x # Head(resuming) => IsIn(x, resuming')
    BY <1>5, TailIsIn DEF TakeResuming, IInv, TypeOK, QueuesOK
  <2>2. CASE q = Head(resuming)
    <3>1. at'[w] = "resume" /\ job'[w] = q
      BY <1>a, <2>1, <2>2 DEF TypeOK
    <3> QED
      BY <3>1 DEF Kept, Driving
  <2>3. CASE q # Head(resuming)
    <3>1. session'[q] = session[q]
      BY <1>5, <1>a, <2>3 DEF TakeResuming, TypeOK
    <3>2. /\ \A v \in Workers : v # w => at'[v] = at[v] /\ job'[v] = job[v]
          /\ at[w] \notin Driving
      BY <1>a, <2>1 DEF TypeOK, Driving
    <3> QED
      BY <1>b, <2>1, <2>3, <3>1, <3>2, OthersKept
  <2> QED
    BY <2>2, <2>3
<1>6. ASSUME NEW w \in Workers, at[w] \in Driving,
             AwaitTask(w) \/ SetHandle(w) \/ Launch(w) \/ Resume(w) \/ Respond(w)
      PROVE  Kept(q)'
  <2> DEFINE r == job[w]
  <2>1. /\ r \in Requests /\ session[r] \in Session
        /\ Driven(at[w], session[r], r)
    BY <1>6, DrivenIsOut
  <2>2. CASE q # r
    <3>1. session'[q] = session[q] /\ resuming' = resuming
      BY <1>6, <1>a, <2>1, <2>2 DEF AwaitTask, SetHandle, Launch, Resume, Respond, TypeOK
    <3>2. \A v \in Workers : v # w => at'[v] = at[v] /\ job'[v] = job[v]
      BY <1>6, <1>a DEF AwaitTask, SetHandle, Launch, Resume, Respond, TypeOK
    <3> QED
      BY <1>b, <2>2, <3>1, <3>2, OthersKept
  <2>3. CASE q = r
    <3>1. CASE AwaitTask(w)
      <4>1. at'[w] \in {"setHandle", "crashed"} /\ job'[w] = q
        BY <1>a, <2>3, <3>1 DEF AwaitTask, TypeOK
      <4> QED
        BY <4>1 DEF Kept, Driving
    <3>2. CASE SetHandle(w)
      <4>1. at'[w] = "launch" /\ job'[w] = q
        BY <1>a, <2>3, <3>2 DEF SetHandle, TypeOK
      <4> QED
        BY <4>1 DEF Kept, Driving
    <3>3. CASE Launch(w)
      <4>1. session'[q].process = "running"
        BY <1>a, <2>1, <2>3, <3>3 DEF Launch, TypeOK, Session
      <4> QED
        BY <4>1 DEF Kept
    <3>4. CASE Resume(w)
      <4>1. at'[w] = "loop" /\ job'[w] = q
        BY <1>a, <2>3, <3>4 DEF Resume, TypeOK
      <4> QED
        BY <4>1 DEF Kept, Driving
    <3>5. CASE Respond(w)
      <4> DEFINE answer == IF session[r].frame = "final" THEN "final" ELSE "early"
      <4>1. session' = [session EXCEPT ![r] = [session[r] EXCEPT !.response = answer,
                          !.frame = "destroyed", !.wrapper = "ended", !.callback = FALSE]]
        BY <1>a, <2>1, <3>5 DEF Respond, TypeOK
      <4>2. session'[q].wrapper = "ended"
        BY <1>a, <2>1, <2>3, <4>1 DEF TypeOK, Session
      <4> QED
        BY <4>2
    <3> QED
      BY <1>6, <3>1, <3>2, <3>3, <3>4, <3>5
  <2> QED
    BY <2>2, <2>3
<1>7. ASSUME NEW w \in Workers, Return(w) PROVE Kept(q)'
  BY <1>7, <1>a, <1>b DEF Return, Kept, Driving, TypeOK
<1>8. CASE UNCHANGED vars
  BY <1>8, <1>b DEF vars, Kept
<1>9. ASSUME NEW w \in Workers, WorkerStep(w) PROVE Kept(q)'
  BY <1>4, <1>5, <1>6, <1>7, <1>9
  DEF WorkerStep, AwaitTask, SetHandle, Launch, Resume, Respond, Driving
<1> QED
  BY <1>1, <1>2, <1>3, <1>8, <1>9 DEF Next, ProcessStep, Ended

(* As long as the requests that await fit in the queue, a suspended wrapper  *)
(* has a worker, a process or a queued job that will resume it.              *)
THEOREM SpecNoResumptionLost ==
  ASSUME Roomy
  PROVE  Spec => []NoResumptionLost
<1>1. Init => AllKept
  BY DEF Init, AllKept, NoSession
<1>2. IInv /\ AllKept /\ [Next]_vars => AllKept'
  BY KeptNext
<1>3. IInv /\ AllKept => NoResumptionLost
  BY AllKeptIsIt
<1> QED
  BY <1>1, <1>2, <1>3, SpecIInv, PTL DEF Spec

-----------------------------------------------------------------------------
(* The endpoint runs in the order of its text *)

(* What SequentialEndpoint sees of a request. *)
CrashedOn(r) == \E w \in Workers : at[w] = "crashed" /\ job[w] = r
StepOf(r) ==
  CASE session[r].frame = "none" -> 0
    [] session[r].frame = "final" \/ session[r].response = "final" -> Awaits[r] + 1
    [] OTHER -> session[r].awaited
ReadyOf(r) == session[r].frame = "suspended" /\ session[r].value = session[r].awaited
OutcomeOf(r) ==
  IF session[r].response # "none" THEN "answered"
  ELSE IF CrashedOn(r) THEN "crashed" ELSE "none"

HastyRequests == {r \in Requests : TRUE \in FreshBool[r]}
Steps == [r \in Requests |-> StepOf(r)]
Readys == [r \in Requests |-> ReadyOf(r)]
Outcomes == [r \in Requests |-> OutcomeOf(r)]
Alike(q) == StepOf(q)' = StepOf(q) /\ ReadyOf(q)' = ReadyOf(q) /\ OutcomeOf(q)' = OutcomeOf(q)

(* The steps of the promise, request by request. *)
LEMMA StartMaps ==
  ASSUME NEW r \in Requests, \A q \in Requests \ {r} : Alike(q),
         StepOf(r) = 0, StepOf(r)' = 1,
         ReadyOf(r)' = ReadyOf(r), OutcomeOf(r)' = OutcomeOf(r)
  PROVE  Sequential!Start(r)
<1>1. Steps[r] = 0 /\ Steps' = [Steps EXCEPT ![r] = 1]
  BY DEF Steps, Alike
<1>2. Readys' = Readys /\ Outcomes' = Outcomes
  BY DEF Readys, Outcomes, Alike
<1> QED
  BY <1>1, <1>2 DEF Sequential!Start, Steps, Readys, Outcomes, StepOf, ReadyOf, OutcomeOf, CrashedOn

(* The completion of an await is one of the sequential endpoint. *)
LEMMA CompleteMaps ==
  ASSUME NEW r \in Requests, \A q \in Requests \ {r} : Alike(q),
         StepOf(r) \in 1 .. Awaits[r], ~ReadyOf(r), OutcomeOf(r) = "none",
         StepOf(r)' = StepOf(r), ReadyOf(r)' = TRUE, OutcomeOf(r)' = OutcomeOf(r)
  PROVE  Sequential!Complete(r)
<1>1. /\ Steps[r] \in 1 .. Awaits[r] /\ ~Readys[r] /\ Outcomes[r] = "none"
      /\ Readys' = [Readys EXCEPT ![r] = TRUE]
  BY DEF Steps, Readys, Outcomes, Alike
<1>2. Steps' = Steps /\ Outcomes' = Outcomes
  BY DEF Steps, Outcomes, Alike
<1> QED
  BY <1>1, <1>2 DEF Sequential!Complete, Steps, Readys, Outcomes, StepOf, ReadyOf, OutcomeOf, CrashedOn

(* A resumption is an advance of the sequential endpoint. *)
LEMMA AdvanceMaps ==
  ASSUME NEW r \in Requests, \A q \in Requests \ {r} : Alike(q),
         ReadyOf(r), StepOf(r)' = StepOf(r) + 1, ReadyOf(r)' = FALSE,
         OutcomeOf(r)' = OutcomeOf(r)
  PROVE  Sequential!Advance(r)
<1>1. /\ Readys[r] /\ Readys' = [Readys EXCEPT ![r] = FALSE]
      /\ Steps' = [Steps EXCEPT ![r] = Steps[r] + 1]
  BY DEF Steps, Readys, Alike
<1>2. Outcomes' = Outcomes
  BY DEF Outcomes, Alike
<1> QED
  BY <1>1, <1>2 DEF Sequential!Advance, Steps, Readys, Outcomes, StepOf, ReadyOf, OutcomeOf, CrashedOn

(* The answer to a request is an end of the sequential endpoint. *)
LEMMA EndMaps ==
  ASSUME NEW r \in Requests, \A q \in Requests \ {r} : Alike(q),
         OutcomeOf(r) = "none",
         StepOf(r) = Awaits[r] + 1 \/ (r \in HastyRequests /\ StepOf(r) > 1),
         Awaits[r] = 0 => OutcomeOf(r)' = "crashed",
         Awaits[r] # 0 => OutcomeOf(r)' = "answered",
         StepOf(r)' = StepOf(r), ReadyOf(r)' = ReadyOf(r)
  PROVE  Sequential!End(r)
<1>1. /\ Outcomes[r] = "none"
      /\ Steps[r] = Awaits[r] + 1 \/ (r \in HastyRequests /\ Steps[r] > 1)
      /\ Outcomes' = [Outcomes EXCEPT ![r] = IF Awaits[r] = 0 THEN "crashed" ELSE "answered"]
  BY DEF Steps, Outcomes, Alike
<1>2. Steps' = Steps /\ Readys' = Readys
  BY DEF Steps, Readys, Alike
<1> QED
  BY <1>1, <1>2 DEF Sequential!End, HastyRequests, Steps, Readys, Outcomes, StepOf, ReadyOf, OutcomeOf, CrashedOn

(* A step that leaves a session alone leaves its request alone. *)
LEMMA StutterMaps ==
  ASSUME \A q \in Requests : Alike(q)
  PROVE  UNCHANGED Sequential!sequentialVars
<1>1. Steps' = Steps /\ Readys' = Readys /\ Outcomes' = Outcomes
  BY DEF Steps, Readys, Outcomes, Alike
<1> QED
  BY <1>1 DEF Sequential!sequentialVars, Steps, Readys, Outcomes, StepOf, ReadyOf, OutcomeOf, CrashedOn

(* What nobody touches looks the same. *)
LEMMA UntouchedAlike ==
  ASSUME NEW q, session'[q] = session[q], CrashedOn(q)' <=> CrashedOn(q)
  PROVE  Alike(q)
BY DEF Alike, StepOf, ReadyOf, OutcomeOf

(* A worker that touches only r, and crashes or not with it, leaves the      *)
(* others alike, and crashes no request but r.                               *)
LEMMA OthersAlike ==
  ASSUME IInv, NEW w \in Workers, NEW r,
         at[w] = "crashed" => job[w] = r, at'[w] = "crashed" => job'[w] = r,
         \A v \in Workers : v # w => at'[v] = at[v] /\ job'[v] = job[v],
         \A q \in Requests \ {r} : session'[q] = session[q]
  PROVE  /\ \A q \in Requests \ {r} : Alike(q)
         /\ at[w] # "crashed" =>
              (CrashedOn(r)' <=> CrashedOn(r) \/ at'[w] = "crashed")
<1>1. \A q \in Requests \ {r} : CrashedOn(q)' <=> CrashedOn(q)
  BY DEF CrashedOn
<1>2. at[w] # "crashed" => (CrashedOn(r)' <=> CrashedOn(r) \/ at'[w] = "crashed")
  BY DEF CrashedOn
<1> QED
  BY <1>1, <1>2, UntouchedAlike

(* A request on which a worker has crashed is at its end, with no answer;    *)
(* no other worker drives it, and it is in no queue.                         *)
LEMMA CrashedIsFinal ==
  ASSUME IInv, NEW r \in Requests, CrashedOn(r)
  PROVE  /\ session[r].frame = "final" /\ session[r].process = "none"
         /\ ~IsIn(r, incoming) /\ ~IsIn(r, resuming)
         /\ \A w \in Workers : job[w] = r /\ at[w] \in Driving => at[w] = "crashed"
<1>1. PICK v \in Workers : at[v] = "crashed" /\ job[v] = r
  BY DEF CrashedOn
<1>2. at[v] \in Driving
  BY <1>1 DEF Driving
<1> QED
  BY <1>1, <1>2, DrivenIsOut DEF Driven, Looping, IInv, WorkersOK

(* Every step is one of the sequential endpoint or none: nobody takes one    *)
(* after a crash, which is the outcome of the request it happened for.       *)
LEMMA SequentialStep ==
  IInv /\ [Next]_vars => [Sequential!Next]_(Sequential!sequentialVars)
<1> SUFFICES ASSUME IInv, [Next]_vars
             PROVE  Sequential!Next \/ UNCHANGED Sequential!sequentialVars
  OBVIOUS
<1>a. TypeOK
  BY DEF IInv
<1>1. ASSUME NEW r \in Requests, Arrive(r) PROVE UNCHANGED Sequential!sequentialVars
  BY <1>1, UntouchedAlike, StutterMaps DEF Arrive, CrashedOn
<1>2. ASSUME NEW r \in Requests, Complete(r) PROVE Sequential!Step
  <2>1. /\ Awaiting(session[r], r) /\ session[r] \in Session /\ Awaits[r] \in Nat
        /\ ~CrashedOn(r) /\ UNCHANGED <<at, job>>
    BY <1>2, <1>a, CrashedIsFinal, AwaitsNat DEF Complete, IInv, Left, TypeOK
  <2>2. session' = [session EXCEPT ![r] = [session[r] EXCEPT !.process = "completing",
                                                             !.value = session[r].awaited]]
    BY <1>2, <1>a DEF Complete, TypeOK
  <2>3. /\ session'[r].frame = session[r].frame /\ session'[r].awaited = session[r].awaited
        /\ session'[r].response = session[r].response /\ session'[r].value = session[r].awaited
    BY <1>a, <2>1, <2>2 DEF TypeOK, Session
  <2>4. \A q \in Requests \ {r} : Alike(q)
    BY <1>a, <2>1, <2>2, UntouchedAlike DEF TypeOK, CrashedOn
  <2>5. /\ StepOf(r) = session[r].awaited /\ StepOf(r)' = StepOf(r)
        /\ StepOf(r) \in 1 .. Awaits[r]
    BY <2>1, <2>3 DEF StepOf, Awaiting, Asleep, Paused
  <2>6. ~ReadyOf(r) /\ ReadyOf(r)' = TRUE
    BY <2>1, <2>3 DEF ReadyOf, Awaiting, Asleep, Paused
  <2>7. OutcomeOf(r) = "none" /\ OutcomeOf(r)' = OutcomeOf(r)
    BY <2>1, <2>3 DEF OutcomeOf, CrashedOn, Awaiting, Asleep, Paused
  <2>8. Sequential!Complete(r)
    BY <2>4, <2>5, <2>6, <2>7, CompleteMaps
  <2> QED
    BY <2>8 DEF Sequential!Step
<1>3. ASSUME NEW r \in Requests, PushResuming(r) PROVE UNCHANGED Sequential!sequentialVars
  <2>1. /\ session[r] \in Session /\ UNCHANGED <<at, job>>
        /\ session' = [session EXCEPT ![r] = [session[r] EXCEPT !.process = "over"]]
    BY <1>3, <1>a DEF PushResuming, TypeOK
  <2>2. /\ session'[r].frame = session[r].frame /\ session'[r].awaited = session[r].awaited
        /\ session'[r].response = session[r].response /\ session'[r].value = session[r].value
    BY <1>a, <2>1 DEF TypeOK, Session
  <2>3. Alike(r)
    BY <2>1, <2>2 DEF Alike, StepOf, ReadyOf, OutcomeOf, CrashedOn
  <2>4. \A q \in Requests \ {r} : Alike(q)
    BY <1>a, <2>1, UntouchedAlike DEF TypeOK, CrashedOn
  <2> QED
    BY <2>3, <2>4, StutterMaps
<1>4. ASSUME NEW w \in Workers, TakeRequest(w) PROVE Sequential!Step
  <2>1. PICK r \in Requests : r = Head(incoming) /\ IsIn(r, incoming)
    BY <1>4, <1>a, TailIsIn DEF TakeRequest, TypeOK
  <2>2. PICK fresh \in FreshBool[r] :
          session' = [session EXCEPT ![r] =
            RunEndpoint([session[r] EXCEPT !.wrapper = "running", !.promiseDone = fresh], r)]
    BY <1>4, <1>a, <2>1 DEF TakeRequest
  <2>3. session[r] = NoSession
    BY <2>1 DEF IInv, QueuesOK, Left
  <2>4. ~CrashedOn(r)
    BY <2>1, CrashedIsFinal
  <2>5. /\ \A v \in Workers : v # w => at'[v] = at[v] /\ job'[v] = job[v]
        /\ at[w] = "idle" /\ at'[w] = "loop"
    BY <1>4, <1>a DEF TakeRequest, TypeOK
  <2>6. \A q \in Requests \ {r} : session'[q] = session[q]
    BY <1>a, <2>2 DEF TypeOK
  <2>7. /\ \A q \in Requests \ {r} : Alike(q)
        /\ ~CrashedOn(r)'
    BY <2>4, <2>5, <2>6, OthersAlike
  <2>8. /\ session'[r].value = 0 /\ session'[r].response = "none"
        /\ IF 0 < Awaits[r] THEN session'[r].frame = "suspended" /\ session'[r].awaited = 1
                            ELSE session'[r].frame = "final" /\ session'[r].awaited = 0
    <3> DEFINE s0 == [session[r] EXCEPT !.wrapper = "running", !.promiseDone = fresh]
    <3>1. s0 \in Session /\ s0.awaited = 0 /\ s0.response = "none"
      <4>1. s0 = [[NoSession EXCEPT !.wrapper = "running"] EXCEPT !.promiseDone = fresh]
        BY <2>3
      <4> HIDE DEF s0
      <4>2. fresh \in BOOLEAN /\ "running" \in {"none", "running", "suspended", "ended"}
        BY <2>2, FreshBoolAssumption
      <4>3. NoSession \in Session /\ NoSession.awaited = 0 /\ NoSession.response = "none"
        BY DEF NoSession, Session
      <4> QED
        BY <4>1, <4>2, <4>3 DEF Session
    <3>2. session'[r] = RunEndpoint(s0, r)
      BY <1>a, <2>2 DEF TypeOK
    <3> HIDE DEF s0
    <3>3. 0 <= Awaits[r] /\ Awaits[r] \in Nat
      BY AwaitsNat
    <3> QED
      BY <3>1, <3>2, <3>3, RunEndpointSession
  <2>9. StepOf(r) = 0 /\ StepOf(r)' = 1
    BY <2>3, <2>8, AwaitsNat DEF StepOf, NoSession
  <2>10. ReadyOf(r)' = ReadyOf(r)
    BY <2>3, <2>8 DEF ReadyOf, NoSession
  <2>11. OutcomeOf(r)' = OutcomeOf(r)
    BY <2>3, <2>4, <2>7, <2>8 DEF OutcomeOf, NoSession
  <2>12. Sequential!Start(r)
    BY <2>7, <2>9, <2>10, <2>11, StartMaps
  <2> QED
    BY <2>12 DEF Sequential!Step
<1>5. ASSUME NEW w \in Workers, TakeResuming(w)
      PROVE  UNCHANGED Sequential!sequentialVars
  <2>1. PICK r \in Requests : r = Head(resuming) /\ IsIn(r, resuming)
    BY <1>5, <1>a, TailIsIn DEF TakeResuming, TypeOK
  <2>2. /\ \A v \in Workers : v # w => at'[v] = at[v] /\ job'[v] = job[v]
        /\ at[w] = "idle" /\ at'[w] = "resume" /\ session[r] \in Session
        /\ session' = [session EXCEPT ![r] = [session[r] EXCEPT !.wrapper = "running"]]
    BY <1>5, <1>a, <2>1 DEF TakeResuming, TypeOK
  <2>3. \A q \in Requests \ {r} : session'[q] = session[q]
    BY <1>a, <2>2 DEF TypeOK
  <2>4. /\ \A q \in Requests \ {r} : Alike(q)
        /\ CrashedOn(r)' <=> CrashedOn(r)
    BY <2>2, <2>3, OthersAlike
  <2>5. /\ session'[r].frame = session[r].frame /\ session'[r].awaited = session[r].awaited
        /\ session'[r].response = session[r].response /\ session'[r].value = session[r].value
    BY <1>a, <2>2 DEF TypeOK, Session
  <2>6. Alike(r)
    BY <2>4, <2>5 DEF Alike, StepOf, ReadyOf, OutcomeOf
  <2> QED
    BY <2>4, <2>6, StutterMaps
<1>6. ASSUME NEW w \in Workers, AwaitTask(w), session[job[w]].callback
      PROVE  UNCHANGED Sequential!sequentialVars
  <2>1. PICK r \in Requests : r = job[w]
    BY <1>6, DrivenIsOut DEF AwaitTask, Driving
  <2>2. /\ \A v \in Workers : v # w => at'[v] = at[v] /\ job'[v] = job[v]
        /\ at[w] = "loop" /\ at'[w] = "setHandle" /\ session[r] \in Session
        /\ session' = [session EXCEPT ![r] =
                         [[session[r] EXCEPT !.wrapper = "suspended"] EXCEPT !.callback = FALSE]]
    BY <1>6, <1>a, <2>1 DEF AwaitTask, TypeOK
  <2>3. \A q \in Requests \ {r} : session'[q] = session[q]
    BY <1>a, <2>2 DEF TypeOK
  <2>4. /\ \A q \in Requests \ {r} : Alike(q)
        /\ CrashedOn(r)' <=> CrashedOn(r)
    BY <2>2, <2>3, OthersAlike
  <2>5. /\ session'[r].frame = session[r].frame /\ session'[r].awaited = session[r].awaited
        /\ session'[r].response = session[r].response /\ session'[r].value = session[r].value
    BY <1>a, <2>2 DEF TypeOK, Session
  <2>6. Alike(r)
    BY <2>4, <2>5 DEF Alike, StepOf, ReadyOf, OutcomeOf
  <2> QED
    BY <2>4, <2>6, StutterMaps
<1>7. ASSUME NEW w \in Workers, AwaitTask(w), ~session[job[w]].callback
      PROVE  Sequential!Step
  <2>1. PICK r \in Requests : r = job[w]
    BY <1>7, DrivenIsOut DEF AwaitTask, Driving
  <2>2. /\ \A v \in Workers : v # w => at'[v] = at[v] /\ job'[v] = job[v]
        /\ at[w] = "loop" /\ at'[w] = "crashed" /\ job'[w] = r
        /\ session' = session /\ ~session[r].taskDone
    BY <1>7, <1>a, <2>1 DEF AwaitTask, TypeOK
  <2>3. Looping(session[r], r) /\ Awaits[r] \in Nat /\ ~CrashedOn(r)
    BY <2>1, <2>2, DrivenIsOut, CrashedIsFinal, AwaitsNat DEF Driven, Driving
  <2>4. /\ \A q \in Requests \ {r} : Alike(q)
        /\ CrashedOn(r)'
    BY <2>2, OthersAlike
  <2>5. session[r].frame = "final" /\ Awaits[r] = 0 /\ session[r].response = "none"
    BY <1>7, <2>1, <2>2, <2>3 DEF Looping
  <2>6. StepOf(r) = Awaits[r] + 1 /\ StepOf(r)' = StepOf(r) /\ ReadyOf(r)' = ReadyOf(r)
    BY <2>2, <2>5 DEF StepOf, ReadyOf
  <2>7. OutcomeOf(r) = "none" /\ OutcomeOf(r)' = "crashed"
    BY <2>2, <2>3, <2>4, <2>5 DEF OutcomeOf
  <2>8. Sequential!End(r)
    BY <2>4, <2>5, <2>6, <2>7, AwaitsNat, EndMaps
  <2> QED
    BY <2>8 DEF Sequential!Step
<1>8. ASSUME NEW w \in Workers, SetHandle(w) \/ Launch(w)
      PROVE  UNCHANGED Sequential!sequentialVars
  <2>1. PICK r \in Requests : r = job[w]
    BY <1>8, DrivenIsOut DEF SetHandle, Launch, Driving
  <2>2. /\ \A v \in Workers : v # w => at'[v] = at[v] /\ job'[v] = job[v]
        /\ at[w] # "crashed" /\ at'[w] # "crashed" /\ session[r] \in Session
        /\ \/ session' = [session EXCEPT ![r] = [session[r] EXCEPT !.handle = TRUE]]
           \/ session' = [session EXCEPT ![r] = [session[r] EXCEPT !.process = "running"]]
    BY <1>8, <1>a, <2>1 DEF SetHandle, Launch, TypeOK
  <2>3. \A q \in Requests \ {r} : session'[q] = session[q]
    BY <1>a, <2>2 DEF TypeOK
  <2>4. /\ \A q \in Requests \ {r} : Alike(q)
        /\ CrashedOn(r)' <=> CrashedOn(r)
    BY <2>2, <2>3, OthersAlike
  <2>5. /\ session'[r].frame = session[r].frame /\ session'[r].awaited = session[r].awaited
        /\ session'[r].response = session[r].response /\ session'[r].value = session[r].value
    BY <1>a, <2>2 DEF TypeOK, Session
  <2>6. Alike(r)
    BY <2>4, <2>5 DEF Alike, StepOf, ReadyOf, OutcomeOf
  <2> QED
    BY <2>4, <2>6, StutterMaps
<1>9. ASSUME NEW w \in Workers, Return(w)
      PROVE  UNCHANGED Sequential!sequentialVars
  <2>1. /\ \A v \in Workers : v # w => at'[v] = at[v] /\ job'[v] = job[v]
        /\ at[w] = "launched" /\ at'[w] = "idle" /\ session' = session
    BY <1>9, <1>a DEF Return, TypeOK
  <2>2. \A q \in Requests : Alike(q)
    BY <2>1, UntouchedAlike DEF CrashedOn
  <2> QED
    BY <2>2, StutterMaps
<1>10. ASSUME NEW w \in Workers, Resume(w) PROVE Sequential!Step
  <2>1. PICK r \in Requests : r = job[w] /\ Driven("resume", session[r], r) /\ session[r] \in Session
                              /\ session[r].awaited <= Awaits[r]
    BY <1>10, DrivenIsOut DEF Resume, Driving
  <2> DEFINE t == RunEndpoint(session[r], r)
  <2>2. /\ \A v \in Workers : v # w => at'[v] = at[v] /\ job'[v] = job[v]
        /\ at[w] = "resume" /\ at'[w] = "loop"
        /\ session' = [session EXCEPT ![r] = [t EXCEPT !.taskDone = t.promiseDone]]
    BY <1>10, <1>a, <2>1 DEF Resume, TypeOK
  <2>3. \A q \in Requests \ {r} : session'[q] = session[q]
    BY <1>a, <2>2 DEF TypeOK
  <2>4. /\ \A q \in Requests \ {r} : Alike(q)
        /\ CrashedOn(r)' <=> CrashedOn(r)
    BY <2>2, <2>3, OthersAlike
  <2>5. /\ t \in Session /\ t.value = 0 /\ t.response = session[r].response
        /\ IF session[r].awaited < Awaits[r]
           THEN t.frame = "suspended" /\ t.awaited = session[r].awaited + 1
           ELSE t.frame = "final" /\ t.awaited = session[r].awaited
    BY <2>1, RunEndpointSession
  <2> HIDE DEF t
  <2>6. /\ session'[r].frame = t.frame /\ session'[r].awaited = t.awaited
        /\ session'[r].response = t.response /\ session'[r].value = t.value
    BY <1>a, <2>2, <2>5 DEF TypeOK, Session
  <2>7. /\ session[r].frame = "suspended" /\ session[r].value = session[r].awaited
        /\ session[r].response = "none"
        /\ session[r].awaited \in 1 .. Awaits[r] /\ Awaits[r] \in Nat
    BY <2>1, AwaitsNat DEF Driven, Paused
  <2>8. ReadyOf(r)
    BY <2>7 DEF ReadyOf
  <2>9. StepOf(r)' = StepOf(r) + 1
    BY <2>5, <2>6, <2>7 DEF StepOf
  <2>10. ReadyOf(r)' = FALSE
    BY <2>5, <2>6, <2>7 DEF ReadyOf
  <2>11. OutcomeOf(r)' = OutcomeOf(r)
    BY <2>4, <2>5, <2>6, <2>7 DEF OutcomeOf
  <2>12. Sequential!Advance(r)
    BY <2>4, <2>8, <2>9, <2>10, <2>11, AdvanceMaps
  <2> QED
    BY <2>12 DEF Sequential!Step
<1>11. ASSUME NEW w \in Workers, Respond(w) PROVE Sequential!Step
  <2>1. PICK r \in Requests : r = job[w] /\ Looping(session[r], r) /\ session[r] \in Session
    BY <1>11, DrivenIsOut DEF Respond, Driven, Driving
  <2> DEFINE answer == IF session[r].frame = "final" THEN "final" ELSE "early"
  <2>2. /\ \A v \in Workers : v # w => at'[v] = at[v] /\ job'[v] = job[v]
        /\ at[w] = "loop" /\ at'[w] = "idle" /\ session[r].taskDone
        /\ session' = [session EXCEPT ![r] =
             [[[[session[r] EXCEPT !.response = answer] EXCEPT !.frame = "destroyed"]
                  EXCEPT !.wrapper = "ended"] EXCEPT !.callback = FALSE]]
    BY <1>11, <1>a, <2>1 DEF Respond, TypeOK
  <2>3. \A q \in Requests \ {r} : session'[q] = session[q]
    BY <1>a, <2>2 DEF TypeOK
  <2>4. \A q \in Requests \ {r} : Alike(q)
    BY <2>2, <2>3, OthersAlike
  <2>5. ~CrashedOn(r)
    BY <2>1, <2>2, CrashedIsFinal DEF Driving
  <2>6. /\ session'[r].frame = "destroyed" /\ session'[r].awaited = session[r].awaited
        /\ session'[r].response = answer
    BY <1>a, <2>1, <2>2 DEF TypeOK, Session
  <2>7. Awaits[r] \in Nat /\ session[r].response = "none" /\ session[r].value = 0
    BY <2>1, AwaitsNat DEF Looping
  <2>8. OutcomeOf(r) = "none" /\ OutcomeOf(r)' = "answered"
    BY <2>5, <2>6, <2>7 DEF OutcomeOf
  <2>9. CASE session[r].frame = "final"
    <3>1. Awaits[r] # 0 /\ answer = "final"
      BY <2>1, <2>2, <2>7, <2>9 DEF Looping, Paused
    <3>2. StepOf(r) = Awaits[r] + 1 /\ StepOf(r)' = StepOf(r)
      BY <2>6, <2>9, <3>1 DEF StepOf
    <3>3. ReadyOf(r)' = ReadyOf(r)
      BY <2>6, <2>9 DEF ReadyOf
    <3>4. Sequential!End(r)
      BY <2>4, <2>8, <3>1, <3>2, <3>3, AwaitsNat, EndMaps
    <3> QED
      BY <3>4 DEF Sequential!Step
  <2>10. CASE session[r].frame # "final"
    <3>1. /\ session[r].frame = "suspended" /\ session[r].awaited \in 1 .. Awaits[r]
          /\ session[r].awaited > 1 /\ answer = "early"
      BY <2>1, <2>2, <2>10 DEF Looping, Paused
    <3>2. r \in HastyRequests
      BY <2>1, <2>2, <2>10 DEF Looping, Paused, Session, HastyRequests
    <3>3. StepOf(r) = session[r].awaited /\ StepOf(r)' = StepOf(r)
      BY <2>6, <2>7, <3>1 DEF StepOf
    <3>4. ReadyOf(r)' = ReadyOf(r)
      BY <2>6, <2>7, <3>1 DEF ReadyOf
    <3>5. Awaits[r] # 0 /\ StepOf(r) > 1
      BY <2>7, <3>1, <3>3
    <3>6. Sequential!End(r)
      BY <2>4, <2>8, <3>2, <3>3, <3>4, <3>5, EndMaps
    <3> QED
      BY <3>6 DEF Sequential!Step
  <2> QED
    BY <2>9, <2>10
<1>12. ASSUME UNCHANGED vars PROVE UNCHANGED Sequential!sequentialVars
  BY <1>12, UntouchedAlike, StutterMaps DEF vars, CrashedOn
<1>13. ASSUME NEW w \in Workers, WorkerStep(w)
       PROVE  Sequential!Step \/ UNCHANGED Sequential!sequentialVars
  BY <1>4, <1>5, <1>6, <1>7, <1>8, <1>9, <1>10, <1>11, <1>13 DEF WorkerStep
<1>14. Sequential!Step /\ Alive => Sequential!Next
  <2>1. Alive => \A r \in Requests : Outcomes[r] # "crashed"
    BY DEF Alive, Outcomes, OutcomeOf, CrashedOn
  <2> QED
    BY <2>1 DEF Sequential!Next, Outcomes, OutcomeOf, CrashedOn
<1>15. \/ Alive /\ Sequential!Step
       \/ UNCHANGED Sequential!sequentialVars
  <2>1. \A w \in Workers : WorkerStep(w) => Alive
    BY DEF WorkerStep
  <2>2. \/ \E r \in Requests : Arrive(r) \/ (Alive /\ (Complete(r) \/ PushResuming(r)))
        \/ \E w \in Workers : Alive /\ WorkerStep(w)
        \/ UNCHANGED vars
    BY <2>1 DEF Next, ProcessStep, Ended
  <2> QED
    BY <1>1, <1>2, <1>3, <1>12, <1>13, <2>2
<1> QED
  BY <1>14, <1>15

(* However workers, processes and queues interleave, every endpoint goes     *)
(* through its awaits in the order of its text, each with the completion of  *)
(* its own process, and ends once: after the last await, or after a later    *)
(* one than the first if m_done may start as true.                           *)
THEOREM SpecImplementsSequential == Spec => ImplementsSequential
<1>1. Init => Sequential!Init
  <2> SUFFICES ASSUME Init PROVE Sequential!Init
    OBVIOUS
  <2>1. ASSUME NEW r \in Requests
        PROVE  StepOf(r) = 0 /\ ReadyOf(r) = FALSE /\ OutcomeOf(r) = "none"
    <3>1. session[r] = NoSession /\ ~CrashedOn(r)
      BY DEF Init, CrashedOn
    <3> QED
      BY <3>1 DEF StepOf, ReadyOf, OutcomeOf, NoSession
  <2>2. /\ Steps = [r \in Requests |-> 0] /\ Readys = [r \in Requests |-> FALSE]
        /\ Outcomes = [r \in Requests |-> "none"]
    BY <2>1 DEF Steps, Readys, Outcomes
  <2> QED
    BY <2>2 DEF Sequential!Init, Steps, Readys, Outcomes, StepOf, ReadyOf, OutcomeOf, CrashedOn
<1> QED
  BY <1>1, SpecIInv, SequentialStep, PTL DEF Spec, ImplementsSequential, Sequential!Spec
=============================================================================

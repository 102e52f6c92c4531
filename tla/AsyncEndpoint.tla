--------------------------- MODULE AsyncEndpoint ---------------------------
(***************************************************************************)
(* How a request to a coroutine endpoint is served.  Endpoint::            *)
(* handleRequest (the wrapper coroutine) runs the endpoint's own coroutine,*)
(* which awaits asynchronous processes one after the other.  Each process  *)
(* completes on a thread of its own and pushes a job that resumes the      *)
(* wrapper on whichever worker takes it.  Requests and resumptions go      *)
(* through the job queue: its promise (JobPool) is used here, so that each *)
(* push and each pop is a single step.                                     *)
(***************************************************************************)
EXTENDS Naturals, Sequences, FiniteSets

CONSTANTS
  Workers,    \* the worker threads
  Requests,   \* the requests to coroutine endpoints
  Awaits,     \* Awaits[r]: how many processes the endpoint of r awaits
  QueueSize,  \* FP_JOB_QUEUE_SIZE
  FreshBool,  \* FreshBool[r]: what the uninitialised EndpointPromise::m_done
              \* of the endpoint of r may hold
  NoRequest   \* the job of an idle worker

ASSUME AwaitsAssumption == Awaits \in [Requests -> Nat]
ASSUME QueueSizeAssumption == QueueSize \in Nat \ {0}
ASSUME FreshBoolAssumption ==
  FreshBool \in [Requests -> {{FALSE}, {TRUE}, BOOLEAN}]
ASSUME NoRequestAssumption == NoRequest \notin Requests

VARIABLES
  incoming,  \* the eMedium queue: requests to handle
  resuming,  \* the __eResumingJob queue: requests whose wrapper to resume
  at, job,   \* per worker: where it is, and the request it works on
  session    \* per request: its two coroutines, its awaiter and its process

vars == <<incoming, resuming, at, job, session>>

(* wrapper, frame: the wrapper coroutine and the endpoint's coroutine.      *)
(* awaited: the number of the await the endpoint is suspended at.           *)
(* promiseDone, taskDone: EndpointPromise::m_done and EndpointTask::m_done. *)
(* callback: whether EndpointPromise::m_awaiterCallback holds a callback.   *)
(* handle, value: whether AsyncAwaiter::m_handle is set, and the number of  *)
(* the await that m_value answers (0: none yet).                            *)
(* process: the process of the current await.  response: what was sent.     *)
Session ==
  [wrapper : {"none", "running", "suspended", "ended"},
   frame : {"none", "suspended", "final", "destroyed"},
   awaited : Nat, promiseDone : BOOLEAN, taskDone : BOOLEAN,
   callback : BOOLEAN, handle : BOOLEAN, value : Nat,
   process : {"none", "running", "completing", "over"},
   response : {"none", "final", "early"}]

NoSession ==
  [wrapper |-> "none", frame |-> "none", awaited |-> 0,
   promiseDone |-> FALSE, taskDone |-> FALSE,
   callback |-> FALSE, handle |-> FALSE, value |-> 0,
   process |-> "none", response |-> "none"]

Init ==
  /\ incoming = <<>>
  /\ resuming = <<>>
  /\ at = [w \in Workers |-> "idle"]
  /\ job = [w \in Workers |-> NoRequest]
  /\ session = [r \in Requests |-> NoSession]

-----------------------------------------------------------------------------
(* The endpoint's coroutine runs until it suspends: at its next await, where *)
(* await_transform stores the new awaiter's callback in the promise, or at   *)
(* its end, where final_suspend sets m_done.  The awaiter it was suspended   *)
(* in is destroyed with the statement that awaited it.                       *)
RunEndpointOnceMore(s, r) ==
  IF s.awaited <= Awaits[r]
    THEN [s EXCEPT !.frame = "suspended", !.awaited = @ + 1, !.process = "none",
                   !.callback = TRUE, !.handle = FALSE, !.value = 0]
    ELSE [s EXCEPT !.frame = "final", !.promiseDone = TRUE, !.process = "none",
                   !.callback = FALSE, !.handle = FALSE, !.value = 0]
RunEndpoint(s, r) ==
  IF s.awaited < Awaits[r]
    THEN [s EXCEPT !.frame = "suspended", !.awaited = @ + 1, !.process = "none",
                   !.callback = TRUE, !.handle = FALSE, !.value = 0]
    ELSE [s EXCEPT !.frame = "final", !.promiseDone = TRUE, !.process = "none",
                   !.callback = FALSE, !.handle = FALSE, !.value = 0]

(* The accept loop pushes the job that handles r. *)
Arrive(r) ==
  /\ session[r].wrapper = "none"
  /\ \A i \in 1 .. Len(incoming) : incoming[i] # r
  /\ \A w \in Workers : job[w] # r
  /\ Len(incoming) < QueueSize
  /\ incoming' = Append(incoming, r)
  /\ UNCHANGED <<resuming, at, job, session>>

(* A worker takes a request, when there is nothing to resume: handleRequest *)
(* calls the endpoint, whose promise leaves m_done as it finds it, up to    *)
(* the test of its loop.                                                    *)
TakeRequest(w) ==
  /\ at[w] = "idle"
  /\ resuming = <<>> /\ incoming # <<>>
  /\ LET r == Head(incoming) IN
       /\ job' = [job EXCEPT ![w] = r]
       /\ \E fresh \in FreshBool[r] :
            session' = [session EXCEPT ![r] =
              RunEndpoint([@ EXCEPT !.wrapper = "running", !.promiseDone = fresh], r)]
  /\ incoming' = Tail(incoming)
  /\ at' = [at EXCEPT ![w] = "loop"]
  /\ UNCHANGED resuming

(* while (!task.isDone()) co_await task: the wrapper is suspended when      *)
(* EndpointAwaiter::await_suspend starts; it moves the callback out of the  *)
(* promise and calls it; to call an empty one, in a noexcept function, ends *)
(* the whole program.                                                       *)
AwaitTask(w) ==
  LET r == job[w] IN
  /\ at[w] = "loop"
  /\ ~session[r].taskDone
  /\ IF session[r].callback
       THEN /\ session' = [session EXCEPT ![r].wrapper = "suspended",
                                          ![r].callback = FALSE]
            /\ at' = [at EXCEPT ![w] = "setHandle"]
       ELSE at' = [at EXCEPT ![w] = "crashed"] /\ UNCHANGED session
  /\ UNCHANGED <<incoming, resuming, job>>

(* The pipelined callback stores the wrapper's handle in the awaiter, and   *)
(* then calls m_callback, which starts the process and returns.             *)
SetHandleMissing(w) ==
  /\ at[w] = "setHandle"
  /\ at' = [at EXCEPT ![w] = "launch"]
  /\ UNCHANGED <<incoming, resuming, job, session>>
SetHandle(w) ==
  /\ at[w] = "setHandle"
  /\ session' = [session EXCEPT ![job[w]].handle = TRUE]
  /\ at' = [at EXCEPT ![w] = "launch"]
  /\ UNCHANGED <<incoming, resuming, job>>

Launch(w) ==
  /\ at[w] = "launch"
  /\ session' = [session EXCEPT ![job[w]].process = "running"]
  /\ at' = [at EXCEPT ![w] = "launched"]
  /\ UNCHANGED <<incoming, resuming, job>>

(* m_callback, await_suspend, handleRequest or resume, and the job return:  *)
(* by now another worker may be running the same request.                   *)
Return(w) ==
  /\ at[w] = "launched"
  /\ at' = [at EXCEPT ![w] = "idle"]
  /\ job' = [job EXCEPT ![w] = NoRequest]
  /\ UNCHANGED <<incoming, resuming, session>>

(* The process calls complete(): the value first, then the job.  The result *)
(* of push is discarded.                                                    *)
Complete(r) ==
  /\ session[r].process = "running"
  /\ session' = [session EXCEPT ![r].process = "completing",
                                ![r].value = session[r].awaited]
  /\ UNCHANGED <<incoming, resuming, at, job>>

PushResumingSkipped(r) ==
  /\ session[r].process = "completing"
  /\ session' = [session EXCEPT ![r].process = "over"]
  /\ UNCHANGED <<incoming, resuming, at, job>>
PushResumingTwice(r) ==
  /\ session[r].process = "completing"
  /\ resuming' = IF Len(resuming) < QueueSize THEN Append(resuming, r)
                                              ELSE resuming
  /\ UNCHANGED <<incoming, at, job, session>>
PushResuming(r) ==
  /\ session[r].process = "completing"
  /\ session' = [session EXCEPT ![r].process = "over"]
  /\ resuming' = IF Len(resuming) < QueueSize THEN Append(resuming, r)
                                              ELSE resuming
  /\ UNCHANGED <<incoming, at, job>>

(* A worker takes the job, which resumes the wrapper in await_resume. *)
TakeResuming(w) ==
  /\ at[w] = "idle"
  /\ resuming # <<>>
  /\ job' = [job EXCEPT ![w] = Head(resuming)]
  /\ resuming' = Tail(resuming)
  /\ session' = [session EXCEPT ![Head(resuming)].wrapper = "running"]
  /\ at' = [at EXCEPT ![w] = "resume"]
  /\ UNCHANGED incoming

(* EndpointTask::resume: run the endpoint on, then copy the promise's flag. *)
ResumeAlwaysDone(w) ==
  LET r == job[w]
      s == RunEndpoint(session[r], r)
  IN
  /\ at[w] = "resume"
  /\ session' = [session EXCEPT ![r] = [s EXCEPT !.taskDone = TRUE]]
  /\ at' = [at EXCEPT ![w] = "loop"]
  /\ UNCHANGED <<incoming, resuming, job>>
ResumeKeepsFlag(w) ==
  /\ at[w] = "resume"
  /\ session' = [session EXCEPT ![job[w]] = RunEndpoint(@, job[w])]
  /\ at' = [at EXCEPT ![w] = "loop"]
  /\ UNCHANGED <<incoming, resuming, job>>
Resume(w) ==
  LET r == job[w]
      s == RunEndpoint(session[r], r)
  IN
  /\ at[w] = "resume"
  /\ session' = [session EXCEPT ![r] = [s EXCEPT !.taskDone = s.promiseDone]]
  /\ at' = [at EXCEPT ![w] = "loop"]
  /\ UNCHANGED <<incoming, resuming, job>>

(* The loop ends: getValue destroys the endpoint's coroutine, wherever it   *)
(* is, and the response is sent.                                            *)
Respond(w) ==
  LET r == job[w] IN
  /\ at[w] = "loop"
  /\ session[r].taskDone
  /\ session' = [session EXCEPT
       ![r].response = IF session[r].frame = "final" THEN "final" ELSE "early",
       ![r].frame = "destroyed", ![r].wrapper = "ended",
       ![r].callback = FALSE]
  /\ at' = [at EXCEPT ![w] = "idle"]
  /\ job' = [job EXCEPT ![w] = NoRequest]
  /\ UNCHANGED <<incoming, resuming>>

-----------------------------------------------------------------------------
(* Once a worker has crashed no thread of the program does anything. *)
Alive == \A w \in Workers : at[w] # "crashed"

WorkerStep(w) ==
  /\ Alive
  /\ \/ TakeResuming(w) \/ TakeRequest(w)
     \/ AwaitTask(w) \/ SetHandle(w) \/ Launch(w) \/ Return(w)
     \/ Resume(w) \/ Respond(w)

ProcessStep(r) == Alive /\ (Complete(r) \/ PushResuming(r))

(* All requests were answered, or the program is dead. *)
Ended ==
  /\ ~Alive \/ \A r \in Requests : session[r].wrapper = "ended"
  /\ UNCHANGED vars

Next ==
  \/ \E r \in Requests : (Alive /\ Arrive(r)) \/ ProcessStep(r)
  \/ \E w \in Workers : WorkerStep(w)
  \/ Ended

Spec == Init /\ [][Next]_vars

(* Workers run, and every process that was started completes: the latter is *)
(* asked of the endpoint's author, the code has no timeout for it.          *)
FairSpec ==
  /\ Spec
  /\ \A w \in Workers : WF_vars(WorkerStep(w))
  /\ \A r \in Requests : WF_vars(ProcessStep(r))

-----------------------------------------------------------------------------
TypeOK ==
  /\ incoming \in Seq(Requests) /\ Len(incoming) <= QueueSize
  /\ resuming \in Seq(Requests) /\ Len(resuming) <= QueueSize
  /\ at \in [Workers -> {"idle", "loop", "setHandle", "launch", "launched",
                         "resume", "crashed"}]
  /\ job \in [Workers -> Requests \cup {NoRequest}]
  /\ session \in [Requests -> Session]
  /\ \A r \in Requests : session[r].awaited <= Awaits[r]

Drivers(r) == {w \in Workers : job[w] = r /\ at[w] \notin {"idle", "launched"}}
Positions(queue, r) == {i \in 1 .. Len(queue) : queue[i] = r}
InProcess(r) == {p \in {r} : session[p].process \in {"running", "completing"}}

(* A request is in one place: queued, run by a worker, or with its process. *)
(* No coroutine is ever run by two workers, or resumed while one runs it,   *)
(* though a process may complete before the worker that started it is out.  *)
OneDriver ==
  \A r \in Requests :
    Cardinality(Drivers(r)) + Cardinality(Positions(incoming, r))
      + Cardinality(Positions(resuming, r)) + Cardinality(InProcess(r)) <= 1

(* A resumption that is queued finds both coroutines suspended, the handle  *)
(* stored, and the value of the very await the endpoint is suspended at.    *)
Resumable(s, state) ==
  /\ s.wrapper = state /\ s.frame = "suspended"
  /\ s.handle /\ s.value = s.awaited
ResumeIsSound ==
  /\ \A i \in 1 .. Len(resuming) : Resumable(session[resuming[i]], "suspended")
  /\ \A w \in Workers : at[w] = "resume" => Resumable(session[job[w]], "running")

(* "convert async process to co_await and resume coroutine by pushing them  *)
(* to the job queue when the process is over" (async.hpp:64): a suspended   *)
(* wrapper always has a worker, a process or a queued job that will resume  *)
(* it.                                                                      *)
NoResumptionLost ==
  \A r \in Requests :
    session[r].wrapper = "suspended" =>
      \/ Drivers(r) # {} \/ InProcess(r) # {} \/ Positions(resuming, r) # {}

(* The sample endpoint prints ten awaited results and then co_returns e200   *)
(* (sandbox/src/main.cpp:102-113): a response is sent when the endpoint has  *)
(* returned, after all its awaits, and not before.                           *)
ResponseIsFinal ==
  \A r \in Requests : session[r].response # "early"

(* The order in which an endpoint is written is the order in which it runs, *)
(* whichever threads complete, queue and resume: each await goes on with    *)
(* the value of its own process, an answer comes once, after the last await *)
(* wherever m_done starts as false, and no worker calls an empty callback,  *)
(* which is the end of everything, unless the endpoint never awaits.        *)
Sequential == INSTANCE SequentialEndpoint WITH
  Hasty <- {r \in Requests : TRUE \in FreshBool[r]},
  step <- [r \in Requests |->
             CASE session[r].frame = "none" -> 0
               [] session[r].frame = "final" \/ session[r].response = "final" -> Awaits[r] + 1
               [] OTHER -> session[r].awaited],
  ready <- [r \in Requests |->
              session[r].frame = "suspended" /\ session[r].value = session[r].awaited],
  outcome <- [r \in Requests |->
                IF session[r].response # "none" THEN "answered"
                ELSE IF \E w \in Workers : at[w] = "crashed" /\ job[w] = r THEN "crashed"
                ELSE "none"]
ImplementsSequential == Sequential!Spec

(* Every request whose endpoint awaits is answered, however processes and   *)
(* workers interleave: no resumption is lost and none waits for another.    *)
(* Only a request whose endpoint never awaits, which ends the program, can  *)
(* keep the others from their answer.                                       *)
EveryRequestAnswered ==
  \A r \in Requests :
    Awaits[r] > 0 /\ Positions(incoming, r) # {} ~>
      \/ session[r].response # "none"
      \/ \E w \in Workers : at[w] = "crashed" /\ Awaits[job[w]] = 0
=============================================================================

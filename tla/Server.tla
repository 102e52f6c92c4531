------------------------------- MODULE Server -------------------------------
(***************************************************************************)
(* fp::Server: the accept loop of run(), the job that handles each request,*)
(* SIGINT, and the destruction of the server while its workers still run,  *)
(* after which the program may make another one.                           *)
(* A connection is followed through the descriptor table of the process and*)
(* the fp::Socket objects that are handed from the loop to a job and from  *)
(* the job to an endpoint.  Each client connects once.  Jobs go through the*)
(* promise of the job queue (JobPool); endpoints here answer without       *)
(* awaiting (AsyncEndpoint has those that do).                             *)
(***************************************************************************)
EXTENDS Naturals, Sequences, FiniteSets, FiniteSetsExt

CONSTANTS
  Clients,    \* the clients, and their connections and requests
  Workers,    \* the worker threads
  Branch,     \* Branch[c]: how the dispatch of c's request ends
  Conduct,    \* Conduct[c]: what c may do once it has connected
  QueueSize,  \* FP_JOB_QUEUE_SIZE
  MaxFd,      \* descriptors the process may have open for clients
  MaxRuns,    \* bound: calls of run()
  Nobody      \* no client

Branches == {"badMethod", "noRoute", "wrongMethod", "served"}

ASSUME BranchAssumption == Branch \in [Clients -> Branches]
ASSUME ConductAssumption ==
  Conduct \in [Clients -> SUBSET {"whole", "half", "close", "reset"}]
ASSUME BoundAssumption ==
  /\ QueueSize \in Nat \ {0} /\ MaxFd \in Nat \ {0} /\ MaxRuns \in Nat \ {0}
ASSUME NobodyAssumption == Nobody \notin Clients

Fd == 1 .. MaxFd
Pieces == 2  \* a request arrives in one piece or in two

VARIABLES
  queues, fresh, refused, held, done,  \* the job queue: see JobPool
  main,       \* where the thread is that owns the server
  result,     \* what the last run() returned, failures by their message
  runs,       \* calls of run() so far
  client,     \* the connection of this iteration of the accept loop
  running,    \* JobScheduler::s_running
  endSignal,  \* Server::s_endSignal
  late,       \* how many connections were accepted after SIGINT
  backlog,    \* connections that nobody has accepted yet, oldest first
  peer,       \* per client: its side of the connection
  sent,       \* per client: the pieces of its request that have arrived
  table,      \* the descriptor table: the connection of each descriptor
  mainFd, jobFd, frameFd,  \* Socket::m_socket of the loop's clientSocket, of
              \* each job's captured one, of each handleRequest's own
  request,    \* per client: the pieces that recieve() has read
  at, work,   \* per worker: where it is, and the client of its job
  inbox       \* per client: the requests whose answers it was sent

Pool == INSTANCE JobPool WITH Jobs <- Clients, Priority <- [c \in Clients |-> 2]

poolVars == <<queues, fresh, refused, held, done>>
ownerVars == <<main, result, runs, client>>
flagVars == <<running, endSignal, late>>
netVars == <<backlog, peer, sent, table>>
socketVars == <<mainFd, jobFd, frameFd>>
workerVars == <<at, work>>
dataVars == <<request, inbox>>
vars == <<queues, fresh, refused, held, done, main, result, runs, client,
          running, endSignal, late, backlog, peer, sent, table,
          mainFd, jobFd, frameFd, request, at, work, inbox>>

(* What a step of the owner leaves alone, one that ends an iteration of the *)
(* loop, and a step of a worker.                                            *)
aroundOwner == <<poolVars, flagVars, netVars, socketVars, workerVars, dataVars>>
aroundIteration == <<runs, flagVars, backlog, peer, sent, jobFd, frameFd,
                     workerVars, dataVars>>
aroundWorker == <<ownerVars, flagVars, backlog, peer, sent, mainFd, request>>

Init ==
  /\ Pool!PoolInit
  /\ main = "made" /\ result = "none" /\ runs = 0 /\ client = Nobody
  /\ running = TRUE /\ endSignal = FALSE /\ late = 0
  /\ backlog = <<>>
  /\ peer = [c \in Clients |-> "away"] /\ sent = [c \in Clients |-> 0]
  /\ table = [fd \in Fd |-> Nobody]
  /\ mainFd = 0
  /\ jobFd = [c \in Clients |-> 0] /\ frameFd = [c \in Clients |-> 0]
  /\ request = [c \in Clients |-> 0] /\ inbox = [c \in Clients |-> <<>>]
  /\ at = [w \in Workers |-> "absent"] /\ work = [w \in Workers |-> Nobody]

-----------------------------------------------------------------------------
(* Socket: a moved-from socket holds 0, and a socket that holds a positive  *)
(* descriptor closes it when it is destroyed.                               *)
MovedFromKeeps(fd) == fd
MovedFrom(fd) == 0

ClosedNever(t, fd) == t
Closed(t, fd) == IF fd > 0 THEN [t EXCEPT ![fd] = Nobody] ELSE t

(* send() reaches whatever connection the descriptor has; it fails when the *)
(* descriptor has none or the peer has reset it.                            *)
SendAnswer(c, fd) ==
  LET d == IF fd > 0 THEN table[fd] ELSE Nobody IN
  IF d # Nobody /\ peer[d] # "reset"
    THEN inbox' = [inbox EXCEPT ![d] = Append(@, c)]
    ELSE UNCHANGED inbox

(* hasDataToRecieve(): bytes that have not been read, or the end of them; a *)
(* reset connection is an error.                                            *)
Readable(c) == sent[c] > request[c] \/ peer[c] = "closed"
Broken(fd) == table[fd] = Nobody \/ peer[table[fd]] = "reset"

-----------------------------------------------------------------------------
(* The clients.  A connection is established by the kernel when run() has   *)
(* listened.  The client then sends its request, at once or in two pieces,  *)
(* closes its side, resets the connection, or does nothing.                 *)
InRun == main \in {"looping", "accepting", "polling", "receiving", "rechecking",
                   "atEnd", "pushing"}
Listening == InRun \/ (main = "returned" /\ result # "cannot listen")
Queued(c) == \E i \in DOMAIN backlog : backlog[i] = c
Connected(c) == Queued(c) \/ \E fd \in Fd : table[fd] = c

Connect(c) ==
  /\ Listening /\ peer[c] = "away"
  /\ peer' = [peer EXCEPT ![c] = "open"]
  /\ backlog' = Append(backlog, c)
  /\ UNCHANGED <<poolVars, ownerVars, flagVars, sent, table, socketVars,
                 workerVars, dataVars>>

Write(c) ==
  /\ Connected(c) /\ peer[c] = "open"
  /\ \E n \in 1 .. Pieces - sent[c] :
       /\ n < Pieces => "half" \in Conduct[c]
       /\ n = Pieces => "whole" \in Conduct[c]
       /\ sent' = [sent EXCEPT ![c] = @ + n]
  /\ UNCHANGED <<poolVars, ownerVars, flagVars, backlog, peer, table, socketVars,
                 workerVars, dataVars>>

Leave(c) ==
  /\ Connected(c)
  /\ \/ "close" \in Conduct[c] /\ peer[c] = "open" /\ peer' = [peer EXCEPT ![c] = "closed"]
     \/ "reset" \in Conduct[c] /\ peer[c] # "reset" /\ peer' = [peer EXCEPT ![c] = "reset"]
  /\ UNCHANGED <<poolVars, ownerVars, flagVars, backlog, sent, table, socketVars,
                 workerVars, dataVars>>

(* SIGINT, once run() has installed the handler; nothing clears the flag. *)
Signal ==
  /\ runs > 0 /\ ~endSignal
  /\ endSignal' = TRUE
  /\ UNCHANGED <<poolVars, ownerVars, running, late, netVars, socketVars,
                 workerVars, dataVars>>

-----------------------------------------------------------------------------
(* The owner's thread.  create() starts the workers and then binds; when it *)
(* fails the workers are there all the same.  After a server the program    *)
(* may make another one, whose scheduler finds s_running as it was left.    *)
CreateSocket == main' \in {"created", "failed"}
Create ==
  /\ main \in {"made", "gone"}
  /\ CreateSocket
  /\ result' = "none"
  /\ at' = [w \in Workers |-> "test"]
  /\ UNCHANGED <<poolVars, runs, client, flagVars, netVars, socketVars, work, dataVars>>

(* run(): a call that cannot listen returns at once, any other one loops,   *)
(* and the loop tests the flag first.                                       *)
LoopStartUntested == "accepting"
LoopStart == "looping"
Run ==
  /\ main \in {"created", "returned"} /\ runs < MaxRuns
  /\ runs' = runs + 1
  /\ \/ main' = LoopStart /\ result' = "none"
     \/ main' = "returned" /\ result' = "cannot listen"
  /\ UNCHANGED <<client, aroundOwner>>

(* What ends an iteration: the loop's socket is destroyed, and run()        *)
(* returns r or goes on.                                                    *)
EndIteration(r, t, fd) ==
  /\ table' = Closed(t, fd)
  /\ mainFd' = 0
  /\ client' = Nobody
  /\ IF r = "none" THEN main' = "looping" /\ UNCHANGED result
                   ELSE main' = "returned" /\ result' = r

LoopTest ==
  /\ main = "looping"
  /\ IF endSignal THEN main' = "returned" /\ result' = "success"
                  ELSE main' = "accepting" /\ UNCHANGED result
  /\ UNCHANGED <<runs, client, aroundOwner>>

(* accept(1000ms): nobody came, or a signal interrupted the wait. *)
NobodyCameAndNoSignal == backlog = <<>> /\ ~endSignal
NobodyCame == backlog = <<>>
NothingToAccept ==
  /\ main = "accepting" /\ NobodyCame
  /\ main' = "looping"
  /\ UNCHANGED <<result, runs, client, aroundOwner>>

(* accept() takes the lowest free descriptor. *)
Unused == {fd \in Fd : table[fd] = Nobody}
Accept ==
  /\ main = "accepting" /\ backlog # <<>> /\ Unused # {}
  /\ LET fd == Min(Unused) IN
       /\ mainFd' = fd
       /\ table' = [table EXCEPT ![fd] = Head(backlog)]
  /\ client' = Head(backlog)
  /\ backlog' = Tail(backlog)
  /\ late' = IF endSignal THEN late + 1 ELSE late
  /\ main' = "polling"
  /\ UNCHANGED <<poolVars, result, runs, running, endSignal, peer, sent, jobFd, frameFd,
                 workerVars, dataVars>>
AcceptFails ==
  /\ main = "accepting" /\ backlog # <<>> /\ Unused = {}
  /\ main' = "returned" /\ result' = "cannot accept"
  /\ UNCHANGED <<runs, client, aroundOwner>>

(* clientSocket.hasDataToRecieve(1000ms): a reset connection is an error    *)
(* that ends run(), one that stays silent is dropped.                       *)
TimedOutAnyway(c) == TRUE
TimedOut(c) == ~Readable(c)
AfterTimeoutFailure == "cannot poll"
AfterTimeout == "none"
Poll ==
  /\ main = "polling" /\ ~Broken(mainFd) /\ Readable(client)
  /\ main' = "receiving"
  /\ UNCHANGED <<result, runs, client, aroundOwner>>
PollFails ==
  /\ main = "polling" /\ Broken(mainFd)
  /\ EndIteration("cannot poll", table, mainFd)
  /\ UNCHANGED <<poolVars, aroundIteration>>
Drop ==
  /\ main = "polling" /\ ~Broken(mainFd) /\ TimedOut(client)
  /\ EndIteration(AfterTimeout, table, mainFd)
  /\ UNCHANGED <<poolVars, aroundIteration>>

(* recieve(): recv() yields as much of what is there as its buffer holds,   *)
(* nothing at the end; it is called again while more is there to read.      *)
ArrivedTwice(c) == 2 * sent[c]
Arrived(c) == sent[c]
MoreNever(c) == FALSE
More(c) == Readable(c)
Receive ==
  /\ main = "receiving" /\ ~Broken(mainFd)
  /\ IF sent[client] = request[client]
       THEN main' = "atEnd" /\ UNCHANGED request
       ELSE /\ \E n \in request[client] + 1 .. Arrived(client) :
                 request' = [request EXCEPT ![client] = n]
            /\ main' = "rechecking"
  /\ UNCHANGED <<poolVars, result, runs, client, flagVars, netVars, socketVars,
                 workerVars, inbox>>
Recheck ==
  /\ main \in {"rechecking", "atEnd"} /\ ~Broken(mainFd)
  /\ main' = IF main = "rechecking" /\ More(client) THEN "receiving" ELSE "pushing"
  /\ UNCHANGED <<result, runs, client, aroundOwner>>
ReceiveFails ==
  /\ main \in {"receiving", "rechecking", "atEnd"} /\ Broken(mainFd)
  /\ EndIteration("cannot read", table, mainFd)
  /\ UNCHANGED <<poolVars, aroundIteration>>

(* m_handleRequest: the socket moves into a job.  A job that the queue      *)
(* refuses is destroyed with its socket, and run() returns.                 *)
HandleRequest ==
  /\ main = "pushing"
  /\ Pool!Submit(client)
  /\ jobFd' = [jobFd EXCEPT ![client] = mainFd]
  /\ EndIteration("none", table, MovedFrom(mainFd))
  /\ UNCHANGED <<runs, flagVars, backlog, peer, sent, frameFd, workerVars, dataVars>>
HandleRequestFails ==
  /\ main = "pushing"
  /\ Pool!Refuse(client)
  /\ EndIteration("cannot handle", Closed(table, mainFd), MovedFrom(mainFd))
  /\ UNCHANGED aroundIteration

(* ~Server destroys m_serverSocket and m_endpoints, and then m_jobScheduler: *)
(* s_running is cleared and every worker joined.                             *)
Destroy ==
  /\ main \in {"created", "failed", "returned"}
  /\ main' = "tearing"
  /\ backlog' = <<>>
  /\ peer' = [c \in Clients |-> IF Queued(c) THEN "reset" ELSE peer[c]]
  /\ UNCHANGED <<poolVars, result, runs, client, flagVars, sent, table, socketVars,
                 workerVars, dataVars>>
StopWorkers ==
  /\ main = "tearing"
  /\ main' = "joining" /\ running' = FALSE
  /\ UNCHANGED <<poolVars, result, runs, client, endSignal, late, netVars, socketVars,
                 workerVars, dataVars>>
JoinedNobody == TRUE
Joined == \A w \in Workers : at[w] = "exited"
Join ==
  /\ main = "joining" /\ Joined
  /\ main' = "gone"
  /\ UNCHANGED <<result, runs, client, aroundOwner>>

-----------------------------------------------------------------------------
(* The workers: s_threadMain, where a wait that times out found no job. *)
Alive == main \notin {"tearing", "joining", "gone"}   \* m_endpoints exists

Moves(w, from, to) == at[w] = from /\ at' = [at EXCEPT ![w] = to]

Test(w) ==
  /\ Moves(w, "test", IF running THEN "ready" ELSE "exited")
  /\ UNCHANGED <<poolVars, aroundWorker, table, jobFd, frameFd, work, inbox>>

WaitTimesOut(w) ==
  /\ queues[2] = <<>>
  /\ Moves(w, "ready", "test")
  /\ UNCHANGED <<poolVars, aroundWorker, table, jobFd, frameFd, work, inbox>>

TakeJob(w) ==
  /\ Moves(w, "ready", "dispatch")
  /\ Pool!Take(2)
  /\ work' = [work EXCEPT ![w] = Head(queues[2])]
  /\ UNCHANGED <<aroundWorker, table, jobFd, frameFd, inbox>>

(* The job looks up the method in a static table, then the route and its    *)
(* method in m_endpoints, and moves its socket into the endpoint's          *)
(* handleRequest.  Half a request may be cut anywhere, even before its      *)
(* route, where the second token it is split into is an empty one.          *)
Endings(c) ==
  CASE request[c] = 0 -> {"badMethod"}
    [] request[c] = Pieces -> {Branch[c]}
    [] OTHER -> Branches

DispatchMoves(w) ==
  LET c == work[w] IN
  /\ Moves(w, "dispatch", "serving")
  /\ "served" \in Endings(c) /\ Alive
  /\ frameFd' = [frameFd EXCEPT ![c] = jobFd[c]]
  /\ jobFd' = [jobFd EXCEPT ![c] = MovedFrom(@)]
  /\ UNCHANGED <<poolVars, aroundWorker, table, work, inbox>>
DispatchRejects(w) ==
  LET c == work[w] IN
  /\ Moves(w, "dispatch", "finishing")
  /\ \/ "badMethod" \in Endings(c)
     \/ Endings(c) \cap {"noRoute", "wrongMethod"} # {} /\ Alive
  /\ SendAnswer(c, jobFd[c])
  /\ UNCHANGED <<poolVars, aroundWorker, table, jobFd, frameFd, work>>

(* To use m_endpoints after its destruction is undefined: nothing is        *)
(* expected of that worker any more.                                        *)
UseAfterDestruction(w) ==
  /\ ~Alive
  /\ \/ Moves(w, "dispatch", "crashed") /\ Endings(work[w]) # {"badMethod"}
     \/ Moves(w, "serving", "crashed")
  /\ UNCHANGED <<poolVars, aroundWorker, table, jobFd, frameFd, work, inbox>>

(* Endpoint::handleRequest: the callback, reached through the endpoint, then*)
(* the response and the end of the coroutine, which destroys its socket.    *)
Serve(w) ==
  /\ Alive
  /\ Moves(w, "serving", "sending")
  /\ UNCHANGED <<poolVars, aroundWorker, table, jobFd, frameFd, work, inbox>>
Respond(w) ==
  LET c == work[w] IN
  /\ Moves(w, "sending", "finishing")
  /\ SendAnswer(c, frameFd[c])
  /\ table' = Closed(table, frameFd[c])
  /\ frameFd' = [frameFd EXCEPT ![c] = 0]
  /\ UNCHANGED <<poolVars, aroundWorker, jobFd, work>>

(* The job is destroyed with what it still owns. *)
Finish(w) ==
  LET c == work[w] IN
  /\ Moves(w, "finishing", "test")
  /\ Pool!Finish(c)
  /\ table' = Closed(table, jobFd[c])
  /\ jobFd' = [jobFd EXCEPT ![c] = 0]
  /\ work' = [work EXCEPT ![w] = Nobody]
  /\ UNCHANGED <<aroundWorker, frameFd, inbox>>

-----------------------------------------------------------------------------
ClientStep(c) == Connect(c) \/ Write(c) \/ Leave(c)

OwnerStep == Create \/ Run \/ Destroy

RunStep ==
  \/ LoopTest \/ NothingToAccept \/ Accept \/ AcceptFails
  \/ Poll \/ PollFails \/ Drop \/ Receive \/ Recheck \/ ReceiveFails
  \/ HandleRequest \/ HandleRequestFails

DestroyStep == StopWorkers \/ Join

WorkerStep(w) ==
  \/ Test(w) \/ WaitTimesOut(w) \/ TakeJob(w)
  \/ DispatchMoves(w) \/ DispatchRejects(w) \/ UseAfterDestruction(w)
  \/ Serve(w) \/ Respond(w) \/ Finish(w)

(* A worker is beyond any expectation. *)
Ended ==
  /\ \E w \in Workers : at[w] = "crashed"
  /\ UNCHANGED vars

Next ==
  \/ OwnerStep \/ RunStep \/ DestroyStep \/ Signal
  \/ \E c \in Clients : ClientStep(c)
  \/ \E w \in Workers : WorkerStep(w)
  \/ Ended

Spec == Init /\ [][Next]_vars

(* The loop and the workers run; waits have deadlines and callbacks return. *)
(* Nothing is expected of clients, of the owner or of the user.             *)
FairSpec ==
  /\ Spec
  /\ WF_vars(RunStep)
  /\ \A w \in Workers : WF_vars(WorkerStep(w))

-----------------------------------------------------------------------------
Failures == {"cannot listen", "cannot accept", "cannot poll", "cannot read",
             "cannot handle"}

TypeOK ==
  /\ queues \in [0 .. 5 -> Seq(Clients)]
  /\ \A l \in 0 .. 5 : Len(queues[l]) <= QueueSize
  /\ fresh \cup refused \cup held \cup done \subseteq Clients
  /\ InRun \/ main \in {"made", "created", "failed", "returned", "tearing", "joining",
                        "gone"}
  /\ result \in {"none", "success"} \cup Failures
  /\ runs \in 0 .. MaxRuns /\ client \in Clients \cup {Nobody}
  /\ running \in BOOLEAN /\ endSignal \in BOOLEAN /\ late \in Nat
  /\ backlog \in Seq(Clients)
  /\ peer \in [Clients -> {"away", "open", "closed", "reset"}]
  /\ sent \in [Clients -> 0 .. Pieces]
  /\ \A c \in Clients : request[c] \in 0 .. sent[c]
  /\ table \in [Fd -> Clients \cup {Nobody}]
  /\ mainFd \in 0 .. MaxFd
  /\ jobFd \in [Clients -> 0 .. MaxFd] /\ frameFd \in [Clients -> 0 .. MaxFd]
  /\ at \in [Workers -> {"absent", "test", "ready", "dispatch", "serving", "sending",
                         "finishing", "exited", "crashed"}]
  /\ work \in [Workers -> Clients \cup {Nobody}]
  /\ inbox \in [Clients -> Seq(Clients)]

(* Every open descriptor is held by exactly one socket object, and that one *)
(* belongs to the connection the descriptor is of: no descriptor is closed  *)
(* twice (its number may be another client's by then) or forgotten.         *)
Sockets(fd) ==
  {<<"main", client>> : s \in {x \in {mainFd} : x = fd}}
    \cup {<<"job", c>> : c \in {d \in Clients : jobFd[d] = fd}}
    \cup {<<"frame", c>> : c \in {d \in Clients : frameFd[d] = fd}}
OneHolder ==
  \A fd \in Fd :
    IF table[fd] = Nobody THEN Sockets(fd) = {}
      ELSE \E kind \in {"main", "job", "frame"} : Sockets(fd) = {<<kind, table[fd]>>}

(* A client is sent the answer to its own request, at most once, though     *)
(* descriptors are handed from thread to thread and their numbers reused.   *)
AnswerReachesItsClient == \A c \in Clients : inbox[c] \in {<<>>, <<c>>}

(* run() gives up for a cause: a connection that was reset or a request the *)
(* queue refused, never for a client that is slow, silent or leaves.        *)
FailureHasCause ==
  /\ result \in {"cannot poll", "cannot read"} => \E c \in Clients : peer[c] = "reset"
  /\ result = "cannot handle" => refused # {}

(* However many clients have come, the connections open are at most those   *)
(* of the queued jobs, of the busy workers and of the accept loop, hence at *)
(* most QueueSize + Cardinality(Workers) + 1.                               *)
Busy == {w \in Workers : work[w] # Nobody}
DescriptorsBounded ==
  Cardinality(Fd \ Unused) <=
    Len(queues[2]) + Cardinality(Busy) + (IF client # Nobody THEN 1 ELSE 0)

(* A worker finds m_endpoints destroyed only between its destruction and    *)
(* the end of ~Server; after that the only connections left open are those  *)
(* of jobs that stay in the static queue, and no job of theirs, which refers*)
(* to the server that is gone, is ever run, not by the threads of another   *)
(* server either.                                                           *)
GoneIsQuiet ==
  /\ (\E w \in Workers : at[w] = "crashed") => main \in {"tearing", "joining"}
  /\ ~running /\ main # "joining" =>
       \A w \in Workers : at[w] \in {"absent", "test", "exited"}
  /\ main = "gone" => \A fd \in Fd : table[fd] # Nobody =>
                        \E i \in DOMAIN queues[2] : queues[2][i] = table[fd]

(* Of a request that arrives in one piece the job gets all, however little  *)
(* of it the buffer of recieve() holds, or nothing, when the client closed  *)
(* instead; only of one that arrives in two pieces may it get a part.       *)
WholeUnlessSplit ==
  \A c \in Clients :
    "half" \notin Conduct[c] /\ ((main = "pushing" /\ client = c) \/ c \notin fresh) =>
      request[c] \in {0, Pieces}

(* SIGINT is final: no run() accepts another connection, neither this one,  *)
(* unless it is in accept() already, nor a later one, of any server.        *)
SignalIsFinal == late <= 1

(* A client that has sent its request, or a part of it, by the time it is   *)
(* accepted is answered, unless it resets its connection, run() returns     *)
(* before, or an earlier server of the process was destroyed, whose         *)
(* scheduler let no thread run after it: no silent client in front of it,   *)
(* no wait and no queued job delays it for ever.                            *)
RequestAnswered ==
  \A c \in Clients :
    (sent[c] > 0 /\ Queued(c) /\ running) ~>
      (inbox[c] # <<>> \/ peer[c] = "reset" \/ ~InRun)

(* SIGINT ends run(), even when no client ever comes again. *)
SignalEndsRun == (endSignal /\ InRun) ~> ~InRun
=============================================================================

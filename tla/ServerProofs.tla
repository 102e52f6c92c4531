---------------------------- MODULE ServerProofs ----------------------------
(***************************************************************************)
(* Proofs about Server for any clients, whatever they do and ask for, any  *)
(* workers, queue size, number of descriptors and number of runs.  IInv    *)
(* says where a client can be (in the backlog, with the accept loop, in the*)
(* queue, with a worker) and which socket has its descriptor there.        *)
(***************************************************************************)
EXTENDS Server, SequenceLemmas

-----------------------------------------------------------------------------
Waiting(c) == IsIn(c, queues[2])
Pending(c) == IsIn(c, backlog)

Typed ==
  /\ queues \in [0 .. 5 -> Seq(Clients)]
  /\ \A l \in 0 .. 5 : Len(queues[l]) <= QueueSize
  /\ fresh \in SUBSET Clients /\ refused \in SUBSET Clients
  /\ held \in SUBSET Clients /\ done \in SUBSET Clients
  /\ InRun \/ main \in {"made", "created", "failed", "returned", "tearing", "joining",
                        "gone"}
  /\ result \in {"none", "success"} \cup Failures
  /\ runs \in 0 .. MaxRuns /\ client \in Clients \cup {Nobody}
  /\ running \in BOOLEAN /\ endSignal \in BOOLEAN /\ late \in Nat
  /\ backlog \in Seq(Clients)
  /\ peer \in [Clients -> {"away", "open", "closed", "reset"}]
  /\ sent \in [Clients -> 0 .. Pieces] /\ request \in [Clients -> 0 .. Pieces]
  /\ table \in [Fd -> Clients \cup {Nobody}]
  /\ mainFd \in 0 .. MaxFd
  /\ jobFd \in [Clients -> 0 .. MaxFd] /\ frameFd \in [Clients -> 0 .. MaxFd]
  /\ at \in [Workers -> {"absent", "test", "ready", "dispatch", "serving", "sending",
                         "finishing", "exited", "crashed"}]
  /\ work \in [Workers -> Clients \cup {Nobody}]
  /\ inbox \in [Clients -> Seq(Clients)]

(* The loop has a client, and its socket the descriptor, from accept() to    *)
(* the end of the iteration.                                                 *)
LoopAt ==
  /\ client # Nobody <=> main \in {"polling", "receiving", "rechecking", "atEnd", "pushing"}
  /\ mainFd > 0 <=> client # Nobody
  /\ mainFd > 0 => table[mainFd] = client
  /\ client # Nobody => client \in fresh /\ peer[client] # "away" /\ ~Pending(client)

(* A client is pending only before it is accepted, waits and is worked for   *)
(* only after it was pushed, and no two places have it.                      *)
Placed ==
  /\ Distinct(backlog) /\ Distinct(queues[2])
  /\ \A c \in Clients :
       /\ peer[c] = "away" => c \in fresh
       /\ Pending(c) => c \in fresh /\ peer[c] # "away"
       /\ Waiting(c) => c \notin fresh /\ c \notin held
       /\ c \in held => c \notin fresh

(* A worker has a job from its dispatch on, which no other worker has, and   *)
(* the job or the frame of the endpoint has the socket.                      *)
WorkerAt(w) ==
  /\ work[w] = Nobody <=> at[w] \in {"absent", "test", "ready", "exited"}
  /\ work[w] # Nobody => work[w] \in held
  /\ \A v \in Workers : work[v] = work[w] /\ work[w] # Nobody => v = w
  /\ at[w] = "dispatch" => jobFd[work[w]] > 0
  /\ at[w] \in {"serving", "sending"} => frameFd[work[w]] > 0
  /\ at[w] = "finishing" => frameFd[work[w]] = 0

(* A worker crashes only while the server is being destroyed, and workers    *)
(* do nothing any more when it was.                                          *)
Quiet(w) ==
  /\ at[w] = "crashed" => main \in {"tearing", "joining"}
  /\ ~running /\ main # "joining" => at[w] \in {"absent", "test", "exited"}
  /\ main = "made" => at[w] = "absent"
  /\ main = "gone" => at[w] = "exited"

(* A socket that holds a descriptor holds that of its own client, and there  *)
(* is somebody who will destroy it.                                          *)
SocketAt(c) ==
  /\ c \in fresh => jobFd[c] = 0 /\ frameFd[c] = 0
  /\ Waiting(c) => jobFd[c] > 0
  /\ jobFd[c] > 0 =>
       /\ table[jobFd[c]] = c /\ frameFd[c] = 0
       /\ \/ Waiting(c)
          \/ \E w \in Workers : work[w] = c /\ at[w] \in {"dispatch", "finishing", "crashed"}
  /\ frameFd[c] > 0 =>
       /\ table[frameFd[c]] = c
       /\ \E w \in Workers : work[w] = c /\ at[w] \in {"serving", "sending", "crashed"}

(* No descriptor is forgotten. *)
Owned ==
  \A fd \in Fd : table[fd] # Nobody =>
    fd = mainFd \/ jobFd[table[fd]] = fd \/ frameFd[table[fd]] = fd

(* A client is sent its answer just before its job is finished. *)
Answered(c) ==
  /\ inbox[c] \in {<<>>, <<c>>}
  /\ inbox[c] # <<>> =>
       /\ c \notin fresh /\ ~Waiting(c)
       /\ \A w \in Workers : work[w] = c => at[w] = "finishing"

Whole(c) ==
  /\ request[c] <= sent[c]
  /\ "half" \notin Conduct[c] =>
       /\ sent[c] \in {0, Pieces}
       /\ (main \in {"atEnd", "pushing"} /\ client = c) \/ c \notin fresh =>
            request[c] \in {0, Pieces}

(* After the signal the loop is in accept() only if it was there already.    *)
Final ==
  /\ late <= 1
  /\ ~endSignal \/ main = "accepting" => late = 0

IInv ==
  /\ Typed /\ LoopAt /\ Placed /\ Owned /\ Final /\ FailureHasCause
  /\ \A w \in Workers : WorkerAt(w) /\ Quiet(w)
  /\ \A c \in Clients : SocketAt(c) /\ Answered(c) /\ Whole(c)

-----------------------------------------------------------------------------
(* A part of IInv holds after a step that leaves what it is about alone. *)
LEMMA Kept ==
  ASSUME IInv
  PROVE  /\ UNCHANGED <<main, client, mainFd, table, fresh, peer, backlog>> => LoopAt'
         /\ UNCHANGED <<backlog, queues, fresh, peer, held>> => Placed'
         /\ UNCHANGED <<at, work, held, jobFd, frameFd>> => \A w \in Workers : WorkerAt(w)'
         /\ UNCHANGED <<at, main, running>> => \A w \in Workers : Quiet(w)'
         /\ UNCHANGED <<fresh, queues, jobFd, frameFd, table, work, at>> =>
              \A c \in Clients : SocketAt(c)'
         /\ UNCHANGED <<table, mainFd, jobFd, frameFd>> => Owned'
         /\ UNCHANGED <<inbox, fresh, queues, work, at>> => \A c \in Clients : Answered(c)'
         /\ UNCHANGED <<request, sent, main, client, fresh>> => \A c \in Clients : Whole(c)'
         /\ UNCHANGED <<late, endSignal, main>> => Final'
         /\ UNCHANGED <<result, peer, refused>> => FailureHasCause'
<1>1. UNCHANGED <<main, client, mainFd, table, fresh, peer, backlog>> => LoopAt'
  BY DEF IInv, LoopAt, Pending, IsIn
<1>2. UNCHANGED <<backlog, queues, fresh, peer, held>> => Placed'
  BY DEF IInv, Placed, Pending, Waiting, IsIn, Distinct
<1>3. UNCHANGED <<at, work, held, jobFd, frameFd>> => \A w \in Workers : WorkerAt(w)'
  BY DEF IInv, WorkerAt
<1>4. UNCHANGED <<at, main, running>> => \A w \in Workers : Quiet(w)'
  BY DEF IInv, Quiet
<1>5. UNCHANGED <<fresh, queues, jobFd, frameFd, table, work, at>> =>
        \A c \in Clients : SocketAt(c)'
  BY DEF IInv, SocketAt, Waiting, IsIn
<1>6. UNCHANGED <<table, mainFd, jobFd, frameFd>> => Owned'
  BY DEF IInv, Owned
<1>7. UNCHANGED <<inbox, fresh, queues, work, at>> => \A c \in Clients : Answered(c)'
  BY DEF IInv, Answered, Waiting, IsIn
<1>8. UNCHANGED <<request, sent, main, client, fresh>> => \A c \in Clients : Whole(c)'
  BY DEF IInv, Whole
<1>9. UNCHANGED <<late, endSignal, main>> => Final'
  BY DEF IInv, Final
<1>10. UNCHANGED <<result, peer, refused>> => FailureHasCause'
  BY DEF IInv, FailureHasCause
<1> QED
  BY <1>1, <1>2, <1>3, <1>4, <1>5, <1>6, <1>7, <1>8, <1>9, <1>10

(* Queued says of a client what Pending says by positions. *)
LEMMA QueuedIsPending ==
  ASSUME Typed, NEW c
  PROVE  Queued(c) <=> Pending(c)
BY LenProperties DEF Typed, Queued, Pending, IsIn

-----------------------------------------------------------------------------
(* The clients and the user *)

(* A client that connects was in no place before. *)
LEMMA ConnectMoves ==
  ASSUME IInv, NEW c \in Clients, Connect(c)
  PROVE  IInv'
<1>1. /\ peer[c] = "away" /\ peer' = [peer EXCEPT ![c] = "open"]
      /\ backlog' = Append(backlog, c)
      /\ UNCHANGED <<poolVars, ownerVars, flagVars, sent, table, socketVars,
                     workerVars, dataVars>>
  BY DEF Connect
<1>2. Typed /\ Placed /\ LoopAt /\ FailureHasCause /\ c \in fresh /\ ~Pending(c)
  BY <1>1 DEF IInv, Placed
<1>3. /\ backlog' \in Seq(Clients) /\ Distinct(backlog')
      /\ \A d : Pending(d)' <=> Pending(d) \/ d = c
  BY <1>1, <1>2, AppendIsIn DEF Typed, Placed, Pending
<1>4. /\ peer' \in [Clients -> {"away", "open", "closed", "reset"}] /\ peer'[c] = "open"
      /\ \A d \in Clients \ {c} : peer'[d] = peer[d]
  BY <1>1, <1>2 DEF Typed
<1>5. Typed'
  BY <1>1, <1>2, <1>3, <1>4
  DEF Typed, poolVars, ownerVars, flagVars, socketVars, workerVars, dataVars, InRun
<1>6. LoopAt'
  BY <1>1, <1>2, <1>3, <1>4 DEF Typed, LoopAt, poolVars, ownerVars, socketVars
<1>7. Placed'
  BY <1>1, <1>2, <1>3, <1>4 DEF Placed, Waiting, IsIn, Distinct, poolVars
<1>8. FailureHasCause'
  BY <1>1, <1>2, <1>4 DEF FailureHasCause, ownerVars, poolVars
<1> QED
  BY <1>1, <1>5, <1>6, <1>7, <1>8, Kept
  DEF IInv, poolVars, ownerVars, flagVars, socketVars, workerVars, dataVars

(* A client that never splits its request writes all of it, once. *)
LEMMA WriteMoves ==
  ASSUME IInv, NEW c \in Clients, Write(c)
  PROVE  IInv'
<1>1. UNCHANGED <<poolVars, ownerVars, flagVars, backlog, peer, table, socketVars,
                  workerVars, dataVars>>
  BY DEF Write
<1>2. PICK n \in 1 .. Pieces - sent[c] :
        /\ n < Pieces => "half" \in Conduct[c]
        /\ sent' = [sent EXCEPT ![c] = sent[c] + n]
  BY DEF Write
<1>3. Typed /\ sent[c] \in 0 .. Pieces
  BY DEF IInv, Typed
<1>4. sent[c] + n \in 0 .. Pieces /\ sent[c] < sent[c] + n
  BY <1>3 DEF Pieces
<1>5. /\ sent' \in [Clients -> 0 .. Pieces] /\ sent'[c] = sent[c] + n
      /\ \A d \in Clients \ {c} : sent'[d] = sent[d]
  BY <1>2, <1>3, <1>4 DEF Typed
<1>6. Typed'
  BY <1>1, <1>3, <1>5
  DEF Typed, poolVars, ownerVars, flagVars, socketVars, workerVars, dataVars, InRun
<1>7. ASSUME NEW d \in Clients PROVE Whole(d)'
  <2>1. Whole(d) /\ request[d] \in 0 .. Pieces /\ sent[d] \in 0 .. Pieces
    BY <1>3 DEF IInv, Typed
  <2>2. CASE d = c
    <3>1. request[c] <= sent'[c]
      BY <1>4, <1>5, <2>1, <2>2 DEF Whole, Pieces
    <3>2. "half" \notin Conduct[c] => sent'[c] = Pieces
      BY <1>2, <1>4, <1>5, <2>1, <2>2 DEF Pieces
    <3> QED
      BY <1>1, <2>1, <2>2, <3>1, <3>2 DEF Whole, poolVars, ownerVars, dataVars
  <2>3. CASE d # c
    BY <1>1, <1>5, <2>1, <2>3 DEF Whole, poolVars, ownerVars, dataVars
  <2> QED
    BY <2>2, <2>3
<1> QED
  BY <1>1, <1>6, <1>7, Kept
  DEF IInv, poolVars, ownerVars, flagVars, socketVars, workerVars, dataVars

(* A client that leaves keeps its place in the server. *)
LEMMA LeaveMoves ==
  ASSUME IInv, NEW c \in Clients, Leave(c)
  PROVE  IInv'
<1>1. UNCHANGED <<poolVars, ownerVars, flagVars, backlog, sent, table, socketVars,
                  workerVars, dataVars>>
  BY DEF Leave
<1>2. PICK how \in {"closed", "reset"} :
        peer' = [peer EXCEPT ![c] = how] /\ (how = "closed" => peer[c] = "open")
  BY DEF Leave
<1>3. Typed /\ LoopAt /\ Placed /\ FailureHasCause
  BY DEF IInv
<1>4. /\ peer' \in [Clients -> {"away", "open", "closed", "reset"}] /\ peer'[c] = how
      /\ \A d \in Clients \ {c} : peer'[d] = peer[d]
  BY <1>2, <1>3 DEF Typed
<1>5. Typed'
  BY <1>1, <1>3, <1>4
  DEF Typed, poolVars, ownerVars, flagVars, socketVars, workerVars, dataVars, InRun
<1>6. LoopAt'
  BY <1>1, <1>3, <1>4
  DEF Typed, LoopAt, Pending, IsIn, poolVars, ownerVars, socketVars
<1>7. Placed'
  BY <1>1, <1>3, <1>4 DEF Placed, Pending, Waiting, IsIn, Distinct, poolVars
<1>8. FailureHasCause'
  BY <1>1, <1>2, <1>3, <1>4 DEF FailureHasCause, ownerVars, poolVars
<1> QED
  BY <1>1, <1>5, <1>6, <1>7, <1>8, Kept
  DEF IInv, poolVars, ownerVars, flagVars, socketVars, workerVars, dataVars

(* The signal handler only sets the flag. *)
LEMMA SignalMoves ==
  ASSUME IInv, Signal
  PROVE  IInv'
<1>1. /\ endSignal' = TRUE
      /\ UNCHANGED <<poolVars, ownerVars, running, late, netVars, socketVars,
                     workerVars, dataVars>>
  BY DEF Signal
<1>2. Typed'
  BY <1>1 DEF IInv, Typed, poolVars, ownerVars, netVars, socketVars, workerVars, dataVars, InRun
<1>3. Final'
  BY <1>1 DEF IInv, Final, ownerVars
<1> QED
  BY <1>1, <1>2, <1>3, Kept
  DEF IInv, poolVars, ownerVars, netVars, socketVars, workerVars, dataVars

-----------------------------------------------------------------------------
(* The owner *)

(* The workers that create() starts have no job. *)
LEMMA CreateMoves ==
  ASSUME IInv, Create
  PROVE  IInv'
<1>1. /\ main \in {"made", "gone"} /\ main' \in {"created", "failed"} /\ result' = "none"
      /\ at' = [w \in Workers |-> "test"]
      /\ UNCHANGED <<poolVars, runs, client, flagVars, netVars, socketVars, work, dataVars>>
  BY DEF Create, CreateSocket
<1>2. Typed /\ LoopAt /\ \A w \in Workers : WorkerAt(w) /\ Quiet(w)
  BY DEF IInv
<1>3. \A w \in Workers : work[w] = Nobody
  BY <1>1, <1>2 DEF WorkerAt, Quiet
<1>4. Typed'
  <2>1. at' \in [Workers -> {"absent", "test", "ready", "dispatch", "serving", "sending",
                             "finishing", "exited", "crashed"}]
    BY <1>1
  <2> QED
    BY <1>1, <1>2, <2>1 DEF Typed, poolVars, flagVars, netVars, socketVars, dataVars, InRun
<1>5. LoopAt'
  BY <1>1, <1>2 DEF LoopAt, Pending, IsIn, poolVars, netVars, socketVars
<1>6. ASSUME NEW w \in Workers PROVE WorkerAt(w)' /\ Quiet(w)'
  BY <1>1, <1>2, <1>3 DEF WorkerAt, Quiet
<1>7. ASSUME NEW c \in Clients PROVE SocketAt(c)' /\ Answered(c)' /\ Whole(c)'
  <2>1. SocketAt(c) /\ Answered(c) /\ Whole(c)
    BY DEF IInv
  <2>2. c # Nobody
    BY NobodyAssumption
  <2>3. Waiting(c)' <=> Waiting(c)
    BY <1>1 DEF Waiting, IsIn, poolVars
  <2>4. SocketAt(c)'
    BY <1>1, <1>3, <2>1, <2>2, <2>3 DEF SocketAt, poolVars, netVars, socketVars
  <2>5. Answered(c)'
    BY <1>1, <1>3, <2>1, <2>2, <2>3 DEF Answered, poolVars, dataVars
  <2>6. Whole(c)'
    BY <1>1, <2>1 DEF Whole, poolVars, netVars, dataVars
  <2> QED
    BY <2>4, <2>5, <2>6
<1>8. Final'
  BY <1>1 DEF IInv, Final, flagVars
<1>9. FailureHasCause'
  BY <1>1 DEF FailureHasCause
<1> QED
  BY <1>1, <1>4, <1>5, <1>6, <1>7, <1>8, <1>9, Kept
  DEF IInv, poolVars, netVars, socketVars

(* Steps that take the thread of the owner from one place to another. *)
LEMMA MainMoves ==
  ASSUME IInv, NEW there, main' = there,
         InRun' \/ there \in {"returned", "gone"},
         client = Nobody <=>
           there \notin {"polling", "receiving", "rechecking", "atEnd", "pushing"},
         UNCHANGED <<poolVars, client, running, endSignal, late, netVars, socketVars,
                     workerVars, dataVars>>,
         runs' \in 0 .. MaxRuns, result' \in {"none", "success"} \cup Failures,
         result' \in {result, "none", "success", "cannot listen", "cannot accept"},
         main \in {"tearing", "made", "gone"} => there = main,
         main = "joining" <=> there = "gone",
         there = "gone" => \A w \in Workers : at[w] = "exited",
         there = "accepting" => late = 0,
         there \in {"atEnd", "pushing"} =>
           \/ request[client] = sent[client]
           \/ main = "atEnd"
  PROVE  IInv'
<1>1. Typed /\ LoopAt /\ Final /\ FailureHasCause
  BY DEF IInv
<1>2. Typed'
  BY <1>1 DEF Typed, poolVars, netVars, socketVars, workerVars, dataVars, InRun
<1>3. LoopAt'
  BY <1>1 DEF LoopAt, Pending, IsIn, poolVars, netVars, socketVars
<1>4. ASSUME NEW w \in Workers PROVE Quiet(w)'
  <2>1. Quiet(w)
    BY DEF IInv
  <2> QED
    BY <1>1, <2>1 DEF Quiet, Typed, InRun, workerVars
<1>5. ASSUME NEW c \in Clients PROVE Whole(c)'
  <2>1. Whole(c)
    BY DEF IInv
  <2> QED
    BY <2>1 DEF Whole, poolVars, netVars, dataVars
<1>6. Final'
  BY <1>1 DEF Final
<1>7. FailureHasCause'
  BY <1>1 DEF FailureHasCause, poolVars, netVars
<1> QED
  BY <1>2, <1>3, <1>4, <1>5, <1>6, <1>7, Kept
  DEF IInv, poolVars, netVars, socketVars, workerVars, dataVars

(* run() starts with a listening socket and no client. *)
LEMMA RunMoves ==
  ASSUME IInv, Run
  PROVE  IInv'
<1>1. /\ main \in {"created", "returned"} /\ runs < MaxRuns /\ runs' = runs + 1
      /\ UNCHANGED <<client, aroundOwner>>
      /\ \/ main' = "looping" /\ result' = "none"
         \/ main' = "returned" /\ result' = "cannot listen"
  BY DEF Run, LoopStart
<1>2. Typed /\ LoopAt
  BY DEF IInv
<1>3. runs' \in 0 .. MaxRuns
  <2>1. runs \in 0 .. MaxRuns
    BY <1>2 DEF Typed
  <2>2. runs < MaxRuns /\ runs' = runs + 1
    BY <1>1
  <2> QED
    BY <2>1, <2>2, BoundAssumption
<1>4. client = Nobody
  BY <1>1, <1>2 DEF LoopAt
<1> QED
  BY <1>1, <1>3, <1>4, MainMoves
  DEF aroundOwner, flagVars, InRun, Failures

(* join() waits for the workers and changes nothing else. *)
LEMMA JoinMoves ==
  ASSUME IInv, Join
  PROVE  IInv'
<1>1. /\ main = "joining" /\ main' = "gone" /\ \A w \in Workers : at[w] = "exited"
      /\ UNCHANGED <<result, runs, client, aroundOwner>>
  BY DEF Join, Joined
<1>2. client = Nobody /\ result \in {"none", "success"} \cup Failures /\ runs \in 0 .. MaxRuns
  BY <1>1 DEF IInv, LoopAt, Typed
<1> QED
  BY <1>1, <1>2, MainMoves DEF aroundOwner, flagVars

(* Connections that nobody accepted are reset. *)
LEMMA DestroyMoves ==
  ASSUME IInv, Destroy
  PROVE  IInv'
<1>1. /\ main \in {"created", "failed", "returned"} /\ main' = "tearing"
      /\ backlog' = <<>>
      /\ peer' = [c \in Clients |-> IF Queued(c) THEN "reset" ELSE peer[c]]
      /\ UNCHANGED <<poolVars, result, runs, client, flagVars, sent, table, socketVars,
                     workerVars, dataVars>>
  BY DEF Destroy
<1>2. Typed /\ LoopAt /\ Placed /\ Final /\ FailureHasCause
  BY DEF IInv
<1>3. \A c : ~Pending(c)' /\ Distinct(backlog)'
  BY <1>1, EmptySeq DEF Pending, IsIn, Distinct
<1>4. peer' \in [Clients -> {"away", "open", "closed", "reset"}]
  BY <1>1, <1>2 DEF Typed
<1>5. Typed'
  <2>1. backlog' \in Seq(Clients)
    BY <1>1, EmptySeq
  <2> QED
    BY <1>1, <1>2, <1>4, <2>1
    DEF Typed, poolVars, flagVars, socketVars, workerVars, dataVars, InRun
<1>6. LoopAt'
  BY <1>1, <1>2 DEF LoopAt, poolVars, socketVars
<1>7. Placed'
  BY <1>1, <1>2, <1>3 DEF Placed, Waiting, IsIn, Distinct, poolVars
<1>8. ASSUME NEW w \in Workers PROVE Quiet(w)'
  <2>1. Quiet(w)
    BY DEF IInv
  <2> QED
    BY <1>1, <2>1 DEF Quiet, flagVars, workerVars
<1>9. ASSUME NEW c \in Clients PROVE Whole(c)'
  <2>1. Whole(c)
    BY DEF IInv
  <2> QED
    BY <1>1, <2>1 DEF Whole, poolVars, dataVars
<1>10. Final'
  BY <1>1, <1>2 DEF Final, flagVars
<1>11. FailureHasCause'
  BY <1>1, <1>2 DEF FailureHasCause, poolVars
<1> QED
  BY <1>1, <1>5, <1>6, <1>7, <1>8, <1>9, <1>10, <1>11, Kept
  DEF IInv, poolVars, socketVars, workerVars, dataVars

(* Stopping the workers leaves the clients where they are. *)
LEMMA StopWorkersMoves ==
  ASSUME IInv, StopWorkers
  PROVE  IInv'
<1>1. /\ main = "tearing" /\ main' = "joining" /\ running' = FALSE
      /\ UNCHANGED <<poolVars, result, runs, client, endSignal, late, netVars, socketVars,
                     workerVars, dataVars>>
  BY DEF StopWorkers
<1>2. Typed /\ LoopAt /\ Final
  BY DEF IInv
<1>3. Typed'
  BY <1>1, <1>2 DEF Typed, poolVars, netVars, socketVars, workerVars, dataVars, InRun
<1>4. LoopAt'
  BY <1>1, <1>2 DEF LoopAt, Pending, IsIn, poolVars, netVars, socketVars
<1>5. ASSUME NEW w \in Workers PROVE Quiet(w)'
  BY <1>1 DEF Quiet
<1>6. ASSUME NEW c \in Clients PROVE Whole(c)'
  <2>1. Whole(c)
    BY DEF IInv
  <2> QED
    BY <1>1, <2>1 DEF Whole, poolVars, netVars, dataVars
<1>7. Final'
  BY <1>1, <1>2 DEF Final
<1> QED
  BY <1>1, <1>3, <1>4, <1>5, <1>6, <1>7, Kept
  DEF IInv, poolVars, netVars, socketVars, workerVars, dataVars

-----------------------------------------------------------------------------
(* The loop *)

(* The loop reads the flag and accepts, or returns. *)
LEMMA LoopTestMoves ==
  ASSUME IInv, LoopTest
  PROVE  IInv'
<1>1. /\ main = "looping" /\ UNCHANGED <<runs, client, aroundOwner>>
      /\ \/ endSignal /\ main' = "returned" /\ result' = "success"
         \/ ~endSignal /\ main' = "accepting" /\ result' = result
  BY DEF LoopTest
<1>2. Typed /\ LoopAt /\ Final
  BY DEF IInv
<1>3. client = Nobody /\ result \in {"none", "success"} \cup Failures /\ runs \in 0 .. MaxRuns
  BY <1>1, <1>2 DEF LoopAt, Typed
<1>4. ~endSignal => late = 0
  BY <1>2 DEF Final
<1> QED
  BY <1>1, <1>3, <1>4, MainMoves DEF aroundOwner, flagVars, InRun

(* accept() without a client changes no place. *)
LEMMA AcceptNobodyMoves ==
  ASSUME IInv, NothingToAccept \/ AcceptFails
  PROVE  IInv'
<1>1. /\ main = "accepting" /\ UNCHANGED <<runs, client, aroundOwner>>
      /\ \/ main' = "looping" /\ result' = result
         \/ main' = "returned" /\ result' = "cannot accept"
  BY DEF NothingToAccept, AcceptFails
<1>2. client = Nobody /\ result \in {"none", "success"} \cup Failures /\ runs \in 0 .. MaxRuns
  BY <1>1 DEF IInv, LoopAt, Typed
<1> QED
  BY <1>1, <1>2, MainMoves DEF aroundOwner, flagVars, InRun, Failures

(* poll() changes no place. *)
LEMMA PollMoves ==
  ASSUME IInv, Poll
  PROVE  IInv'
<1>1. /\ main = "polling" /\ main' = "receiving"
      /\ UNCHANGED <<result, runs, client, aroundOwner>>
  BY DEF Poll
<1>2. client # Nobody /\ result \in {"none", "success"} \cup Failures /\ runs \in 0 .. MaxRuns
  BY <1>1 DEF IInv, LoopAt, Typed
<1> QED
  BY <1>1, <1>2, MainMoves DEF aroundOwner, flagVars, InRun

(* recieve() stops reading when there is nothing more to read. *)
LEMMA RecheckMoves ==
  ASSUME IInv, Recheck
  PROVE  IInv'
<1>1. /\ main \in {"rechecking", "atEnd"}
      /\ main' = IF main = "rechecking" /\ More(client) THEN "receiving" ELSE "pushing"
      /\ UNCHANGED <<result, runs, client, aroundOwner>>
  BY DEF Recheck
<1>2. /\ client # Nobody /\ result \in {"none", "success"} \cup Failures
      /\ runs \in 0 .. MaxRuns /\ client \in Clients
  BY <1>1 DEF IInv, LoopAt, Typed
<1>3. CASE main' = "receiving"
  BY <1>1, <1>2, <1>3, MainMoves DEF aroundOwner, flagVars, InRun
<1>4. CASE main' = "pushing"
  <2>1. main = "atEnd" \/ request[client] = sent[client]
    <3>1. request[client] \in 0 .. Pieces /\ sent[client] \in 0 .. Pieces
      BY <1>2 DEF IInv, Typed
    <3>2. request[client] <= sent[client]
      BY <1>2 DEF IInv, Whole
    <3> QED
      BY <1>1, <1>4, <3>1, <3>2 DEF More, Readable, Pieces
  <2> QED
    BY <1>1, <1>2, <1>4, <2>1, MainMoves DEF aroundOwner, flagVars, InRun
<1> QED
  BY <1>1, <1>3, <1>4

(* The descriptor that accept() finds is nobody's. *)
LEMMA AcceptMoves ==
  ASSUME IInv, Accept
  PROVE  IInv'
<1>1. PICK fd, new : fd = Min(Unused) /\ new = Head(backlog)
  OBVIOUS
<1>2. /\ main = "accepting" /\ backlog # <<>> /\ Unused # {}
      /\ mainFd' = fd /\ table' = [table EXCEPT ![fd] = new]
      /\ client' = new /\ backlog' = Tail(backlog)
      /\ late' = (IF endSignal THEN late + 1 ELSE late) /\ main' = "polling"
      /\ UNCHANGED <<poolVars, result, runs, running, endSignal, peer, sent, jobFd, frameFd,
                     workerVars, dataVars>>
  BY <1>1 DEF Accept
<1>3. Typed /\ LoopAt /\ Placed /\ Owned /\ Final /\ FailureHasCause
  BY DEF IInv
<1>4. fd \in Fd /\ table[fd] = Nobody
  <2>1. Unused \in SUBSET Nat
    BY BoundAssumption DEF Unused, Fd
  <2>2. fd \in Unused
    BY <1>1, <1>2, <2>1, LeastIsIn
  <2> QED
    BY <2>2 DEF Unused
<1>5. fd > 0 /\ fd \in 0 .. MaxFd
  BY <1>4, BoundAssumption DEF Fd
<1>6. /\ backlog' \in Seq(Clients) /\ new \in Clients /\ Pending(new)
      /\ Distinct(backlog') /\ ~Pending(new)' /\ \A d : Pending(d)' => Pending(d)
  <2>1. backlog \in Seq(Clients) /\ backlog # <<>> /\ Distinct(backlog)
    BY <1>2, <1>3 DEF Typed, Placed
  <2>2. /\ Tail(backlog) \in Seq(Clients) /\ Head(backlog) \in Clients
        /\ IsIn(Head(backlog), backlog) /\ \A d : IsIn(d, Tail(backlog)) => IsIn(d, backlog)
        /\ Distinct(Tail(backlog)) /\ ~IsIn(Head(backlog), Tail(backlog))
    BY <2>1, TailIsIn
  <2> QED
    BY <1>1, <1>2, <2>2 DEF Pending
<1>7. new \in fresh /\ peer[new] # "away" /\ new # Nobody
  BY <1>3, <1>6, NobodyAssumption DEF Placed
<1>8. /\ table' \in [Fd -> Clients \cup {Nobody}] /\ table'[fd] = new
      /\ \A other \in Fd \ {fd} : table'[other] = table[other]
  BY <1>2, <1>3, <1>4, <1>6 DEF Typed
<1>9. Typed'
  <2>1. late' \in Nat
    BY <1>2, <1>3 DEF Typed
  <2> QED
    BY <1>2, <1>3, <1>5, <1>6, <1>8, <2>1 DEF Typed, poolVars, workerVars, dataVars, InRun
<1>10. LoopAt'
  BY <1>2, <1>5, <1>6, <1>7, <1>8 DEF LoopAt, poolVars
<1>11. Placed'
  BY <1>2, <1>3, <1>6 DEF Placed, Waiting, IsIn, Distinct, poolVars
<1>12. ASSUME NEW w \in Workers PROVE Quiet(w)'
  <2>1. Quiet(w)
    BY DEF IInv
  <2> QED
    BY <1>2, <2>1 DEF Quiet, workerVars
<1>13. ASSUME NEW c \in Clients PROVE SocketAt(c)'
  <2>1. SocketAt(c) /\ c # Nobody
    BY NobodyAssumption DEF IInv
  <2>2. /\ jobFd[c] \in 0 .. MaxFd /\ (jobFd[c] > 0 => jobFd[c] \in Fd)
        /\ frameFd[c] \in 0 .. MaxFd /\ (frameFd[c] > 0 => frameFd[c] \in Fd)
    <3>1. jobFd[c] \in 0 .. MaxFd /\ frameFd[c] \in 0 .. MaxFd
      BY <1>3 DEF Typed
    <3> QED
      BY <3>1, BoundAssumption DEF Fd
  <2>3. /\ jobFd[c] > 0 => table'[jobFd[c]] = c
        /\ frameFd[c] > 0 => table'[frameFd[c]] = c
    BY <1>4, <1>8, <2>1, <2>2 DEF SocketAt
  <2> QED
    BY <1>2, <2>1, <2>3 DEF SocketAt, Waiting, IsIn, poolVars, workerVars
<1>14. ASSUME NEW c \in Clients PROVE Whole(c)'
  <2>1. Whole(c)
    BY DEF IInv
  <2> QED
    BY <1>2, <2>1 DEF Whole, poolVars, dataVars
<1>15. Owned'
  <2>1. mainFd = 0
    BY <1>2, <1>3 DEF LoopAt, Typed
  <2>2. \A other \in Fd : other # 0
    BY BoundAssumption DEF Fd
  <2> QED
    BY <1>2, <1>3, <1>8, <2>1, <2>2 DEF Owned
<1>16. Final'
  BY <1>2, <1>3 DEF Final
<1> QED
  BY <1>2, <1>9, <1>10, <1>11, <1>12, <1>13, <1>14, <1>15, <1>16, Kept
  DEF IInv, poolVars, workerVars, dataVars

(* What was sent and is read at once is all of it when it was sent at once. *)
LEMMA ReceiveMoves ==
  ASSUME IInv, Receive
  PROVE  IInv'
<1>1. /\ main = "receiving" /\ main' \in {"atEnd", "rechecking"}
      /\ UNCHANGED <<poolVars, result, runs, client, flagVars, netVars, socketVars,
                     workerVars, inbox>>
  BY DEF Receive
<1>2. \/ sent[client] = request[client] /\ main' = "atEnd" /\ request' = request
      \/ /\ main' = "rechecking"
         /\ \E n \in request[client] + 1 .. sent[client] :
              request' = [request EXCEPT ![client] = n]
  BY DEF Receive, Arrived
<1>3. Typed /\ LoopAt /\ Final
  BY DEF IInv
<1>4. client # Nobody /\ client \in Clients /\ client \in fresh
  BY <1>1, <1>3 DEF LoopAt, Typed
<1>5. /\ request[client] \in 0 .. Pieces /\ sent[client] \in 0 .. Pieces
      /\ request \in [Clients -> 0 .. Pieces]
  BY <1>3, <1>4 DEF Typed
<1>6. /\ request' \in [Clients -> 0 .. Pieces] /\ request'[client] <= sent[client]
      /\ \A c \in Clients \ {client} : request'[c] = request[c]
  BY <1>2, <1>4, <1>5 DEF Pieces
<1>7. Typed'
  BY <1>1, <1>3, <1>6 DEF Typed, poolVars, flagVars, netVars, socketVars, workerVars, InRun
<1>8. LoopAt'
  BY <1>1, <1>3 DEF LoopAt, Pending, IsIn, poolVars, netVars, socketVars
<1>9. ASSUME NEW w \in Workers PROVE Quiet(w)'
  <2>1. Quiet(w)
    BY DEF IInv
  <2> QED
    BY <1>1, <2>1 DEF Quiet, flagVars, workerVars
<1>10. ASSUME NEW c \in Clients PROVE Whole(c)'
  <2>1. Whole(c)
    BY DEF IInv
  <2>2. CASE c = client
    BY <1>1, <1>2, <1>4, <1>6, <2>1, <2>2 DEF Whole, poolVars, netVars
  <2>3. CASE c # client
    BY <1>1, <1>6, <2>1, <2>3 DEF Whole, poolVars, netVars
  <2> QED
    BY <2>2, <2>3
<1>11. Final'
  BY <1>1, <1>3 DEF Final, flagVars
<1> QED
  BY <1>1, <1>7, <1>8, <1>9, <1>10, <1>11, Kept
  DEF IInv, poolVars, flagVars, netVars, socketVars, workerVars

(* Where the loop keeps its client to itself, it closes the connection. *)
ClosesClient ==
  /\ client # Nobody
  /\ table' = [table EXCEPT ![mainFd] = Nobody] /\ mainFd' = 0 /\ client' = Nobody
  /\ main' \in {"looping", "returned"}
  /\ result' \in {result, "cannot poll", "cannot read", "cannot handle"}
  /\ UNCHANGED <<queues, held, done, runs, flagVars, backlog, peer, sent, jobFd, frameFd,
                 workerVars, dataVars>>
  /\ \/ fresh' = fresh /\ refused' = refused
     \/ /\ fresh' = fresh \ {client} /\ refused' = refused \cup {client}
        /\ main = "pushing"
  /\ result' # result /\ result' \in {"cannot poll", "cannot read"} =>
       \E c \in Clients : peer[c] = "reset"
  /\ result' = "cannot handle" => refused' # {}

(* The end of an iteration closes the socket of its client. *)
LEMMA IterationEnds ==
  ASSUME IInv, ClosesClient
  PROVE  IInv'
<1>1. Typed /\ LoopAt /\ Placed /\ Owned /\ Final /\ FailureHasCause
  BY DEF IInv
<1>2. /\ client \in Clients /\ client \in fresh /\ mainFd > 0 /\ table[mainFd] = client
      /\ main \in {"polling", "receiving", "rechecking", "atEnd", "pushing"}
      /\ peer[client] # "away" /\ ~Pending(client)
  BY <1>1 DEF Typed, LoopAt, ClosesClient
<1>3. mainFd \in Fd
  <2>1. mainFd \in 0 .. MaxFd /\ mainFd > 0
    BY <1>1, <1>2 DEF Typed
  <2> QED
    BY <2>1, BoundAssumption DEF Fd
<1>4. /\ client # Nobody
      /\ table' = [table EXCEPT ![mainFd] = Nobody] /\ mainFd' = 0 /\ client' = Nobody
      /\ main' \in {"looping", "returned"}
      /\ result' \in {result, "cannot poll", "cannot read", "cannot handle"}
      /\ UNCHANGED <<queues, held, done, runs, flagVars, backlog, peer, sent, jobFd, frameFd,
                     workerVars, dataVars>>
  BY DEF ClosesClient
<1>5. \/ fresh' = fresh /\ refused' = refused
      \/ /\ fresh' = fresh \ {client} /\ refused' = refused \cup {client}
         /\ main = "pushing"
  BY DEF ClosesClient
<1>6. /\ table' \in [Fd -> Clients \cup {Nobody}] /\ table'[mainFd] = Nobody
      /\ \A fd \in Fd \ {mainFd} : table'[fd] = table[fd]
  BY <1>4, <1>1, <1>3 DEF Typed
<1>7. Typed'
  <2>1. result' \in {"none", "success"} \cup Failures
    BY <1>4, <1>1 DEF Typed, Failures
  <2>2. fresh' \in SUBSET Clients /\ refused' \in SUBSET Clients
    BY <1>1, <1>2, <1>5 DEF Typed
  <2>3. mainFd' \in 0 .. MaxFd
    <3>1. mainFd' = 0
      BY <1>4
    <3> QED
      BY <3>1, BoundAssumption
  <2> QED
    BY <1>4, <1>1, <1>6, <2>1, <2>2, <2>3 DEF Typed, flagVars, workerVars, dataVars, InRun
<1>8. LoopAt'
  <2>1. mainFd' = 0 /\ client' = Nobody /\ main' \in {"looping", "returned"}
    BY <1>4
  <2> QED
    BY <2>1 DEF LoopAt
<1>9. Placed'
  BY <1>4, <1>1, <1>2, <1>5 DEF Placed, Waiting, Pending, IsIn, Distinct
<1>10. ASSUME NEW w \in Workers PROVE Quiet(w)'
  <2>1. Quiet(w)
    BY DEF IInv
  <2> QED
    BY <1>4, <1>2, <2>1 DEF Quiet, flagVars, workerVars
<1>11. ASSUME NEW c \in Clients PROVE SocketAt(c)' /\ Answered(c)' /\ Whole(c)'
  <2>1. SocketAt(c) /\ Answered(c) /\ Whole(c)
    BY DEF IInv
  <2>2. (Waiting(c)' <=> Waiting(c)) /\ (c \in fresh' => c \in fresh)
    BY <1>4, <1>5 DEF Waiting, IsIn
  <2>3. /\ jobFd[c] > 0 => jobFd[c] \in Fd /\ jobFd[c] # mainFd
        /\ frameFd[c] > 0 => frameFd[c] \in Fd /\ frameFd[c] # mainFd
    <3>1. jobFd[c] \in 0 .. MaxFd /\ frameFd[c] \in 0 .. MaxFd
      BY <1>1 DEF Typed
    <3>2. client \in fresh => jobFd[client] = 0 /\ frameFd[client] = 0
      BY <1>2 DEF IInv, SocketAt
    <3>3. jobFd[c] > 0 => jobFd[c] \in Fd /\ table[jobFd[c]] = c
      BY <2>1, <3>1, BoundAssumption DEF SocketAt, Fd
    <3>4. frameFd[c] > 0 => frameFd[c] \in Fd /\ table[frameFd[c]] = c
      BY <2>1, <3>1, BoundAssumption DEF SocketAt, Fd
    <3>5. client \in fresh /\ table[mainFd] = client /\ mainFd > 0
      BY <1>2
    <3> QED
      BY <3>2, <3>3, <3>4, <3>5
  <2>4. SocketAt(c)'
    BY <1>4, <1>6, <2>1, <2>2, <2>3 DEF SocketAt, workerVars
  <2>5. Answered(c)'
    BY <1>4, <2>1, <2>2 DEF Answered, workerVars, dataVars
  <2>6. Whole(c)'
    BY <1>4, <1>2, <1>5, <2>1 DEF Whole, dataVars
  <2> QED
    BY <2>4, <2>5, <2>6
<1>12. Owned'
  <2>1. \A fd \in Fd : table'[fd] # Nobody => fd # mainFd /\ table'[fd] = table[fd]
    BY <1>6
  <2> QED
    BY <1>4, <1>1, <2>1 DEF Owned
<1>13. Final'
  BY <1>4, <1>1 DEF Final, flagVars
<1>14. FailureHasCause'
  BY <1>4, <1>1, <1>5 DEF FailureHasCause, ClosesClient
<1> QED
  BY <1>4, <1>7, <1>8, <1>9, <1>10, <1>11, <1>12, <1>13, <1>14, Kept DEF IInv, workerVars

(* Only a client that has reset its connection makes run() give up here. *)
LEMMA PollFailsMoves ==
  ASSUME IInv, PollFails \/ Drop \/ ReceiveFails
  PROVE  IInv'
<1>1. /\ main \in {"polling", "receiving", "rechecking", "atEnd"}
      /\ UNCHANGED <<poolVars, aroundIteration>>
      /\ \/ Broken(mainFd) /\ EndIteration("cannot poll", table, mainFd)
         \/ Broken(mainFd) /\ EndIteration("cannot read", table, mainFd)
         \/ EndIteration("none", table, mainFd)
  BY DEF PollFails, Drop, ReceiveFails, AfterTimeout
<1>2. /\ client # Nobody /\ client \in Clients /\ mainFd > 0 /\ table[mainFd] = client
  BY <1>1 DEF IInv, LoopAt, Typed
<1>3. Broken(mainFd) => \E c \in Clients : peer[c] = "reset"
  BY <1>2 DEF Broken
<1>4. /\ table' = [table EXCEPT ![mainFd] = Nobody] /\ mainFd' = 0 /\ client' = Nobody
      /\ main' \in {"looping", "returned"} /\ result' \in {result, "cannot poll", "cannot read"}
      /\ result' = result \/ Broken(mainFd)
  BY <1>1, <1>2 DEF EndIteration, Closed
<1>5. result = "cannot handle" => refused # {}
  BY DEF IInv, FailureHasCause
<1> QED
  BY <1>1, <1>2, <1>3, <1>4, <1>5, IterationEnds DEF ClosesClient, aroundIteration, poolVars

(* A job that cannot be pushed gives its client up. *)
LEMMA HandleRequestFailsMoves ==
  ASSUME IInv, HandleRequestFails
  PROVE  IInv'
<1>1. PICK c : c = client
  OBVIOUS
<1>2. /\ main = "pushing" /\ Pool!Refuse(c)
      /\ EndIteration("cannot handle", Closed(table, mainFd), 0)
      /\ UNCHANGED aroundIteration
  BY <1>1 DEF HandleRequestFails, MovedFrom
<1>3. client # Nobody /\ mainFd > 0
  BY <1>2 DEF IInv, LoopAt
<1>4. /\ table' = [table EXCEPT ![mainFd] = Nobody] /\ mainFd' = 0 /\ client' = Nobody
      /\ main' = "returned" /\ result' = "cannot handle"
  <2>1. /\ table' = Closed(Closed(table, mainFd), 0) /\ mainFd' = 0 /\ client' = Nobody
        /\ main' = "returned" /\ result' = "cannot handle"
    BY <1>2 DEF EndIteration
  <2>2. Closed(table, mainFd) = [table EXCEPT ![mainFd] = Nobody]
    BY <1>3 DEF Closed
  <2>3. \A t : Closed(t, 0) = t
    BY DEF Closed
  <2> QED
    BY <2>1, <2>2, <2>3
<1>5. /\ fresh' = fresh \ {client} /\ refused' = refused \cup {client}
      /\ UNCHANGED <<queues, held, done>>
  BY <1>1, <1>2 DEF Pool!Refuse
<1> QED
  BY <1>2, <1>3, <1>4, <1>5, IterationEnds DEF ClosesClient, aroundIteration

(* The socket goes from the loop to the job. *)
LEMMA HandleRequestMoves ==
  ASSUME IInv, HandleRequest
  PROVE  IInv'
<1>1. PICK c : c = client
  OBVIOUS
<1>2. /\ main = "pushing" /\ Pool!Submit(c)
      /\ jobFd' = [jobFd EXCEPT ![c] = mainFd]
      /\ EndIteration("none", table, 0)
      /\ UNCHANGED <<runs, flagVars, backlog, peer, sent, frameFd, workerVars, dataVars>>
  BY <1>1 DEF HandleRequest, MovedFrom
<1>3. Typed /\ LoopAt /\ Placed /\ Owned /\ Final /\ FailureHasCause
  BY DEF IInv
<1>4. /\ c \in Clients /\ c \in fresh /\ mainFd > 0 /\ table[mainFd] = c
      /\ peer[c] # "away" /\ ~Pending(c) /\ c # Nobody
  BY <1>1, <1>2, <1>3, NobodyAssumption DEF Typed, LoopAt
<1>5. table' = table /\ mainFd' = 0 /\ client' = Nobody /\ main' = "looping" /\ result' = result
  BY <1>2 DEF EndIteration, Closed
<1>6. /\ fresh' = fresh \ {c} /\ UNCHANGED <<refused, held, done>>
      /\ Len(queues[2]) < QueueSize
      /\ queues' = [queues EXCEPT ![2] = Append(queues[2], c)]
  BY <1>2, <1>4 DEF Pool!Submit
<1>7. /\ queues' \in [0 .. 5 -> Seq(Clients)] /\ Distinct(queues'[2])
      /\ \A l \in 0 .. 5 : Len(queues'[l]) <= QueueSize
      /\ \A d : Waiting(d)' <=> Waiting(d) \/ d = c
  <2> DEFINE longer == Append(queues[2], c)
  <2>1. queues[2] \in Seq(Clients) /\ queues \in [0 .. 5 -> Seq(Clients)]
    BY <1>3 DEF Typed
  <2>2. ~IsIn(c, queues[2]) /\ Distinct(queues[2])
    BY <1>3, <1>4 DEF Placed, Waiting
  <2>3. /\ longer \in Seq(Clients) /\ Len(longer) = Len(queues[2]) + 1 /\ Distinct(longer)
        /\ \A d : IsIn(d, longer) <=> IsIn(d, queues[2]) \/ d = c
    BY <1>4, <2>1, <2>2, AppendIsIn
  <2>4. Len(longer) <= QueueSize
    <3>1. PICK n \in Nat : n = Len(queues[2])
      BY <2>1, LenProperties
    <3> QED
      BY <1>6, <2>3, <3>1, BoundAssumption
  <2> HIDE DEF longer
  <2>5. queues' = [queues EXCEPT ![2] = longer]
    BY <1>6 DEF longer
  <2>6. queues'[2] = longer /\ \A l \in 0 .. 5 : l # 2 => queues'[l] = queues[l]
    BY <2>1, <2>5
  <2>7. \A l \in 0 .. 5 : Len(queues'[l]) <= QueueSize
    <3>1. \A l \in 0 .. 5 : Len(queues[l]) <= QueueSize
      BY <1>3 DEF Typed
    <3> QED
      BY <2>4, <2>6, <3>1
  <2>8. queues' \in [0 .. 5 -> Seq(Clients)]
    BY <2>1, <2>3, <2>5
  <2> QED
    BY <2>3, <2>6, <2>7, <2>8 DEF Waiting
<1>8. /\ jobFd' \in [Clients -> 0 .. MaxFd] /\ jobFd'[c] = mainFd
      /\ \A d \in Clients \ {c} : jobFd'[d] = jobFd[d]
  BY <1>2, <1>3, <1>4 DEF Typed
<1>9. Typed'
  <2>1. fresh' \in SUBSET Clients /\ mainFd' \in 0 .. MaxFd
    BY <1>3, <1>5, <1>6, BoundAssumption DEF Typed
  <2> QED
    BY <1>2, <1>3, <1>5, <1>6, <1>7, <1>8, <2>1 DEF Typed, flagVars, workerVars, dataVars, InRun
<1>10. LoopAt'
  BY <1>5 DEF LoopAt
<1>11. Placed'
  <2>1. \A d : Pending(d)' <=> Pending(d)
    BY <1>2 DEF Pending, IsIn
  <2>2. c \notin held
    BY <1>3, <1>4 DEF Placed
  <2>3. Distinct(backlog)'
    BY <1>2, <1>3 DEF Placed, Distinct
  <2> QED
    BY <1>2, <1>3, <1>4, <1>6, <1>7, <2>1, <2>2, <2>3 DEF Placed
<1>12. ASSUME NEW w \in Workers PROVE WorkerAt(w)' /\ Quiet(w)'
  <2>1. WorkerAt(w) /\ Quiet(w) /\ work[w] # c /\ work[w] \in Clients \cup {Nobody}
    BY <1>3, <1>4 DEF IInv, WorkerAt, Placed, Typed
  <2>2. at[w] \in {"dispatch", "serving", "sending", "finishing"} => jobFd'[work[w]] = jobFd[work[w]]
    BY <1>8, <2>1 DEF WorkerAt
  <2>3. WorkerAt(w)'
    BY <1>2, <1>6, <2>1, <2>2 DEF WorkerAt, workerVars
  <2>4. Quiet(w)'
    BY <1>2, <1>5, <2>1 DEF Quiet, flagVars, workerVars
  <2> QED
    BY <2>3, <2>4
<1>13. ASSUME NEW d \in Clients PROVE SocketAt(d)' /\ Answered(d)' /\ Whole(d)'
  <2>1. SocketAt(d) /\ Answered(d) /\ Whole(d)
    BY DEF IInv
  <2>2. CASE d = c
    <3>1. frameFd[c] = 0 /\ inbox[c] = <<>> /\ c \notin fresh' /\ Waiting(c)'
      BY <1>4, <1>6, <1>7, <2>1, <2>2 DEF SocketAt, Answered
    <3>2. SocketAt(d)'
      BY <1>2, <1>4, <1>5, <1>8, <2>2, <3>1 DEF SocketAt
    <3>3. Answered(d)'
      BY <1>2, <2>2, <3>1 DEF Answered, dataVars
    <3>4. Whole(d)'
      BY <1>1, <1>2, <2>1, <2>2 DEF Whole, dataVars
    <3> QED
      BY <3>2, <3>3, <3>4
  <2>3. CASE d # c
    <3>1. (Waiting(d)' <=> Waiting(d)) /\ (d \in fresh' <=> d \in fresh) /\ jobFd'[d] = jobFd[d]
      BY <1>6, <1>7, <1>8, <2>3
    <3>2. SocketAt(d)'
      BY <1>2, <1>5, <2>1, <3>1 DEF SocketAt, workerVars
    <3>3. Answered(d)'
      BY <1>2, <2>1, <3>1 DEF Answered, workerVars, dataVars
    <3>4. Whole(d)'
      BY <1>2, <1>5, <2>1, <3>1 DEF Whole, dataVars
    <3> QED
      BY <3>2, <3>3, <3>4
  <2> QED
    BY <2>2, <2>3
<1>14. Owned'
  <2>1. jobFd[c] = 0
    BY <1>4 DEF IInv, SocketAt
  <2>2. ASSUME NEW fd \in Fd, table[fd] # Nobody
        PROVE  jobFd'[table[fd]] = fd \/ frameFd[table[fd]] = fd
    <3>1. fd > 0 /\ table[fd] \in Clients
      BY <1>3, <2>2, BoundAssumption DEF Fd, Typed
    <3>2. fd = mainFd \/ jobFd[table[fd]] = fd \/ frameFd[table[fd]] = fd
      BY <1>3, <2>2 DEF Owned
    <3> QED
      BY <1>4, <1>8, <2>1, <3>1, <3>2
  <2> QED
    BY <1>2, <1>5, <2>2 DEF Owned
<1>15. Final'
  BY <1>2, <1>3, <1>5 DEF Final, flagVars
<1>16. FailureHasCause'
  BY <1>2, <1>3, <1>5, <1>6 DEF FailureHasCause
<1> QED
  BY <1>9, <1>10, <1>11, <1>12, <1>13, <1>14, <1>15, <1>16 DEF IInv

-----------------------------------------------------------------------------
(* The workers *)

(* Steps that take a worker from one place to another and nothing else. *)
OnlyMoves(w, from, to) ==
  /\ Moves(w, from, to)
  /\ UNCHANGED <<poolVars, aroundWorker, table, jobFd, frameFd, work, inbox>>

(* A step of a worker that moves no client keeps the invariant. *)
LEMMA WorkerMoves ==
  ASSUME IInv, NEW w \in Workers, NEW from, NEW to, OnlyMoves(w, from, to),
         <<from, to>> \in {<<"test", "ready">>, <<"test", "exited">>, <<"ready", "test">>,
                           <<"dispatch", "crashed">>, <<"serving", "crashed">>,
                           <<"serving", "sending">>},
         to = "ready" => running,
         to = "crashed" => ~Alive
  PROVE  IInv'
<1>1. /\ at[w] = from /\ at' = [at EXCEPT ![w] = to]
      /\ UNCHANGED <<poolVars, aroundWorker, table, jobFd, frameFd, work, inbox>>
  BY DEF OnlyMoves, Moves
<1>2. Typed /\ Placed /\ WorkerAt(w) /\ Quiet(w)
  BY DEF IInv
<1>3. \/ /\ from \in {"test", "ready"} /\ to \in {"test", "ready", "exited"}
         /\ to # "exited" \/ from = "test"
         /\ from = "test" \/ to = "test"
      \/ from = "dispatch" /\ to = "crashed"
      \/ from = "serving" /\ to \in {"crashed", "sending"}
  OBVIOUS
<1>4. /\ at' \in [Workers -> {"absent", "test", "ready", "dispatch", "serving", "sending",
                              "finishing", "exited", "crashed"}]
      /\ at'[w] = to /\ \A v \in Workers \ {w} : at'[v] = at[v]
  BY <1>1, <1>2, <1>3 DEF Typed
<1>5. Typed'
  BY <1>1, <1>2, <1>4 DEF Typed, poolVars, aroundWorker, ownerVars, flagVars, InRun
<1>6. ASSUME NEW v \in Workers PROVE WorkerAt(v)' /\ Quiet(v)'
  <2>1. WorkerAt(v) /\ Quiet(v)
    BY DEF IInv
  <2>2. CASE v # w
    <3>1. at'[v] = at[v]
      BY <1>4, <2>2
    <3>2. WorkerAt(v)'
      BY <1>1, <2>1, <3>1 DEF WorkerAt, poolVars
    <3>3. Quiet(v)'
      BY <1>1, <2>1, <3>1 DEF Quiet, aroundWorker, ownerVars, flagVars
    <3> QED
      BY <3>2, <3>3
  <2>3. CASE v = w
    <3>1. WorkerAt(v)'
      BY <1>1, <1>2, <1>3, <1>4, <2>3 DEF WorkerAt, poolVars
    <3>2. to = "crashed" => main \in {"tearing", "joining"}
      BY <1>1, <1>2, <1>3 DEF Alive, Quiet
    <3>3. Quiet(v)'
      BY <1>1, <1>2, <1>3, <1>4, <2>3, <3>2 DEF Quiet, aroundWorker, ownerVars, flagVars
    <3> QED
      BY <3>1, <3>3
  <2> QED
    BY <2>2, <2>3
<1>7. ASSUME NEW c \in Clients PROVE SocketAt(c)' /\ Answered(c)'
  <2>1. SocketAt(c) /\ Answered(c) /\ c # Nobody
    BY NobodyAssumption DEF IInv
  <2>2. (Waiting(c)' <=> Waiting(c)) /\ fresh' = fresh /\ work' = work
    BY <1>1 DEF Waiting, IsIn, poolVars
  <2>3. ASSUME NEW v \in Workers, work[v] = c
        PROVE  /\ at[v] \in {"dispatch", "finishing", "crashed"} =>
                    at'[v] \in {"dispatch", "finishing", "crashed"}
               /\ at[v] \in {"serving", "sending", "crashed"} =>
                    at'[v] \in {"serving", "sending", "crashed"}
               /\ at[v] = "finishing" => at'[v] = "finishing"
    BY <1>1, <1>2, <1>3, <1>4, <2>1, <2>3 DEF WorkerAt
  <2>4. SocketAt(c)'
    BY <1>1, <2>1, <2>2, <2>3 DEF SocketAt
  <2>5. Answered(c)'
    BY <1>1, <2>1, <2>2, <2>3 DEF Answered
  <2> QED
    BY <2>4, <2>5
<1> QED
  BY <1>1, <1>5, <1>6, <1>7, Kept DEF IInv, poolVars, aroundWorker, ownerVars, flagVars

(* A worker that tests the flag holds no client. *)
LEMMA TestMoves ==
  ASSUME IInv, NEW w \in Workers, Test(w) \/ WaitTimesOut(w) \/ Serve(w) \/ UseAfterDestruction(w)
  PROVE  IInv'
<1>1. CASE Test(w)
  <2>1. CASE running
    BY <1>1, <2>1, WorkerMoves DEF Test, OnlyMoves
  <2>2. CASE ~running
    BY <1>1, <2>2, WorkerMoves DEF Test, OnlyMoves
  <2> QED
    BY <2>1, <2>2
<1>2. CASE WaitTimesOut(w)
  BY <1>2, WorkerMoves DEF WaitTimesOut, OnlyMoves
<1>3. CASE Serve(w)
  BY <1>3, WorkerMoves DEF Serve, OnlyMoves
<1>4. CASE UseAfterDestruction(w)
  BY <1>4, WorkerMoves DEF UseAfterDestruction, OnlyMoves
<1> QED
  BY <1>1, <1>2, <1>3, <1>4

(* The client of a job is the one that waited longest. *)
LEMMA TakeJobMoves ==
  ASSUME IInv, NEW w \in Workers, TakeJob(w)
  PROVE  IInv'
<1>1. PICK c : c = Head(queues[2])
  OBVIOUS
<1>2. /\ at[w] = "ready" /\ at' = [at EXCEPT ![w] = "dispatch"]
      /\ work' = [work EXCEPT ![w] = c]
      /\ UNCHANGED <<aroundWorker, table, jobFd, frameFd, inbox>>
  BY <1>1 DEF TakeJob, Moves
<1>3. /\ queues[2] # <<>> /\ queues' = [queues EXCEPT ![2] = Tail(queues[2])]
      /\ held' = held \cup {c} /\ UNCHANGED <<fresh, refused, done>>
  BY <1>1 DEF TakeJob, Pool!Take
<1>4. Typed /\ Placed
  BY DEF IInv
<1>5. /\ queues' \in [0 .. 5 -> Seq(Clients)] /\ Distinct(queues'[2])
      /\ \A l \in 0 .. 5 : Len(queues'[l]) <= QueueSize
      /\ c \in Clients /\ Waiting(c) /\ ~Waiting(c)'
      /\ \A d : d # c => (Waiting(d)' <=> Waiting(d))
  <2> DEFINE rest == Tail(queues[2])
  <2>1. queues[2] \in Seq(Clients) /\ queues \in [0 .. 5 -> Seq(Clients)] /\ Distinct(queues[2])
    BY <1>4 DEF Typed, Placed
  <2>2. /\ rest \in Seq(Clients) /\ c \in Clients /\ Len(rest) = Len(queues[2]) - 1
        /\ IsIn(c, queues[2]) /\ ~IsIn(c, rest) /\ Distinct(rest)
        /\ \A d : d # c => (IsIn(d, rest) <=> IsIn(d, queues[2]))
    BY <1>1, <1>3, <2>1, TailIsIn
  <2> HIDE DEF rest
  <2>3. queues' = [queues EXCEPT ![2] = rest]
    BY <1>3 DEF rest
  <2>4. queues'[2] = rest /\ \A l \in 0 .. 5 : l # 2 => queues'[l] = queues[l]
    BY <2>1, <2>3
  <2>5. \A l \in 0 .. 5 : Len(queues'[l]) <= QueueSize
    <3>1. \A l \in 0 .. 5 : Len(queues[l]) <= QueueSize
      BY <1>4 DEF Typed
    <3>2. Len(queues[2]) \in Nat
      BY <2>1, LenProperties
    <3>3. Len(rest) <= QueueSize
      BY <2>2, <3>1, <3>2, BoundAssumption
    <3> QED
      BY <2>4, <3>1, <3>3
  <2>6. queues' \in [0 .. 5 -> Seq(Clients)]
    BY <2>1, <2>2, <2>3
  <2> QED
    BY <2>2, <2>4, <2>5, <2>6 DEF Waiting
<1>6. c \notin held /\ c \notin fresh /\ c # Nobody
  BY <1>4, <1>5, NobodyAssumption DEF Placed
<1>7. /\ at'[w] = "dispatch" /\ work'[w] = c /\ work[w] = Nobody
      /\ \A v \in Workers \ {w} : at'[v] = at[v] /\ work'[v] = work[v]
      /\ at' \in [Workers -> {"absent", "test", "ready", "dispatch", "serving", "sending",
                              "finishing", "exited", "crashed"}]
      /\ work' \in [Workers -> Clients \cup {Nobody}]
  <2>1. work[w] = Nobody
    BY <1>2 DEF IInv, WorkerAt
  <2> QED
    BY <1>2, <1>4, <1>5, <2>1 DEF Typed
<1>8. Typed'
  <2>1. held' \in SUBSET Clients
    BY <1>3, <1>4, <1>5 DEF Typed
  <2> QED
    BY <1>2, <1>3, <1>4, <1>5, <1>7, <2>1 DEF Typed, aroundWorker, ownerVars, flagVars, InRun
<1>9. Placed'
  <2>1. \A d : Pending(d)' <=> Pending(d)
    BY <1>2 DEF Pending, IsIn, aroundWorker
  <2>2. Distinct(backlog)'
    BY <1>2, <1>4 DEF Placed, Distinct, aroundWorker
  <2> QED
    BY <1>2, <1>3, <1>4, <1>5, <1>6, <2>1, <2>2 DEF Placed, aroundWorker
<1>10. ASSUME NEW v \in Workers PROVE WorkerAt(v)' /\ Quiet(v)'
  <2>1. WorkerAt(v) /\ Quiet(v) /\ Quiet(w)
    BY DEF IInv
  <2>2. work[v] # c
    BY <1>6, <2>1 DEF WorkerAt
  <2>3. CASE v # w
    <3>1. WorkerAt(v)'
      <4>1. \A u \in Workers : work'[u] = work'[v] /\ work'[v] # Nobody => u = v
        BY <1>7, <2>1, <2>2, <2>3 DEF WorkerAt
      <4> QED
        BY <1>2, <1>3, <1>7, <2>1, <2>3, <4>1 DEF WorkerAt
    <3>2. Quiet(v)'
      BY <1>2, <1>7, <2>1, <2>3 DEF Quiet, aroundWorker, ownerVars, flagVars
    <3> QED
      BY <3>1, <3>2
  <2>4. CASE v = w
    <3>1. jobFd[c] > 0
      BY <1>5 DEF IInv, SocketAt
    <3>2. \A u \in Workers : work'[u] = c => u = w
      <4>1. \A u \in Workers : work[u] # c
        BY <1>6 DEF IInv, WorkerAt
      <4> QED
        BY <1>7, <4>1
    <3>3. WorkerAt(v)'
      BY <1>2, <1>3, <1>6, <1>7, <2>4, <3>1, <3>2 DEF WorkerAt
    <3>4. Quiet(v)'
      BY <1>2, <1>7, <2>1, <2>4 DEF Quiet, aroundWorker, ownerVars, flagVars
    <3> QED
      BY <3>3, <3>4
  <2> QED
    BY <2>3, <2>4
<1>11. ASSUME NEW d \in Clients PROVE SocketAt(d)' /\ Answered(d)'
  <2>1. SocketAt(d) /\ Answered(d) /\ d # Nobody
    BY NobodyAssumption DEF IInv
  <2>2. CASE d = c
    <3>1. jobFd[c] > 0 /\ inbox[c] = <<>> /\ frameFd[c] = 0
      BY <1>5, <2>1, <2>2 DEF SocketAt, Answered
    <3>2. SocketAt(d)'
      BY <1>2, <1>3, <1>5, <1>6, <1>7, <2>1, <2>2, <3>1 DEF SocketAt
    <3>3. Answered(d)'
      BY <1>2, <2>2, <3>1 DEF Answered
    <3> QED
      BY <3>2, <3>3
  <2>3. CASE d # c
    <3>1. (Waiting(d)' <=> Waiting(d)) /\ fresh' = fresh
      BY <1>3, <1>5, <2>3
    <3>2. \A v \in Workers : /\ work[v] = d => v # w
                             /\ work'[v] = d => v # w
                             /\ v # w => work'[v] = work[v] /\ at'[v] = at[v]
      BY <1>7, <2>1, <2>3
    <3>3. SocketAt(d)'
      BY <1>2, <2>1, <3>1, <3>2 DEF SocketAt
    <3>4. Answered(d)'
      BY <1>2, <2>1, <3>1, <3>2 DEF Answered
    <3> QED
      BY <3>3, <3>4
  <2> QED
    BY <2>2, <2>3
<1> QED
  BY <1>2, <1>3, <1>8, <1>9, <1>10, <1>11, Kept
  DEF IInv, aroundWorker, ownerVars, flagVars

(* The job of a worker is in no other place. *)
LEMMA AtWork ==
  ASSUME IInv, NEW w \in Workers, NEW c, work[w] = c,
         at[w] \in {"dispatch", "serving", "sending", "finishing"}
  PROVE  /\ c \in Clients /\ c # Nobody /\ c \in held /\ c \notin fresh /\ ~Waiting(c)
         /\ \A v \in Workers : work[v] = c => v = w
         /\ SocketAt(c) /\ Answered(c)
         /\ jobFd[c] > 0 => jobFd[c] \in Fd
         /\ frameFd[c] > 0 => frameFd[c] \in Fd
<1>1. Typed /\ Placed /\ WorkerAt(w)
  BY DEF IInv
<1>2. c # Nobody /\ c \in held /\ c \in Clients
  BY <1>1 DEF WorkerAt, Typed
<1>3. c \notin fresh /\ ~Waiting(c)
  BY <1>1, <1>2 DEF Placed
<1>4. \A v \in Workers : work[v] = c => v = w
  BY <1>1, <1>2 DEF WorkerAt
<1>5. SocketAt(c) /\ Answered(c)
  BY <1>2 DEF IInv
<1>6. jobFd[c] \in 0 .. MaxFd /\ frameFd[c] \in 0 .. MaxFd
  BY <1>1, <1>2 DEF Typed
<1> QED
  BY <1>2, <1>3, <1>4, <1>5, <1>6, BoundAssumption DEF Fd

(* The socket goes from the job to the frame of its endpoint. *)
LEMMA DispatchMovesMoves ==
  ASSUME IInv, NEW w \in Workers, DispatchMoves(w)
  PROVE  IInv'
<1>1. PICK c : c = work[w]
  OBVIOUS
<1>2. /\ at[w] = "dispatch" /\ at' = [at EXCEPT ![w] = "serving"] /\ Alive
      /\ frameFd' = [frameFd EXCEPT ![c] = jobFd[c]]
      /\ jobFd' = [jobFd EXCEPT ![c] = 0]
      /\ UNCHANGED <<poolVars, aroundWorker, table, work, inbox>>
  BY <1>1 DEF DispatchMoves, Moves, MovedFrom
<1>3. Typed /\ Owned /\ WorkerAt(w) /\ Quiet(w)
  BY DEF IInv
<1>4. /\ c \in Clients /\ c # Nobody /\ c \in held /\ c \notin fresh /\ ~Waiting(c)
      /\ \A v \in Workers : work[v] = c => v = w
      /\ SocketAt(c) /\ Answered(c) /\ (jobFd[c] > 0 => jobFd[c] \in Fd)
  BY <1>1, <1>2, AtWork
<1>5. jobFd[c] > 0 /\ jobFd[c] \in Fd /\ table[jobFd[c]] = c /\ frameFd[c] = 0
  BY <1>1, <1>2, <1>3, <1>4 DEF WorkerAt, SocketAt
<1>6. /\ jobFd' \in [Clients -> 0 .. MaxFd] /\ frameFd' \in [Clients -> 0 .. MaxFd]
      /\ jobFd'[c] = 0 /\ frameFd'[c] = jobFd[c]
      /\ \A d \in Clients \ {c} : jobFd'[d] = jobFd[d] /\ frameFd'[d] = frameFd[d]
  <2>1. 0 \in 0 .. MaxFd
    BY BoundAssumption
  <2> QED
    BY <1>2, <1>3, <1>4, <2>1 DEF Typed
<1>7. /\ at'[w] = "serving" /\ \A v \in Workers \ {w} : at'[v] = at[v]
      /\ at' \in [Workers -> {"absent", "test", "ready", "dispatch", "serving", "sending",
                              "finishing", "exited", "crashed"}]
  BY <1>2, <1>3 DEF Typed
<1>8. Typed'
  BY <1>2, <1>3, <1>6, <1>7 DEF Typed, poolVars, aroundWorker, ownerVars, flagVars, InRun
<1>9. ASSUME NEW v \in Workers PROVE WorkerAt(v)' /\ Quiet(v)'
  <2>1. WorkerAt(v) /\ Quiet(v) /\ work[v] \in Clients \cup {Nobody}
    BY <1>3 DEF IInv, Typed
  <2>2. CASE v # w
    <3>1. work[v] # c
      BY <1>4, <2>2
    <3>2. at[v] \in {"dispatch", "serving", "sending", "finishing"} =>
            jobFd'[work[v]] = jobFd[work[v]] /\ frameFd'[work[v]] = frameFd[work[v]]
      BY <1>6, <2>1, <3>1 DEF WorkerAt
    <3>3. WorkerAt(v)'
      BY <1>2, <1>7, <2>1, <2>2, <3>2 DEF WorkerAt, poolVars
    <3>4. Quiet(v)'
      BY <1>2, <1>7, <2>1, <2>2 DEF Quiet, aroundWorker, ownerVars, flagVars
    <3> QED
      BY <3>3, <3>4
  <2>3. CASE v = w
    <3>1. WorkerAt(v)'
      BY <1>1, <1>2, <1>4, <1>5, <1>6, <1>7, <2>3 DEF WorkerAt, poolVars
    <3>2. Quiet(v)'
      BY <1>2, <1>3, <1>7, <2>3 DEF Quiet, aroundWorker, ownerVars, flagVars
    <3> QED
      BY <3>1, <3>2
  <2> QED
    BY <2>2, <2>3
<1>10. ASSUME NEW d \in Clients PROVE SocketAt(d)' /\ Answered(d)'
  <2>1. SocketAt(d) /\ Answered(d) /\ (Waiting(d)' <=> Waiting(d)) /\ fresh' = fresh
    BY <1>2 DEF IInv, Waiting, IsIn, poolVars
  <2>2. CASE d = c
    <3>1. inbox[c] = <<>>
      BY <1>1, <1>2, <1>4 DEF Answered
    <3>2. SocketAt(d)'
      BY <1>1, <1>2, <1>4, <1>5, <1>6, <1>7, <2>1, <2>2 DEF SocketAt
    <3>3. Answered(d)'
      BY <1>2, <2>2, <3>1 DEF Answered
    <3> QED
      BY <3>2, <3>3
  <2>3. CASE d # c
    <3>1. \A v \in Workers : work[v] = d => at'[v] = at[v]
      BY <1>1, <1>7, <2>3
    <3>2. SocketAt(d)'
      BY <1>2, <1>6, <2>1, <2>3, <3>1 DEF SocketAt
    <3>3. Answered(d)'
      BY <1>2, <2>1, <3>1 DEF Answered
    <3> QED
      BY <3>2, <3>3
  <2> QED
    BY <2>2, <2>3
<1>11. Owned'
  <2>1. ASSUME NEW fd \in Fd, table[fd] # Nobody
        PROVE  fd = mainFd \/ jobFd'[table[fd]] = fd \/ frameFd'[table[fd]] = fd
    <3>1. fd > 0 /\ table[fd] \in Clients
      BY <1>3, <2>1, BoundAssumption DEF Fd, Typed
    <3>2. fd = mainFd \/ jobFd[table[fd]] = fd \/ frameFd[table[fd]] = fd
      BY <1>3, <2>1 DEF Owned
    <3> QED
      BY <1>5, <1>6, <3>1, <3>2
  <2> QED
    BY <1>2, <2>1 DEF Owned, aroundWorker
<1> QED
  BY <1>2, <1>8, <1>9, <1>10, <1>11, Kept DEF IInv, poolVars, aroundWorker, ownerVars, flagVars

(* An answer that is sent through a descriptor of c reaches c. *)
LEMMA AnswerSent ==
  ASSUME IInv, NEW c \in Clients, NEW fd \in Fd, table[fd] = c, SendAnswer(c, fd),
         inbox[c] = <<>>
  PROVE  /\ inbox' \in [Clients -> Seq(Clients)] /\ inbox'[c] \in {<<>>, <<c>>}
         /\ \A d \in Clients \ {c} : inbox'[d] = inbox[d]
<1>1. fd > 0 /\ c # Nobody /\ inbox \in [Clients -> Seq(Clients)]
  <2>1. fd > 0
    BY BoundAssumption DEF Fd
  <2>2. c # Nobody
    BY NobodyAssumption
  <2>3. inbox \in [Clients -> Seq(Clients)]
    BY DEF IInv, Typed
  <2> QED
    BY <2>1, <2>2, <2>3
<1>2. inbox' = inbox \/ inbox' = [inbox EXCEPT ![c] = Append(inbox[c], c)]
  BY <1>1 DEF SendAnswer
<1>3. Append(inbox[c], c) = <<c>> /\ <<c>> \in Seq(Clients)
  OBVIOUS
<1>4. CASE inbox' = inbox
  BY <1>1, <1>4
<1>5. CASE inbox' = [inbox EXCEPT ![c] = <<c>>]
  <2> DEFINE S == Seq(Clients)
             answer == <<c>>
  <2>1. inbox \in [Clients -> S] /\ answer \in S /\ inbox' = [inbox EXCEPT ![c] = answer]
    BY <1>1, <1>3, <1>5
  <2> HIDE DEF S, answer
  <2>2. /\ inbox' \in [Clients -> S] /\ inbox'[c] = answer
        /\ \A d \in Clients \ {c} : inbox'[d] = inbox[d]
    BY <2>1
  <2> QED
    BY <2>2 DEF S, answer
<1> QED
  BY <1>2, <1>3, <1>4, <1>5

(* A request that is rejected is answered by the worker that holds it. *)
LEMMA DispatchRejectsMoves ==
  ASSUME IInv, NEW w \in Workers, DispatchRejects(w)
  PROVE  IInv'
<1>1. PICK c : c = work[w]
  OBVIOUS
<1>2. /\ at[w] = "dispatch" /\ at' = [at EXCEPT ![w] = "finishing"]
      /\ SendAnswer(c, jobFd[c])
      /\ UNCHANGED <<poolVars, aroundWorker, table, jobFd, frameFd, work>>
  BY <1>1 DEF DispatchRejects, Moves
<1>3. Typed /\ WorkerAt(w) /\ Quiet(w)
  BY DEF IInv
<1>4. /\ c \in Clients /\ c # Nobody /\ c \in held /\ c \notin fresh /\ ~Waiting(c)
      /\ \A v \in Workers : work[v] = c => v = w
      /\ SocketAt(c) /\ Answered(c) /\ (jobFd[c] > 0 => jobFd[c] \in Fd)
  BY <1>1, <1>2, AtWork
<1>5. jobFd[c] > 0 /\ jobFd[c] \in Fd /\ table[jobFd[c]] = c /\ frameFd[c] = 0
  BY <1>1, <1>2, <1>3, <1>4 DEF WorkerAt, SocketAt
<1>6. inbox[c] = <<>>
  BY <1>1, <1>2, <1>4 DEF Answered
<1>7. /\ inbox' \in [Clients -> Seq(Clients)] /\ inbox'[c] \in {<<>>, <<c>>}
      /\ \A d \in Clients \ {c} : inbox'[d] = inbox[d]
  BY <1>2, <1>4, <1>5, <1>6, AnswerSent
<1>8. /\ at'[w] = "finishing" /\ \A v \in Workers \ {w} : at'[v] = at[v]
      /\ at' \in [Workers -> {"absent", "test", "ready", "dispatch", "serving", "sending",
                              "finishing", "exited", "crashed"}]
  BY <1>2, <1>3 DEF Typed
<1>9. Typed'
  BY <1>2, <1>3, <1>7, <1>8 DEF Typed, poolVars, aroundWorker, ownerVars, flagVars, InRun
<1>10. ASSUME NEW v \in Workers PROVE WorkerAt(v)' /\ Quiet(v)'
  <2>1. WorkerAt(v) /\ Quiet(v)
    BY DEF IInv
  <2>2. CASE v # w
    <3>1. WorkerAt(v)'
      BY <1>2, <1>8, <2>1, <2>2 DEF WorkerAt, poolVars
    <3>2. Quiet(v)'
      BY <1>2, <1>8, <2>1, <2>2 DEF Quiet, aroundWorker, ownerVars, flagVars
    <3> QED
      BY <3>1, <3>2
  <2>3. CASE v = w
    <3>1. WorkerAt(v)'
      BY <1>1, <1>2, <1>4, <1>5, <1>8, <2>3 DEF WorkerAt, poolVars
    <3>2. Quiet(v)'
      BY <1>2, <1>3, <1>8, <2>3 DEF Quiet, aroundWorker, ownerVars, flagVars
    <3> QED
      BY <3>1, <3>2
  <2> QED
    BY <2>2, <2>3
<1>11. ASSUME NEW d \in Clients PROVE SocketAt(d)' /\ Answered(d)'
  <2>1. SocketAt(d) /\ Answered(d) /\ (Waiting(d)' <=> Waiting(d)) /\ fresh' = fresh
    BY <1>2 DEF IInv, Waiting, IsIn, poolVars
  <2>2. CASE d = c
    <3>1. SocketAt(d)'
      BY <1>1, <1>2, <1>4, <1>5, <1>8, <2>1, <2>2 DEF SocketAt
    <3>2. Answered(d)'
      BY <1>2, <1>4, <1>7, <1>8, <2>1, <2>2 DEF Answered
    <3> QED
      BY <3>1, <3>2
  <2>3. CASE d # c
    <3>1. \A v \in Workers : work[v] = d => at'[v] = at[v]
      BY <1>1, <1>8, <2>3
    <3>2. SocketAt(d)'
      BY <1>2, <2>1, <3>1 DEF SocketAt
    <3>3. Answered(d)'
      BY <1>2, <1>7, <2>1, <2>3, <3>1 DEF Answered
    <3> QED
      BY <3>2, <3>3
  <2> QED
    BY <2>2, <2>3
<1> QED
  BY <1>2, <1>9, <1>10, <1>11, Kept DEF IInv, poolVars, aroundWorker, ownerVars, flagVars

(* A descriptor that is closed is its client's only one. *)
LEMMA CloseKeepsOthers ==
  ASSUME IInv, NEW c \in Clients, NEW fd \in Fd, table[fd] = c, c \notin fresh,
         table' = [table EXCEPT ![fd] = Nobody]
  PROVE  /\ table' \in [Fd -> Clients \cup {Nobody}] /\ table'[fd] = Nobody
         /\ \A d \in Clients \ {c} :
              /\ jobFd[d] > 0 => table'[jobFd[d]] = d
              /\ frameFd[d] > 0 => table'[frameFd[d]] = d
         /\ \A other \in Fd : table'[other] # Nobody => other # fd /\ table'[other] = table[other]
         /\ mainFd > 0 => table'[mainFd] = table[mainFd]
<1>1. Typed /\ LoopAt
  BY DEF IInv
<1>2. /\ table' \in [Fd -> Clients \cup {Nobody}] /\ table'[fd] = Nobody
      /\ \A other \in Fd \ {fd} : table'[other] = table[other]
  BY <1>1 DEF Typed
<1>3. ASSUME NEW d \in Clients \ {c}
      PROVE  /\ jobFd[d] > 0 => table'[jobFd[d]] = d
             /\ frameFd[d] > 0 => table'[frameFd[d]] = d
  <2>1. jobFd[d] \in 0 .. MaxFd /\ frameFd[d] \in 0 .. MaxFd
    BY <1>1 DEF Typed
  <2>2. /\ jobFd[d] > 0 => jobFd[d] \in Fd /\ table[jobFd[d]] = d
        /\ frameFd[d] > 0 => frameFd[d] \in Fd /\ table[frameFd[d]] = d
    <3>1. SocketAt(d)
      BY DEF IInv
    <3> QED
      BY <2>1, <3>1, BoundAssumption DEF SocketAt, Fd
  <2> QED
    BY <1>2, <2>2
<1>4. mainFd > 0 => mainFd \in Fd /\ mainFd # fd
  <2>1. mainFd \in 0 .. MaxFd /\ (mainFd > 0 => table[mainFd] = client /\ client \in fresh)
    BY <1>1 DEF Typed, LoopAt
  <2> QED
    BY <2>1, BoundAssumption DEF Fd
<1> QED
  BY <1>2, <1>3, <1>4

(* The end of the coroutine closes the connection. *)
LEMMA RespondMoves ==
  ASSUME IInv, NEW w \in Workers, Respond(w)
  PROVE  IInv'
<1>1. PICK c : c = work[w]
  OBVIOUS
<1>2. /\ at[w] = "sending" /\ at' = [at EXCEPT ![w] = "finishing"]
      /\ SendAnswer(c, frameFd[c])
      /\ table' = Closed(table, frameFd[c])
      /\ frameFd' = [frameFd EXCEPT ![c] = 0]
      /\ UNCHANGED <<poolVars, aroundWorker, jobFd, work>>
  BY <1>1 DEF Respond, Moves
<1>3. Typed /\ LoopAt /\ Owned /\ WorkerAt(w) /\ Quiet(w)
  BY DEF IInv
<1>4. /\ c \in Clients /\ c # Nobody /\ c \in held /\ c \notin fresh /\ ~Waiting(c)
      /\ \A v \in Workers : work[v] = c => v = w
      /\ SocketAt(c) /\ Answered(c) /\ (frameFd[c] > 0 => frameFd[c] \in Fd)
  BY <1>1, <1>2, AtWork
<1>5. /\ frameFd[c] > 0 /\ frameFd[c] \in Fd /\ table[frameFd[c]] = c
      /\ ~(jobFd[c] > 0)
  BY <1>1, <1>2, <1>3, <1>4 DEF WorkerAt, SocketAt
<1>6. inbox[c] = <<>>
  BY <1>1, <1>2, <1>4 DEF Answered
<1>7. /\ inbox' \in [Clients -> Seq(Clients)] /\ inbox'[c] \in {<<>>, <<c>>}
      /\ \A d \in Clients \ {c} : inbox'[d] = inbox[d]
  BY <1>2, <1>4, <1>5, <1>6, AnswerSent
<1>8. /\ at'[w] = "finishing" /\ \A v \in Workers \ {w} : at'[v] = at[v]
      /\ at' \in [Workers -> {"absent", "test", "ready", "dispatch", "serving", "sending",
                              "finishing", "exited", "crashed"}]
  BY <1>2, <1>3 DEF Typed
<1>9. /\ table' \in [Fd -> Clients \cup {Nobody}]
      /\ \A d \in Clients \ {c} :
           /\ jobFd[d] > 0 => table'[jobFd[d]] = d
           /\ frameFd[d] > 0 => table'[frameFd[d]] = d
      /\ \A fd \in Fd : table'[fd] # Nobody => fd # frameFd[c] /\ table'[fd] = table[fd]
      /\ mainFd > 0 => table'[mainFd] = table[mainFd]
  <2>1. table' = [table EXCEPT ![frameFd[c]] = Nobody]
    BY <1>2, <1>5 DEF Closed
  <2> QED
    BY <1>4, <1>5, <2>1, CloseKeepsOthers
<1>10. /\ frameFd' \in [Clients -> 0 .. MaxFd] /\ frameFd'[c] = 0
       /\ \A d \in Clients \ {c} : frameFd'[d] = frameFd[d]
  <2>1. 0 \in 0 .. MaxFd
    BY BoundAssumption
  <2> QED
    BY <1>2, <1>3, <1>4, <2>1 DEF Typed
<1>11. Typed'
  BY <1>2, <1>3, <1>7, <1>8, <1>9, <1>10
  DEF Typed, poolVars, aroundWorker, ownerVars, flagVars, InRun
<1>12. LoopAt'
  BY <1>2, <1>3, <1>9 DEF LoopAt, Pending, IsIn, poolVars, aroundWorker, ownerVars
<1>13. ASSUME NEW v \in Workers PROVE WorkerAt(v)' /\ Quiet(v)'
  <2>1. WorkerAt(v) /\ Quiet(v) /\ work[v] \in Clients \cup {Nobody}
    BY <1>3 DEF IInv, Typed
  <2>2. CASE v # w
    <3>1. work[v] # c
      BY <1>4, <2>2
    <3>2. at[v] \in {"dispatch", "serving", "sending", "finishing"} =>
            frameFd'[work[v]] = frameFd[work[v]]
      BY <1>10, <2>1, <3>1 DEF WorkerAt
    <3>3. WorkerAt(v)'
      BY <1>2, <1>8, <2>1, <2>2, <3>2 DEF WorkerAt, poolVars
    <3>4. Quiet(v)'
      BY <1>2, <1>8, <2>1, <2>2 DEF Quiet, aroundWorker, ownerVars, flagVars
    <3> QED
      BY <3>3, <3>4
  <2>3. CASE v = w
    <3>1. WorkerAt(v)'
      BY <1>1, <1>2, <1>4, <1>8, <1>10, <2>3 DEF WorkerAt, poolVars
    <3>2. Quiet(v)'
      BY <1>2, <1>3, <1>8, <2>3 DEF Quiet, aroundWorker, ownerVars, flagVars
    <3> QED
      BY <3>1, <3>2
  <2> QED
    BY <2>2, <2>3
<1>14. ASSUME NEW d \in Clients PROVE SocketAt(d)' /\ Answered(d)'
  <2>1. SocketAt(d) /\ Answered(d) /\ (Waiting(d)' <=> Waiting(d)) /\ fresh' = fresh
    BY <1>2 DEF IInv, Waiting, IsIn, poolVars
  <2>2. CASE d = c
    <3>1. SocketAt(d)'
      BY <1>2, <1>4, <1>5, <1>10, <2>1, <2>2 DEF SocketAt
    <3>2. Answered(d)'
      BY <1>2, <1>4, <1>7, <1>8, <2>1, <2>2 DEF Answered
    <3> QED
      BY <3>1, <3>2
  <2>3. CASE d # c
    <3>1. \A v \in Workers : work[v] = d => at'[v] = at[v]
      BY <1>1, <1>8, <2>3
    <3>2. SocketAt(d)'
      BY <1>2, <1>9, <1>10, <2>1, <2>3, <3>1 DEF SocketAt
    <3>3. Answered(d)'
      BY <1>2, <1>7, <2>1, <2>3, <3>1 DEF Answered
    <3> QED
      BY <3>2, <3>3
  <2> QED
    BY <2>2, <2>3
<1>15. Owned'
  <2>1. ASSUME NEW fd \in Fd, table'[fd] # Nobody
        PROVE  fd = mainFd \/ jobFd[table[fd]] = fd \/ frameFd'[table[fd]] = fd
    <3>1. fd # frameFd[c] /\ table[fd] # Nobody /\ table[fd] \in Clients
      BY <1>3, <1>9, <2>1 DEF Typed
    <3>2. fd = mainFd \/ jobFd[table[fd]] = fd \/ frameFd[table[fd]] = fd
      BY <1>3, <3>1 DEF Owned
    <3> QED
      BY <1>10, <3>1, <3>2
  <2> QED
    BY <1>2, <1>9, <2>1 DEF Owned, aroundWorker
<1> QED
  BY <1>2, <1>11, <1>12, <1>13, <1>14, <1>15, Kept
  DEF IInv, poolVars, aroundWorker, ownerVars, flagVars

(* The job closes what its endpoint has not taken. *)
LEMMA FinishMoves ==
  ASSUME IInv, NEW w \in Workers, Finish(w)
  PROVE  IInv'
<1>1. PICK c : c = work[w]
  OBVIOUS
<1>2. /\ at[w] = "finishing" /\ at' = [at EXCEPT ![w] = "test"]
      /\ Pool!Finish(c)
      /\ table' = Closed(table, jobFd[c])
      /\ jobFd' = [jobFd EXCEPT ![c] = 0]
      /\ work' = [work EXCEPT ![w] = Nobody]
      /\ UNCHANGED <<aroundWorker, frameFd, inbox>>
  BY <1>1 DEF Finish, Moves
<1>3. /\ held' = held \ {c} /\ done' = done \cup {c} /\ UNCHANGED <<queues, fresh, refused>>
  BY <1>2 DEF Pool!Finish
<1>4. Typed /\ LoopAt /\ Placed /\ Owned /\ WorkerAt(w) /\ Quiet(w)
  BY DEF IInv
<1>5. /\ c \in Clients /\ c # Nobody /\ c \in held /\ c \notin fresh /\ ~Waiting(c)
      /\ \A v \in Workers : work[v] = c => v = w
      /\ SocketAt(c) /\ Answered(c) /\ (jobFd[c] > 0 => jobFd[c] \in Fd)
  BY <1>1, <1>2, AtWork
<1>6. frameFd[c] = 0 /\ (jobFd[c] > 0 => table[jobFd[c]] = c)
  BY <1>1, <1>2, <1>4, <1>5 DEF WorkerAt, SocketAt
<1>7. /\ at'[w] = "test" /\ work'[w] = Nobody
      /\ \A v \in Workers \ {w} : at'[v] = at[v] /\ work'[v] = work[v]
      /\ at' \in [Workers -> {"absent", "test", "ready", "dispatch", "serving", "sending",
                              "finishing", "exited", "crashed"}]
      /\ work' \in [Workers -> Clients \cup {Nobody}]
  BY <1>2, <1>4 DEF Typed
<1>8. /\ table' \in [Fd -> Clients \cup {Nobody}]
      /\ \A d \in Clients \ {c} :
           /\ jobFd[d] > 0 => table'[jobFd[d]] = d
           /\ frameFd[d] > 0 => table'[frameFd[d]] = d
      /\ \A fd \in Fd : table'[fd] # Nobody => fd # jobFd[c] /\ table'[fd] = table[fd]
      /\ mainFd > 0 => table'[mainFd] = table[mainFd]
  <2>1. CASE jobFd[c] > 0
    <3>1. table' = [table EXCEPT ![jobFd[c]] = Nobody]
      BY <1>2, <2>1 DEF Closed
    <3> QED
      BY <1>5, <1>6, <2>1, <3>1, CloseKeepsOthers
  <2>2. CASE ~(jobFd[c] > 0)
    <3>1. table' = table
      BY <1>2, <2>2 DEF Closed
    <3>2. \A fd \in Fd : fd # jobFd[c]
      BY <2>2, BoundAssumption DEF Fd
    <3>3. ASSUME NEW d \in Clients PROVE SocketAt(d)
      BY DEF IInv
    <3> QED
      BY <1>4, <3>1, <3>2, <3>3 DEF SocketAt, Typed
  <2> QED
    BY <2>1, <2>2
<1>9. /\ jobFd' \in [Clients -> 0 .. MaxFd] /\ jobFd'[c] = 0
      /\ \A d \in Clients \ {c} : jobFd'[d] = jobFd[d]
  <2>1. 0 \in 0 .. MaxFd
    BY BoundAssumption
  <2> QED
    BY <1>2, <1>4, <1>5, <2>1 DEF Typed
<1>10. Typed'
  <2>1. held' \in SUBSET Clients /\ done' \in SUBSET Clients
    BY <1>3, <1>4, <1>5 DEF Typed
  <2> QED
    BY <1>2, <1>3, <1>4, <1>7, <1>8, <1>9, <2>1
    DEF Typed, aroundWorker, ownerVars, flagVars, InRun
<1>11. LoopAt'
  BY <1>2, <1>3, <1>4, <1>8 DEF LoopAt, Pending, IsIn, aroundWorker, ownerVars
<1>12. Placed'
  BY <1>2, <1>3, <1>4 DEF Placed, Pending, Waiting, IsIn, Distinct, aroundWorker
<1>13. ASSUME NEW v \in Workers PROVE WorkerAt(v)' /\ Quiet(v)'
  <2>1. WorkerAt(v) /\ Quiet(v) /\ work[v] \in Clients \cup {Nobody}
    BY <1>4 DEF IInv, Typed
  <2>2. CASE v # w
    <3>1. work[v] # c
      BY <1>5, <2>2
    <3>2. at[v] \in {"dispatch", "serving", "sending", "finishing"} =>
            jobFd'[work[v]] = jobFd[work[v]]
      BY <1>9, <2>1, <3>1 DEF WorkerAt
    <3>3. work'[v] # Nobody => work'[v] \in held'
      BY <1>3, <1>7, <2>1, <2>2, <3>1 DEF WorkerAt
    <3>4. \A u \in Workers : work'[u] = work'[v] /\ work'[v] # Nobody => u = v
      BY <1>7, <2>1, <2>2 DEF WorkerAt
    <3>5. WorkerAt(v)'
      BY <1>2, <1>7, <2>1, <2>2, <3>2, <3>3, <3>4 DEF WorkerAt
    <3>6. Quiet(v)'
      BY <1>2, <1>7, <2>1, <2>2 DEF Quiet, aroundWorker, ownerVars, flagVars
    <3> QED
      BY <3>5, <3>6
  <2>3. CASE v = w
    <3>1. WorkerAt(v)'
      BY <1>7, <2>3 DEF WorkerAt
    <3>2. Quiet(v)'
      BY <1>2, <1>4, <1>7, <2>3 DEF Quiet, aroundWorker, ownerVars, flagVars
    <3> QED
      BY <3>1, <3>2
  <2> QED
    BY <2>2, <2>3
<1>14. ASSUME NEW d \in Clients PROVE SocketAt(d)' /\ Answered(d)'
  <2>1. SocketAt(d) /\ Answered(d) /\ (Waiting(d)' <=> Waiting(d)) /\ d # Nobody
    BY <1>3, NobodyAssumption DEF IInv, Waiting, IsIn
  <2>2. CASE d = c
    <3>1. \A v \in Workers : work'[v] # c
      BY <1>5, <1>7
    <3>2. SocketAt(d)'
      BY <1>2, <1>3, <1>5, <1>6, <1>9, <2>1, <2>2, <3>1 DEF SocketAt
    <3>3. Answered(d)'
      BY <1>2, <1>3, <1>5, <2>1, <2>2, <3>1 DEF Answered
    <3> QED
      BY <3>2, <3>3
  <2>3. CASE d # c
    <3>1. \A v \in Workers : /\ work[v] = d => v # w
                             /\ work'[v] = d => v # w
                             /\ v # w => work'[v] = work[v] /\ at'[v] = at[v]
      BY <1>1, <1>7, <2>1, <2>3
    <3>2. SocketAt(d)'
      BY <1>2, <1>3, <1>8, <1>9, <2>1, <2>3, <3>1 DEF SocketAt
    <3>3. Answered(d)'
      BY <1>2, <1>3, <2>1, <3>1 DEF Answered
    <3> QED
      BY <3>2, <3>3
  <2> QED
    BY <2>2, <2>3
<1>15. Owned'
  <2>1. ASSUME NEW fd \in Fd, table'[fd] # Nobody
        PROVE  fd = mainFd \/ jobFd'[table[fd]] = fd \/ frameFd[table[fd]] = fd
    <3>1. fd # jobFd[c] /\ table[fd] # Nobody /\ table[fd] \in Clients
      BY <1>4, <1>8, <2>1 DEF Typed
    <3>2. fd = mainFd \/ jobFd[table[fd]] = fd \/ frameFd[table[fd]] = fd
      BY <1>4, <3>1 DEF Owned
    <3> QED
      BY <1>9, <3>1, <3>2
  <2> QED
    BY <1>2, <1>8, <2>1 DEF Owned, aroundWorker
<1> QED
  BY <1>2, <1>3, <1>10, <1>11, <1>12, <1>13, <1>14, <1>15, Kept
  DEF IInv, aroundWorker, ownerVars, flagVars

-----------------------------------------------------------------------------
(* No client has connected and no worker has started. *)
LEMMA IInvInit == Init => IInv
<1> SUFFICES ASSUME Init PROVE IInv
  OBVIOUS
<1>1. /\ queues = [l \in 0 .. 5 |-> <<>>] /\ fresh = Clients
      /\ refused = {} /\ held = {} /\ done = {}
  BY DEF Init, Pool!PoolInit, Pool!Level
<1>2. /\ main = "made" /\ result = "none" /\ runs = 0 /\ client = Nobody
      /\ running = TRUE /\ endSignal = FALSE /\ late = 0 /\ backlog = <<>>
      /\ peer = [c \in Clients |-> "away"] /\ sent = [c \in Clients |-> 0]
      /\ table = [fd \in Fd |-> Nobody] /\ mainFd = 0
      /\ jobFd = [c \in Clients |-> 0] /\ frameFd = [c \in Clients |-> 0]
      /\ request = [c \in Clients |-> 0] /\ inbox = [c \in Clients |-> <<>>]
      /\ at = [w \in Workers |-> "absent"] /\ work = [w \in Workers |-> Nobody]
  BY DEF Init
<1>3. <<>> \in Seq(Clients) /\ Len(<<>>) = 0
  BY EmptySeq
<1>4. \A c : ~Waiting(c) /\ ~Pending(c)
  BY <1>1, <1>2, <1>3 DEF Waiting, Pending, IsIn
<1>5. Typed
  <2>1. /\ queues \in [0 .. 5 -> Seq(Clients)] /\ backlog \in Seq(Clients)
        /\ inbox \in [Clients -> Seq(Clients)]
    BY <1>1, <1>2, <1>3
  <2>2. \A l \in 0 .. 5 : Len(queues[l]) <= QueueSize
    BY <1>1, <1>3, BoundAssumption
  <2>3. /\ runs \in 0 .. MaxRuns /\ mainFd \in 0 .. MaxFd
        /\ jobFd \in [Clients -> 0 .. MaxFd] /\ frameFd \in [Clients -> 0 .. MaxFd]
    <3>1. 0 \in 0 .. MaxFd /\ 0 \in 0 .. MaxRuns
      BY BoundAssumption
    <3>2. runs \in 0 .. MaxRuns /\ mainFd \in 0 .. MaxFd
      BY <1>2, <3>1
    <3>3. jobFd \in [Clients -> 0 .. MaxFd] /\ frameFd \in [Clients -> 0 .. MaxFd]
      BY <1>2, <3>1
    <3> QED
      BY <3>2, <3>3
  <2>4. sent \in [Clients -> 0 .. Pieces] /\ request \in [Clients -> 0 .. Pieces]
    BY <1>2 DEF Pieces
  <2>5. /\ peer \in [Clients -> {"away", "open", "closed", "reset"}]
        /\ table \in [Fd -> Clients \cup {Nobody}]
        /\ at \in [Workers -> {"absent", "test", "ready", "dispatch", "serving", "sending",
                               "finishing", "exited", "crashed"}]
        /\ work \in [Workers -> Clients \cup {Nobody}]
    BY <1>2
  <2> QED
    BY <1>1, <1>2, <2>1, <2>2, <2>3, <2>4, <2>5 DEF Typed
<1>6. LoopAt
  BY <1>2 DEF LoopAt
<1>7. Placed
  <2>1. Distinct(backlog) /\ Distinct(queues[2])
    BY <1>1, <1>2, <1>3 DEF Distinct
  <2> QED
    BY <1>1, <1>4, <2>1 DEF Placed
<1>8. Owned /\ Final /\ FailureHasCause
  BY <1>2 DEF Owned, Final, FailureHasCause
<1>9. ASSUME NEW w \in Workers PROVE WorkerAt(w) /\ Quiet(w)
  BY <1>2 DEF WorkerAt, Quiet
<1>10. ASSUME NEW c \in Clients PROVE SocketAt(c) /\ Answered(c) /\ Whole(c)
  BY <1>1, <1>2, <1>4 DEF SocketAt, Answered, Whole
<1> QED
  BY <1>5, <1>6, <1>7, <1>8, <1>9, <1>10 DEF IInv

(* Every step preserves IInv: the lemmas above have one case for each action.*)
LEMMA IInvNext == IInv /\ [Next]_vars => IInv'
<1> SUFFICES ASSUME IInv, [Next]_vars PROVE IInv'
  OBVIOUS
<1>1. CASE OwnerStep
  BY <1>1, CreateMoves, RunMoves, DestroyMoves DEF OwnerStep
<1>2. CASE RunStep
  BY <1>2, LoopTestMoves, AcceptNobodyMoves, AcceptMoves, PollMoves, PollFailsMoves,
     ReceiveMoves, RecheckMoves, HandleRequestMoves, HandleRequestFailsMoves DEF RunStep
<1>3. CASE DestroyStep
  BY <1>3, StopWorkersMoves, JoinMoves DEF DestroyStep
<1>4. CASE Signal
  BY <1>4, SignalMoves
<1>5. ASSUME NEW c \in Clients, ClientStep(c) PROVE IInv'
  BY <1>5, ConnectMoves, WriteMoves, LeaveMoves DEF ClientStep
<1>6. ASSUME NEW w \in Workers, WorkerStep(w) PROVE IInv'
  BY <1>6, TestMoves, TakeJobMoves, DispatchMovesMoves, DispatchRejectsMoves, RespondMoves,
     FinishMoves DEF WorkerStep
<1>7. CASE UNCHANGED vars
  <2>1. Typed'
    BY <1>7 DEF vars, IInv, Typed, InRun
  <2> QED
    BY <1>7, <2>1, Kept DEF vars, IInv
<1> QED
  BY <1>1, <1>2, <1>3, <1>4, <1>5, <1>6, <1>7 DEF Next, Ended

(* Every reachable state satisfies the inductive invariant. *)
THEOREM SpecIInv == Spec => []IInv
BY IInvInit, IInvNext, PTL DEF Spec

(* Every variable has its type. *)
THEOREM SpecTypeOK == Spec => []TypeOK
<1>1. ASSUME IInv PROVE TypeOK
  <2>1. Typed
    BY <1>1 DEF IInv
  <2>2. ASSUME NEW c \in Clients PROVE request[c] \in 0 .. sent[c]
    <3>1. request[c] \in 0 .. Pieces /\ sent[c] \in 0 .. Pieces
      BY <2>1 DEF Typed
    <3>2. request[c] <= sent[c]
      BY <1>1 DEF IInv, Whole
    <3> QED
      BY <3>1, <3>2 DEF Pieces
  <2> QED
    BY <2>1, <2>2 DEF Typed, TypeOK
<1> QED
  BY <1>1, SpecIInv, PTL

(* Of the sockets that hold descriptors, each open descriptor has one, and  *)
(* it is one of the client whose connection the descriptor is of: whatever  *)
(* thread a socket is moved to, no descriptor is closed twice or forgotten. *)
THEOREM SpecOneHolder == Spec => []OneHolder
<1>1. ASSUME IInv PROVE OneHolder
  <2> SUFFICES ASSUME NEW fd \in Fd
               PROVE  IF table[fd] = Nobody THEN Sockets(fd) = {}
                        ELSE \E kind \in {"main", "job", "frame"} :
                               Sockets(fd) = {<<kind, table[fd]>>}
    BY DEF OneHolder
  <2>1. Typed /\ LoopAt /\ Owned /\ \A c \in Clients : SocketAt(c)
    BY <1>1 DEF IInv
  <2>2. fd > 0 /\ table[fd] \in Clients \cup {Nobody}
    <3>1. fd > 0
      BY BoundAssumption DEF Fd
    <3> QED
      BY <2>1, <3>1 DEF Typed
  <2>3. \A s : s \in Sockets(fd) <=>
                 \/ s = <<"main", client>> /\ mainFd = fd
                 \/ \E d \in Clients : s = <<"job", d>> /\ jobFd[d] = fd
                 \/ \E d \in Clients : s = <<"frame", d>> /\ frameFd[d] = fd
    BY DEF Sockets
  <2>4. mainFd = fd => table[fd] = client /\ client # Nobody /\ client \in fresh
    BY <2>1, <2>2 DEF LoopAt
  <2>5. ASSUME NEW d \in Clients
        PROVE  /\ d # Nobody
               /\ jobFd[d] = fd => table[fd] = d /\ d \notin fresh /\ frameFd[d] # fd
               /\ frameFd[d] = fd => table[fd] = d /\ d \notin fresh /\ jobFd[d] # fd
    BY <2>1, <2>2, NobodyAssumption DEF SocketAt
  <2>6. CASE table[fd] = Nobody
    BY <2>3, <2>4, <2>5, <2>6
  <2>7. CASE table[fd] # Nobody
    <3>1. PICK c \in Clients : table[fd] = c
      BY <2>2, <2>7
    <3>2. fd = mainFd \/ jobFd[c] = fd \/ frameFd[c] = fd
      BY <2>1, <3>1, <2>7 DEF Owned
    <3>3. CASE fd = mainFd
      <4>1. \A s : s \in Sockets(fd) <=> s = <<"main", c>>
        BY <2>3, <2>4, <2>5, <3>1, <3>3
      <4>2. Sockets(fd) = {<<"main", c>>}
        BY <4>1
      <4> QED
        BY <2>7, <3>1, <4>2
    <3>4. CASE jobFd[c] = fd
      <4>1. \A s : s \in Sockets(fd) <=> s = <<"job", c>>
        BY <2>3, <2>4, <2>5, <3>1, <3>4
      <4>2. Sockets(fd) = {<<"job", c>>}
        BY <4>1
      <4> QED
        BY <2>7, <3>1, <4>2
    <3>5. CASE frameFd[c] = fd
      <4>1. \A s : s \in Sockets(fd) <=> s = <<"frame", c>>
        BY <2>3, <2>4, <2>5, <3>1, <3>5
      <4>2. Sockets(fd) = {<<"frame", c>>}
        BY <4>1
      <4> QED
        BY <2>7, <3>1, <4>2
    <3> QED
      BY <3>2, <3>3, <3>4, <3>5
  <2> QED
    BY <2>6, <2>7
<1> QED
  BY <1>1, SpecIInv, PTL

(* However descriptors are reused and handed on, no client is sent another's *)
(* answer, or its own twice.                                                 *)
THEOREM SpecAnswerReachesItsClient == Spec => []AnswerReachesItsClient
<1>1. IInv => AnswerReachesItsClient
  BY DEF IInv, Answered, AnswerReachesItsClient
<1> QED
  BY <1>1, SpecIInv, PTL

(* run() gives up only for a client that has reset its connection or for a   *)
(* request that the queue has refused.                                       *)
THEOREM SpecFailureHasCause == Spec => []FailureHasCause
<1>1. IInv => FailureHasCause
  BY DEF IInv
<1> QED
  BY <1>1, SpecIInv, PTL

(* What a job is given of a request that was sent in one piece is all of it  *)
(* or nothing.                                                               *)
THEOREM SpecWholeUnlessSplit == Spec => []WholeUnlessSplit
<1>1. IInv => WholeUnlessSplit
  BY DEF IInv, Whole, WholeUnlessSplit
<1> QED
  BY <1>1, SpecIInv, PTL

(* At most one connection is accepted after SIGINT. *)
THEOREM SpecSignalIsFinal == Spec => []SignalIsFinal
<1>1. IInv => SignalIsFinal
  BY DEF IInv, Final, SignalIsFinal
<1> QED
  BY <1>1, SpecIInv, PTL

(* Workers use the endpoints of a destroyed server only while it is being    *)
(* destroyed, and what it leaves open are connections of jobs that stay in   *)
(* the queue for ever.                                                       *)
THEOREM SpecGoneIsQuiet == Spec => []GoneIsQuiet
<1>1. ASSUME IInv PROVE GoneIsQuiet
  <2>1. /\ (\E w \in Workers : at[w] = "crashed") => main \in {"tearing", "joining"}
        /\ ~running /\ main # "joining" =>
             \A w \in Workers : at[w] \in {"absent", "test", "exited"}
    BY <1>1 DEF IInv, Quiet
  <2>2. ASSUME main = "gone", NEW fd \in Fd, table[fd] # Nobody
        PROVE  \E i \in DOMAIN queues[2] : queues[2][i] = table[fd]
    <3>1. PICK c \in Clients : table[fd] = c /\ c # Nobody
      BY <1>1, <2>2 DEF IInv, Typed
    <3>2. \A w \in Workers : work[w] # c
      BY <1>1, <2>2, <3>1 DEF IInv, WorkerAt, Quiet
    <3>3. mainFd # fd /\ fd > 0
      <4>1. ~(mainFd > 0)
        BY <1>1, <2>2 DEF IInv, LoopAt
      <4>2. fd > 0
        BY BoundAssumption DEF Fd
      <4> QED
        BY <4>1, <4>2
    <3>4. jobFd[c] = fd \/ frameFd[c] = fd
      BY <1>1, <2>2, <3>1, <3>3 DEF IInv, Owned
    <3>5. Waiting(c)
      BY <1>1, <3>2, <3>3, <3>4 DEF IInv, SocketAt
    <3>6. DOMAIN queues[2] = 1 .. Len(queues[2])
      <4>1. queues[2] \in Seq(Clients)
        BY <1>1 DEF IInv, Typed
      <4> QED
        BY <4>1, LenProperties
    <3> QED
      BY <3>1, <3>5, <3>6 DEF Waiting, IsIn
  <2> QED
    BY <2>1, <2>2 DEF GoneIsQuiet
<1> QED
  BY <1>1, SpecIInv, PTL

-----------------------------------------------------------------------------
(* A step makes at most one worker busy, so that, even with infinitely many  *)
(* of them, finitely many are.                                               *)
LEMMA SpecFinitelyBusy == Spec => []IsFiniteSet(Busy)
<1>1. Init => IsFiniteSet(Busy)
  <2> SUFFICES ASSUME Init PROVE IsFiniteSet(Busy)
    OBVIOUS
  <2>1. Busy = {}
    BY DEF Init, Busy
  <2> QED
    BY <2>1, FS_EmptySet
<1>2. IsFiniteSet(Busy) /\ [Next]_vars => IsFiniteSet(Busy)'
  <2> SUFFICES ASSUME IsFiniteSet(Busy), [Next]_vars PROVE IsFiniteSet(Busy)'
    OBVIOUS
  <2>1. \/ work' = work
        \/ \E w \in Workers : \E c : work' = [work EXCEPT ![w] = c]
    <3>1. OwnerStep => work' = work
      BY DEF OwnerStep, Create, Run, Destroy, aroundOwner, workerVars
    <3>2. RunStep => work' = work
      BY DEF RunStep, LoopTest, NothingToAccept, Accept, AcceptFails, Poll, PollFails, Drop,
         Receive, Recheck, ReceiveFails, HandleRequest, HandleRequestFails, aroundOwner,
         aroundIteration, workerVars
    <3>3. DestroyStep \/ Signal \/ Ended \/ UNCHANGED vars => work' = work
      BY DEF DestroyStep, StopWorkers, Join, Signal, Ended, aroundOwner, workerVars, vars
    <3>4. ASSUME NEW c \in Clients, ClientStep(c) PROVE work' = work
      BY <3>4 DEF ClientStep, Connect, Write, Leave, workerVars
    <3>5. ASSUME NEW w \in Workers, WorkerStep(w)
          PROVE  work' = work \/ \E c : work' = [work EXCEPT ![w] = c]
      <4>1. CASE TakeJob(w)
        BY <4>1 DEF TakeJob
      <4>2. CASE Finish(w)
        BY <4>2 DEF Finish
      <4>3. CASE ~TakeJob(w) /\ ~Finish(w)
        BY <3>5, <4>3 DEF WorkerStep, Test, WaitTimesOut, DispatchMoves, DispatchRejects,
           UseAfterDestruction, Serve, Respond
      <4> QED
        BY <4>1, <4>2, <4>3
    <3> QED
      BY <3>1, <3>2, <3>3, <3>4, <3>5 DEF Next
  <2>2. PICK w : Busy' \subseteq Busy \cup {w}
    <3>1. CASE work' = work
      BY <3>1 DEF Busy
    <3>2. ASSUME NEW w \in Workers, NEW c, work' = [work EXCEPT ![w] = c]
          PROVE  Busy' \subseteq Busy \cup {w}
      BY <3>2 DEF Busy
    <3> QED
      BY <2>1, <3>1, <3>2
  <2>3. IsFiniteSet(Busy \cup {w})
    BY FS_AddElement
  <2> QED
    BY <2>2, <2>3, FS_Subset
<1> QED
  BY <1>1, <1>2, PTL DEF Spec

(* Each of A has a place in B, and no two have the same. *)
LEMMA NoMoreThanPlaces ==
  ASSUME NEW A, NEW B, IsFiniteSet(B), NEW R,
         \A a \in A : \E b \in B : <<a, b>> \in R,
         \A a1, a2 \in A : \A b \in B : <<a1, b>> \in R /\ <<a2, b>> \in R => a1 = a2
  PROVE  IsFiniteSet(A) /\ Cardinality(A) <= Cardinality(B)
<1> DEFINE f == [a \in A |-> CHOOSE b \in B : <<a, b>> \in R]
<1>1. \A a \in A : f[a] \in B /\ <<a, f[a]>> \in R
  OBVIOUS
<1>2. f \in [A -> B]
  BY <1>1
<1>3. \A a1, a2 \in A : f[a1] = f[a2] => a1 = a2
  BY <1>1
<1>4. f \in Injection(A, B)
  <2> HIDE DEF f
  <2> QED
    BY <1>2, <1>3 DEF Injection, IsInjective
<1> QED
  BY <1>4, FS_Injection

(* The open descriptors are those of queued jobs, of busy workers and of the *)
(* loop, and no two are of the same one.                                     *)
THEOREM SpecDescriptorsBounded == Spec => []DescriptorsBounded
<1>1. ASSUME IInv, IsFiniteSet(Busy) PROVE DescriptorsBounded
  <2> DEFINE Queue == {fd \in Fd : table[fd] # Nobody /\ Waiting(table[fd])}
             Served == {fd \in Fd : table[fd] # Nobody /\ \E w \in Workers : work[w] = table[fd]}
             Loop == {fd \in Fd : table[fd] # Nobody /\ fd = mainFd}
             Positions == 1 .. Len(queues[2])
  <2>1. Typed /\ LoopAt /\ Placed /\ Owned
    BY <1>1 DEF IInv
  <2>2. \A fd \in Fd : fd > 0 /\ table[fd] \in Clients \cup {Nobody}
    <3>1. \A fd \in Fd : fd > 0
      BY BoundAssumption DEF Fd
    <3> QED
      BY <2>1, <3>1 DEF Typed
  <2>3. ASSUME NEW c \in Clients
        PROVE  /\ c # Nobody
               /\ Waiting(c) => c \notin fresh /\ ~\E w \in Workers : work[w] = c
               /\ (\E w \in Workers : work[w] = c) => c \notin fresh
               /\ frameFd[c] > 0 => ~(jobFd[c] > 0) /\ \E w \in Workers : work[w] = c
               /\ jobFd[c] > 0 => Waiting(c) \/ \E w \in Workers : work[w] = c
    <3>1. SocketAt(c) /\ c # Nobody
      BY <1>1, NobodyAssumption DEF IInv
    <3>2. (\E w \in Workers : work[w] = c) => c \in held
      BY <1>1, <3>1 DEF IInv, WorkerAt
    <3>3. (Waiting(c) => c \notin fresh /\ c \notin held) /\ (c \in held => c \notin fresh)
      BY <2>1 DEF Placed
    <3> QED
      BY <3>1, <3>2, <3>3 DEF SocketAt
  <2>4. ASSUME NEW fd \in Fd, table[fd] # Nobody
        PROVE  /\ table[fd] \in Clients
               /\ fd = mainFd \/ jobFd[table[fd]] = fd \/ frameFd[table[fd]] = fd
               /\ fd = mainFd => table[fd] \in fresh
    BY <2>1, <2>2, <2>4 DEF Owned, LoopAt
  <2>5. Fd \ Unused = (Queue \cup Served) \cup Loop
    <3>1. ASSUME NEW fd \in Fd, table[fd] # Nobody
          PROVE  fd = mainFd \/ Waiting(table[fd]) \/ \E w \in Workers : work[w] = table[fd]
      BY <2>2, <2>3, <2>4, <3>1
    <3> QED
      BY <3>1 DEF Unused
  <2>6. IsFiniteSet(Queue) /\ Cardinality(Queue) <= Len(queues[2])
    <3> DEFINE R == {p \in Queue \X Positions : queues[2][p[2]] = table[p[1]]}
    <3>1. Len(queues[2]) \in Nat
      <4>1. queues[2] \in Seq(Clients)
        BY <2>1 DEF Typed
      <4> QED
        BY <4>1, LenProperties
    <3>2. IsFiniteSet(Positions) /\ Cardinality(Positions) = Len(queues[2])
      <4>1. PICK n \in Nat : n = Len(queues[2])
        BY <3>1
      <4>2. IsFiniteSet(1 .. n) /\ Cardinality(1 .. n) = IF 1 > n THEN 0 ELSE n - 1 + 1
        BY FS_Interval
      <4> QED
        BY <4>1, <4>2
    <3>3. \A fd \in Queue : \E i \in Positions : <<fd, i>> \in R
      BY DEF Waiting, IsIn
    <3>4. ASSUME NEW fd \in Queue, NEW other \in Queue, table[fd] = table[other]
          PROVE  fd = other
      BY <2>2, <2>3, <2>4, <3>4
    <3>5. \A fd, other \in Queue : \A i \in Positions :
            <<fd, i>> \in R /\ <<other, i>> \in R => fd = other
      BY <3>4
    <3> HIDE DEF R, Queue, Positions
    <3>6. IsFiniteSet(Queue) /\ Cardinality(Queue) <= Cardinality(Positions)
      BY <3>2, <3>3, <3>5, NoMoreThanPlaces
    <3> QED
      BY <3>2, <3>6
  <2>7. IsFiniteSet(Served) /\ Cardinality(Served) <= Cardinality(Busy)
    <3> DEFINE R == {p \in Served \X Busy : work[p[2]] = table[p[1]]}
    <3>1. \A fd \in Served : \E w \in Busy : <<fd, w>> \in R
      BY DEF Busy
    <3>2. ASSUME NEW fd \in Served, NEW other \in Served, table[fd] = table[other]
          PROVE  fd = other
      BY <2>2, <2>3, <2>4, <3>2
    <3>3. \A fd, other \in Served : \A w \in Busy :
            <<fd, w>> \in R /\ <<other, w>> \in R => fd = other
      BY <3>2
    <3> HIDE DEF R, Served
    <3> QED
      BY <1>1, <3>1, <3>3, NoMoreThanPlaces
  <2>8. IsFiniteSet(Loop) /\ Cardinality(Loop) <= IF client # Nobody THEN 1 ELSE 0
    <3>1. CASE client # Nobody
      <4>1. Loop \subseteq {mainFd} /\ IsFiniteSet({mainFd}) /\ Cardinality({mainFd}) = 1
        BY FS_Singleton
      <4> HIDE DEF Loop
      <4>2. IsFiniteSet(Loop) /\ Cardinality(Loop) <= 1
        BY <4>1, FS_Subset
      <4> QED
        BY <3>1, <4>2
    <3>2. CASE client = Nobody
      <4>1. Loop = {}
        BY <2>1, <2>2, <3>2 DEF LoopAt
      <4> HIDE DEF Loop
      <4>2. IsFiniteSet(Loop) /\ Cardinality(Loop) = 0
        BY <4>1, FS_EmptySet
      <4> QED
        BY <3>2, <4>2
    <3> QED
      BY <3>1, <3>2
  <2> HIDE DEF Queue, Served, Loop
  <2>9. ASSUME NEW S, NEW T, IsFiniteSet(S), IsFiniteSet(T)
        PROVE  /\ IsFiniteSet(S \cup T) /\ Cardinality(S) \in Nat /\ Cardinality(T) \in Nat
               /\ Cardinality(S \cup T) <= Cardinality(S) + Cardinality(T)
    <3>1. /\ IsFiniteSet(S \cup T)
          /\ Cardinality(S \cup T) = Cardinality(S) + Cardinality(T) - Cardinality(S \cap T)
      BY <2>9, FS_Union
    <3>2. Cardinality(S) \in Nat /\ Cardinality(T) \in Nat
      BY <2>9, FS_CardinalityType
    <3>3. Cardinality(S \cap T) \in Nat
      <4>1. IsFiniteSet(S \cap T)
        BY <2>9, FS_Subset
      <4> QED
        BY <4>1, FS_CardinalityType
    <3> QED
      BY <3>1, <3>2, <3>3
  <2>10. Cardinality((Queue \cup Served) \cup Loop)
           <= Cardinality(Queue) + Cardinality(Served) + Cardinality(Loop)
    <3>1. /\ IsFiniteSet(Queue \cup Served)
          /\ Cardinality(Queue \cup Served) <= Cardinality(Queue) + Cardinality(Served)
          /\ Cardinality(Queue) \in Nat /\ Cardinality(Served) \in Nat
      BY <2>6, <2>7, <2>9
    <3>2. /\ IsFiniteSet((Queue \cup Served) \cup Loop)
          /\ Cardinality((Queue \cup Served) \cup Loop) <=
               Cardinality(Queue \cup Served) + Cardinality(Loop)
          /\ Cardinality(Queue \cup Served) \in Nat /\ Cardinality(Loop) \in Nat
      BY <2>8, <2>9, <3>1
    <3>3. Cardinality((Queue \cup Served) \cup Loop) \in Nat
      BY <3>2, FS_CardinalityType
    <3> QED
      BY <3>1, <3>2, <3>3
  <2> QED
    <3>1. /\ Cardinality((Queue \cup Served) \cup Loop) \in Nat
          /\ Cardinality(Queue) \in Nat /\ Cardinality(Served) \in Nat
          /\ Cardinality(Loop) \in Nat /\ Cardinality(Busy) \in Nat
      BY <1>1, <2>6, <2>7, <2>8, <2>9, FS_CardinalityType
    <3>2. Len(queues[2]) \in Nat
      <4>1. queues[2] \in Seq(Clients)
        BY <2>1 DEF Typed
      <4> QED
        BY <4>1, LenProperties
    <3>3. Cardinality(Queue) + Cardinality(Served) + Cardinality(Loop) <=
            Len(queues[2]) + Cardinality(Busy) + (IF client # Nobody THEN 1 ELSE 0)
      BY <2>6, <2>7, <2>8, <3>1, <3>2
    <3>4. Cardinality(Fd \ Unused) = Cardinality((Queue \cup Served) \cup Loop)
      BY <2>5, Zenon
    <3>5. Cardinality((Queue \cup Served) \cup Loop) <=
            Len(queues[2]) + Cardinality(Busy) + (IF client # Nobody THEN 1 ELSE 0)
      BY <2>10, <3>1, <3>2, <3>3
    <3> QED
      BY <3>4, <3>5 DEF DescriptorsBounded
<1> QED
  BY <1>1, SpecIInv, SpecFinitelyBusy, PTL

=============================================================================

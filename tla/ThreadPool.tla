----------------------------- MODULE ThreadPool -----------------------------
(***************************************************************************)
(* network_programming/ThreadPool/server.c: one thread accepts connections *)
(* and puts their descriptors into the task queue, a fixed pool of workers *)
(* takes them out and answers one HTTP request on each.                    *)
(***************************************************************************)
EXTENDS TaskQueue

CONSTANTS Main,              \* the accepting thread
          Clients, Stuck, BACKLOG, WINDOW,
          Wants,             \* the requests each client may send
          Chunks             \* how many reads it takes to send a file

Workers == Getters

ASSUME ThreadPoolAssumption ==
    /\ Putters = {Main}
    /\ Sockets \subseteq Nat /\ Sockets # {}
    /\ Stuck \subseteq Clients
    \* No GET request line, a file that does not exist, one that does.
    /\ Wants \in [Clients -> SUBSET {"bad", "missing", "file"}]
    /\ Chunks \in Nat /\ BACKLOG \in Nat \ {0} /\ WINDOW \in Nat
    \* NULL is no client and no text, and no client is a text.
    /\ NULL \notin Clients /\ NULL \notin {"bad", "missing", "file"}
    /\ "file" \notin Clients

VARIABLES
    status,      \* "ready", or "killed" by a signal
    task,        \* where each worker is in its loop
    open_fd,     \* fd of handle_client, the file a worker has open
    sent,        \* how many blocks of its file a worker has sent
    table, backlog, peer, request, answer, eof

INSTANCE Kernel WITH Fds <- Sockets

kernelVars == <<table, backlog, peer, request, answer, eof>>
workerVars == <<task, open_fd, sent>>
poolVars   == <<queueVars, status, workerVars, kernelVars>>

PoolInit ==
    /\ QueueInit /\ KernelInit
    /\ status = "ready"
    /\ task = [w \in Workers |-> "unborn"]
    /\ open_fd = [w \in Workers |-> NULL]
    /\ sent = [w \in Workers |-> 0]

-----------------------------------------------------------------------------
\* main

\* thrd_create succeeds.  Its result is not looked at: when it fails there is a
\* worker less, and thrd_detach of the unset workers[i] may end the process.
StartWorker(w) ==
    /\ task[w] = "unborn"
    /\ task' = [task EXCEPT ![w] = "dequeue"]
    /\ UNCHANGED <<queueVars, status, open_fd, sent, kernelVars>>

StartFails(w) ==
    /\ task[w] = "unborn"
    /\ task' = [task EXCEPT ![w] = "missing"]
    /\ status' \in {"ready", "killed"}
    /\ UNCHANGED <<queueVars, open_fd, sent, kernelVars>>

\* accept and the call of enqueue; a failed accept is tried again.
AcceptClient ==
    /\ \A w \in Workers : task[w] # "unborn"
    /\ \E f \in Sockets : Accept(f) /\ CallEnqueue(Main, f)
    /\ UNCHANGED <<status, workerVars>>

MainStep == \/ \E w \in Workers : StartWorker(w) \/ StartFails(w)
            \/ AcceptClient
            \/ PutStep(Main) /\ UNCHANGED <<status, workerVars, kernelVars>>

-----------------------------------------------------------------------------
\* worker_thread and handle_client

Client(w) == table[client_fd[w]]

TaskGoto(w, from, to) == task[w] = from /\ task' = [task EXCEPT ![w] = to]

Dequeue(w) ==
    /\ TaskGoto(w, "dequeue", "read")
    /\ CallDequeue(w)
    /\ UNCHANGED <<status, open_fd, sent, kernelVars>>

\* read: what was asked, or the end of the connection.
Read(w) ==
    /\ pc[w] = "idle" /\ task[w] = "read" /\ Readable(Client(w))
    /\ task' = [task EXCEPT ![w] =
                    IF ~ReadsData(Client(w)) THEN "close"
                    ELSE IF Asked(Client(w)) = "bad" THEN "400" ELSE "open"]
    /\ UNCHANGED <<queueVars, status, open_fd, sent, kernelVars>>

\* open fails for a missing file, and for any file when no descriptor is left.
OpenFails(w) ==
    /\ TaskGoto(w, "open", "404")
    /\ Asked(Client(w)) = "missing" \/ Free = {}
    /\ UNCHANGED <<queueVars, status, open_fd, sent, kernelVars>>

Open(w) ==
    /\ TaskGoto(w, "open", "200")
    /\ Asked(Client(w)) = "file"
    /\ \E f \in Sockets : OpenFile(f) /\ open_fd' = [open_fd EXCEPT ![w] = f]
    /\ UNCHANGED <<queueVars, status, sent>>

\* One write; its result is not looked at.
Respond(w, text, next) ==
    /\ TaskGoto(w, text, next)
    /\ Write(Client(w), text)
    /\ UNCHANGED <<queueVars, status, open_fd, sent>>

SendBlock(w) ==
    /\ task[w] = "body" /\ sent[w] < Chunks
    /\ Write(Client(w), "block")
    /\ sent' = [sent EXCEPT ![w] = @ + 1]
    /\ UNCHANGED <<queueVars, status, task, open_fd>>

Killed(w) ==
    /\ \/ task[w] \in {"400", "404", "200"}
       \/ task[w] = "body" /\ sent[w] < Chunks
    /\ WriteKills(Client(w))
    /\ status' = "killed"
    /\ UNCHANGED <<queueVars, workerVars, kernelVars>>

CloseFile(w) ==
    /\ sent[w] = Chunks
    /\ TaskGoto(w, "body", "close")
    /\ Close(open_fd[w])
    /\ open_fd' = [open_fd EXCEPT ![w] = NULL]
    /\ sent' = [sent EXCEPT ![w] = 0]
    /\ UNCHANGED <<queueVars, status>>

\* Mutants: a path closes the socket and then falls through to the other
\* close; the socket is not closed.
CloseTwice(w) ==
    /\ TaskGoto(w, "close", "again") \/ TaskGoto(w, "again", "dequeue")
    /\ Close(client_fd[w])
    /\ UNCHANGED <<queueVars, status, open_fd, sent>>
CloseForgotten(w) ==
    /\ TaskGoto(w, "close", "dequeue")
    /\ UNCHANGED <<queueVars, status, open_fd, sent, kernelVars>>

CloseClient(w) ==
    /\ TaskGoto(w, "close", "dequeue")
    /\ Close(client_fd[w])
    /\ UNCHANGED <<queueVars, status, open_fd, sent>>

WorkerStep(w) ==
    \/ Dequeue(w)
    \/ GetStep(w) /\ UNCHANGED <<status, workerVars, kernelVars>>
    \/ Read(w) \/ OpenFails(w) \/ Open(w)
    \/ Respond(w, "400", "close") \/ Respond(w, "404", "close") \/ Respond(w, "200", "body")
    \/ SendBlock(w) \/ Killed(w) \/ CloseFile(w) \/ CloseClient(w)

Run(A) == status = "ready" /\ A

PoolNext ==
    \/ Run(MainStep)
    \/ \E w \in Workers : Run(WorkerStep(w))
    \/ \E c \in Clients : Run(ClientStep(c)) /\ UNCHANGED <<queueVars, status, workerVars>>
    \/ status # "ready" /\ UNCHANGED poolVars

PoolSpec == PoolInit /\ [][PoolNext]_poolVars

\* Threads that can run are scheduled; a client that is not stuck sends.
FairPoolSpec ==
    /\ PoolSpec
    /\ WF_poolVars(Run(MainStep))
    /\ \A w \in Workers : WF_poolVars(Run(WorkerStep(w)))
    /\ \A c \in Clients \ Stuck :
          WF_poolVars(Run(Send(c)) /\ UNCHANGED <<queueVars, status, workerVars>>)
-----------------------------------------------------------------------------
\* Every variable stays in its domain.
PoolTypeOK ==
    /\ QueueTypeOK
    /\ status \in {"ready", "killed"}
    /\ task \in [Workers -> {"unborn", "missing", "dequeue", "read", "open",
                             "400", "404", "200", "body", "close"}]
    /\ open_fd \in [Workers -> Sockets \cup {NULL}]
    /\ sent \in [Workers -> 0 .. Chunks]
    /\ table \in [Sockets -> Clients \cup {"file", NULL}]
    /\ backlog \in Seq(Clients) /\ Len(backlog) <= BACKLOG
    /\ peer \in [Clients -> {"away", "open", "closed", "reset"}]
    /\ \A c \in Clients : request[c] \in Wants[c] \cup {NULL}
    /\ eof \in [Clients -> BOOLEAN]

\* The descriptor of a connection that a thread has in hand.
InHand(t) ==
    CASE t = Main -> StageOf(pc[t]) = "enq"
      [] t \in Workers -> StageOf(pc[t]) = "done" \/
            (pc[t] = "idle" /\ task[t] \notin {"unborn", "missing", "dequeue"})
Holding == {t \in Threads : InHand(t)}
Queued  == {Waiting[i] : i \in 1 .. count}

\* Every open descriptor has exactly one owner that will close it, although
\* numbers are reused as soon as they are closed (server.c:81, :97, :112, :115).
DescriptorOwnership ==
    /\ {f \in Sockets : table[f] \in Clients} = Queued \cup {client_fd[t] : t \in Holding}
    /\ \A i, j \in 1 .. count : Waiting[i] = Waiting[j] => i = j
    /\ \A t \in Holding : client_fd[t] \notin Queued
    /\ \A t, u \in Holding : client_fd[t] = client_fd[u] => t = u
    /\ {f \in Sockets : table[f] = "file"} = {open_fd[w] : w \in Workers} \ {NULL}
    /\ \A v, w \in Workers : open_fd[v] = open_fd[w] /\ open_fd[v] # NULL => v = w
    /\ \A f, g \in Sockets : table[f] = table[g] /\ table[f] \in Clients => f = g

\* The descriptors, with every variable in its domain.
DescriptorInv == PoolTypeOK /\ DescriptorOwnership

\* What handle_client answers; a file is "not found" when no descriptor is left.
Answers(r) ==
    CASE r = "bad" -> {<<"400">>}
      [] r = "missing" -> {<<"404">>}
      [] r = "file" -> {<<"404">>, <<"200">> \o [i \in 1 .. Chunks |-> "block"]}
      [] OTHER -> {}

\* A client gets the answer to its own request, nothing of another's, and its
\* connection is closed only after the whole answer, unless it hung up.
RightAnswer ==
    \A c \in Clients :
        /\ answer[c] # <<>> => \E a \in Answers(request[c]) :
                Len(answer[c]) <= Len(a) /\ answer[c] = SubSeq(a, 1, Len(answer[c]))
        /\ eof[c] /\ peer[c] = "open" => answer[c] \in Answers(request[c])

Missing == {w \in Workers : task[w] = "missing"}

\* As long as there are more workers than stuck clients, every other client
\* that stays connected gets its answer: a full queue or busy workers delay
\* connections but lose none.
EveryClientServed ==
    \A c \in Clients \ Stuck :
        peer[c] = "open" ~>
            \/ eof[c] \/ peer[c] # "open" \/ status # "ready"
            \/ Cardinality(Missing) + Cardinality(Stuck) >= Cardinality(Workers)
=============================================================================

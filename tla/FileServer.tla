----------------------------- MODULE FileServer -----------------------------
(***************************************************************************)
(* network_programming/concurrentFileServerClient: a server that starts a  *)
(* detached thread for each connection and lets a semaphore limit how many *)
(* there are, and the client that asks it for one file.                    *)
(***************************************************************************)
EXTENDS Integers, Sequences, FiniteSets

CONSTANTS Threads,          \* handler threads
          Clients, Stuck, Wants, Fds, BACKLOG, WINDOW, Chunks,
          MAX_CONNECTIONS,
          NULL

ASSUME FileServerAssumption ==
    /\ IsFiniteSet(Threads)
    /\ MAX_CONNECTIONS \in Nat \ {0} /\ Cardinality(Threads) >= MAX_CONNECTIONS
    /\ Fds \subseteq Nat /\ Fds # {}
    /\ Stuck \subseteq Clients
    \* A file that cannot be opened, one that can.
    /\ Wants \in [Clients -> SUBSET {"missing", "file"}]
    /\ Chunks \in Nat /\ BACKLOG \in Nat \ {0} /\ WINDOW \in Nat
    \* NULL is no number, no text and no client, and no client is a text.
    /\ NULL \notin Nat \cup {-1} /\ NULL \notin {"missing", "file"}
    /\ NULL \notin Clients /\ "file" \notin Clients

VARIABLES
    status,                  \* "ready", or "killed" by a signal
    conn_sem,
    main, arg,               \* the step of main, the cell it has malloc'ed
    cell,                    \* heap: the int main passes to each handler; NULL
                             \* when it is not allocated
    task, arg_of, client_fd, \* per handler: its step, argument and socket
    open_fd, sent,           \* per handler: its file, the blocks it has sent
    table, backlog, peer, request, answer, eof

INSTANCE Kernel

kernelVars  == <<table, backlog, peer, request, answer, eof>>
mainVars    == <<main, arg>>
handlerVars == <<task, arg_of, client_fd, open_fd, sent>>
vars == <<status, conn_sem, mainVars, cell, handlerVars, kernelVars>>

Cells == 1 .. MAX_CONNECTIONS

Init ==
    /\ KernelInit
    /\ status = "ready"
    /\ conn_sem = MAX_CONNECTIONS
    /\ main = "wait" /\ arg = NULL
    /\ cell = [i \in Cells |-> NULL]
    /\ task = [t \in Threads |-> "none"]
    /\ arg_of = [t \in Threads |-> NULL]
    /\ client_fd = [t \in Threads |-> NULL]
    /\ open_fd = [t \in Threads |-> NULL]
    /\ sent = [t \in Threads |-> 0]

-----------------------------------------------------------------------------
\* main

MainGoto(from, to) == main = from /\ main' = to
Post == conn_sem' = conn_sem + 1

WaitSlot ==
    /\ MainGoto("wait", "malloc")
    /\ conn_sem > 0 /\ conn_sem' = conn_sem - 1
    /\ UNCHANGED <<status, arg, cell, handlerVars, kernelVars>>

\* Mutant: one variable for all handlers.
MallocShared ==
    /\ MainGoto("malloc", "accept")
    /\ arg' = 1 /\ UNCHANGED cell
    /\ UNCHANGED <<status, conn_sem, handlerVars, kernelVars>>

Malloc ==
    /\ MainGoto("malloc", "accept")
    /\ \E i \in Cells :
         /\ cell[i] = NULL /\ \A j \in 1 .. i - 1 : cell[j] # NULL
         /\ cell' = [cell EXCEPT ![i] = -1]
         /\ arg' = i
    /\ UNCHANGED <<status, conn_sem, handlerVars, kernelVars>>

MallocFails ==
    /\ MainGoto("malloc", "wait")
    /\ Post
    /\ UNCHANGED <<status, arg, cell, handlerVars, kernelVars>>

AcceptClient ==
    /\ MainGoto("accept", "spawn")
    /\ \E f \in Fds : Accept(f) /\ cell' = [cell EXCEPT ![arg] = f]
    /\ UNCHANGED <<status, conn_sem, arg, handlerVars>>

\* Mutant: the failure path keeps the slot.
AcceptFailsNoPost ==
    /\ MainGoto("accept", "wait")
    /\ cell' = [cell EXCEPT ![arg] = NULL] /\ arg' = NULL
    /\ UNCHANGED <<status, conn_sem, handlerVars, kernelVars>>

\* accept fails at once when the process has no descriptor left, and at any
\* time when the system has no memory for the connection or a signal arrives.
AcceptFails ==
    /\ MainGoto("accept", "wait")
    /\ cell' = [cell EXCEPT ![arg] = NULL] /\ arg' = NULL
    /\ Post
    /\ UNCHANGED <<status, handlerVars, kernelVars>>

Spawn ==
    /\ MainGoto("spawn", "wait")
    /\ \E t \in Threads :
         /\ task[t] = "none"
         /\ task' = [task EXCEPT ![t] = "start"]
         /\ arg_of' = [arg_of EXCEPT ![t] = arg]
    /\ arg' = NULL
    /\ UNCHANGED <<status, conn_sem, cell, client_fd, open_fd, sent, kernelVars>>

SpawnFails ==
    /\ MainGoto("spawn", "wait")
    /\ Close(cell[arg])
    /\ cell' = [cell EXCEPT ![arg] = NULL] /\ arg' = NULL
    /\ Post
    /\ UNCHANGED <<status, handlerVars>>

MainStep == \/ WaitSlot \/ Malloc \/ MallocFails \/ AcceptClient \/ AcceptFails
            \/ Spawn \/ SpawnFails

-----------------------------------------------------------------------------
\* handle_client

Client(t) == table[client_fd[t]]

Goto(t, from, to) == task[t] = from /\ task' = [task EXCEPT ![t] = to]

Start(t) ==
    /\ Goto(t, "start", "read")
    /\ client_fd' = [client_fd EXCEPT ![t] = cell[arg_of[t]]]
    /\ cell' = [cell EXCEPT ![arg_of[t]] = NULL]
    /\ arg_of' = [arg_of EXCEPT ![t] = NULL]
    /\ UNCHANGED <<status, conn_sem, mainVars, open_fd, sent, kernelVars>>

Read(t) ==
    /\ task[t] = "read" /\ Readable(Client(t))
    /\ Goto(t, "read", IF ReadsData(Client(t)) THEN "open" ELSE "close")
    /\ UNCHANGED <<status, conn_sem, mainVars, cell, arg_of, client_fd, open_fd, sent, kernelVars>>

Open(t) ==
    /\ Goto(t, "open", "send")
    /\ Asked(Client(t)) = "file"
    /\ \E f \in Fds : OpenFile(f) /\ open_fd' = [open_fd EXCEPT ![t] = f]
    /\ UNCHANGED <<status, conn_sem, mainVars, cell, arg_of, client_fd, sent>>

\* open fails for a missing file, and for any file when no descriptor is left;
\* the result of the write is not looked at.
OpenFails(t) ==
    /\ Goto(t, "open", "close")
    /\ Asked(Client(t)) = "missing" \/ Free = {}
    /\ Write(Client(t), "error")
    /\ UNCHANGED <<status, conn_sem, mainVars, cell, arg_of, client_fd, open_fd, sent>>

SendBlock(t) ==
    /\ task[t] = "send" /\ sent[t] < Chunks
    /\ ~WriteFails(Client(t)) /\ Write(Client(t), "block")
    /\ sent' = [sent EXCEPT ![t] = @ + 1]
    /\ UNCHANGED <<status, conn_sem, mainVars, cell, task, arg_of, client_fd, open_fd>>

\* Mutant: one block is sent, not every block there is.
CloseFileEarly(t) ==
    /\ Goto(t, "send", "close")
    /\ sent[t] > 0 \/ WriteFails(Client(t))
    /\ Close(open_fd[t])
    /\ open_fd' = [open_fd EXCEPT ![t] = NULL]
    /\ sent' = [sent EXCEPT ![t] = 0]
    /\ UNCHANGED <<status, conn_sem, mainVars, cell, arg_of, client_fd>>

\* The end of the file, or a write that fails.
CloseFile(t) ==
    /\ Goto(t, "send", "close")
    /\ sent[t] = Chunks \/ WriteFails(Client(t))
    /\ Close(open_fd[t])
    /\ open_fd' = [open_fd EXCEPT ![t] = NULL]
    /\ sent' = [sent EXCEPT ![t] = 0]
    /\ UNCHANGED <<status, conn_sem, mainVars, cell, arg_of, client_fd>>

Killed(t) ==
    /\ \/ task[t] = "open" /\ (Asked(Client(t)) = "missing" \/ Free = {})
       \/ task[t] = "send" /\ sent[t] < Chunks
    /\ WriteKills(Client(t))
    /\ status' = "killed"
    /\ UNCHANGED <<conn_sem, mainVars, cell, handlerVars, kernelVars>>

\* Mutant: the slot is given back before the socket is closed.
PostFirst(t) ==
    /\ \/ task[t] = "close" /\ task' = [task EXCEPT ![t] = "late"] /\ Post
          /\ UNCHANGED <<client_fd, kernelVars>>
       \/ task[t] = "late" /\ task' = [task EXCEPT ![t] = "none"] /\ UNCHANGED conn_sem
          /\ Close(client_fd[t]) /\ client_fd' = [client_fd EXCEPT ![t] = NULL]
    /\ UNCHANGED <<status, mainVars, cell, arg_of, open_fd, sent>>

CloseClient(t) ==
    /\ Goto(t, "close", "post")
    /\ Close(client_fd[t])
    /\ client_fd' = [client_fd EXCEPT ![t] = NULL]
    /\ UNCHANGED <<status, conn_sem, mainVars, cell, arg_of, open_fd, sent>>

\* Mutant: the slot is not given back.
NoPost(t) ==
    /\ Goto(t, "post", "none")
    /\ UNCHANGED <<status, conn_sem, mainVars, cell, arg_of, client_fd, open_fd, sent, kernelVars>>

\* The last thing a handler does that another thread can see.
PostSlot(t) ==
    /\ Goto(t, "post", "none")
    /\ Post
    /\ UNCHANGED <<status, mainVars, cell, arg_of, client_fd, open_fd, sent, kernelVars>>

HandlerStep(t) == \/ Start(t) \/ Read(t) \/ Open(t) \/ OpenFails(t) \/ SendBlock(t)
                  \/ CloseFile(t) \/ Killed(t) \/ CloseClient(t) \/ PostSlot(t)

-----------------------------------------------------------------------------
Run(A) == status = "ready" /\ A

\* client.c: it connects, sends the name that was typed (a client in Stuck may
\* never do so: an empty line sends nothing), and reads until the server closes
\* the connection; it can be interrupted at any time.
Client_c(c) == ClientStep(c) /\ UNCHANGED <<status, conn_sem, mainVars, cell, handlerVars>>

Next ==
    \/ Run(MainStep)
    \/ \E t \in Threads : Run(HandlerStep(t))
    \/ \E c \in Clients : Run(Client_c(c))
    \/ status # "ready" /\ UNCHANGED vars

Spec == Init /\ [][Next]_vars

\* Threads that can run are scheduled, and a name is typed.
FairSpec ==
    /\ Spec
    /\ WF_vars(Run(MainStep))
    /\ \A t \in Threads : WF_vars(Run(HandlerStep(t)))
    /\ \A c \in Clients \ Stuck : WF_vars(Run(Client_c(c)) /\ request' # request)
-----------------------------------------------------------------------------
\* Every variable stays in its domain.
TypeOK ==
    /\ status \in {"ready", "killed"}
    /\ conn_sem \in 0 .. MAX_CONNECTIONS
    /\ main \in {"wait", "malloc", "accept", "spawn"} /\ arg \in Cells \cup {NULL}
    /\ cell \in [Cells -> Fds \cup {NULL, -1}]
    /\ task \in [Threads -> {"none", "start", "read", "open", "send", "close", "post"}]
    /\ arg_of \in [Threads -> Cells \cup {NULL}]
    /\ client_fd \in [Threads -> Fds \cup {NULL}]
    /\ open_fd \in [Threads -> Fds \cup {NULL}]
    /\ sent \in [Threads -> 0 .. Chunks]
    /\ table \in [Fds -> Clients \cup {"file", NULL}]
    /\ peer \in [Clients -> {"away", "open", "closed", "reset"}]
    /\ \A c \in Clients : request[c] \in Wants[c] \cup {NULL}
    /\ eof \in [Clients -> BOOLEAN]

Alive == {t \in Threads : task[t] # "none"}
Connections == {f \in Fds : table[f] \in Clients}

\* Each slot is free, with main, or with one handler, whatever failed on the
\* way (server.c:56, :68, :86, :134, :142, :154).
SlotAccounting ==
    conn_sem + Cardinality(Alive) + (IF main = "wait" THEN 0 ELSE 1) = MAX_CONNECTIONS

\* "maximum simultaneous clients" (server.c:18): the slot is given back only
\* after the connection is closed.
SimultaneousClients == Cardinality(Connections) <= MAX_CONNECTIONS

\* The slots, and the connections that may be open for them, with every variable in
\* its domain.
SlotInv == TypeOK /\ SlotAccounting /\ SimultaneousClients

\* The connection of main and of each handler, through the cell while it is on
\* its way: no two have the same, and every open one has an owner.
Owned(t) == IF task[t] = "start" THEN cell[arg_of[t]] ELSE client_fd[t]
Owners == {t \in Alive : task[t] # "post"}
DescriptorOwnership ==
    /\ Connections = {Owned(t) : t \in Owners} \cup (IF main = "spawn" THEN {cell[arg]} ELSE {})
    /\ \A t, u \in Owners : Owned(t) = Owned(u) => t = u
    /\ main = "spawn" => \A t \in Owners : Owned(t) # cell[arg]
    /\ {f \in Fds : table[f] = "file"} = {open_fd[t] : t \in Threads} \ {NULL}
    /\ \A t, u \in Threads : open_fd[t] = open_fd[u] /\ open_fd[t] # NULL => t = u

Answers(r) ==
    CASE r = "missing" -> {<<"error">>}
      [] r = "file" -> {<<"error">>, [i \in 1 .. Chunks |-> "block"]}
      [] OTHER -> {<<>>}

\* What a client has received is a beginning of the answer to its own request.
\* A connection that is closed while the client is still there was asked for
\* something and is told all of it: only one for which no handler could be
\* started (server.c:150) is closed without an answer.  Nothing follows the close.
RightAnswer ==
    /\ [](\A c \in Clients : \E a \in Answers(request[c]) :
            Len(answer[c]) <= Len(a) /\ answer[c] = SubSeq(a, 1, Len(answer[c])))
    /\ [][\A c \in Clients :
            /\ ~eof[c] /\ eof'[c] /\ peer[c] = "open" =>
                  IF SpawnFails THEN answer[c] = <<>>
                                ELSE request[c] # NULL /\ answer[c] \in Answers(request[c])
            /\ eof[c] => eof'[c] /\ answer'[c] = answer[c]]_vars

\* With fewer silent clients than slots every other client is served or turned
\* away, unless malloc fails for ever, or accept with descriptors to spare.
EveryClientServed ==
    <>[][~MallocFails /\ (AcceptFails => Free = {})]_vars =>
        \A c \in Clients \ Stuck :
            peer[c] = "open" ~> eof[c] \/ peer[c] # "open" \/ status # "ready"
=============================================================================

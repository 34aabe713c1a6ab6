----------------------------- MODULE HttpsServer ----------------------------
(***************************************************************************)
(* network_programming/secureHttpServerAndClient: an HTTPS server.  main   *)
(* itself shakes hands with each client and then starts a detached thread  *)
(* for it; a semaphore limits the threads.  SSL_free does not close the    *)
(* descriptor that SSL_set_fd gave it (its BIO is made with BIO_NOCLOSE).  *)
(***************************************************************************)
EXTENDS Integers, Sequences, FiniteSets

CONSTANTS Threads,             \* handler threads
          Clients, Stuck, Wants, Fds, BACKLOG, WINDOW, Chunks,
          MAX_CONNECTIONS,
          NULL

ASSUME HttpsServerAssumption ==
    /\ IsFiniteSet(Threads)
    /\ MAX_CONNECTIONS \in Nat \ {0} /\ Cardinality(Threads) >= MAX_CONNECTIONS
    /\ Fds \subseteq Nat /\ Fds # {}
    /\ Stuck \subseteq Clients
    \* No GET request line, a file that does not exist, one that does.
    /\ Wants \in [Clients -> SUBSET {"bad", "missing", "file"}]
    /\ Chunks \in Nat /\ BACKLOG \in Nat \ {0} /\ WINDOW \in Nat
    \* NULL is no number, no text and no client, and no client is a text.
    /\ NULL \notin Nat /\ NULL \notin {"bad", "missing", "file"}
    /\ NULL \notin Clients /\ "file" \notin Clients

VARIABLES
    status,                  \* "ready", or "killed" by a signal
    conn_sem,
    main, accepted,          \* the step of main, its client_fd
    task, ssl,               \* per handler: its step, the descriptor of its SSL
    open_fd, sent,           \* per handler: its file, the blocks it has sent
    hello,                   \* per client: whether it has started a handshake
    orphans,                 \* descriptors whose handler could not be started
    table, backlog, peer, request, answer, eof

INSTANCE Kernel

kernelVars  == <<table, backlog, peer, request, answer, eof>>
mainVars    == <<main, accepted>>
handlerVars == <<task, ssl, open_fd, sent>>
vars == <<status, conn_sem, mainVars, handlerVars, hello, orphans, kernelVars>>

Init ==
    /\ KernelInit
    /\ status = "ready"
    /\ conn_sem = MAX_CONNECTIONS
    /\ main = "wait" /\ accepted = NULL
    /\ task = [t \in Threads |-> "none"]
    /\ ssl = [t \in Threads |-> NULL]
    /\ open_fd = [t \in Threads |-> NULL]
    /\ sent = [t \in Threads |-> 0]
    /\ hello = [c \in Clients |-> FALSE]
    /\ orphans = {}

-----------------------------------------------------------------------------
\* main

MainGoto(from, to) == main = from /\ main' = to
Post == conn_sem' = conn_sem + 1

WaitSlot ==
    /\ MainGoto("wait", "accept")
    /\ conn_sem > 0 /\ conn_sem' = conn_sem - 1
    /\ UNCHANGED <<status, accepted, handlerVars, hello, orphans, kernelVars>>

AcceptClient ==
    /\ MainGoto("accept", "handshake")
    /\ \E f \in Fds : Accept(f) /\ accepted' = f
    /\ UNCHANGED <<status, conn_sem, handlerVars, hello, orphans>>

\* accept fails at once when the process has no descriptor left, and at any
\* time when the system has no memory for the connection or a signal arrives.
AcceptFails ==
    /\ MainGoto("accept", "wait")
    /\ Post
    /\ UNCHANGED <<status, accepted, handlerVars, hello, orphans, kernelVars>>

\* SSL_accept: main waits for the client.
Handshake ==
    /\ MainGoto("handshake", "spawn")
    /\ hello[table[accepted]] /\ peer[table[accepted]] # "reset"
    /\ UNCHANGED <<status, conn_sem, accepted, handlerVars, hello, orphans, kernelVars>>

\* Mutant: the failed connection is not closed.
HandshakeFailsOpen ==
    /\ MainGoto("handshake", "wait")
    /\ hello[table[accepted]] \/ peer[table[accepted]] # "open"
    /\ accepted' = NULL
    /\ Post
    /\ UNCHANGED <<status, handlerVars, hello, orphans, kernelVars>>

\* No common version or cipher, or the client is gone.
HandshakeFails ==
    /\ MainGoto("handshake", "wait")
    /\ hello[table[accepted]] \/ peer[table[accepted]] # "open"
    /\ Close(accepted) /\ accepted' = NULL
    /\ Post
    /\ UNCHANGED <<status, handlerVars, hello, orphans>>

\* Handlers are alike: the model takes the same one of those that are free.
Spawn ==
    /\ MainGoto("spawn", "wait")
    /\ \E t \in Threads :
         /\ t = CHOOSE u \in Threads : task[u] = "none"
         /\ task[t] = "none"
         /\ task' = [task EXCEPT ![t] = "read"]
         /\ ssl' = [ssl EXCEPT ![t] = accepted]
    /\ accepted' = NULL
    /\ UNCHANGED <<status, conn_sem, open_fd, sent, hello, orphans, kernelVars>>

\* thrd_create's result is not looked at: the slot, the SSL and the descriptor
\* are never given back, and detaching the unset tid may end the process.
SpawnFails ==
    /\ MainGoto("spawn", "wait")
    /\ orphans' = orphans \cup {accepted} /\ accepted' = NULL
    /\ status' \in {"ready", "killed"}
    /\ UNCHANGED <<conn_sem, handlerVars, hello, kernelVars>>

MainStep == \/ WaitSlot \/ AcceptClient \/ AcceptFails \/ Handshake \/ HandshakeFails
            \/ Spawn \/ SpawnFails

-----------------------------------------------------------------------------
\* handle_client

Client(t) == table[ssl[t]]

Goto(t, from, to) == task[t] = from /\ task' = [task EXCEPT ![t] = to]

Read(t) ==
    /\ task[t] = "read" /\ Readable(Client(t))
    /\ Goto(t, "read", IF ~ReadsData(Client(t)) THEN "shutdown"
                       ELSE IF Asked(Client(t)) = "bad" THEN "400" ELSE "open")
    /\ UNCHANGED <<status, conn_sem, mainVars, ssl, open_fd, sent, hello, orphans, kernelVars>>

\* open fails for a missing file, and for any file when no descriptor is left.
OpenFails(t) ==
    /\ Goto(t, "open", "404")
    /\ Asked(Client(t)) = "missing" \/ Free = {}
    /\ UNCHANGED <<status, conn_sem, mainVars, ssl, open_fd, sent, hello, orphans, kernelVars>>

Open(t) ==
    /\ Goto(t, "open", "200")
    /\ Asked(Client(t)) = "file"
    /\ \E f \in Fds : OpenFile(f) /\ open_fd' = [open_fd EXCEPT ![t] = f]
    /\ UNCHANGED <<status, conn_sem, mainVars, ssl, sent, hello, orphans>>

\* One SSL_write; its result is not looked at.
Respond(t, text, next) ==
    /\ Goto(t, text, next)
    /\ Write(Client(t), text)
    /\ UNCHANGED <<status, conn_sem, mainVars, ssl, open_fd, sent, hello, orphans>>

SendBlock(t) ==
    /\ task[t] = "body" /\ sent[t] < Chunks
    /\ Write(Client(t), "block")
    /\ sent' = [sent EXCEPT ![t] = @ + 1]
    /\ UNCHANGED <<status, conn_sem, mainVars, task, ssl, open_fd, hello, orphans>>

CloseFile(t) ==
    /\ Goto(t, "body", "shutdown")
    /\ sent[t] = Chunks
    /\ Close(open_fd[t])
    /\ open_fd' = [open_fd EXCEPT ![t] = NULL]
    /\ sent' = [sent EXCEPT ![t] = 0]
    /\ UNCHANGED <<status, conn_sem, mainVars, ssl, hello, orphans>>

Killed(t) ==
    /\ \/ task[t] \in {"400", "404", "200", "shutdown"}
       \/ task[t] = "body" /\ sent[t] < Chunks
    /\ WriteKills(Client(t))
    /\ status' = "killed"
    /\ UNCHANGED <<conn_sem, mainVars, handlerVars, hello, orphans, kernelVars>>

\* Mutant: nothing tells the client that the answer is complete.
NoShutdown(t) ==
    /\ Goto(t, "shutdown", "post")
    /\ ssl' = [ssl EXCEPT ![t] = NULL]
    /\ UNCHANGED <<status, conn_sem, mainVars, open_fd, sent, hello, orphans, kernelVars>>

\* SSL_shutdown sends the close_notify alert, SSL_free lets the descriptor be.
Shutdown(t) ==
    /\ Goto(t, "shutdown", "post")
    /\ Write(Client(t), "close_notify")
    /\ ssl' = [ssl EXCEPT ![t] = NULL]
    /\ UNCHANGED <<status, conn_sem, mainVars, open_fd, sent, hello, orphans>>

\* Mutant: the slot is given back twice.
PostTwice(t) ==
    /\ Goto(t, "post", "none")
    /\ conn_sem' = conn_sem + 2
    /\ UNCHANGED <<status, mainVars, ssl, open_fd, sent, hello, orphans, kernelVars>>

\* The last thing a handler does that another thread can see.
PostSlot(t) ==
    /\ Goto(t, "post", "none")
    /\ Post
    /\ UNCHANGED <<status, mainVars, ssl, open_fd, sent, hello, orphans, kernelVars>>

HandlerStep(t) ==
    \/ Read(t) \/ Open(t) \/ OpenFails(t)
    \/ Respond(t, "400", "shutdown") \/ Respond(t, "404", "shutdown") \/ Respond(t, "200", "body")
    \/ SendBlock(t) \/ CloseFile(t) \/ Killed(t) \/ Shutdown(t) \/ PostSlot(t)

-----------------------------------------------------------------------------
\* client.c: it connects, shakes hands, sends its request and reads until
\* close_notify or the end of the connection.
Connected(c) == peer[c] = "open" /\ ~eof[c]

Hello(c) ==
    /\ Connected(c) /\ ~hello[c]
    /\ hello' = [hello EXCEPT ![c] = TRUE]
    /\ UNCHANGED <<status, conn_sem, mainVars, handlerVars, orphans, kernelVars>>

\* The handshake needs the server's answer before the request is sent.
ShookHands(c) ==
    /\ hello[c]
    /\ \E f \in Fds : table[f] = c /\ (main = "handshake" => accepted # f)

ClientRequest(c) ==
    /\ ShookHands(c) /\ Send(c)
    /\ UNCHANGED <<status, conn_sem, mainVars, handlerVars, hello, orphans>>

ClientOther(c) ==
    /\ Connect(c) \/ HangUp(c)
    /\ UNCHANGED <<status, conn_sem, mainVars, handlerVars, hello, orphans>>

-----------------------------------------------------------------------------
Run(A) == status = "ready" /\ A

Next ==
    \/ Run(MainStep)
    \/ \E t \in Threads : Run(HandlerStep(t))
    \/ \E c \in Clients : Run(Hello(c) \/ ClientRequest(c) \/ ClientOther(c))
    \/ status # "ready" /\ UNCHANGED vars

Spec == Init /\ [][Next]_vars

\* Threads that can run are scheduled; a client that is not stuck shakes hands
\* and asks.
FairSpec ==
    /\ Spec
    /\ WF_vars(Run(MainStep))
    /\ \A t \in Threads : WF_vars(Run(HandlerStep(t)))
    /\ \A c \in Clients \ Stuck : WF_vars(Run(Hello(c) \/ ClientRequest(c)))
-----------------------------------------------------------------------------
\* Every variable stays in its domain.
TypeOK ==
    /\ status \in {"ready", "killed"}
    /\ conn_sem \in 0 .. MAX_CONNECTIONS
    /\ main \in {"wait", "accept", "handshake", "spawn"} /\ accepted \in Fds \cup {NULL}
    /\ task \in [Threads -> {"none", "read", "400", "open", "404", "200", "body",
                             "shutdown", "post"}]
    /\ ssl \in [Threads -> Fds \cup {NULL}]
    /\ open_fd \in [Threads -> Fds \cup {NULL}]
    /\ sent \in [Threads -> 0 .. Chunks]
    /\ hello \in [Clients -> BOOLEAN] /\ orphans \subseteq Fds
    /\ table \in [Fds -> Clients \cup {"file", NULL}]
    /\ peer \in [Clients -> {"away", "open", "closed", "reset"}]
    /\ \A c \in Clients : request[c] \in Wants[c] \cup {NULL}
    /\ eof \in [Clients -> BOOLEAN]

Alive == {t \in Threads : task[t] # "none"}

\* Each slot is free, with main, with one handler, or lost with a handler that
\* could not be started: the other failures lose none (server.c:108, :130,
\* :152, :176, :186).
SlotAccounting ==
    conn_sem + Cardinality(Alive) + Cardinality(orphans)
        + (IF main = "wait" THEN 0 ELSE 1) = MAX_CONNECTIONS

\* The slots, with every variable in its domain.
SlotInv == TypeOK /\ SlotAccounting

Answers(r) ==
    LET end == <<"close_notify">>
    IN  CASE r = "bad" -> {<<"400">> \o end}
          [] r = "missing" -> {<<"404">> \o end}
          [] r = "file" -> {<<"404">> \o end, <<"200">> \o [i \in 1 .. Chunks |-> "block"] \o end}
          [] OTHER -> {<<>>}

\* A client receives the answer to its own request, nothing after it and
\* nothing of another's; a handler that has let go of a client has told it all.
RightAnswer ==
    \A c \in Clients :
        \E a \in Answers(request[c]) :
            /\ Len(answer[c]) <= Len(a) /\ answer[c] = SubSeq(a, 1, Len(answer[c]))
            /\ ~(\E t \in Alive : ssl[t] # NULL /\ Client(t) = c) /\ answer[c] # <<>>
                  /\ peer[c] = "open" => answer[c] = a

\* A connection is handled by one thread, and one that nobody has in hand any
\* more was handled, was lost with its handler, or is closed.
OneHandler ==
    /\ \A t, u \in Threads : ssl[t] = ssl[u] /\ ssl[t] # NULL => t = u
    /\ \A t \in Threads : ssl[t] # NULL => ssl[t] \notin orphans \cup {accepted}
    /\ \A c \in Clients : (\E f \in Fds : table[f] = c /\ f \notin orphans \cup {accepted}
                                          /\ \A t \in Threads : ssl[t] # f)
                          /\ peer[c] = "open" => answer[c] # <<>>

\* "limit concurrent clients" (server.c:171): no more than MAX_CONNECTIONS
\* clients are connected to the server.
LimitConcurrentClients ==
    Cardinality({c \in Clients : peer[c] = "open" /\ \E f \in Fds : table[f] = c})
        <= MAX_CONNECTIONS

Accepted(c) == \E f \in Fds : table[f] = c

\* Answered, turned away, or gone; or lost with a handler that could not be
\* started (server.c:191).
Served(c) ==
    \/ eof[c] \/ peer[c] # "open" \/ status # "ready"
    \/ Len(answer[c]) > 0 /\ answer[c][Len(answer[c])] = "close_notify"
    \/ \E f \in orphans : table[f] = c

\* Every slot is lost in that way, or held by the handler of a stuck client.
SlotsGone ==
    Cardinality(orphans) + Cardinality({t \in Alive : ssl[t] # NULL /\ Client(t) \in Stuck})
        = MAX_CONNECTIONS

\* A client that is not stuck is served once it is accepted, whatever the others
\* do.  It is accepted unless what keeps it out lasts for ever: accept goes on
\* failing with descriptors to spare, those that nobody closes (server.c:150)
\* have run out, the slots are gone, or main waits for a stuck client (:182).
EveryClientServed ==
    \A c \in Clients \ Stuck :
        /\ Accepted(c) ~> Served(c)
        /\ (/\ <>[][AcceptFails => Free = {}]_vars
            /\ []<>(Free # {}) /\ []<>~SlotsGone
            /\ []<>~(main = "handshake" /\ table[accepted] \in Stuck))
           => (peer[c] = "open" ~> Accepted(c) \/ Served(c))
=============================================================================

---------------------------- MODULE ForkServers -----------------------------
(***************************************************************************)
(* network_programming/Echo and DaytimeProject: servers that fork a child  *)
(* for each connection and wait for it, with their clients.  A message is  *)
(* the whole buffer of 100 bytes; recv may return a part of it.            *)
(***************************************************************************)
EXTENDS Integers, FiniteSets, Sequences

CONSTANTS Clients, NONE,
          Messages,     \* the bound on what a client's user types before "exit"
          MaxFailures   \* the bound on the calls of accept and fork that fail

ASSUME ForkAssumption == NONE \notin Clients /\ Messages \in Nat /\ MaxFailures \in Nat

VARIABLES
    daemon,             \* "echo" or "daytime"
    failures,
    parent,             \* "accept", "fork", "wait", "close", "exited"
    accept_fd,          \* the connection, NONE for -1
    child,              \* "none", "handle", "reply", "close", "accepting", "exited"
    held,               \* the connections that the parent and the child have open
    listens,            \* the child has the listening socket open
    backlog,
    client,             \* "idle", "typing", "waiting", "closed", "killed"
    entered, sent,      \* messages that the user typed, and those still to be received
    replies, got,       \* answers that were sent, and that arrived
    reset,              \* clients that wrote to a closed connection
    excused             \* clients whose connection met a failure (history)

serverVars == <<parent, accept_fd, child, held, listens>>
clientVars == <<client, entered, sent, replies, got, reset>>
forkVars   == <<daemon, failures, serverVars, backlog, clientVars, excused>>

ForkInit ==
    /\ daemon \in {"echo", "daytime"} /\ failures = 0
    /\ parent = "accept" /\ accept_fd = NONE /\ child = "none" /\ listens = FALSE
    /\ held = [w \in {"parent", "child"} |-> {}] /\ backlog = <<>>
    /\ client = [c \in Clients |-> "idle"] /\ reset = {} /\ excused = {}
    /\ entered = [c \in Clients |-> 0] /\ sent = entered /\ replies = entered /\ got = entered

Open   == held["parent"] \cup held["child"]
Queued == {backlog[k] : k \in DOMAIN backlog}

\* The server's end of c's connection is closed, by close or by the exit of all.
Gone(c) == c \notin Open /\ (c \notin Queued \/ parent = "exited")

Exits(w) == held' = [held EXCEPT ![w] = {}]

-----------------------------------------------------------------------------
ParentAccept ==
    /\ parent = "accept" /\ backlog # <<>> /\ parent' = "fork"
    /\ accept_fd' = Head(backlog) /\ backlog' = Tail(backlog)
    /\ held' = [held EXCEPT !["parent"] = @ \cup {Head(backlog)}]
    /\ UNCHANGED <<daemon, failures, child, listens, clientVars, excused>>

\* The echo server reports the error and goes on with -1.
AcceptFails ==
    /\ parent = "accept" /\ failures < MaxFailures /\ failures' = failures + 1
    /\ IF daemon = "echo" THEN parent' = "fork" /\ accept_fd' = NONE /\ UNCHANGED held
                          ELSE parent' = "exited" /\ Exits("parent") /\ UNCHANGED accept_fd
    /\ UNCHANGED <<daemon, child, listens, backlog, clientVars, excused>>

Fork ==
    /\ parent = "fork" /\ parent' = "wait" /\ child' = "handle" /\ listens' = TRUE
    /\ held' = [held EXCEPT !["child"] = held["parent"]]
    /\ UNCHANGED <<daemon, failures, accept_fd, backlog, clientVars, excused>>

\* The echo server returns.  The daytime server compares fork, the function, with
\* 0, and goes on as a parent.
ForkFails ==
    /\ parent = "fork" /\ failures < MaxFailures /\ failures' = failures + 1
    /\ IF daemon = "echo" THEN parent' = "exited" /\ Exits("parent")
                          ELSE parent' = "wait" /\ UNCHANGED held
    /\ excused' = excused \cup held["parent"]
    /\ UNCHANGED <<daemon, accept_fd, child, listens, backlog, clientVars>>

\* wait(NULL), which returns at once where there is no child
Wait ==
    /\ parent = "wait" /\ child \in {"none", "exited"} /\ parent' = "close" /\ child' = "none"
    /\ UNCHANGED <<daemon, failures, accept_fd, held, listens, backlog, clientVars, excused>>

\* Mutant: the parent keeps its descriptor.
CloseNothing ==
    /\ parent = "close" /\ parent' = "accept"
    /\ UNCHANGED <<daemon, failures, accept_fd, child, held, listens, backlog, clientVars, excused>>

Close ==
    /\ parent = "close" /\ parent' = "accept"
    /\ held' = [held EXCEPT !["parent"] = @ \ {accept_fd}]
    /\ UNCHANGED <<daemon, failures, accept_fd, child, listens, backlog, clientVars, excused>>

-----------------------------------------------------------------------------
\* The child closes the listening socket.  handle_client_connection: the call of
\* recv, which a part of a message, the end of the connection and -1 all fail;
\* handle_request has nothing to receive.
Handle ==
    /\ child = "handle" /\ listens' = FALSE
    /\ \/ daemon = "daytime" /\ child' = "reply" /\ UNCHANGED <<sent, excused>>
       \/ /\ daemon = "echo" /\ accept_fd # NONE /\ sent[accept_fd] > 0
          /\ sent' = [sent EXCEPT ![accept_fd] = @ - 1]
          /\ \/ child' = "reply" /\ UNCHANGED excused
             \/ child' = "close" /\ excused' = excused \cup {accept_fd}
       \/ /\ daemon = "echo" /\ child' = "close"
          /\ accept_fd # NONE => sent[accept_fd] = 0 /\ client[accept_fd] = "closed"
          /\ excused' = excused \cup held["child"] /\ UNCHANGED sent
    /\ UNCHANGED <<daemon, failures, parent, accept_fd, held, backlog,
                   client, entered, replies, got, reset>>

Reply ==
    /\ child = "reply" /\ child' = "close"
    /\ replies' = [replies EXCEPT ![accept_fd] = @ + 1]
    /\ UNCHANGED <<daemon, failures, parent, accept_fd, held, listens, backlog,
                   client, entered, sent, got, reset, excused>>

\* The child closes the connection and exits; that of the daytime server goes on
\* to accept, and exits because its listening socket is closed.
ChildEnd ==
    /\ child = "close" /\ Exits("child")
    /\ child' = IF daemon = "daytime" /\ listens THEN "accepting" ELSE "exited"
    /\ UNCHANGED <<daemon, failures, parent, accept_fd, listens, backlog, clientVars, excused>>

-----------------------------------------------------------------------------
\* The daytime client does not write.
Connect(c) ==
    /\ client[c] = "idle" /\ parent # "exited" /\ backlog' = Append(backlog, c)
    /\ client' = [client EXCEPT ![c] = IF daemon = "echo" THEN "typing" ELSE "waiting"]
    /\ UNCHANGED <<daemon, failures, serverVars, entered, sent, replies, got, reset, excused>>

\* send: on a connection that the server has closed, the first is answered by a
\* reset and the second is killed by SIGPIPE.
Send(c) ==
    /\ client[c] = "typing" /\ entered[c] < Messages
    /\ entered' = [entered EXCEPT ![c] = @ + 1]
    /\ client' = [client EXCEPT ![c] = IF c \in reset THEN "killed" ELSE "waiting"]
    /\ sent' = IF Gone(c) THEN sent ELSE [sent EXCEPT ![c] = @ + 1]
    /\ reset' = IF Gone(c) THEN reset \cup {c} ELSE reset
    /\ UNCHANGED <<daemon, failures, serverVars, backlog, replies, got, excused>>

\* recv: an answer, or the end of the connection, which the client does not tell
\* from one.
Receive(c) ==
    /\ client[c] = "waiting" /\ (got[c] < replies[c] \/ Gone(c))
    /\ got' = IF got[c] < replies[c] THEN [got EXCEPT ![c] = @ + 1] ELSE got
    /\ client' = [client EXCEPT ![c] = IF daemon = "echo" THEN "typing" ELSE "closed"]
    /\ UNCHANGED <<daemon, failures, serverVars, backlog, entered, sent, replies, reset, excused>>

Exit(c) ==
    /\ client[c] = "typing" /\ client' = [client EXCEPT ![c] = "closed"]
    /\ UNCHANGED <<daemon, failures, serverVars, backlog, entered, sent, replies, got, reset, excused>>

ServerStep == ParentAccept \/ Fork \/ Wait \/ Close \/ Handle \/ Reply \/ ChildEnd
UserStep(c) == Send(c) \/ Receive(c) \/ Exit(c)

ForkNext ==
    \/ ServerStep \/ AcceptFails \/ ForkFails
    \/ \E c \in Clients : Connect(c) \/ UserStep(c)
-----------------------------------------------------------------------------
\* One child at a time, for the connection just accepted; when the parent accepts
\* again no child, no zombie and no descriptor is left (lines 66-68; 72-73), and the
\* daytime server's child, which does not exit, never accepts a client itself.
ForkInv ==
    /\ child # "none" => parent = "wait" /\ held["parent"] \subseteq {accept_fd}
    /\ parent = "accept" => child = "none" /\ Open = {}
    /\ child # "accepting"
    /\ held["child"] \subseteq held["parent"] \/ parent = "exited"

\* Whoever was accepted has been answered when the connection closes, unless fork
\* failed, the message came in parts or the client left first; and no more than
\* once, however much it goes on to send.
Answered ==
    \A c \in Clients :
        /\ replies[c] <= 1
        /\ client[c] # "idle" /\ Gone(c) /\ c \notin Queued \cup excused => replies[c] = 1

\* Nobody waits for an answer for ever, behind other clients or after a failure
\* (Echo/echo_server.c:66, DaytimeProject/daytime_server.c:62).
EveryWaitEnds == \A c \in Clients : (client[c] = "waiting") ~> (client[c] # "waiting")
=============================================================================

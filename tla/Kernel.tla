------------------------------- MODULE Kernel -------------------------------
(***************************************************************************)
(* The operating system and the clients, as the TCP servers under          *)
(* network_programming use them: descriptors, the listen queue, and the    *)
(* two ends of each connection.  External to the repository's code.        *)
(***************************************************************************)
EXTENDS Naturals, Sequences

CONSTANTS Clients,    \* one connection each
          Stuck,      \* the clients that may stop sending and reading
          Wants,      \* the requests each client may send
          Fds,        \* the numbers of the descriptors the process may open
          BACKLOG,    \* the listen queue
          WINDOW,     \* how much an answer may run ahead of a stuck reader
          NULL

VARIABLES table,      \* what each descriptor refers to
          backlog,    \* connections that wait for accept, oldest first
          peer,       \* the client's end of each connection
          request,    \* what each client has sent
          answer,     \* what each client has received
          eof         \* whether the server has closed its end

KernelInit ==
    /\ table = [f \in Fds |-> NULL]
    /\ backlog = <<>>
    /\ peer = [c \in Clients |-> "away"]
    /\ request = [c \in Clients |-> NULL]
    /\ answer = [c \in Clients |-> <<>>]
    /\ eof = [c \in Clients |-> FALSE]

Free == {f \in Fds : table[f] = NULL}

\* POSIX gives out the lowest number that is free, so numbers are reused.
IsNextFd(f) == f \in Free /\ \A g \in Free : f <= g

-----------------------------------------------------------------------------
\* Clients

Connect(c) ==
    /\ peer[c] = "away" /\ Len(backlog) < BACKLOG
    /\ peer' = [peer EXCEPT ![c] = "open"]
    /\ backlog' = Append(backlog, c)
    /\ UNCHANGED <<table, request, answer, eof>>

Send(c) ==
    /\ peer[c] = "open" /\ request[c] = NULL /\ ~eof[c]
    /\ \E r \in Wants[c] : request' = [request EXCEPT ![c] = r]
    /\ UNCHANGED <<table, backlog, peer, answer, eof>>

\* Closing with unread data resets the connection at once.
HangUp(c) ==
    /\ peer[c] = "open" /\ ~eof[c]
    /\ \E p \in IF answer[c] = <<>> THEN {"closed"} ELSE {"closed", "reset"} :
          peer' = [peer EXCEPT ![c] = p]
    /\ UNCHANGED <<table, backlog, request, answer, eof>>

ClientStep(c) == Connect(c) \/ Send(c) \/ HangUp(c)

-----------------------------------------------------------------------------
\* System calls of the servers

Accept(f) ==
    /\ backlog # <<>> /\ IsNextFd(f)
    /\ table' = [table EXCEPT ![f] = Head(backlog)]
    /\ backlog' = Tail(backlog)
    /\ UNCHANGED <<peer, request, answer, eof>>

\* A connection c is what a descriptor refers to, or something else if the
\* descriptor was closed meanwhile: then reads and writes fail at once.
Asked(c) == IF c \in Clients THEN request[c] ELSE NULL

\* A read returns when there is something to read, or nothing more to come.
Readable(c)  == c \in Clients => request[c] # NULL \/ peer[c] \in {"closed", "reset"}
ReadsData(c) == Asked(c) # NULL /\ peer[c] # "reset"

\* A write returns unless the reader has stopped reading.
Writable(c) == c \in Stuck /\ peer[c] = "open" => Len(answer[c]) < WINDOW

\* The first write to a closed peer is answered by a reset, sooner or later.  A
\* write to a connection that was reset fails (WriteFails) or raises SIGPIPE,
\* which no server under network_programming handles: it ends the process.
Write(c, x) ==
    /\ Writable(c)
    /\ answer' = [d \in Clients |-> IF d = c /\ peer[d] = "open" THEN Append(answer[d], x)
                                   ELSE answer[d]]
    /\ peer' \in {peer, [d \in Clients |-> IF d = c /\ peer[d] = "closed" THEN "reset"
                                          ELSE peer[d]]}
    /\ UNCHANGED <<table, backlog, request, eof>>

WriteFails(c) == c \in Clients => peer[c] = "reset"
WriteKills(c) == c \in Clients /\ peer[c] = "reset"

OpenFile(f) ==
    /\ IsNextFd(f)
    /\ table' = [table EXCEPT ![f] = "file"]
    /\ UNCHANGED <<backlog, peer, request, answer, eof>>

\* close of a number that is not open changes nothing.
Close(f) ==
    /\ table' = [table EXCEPT ![f] = NULL]
    /\ eof' = [c \in Clients |-> eof[c] \/ table[f] = c]
    /\ UNCHANGED <<backlog, peer, request, answer>>
=============================================================================

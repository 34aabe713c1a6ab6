------------------------------- MODULE UdpEcho ------------------------------
(***************************************************************************)
(* network_programming/UDP: a server that echoes each datagram from a      *)
(* detached thread of its own, a semaphore limiting how many there are,    *)
(* and a client that sends a message several times and waits for one       *)
(* datagram after each.  Between them a network that loses, duplicates and *)
(* reorders.                                                               *)
(***************************************************************************)
EXTENDS Integers, Sequences, FiniteSets, BagsExt, Bags

CONSTANTS Threads, Clients,
          MAX_CONCURRENT,
          Repeat,           \* repeat_count of each client
          MaxDuplicates,    \* how often the network may duplicate
          NULL

ASSUME UdpEchoAssumption ==
    /\ IsFiniteSet(Threads)
    /\ MAX_CONCURRENT \in Nat \ {0} /\ Cardinality(Threads) >= MAX_CONCURRENT
    /\ Repeat \in Nat /\ MaxDuplicates \in Nat

\* A client sends the same text each time; the round is there to tell the
\* datagrams apart.
Datagrams == [from : Clients, round : 1 .. Repeat]

VARIABLES
    status,              \* "ready", or "killed" by a signal
    conn_sem,
    main, buffer,        \* the step of main, what recvfrom has stored
    task, data,          \* per handler: its step, its client_data_t
    orphans,             \* a sequence: what no handler could be started for
    requests, echoes,    \* bags: on the way to the server, to the clients
    lost, duplicates,    \* what the network has lost, how often it duplicated
    i, waiting,          \* per client: its loop counter, whether it is in recvfrom
    received, echoed     \* history, bags: what the server has received, has sent

Copies(b, d) == IF d \in BagToSet(b) THEN b[d] ELSE 0

serverVars  == <<status, conn_sem, main, buffer, task, data, orphans, received, echoed>>
networkVars == <<requests, echoes, lost, duplicates>>
clientVars  == <<i, waiting>>
vars == <<serverVars, networkVars, clientVars>>

Init ==
    /\ status = "ready" /\ conn_sem = MAX_CONCURRENT
    /\ main = "recv" /\ buffer = NULL
    /\ task = [t \in Threads |-> "none"] /\ data = [t \in Threads |-> NULL]
    /\ requests = EmptyBag /\ echoes = EmptyBag /\ lost = EmptyBag /\ duplicates = 0
    /\ received = EmptyBag /\ echoed = EmptyBag /\ orphans = <<>>
    /\ i = [c \in Clients |-> 1] /\ waiting = [c \in Clients |-> FALSE]

-----------------------------------------------------------------------------
\* main of the server

MainGoto(from, to) == main = from /\ main' = to

\* A failed recvfrom is tried again.
Receive ==
    /\ MainGoto("recv", "wait")
    /\ \E d \in BagToSet(requests) :
         /\ requests' = BagRemove(requests, d)
         /\ buffer' = d
         /\ received' = BagAdd(received, d)
    /\ UNCHANGED <<status, conn_sem, task, data, orphans, echoed, echoes, lost, duplicates, clientVars>>

WaitSlot ==
    /\ MainGoto("wait", "spawn")
    /\ conn_sem > 0 /\ conn_sem' = conn_sem - 1
    /\ UNCHANGED <<status, buffer, task, data, orphans, received, echoed, networkVars, clientVars>>

\* malloc's result is not looked at: the copy into it ends the process.
MallocFails ==
    /\ main = "spawn" /\ status' = "killed"
    /\ UNCHANGED <<conn_sem, main, buffer, task, data, orphans, received, echoed, networkVars, clientVars>>

\* The datagram is copied into a client_data_t of its own.
Spawn ==
    /\ MainGoto("spawn", "recv")
    /\ \E t \in Threads :
         /\ task[t] = "none"
         /\ task' = [task EXCEPT ![t] = "send"]
         /\ data' = [data EXCEPT ![t] = buffer]
    /\ UNCHANGED <<status, conn_sem, buffer, orphans, received, echoed, networkVars, clientVars>>

\* thrd_create's result is not looked at: the copy and the slot are never given
\* back, and detaching the unset tid may end the process.
SpawnFails ==
    /\ MainGoto("spawn", "recv")
    /\ orphans' = Append(orphans, buffer)
    /\ status' \in {"ready", "killed"}
    /\ UNCHANGED <<conn_sem, buffer, task, data, received, echoed, networkVars, clientVars>>

MainStep == Receive \/ WaitSlot \/ MallocFails \/ Spawn \/ SpawnFails

-----------------------------------------------------------------------------
\* handle_client

Goto(t, from, to) == task[t] = from /\ task' = [task EXCEPT ![t] = to]

\* Mutant: the handler is given main's buffer instead of a copy.
EchoShared(t) ==
    /\ Goto(t, "send", "free")
    /\ echoes' = BagAdd(echoes, buffer) /\ echoed' = BagAdd(echoed, buffer)
    /\ UNCHANGED <<status, conn_sem, main, buffer, data, orphans, received, requests, lost, duplicates, clientVars>>

Echo(t) ==
    /\ Goto(t, "send", "free")
    /\ echoes' = BagAdd(echoes, data[t]) /\ echoed' = BagAdd(echoed, data[t])
    /\ UNCHANGED <<status, conn_sem, main, buffer, data, orphans, received, requests, lost, duplicates, clientVars>>

Free(t) ==
    /\ Goto(t, "free", "post")
    /\ data' = [data EXCEPT ![t] = NULL]
    /\ UNCHANGED <<status, conn_sem, main, buffer, orphans, received, echoed, networkVars, clientVars>>

\* Mutant: the slot is not given back.
NoPost(t) ==
    /\ Goto(t, "post", "none")
    /\ UNCHANGED <<status, conn_sem, main, buffer, data, orphans, received, echoed, networkVars, clientVars>>

\* The last thing a handler does that another thread can see.
Post(t) ==
    /\ Goto(t, "post", "none")
    /\ conn_sem' = conn_sem + 1
    /\ UNCHANGED <<status, main, buffer, data, orphans, received, echoed, networkVars, clientVars>>

HandlerStep(t) == Echo(t) \/ Free(t) \/ Post(t)

-----------------------------------------------------------------------------
\* main of the client

SendTo(c) ==
    /\ ~waiting[c] /\ i[c] <= Repeat
    /\ requests' = BagAdd(requests, [from |-> c, round |-> i[c]])
    /\ waiting' = [waiting EXCEPT ![c] = TRUE]
    /\ UNCHANGED <<serverVars, echoes, lost, duplicates, i>>

\* Any datagram will do: nothing tells an echo from a late or a second one.
RecvFrom(c) ==
    /\ waiting[c]
    /\ \E d \in BagToSet(echoes) : d.from = c /\ echoes' = BagRemove(echoes, d)
    /\ i' = [i EXCEPT ![c] = @ + 1]
    /\ waiting' = [waiting EXCEPT ![c] = FALSE]
    /\ UNCHANGED <<serverVars, requests, lost, duplicates>>

ClientNext(c) == SendTo(c) \/ RecvFrom(c)

-----------------------------------------------------------------------------
\* The network, and the socket buffers at its ends.  A datagram that comes
\* after its client has left is dropped.

Lose ==
    /\ \/ \E d \in BagToSet(requests) : requests' = BagRemove(requests, d) /\ lost' = BagAdd(lost, d)
                                        /\ UNCHANGED echoes
       \/ \E d \in BagToSet(echoes) : echoes' = BagRemove(echoes, d) /\ lost' = BagAdd(lost, d)
                                      /\ UNCHANGED requests
    /\ UNCHANGED <<duplicates, serverVars, clientVars>>

Duplicate ==
    /\ duplicates < MaxDuplicates /\ duplicates' = duplicates + 1
    /\ \/ \E d \in BagToSet(requests) : requests' = BagAdd(requests, d) /\ UNCHANGED echoes
       \/ \E d \in BagToSet(echoes) : echoes' = BagAdd(echoes, d) /\ UNCHANGED requests
    /\ UNCHANGED <<lost, serverVars, clientVars>>

-----------------------------------------------------------------------------
Run(A) == status = "ready" /\ A

Next ==
    \/ Run(MainStep)
    \/ \E t \in Threads : Run(HandlerStep(t))
    \/ \E c \in Clients : ClientNext(c)
    \/ Lose \/ Duplicate

Spec == Init /\ [][Next]_vars

\* Threads that can run are scheduled, and so are the clients.
FairSpec ==
    /\ Spec
    /\ WF_vars(Run(MainStep))
    /\ \A t \in Threads : WF_vars(Run(HandlerStep(t)))
    /\ \A c \in Clients : WF_vars(ClientNext(c))
-----------------------------------------------------------------------------
\* Every variable stays in its domain.
TypeOK ==
    /\ status \in {"ready", "killed"}
    /\ conn_sem \in 0 .. MAX_CONCURRENT
    /\ main \in {"recv", "wait", "spawn"} /\ buffer \in Datagrams \cup {NULL}
    /\ task \in [Threads -> {"none", "send", "free", "post"}]
    /\ data \in [Threads -> Datagrams \cup {NULL}]
    /\ orphans \in Seq(Datagrams)
    /\ \A b \in {requests, echoes, lost, received, echoed} :
          IsABag(b) /\ BagToSet(b) \subseteq Datagrams
    /\ duplicates \in 0 .. MaxDuplicates
    /\ i \in [Clients -> 1 .. Repeat + 1] /\ waiting \in [Clients -> BOOLEAN]

Alive == {t \in Threads : task[t] # "none"}

\* Each slot is free, with main, with one handler, or lost with a handler that
\* could not be started (echo_server.c:58, :88, :97).
SlotAccounting ==
    conn_sem + Cardinality(Alive) + Len(orphans)
        + (IF main = "spawn" THEN 1 ELSE 0) = MAX_CONCURRENT

\* The slots, with every variable in its domain.
SlotInv == TypeOK /\ SlotAccounting

\* Each datagram that was received is echoed once, to its sender, unless it is
\* still in the hands of main or of a handler, or its handler was not started:
\* main's buffer is overwritten while handlers send (:84, :93, :50).
InHand(d) == Cardinality({t \in Threads : task[t] = "send" /\ data[t] = d})
             + Cardinality({k \in 1 .. Len(orphans) : orphans[k] = d})
             + (IF main # "recv" /\ buffer = d THEN 1 ELSE 0)
EchoAccounting ==
    \A d \in Datagrams : Copies(received, d) = Copies(echoed, d) + InHand(d)

\* No datagram of a client's later rounds is anywhere, and a client goes on only
\* by as many echoes as were made for it or duplicated: a second echo of one
\* datagram would pass for the answer to the next (client.c:34).
NoEchoBeforeRequest ==
    \A c \in Clients :
        /\ \A d \in BagToSet(requests) \cup BagToSet(received) \cup BagToSet(echoes) :
              d.from = c => d.round <= (IF waiting[c] THEN i[c] ELSE i[c] - 1)
        /\ i[c] - 1 <= Cardinality({d \in BagToSet(echoed) : d.from = c}) + duplicates

\* What is echoed was received, what a client counts was echoed.
EchoesInOrder == EchoAccounting /\ NoEchoBeforeRequest

\* A client comes to its end unless one of its datagrams or echoes was lost, or
\* a slot was.
ClientFinishes ==
    \A c \in Clients :
        <>(\/ i[c] > Repeat \/ status # "ready" \/ orphans # <<>>
           \/ \E d \in BagToSet(lost) : d.from = c)
=============================================================================

----------------------------- MODULE TaskQueue -----------------------------
(***************************************************************************)
(* The task queue of network_programming/ThreadPool/server.c: a ring of    *)
(* client sockets under one mutex, with a semaphore that counts items and  *)
(* one that counts free slots.                                             *)
(***************************************************************************)
EXTENDS Integers, Sequences, FiniteSets

CONSTANTS Putters, Getters,  \* the threads that call enqueue, dequeue
          Sockets,           \* the file descriptors that are enqueued
          NULL,              \* the owner of a free mutex; no socket yet
          MAX_QUEUE

ASSUME TaskQueueAssumption ==
    /\ IsFiniteSet(Putters) /\ IsFiniteSet(Getters)
    /\ Putters \cap Getters = {}
    /\ NULL \notin Putters \cup Getters /\ NULL \notin Sockets
    /\ MAX_QUEUE \in Nat \ {0}

VARIABLES client_sockets, front, rear, count, mutex, sem_items, sem_slots,
          pc,          \* the next step of each thread; "idle" outside a call
          client_fd    \* the socket each thread handles

ring  == <<client_sockets, front, rear, count>>
sems  == <<sem_items, sem_slots>>
queueVars == <<ring, mutex, sems, pc, client_fd>>

Threads == Putters \cup Getters
Slots   == 0 .. MAX_QUEUE - 1

QueueInit ==
    /\ client_sockets = [i \in Slots |-> NULL]
    /\ front = 0 /\ rear = 0 /\ count = 0
    /\ mutex = NULL
    /\ sem_items = 0 /\ sem_slots = MAX_QUEUE
    /\ pc = [t \in Threads |-> "idle"]
    /\ client_fd = [t \in Threads |-> NULL]

Goto(t, from, to) == pc[t] = from /\ pc' = [pc EXCEPT ![t] = to]

Lock(t, from, to) ==
    /\ Goto(t, from, to)
    /\ mutex = NULL /\ mutex' = t
    /\ UNCHANGED <<ring, sems, client_fd>>

Unlock(t, from, to) ==
    /\ Goto(t, from, to)
    /\ mutex' = NULL
    /\ UNCHANGED <<ring, sems, client_fd>>

-----------------------------------------------------------------------------
\* enqueue

CallEnqueue(t, fd) ==
    /\ Goto(t, "idle", "put_wait")
    /\ client_fd' = [client_fd EXCEPT ![t] = fd]
    /\ UNCHANGED <<ring, mutex, sems>>

\* Mutant: the slots are not counted.
PutNoWait(t) ==
    /\ Goto(t, "put_wait", "put_lock")
    /\ UNCHANGED <<ring, mutex, sems, client_fd>>

PutWait(t) ==
    /\ Goto(t, "put_wait", "put_lock")
    /\ sem_slots > 0 /\ sem_slots' = sem_slots - 1
    /\ UNCHANGED <<ring, mutex, sem_items, client_fd>>

\* Mutant: the mutex is not taken.
PutNoLock(t) == Goto(t, "put_lock", "put_store") /\ UNCHANGED <<ring, mutex, sems, client_fd>>

PutLock(t) == Lock(t, "put_lock", "put_store")

PutStore(t) ==
    /\ Goto(t, "put_store", "put_advance")
    /\ client_sockets' = [client_sockets EXCEPT ![rear] = client_fd[t]]
    /\ UNCHANGED <<front, rear, count, mutex, sems, client_fd>>

PutAdvance(t) ==
    /\ Goto(t, "put_advance", "put_unlock")
    /\ rear' = (rear + 1) % MAX_QUEUE
    /\ count' = count + 1
    /\ UNCHANGED <<client_sockets, front, mutex, sems, client_fd>>

PutUnlock(t) == Unlock(t, "put_unlock", "put_post")

PutPost(t) ==
    /\ Goto(t, "put_post", "idle")
    /\ sem_items' = sem_items + 1
    /\ client_fd' = [client_fd EXCEPT ![t] = NULL]
    /\ UNCHANGED <<ring, mutex, sem_slots>>

-----------------------------------------------------------------------------
\* dequeue

CallDequeue(t) ==
    /\ Goto(t, "idle", "get_wait")
    /\ client_fd' = [client_fd EXCEPT ![t] = NULL]
    /\ UNCHANGED <<ring, mutex, sems>>

GetWait(t) ==
    /\ Goto(t, "get_wait", "get_lock")
    /\ sem_items > 0 /\ sem_items' = sem_items - 1
    /\ UNCHANGED <<ring, mutex, sem_slots, client_fd>>

GetLock(t) == Lock(t, "get_lock", "get_load")

GetLoad(t) ==
    /\ Goto(t, "get_load", "get_advance")
    /\ client_fd' = [client_fd EXCEPT ![t] = client_sockets[front]]
    /\ UNCHANGED <<ring, mutex, sems>>

GetAdvance(t) ==
    /\ Goto(t, "get_advance", "get_unlock")
    /\ front' = (front + 1) % MAX_QUEUE
    /\ count' = count - 1
    /\ UNCHANGED <<client_sockets, rear, mutex, sems, client_fd>>

GetUnlock(t) == Unlock(t, "get_unlock", "get_post")

\* Mutant: no slot is given back.
GetNoPost(t) ==
    /\ Goto(t, "get_post", "idle")
    /\ UNCHANGED <<ring, mutex, sems, client_fd>>

GetPost(t) ==
    /\ Goto(t, "get_post", "idle")
    /\ sem_slots' = sem_slots + 1
    /\ UNCHANGED <<ring, mutex, sem_items, client_fd>>

-----------------------------------------------------------------------------
PutStep(t) == \/ PutWait(t) \/ PutLock(t) \/ PutStore(t)
              \/ PutAdvance(t) \/ PutUnlock(t) \/ PutPost(t)

GetStep(t) == \/ GetWait(t) \/ GetLock(t) \/ GetLoad(t)
              \/ GetAdvance(t) \/ GetUnlock(t) \/ GetPost(t)

QueueNext ==
    \/ \E t \in Putters : PutStep(t) \/ \E fd \in Sockets : CallEnqueue(t, fd)
    \/ \E t \in Getters : GetStep(t) \/ CallDequeue(t)

QueueSpec == QueueInit /\ [][QueueNext]_queueVars
-----------------------------------------------------------------------------
\* How far a thread is: it owns a slot it has not filled, has filled one it
\* has not announced, owns an item it has not removed, has removed one whose
\* slot it has not given back.
At(S) == {t \in Threads : pc[t] \in S}
Filling   == At({"put_lock", "put_store", "put_advance"})
Filled    == At({"put_unlock", "put_post"})
Emptying  == At({"get_lock", "get_load", "get_advance"})
Emptied   == At({"get_unlock", "get_post"})

PutStages == {"put_wait", "put_lock", "put_store", "put_advance", "put_unlock", "put_post"}
GetStages == {"get_wait", "get_lock", "get_load", "get_advance", "get_unlock", "get_post"}

\* Every variable of the queue stays in its domain.
QueueTypeOK ==
    /\ client_sockets \in [Slots -> Sockets \cup {NULL}]
    /\ front \in Slots /\ rear \in Slots
    /\ count \in Int
    /\ mutex \in Threads \cup {NULL}
    /\ sem_items \in Nat /\ sem_slots \in Nat
    /\ pc \in [Threads -> {"idle"} \cup PutStages \cup GetStages]
    /\ \A t \in Putters : pc[t] \notin GetStages
    /\ \A t \in Getters : pc[t] \notin PutStages
    /\ client_fd \in [Threads -> Sockets \cup {NULL}]

\* The mutex is held exactly by the thread inside a critical section.
Critical == {"put_store", "put_advance", "put_unlock", "get_load", "get_advance", "get_unlock"}
MutualExclusion == \A t \in Threads : pc[t] \in Critical <=> mutex = t

\* Each slot is counted once: as an item, as free, or by the thread that is
\* filling or emptying it (server.c:57-63, :67-73).
SemaphoreAccounting ==
    /\ count = sem_items + Cardinality(Emptying) + Cardinality(Filled)
    /\ MAX_QUEUE - count = sem_slots + Cardinality(Filling) + Cardinality(Emptied)

\* rear is count slots after front.
RingInv == rear = (front + count) % MAX_QUEUE

\* The sockets between front and rear are real, and so are those in hand.
ContentsInv ==
    /\ \A i \in 0 .. count - 1 : client_sockets[(front + i) % MAX_QUEUE] \in Sockets
    /\ \A t \in Threads : pc[t] \in PutStages => client_fd[t] \in Sockets
    /\ \A t \in Threads : pc[t] = "put_advance" => client_sockets[rear] = client_fd[t]
    /\ \A t \in Threads : pc[t] = "get_advance" => client_fd[t] = client_sockets[front]
    /\ \A t \in Threads : pc[t] \in {"get_wait", "get_lock", "get_load"} => client_fd[t] = NULL

\* A socket is stored only into a free slot and loaded only from a filled one
\* (:59, :69): nothing that waits in the ring is overwritten or read twice.
NoOverrun ==
    /\ 0 <= count /\ count <= MAX_QUEUE
    /\ \A t \in Threads : pc[t] = "put_store" => count < MAX_QUEUE
    /\ \A t \in Threads : pc[t] = "get_load" => count > 0

\* When no call is between its two semaphore operations, a caller of enqueue
\* is held back only by a full ring, a caller of dequeue only by an empty one.
WaitsOnlyForCause ==
    Filling \cup Filled \cup Emptying \cup Emptied = {} =>
        (sem_slots = 0 => count = MAX_QUEUE) /\ (sem_items = 0 => count = 0)

QueueInv == /\ QueueTypeOK /\ MutualExclusion /\ SemaphoreAccounting
            /\ RingInv /\ ContentsInv

-----------------------------------------------------------------------------
\* The refinement mapping: the abstract queue is the count slots from front; a
\* call takes effect when it moves rear or front.
Waiting == [i \in 1 .. count |-> client_sockets[(front + i - 1) % MAX_QUEUE]]

StageOf(p) ==
    CASE p = "idle" -> "idle"
      [] p \in {"put_wait", "put_lock", "put_store", "put_advance"} -> "enq"
      [] p \in {"get_wait", "get_lock", "get_load", "get_advance"} -> "deq"
      [] OTHER -> "done"

Op == [t \in Threads |->
        [stage |-> StageOf(pc[t]),
         val   |-> IF pc[t] \in {"put_unlock", "put_post", "get_advance"} THEN NULL ELSE client_fd[t]]]

Fifo == INSTANCE FifoQueue WITH Values <- Sockets, items <- Waiting, op <- Op

\* Every interleaving of enqueue and dequeue is linearizable to a FIFO queue
\* of client sockets: each is handed to exactly one worker, in order.
QueueLinearizable == Fifo!Spec
=============================================================================

------------------------------ MODULE FGQueue ------------------------------
(***************************************************************************)
(* The queue of ThreadedDataStructures/ThreadedQueue.c: a linked list with *)
(* a dummy node at its head, a lock for the tail pointer, a lock that      *)
(* serializes dequeuers, a lock in every node and an atomic size counter.  *)
(* Each action is one access to shared memory, so that TLC interleaves     *)
(* enqueuers and dequeuers as the machine may.  Nodes are heap blocks that *)
(* malloc may hand out again as soon as they are freed.                    *)
(***************************************************************************)
EXTENDS Integers, Sequences, FiniteSets

CONSTANTS Threads,   \* the threads that call the queue
          Values,    \* the pointers that callers enqueue, never NULL
          Nodes,     \* the heap blocks malloc can return for nodes
          NULL,      \* the null pointer; also the owner of a free lock
          SizeMod    \* 2^64 in the code: size_t arithmetic wraps at it

ASSUME FGQueueAssumption ==
    /\ IsFiniteSet(Threads)
    /\ NULL \notin Threads /\ NULL \notin Values /\ NULL \notin Nodes
    /\ SizeMod \in Nat \ {0}

VARIABLES
    head, tail,             \* q->head, the dummy, and q->tail
    head_lock, tail_lock,   \* the owners of the two queue locks
    size,                   \* the atomic counter
    value, next, lock,      \* the fields of every node; lock is its owner
    live,                   \* the nodes that are allocated
    pc,                     \* the next access of each thread
    node,                   \* enqueue: its new node; dequeue: next
    old,                    \* enqueue: the tail it read; dequeue: old_head
    val,                    \* enqueue: value; dequeue: ret; idle: the answer
    status,                 \* "ready", or how the queue ended
    chain                   \* history variable: the nodes linked from head

memory == <<value, next, lock, live>>
locals == <<pc, node, old, val>>
vars   == <<head, tail, head_lock, tail_lock, size, memory, locals, status, chain>>

EnqueueStages == {"enq_alloc", "enq_lock", "enq_link", "enq_swing", "enq_late",
                  "enq_unlock", "enq_size"}
DequeueStages == {"deq_hlock", "deq_nlock", "deq_next", "deq_empty",
                  "deq_lock_next", "deq_move", "deq_take", "deq_unlock_next",
                  "deq_free", "deq_size", "deq_hunlock"}

Goto(t, from, to) == pc[t] = from /\ pc' = [pc EXCEPT ![t] = to]

\* The local pointers of a call end with it.
Leave(t) == node' = [node EXCEPT ![t] = NULL] /\ old' = [old EXCEPT ![t] = NULL]

\* fgq_init, run before any thread exists: one dummy node, which is both ends.
Init ==
    /\ head \in Nodes /\ tail = head
    /\ head_lock = NULL /\ tail_lock = NULL
    /\ size = 0
    /\ value = [n \in Nodes |-> NULL]
    /\ next = [n \in Nodes |-> NULL]
    /\ lock = [n \in Nodes |-> NULL]
    /\ live = {head}
    /\ pc = [t \in Threads |-> "idle"]
    /\ node = [t \in Threads |-> NULL]
    /\ old = [t \in Threads |-> NULL]
    /\ val = [t \in Threads |-> NULL]
    /\ status = "ready"
    /\ chain = <<head>>

-----------------------------------------------------------------------------
\* fgq_enqueue

CallEnqueue(t, v) ==
    /\ Goto(t, "idle", "enq_alloc")
    /\ val' = [val EXCEPT ![t] = v]
    /\ UNCHANGED <<head, tail, head_lock, tail_lock, size, memory, node, old, status, chain>>

\* Mutant: node->next = NULL is forgotten.
EnqAllocStaleNext(t) ==
    /\ Goto(t, "enq_alloc", "enq_lock")
    /\ \E n \in Nodes \ live :
          /\ live' = live \cup {n}
          /\ value' = [value EXCEPT ![n] = val[t]]
          /\ lock' = [lock EXCEPT ![n] = NULL]
          /\ node' = [node EXCEPT ![t] = n]
    /\ UNCHANGED <<head, tail, head_lock, tail_lock, size, next, old, val, status, chain>>

\* malloc and the initialisation of a node no other thread can see yet.
EnqAlloc(t) ==
    /\ Goto(t, "enq_alloc", "enq_lock")
    /\ \E n \in Nodes \ live :
          /\ live' = live \cup {n}
          /\ value' = [value EXCEPT ![n] = val[t]]
          /\ next' = [next EXCEPT ![n] = NULL]
          /\ lock' = [lock EXCEPT ![n] = NULL]
          /\ node' = [node EXCEPT ![t] = n]
    /\ UNCHANGED <<head, tail, head_lock, tail_lock, size, old, val, status, chain>>

\* malloc answers NULL when the heap is exhausted, and the process aborts.
EnqAbort(t) ==
    /\ pc[t] = "enq_alloc"
    /\ Nodes \subseteq live
    /\ status' = "aborted"
    /\ UNCHANGED <<head, tail, head_lock, tail_lock, size, memory, locals, chain>>

\* Mutant: tail_lock is not taken.
EnqLockUnguarded(t) ==
    /\ Goto(t, "enq_lock", "enq_link")
    /\ tail_lock' = t
    /\ UNCHANGED <<head, tail, head_lock, size, memory, node, old, val, status, chain>>

EnqLock(t) ==
    /\ Goto(t, "enq_lock", "enq_link")
    /\ tail_lock = NULL
    /\ tail_lock' = t
    /\ UNCHANGED <<head, tail, head_lock, size, memory, node, old, val, status, chain>>

\* q->tail->next = node: from here on a dequeuer can reach the node.
EnqLinkFirst(t) ==
    /\ Goto(t, "enq_link", "enq_swing")
    /\ next' = [next EXCEPT ![tail] = node[t]]
    /\ chain' = Append(chain, node[t])
    /\ UNCHANGED <<head, tail, head_lock, tail_lock, size, value, lock, live, node, old, val, status>>

EnqSwing(t) ==
    /\ Goto(t, "enq_swing", "enq_unlock")
    /\ tail' = node[t]
    /\ UNCHANGED <<head, head_lock, tail_lock, size, memory, node, old, val, status, chain>>

\* The two stores race with the dequeuers' reads and do not alias, so the
\* compiler may also emit them the other way round.
EnqSwingFirst(t) ==
    /\ Goto(t, "enq_link", "enq_late")
    /\ old' = [old EXCEPT ![t] = tail]
    /\ tail' = node[t]
    /\ UNCHANGED <<head, head_lock, tail_lock, size, memory, node, val, status, chain>>

EnqLinkLate(t) ==
    /\ Goto(t, "enq_late", "enq_unlock")
    /\ next' = [next EXCEPT ![old[t]] = node[t]]
    /\ chain' = Append(chain, node[t])
    /\ UNCHANGED <<head, tail, head_lock, tail_lock, size, value, lock, live, node, old, val, status>>

EnqUnlock(t) ==
    /\ Goto(t, "enq_unlock", "enq_size")
    /\ tail_lock' = NULL
    /\ UNCHANGED <<head, tail, head_lock, size, memory, node, old, val, status, chain>>

EnqSize(t) ==
    /\ Goto(t, "enq_size", "idle")
    /\ size' = (size + 1) % SizeMod
    /\ Leave(t)
    /\ val' = [val EXCEPT ![t] = NULL]
    /\ UNCHANGED <<head, tail, head_lock, tail_lock, memory, status, chain>>

-----------------------------------------------------------------------------
\* fgq_dequeue

CallDequeue(t) ==
    /\ Goto(t, "idle", "deq_hlock")
    /\ val' = [val EXCEPT ![t] = NULL]
    /\ UNCHANGED <<head, tail, head_lock, tail_lock, size, memory, node, old, status, chain>>

\* Mutant: head_lock is not taken.
DeqHeadLockUnguarded(t) ==
    /\ Goto(t, "deq_hlock", "deq_nlock")
    /\ head_lock' = t
    /\ old' = [old EXCEPT ![t] = head]
    /\ UNCHANGED <<head, tail, tail_lock, size, memory, node, val, status, chain>>

DeqHeadLock(t) ==
    /\ Goto(t, "deq_hlock", "deq_nlock")
    /\ head_lock = NULL
    /\ head_lock' = t
    /\ old' = [old EXCEPT ![t] = head]
    /\ UNCHANGED <<head, tail, tail_lock, size, memory, node, val, status, chain>>

DeqNodeLock(t) ==
    /\ Goto(t, "deq_nlock", "deq_next")
    /\ lock[old[t]] = NULL
    /\ lock' = [lock EXCEPT ![old[t]] = t]
    /\ UNCHANGED <<head, tail, head_lock, tail_lock, size, value, next, live, node, old, val, status, chain>>

\* next = old_head->next; an enqueuer may be storing to it at this moment.
DeqNext(t) ==
    /\ pc[t] = "deq_next"
    /\ node' = [node EXCEPT ![t] = next[old[t]]]
    /\ pc' = [pc EXCEPT ![t] = IF next[old[t]] = NULL THEN "deq_empty" ELSE "deq_lock_next"]
    /\ UNCHANGED <<head, tail, head_lock, tail_lock, size, memory, old, val, status, chain>>

\* Mutant: the empty case falls through to the decrement.
DeqEmptyCounted(t) ==
    /\ Goto(t, "deq_empty", "deq_size")
    /\ lock' = [lock EXCEPT ![old[t]] = NULL]
    /\ UNCHANGED <<head, tail, head_lock, tail_lock, size, value, next, live, node, old, val, status, chain>>

DeqEmpty(t) ==
    /\ Goto(t, "deq_empty", "deq_hunlock")
    /\ lock' = [lock EXCEPT ![old[t]] = NULL]
    /\ UNCHANGED <<head, tail, head_lock, tail_lock, size, value, next, live, node, old, val, status, chain>>

DeqLockNext(t) ==
    /\ Goto(t, "deq_lock_next", "deq_move")
    /\ lock[node[t]] = NULL
    /\ lock' = [lock EXCEPT ![node[t]] = t]
    /\ UNCHANGED <<head, tail, head_lock, tail_lock, size, value, next, live, node, old, val, status, chain>>

DeqMove(t) ==
    /\ Goto(t, "deq_move", "deq_take")
    /\ head' = node[t]
    /\ chain' = Tail(chain)
    /\ UNCHANGED <<tail, head_lock, tail_lock, size, memory, node, old, val, status>>

DeqTake(t) ==
    /\ Goto(t, "deq_take", "deq_unlock_next")
    /\ val' = [val EXCEPT ![t] = value[node[t]]]
    /\ value' = [value EXCEPT ![node[t]] = NULL]
    /\ UNCHANGED <<head, tail, head_lock, tail_lock, size, next, lock, live, node, old, status, chain>>

DeqUnlockNext(t) ==
    /\ Goto(t, "deq_unlock_next", "deq_free")
    /\ lock' = [lock EXCEPT ![node[t]] = NULL]
    /\ UNCHANGED <<head, tail, head_lock, tail_lock, size, value, next, live, node, old, val, status, chain>>

\* Mutant: the old dummy is not freed.
DeqFreeForgotten(t) ==
    /\ Goto(t, "deq_free", "deq_size")
    /\ lock' = [lock EXCEPT ![old[t]] = NULL]
    /\ UNCHANGED <<head, tail, head_lock, tail_lock, size, value, next, live, node, old, val, status, chain>>

\* Unlock, destroy and free the old dummy; malloc may return it at once, its
\* fields as they were.
DeqFree(t) ==
    /\ Goto(t, "deq_free", "deq_size")
    /\ lock' = [lock EXCEPT ![old[t]] = NULL]
    /\ live' = live \ {old[t]}
    /\ UNCHANGED <<head, tail, head_lock, tail_lock, size, value, next, node, old, val, status, chain>>

DeqSize(t) ==
    /\ Goto(t, "deq_size", "deq_hunlock")
    /\ size' = (size - 1) % SizeMod
    /\ UNCHANGED <<head, tail, head_lock, tail_lock, memory, node, old, val, status, chain>>

DeqHeadUnlock(t) ==
    /\ Goto(t, "deq_hunlock", "idle")
    /\ head_lock' = NULL
    /\ Leave(t)
    /\ UNCHANGED <<head, tail, tail_lock, size, memory, val, status, chain>>

-----------------------------------------------------------------------------
\* The nodes the loop of fgq_destroy meets: the least set that holds q->head
\* and is closed under next.
FromHead ==
    {n \in Nodes : \A S \in SUBSET Nodes :
        (head \in S /\ \A m \in S : next[m] # NULL => next[m] \in S) => n \in S}

Destroy ==
    /\ \A t \in Threads : pc[t] = "idle"
    /\ live' = live \ FromHead
    /\ status' = "destroyed"
    /\ UNCHANGED <<head, tail, head_lock, tail_lock, size, value, next, lock, locals, chain>>

EnqueueStep(t) ==
    \/ EnqAlloc(t) \/ EnqAbort(t) \/ EnqLock(t)
    \/ EnqLinkFirst(t) \/ EnqSwing(t) \/ EnqSwingFirst(t) \/ EnqLinkLate(t)
    \/ EnqUnlock(t) \/ EnqSize(t)

DequeueStep(t) ==
    \/ DeqHeadLock(t) \/ DeqNodeLock(t) \/ DeqNext(t) \/ DeqEmpty(t)
    \/ DeqLockNext(t) \/ DeqMove(t) \/ DeqTake(t) \/ DeqUnlockNext(t)
    \/ DeqFree(t) \/ DeqSize(t) \/ DeqHeadUnlock(t)

Call(t) == CallDequeue(t) \/ \E v \in Values : CallEnqueue(t, v)

Next ==
    \/ status = "ready" /\ \E t \in Threads : Call(t) \/ EnqueueStep(t) \/ DequeueStep(t)
    \/ status = "ready" /\ Destroy
    \/ status # "ready" /\ UNCHANGED vars

Spec == Init /\ [][Next]_vars
-----------------------------------------------------------------------------
\* Every variable stays in its domain; the counter stays below 2^64.
TypeOK ==
    /\ head \in Nodes /\ tail \in Nodes
    /\ head_lock \in Threads \cup {NULL} /\ tail_lock \in Threads \cup {NULL}
    /\ size \in 0 .. SizeMod - 1
    /\ value \in [Nodes -> Values \cup {NULL}]
    /\ next \in [Nodes -> Nodes \cup {NULL}]
    /\ lock \in [Nodes -> Threads \cup {NULL}]
    /\ live \in SUBSET Nodes
    /\ pc \in [Threads -> {"idle"} \cup EnqueueStages \cup DequeueStages]
    /\ node \in [Threads -> Nodes \cup {NULL}]
    /\ old \in [Threads -> Nodes \cup {NULL}]
    /\ val \in [Threads -> Values \cup {NULL}]
    /\ status \in {"ready", "aborted", "destroyed"}
    /\ chain \in Seq(Nodes) /\ chain # <<>>

\* The nodes whose fields the next access of a thread reads or writes.
Touches(t) ==
    CASE pc[t] = "enq_link" -> {tail}
      [] pc[t] \in {"enq_late", "deq_nlock", "deq_next", "deq_empty", "deq_free"} -> {old[t]}
      [] pc[t] \in {"deq_lock_next", "deq_take", "deq_unlock_next"} -> {node[t]}
      [] OTHER -> {}

\* No thread is ever about to touch a node that a dequeuer has freed, although
\* enqueuers reach the last node without any lock a dequeuer takes (:96, :140).
NoUseAfterFree == \A t \in Threads : Touches(t) \subseteq live

\* A node lock is free whenever a thread asks for it, so mtx_destroy (:139)
\* never destroys a lock that another thread holds or waits for.
NodeLocksUncontended ==
    \A t \in Threads :
        /\ pc[t] = "deq_nlock" => lock[old[t]] = NULL
        /\ pc[t] = "deq_lock_next" => lock[node[t]] = NULL

\* A new node that its enqueuer has not linked yet.
Unlinked(t) == pc[t] \in {"enq_lock", "enq_link", "enq_late"}
\* An old dummy that its dequeuer has unhooked and not freed yet.
Retired(t)  == pc[t] \in {"deq_take", "deq_unlock_next", "deq_free"}

\* Every allocated node is linked from head, or still private to its
\* enqueuer, or an old dummy on its way to free: none leaks (:80-101, :140),
\* and fgq_destroy frees them all (:69-74).
NoLeak ==
    /\ status = "ready" =>
        live = FromHead \cup {node[t] : t \in {u \in Threads : Unlinked(u)}}
                        \cup {old[t] : t \in {u \in Threads : Retired(u)}}
    /\ status = "destroyed" => live = {}

Linked == Len(chain) - 1
Uncounted == {t \in Threads : pc[t] \in {"enq_swing", "enq_unlock", "enq_size"}}
Undiscounted == {t \in Threads : Retired(t) \/ pc[t] = "deq_size"}

\* The counter, modulo 2^64, is the number of linked values but for the calls
\* between their link or unhook and their atomic update (:100, :142).
SizeAccounting ==
    size = (Linked - Cardinality(Uncounted) + Cardinality(Undiscounted)) % SizeMod

-----------------------------------------------------------------------------
\* The refinement mapping: the abstract queue is the values of the nodes that
\* follow the dummy; an enqueue takes effect at the store that links its node,
\* a dequeue when it moves head or reads a null next.
Contents == [i \in 1 .. Len(chain) - 1 |-> value[chain[i + 1]]]

StageOf(p) ==
    CASE p = "idle" -> "idle"
      [] p \in {"enq_alloc", "enq_lock", "enq_link", "enq_late"} -> "enq"
      [] p \in {"deq_hlock", "deq_nlock", "deq_next", "deq_lock_next", "deq_move"} -> "deq"
      [] OTHER -> "done"

Op == [t \in Threads |->
        [stage |-> StageOf(pc[t]),
         val   |-> CASE pc[t] = "deq_take" -> value[node[t]]
                   [] pc[t] \in {"enq_swing", "enq_unlock", "enq_size"} -> NULL
                   [] OTHER -> val[t]]]

Fifo == INSTANCE FifoQueue WITH items <- Contents, op <- Op

\* Every interleaving of fgq_enqueue and fgq_dequeue is linearizable to a
\* FIFO queue: no value is lost, duplicated or overtaken, and NULL is answered
\* only when the queue is empty.
Linearizable == Fifo!Spec

\* ThreadedQueue.c:113 "We lock the old_head node to inspect its next safely":
\* no other thread is about to store to the field that is being read.
NextReadSafely ==
    \A t, u \in Threads :
        pc[t] = "deq_next" =>
            /\ ~(pc[u] = "enq_link" /\ tail = old[t])
            /\ ~(pc[u] = "enq_late" /\ old[u] = old[t])

\* ThreadedQueue.c:150 "Approximate size (may be slightly off)": fgq_size is
\* off by no more than one for each thread that is inside a call.
SizeSlightlyOff ==
    LET busy == Cardinality({t \in Threads : pc[t] # "idle"})
    IN  Linked - busy <= size /\ size <= Linked + busy

-----------------------------------------------------------------------------
\* The inductive invariant, in named parts.

\* The chain starts at head, follows next to the first null link, and its
\* nodes are distinct and allocated.
ChainInv ==
    /\ chain[1] = head
    /\ \A i \in 1 .. Len(chain) : chain[i] \in live
    /\ \A i, j \in 1 .. Len(chain) : chain[i] = chain[j] => i = j
    /\ \A i \in 1 .. Len(chain) - 1 : next[chain[i]] = chain[i + 1]
    /\ next[chain[Len(chain)]] = NULL
    /\ \A i \in 2 .. Len(chain) : value[chain[i]] \in Values

InChain(n) == \E i \in 1 .. Len(chain) : chain[i] = n

\* The queue locks are held exactly inside their critical sections.
TailSection == {"enq_link", "enq_swing", "enq_late", "enq_unlock"}
HeadSection == DequeueStages \ {"deq_hlock"}
LockInv ==
    \A t \in Threads :
        /\ pc[t] \in TailSection <=> tail_lock = t
        /\ pc[t] \in HeadSection <=> head_lock = t

\* A node lock is held only by the dequeuer that locked it.
NodeLockInv ==
    \A n \in live, t \in Threads : lock[n] = t =>
        \/ pc[t] \in {"deq_next", "deq_empty", "deq_lock_next", "deq_move", "deq_take",
                      "deq_unlock_next", "deq_free"} /\ old[t] = n
        \/ pc[t] \in {"deq_move", "deq_take", "deq_unlock_next"} /\ node[t] = n

\* Where tail is, whoever holds tail_lock.
TailInv ==
    /\ (\A t \in Threads : pc[t] \notin {"enq_swing", "enq_late"}) => tail = chain[Len(chain)]
    /\ \A t \in Threads :
        /\ pc[t] = "enq_swing" => node[t] = chain[Len(chain)]
        /\ pc[t] = "enq_late" => old[t] = chain[Len(chain)] /\ tail = node[t]

EnqInv ==
    /\ \A t \in Threads :
        /\ pc[t] \in EnqueueStages => val[t] \in Values
        /\ Unlinked(t) => /\ node[t] \in live /\ ~InChain(node[t])
                          /\ next[node[t]] = NULL /\ value[node[t]] = val[t]
    /\ \A t, u \in Threads : Unlinked(t) /\ Unlinked(u) /\ node[t] = node[u] => t = u

DeqInv ==
    \A t \in Threads :
        /\ pc[t] \in {"deq_nlock", "deq_next", "deq_empty"} => old[t] = head
        /\ pc[t] \in {"deq_lock_next", "deq_move"} =>
              old[t] = head /\ Len(chain) > 1 /\ node[t] = chain[2]
        /\ Retired(t) => /\ node[t] = head /\ old[t] \in live /\ ~InChain(old[t])
                         /\ \A u \in Threads : Unlinked(u) => node[u] # old[t]
        /\ pc[t] = "deq_take" => value[head] \in Values
        /\ pc[t] \in {"deq_hlock", "deq_nlock", "deq_next", "deq_empty", "deq_lock_next",
                      "deq_move", "deq_take"} => val[t] = NULL

\* Calls made of Destroy: it runs only when every thread is idle.
EndInv == status = "destroyed" => \A t \in Threads : pc[t] = "idle"

IInv == /\ TypeOK
        /\ status # "destroyed" => ChainInv
        /\ LockInv /\ NodeLockInv /\ EndInv
        /\ TailInv /\ EnqInv /\ DeqInv
=============================================================================

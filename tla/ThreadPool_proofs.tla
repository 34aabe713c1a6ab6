------------------------- MODULE ThreadPool_proofs --------------------------
(***************************************************************************)
(* ThreadPool/server.c, for any number of workers, clients, descriptors    *)
(* and places in the queue.  First its task queue, from TaskQueue's        *)
(* assumption alone: no lost wake-up, no slot overwritten, a FIFO queue.   *)
(* Then the server: each open descriptor has one owner, and each client    *)
(* gets its own answer.                                                    *)
(***************************************************************************)
EXTENDS ThreadPool, FiniteSetTheorems, TLAPS

-----------------------------------------------------------------------------
(***************************************************************************)
(* The task queue.                                                         *)
(***************************************************************************)
\* Indices of the ring: one subtraction at most brings them back into it.
LEMMA ModSmall ==
    ASSUME NEW m \in Nat \ {0}, NEW a \in 0 .. m - 1 PROVE a % m = a
OBVIOUS

LEMMA ModWrapped ==
    ASSUME NEW m \in Nat \ {0}, NEW a \in m .. 2 * m - 1 PROVE a % m = a - m
OBVIOUS

LEMMA IndexNext ==
    ASSUME NEW m \in Nat \ {0}, NEW f \in 0 .. m - 1, NEW i \in 0 .. m - 1
    PROVE  /\ (f + i) % m \in 0 .. m - 1
           /\ (f + i) % m = IF f + i < m THEN f + i ELSE f + i - m
           /\ (f + 1) % m \in 0 .. m - 1
           /\ (f + 1) % m = IF f = m - 1 THEN 0 ELSE f + 1
           /\ (((f + 1) % m) + i) % m = (f + (i + 1)) % m
           /\ (((f + i) % m) + 1) % m = (f + (i + 1)) % m
<1>1. (f + i) % m = IF f + i < m THEN f + i ELSE f + i - m
  <2>1. CASE f + i < m BY <2>1, ModSmall
  <2>2. CASE ~(f + i < m)
    <3>1. f + i \in m .. 2 * m - 1 BY <2>2
    <3> QED BY <2>2, <3>1, ModWrapped
  <2> QED BY <2>1, <2>2
<1>2. (f + 1) % m = IF f = m - 1 THEN 0 ELSE f + 1
  <2>1. CASE f + 1 < m BY <2>1, ModSmall
  <2>2. CASE ~(f + 1 < m)
    <3>1. f + 1 \in m .. 2 * m - 1 BY <2>2
    <3> QED BY <2>2, <3>1, ModWrapped
  <2> QED BY <2>1, <2>2
<1>3. (f + (i + 1)) % m = IF f + i + 1 < m THEN f + i + 1 ELSE f + i + 1 - m
  <2>1. CASE f + i + 1 < m BY <2>1, ModSmall
  <2>2. CASE ~(f + i + 1 < m)
    <3>1. f + (i + 1) \in m .. 2 * m - 1 BY <2>2
    <3> QED BY <2>2, <3>1, ModWrapped
  <2> QED BY <2>1, <2>2
<1>4. (((f + 1) % m) + i) % m = (f + (i + 1)) % m
  <2>1. CASE f = m - 1 BY <2>1, <1>2, <1>3, ModSmall
  <2>2. CASE f # m - 1 BY <2>2, <1>2
  <2> QED BY <2>1, <2>2
<1>5. (((f + i) % m) + 1) % m = (f + (i + 1)) % m
  <2>1. CASE f + i + 1 < m BY <2>1, <1>1, <1>3, ModSmall
  <2>2. CASE f + i + 1 = m
    <3>1. ((f + i) % m) + 1 = m BY <2>2, <1>1
    <3>2. m \in m .. 2 * m - 1 /\ m - m = 0 OBVIOUS
    <3>3. (((f + i) % m) + 1) % m = 0 BY <3>1, <3>2, ModWrapped
    <3>4. (f + (i + 1)) % m = 0 BY <2>2, <1>3
    <3> QED BY <3>3, <3>4
  <2>3. CASE f + i + 1 > m
    <3>1. (f + i) % m = f + i - m BY <2>3, <1>1
    <3>2. ((f + i) % m) + 1 \in 0 .. m - 1 BY <3>1
    <3>3. (((f + i) % m) + 1) % m = f + i - m + 1 BY <3>1, <3>2, ModSmall
    <3> QED BY <2>3, <3>3, <1>3
  <2> QED BY <2>1, <2>2, <2>3
<1> QED BY <1>1, <1>2, <1>4, <1>5

\* How the size of a group of threads changes when only thread t may join or
\* leave it.
Change(t, A, B) == IF t \in A THEN IF t \in B THEN 0 ELSE -1
                              ELSE IF t \in B THEN 1 ELSE 0

LEMMA CountMove ==
    ASSUME NEW T, IsFiniteSet(T), NEW t \in T, NEW A \in SUBSET T, NEW B \in SUBSET T,
           \A u \in T \ {t} : u \in A <=> u \in B
    PROVE  /\ Cardinality(A) \in Nat /\ Cardinality(B) \in Nat
           /\ Cardinality(B) = Cardinality(A) + Change(t, A, B)
<1>1. IsFiniteSet(A) /\ IsFiniteSet(B) BY FS_Subset
<1>2. Cardinality(A) \in Nat /\ Cardinality(B) \in Nat BY <1>1, FS_CardinalityType
<1>3. CASE t \in A <=> t \in B
  <2>1. B = A BY <1>3
  <2> QED BY <2>1, <1>2, <1>3 DEF Change
<1>4. CASE t \in A /\ t \notin B
  <2>1. B = A \ {t} BY <1>4
  <2>2. Cardinality(B) = Cardinality(A) - 1 BY <2>1, <1>1, <1>4, FS_RemoveElement
  <2> QED BY <2>2, <1>2, <1>4 DEF Change
<1>5. CASE t \notin A /\ t \in B
  <2>1. B = A \cup {t} BY <1>5
  <2>2. Cardinality(B) = Cardinality(A) + 1 BY <2>1, <1>1, <1>5, FS_AddElement
  <2> QED BY <2>2, <1>2, <1>5 DEF Change
<1> QED BY <1>3, <1>4, <1>5

LEMMA ThreadsFinite == IsFiniteSet(Threads)
BY TaskQueueAssumption, FS_Union DEF Threads

\* CountMove for the four groups of threads that the semaphores account for.
LEMMA Moves ==
    ASSUME NEW t \in Threads, \A u \in Threads \ {t} : pc'[u] = pc[u]
    PROVE  /\ Cardinality(Filling) \in Nat /\ Cardinality(Filled) \in Nat
           /\ Cardinality(Emptying) \in Nat /\ Cardinality(Emptied) \in Nat
           /\ Cardinality(Filling') = Cardinality(Filling) + Change(t, Filling, Filling')
           /\ Cardinality(Filled') = Cardinality(Filled) + Change(t, Filled, Filled')
           /\ Cardinality(Emptying') = Cardinality(Emptying) + Change(t, Emptying, Emptying')
           /\ Cardinality(Emptied') = Cardinality(Emptied) + Change(t, Emptied, Emptied')
<1>2. /\ \A u \in Threads \ {t} : u \in Filling <=> u \in Filling'
      /\ Filling \subseteq Threads /\ Filling' \subseteq Threads
  BY DEF Filling, At
<1>3. /\ \A u \in Threads \ {t} : u \in Filled <=> u \in Filled'
      /\ Filled \subseteq Threads /\ Filled' \subseteq Threads
  BY DEF Filled, At
<1>4. /\ \A u \in Threads \ {t} : u \in Emptying <=> u \in Emptying'
      /\ Emptying \subseteq Threads /\ Emptying' \subseteq Threads
  BY DEF Emptying, At
<1>5. /\ \A u \in Threads \ {t} : u \in Emptied <=> u \in Emptied'
      /\ Emptied \subseteq Threads /\ Emptied' \subseteq Threads
  BY DEF Emptied, At
<1> QED BY <1>2, <1>3, <1>4, <1>5, ThreadsFinite, CountMove

\* A thread in one of the groups makes that group non-empty.
LEMMA Present ==
    ASSUME NEW t \in Threads
    PROVE  /\ \A X \in {Filling, Filled, Emptying, Emptied} : Cardinality(X) \in Nat
           /\ t \in Filling => Cardinality(Filling) > 0
           /\ t \in Filled => Cardinality(Filled) > 0
           /\ t \in Emptying => Cardinality(Emptying) > 0
           /\ t \in Emptied => Cardinality(Emptied) > 0
<1>1. \A X \in {Filling, Filled, Emptying, Emptied} : IsFiniteSet(X)
  BY ThreadsFinite, FS_Subset DEF Filling, Filled, Emptying, Emptied, At
<1> QED BY <1>1, FS_CardinalityType, FS_EmptySet

\* The semaphores keep the counter in range, and a filler has room, an emptier
\* something to take.
LEMMA Room ==
    ASSUME QueueInv
    PROVE  /\ count \in 0 .. MAX_QUEUE
           /\ \A t \in Threads : t \in Filling => count < MAX_QUEUE
           /\ \A t \in Threads : t \in Emptying => count > 0
<1>1. Cardinality(Filling) \in Nat /\ Cardinality(Filled) \in Nat
      /\ Cardinality(Emptying) \in Nat /\ Cardinality(Emptied) \in Nat
  BY ThreadsFinite, FS_Subset, FS_CardinalityType DEF Filling, Filled, Emptying, Emptied, At
<1> QED BY <1>1, Present, TaskQueueAssumption
        DEF QueueInv, QueueTypeOK, SemaphoreAccounting

-----------------------------------------------------------------------------
\* One lemma for each step of enqueue and dequeue: it preserves QueueInv.

LEMMA InitInv == QueueInit => QueueInv
<1> SUFFICES ASSUME QueueInit PROVE QueueInv OBVIOUS
<1>1. QueueTypeOK
  BY TaskQueueAssumption DEF QueueInit, QueueTypeOK, Threads, Slots, PutStages, GetStages
<1>5. MutualExclusion
  BY TaskQueueAssumption DEF QueueInit, MutualExclusion, Threads, Critical
<1>6. RingInv
  BY TaskQueueAssumption, ModSmall DEF QueueInit, RingInv
<1>2. Filling = {} /\ Filled = {} /\ Emptying = {} /\ Emptied = {}
  BY DEF QueueInit, Filling, Filled, Emptying, Emptied, At
<1>3. SemaphoreAccounting
  BY <1>2, FS_EmptySet, TaskQueueAssumption DEF SemaphoreAccounting, QueueInit
<1>4. ContentsInv
  BY DEF QueueInit, ContentsInv, PutStages
<1> QED BY <1>1, <1>3, <1>4, <1>5, <1>6 DEF QueueInv

\* Where a thread at a stage belongs, before and after a step.
Belongs ==
    \A t \in Threads :
        /\ t \in Filling <=> pc[t] \in {"put_lock", "put_store", "put_advance"}
        /\ t \in Filled <=> pc[t] \in {"put_unlock", "put_post"}
        /\ t \in Emptying <=> pc[t] \in {"get_lock", "get_load", "get_advance"}
        /\ t \in Emptied <=> pc[t] \in {"get_unlock", "get_post"}

LEMMA StageGroups == Belongs /\ Belongs'
BY DEF Belongs, Filling, Filled, Emptying, Emptied, At

LEMMA CallEnqueueInv ==
    ASSUME QueueInv, NEW t \in Putters, NEW fd \in Sockets, CallEnqueue(t, fd) PROVE QueueInv'
<1> USE DEF QueueInv
<1>0. /\ t \in Threads /\ pc[t] = "idle" /\ pc' = [pc EXCEPT ![t] = "put_wait"]
      /\ pc'[t] = "put_wait" /\ \A u \in Threads \ {t} : pc'[u] = pc[u]
  BY DEF Threads, CallEnqueue, Goto, QueueTypeOK
<1>1. QueueTypeOK'
  BY <1>0, TaskQueueAssumption DEF CallEnqueue, ring, sems, QueueTypeOK, PutStages, GetStages, Threads
<1>2. MutualExclusion' /\ RingInv'
  BY <1>0 DEF CallEnqueue, ring, sems, QueueTypeOK, MutualExclusion, Critical, RingInv
<1>3. SemaphoreAccounting'
  BY <1>0, Moves, StageGroups
     DEF CallEnqueue, ring, sems, QueueTypeOK, SemaphoreAccounting, Change, Belongs
<1>4. ContentsInv'
  BY <1>0 DEF CallEnqueue, ring, sems, QueueTypeOK, ContentsInv, PutStages
<1> QED BY <1>1, <1>2, <1>3, <1>4

LEMMA PutWaitInv ==
    ASSUME QueueInv, NEW t \in Putters, PutWait(t) PROVE QueueInv'
<1> USE DEF QueueInv
<1>0. /\ t \in Threads /\ pc[t] = "put_wait" /\ pc' = [pc EXCEPT ![t] = "put_lock"]
      /\ pc'[t] = "put_lock" /\ \A u \in Threads \ {t} : pc'[u] = pc[u]
  BY DEF Threads, PutWait, ring, sems, Goto, QueueTypeOK
<1>1. QueueTypeOK'
  BY <1>0, TaskQueueAssumption
     DEF PutWait, ring, sems, QueueTypeOK, PutStages, GetStages, Threads
<1>2. MutualExclusion'
  BY <1>0 DEF PutWait, ring, sems, QueueTypeOK, MutualExclusion, Critical
<1>3. SemaphoreAccounting'
  BY <1>0, Moves, StageGroups, TaskQueueAssumption
     DEF PutWait, ring, sems, QueueTypeOK, SemaphoreAccounting, Change, Belongs
<1>4. RingInv'
  BY DEF PutWait, ring, sems, RingInv
<1>5. ContentsInv'
  BY <1>0 DEF PutWait, ring, sems, QueueTypeOK, ContentsInv, PutStages
<1> QED BY <1>1, <1>2, <1>3, <1>4, <1>5

LEMMA PutLockInv ==
    ASSUME QueueInv, NEW t \in Putters, PutLock(t) PROVE QueueInv'
<1> USE DEF QueueInv
<1>0. /\ t \in Threads /\ pc[t] = "put_lock" /\ pc' = [pc EXCEPT ![t] = "put_store"]
      /\ pc'[t] = "put_store" /\ \A u \in Threads \ {t} : pc'[u] = pc[u]
  BY DEF Threads, PutLock, Lock, ring, sems, Goto, QueueTypeOK
<1>1. QueueTypeOK'
  BY <1>0, TaskQueueAssumption
     DEF PutLock, Lock, ring, sems, QueueTypeOK, PutStages, GetStages, Threads
<1>2. MutualExclusion'
  BY <1>0, TaskQueueAssumption DEF PutLock, Lock, QueueTypeOK, MutualExclusion, Critical, Threads
<1>3. SemaphoreAccounting'
  BY <1>0, Moves, StageGroups, TaskQueueAssumption
     DEF PutLock, Lock, ring, sems, QueueTypeOK, SemaphoreAccounting, Change, Belongs
<1>4. RingInv'
  BY DEF PutLock, Lock, ring, sems, RingInv
<1>5. ContentsInv'
  BY <1>0 DEF PutLock, Lock, ring, sems, QueueTypeOK, ContentsInv, PutStages
<1> QED BY <1>1, <1>2, <1>3, <1>4, <1>5

LEMMA PutStoreInv ==
    ASSUME QueueInv, NEW t \in Putters, PutStore(t) PROVE QueueInv'
<1> USE DEF QueueInv
<1>0. /\ t \in Threads /\ pc[t] = "put_store" /\ pc' = [pc EXCEPT ![t] = "put_advance"]
      /\ pc'[t] = "put_advance" /\ \A u \in Threads \ {t} : pc'[u] = pc[u]
  BY DEF Threads, PutStore, sems, Goto, QueueTypeOK
<1>a. \A u \in Threads : u # t => pc[u] \notin Critical
  BY <1>0 DEF MutualExclusion, Critical
<1>b. count \in 0 .. MAX_QUEUE - 1
  BY <1>0, Room, StageGroups, TaskQueueAssumption DEF Belongs
<1>c. client_fd[t] \in Sockets /\ rear \in Slots
  BY <1>0 DEF ContentsInv, PutStages, QueueTypeOK
<1>1. QueueTypeOK'
  BY <1>0, TaskQueueAssumption, <1>c
     DEF PutStore, sems, QueueTypeOK, PutStages, GetStages, Threads
<1>2. MutualExclusion'
  BY <1>0 DEF PutStore, sems, QueueTypeOK, MutualExclusion, Critical
<1>3. SemaphoreAccounting'
  BY <1>0, Moves, StageGroups, TaskQueueAssumption
     DEF PutStore, sems, QueueTypeOK, SemaphoreAccounting, Change, Belongs
<1>4. RingInv'
  BY DEF PutStore, sems, RingInv
<1>5. ContentsInv'
  <2>1. \A i \in 0 .. count - 1 : (front + i) % MAX_QUEUE \in Slots /\ (front + i) % MAX_QUEUE # rear
    BY <1>b, IndexNext, TaskQueueAssumption DEF RingInv, Slots, QueueTypeOK
  <2>2. \A i \in 0 .. count - 1 : client_sockets'[(front + i) % MAX_QUEUE] \in Sockets
    BY <2>1 DEF PutStore, ContentsInv, QueueTypeOK
  <2>3. client_sockets'[rear] = client_fd[t]
    BY <1>c DEF PutStore, QueueTypeOK
  <2> QED BY <1>0, <1>a, <1>c, <2>2, <2>3 DEF PutStore, sems, ContentsInv, QueueTypeOK, PutStages, Critical
<1> QED BY <1>1, <1>2, <1>3, <1>4, <1>5

LEMMA PutAdvanceInv ==
    ASSUME QueueInv, NEW t \in Putters, PutAdvance(t) PROVE QueueInv'
<1> USE DEF QueueInv
<1>0. /\ t \in Threads /\ pc[t] = "put_advance" /\ pc' = [pc EXCEPT ![t] = "put_unlock"]
      /\ pc'[t] = "put_unlock" /\ \A u \in Threads \ {t} : pc'[u] = pc[u]
  BY DEF Threads, PutAdvance, sems, Goto, QueueTypeOK
<1>a. \A u \in Threads : u # t => pc[u] \notin Critical
  BY <1>0 DEF MutualExclusion, Critical
<1>b. count \in 0 .. MAX_QUEUE - 1
  BY <1>0, Room, StageGroups, TaskQueueAssumption DEF Belongs
<1>c. rear' = (front + (count + 1)) % MAX_QUEUE /\ rear' \in Slots
  <2>1. front \in 0 .. MAX_QUEUE - 1 /\ rear \in 0 .. MAX_QUEUE - 1
    BY DEF QueueTypeOK, Slots
  <2>2. MAX_QUEUE \in Nat \ {0} BY TaskQueueAssumption
  <2>3. (((front + count) % MAX_QUEUE) + 1) % MAX_QUEUE = (front + (count + 1)) % MAX_QUEUE
    BY ONLY <2>1, <1>b, IndexNext, <2>2
  <2>4. (rear + 1) % MAX_QUEUE \in 0 .. MAX_QUEUE - 1
    BY ONLY <2>1, <1>b, IndexNext, <2>2
  <2> QED BY <2>3, <2>4 DEF PutAdvance, RingInv, Slots
<1>1. QueueTypeOK'
  BY <1>0, TaskQueueAssumption, <1>c
     DEF PutAdvance, sems, QueueTypeOK, PutStages, GetStages, Threads
<1>2. MutualExclusion'
  BY <1>0 DEF PutAdvance, sems, QueueTypeOK, MutualExclusion, Critical
<1>3. SemaphoreAccounting'
  BY <1>0, Moves, StageGroups, TaskQueueAssumption
     DEF PutAdvance, sems, QueueTypeOK, SemaphoreAccounting, Change, Belongs
<1>4. RingInv'
  BY <1>c DEF PutAdvance, RingInv
<1>5. ContentsInv'
  <2>1. client_sockets[(front + count) % MAX_QUEUE] \in Sockets
    BY <1>0 DEF RingInv, ContentsInv, PutStages
  <2>2. \A i \in 0 .. count : client_sockets[(front + i) % MAX_QUEUE] \in Sockets
    BY <2>1, <1>b DEF ContentsInv
  <2> QED BY <1>0, <1>a, <1>b, <2>2 DEF PutAdvance, sems, ContentsInv, QueueTypeOK, PutStages, Critical
<1> QED BY <1>1, <1>2, <1>3, <1>4, <1>5

LEMMA PutUnlockInv ==
    ASSUME QueueInv, NEW t \in Putters, PutUnlock(t) PROVE QueueInv'
<1> USE DEF QueueInv
<1>0. /\ t \in Threads /\ pc[t] = "put_unlock" /\ pc' = [pc EXCEPT ![t] = "put_post"]
      /\ pc'[t] = "put_post" /\ \A u \in Threads \ {t} : pc'[u] = pc[u]
  BY DEF Threads, PutUnlock, Unlock, ring, sems, Goto, QueueTypeOK
<1>1. QueueTypeOK'
  BY <1>0, TaskQueueAssumption
     DEF PutUnlock, Unlock, ring, sems, QueueTypeOK, PutStages, GetStages, Threads
<1>2. MutualExclusion'
  BY <1>0, TaskQueueAssumption DEF PutUnlock, Unlock, QueueTypeOK, MutualExclusion, Critical, Threads
<1>3. SemaphoreAccounting'
  BY <1>0, Moves, StageGroups, TaskQueueAssumption
     DEF PutUnlock, Unlock, ring, sems, QueueTypeOK, SemaphoreAccounting, Change, Belongs
<1>4. RingInv'
  BY DEF PutUnlock, Unlock, ring, sems, RingInv
<1>5. ContentsInv'
  BY <1>0 DEF PutUnlock, Unlock, ring, sems, QueueTypeOK, ContentsInv, PutStages
<1> QED BY <1>1, <1>2, <1>3, <1>4, <1>5

LEMMA PutPostInv ==
    ASSUME QueueInv, NEW t \in Putters, PutPost(t) PROVE QueueInv'
<1> USE DEF QueueInv
<1>0. /\ t \in Threads /\ pc[t] = "put_post" /\ pc' = [pc EXCEPT ![t] = "idle"]
      /\ pc'[t] = "idle" /\ \A u \in Threads \ {t} : pc'[u] = pc[u]
  BY DEF Threads, PutPost, ring, sems, Goto, QueueTypeOK
<1>1. QueueTypeOK'
  BY <1>0, TaskQueueAssumption
     DEF PutPost, ring, sems, QueueTypeOK, PutStages, GetStages, Threads
<1>2. MutualExclusion'
  BY <1>0 DEF PutPost, ring, sems, QueueTypeOK, MutualExclusion, Critical
<1>3. SemaphoreAccounting'
  BY <1>0, Moves, StageGroups, TaskQueueAssumption
     DEF PutPost, ring, sems, QueueTypeOK, SemaphoreAccounting, Change, Belongs
<1>4. RingInv'
  BY DEF PutPost, ring, sems, RingInv
<1>5. ContentsInv'
  BY <1>0 DEF PutPost, ring, sems, QueueTypeOK, ContentsInv, PutStages
<1> QED BY <1>1, <1>2, <1>3, <1>4, <1>5

LEMMA CallDequeueInv ==
    ASSUME QueueInv, NEW t \in Getters, CallDequeue(t) PROVE QueueInv'
<1> USE DEF QueueInv
<1>0. /\ t \in Threads /\ pc[t] = "idle" /\ pc' = [pc EXCEPT ![t] = "get_wait"]
      /\ pc'[t] = "get_wait" /\ \A u \in Threads \ {t} : pc'[u] = pc[u]
  BY DEF Threads, CallDequeue, ring, sems, Goto, QueueTypeOK
<1>1. QueueTypeOK'
  BY <1>0, TaskQueueAssumption
     DEF CallDequeue, ring, sems, QueueTypeOK, PutStages, GetStages, Threads
<1>2. MutualExclusion'
  BY <1>0 DEF CallDequeue, ring, sems, QueueTypeOK, MutualExclusion, Critical
<1>3. SemaphoreAccounting'
  BY <1>0, Moves, StageGroups, TaskQueueAssumption
     DEF CallDequeue, ring, sems, QueueTypeOK, SemaphoreAccounting, Change, Belongs
<1>4. RingInv'
  BY DEF CallDequeue, ring, sems, RingInv
<1>5. ContentsInv'
  BY <1>0 DEF CallDequeue, ring, sems, QueueTypeOK, ContentsInv, PutStages
<1> QED BY <1>1, <1>2, <1>3, <1>4, <1>5

LEMMA GetWaitInv ==
    ASSUME QueueInv, NEW t \in Getters, GetWait(t) PROVE QueueInv'
<1> USE DEF QueueInv
<1>0. /\ t \in Threads /\ pc[t] = "get_wait" /\ pc' = [pc EXCEPT ![t] = "get_lock"]
      /\ pc'[t] = "get_lock" /\ \A u \in Threads \ {t} : pc'[u] = pc[u]
  BY DEF Threads, GetWait, ring, sems, Goto, QueueTypeOK
<1>1. QueueTypeOK'
  BY <1>0, TaskQueueAssumption
     DEF GetWait, ring, sems, QueueTypeOK, PutStages, GetStages, Threads
<1>2. MutualExclusion'
  BY <1>0 DEF GetWait, ring, sems, QueueTypeOK, MutualExclusion, Critical
<1>3. SemaphoreAccounting'
  BY <1>0, Moves, StageGroups, TaskQueueAssumption
     DEF GetWait, ring, sems, QueueTypeOK, SemaphoreAccounting, Change, Belongs
<1>4. RingInv'
  BY DEF GetWait, ring, sems, RingInv
<1>5. ContentsInv'
  BY <1>0 DEF GetWait, ring, sems, QueueTypeOK, ContentsInv, PutStages
<1> QED BY <1>1, <1>2, <1>3, <1>4, <1>5

LEMMA GetLockInv ==
    ASSUME QueueInv, NEW t \in Getters, GetLock(t) PROVE QueueInv'
<1> USE DEF QueueInv
<1>0. /\ t \in Threads /\ pc[t] = "get_lock" /\ pc' = [pc EXCEPT ![t] = "get_load"]
      /\ pc'[t] = "get_load" /\ \A u \in Threads \ {t} : pc'[u] = pc[u]
  BY DEF Threads, GetLock, Lock, ring, sems, Goto, QueueTypeOK
<1>1. QueueTypeOK'
  BY <1>0, TaskQueueAssumption
     DEF GetLock, Lock, ring, sems, QueueTypeOK, PutStages, GetStages, Threads
<1>2. MutualExclusion'
  BY <1>0, TaskQueueAssumption DEF GetLock, Lock, QueueTypeOK, MutualExclusion, Critical, Threads
<1>3. SemaphoreAccounting'
  BY <1>0, Moves, StageGroups, TaskQueueAssumption
     DEF GetLock, Lock, ring, sems, QueueTypeOK, SemaphoreAccounting, Change, Belongs
<1>4. RingInv'
  BY DEF GetLock, Lock, ring, sems, RingInv
<1>5. ContentsInv'
  BY <1>0 DEF GetLock, Lock, ring, sems, QueueTypeOK, ContentsInv, PutStages
<1> QED BY <1>1, <1>2, <1>3, <1>4, <1>5

LEMMA GetLoadInv ==
    ASSUME QueueInv, NEW t \in Getters, GetLoad(t) PROVE QueueInv'
<1> USE DEF QueueInv
<1>0. /\ t \in Threads /\ pc[t] = "get_load" /\ pc' = [pc EXCEPT ![t] = "get_advance"]
      /\ pc'[t] = "get_advance" /\ \A u \in Threads \ {t} : pc'[u] = pc[u]
  BY DEF Threads, GetLoad, ring, sems, Goto, QueueTypeOK
<1>a. \A u \in Threads : u # t => pc[u] \notin Critical
  BY <1>0 DEF MutualExclusion, Critical
<1>b. count \in 1 .. MAX_QUEUE
  BY <1>0, Room, StageGroups, TaskQueueAssumption DEF Belongs
<1>c. client_sockets[front] \in Sockets
  <2>1. (front + 0) % MAX_QUEUE = front
    BY ModSmall, TaskQueueAssumption DEF QueueTypeOK, Slots
  <2>2. 0 \in 0 .. count - 1 BY <1>b
  <2> QED BY <2>1, <2>2 DEF ContentsInv
<1>1. QueueTypeOK'
  BY <1>0, TaskQueueAssumption, <1>c
     DEF GetLoad, ring, sems, QueueTypeOK, PutStages, GetStages, Threads
<1>2. MutualExclusion'
  BY <1>0 DEF GetLoad, ring, sems, QueueTypeOK, MutualExclusion, Critical
<1>3. SemaphoreAccounting'
  BY <1>0, Moves, StageGroups, TaskQueueAssumption
     DEF GetLoad, ring, sems, QueueTypeOK, SemaphoreAccounting, Change, Belongs
<1>4. RingInv'
  BY DEF GetLoad, ring, sems, RingInv
<1>5. ContentsInv'
  BY <1>0, <1>a, <1>c DEF GetLoad, ring, sems, QueueTypeOK, ContentsInv, PutStages, Critical
<1> QED BY <1>1, <1>2, <1>3, <1>4, <1>5

LEMMA GetAdvanceInv ==
    ASSUME QueueInv, NEW t \in Getters, GetAdvance(t) PROVE QueueInv'
<1> USE DEF QueueInv
<1>0. /\ t \in Threads /\ pc[t] = "get_advance" /\ pc' = [pc EXCEPT ![t] = "get_unlock"]
      /\ pc'[t] = "get_unlock" /\ \A u \in Threads \ {t} : pc'[u] = pc[u]
  BY DEF Threads, GetAdvance, sems, Goto, QueueTypeOK
<1>a. \A u \in Threads : u # t => pc[u] \notin Critical
  BY <1>0 DEF MutualExclusion, Critical
<1>b. count \in 1 .. MAX_QUEUE
  BY <1>0, Room, StageGroups, TaskQueueAssumption DEF Belongs
<1>c. /\ front' \in Slots
      /\ \A i \in 0 .. MAX_QUEUE - 1 : (front' + i) % MAX_QUEUE = (front + (i + 1)) % MAX_QUEUE
  BY IndexNext, TaskQueueAssumption DEF GetAdvance, QueueTypeOK, Slots
<1>1. QueueTypeOK'
  BY <1>0, TaskQueueAssumption, <1>c
     DEF GetAdvance, sems, QueueTypeOK, PutStages, GetStages, Threads
<1>2. MutualExclusion'
  BY <1>0 DEF GetAdvance, sems, QueueTypeOK, MutualExclusion, Critical
<1>3. SemaphoreAccounting'
  BY <1>0, Moves, StageGroups, TaskQueueAssumption
     DEF GetAdvance, sems, QueueTypeOK, SemaphoreAccounting, Change, Belongs
<1>4. RingInv'
  <2>1. count - 1 \in 0 .. MAX_QUEUE - 1 /\ (count - 1) + 1 = count
    BY <1>b, TaskQueueAssumption
  <2>2. (front' + (count - 1)) % MAX_QUEUE = (front + count) % MAX_QUEUE
    BY <1>c, <2>1
  <2> QED BY <2>2 DEF GetAdvance, RingInv
<1>5. ContentsInv'
  <2>1. \A i \in 0 .. count - 2 :
          /\ i \in 0 .. MAX_QUEUE - 1 /\ i + 1 \in 0 .. count - 1
    BY <1>b, TaskQueueAssumption
  <2>2. \A i \in 0 .. count - 2 : client_sockets[(front' + i) % MAX_QUEUE] \in Sockets
    BY <2>1, <1>c DEF ContentsInv
  <2> QED BY <1>0, <1>a, <1>b, <2>2 DEF GetAdvance, sems, QueueTypeOK, ContentsInv, PutStages, Critical
<1> QED BY <1>1, <1>2, <1>3, <1>4, <1>5

LEMMA GetUnlockInv ==
    ASSUME QueueInv, NEW t \in Getters, GetUnlock(t) PROVE QueueInv'
<1> USE DEF QueueInv
<1>0. /\ t \in Threads /\ pc[t] = "get_unlock" /\ pc' = [pc EXCEPT ![t] = "get_post"]
      /\ pc'[t] = "get_post" /\ \A u \in Threads \ {t} : pc'[u] = pc[u]
  BY DEF Threads, GetUnlock, Unlock, ring, sems, Goto, QueueTypeOK
<1>1. QueueTypeOK'
  BY <1>0, TaskQueueAssumption
     DEF GetUnlock, Unlock, ring, sems, QueueTypeOK, PutStages, GetStages, Threads
<1>2. MutualExclusion'
  BY <1>0, TaskQueueAssumption DEF GetUnlock, Unlock, QueueTypeOK, MutualExclusion, Critical, Threads
<1>3. SemaphoreAccounting'
  BY <1>0, Moves, StageGroups, TaskQueueAssumption
     DEF GetUnlock, Unlock, ring, sems, QueueTypeOK, SemaphoreAccounting, Change, Belongs
<1>4. RingInv'
  BY DEF GetUnlock, Unlock, ring, sems, RingInv
<1>5. ContentsInv'
  BY <1>0 DEF GetUnlock, Unlock, ring, sems, QueueTypeOK, ContentsInv, PutStages
<1> QED BY <1>1, <1>2, <1>3, <1>4, <1>5

LEMMA GetPostInv ==
    ASSUME QueueInv, NEW t \in Getters, GetPost(t) PROVE QueueInv'
<1> USE DEF QueueInv
<1>0. /\ t \in Threads /\ pc[t] = "get_post" /\ pc' = [pc EXCEPT ![t] = "idle"]
      /\ pc'[t] = "idle" /\ \A u \in Threads \ {t} : pc'[u] = pc[u]
  BY DEF Threads, GetPost, ring, sems, Goto, QueueTypeOK
<1>1. QueueTypeOK'
  BY <1>0, TaskQueueAssumption
     DEF GetPost, ring, sems, QueueTypeOK, PutStages, GetStages, Threads
<1>2. MutualExclusion'
  BY <1>0 DEF GetPost, ring, sems, QueueTypeOK, MutualExclusion, Critical
<1>3. SemaphoreAccounting'
  BY <1>0, Moves, StageGroups, TaskQueueAssumption
     DEF GetPost, ring, sems, QueueTypeOK, SemaphoreAccounting, Change, Belongs
<1>4. RingInv'
  BY DEF GetPost, ring, sems, RingInv
<1>5. ContentsInv'
  BY <1>0 DEF GetPost, ring, sems, QueueTypeOK, ContentsInv, PutStages
<1> QED BY <1>1, <1>2, <1>3, <1>4, <1>5

-----------------------------------------------------------------------------
LEMMA QueueKept ==
    ASSUME QueueInv, [QueueNext]_queueVars PROVE QueueInv'
<1>1. ASSUME NEW t \in Putters, PutStep(t) PROVE QueueInv'
  BY <1>1, PutWaitInv, PutLockInv, PutStoreInv, PutAdvanceInv, PutUnlockInv, PutPostInv
     DEF PutStep
<1>2. ASSUME NEW t \in Putters, NEW fd \in Sockets, CallEnqueue(t, fd) PROVE QueueInv'
  BY <1>2, CallEnqueueInv
<1>3. ASSUME NEW t \in Getters, GetStep(t) PROVE QueueInv'
  BY <1>3, GetWaitInv, GetLockInv, GetLoadInv, GetAdvanceInv, GetUnlockInv, GetPostInv
     DEF GetStep
<1>4. ASSUME NEW t \in Getters, CallDequeue(t) PROVE QueueInv'
  BY <1>4, CallDequeueInv
<1>5. CASE UNCHANGED queueVars
  BY <1>5 DEF queueVars, ring, sems, QueueInv, QueueTypeOK, MutualExclusion, RingInv,
              ContentsInv, SemaphoreAccounting, Filling, Filled, Emptying, Emptied, At
<1> QED BY <1>1, <1>2, <1>3, <1>4, <1>5 DEF QueueNext

\* The queue invariant holds of every behaviour, whatever the number of
\* threads and the size of the ring.
THEOREM QueueInvariance == QueueSpec => []QueueInv
<1> QED BY InitInv, QueueKept, PTL DEF QueueSpec

\* No slot is overwritten while it waits or read twice (server.c:59, :69).
THEOREM Overrun == QueueSpec => []NoOverrun
<1>1. QueueInv => NoOverrun
  BY Room, StageGroups, TaskQueueAssumption DEF NoOverrun, Belongs
<1> QED BY QueueInvariance, <1>1, PTL

\* A caller of enqueue is held back only by a full ring, a caller of dequeue
\* only by an empty one (server.c:57, :67).
THEOREM Waits == QueueSpec => []WaitsOnlyForCause
<1>1. QueueInv => WaitsOnlyForCause
  <2> SUFFICES ASSUME QueueInv, Filling \cup Filled \cup Emptying \cup Emptied = {}
               PROVE  (sem_slots = 0 => count = MAX_QUEUE) /\ (sem_items = 0 => count = 0)
    BY DEF WaitsOnlyForCause
  <2>1. Filling = {} /\ Filled = {} /\ Emptying = {} /\ Emptied = {} OBVIOUS
  <2> QED BY <2>1, FS_EmptySet, TaskQueueAssumption
          DEF QueueInv, QueueTypeOK, SemaphoreAccounting
<1> QED BY QueueInvariance, <1>1, PTL
-----------------------------------------------------------------------------
\* The task queue implements the abstract FIFO queue: PutAdvance is Enqueue,
\* GetAdvance is Dequeue, and no other step inside a call is seen.

\* The abstract call of each thread, from its concrete one.
OpOf(p, fd) == [stage |-> StageOf(p),
                val |-> IF p \in {"put_unlock", "put_post", "get_advance"} THEN NULL ELSE fd]

LEMMA OpMove ==
    ASSUME QueueTypeOK, QueueTypeOK', NEW t \in Threads,
           \A u \in Threads \ {t} : pc'[u] = pc[u] /\ client_fd'[u] = client_fd[u]
    PROVE  /\ Op' = [Op EXCEPT ![t] = OpOf(pc'[t], client_fd'[t])]
           /\ Op[t] = OpOf(pc[t], client_fd[t])
BY DEF Op, OpOf, StageOf

LEMMA OpStutter ==
    ASSUME QueueTypeOK, QueueTypeOK', NEW t \in Threads,
           \A u \in Threads \ {t} : pc'[u] = pc[u] /\ client_fd'[u] = client_fd[u],
           OpOf(pc'[t], client_fd'[t]) = OpOf(pc[t], client_fd[t])
    PROVE  Op' = Op
<1>1. \A u \in Threads : OpOf(pc'[u], client_fd'[u]) = OpOf(pc[u], client_fd[u])
  OBVIOUS
<1>2. /\ Op = [u \in Threads |-> OpOf(pc[u], client_fd[u])]
      /\ Op' = [u \in Threads |-> OpOf(pc'[u], client_fd'[u])]
  BY DEF Op, OpOf
<1> QED BY <1>1, <1>2

\* Steps that leave the ring alone leave the abstract queue alone.
LEMMA WaitingStutter == ASSUME UNCHANGED ring PROVE Waiting' = Waiting
BY DEF ring, Waiting

LEMMA StoreHidden ==
    ASSUME QueueInv, NEW t \in Putters, PutStore(t) PROVE Waiting' = Waiting
<1>0. t \in Threads /\ pc[t] = "put_store" BY DEF PutStore, Goto, Threads
<1>1. count \in 0 .. MAX_QUEUE - 1
  BY <1>0, Room, StageGroups, TaskQueueAssumption DEF Belongs
<1>2. \A i \in 0 .. count - 1 : (front + i) % MAX_QUEUE \in Slots /\ (front + i) % MAX_QUEUE # rear
  BY <1>1, IndexNext, TaskQueueAssumption DEF QueueInv, RingInv, Slots, QueueTypeOK
<1>3. ASSUME NEW i \in 1 .. count
      PROVE  client_sockets'[(front + i - 1) % MAX_QUEUE] = client_sockets[(front + i - 1) % MAX_QUEUE]
  <2>1. i - 1 \in 0 .. count - 1 /\ front + (i - 1) = front + i - 1
    BY <1>1 DEF QueueInv, QueueTypeOK, Slots
  <2> QED BY <1>2, <2>1 DEF PutStore, QueueInv, QueueTypeOK
<1> QED BY <1>3 DEF Waiting, PutStore

\* The counter moves past the slot that holds the socket of the caller.
LEMMA AdvanceAppends ==
    ASSUME QueueInv, NEW t \in Putters, PutAdvance(t)
    PROVE  Waiting' = Append(Waiting, client_fd[t])
<1>0. t \in Threads /\ pc[t] = "put_advance" BY DEF PutAdvance, Goto, Threads
<1>1. count \in 0 .. MAX_QUEUE - 1
  BY <1>0, Room, StageGroups, TaskQueueAssumption DEF Belongs
<1>2. client_sockets[(front + (count + 1) - 1) % MAX_QUEUE] = client_fd[t]
  <2>1. front + (count + 1) - 1 = front + count
    BY <1>1 DEF QueueInv, QueueTypeOK, Slots
  <2> QED BY <2>1, <1>0 DEF QueueInv, RingInv, ContentsInv
<1>3. /\ Waiting' = [i \in 1 .. count + 1 |-> client_sockets[(front + i - 1) % MAX_QUEUE]]
      /\ Len(Waiting) = count
  BY <1>1 DEF PutAdvance, Waiting
<1>4. \A i \in 1 .. count : Waiting[i] = client_sockets[(front + i - 1) % MAX_QUEUE]
  BY DEF Waiting
<1>6. Waiting \in Seq(Sockets)
  <2>1. \A i \in 1 .. count : i - 1 \in 0 .. count - 1 /\ front + (i - 1) = front + i - 1
    BY <1>1 DEF QueueInv, QueueTypeOK, Slots
  <2>2. \A i \in 1 .. count : client_sockets[(front + i - 1) % MAX_QUEUE] \in Sockets
    BY <2>1 DEF QueueInv, ContentsInv
  <2> QED BY <1>1, <2>2 DEF Waiting
<1>5. Append(Waiting, client_fd[t])
        = [i \in 1 .. count + 1 |-> IF i = count + 1 THEN client_fd[t] ELSE Waiting[i]]
  BY <1>1, <1>3, <1>6
<1> QED BY <1>1, <1>2, <1>3, <1>4, <1>5

LEMMA AdvanceRemoves ==
    ASSUME QueueInv, NEW t \in Getters, GetAdvance(t)
    PROVE  Waiting # <<>> /\ client_fd[t] = Head(Waiting) /\ Waiting' = Tail(Waiting)
<1>0. t \in Threads /\ pc[t] = "get_advance" BY DEF GetAdvance, Goto, Threads
<1>1. count \in 1 .. MAX_QUEUE
  BY <1>0, Room, StageGroups, TaskQueueAssumption DEF Belongs
<1>2. front \in 0 .. MAX_QUEUE - 1 BY DEF QueueInv, QueueTypeOK, Slots
<1>3. Waiting # <<>> /\ client_fd[t] = Head(Waiting)
  <2>1. (front + 1 - 1) % MAX_QUEUE = front
    BY <1>2, ModSmall, TaskQueueAssumption
  <2>2. client_fd[t] = client_sockets[front] BY <1>0 DEF QueueInv, ContentsInv
  <2>3. Waiting[1] = client_sockets[front] BY <2>1, <1>1 DEF Waiting
  <2> QED BY <1>1, <2>2, <2>3 DEF Waiting
<1>4. \A i \in 1 .. count - 1 : (front' + i - 1) % MAX_QUEUE = (front + (i + 1) - 1) % MAX_QUEUE
  <2> SUFFICES ASSUME NEW i \in 1 .. count - 1
               PROVE  (front' + i - 1) % MAX_QUEUE = (front + (i + 1) - 1) % MAX_QUEUE
    OBVIOUS
  <2>1. i - 1 \in 0 .. MAX_QUEUE - 1 BY <1>1, TaskQueueAssumption
  <2>2. (((front + 1) % MAX_QUEUE) + (i - 1)) % MAX_QUEUE = (front + ((i - 1) + 1)) % MAX_QUEUE
    BY <2>1, <1>2, IndexNext, TaskQueueAssumption
  <2>3. (front + 1) % MAX_QUEUE \in Int BY <1>2, IndexNext, <2>1, TaskQueueAssumption
  <2>4. /\ ((front + 1) % MAX_QUEUE) + (i - 1) = ((front + 1) % MAX_QUEUE) + i - 1
        /\ front + ((i - 1) + 1) = front + (i + 1) - 1
    BY <2>3, <1>2
  <2> QED BY <2>2, <2>4 DEF GetAdvance
<1>5. Waiting' = [i \in 1 .. count - 1 |-> client_sockets[(front' + i - 1) % MAX_QUEUE]]
  BY DEF GetAdvance, Waiting
<1>6. Len(Waiting) = count /\ \A i \in 1 .. count - 1 :
        Waiting[i + 1] = client_sockets[(front + (i + 1) - 1) % MAX_QUEUE]
  BY <1>1 DEF Waiting
<1>7. Tail(Waiting) = [i \in 1 .. count - 1 |-> Waiting[i + 1]]
  BY <1>1, <1>6 DEF Waiting
<1> QED BY <1>3, <1>4, <1>5, <1>6, <1>7

LEMMA FifoStep ==
    ASSUME QueueInv, QueueInv', [QueueNext]_queueVars PROVE [Fifo!Next]_(Fifo!vars)
<1> USE DEF QueueInv
<1>a. \A t \in Getters : t \notin Putters BY TaskQueueAssumption
<1>b. Putters \subseteq Threads /\ Getters \subseteq Threads BY DEF Threads
<1>1. ASSUME NEW t \in Putters, NEW fd \in Sockets, CallEnqueue(t, fd) PROVE Fifo!Next
  <2>1. Waiting' = Waiting BY <1>1, WaitingStutter DEF CallEnqueue
  <2>2. /\ pc[t] = "idle" /\ pc'[t] = "put_wait" /\ client_fd'[t] = fd
        /\ \A u \in Threads \ {t} : pc'[u] = pc[u] /\ client_fd'[u] = client_fd[u]
    BY <1>1, <1>b DEF CallEnqueue, Goto, QueueTypeOK
  <2>3. Op' = [Op EXCEPT ![t] = OpOf("put_wait", fd)] /\ Op[t] = OpOf("idle", client_fd[t])
    BY <1>1, <1>b, <2>2, OpMove
  <2>4. /\ OpOf("put_wait", fd) = [stage |-> "enq", val |-> fd]
        /\ OpOf("idle", client_fd[t]) = [stage |-> "idle", val |-> client_fd[t]]
    BY DEF OpOf, StageOf
  <2>5. /\ Op[t] = [stage |-> "idle", val |-> client_fd[t]]
        /\ Op' = [Op EXCEPT ![t] = [stage |-> "enq", val |-> fd]]
    BY <2>3, <2>4
  <2>6. Fifo!InvokeEnqueue(t, fd) BY <2>1, <2>5 DEF Fifo!InvokeEnqueue
  <2> QED BY <2>6, <1>b DEF Fifo!Next
<1>2. ASSUME NEW t \in Getters, CallDequeue(t) PROVE Fifo!Next
  <2>1. Waiting' = Waiting BY <1>2, WaitingStutter DEF CallDequeue
  <2>2. /\ pc[t] = "idle" /\ pc'[t] = "get_wait" /\ client_fd'[t] = NULL
        /\ \A u \in Threads \ {t} : pc'[u] = pc[u] /\ client_fd'[u] = client_fd[u]
    BY <1>2, <1>b DEF CallDequeue, Goto, QueueTypeOK
  <2>3. Op' = [Op EXCEPT ![t] = OpOf("get_wait", NULL)] /\ Op[t] = OpOf("idle", client_fd[t])
    BY <1>2, <1>b, <2>2, OpMove
  <2>4. /\ OpOf("get_wait", NULL) = [stage |-> "deq", val |-> NULL]
        /\ OpOf("idle", client_fd[t]) = [stage |-> "idle", val |-> client_fd[t]]
    BY DEF OpOf, StageOf
  <2>5. /\ Op[t] = [stage |-> "idle", val |-> client_fd[t]]
        /\ Op' = [Op EXCEPT ![t] = [stage |-> "deq", val |-> NULL]]
    BY <2>3, <2>4
  <2>6. Fifo!InvokeDequeue(t) BY <2>1, <2>5 DEF Fifo!InvokeDequeue
  <2> QED BY <2>6, <1>b DEF Fifo!Next
<1>3. ASSUME NEW t \in Putters, PutStep(t) PROVE [Fifo!Next]_(Fifo!vars)
  <2>0. t \in Threads BY <1>b
  <2>1. CASE PutWait(t)
    <3>1. Waiting' = Waiting BY <2>1, WaitingStutter DEF PutWait, ring
    <3>2. /\ pc[t] = "put_wait" /\ pc'[t] = "put_lock" /\ client_fd'[t] = client_fd[t]
          /\ \A u \in Threads \ {t} : pc'[u] = pc[u] /\ client_fd'[u] = client_fd[u]
      BY <2>0, <2>1 DEF PutWait, Goto, QueueTypeOK
    <3>3. OpOf(pc'[t], client_fd'[t]) = OpOf(pc[t], client_fd[t])
      BY <3>2 DEF OpOf, StageOf
    <3>4. Op' = Op BY <2>0, <3>2, <3>3, OpStutter
    <3> QED BY <3>1, <3>4 DEF Fifo!vars
  <2>2. CASE PutLock(t)
    <3>1. Waiting' = Waiting BY <2>2, WaitingStutter DEF PutLock, Lock, ring
    <3>2. /\ pc[t] = "put_lock" /\ pc'[t] = "put_store" /\ client_fd'[t] = client_fd[t]
          /\ \A u \in Threads \ {t} : pc'[u] = pc[u] /\ client_fd'[u] = client_fd[u]
      BY <2>0, <2>2 DEF PutLock, Lock, Goto, QueueTypeOK
    <3>3. OpOf(pc'[t], client_fd'[t]) = OpOf(pc[t], client_fd[t])
      BY <3>2 DEF OpOf, StageOf
    <3>4. Op' = Op BY <2>0, <3>2, <3>3, OpStutter
    <3> QED BY <3>1, <3>4 DEF Fifo!vars
  <2>3. CASE PutStore(t)
    <3>1. Waiting' = Waiting BY <2>3, StoreHidden
    <3>2. /\ pc[t] = "put_store" /\ pc'[t] = "put_advance" /\ client_fd'[t] = client_fd[t]
          /\ \A u \in Threads \ {t} : pc'[u] = pc[u] /\ client_fd'[u] = client_fd[u]
      BY <2>0, <2>3 DEF PutStore, Goto, QueueTypeOK
    <3>3. OpOf(pc'[t], client_fd'[t]) = OpOf(pc[t], client_fd[t])
      BY <3>2 DEF OpOf, StageOf
    <3>4. Op' = Op BY <2>0, <3>2, <3>3, OpStutter
    <3> QED BY <3>1, <3>4 DEF Fifo!vars
  <2>4. CASE PutAdvance(t)
    <3>1. Waiting' = Append(Waiting, client_fd[t]) BY <2>4, AdvanceAppends
    <3>2. /\ pc[t] = "put_advance" /\ pc'[t] = "put_unlock" /\ client_fd'[t] = client_fd[t]
          /\ \A u \in Threads \ {t} : pc'[u] = pc[u] /\ client_fd'[u] = client_fd[u]
      BY <2>0, <2>4 DEF PutAdvance, Goto, QueueTypeOK
    <3>3. Op' = [Op EXCEPT ![t] = OpOf("put_unlock", client_fd[t])] /\ Op[t] = OpOf("put_advance", client_fd[t])
      BY <2>0, <3>2, OpMove
    <3>4. /\ OpOf("put_unlock", client_fd[t]) = [stage |-> "done", val |-> NULL]
          /\ OpOf("put_advance", client_fd[t]) = [stage |-> "enq", val |-> client_fd[t]]
      BY DEF OpOf, StageOf
    <3>5. /\ Op[t] = [stage |-> "enq", val |-> client_fd[t]]
          /\ Op' = [Op EXCEPT ![t] = [stage |-> "done", val |-> NULL]]
      BY <3>3, <3>4
    <3>6. Fifo!Enqueue(t) BY <3>1, <3>5 DEF Fifo!Enqueue
    <3> QED BY <3>6, <2>0 DEF Fifo!Next
  <2>5. CASE PutUnlock(t)
    <3>1. Waiting' = Waiting BY <2>5, WaitingStutter DEF PutUnlock, Unlock, ring
    <3>2. /\ pc[t] = "put_unlock" /\ pc'[t] = "put_post" /\ client_fd'[t] = client_fd[t]
          /\ \A u \in Threads \ {t} : pc'[u] = pc[u] /\ client_fd'[u] = client_fd[u]
      BY <2>0, <2>5 DEF PutUnlock, Unlock, Goto, QueueTypeOK
    <3>3. OpOf(pc'[t], client_fd'[t]) = OpOf(pc[t], client_fd[t])
      BY <3>2 DEF OpOf, StageOf
    <3>4. Op' = Op BY <2>0, <3>2, <3>3, OpStutter
    <3> QED BY <3>1, <3>4 DEF Fifo!vars
  <2>6. CASE PutPost(t)
    <3>1. Waiting' = Waiting BY <2>6, WaitingStutter DEF PutPost
    <3>2. /\ pc[t] = "put_post" /\ pc'[t] = "idle" /\ client_fd'[t] = NULL
          /\ \A u \in Threads \ {t} : pc'[u] = pc[u] /\ client_fd'[u] = client_fd[u]
      BY <2>0, <2>6 DEF PutPost, Goto, QueueTypeOK
    <3>3. Op' = [Op EXCEPT ![t] = OpOf("idle", NULL)] /\ Op[t] = OpOf("put_post", client_fd[t])
      BY <2>0, <3>2, OpMove
    <3>4. /\ OpOf("idle", NULL) = [stage |-> "idle", val |-> NULL]
          /\ OpOf("put_post", client_fd[t]) = [stage |-> "done", val |-> NULL]
      BY DEF OpOf, StageOf
    <3>5. /\ Op[t] = [stage |-> "done", val |-> NULL]
          /\ Op' = [Op EXCEPT ![t] = [stage |-> "idle", val |-> NULL]]
      BY <3>3, <3>4
    <3>6. Fifo!Return(t) BY <3>1, <3>5 DEF Fifo!Return
    <3> QED BY <3>6, <2>0 DEF Fifo!Next
  <2> QED BY <1>3, <2>1, <2>2, <2>3, <2>4, <2>5, <2>6 DEF PutStep
<1>4. ASSUME NEW t \in Getters, GetStep(t) PROVE [Fifo!Next]_(Fifo!vars)
  <2>0. t \in Threads BY <1>b
  <2>1. CASE GetWait(t)
    <3>1. Waiting' = Waiting BY <2>1, WaitingStutter DEF GetWait, ring
    <3>2. /\ pc[t] = "get_wait" /\ pc'[t] = "get_lock" /\ client_fd'[t] = client_fd[t]
          /\ \A u \in Threads \ {t} : pc'[u] = pc[u] /\ client_fd'[u] = client_fd[u]
      BY <2>0, <2>1 DEF GetWait, Goto, QueueTypeOK
    <3>3. OpOf(pc'[t], client_fd'[t]) = OpOf(pc[t], client_fd[t])
      BY <3>2 DEF OpOf, StageOf
    <3>4. Op' = Op BY <2>0, <3>2, <3>3, OpStutter
    <3> QED BY <3>1, <3>4 DEF Fifo!vars
  <2>2. CASE GetLock(t)
    <3>1. Waiting' = Waiting BY <2>2, WaitingStutter DEF GetLock, Lock, ring
    <3>2. /\ pc[t] = "get_lock" /\ pc'[t] = "get_load" /\ client_fd'[t] = client_fd[t]
          /\ \A u \in Threads \ {t} : pc'[u] = pc[u] /\ client_fd'[u] = client_fd[u]
      BY <2>0, <2>2 DEF GetLock, Lock, Goto, QueueTypeOK
    <3>3. OpOf(pc'[t], client_fd'[t]) = OpOf(pc[t], client_fd[t])
      BY <3>2 DEF OpOf, StageOf
    <3>4. Op' = Op BY <2>0, <3>2, <3>3, OpStutter
    <3> QED BY <3>1, <3>4 DEF Fifo!vars
  <2>3. CASE GetLoad(t)
    <3>1. Waiting' = Waiting BY <2>3, WaitingStutter DEF GetLoad
    <3>2. client_fd[t] = NULL BY <2>0, <2>3 DEF GetLoad, Goto, ContentsInv
    <3>3. /\ pc[t] = "get_load" /\ pc'[t] = "get_advance"
          /\ \A u \in Threads \ {t} : pc'[u] = pc[u] /\ client_fd'[u] = client_fd[u]
      BY <2>0, <2>3 DEF GetLoad, Goto, QueueTypeOK
    <3>4. OpOf(pc'[t], client_fd'[t]) = OpOf(pc[t], client_fd[t])
      BY <3>2, <3>3 DEF OpOf, StageOf
    <3>5. Op' = Op BY <2>0, <3>3, <3>4, OpStutter
    <3> QED BY <3>1, <3>5 DEF Fifo!vars
  <2>4. CASE GetAdvance(t)
    <3>1. Waiting # <<>> /\ client_fd[t] = Head(Waiting) /\ Waiting' = Tail(Waiting)
      BY <2>4, AdvanceRemoves
    <3>2. /\ pc[t] = "get_advance" /\ pc'[t] = "get_unlock" /\ client_fd'[t] = client_fd[t]
          /\ \A u \in Threads \ {t} : pc'[u] = pc[u] /\ client_fd'[u] = client_fd[u]
      BY <2>0, <2>4 DEF GetAdvance, Goto, QueueTypeOK
    <3>3. Op' = [Op EXCEPT ![t] = OpOf("get_unlock", client_fd[t])] /\ Op[t] = OpOf("get_advance", client_fd[t])
      BY <2>0, <3>2, OpMove
    <3>4. /\ OpOf("get_unlock", client_fd[t]) = [stage |-> "done", val |-> client_fd[t]]
          /\ OpOf("get_advance", client_fd[t]) = [stage |-> "deq", val |-> NULL]
      BY DEF OpOf, StageOf
    <3>5. /\ Op[t] = [stage |-> "deq", val |-> NULL]
          /\ Op' = [Op EXCEPT ![t] = [stage |-> "done", val |-> client_fd[t]]]
      BY <3>3, <3>4
    <3>6. Fifo!Dequeue(t) BY <3>1, <3>5 DEF Fifo!Dequeue
    <3> QED BY <3>6, <2>0 DEF Fifo!Next
  <2>5. CASE GetUnlock(t)
    <3>1. Waiting' = Waiting BY <2>5, WaitingStutter DEF GetUnlock, Unlock, ring
    <3>2. /\ pc[t] = "get_unlock" /\ pc'[t] = "get_post" /\ client_fd'[t] = client_fd[t]
          /\ \A u \in Threads \ {t} : pc'[u] = pc[u] /\ client_fd'[u] = client_fd[u]
      BY <2>0, <2>5 DEF GetUnlock, Unlock, Goto, QueueTypeOK
    <3>3. OpOf(pc'[t], client_fd'[t]) = OpOf(pc[t], client_fd[t])
      BY <3>2 DEF OpOf, StageOf
    <3>4. Op' = Op BY <2>0, <3>2, <3>3, OpStutter
    <3> QED BY <3>1, <3>4 DEF Fifo!vars
  <2>6. CASE GetPost(t)
    <3>1. Waiting' = Waiting BY <2>6, WaitingStutter DEF GetPost
    <3>2. /\ pc[t] = "get_post" /\ pc'[t] = "idle" /\ client_fd'[t] = client_fd[t]
          /\ \A u \in Threads \ {t} : pc'[u] = pc[u] /\ client_fd'[u] = client_fd[u]
      BY <2>0, <2>6 DEF GetPost, Goto, QueueTypeOK
    <3>3. Op' = [Op EXCEPT ![t] = OpOf("idle", client_fd[t])] /\ Op[t] = OpOf("get_post", client_fd[t])
      BY <2>0, <3>2, OpMove
    <3>4. /\ OpOf("idle", client_fd[t]) = [stage |-> "idle", val |-> client_fd[t]]
          /\ OpOf("get_post", client_fd[t]) = [stage |-> "done", val |-> client_fd[t]]
      BY DEF OpOf, StageOf
    <3>5. /\ Op[t] = [stage |-> "done", val |-> client_fd[t]]
          /\ Op' = [Op EXCEPT ![t] = [stage |-> "idle", val |-> client_fd[t]]]
      BY <3>3, <3>4
    <3>6. Fifo!Return(t) BY <3>1, <3>5 DEF Fifo!Return
    <3> QED BY <3>6, <2>0 DEF Fifo!Next
  <2> QED BY <1>4, <2>1, <2>2, <2>3, <2>4, <2>5, <2>6 DEF GetStep
<1>5. CASE UNCHANGED queueVars
  BY <1>5 DEF queueVars, ring, Fifo!vars, Waiting, Op
<1> QED BY <1>1, <1>2, <1>3, <1>4, <1>5 DEF QueueNext

\* Every interleaving of any number of threads calling enqueue and dequeue is
\* linearizable to a FIFO queue of sockets (server.c:56-75).
THEOREM Linearizability == QueueSpec => QueueLinearizable
<1>1. QueueInit => Fifo!Init
  BY DEF QueueInit, Fifo!Init, Waiting, Op, StageOf
<1> QED BY <1>1, FifoStep, QueueInvariance, PTL DEF QueueSpec, QueueLinearizable, Fifo!Spec

-----------------------------------------------------------------------------
(***************************************************************************)
(* The server.                                                             *)
(***************************************************************************)
K == INSTANCE Kernel_proofs WITH Fds <- Sockets, Texts <- {"400", "404", "200", "block"}

-----------------------------------------------------------------------------
(***************************************************************************)
(* The invariant: the one of the queue, every variable in its domain,      *)
(* every connection in one place, and then who has which descriptor.       *)
(***************************************************************************)
Tasks == {"unborn", "missing", "dequeue", "read", "open", "400", "404", "200", "body", "close"}

Typing ==
    /\ K!Typed
    /\ status \in {"ready", "killed"}
    /\ task \in [Workers -> Tasks]
    /\ open_fd \in [Workers -> Sockets \cup {NULL}]
    /\ sent \in [Workers -> 0 .. Chunks]
    /\ Len(backlog) <= BACKLOG

\* A worker is in dequeue only between its call and its first read.
Phases == \A w \in Workers : pc[w] # "idle" => task[w] = "read"

\* Thread t has a connection that is not in the queue: main before the queue
\* has it, a worker from the moment the queue has it no more.
Carries(t) ==
    \/ pc[t] \in {"put_wait", "put_lock", "put_store", "put_advance", "get_unlock", "get_post"}
    \/ t \in Workers /\ pc[t] = "idle" /\ task[t] \notin {"unborn", "missing", "dequeue"}

HandsHold ==
    /\ \A t \in Threads : Carries(t) => client_fd[t] \in Sockets /\ table[client_fd[t]] \in Clients
    /\ \A t, u \in Threads : Carries(t) /\ Carries(u) /\ client_fd[t] = client_fd[u] => t = u

InRing(f) == \E i \in 1 .. count : Waiting[i] = f

RingHolds ==
    /\ \A i \in 1 .. count : Waiting[i] \in Sockets /\ table[Waiting[i]] \in Clients
    /\ \A i, j \in 1 .. count : Waiting[i] = Waiting[j] => i = j
    /\ \A t \in Threads : Carries(t) => ~InRing(client_fd[t])

HeldBySomeone ==
    \A f \in Sockets : table[f] \in Clients =>
        InRing(f) \/ \E t \in Threads : Carries(t) /\ client_fd[t] = f

FilesOpen ==
    /\ \A w \in Workers :
          IF task[w] \in {"200", "body"} THEN open_fd[w] \in Sockets /\ table[open_fd[w]] = "file"
                                         ELSE open_fd[w] = NULL
    /\ \A w \in Workers : task[w] # "body" => sent[w] = 0
    /\ \A v, w \in Workers : open_fd[v] = open_fd[w] /\ open_fd[v] # NULL => v = w
    /\ \A f \in Sockets : table[f] = "file" => \E w \in Workers : open_fd[w] = f

Ownership == HandsHold /\ RingHolds /\ HeldBySomeone /\ FilesOpen

IInv == QueueInv /\ Typing /\ Phases /\ K!ConnectionInv /\ Ownership

-----------------------------------------------------------------------------
LEMMA Constants ==
    /\ Threads = {Main} \cup Workers /\ Main \notin Workers /\ Putters = {Main} /\ Getters = Workers
    /\ NULL \notin Threads /\ NULL \notin Sockets /\ NULL \notin Clients /\ NULL # "file"
    /\ "file" \notin Clients /\ Sockets \subseteq Nat
    /\ K!Distinct
BY ThreadPoolAssumption, TaskQueueAssumption DEF Threads, Workers, K!Distinct

\* The server does with the queue what QueueSpec says, and nothing else.
LEMMA IsQueueStep ==
    ASSUME [PoolNext]_poolVars
    PROVE  [QueueNext]_queueVars
<1> USE DEF workerVars, kernelVars
<1>1. ASSUME MainStep  PROVE [QueueNext]_queueVars
  <2>1. CASE AcceptClient
    BY <2>1, Constants DEF AcceptClient, QueueNext
  <2>2. CASE PutStep(Main)
    BY <2>2, Constants DEF QueueNext
  <2> QED BY <1>1, <2>1, <2>2 DEF MainStep, StartWorker, StartFails
<1>2. ASSUME NEW w \in Workers, WorkerStep(w)  PROVE [QueueNext]_queueVars
  <2>1. CASE Dequeue(w)
    BY <2>1, Constants DEF Dequeue, QueueNext
  <2>2. CASE GetStep(w)
    BY <2>2, Constants DEF QueueNext
  <2> QED BY <1>2, <2>1, <2>2 DEF WorkerStep, Read, OpenFails, Open, Respond, SendBlock, Killed,
                                  CloseFile, CloseClient
<1> QED BY <1>1, <1>2 DEF PoolNext, Run, poolVars

\* Each step of the server is one call of the kernel at most.
LEMMA IsKernelStep ==
    ASSUME QueueInv, Typing, Phases, Ownership, [PoolNext]_poolVars
    PROVE  K!KernelStep
<1> USE DEF K!KernelStep
<1>1. CASE UNCHANGED kernelVars
  BY <1>1 DEF kernelVars
<1>2. ASSUME MainStep  PROVE K!KernelStep
  <2>1. CASE AcceptClient
    BY <2>1 DEF AcceptClient, Accept, IsNextFd, Free, K!Accept, K!IsNextFd, K!Free
  <2> QED BY <1>1, <1>2, <2>1 DEF MainStep, StartWorker, StartFails
<1>3. ASSUME NEW w \in Workers, WorkerStep(w)  PROVE K!KernelStep
  <2>1. ASSUME task[w] \in {"400", "404", "200", "body", "close"}  PROVE client_fd[w] \in Sockets
    BY <2>1, Constants DEF Phases, Ownership, HandsHold, Carries
  <2>2. ASSUME NEW text \in {"400", "404", "200"}, NEW next, Respond(w, text, next)
        PROVE  K!KernelStep
    <3>1. client_fd[w] \in Sockets
      BY <2>1, <2>2 DEF Respond, TaskGoto
    <3>2. K!Write(table[client_fd[w]], text)
      BY <2>2 DEF Respond, Client, Write, Writable, K!Write, K!Writable
    <3>3. text \in {"400", "404", "200", "block"}
      OBVIOUS
    <3> QED BY ONLY <3>1, <3>2, <3>3 DEF K!KernelStep
  <2>3. CASE Open(w)
    BY <2>3 DEF Open, OpenFile, IsNextFd, Free, K!OpenFile, K!IsNextFd, K!Free
  <2>4. CASE SendBlock(w)
    <3>1. client_fd[w] \in Sockets
      BY <2>1, <2>4 DEF SendBlock
    <3>2. K!Write(table[client_fd[w]], "block")
      BY <2>4 DEF SendBlock, Client, Write, Writable, K!Write, K!Writable
    <3>3. "block" \in {"400", "404", "200", "block"}
      OBVIOUS
    <3> QED BY ONLY <3>1, <3>2, <3>3 DEF K!KernelStep
  <2>5. CASE CloseFile(w)
    <3>1. open_fd[w] \in Sockets
      BY <2>5 DEF CloseFile, TaskGoto, Ownership, FilesOpen
    <3> QED BY <2>5, <3>1 DEF CloseFile, Close, K!Close
  <2>6. CASE CloseClient(w)
    <3>1. client_fd[w] \in Sockets
      BY <2>1, <2>6 DEF CloseClient, TaskGoto
    <3> QED BY <2>6, <3>1 DEF CloseClient, Close, K!Close
  <2> QED BY <1>1, <1>3, <2>2, <2>3, <2>4, <2>5, <2>6 DEF WorkerStep, Dequeue, Read, OpenFails, Killed
<1>4. ASSUME NEW c \in Clients, ClientStep(c)  PROVE K!KernelStep
  BY <1>4 DEF ClientStep, Connect, Send, HangUp, K!ClientStep, K!Connect, K!Send, K!HangUp
<1> QED BY <1>1, <1>2, <1>3, <1>4 DEF PoolNext, Run, poolVars

-----------------------------------------------------------------------------
\* Every step keeps every variable in its domain, and a worker that is in
\* dequeue at its read.
LEMMA TypingKept ==
    ASSUME QueueInv, Typing, Phases, Ownership, [PoolNext]_poolVars
    PROVE  Typing'
<1>1. K!Typed'
  BY IsKernelStep, K!KernelTyped, Constants DEF Typing
<1>2. ASSUME MainStep  PROVE Typing'
  <2> USE DEF Typing, Tasks, workerVars, kernelVars
  <2>1. ASSUME NEW w \in Workers, StartWorker(w) \/ StartFails(w)  PROVE Typing'
    BY <1>1, <2>1 DEF StartWorker, StartFails
  <2>2. CASE AcceptClient
    <3>1. Len(backlog') <= BACKLOG
      BY <2>2, ThreadPoolAssumption DEF AcceptClient, Accept, K!Typed
    <3> QED BY <1>1, <2>2, <3>1 DEF AcceptClient
  <2>3. CASE PutStep(Main) /\ UNCHANGED <<status, workerVars, kernelVars>>
    BY <1>1, <2>3
  <2> QED BY <1>2, <2>1, <2>2, <2>3 DEF MainStep
<1>3. ASSUME NEW w \in Workers, WorkerStep(w)  PROVE Typing'
  <2> USE DEF Typing, Tasks, workerVars, kernelVars, TaskGoto
  <2>1. CASE Dequeue(w)
    BY <1>1, <2>1 DEF Dequeue
  <2>2. CASE GetStep(w) /\ UNCHANGED <<status, workerVars, kernelVars>>
    BY <1>1, <2>2
  <2>3. CASE Read(w)
    BY <1>1, <2>3 DEF Read
  <2>4. CASE OpenFails(w)
    BY <1>1, <2>4 DEF OpenFails
  <2>5. CASE Open(w)
    BY <1>1, <2>5 DEF Open, OpenFile
  <2>6. ASSUME NEW text, NEW next \in {"close", "body"}, Respond(w, text, next)  PROVE Typing'
    BY <1>1, <2>6 DEF Respond, Write
  <2>7. CASE SendBlock(w)
    BY <1>1, <2>7, ThreadPoolAssumption DEF SendBlock, Write
  <2>8. CASE Killed(w)
    BY <1>1, <2>8 DEF Killed
  <2>9. CASE CloseFile(w)
    BY <1>1, <2>9, ThreadPoolAssumption DEF CloseFile, Close
  <2>10. CASE CloseClient(w)
    BY <1>1, <2>10 DEF CloseClient, Close
  <2> QED BY <1>3, <2>1, <2>2, <2>3, <2>4, <2>5, <2>6, <2>7, <2>8, <2>9, <2>10 DEF WorkerStep
<1>4. ASSUME NEW c \in Clients, ClientStep(c), UNCHANGED <<queueVars, status, workerVars>>
      PROVE  Typing'
  <2>1. Len(backlog') <= BACKLOG
    BY <1>4, ThreadPoolAssumption DEF Typing, K!Typed, ClientStep, Connect, Send, HangUp
  <2> QED BY <1>1, <1>4, <2>1 DEF Typing, workerVars
<1>5. ASSUME UNCHANGED poolVars  PROVE Typing'
  BY <1>1, <1>5 DEF Typing, poolVars, workerVars, kernelVars
<1> QED BY <1>2, <1>3, <1>4, <1>5 DEF PoolNext, Run

LEMMA PhasesKept ==
    ASSUME QueueInv, Typing, Phases, [PoolNext]_poolVars
    PROVE  Phases'
<1> USE Constants DEF Phases, Typing, QueueInv, QueueTypeOK, workerVars
<1>1. ASSUME NEW w \in Workers, StartWorker(w) \/ StartFails(w)  PROVE Phases'
  BY <1>1 DEF StartWorker, StartFails, queueVars
<1>2. ASSUME UNCHANGED task, \A w \in Workers : pc'[w] # "idle" => pc[w] # "idle"  PROVE Phases'
  BY <1>2
<1>3. ASSUME NEW f, CallEnqueue(Main, f)  PROVE \A w \in Workers : pc'[w] = pc[w]
  BY <1>3 DEF CallEnqueue, Goto
<1>4. ASSUME PutStep(Main)  PROVE \A w \in Workers : pc'[w] = pc[w]
  BY <1>4 DEF PutStep, PutWait, PutLock, PutStore, PutAdvance, PutUnlock, PutPost, Lock, Unlock, Goto
<1>5. ASSUME MainStep  PROVE Phases'
  BY <1>1, <1>2, <1>3, <1>4, <1>5 DEF MainStep, AcceptClient
<1>6. ASSUME NEW w \in Workers, Dequeue(w)  PROVE Phases'
  BY <1>6 DEF Dequeue, CallDequeue, Goto, TaskGoto
<1>7. ASSUME NEW w \in Workers, GetStep(w)
      PROVE  \A v \in Workers : pc'[v] # "idle" => pc[v] # "idle"
  BY <1>7 DEF GetStep, GetWait, GetLock, GetLoad, GetAdvance, GetUnlock, GetPost, Lock, Unlock, Goto
<1>8. ASSUME NEW w \in Workers, task[w] # "read" \/ pc[w] = "idle", UNCHANGED queueVars,
             \A v \in Workers \ {w} : task'[v] = task[v]
      PROVE  Phases'
  BY <1>8 DEF queueVars
<1>9. ASSUME NEW w \in Workers, WorkerStep(w)  PROVE Phases'
  <2>1. CASE GetStep(w) /\ UNCHANGED <<status, workerVars, kernelVars>>
    BY <1>2, <1>7, <2>1
  <2> QED BY <1>6, <1>8, <1>9, <2>1 DEF WorkerStep, Read, OpenFails, Open, Respond, SendBlock, Killed,
                                  CloseFile, CloseClient, TaskGoto
<1>10. ASSUME UNCHANGED <<queueVars, workerVars>>  PROVE Phases'
  BY <1>10 DEF queueVars
<1> QED BY <1>5, <1>9, <1>10 DEF PoolNext, Run, poolVars

-----------------------------------------------------------------------------
(***************************************************************************)
(* Ownership.  A connection goes from main through the queue to one worker *)
(* and is closed there; a number is given out again only when it was       *)
(* closed.                                                                 *)
(***************************************************************************)
Held == HandsHold /\ RingHolds /\ HeldBySomeone

\* A step that moves no connection: who carries one goes on with it, and the
\* queue holds what it held.
LEMMA NothingMoves ==
    ASSUME Held, Waiting' = Waiting, count' = count,
           \A t \in Threads : (Carries(t))' <=> Carries(t),
           \A t \in Threads : Carries(t) => client_fd'[t] = client_fd[t],
           \A f \in Sockets : table'[f] \in Clients <=> table[f] \in Clients
    PROVE  Held'
<1>1. \A f : (InRing(f))' <=> InRing(f)
  BY DEF InRing
<1>2. HandsHold'
  BY DEF Held, HandsHold
<1>3. RingHolds'
  BY <1>1 DEF Held, RingHolds
<1>4. HeldBySomeone'
  BY <1>1 DEF Held, HeldBySomeone
<1> QED BY <1>2, <1>3, <1>4 DEF Held

\* A step at which each thread keeps its place and its socket.
LEMMA NobodyMoves ==
    ASSUME Held, UNCHANGED queueVars,
           \A w \in Workers : task'[w] \in {"unborn", "missing", "dequeue"}
                                <=> task[w] \in {"unborn", "missing", "dequeue"},
           \A f \in Sockets : table'[f] \in Clients <=> table[f] \in Clients
    PROVE  Held'
<1>1. Waiting' = Waiting /\ count' = count
  BY WaitingStutter DEF queueVars, ring
<1>2. \A t \in Threads : ((Carries(t))' <=> Carries(t)) /\ client_fd'[t] = client_fd[t]
  BY DEF Carries, queueVars
<1> QED BY <1>1, <1>2, NothingMoves

\* The same for the files.
LEMMA FilesStay ==
    ASSUME FilesOpen, UNCHANGED <<open_fd, sent>>,
           \A w \in Workers : task'[w] \in {"200", "body"} <=> task[w] \in {"200", "body"},
           \A w \in Workers : task[w] = "body" => task'[w] = "body",
           \A f \in Sockets : table'[f] = "file" <=> table[f] = "file"
    PROVE  FilesOpen'
BY DEF FilesOpen

\* What a step of one thread in the queue leaves alone.
LEMMA RingContents ==
    ASSUME QueueInv
    PROVE  /\ count \in 0 .. MAX_QUEUE /\ MAX_QUEUE \in Nat
           /\ Waiting \in Seq(Sockets) /\ Len(Waiting) = count
<1>1. count \in 0 .. MAX_QUEUE /\ MAX_QUEUE \in Nat
  BY Room, TaskQueueAssumption
<1>2. \A i \in 1 .. count : i - 1 \in 0 .. count - 1 /\ front + (i - 1) = front + i - 1
  BY <1>1 DEF QueueInv, QueueTypeOK, Slots
<1>3. \A i \in 1 .. count : client_sockets[(front + i - 1) % MAX_QUEUE] \in Sockets
  BY <1>2 DEF QueueInv, ContentsInv
<1> QED BY <1>1, <1>3 DEF Waiting

\* enqueue moves the socket of main to the end of the queue.
LEMMA PutKeepsHeld ==
    ASSUME QueueInv, Held, PutStep(Main), UNCHANGED <<task, table>>
    PROVE  Held'
<1> USE Constants DEF QueueInv, QueueTypeOK
<1>1. ASSUME NEW from \in PutStages, NEW to \in PutStages \cup {"idle"}, Goto(Main, from, to)
      PROVE  /\ pc[Main] = from /\ pc'[Main] = to
             /\ \A t \in Threads \ {Main} : pc'[t] = pc[t]
             /\ \A t \in Threads \ {Main} : (Carries(t))' <=> Carries(t)
             /\ Carries(Main) <=> from \in {"put_wait", "put_lock", "put_store", "put_advance"}
             /\ (Carries(Main))' <=> to \in {"put_wait", "put_lock", "put_store", "put_advance"}
  BY <1>1 DEF Goto, Carries, PutStages
<1>2. CASE PutWait(Main)
  <2>1. UNCHANGED <<ring, client_fd>> /\ Goto(Main, "put_wait", "put_lock")
    BY <1>2 DEF PutWait
  <2> QED BY <1>1, <2>1, NothingMoves, WaitingStutter DEF ring, PutStages
<1>3. CASE PutLock(Main)
  <2>1. UNCHANGED <<ring, client_fd>> /\ Goto(Main, "put_lock", "put_store")
    BY <1>3 DEF PutLock, Lock
  <2> QED BY <1>1, <2>1, NothingMoves, WaitingStutter DEF ring, PutStages
<1>4. CASE PutStore(Main)
  <2>1. Waiting' = Waiting /\ UNCHANGED <<count, client_fd>> /\ Goto(Main, "put_store", "put_advance")
    BY <1>4, StoreHidden DEF PutStore
  <2> QED BY <1>1, <2>1, NothingMoves DEF PutStages
<1>5. CASE PutAdvance(Main)
  <2> DEFINE f == client_fd[Main]
  <2>1. Waiting' = Append(Waiting, f) /\ UNCHANGED client_fd /\ count' = count + 1
    BY <1>5, AdvanceAppends DEF PutAdvance
  <2>2. /\ Carries(Main) /\ ~(Carries(Main))'
        /\ \A t \in Threads \ {Main} : (Carries(t))' <=> Carries(t)
    BY <1>1, <1>5 DEF PutAdvance, PutStages
  <2>3. /\ \A i \in 1 .. count : Waiting'[i] = Waiting[i]
        /\ Waiting'[count + 1] = f /\ 1 .. count' = (1 .. count) \cup {count + 1} /\ count \in Nat
    BY <2>1, RingContents
  <2>4. \A g : (InRing(g))' <=> InRing(g) \/ g = f
    BY <2>3 DEF InRing
  <2>5. HandsHold'
    BY <2>1, <2>2 DEF Held, HandsHold
  <2>6. RingHolds'
    <3>1. ~InRing(f) /\ f \in Sockets /\ table[f] \in Clients
      BY <2>2 DEF Held, HandsHold, RingHolds
    <3>2. \A i, j \in 1 .. count' : Waiting'[i] = Waiting'[j] => i = j
      BY <2>3, <3>1 DEF Held, RingHolds, InRing
    <3>3. \A t \in Threads : (Carries(t))' => ~(InRing(client_fd[t]))'
      <4> SUFFICES ASSUME NEW t \in Threads, (Carries(t))'  PROVE ~(InRing(client_fd[t]))'
        OBVIOUS
      <4>1. Carries(t) /\ t # Main /\ client_fd'[t] = client_fd[t]
        BY <2>1, <2>2
      <4>2. ~InRing(client_fd[t]) /\ client_fd[t] # f
        BY <2>2, <4>1 DEF Held, HandsHold, RingHolds
      <4> QED BY <2>4, <4>1, <4>2 DEF InRing
    <3> QED BY <2>1, <2>3, <3>1, <3>2, <3>3 DEF Held, RingHolds
  <2>7. HeldBySomeone'
    BY <2>1, <2>2, <2>4 DEF Held, HeldBySomeone
  <2> QED BY <2>5, <2>6, <2>7 DEF Held
<1>6. CASE PutUnlock(Main)
  <2>1. UNCHANGED <<ring, client_fd>> /\ Goto(Main, "put_unlock", "put_post")
    BY <1>6 DEF PutUnlock, Unlock
  <2> QED BY <1>1, <2>1, NothingMoves, WaitingStutter DEF ring, PutStages
<1>7. CASE PutPost(Main)
  <2>1. UNCHANGED ring /\ Goto(Main, "put_post", "idle")
        /\ \A t \in Threads \ {Main} : client_fd'[t] = client_fd[t]
    BY <1>7 DEF PutPost
  <2> QED BY <1>1, <2>1, NothingMoves, WaitingStutter DEF ring, PutStages
<1> QED BY <1>2, <1>3, <1>4, <1>5, <1>6, <1>7 DEF PutStep

\* dequeue moves the socket at the head of the queue to the worker.
LEMMA GetKeepsHeld ==
    ASSUME QueueInv, Phases, Held, NEW w \in Workers, GetStep(w), UNCHANGED <<task, table>>
    PROVE  Held'
<1> USE Constants DEF QueueInv, QueueTypeOK
<1>1. ASSUME NEW from \in GetStages, NEW to \in GetStages \cup {"idle"}, Goto(w, from, to)
      PROVE  /\ pc[w] = from /\ pc'[w] = to /\ task[w] = "read"
             /\ \A t \in Threads \ {w} : pc'[t] = pc[t]
             /\ \A t \in Threads \ {w} : (Carries(t))' <=> Carries(t)
             /\ Carries(w) <=> from \in {"get_unlock", "get_post"}
             /\ (Carries(w))' <=> to \in {"get_unlock", "get_post", "idle"}
  BY <1>1 DEF Goto, Carries, GetStages, Phases
<1>2. CASE GetWait(w)
  <2>1. UNCHANGED <<ring, client_fd>> /\ Goto(w, "get_wait", "get_lock")
    BY <1>2 DEF GetWait
  <2> QED BY <1>1, <2>1, NothingMoves, WaitingStutter DEF ring, GetStages
<1>3. CASE GetLock(w)
  <2>1. UNCHANGED <<ring, client_fd>> /\ Goto(w, "get_lock", "get_load")
    BY <1>3 DEF GetLock, Lock
  <2> QED BY <1>1, <2>1, NothingMoves, WaitingStutter DEF ring, GetStages
<1>4. CASE GetLoad(w)
  <2>1. UNCHANGED ring /\ Goto(w, "get_load", "get_advance")
        /\ \A t \in Threads \ {w} : client_fd'[t] = client_fd[t]
    BY <1>4 DEF GetLoad
  <2> QED BY <1>1, <2>1, NothingMoves, WaitingStutter DEF ring, GetStages
<1>5. CASE GetAdvance(w)
  <2> DEFINE f == client_fd[w]
  <2>1. Waiting # <<>> /\ f = Head(Waiting) /\ Waiting' = Tail(Waiting)
        /\ UNCHANGED client_fd /\ count' = count - 1
    BY <1>5, AdvanceRemoves DEF GetAdvance
  <2>2. /\ ~Carries(w) /\ (Carries(w))'
        /\ \A t \in Threads \ {w} : (Carries(t))' <=> Carries(t)
    BY <1>1, <1>5 DEF GetAdvance, GetStages
  <2>3. /\ \A i \in 1 .. count' : i + 1 \in 1 .. count /\ Waiting'[i] = Waiting[i + 1]
        /\ 1 \in 1 .. count /\ Waiting[1] = f /\ count \in Nat
        /\ \A i \in 1 .. count : i # 1 => i - 1 \in 1 .. count' /\ Waiting'[i - 1] = Waiting[i]
    BY <2>1, RingContents
  <2>4. /\ f \in Sockets /\ table[f] \in Clients /\ InRing(f)
        /\ \A i \in 1 .. count : i # 1 => Waiting[i] # f
    BY <2>3 DEF Held, RingHolds, InRing
  <2>5. \A g : (InRing(g))' <=> InRing(g) /\ g # f
    BY <2>3, <2>4 DEF InRing
  <2>6. HandsHold'
    BY <2>1, <2>2, <2>4 DEF Held, HandsHold, RingHolds
  <2>7. RingHolds'
    <3>1. \A i \in 1 .. count' : Waiting'[i] \in Sockets /\ table[Waiting'[i]] \in Clients
      BY <2>3 DEF Held, RingHolds
    <3>2. \A i, j \in 1 .. count' : Waiting'[i] = Waiting'[j] => i = j
      BY <2>3 DEF Held, RingHolds
    <3>3. \A t \in Threads : (Carries(t))' => ~(InRing(client_fd[t]))'
      <4> SUFFICES ASSUME NEW t \in Threads, (Carries(t))'  PROVE ~(InRing(client_fd[t]))'
        OBVIOUS
      <4>1. client_fd'[t] = client_fd[t] /\ (t # w => Carries(t))
        BY <2>1, <2>2
      <4>2. InRing(client_fd[t]) => t = w
        BY <4>1 DEF Held, RingHolds
      <4> QED BY <2>5, <4>1, <4>2 DEF InRing
    <3> QED BY <2>1, <3>1, <3>2, <3>3 DEF RingHolds
  <2>8. HeldBySomeone'
    BY <2>1, <2>2, <2>5 DEF Held, HeldBySomeone
  <2> QED BY <2>6, <2>7, <2>8 DEF Held
<1>6. CASE GetUnlock(w)
  <2>1. UNCHANGED <<ring, client_fd>> /\ Goto(w, "get_unlock", "get_post")
    BY <1>6 DEF GetUnlock, Unlock
  <2> QED BY <1>1, <2>1, NothingMoves, WaitingStutter DEF ring, GetStages
<1>7. CASE GetPost(w)
  <2>1. UNCHANGED <<ring, client_fd>> /\ Goto(w, "get_post", "idle")
    BY <1>7 DEF GetPost
  <2> QED BY <1>1, <2>1, NothingMoves, WaitingStutter DEF ring, GetStages
<1> QED BY <1>2, <1>3, <1>4, <1>5, <1>6, <1>7 DEF GetStep

\* main takes a connection.
LEMMA AcceptKeepsHeld ==
    ASSUME QueueInv, Typing, Held, NEW f \in Sockets, Accept(f), CallEnqueue(Main, f), UNCHANGED task
    PROVE  Held' /\ ~Carries(Main)
<1> USE Constants DEF QueueInv, QueueTypeOK
<1>1. table[f] = NULL /\ Head(backlog) \in Clients /\ table' = [table EXCEPT ![f] = Head(backlog)]
  BY DEF Accept, IsNextFd, Free, Typing, K!Typed
<1>2. Waiting' = Waiting /\ count' = count
  BY WaitingStutter DEF CallEnqueue, ring
<1>3. /\ ~Carries(Main) /\ (Carries(Main))' /\ client_fd'[Main] = f
      /\ \A t \in Threads \ {Main} : ((Carries(t))' <=> Carries(t)) /\ client_fd'[t] = client_fd[t]
  BY DEF CallEnqueue, Goto, Carries
<1>4. \A g : (InRing(g))' <=> InRing(g)
  BY <1>2 DEF InRing
<1>5. \A t \in Threads : Carries(t) => client_fd[t] # f
  BY <1>1 DEF Held, HandsHold
<1>6. ~InRing(f)
  BY <1>1 DEF Held, RingHolds, InRing
<1>7. HandsHold'
  BY <1>1, <1>3, <1>5 DEF Held, HandsHold, Typing, K!Typed
<1>8. RingHolds'
  BY <1>1, <1>2, <1>3, <1>4, <1>6 DEF Held, RingHolds, Typing, K!Typed, InRing
<1>9. HeldBySomeone'
  <2> SUFFICES ASSUME NEW g \in Sockets, table'[g] \in Clients
               PROVE  (InRing(g))' \/ \E t \in Threads : (Carries(t))' /\ client_fd'[t] = g
    BY DEF HeldBySomeone
  <2>1. CASE g = f
    BY <1>3, <2>1
  <2>2. CASE g # f
    <3>1. InRing(g) \/ \E t \in Threads : Carries(t) /\ client_fd[t] = g
      BY <1>1, <2>2 DEF Held, HeldBySomeone, Typing, K!Typed
    <3> QED BY <1>3, <1>4, <3>1
  <2> QED BY <2>1, <2>2
<1> QED BY <1>3, <1>7, <1>8, <1>9 DEF Held

\* A worker lets go of its connection.
LEMMA CloseKeepsHeld ==
    ASSUME QueueInv, Typing, Phases, Held, NEW w \in Workers, CloseClient(w)
    PROVE  Held'
<1> USE Constants DEF QueueInv, QueueTypeOK
<1> DEFINE f == client_fd[w]
<1>1. UNCHANGED queueVars /\ task[w] = "close" /\ task' = [task EXCEPT ![w] = "dequeue"]
      /\ pc[w] = "idle"
  BY DEF CloseClient, TaskGoto, Phases
<1>2. Waiting' = Waiting /\ count' = count /\ pc' = pc /\ client_fd' = client_fd
  BY <1>1, WaitingStutter DEF queueVars, ring
<1>3. Carries(w) /\ ~(Carries(w))' /\ \A t \in Threads \ {w} : (Carries(t))' <=> Carries(t)
  BY <1>1, <1>2 DEF Carries, Typing
<1>4. f \in Sockets /\ table' = [table EXCEPT ![f] = NULL]
  BY <1>3 DEF CloseClient, Close, Held, HandsHold
<1>5. \A g : (InRing(g))' <=> InRing(g)
  BY <1>2 DEF InRing
<1>6. ~InRing(f) /\ \A t \in Threads \ {w} : Carries(t) => client_fd[t] # f
  BY <1>3 DEF Held, HandsHold, RingHolds
<1>7. HandsHold'
  BY <1>2, <1>3, <1>4, <1>6 DEF Held, HandsHold, Typing, K!Typed
<1>8. RingHolds'
  <2>1. \A i \in 1 .. count : Waiting[i] # f
    BY <1>6 DEF InRing
  <2>2. \A t \in Threads : (Carries(t))' => Carries(t)
    BY <1>3
  <2> QED BY <1>2, <1>4, <1>5, <2>1, <2>2 DEF Held, RingHolds, Typing, K!Typed
<1>9. HeldBySomeone'
  BY <1>2, <1>3, <1>4, <1>5 DEF Held, HeldBySomeone, Typing, K!Typed
<1> QED BY <1>7, <1>8, <1>9 DEF Held

\* Clients and starts of workers concern neither.
LEMMA MainKeepsOwnership ==
    ASSUME QueueInv, Typing, Phases, Ownership, MainStep
    PROVE  Ownership'
<1> USE DEF Ownership, workerVars, kernelVars
<1>0. Held
  BY DEF Held
<1>1. ASSUME NEW w \in Workers, StartWorker(w) \/ StartFails(w)  PROVE Ownership'
  <2>1. /\ UNCHANGED queueVars /\ UNCHANGED <<open_fd, sent, table>>
        /\ task[w] = "unborn" /\ task'[w] \in {"dequeue", "missing"}
        /\ \A v \in Workers \ {w} : task'[v] = task[v]
    BY <1>1 DEF StartWorker, StartFails, Typing
  <2>2. Held'
    BY <1>0, <2>1, NobodyMoves
  <2>3. FilesOpen'
    BY <2>1, FilesStay
  <2> QED BY <2>2, <2>3 DEF Held
<1>2. CASE AcceptClient
  <2>1. PICK f \in Sockets : Accept(f) /\ CallEnqueue(Main, f)
    BY <1>2 DEF AcceptClient
  <2>2. table[f] = NULL /\ table' = [table EXCEPT ![f] = Head(backlog)] /\ Head(backlog) \in Clients
    BY <2>1 DEF Accept, IsNextFd, Free, Typing, K!Typed
  <2>3. Held'
    BY <1>0, <1>2, <2>1, AcceptKeepsHeld DEF AcceptClient
  <2>4. \A g \in Sockets : table'[g] = "file" <=> table[g] = "file"
    BY <2>2, Constants DEF Typing, K!Typed
  <2>5. FilesOpen'
    BY <1>2, <2>4, FilesStay DEF AcceptClient
  <2> QED BY <2>3, <2>5 DEF Held
<1>3. CASE PutStep(Main) /\ UNCHANGED <<status, workerVars, kernelVars>>
  <2>1. Held'
    BY <1>0, <1>3, PutKeepsHeld
  <2>2. FilesOpen'
    BY <1>3, FilesStay
  <2> QED BY <2>1, <2>2 DEF Held
<1> QED BY <1>1, <1>2, <1>3 DEF MainStep

\* A worker fetches a connection, opens and closes a file, and closes the
\* connection.
LEMMA WorkerKeepsOwnership ==
    ASSUME QueueInv, Typing, Phases, Ownership, NEW w \in Workers, WorkerStep(w)
    PROVE  Ownership'
<1> USE DEF Ownership, workerVars, kernelVars
<1>0. Held
  BY DEF Held
<1>1. ASSUME UNCHANGED queueVars, UNCHANGED <<open_fd, sent, table>>,
             \A v \in Workers \ {w} : task'[v] = task[v],
             task[w] \notin {"unborn", "missing", "dequeue", "200", "body"},
             task'[w] \notin {"unborn", "missing", "dequeue", "200", "body"}
      PROVE  Ownership'
  <2>1. Held'
    BY <1>0, <1>1, NobodyMoves
  <2>2. FilesOpen'
    BY <1>1, FilesStay
  <2> QED BY <2>1, <2>2 DEF Held
<1>2. CASE Dequeue(w)
  <2>1. /\ pc[w] = "idle" /\ pc'[w] = "get_wait" /\ task[w] = "dequeue" /\ task'[w] = "read"
        /\ \A t \in Threads \ {w} : pc'[t] = pc[t] /\ client_fd'[t] = client_fd[t]
        /\ \A v \in Workers \ {w} : task'[v] = task[v]
        /\ UNCHANGED <<ring, open_fd, sent, table>>
    BY <1>2, Constants DEF Dequeue, CallDequeue, Goto, TaskGoto, QueueInv, QueueTypeOK, Typing
  <2>2. ~Carries(w) /\ ~(Carries(w))' /\ \A t \in Threads \ {w} : (Carries(t))' <=> Carries(t)
    BY <2>1 DEF Carries
  <2>3. Waiting' = Waiting /\ count' = count
    BY <2>1, WaitingStutter DEF ring
  <2>4. Held'
    BY <1>0, <2>1, <2>2, <2>3, NothingMoves
  <2>5. FilesOpen'
    BY <2>1, FilesStay
  <2> QED BY <2>4, <2>5 DEF Held
<1>3. CASE GetStep(w) /\ UNCHANGED <<status, workerVars, kernelVars>>
  <2>1. Held'
    BY <1>0, <1>3, GetKeepsHeld
  <2>2. FilesOpen'
    BY <1>3, FilesStay
  <2> QED BY <2>1, <2>2 DEF Held
<1>4. CASE Read(w)
  BY <1>1, <1>4 DEF Read, Typing
<1>5. CASE OpenFails(w)
  BY <1>1, <1>5 DEF OpenFails, TaskGoto, Typing
<1>6. CASE Open(w)
  <2>1. PICK f \in Sockets : OpenFile(f) /\ open_fd' = [open_fd EXCEPT ![w] = f]
    BY <1>6 DEF Open
  <2>2. table[f] = NULL /\ table' = [table EXCEPT ![f] = "file"]
    BY <2>1 DEF OpenFile, IsNextFd, Free
  <2>3. task[w] = "open" /\ task' = [task EXCEPT ![w] = "200"] /\ UNCHANGED queueVars /\ sent' = sent
    BY <1>6 DEF Open, TaskGoto
  <2>4. \A g \in Sockets : table'[g] \in Clients <=> table[g] \in Clients
    BY <2>2, Constants DEF Typing, K!Typed
  <2>5. Held'
    <3>1. \A v \in Workers : task'[v] \in {"unborn", "missing", "dequeue"}
                               <=> task[v] \in {"unborn", "missing", "dequeue"}
      BY <2>3 DEF Typing
    <3> QED BY <1>0, <2>3, <2>4, <3>1, NobodyMoves
  <2>6. FilesOpen'
    BY <2>1, <2>2, <2>3, Constants DEF FilesOpen, Typing, K!Typed
  <2> QED BY <2>5, <2>6 DEF Held
<1>7. CASE Respond(w, "400", "close") \/ Respond(w, "404", "close")
  BY <1>1, <1>7 DEF Respond, Write, TaskGoto, Typing
<1>8. ASSUME UNCHANGED queueVars, UNCHANGED <<open_fd, table>>,
             \A v \in Workers \ {w} : task'[v] = task[v] /\ sent'[v] = sent[v],
             task[w] \in {"200", "body"}, task'[w] = "body"
      PROVE  Ownership'
  <2>1. Held'
    BY <1>0, <1>8, NobodyMoves
  <2>2. FilesOpen'
    BY <1>8 DEF FilesOpen
  <2> QED BY <2>1, <2>2 DEF Held
<1>9. CASE Respond(w, "200", "body")
  BY <1>8, <1>9 DEF Respond, Write, TaskGoto, Typing
<1>10. CASE SendBlock(w)
  BY <1>8, <1>10 DEF SendBlock, Write, Typing
<1>11. CASE Killed(w)
  <2>1. UNCHANGED queueVars /\ UNCHANGED <<task, open_fd, sent, table>>
    BY <1>11 DEF Killed
  <2> QED BY <1>0, <2>1, NobodyMoves, FilesStay DEF Held
<1>12. CASE CloseFile(w)
  <2> DEFINE f == open_fd[w]
  <2>1. /\ task[w] = "body" /\ task' = [task EXCEPT ![w] = "close"] /\ UNCHANGED queueVars
        /\ open_fd' = [open_fd EXCEPT ![w] = NULL] /\ sent' = [sent EXCEPT ![w] = 0]
        /\ table' = [table EXCEPT ![f] = NULL]
    BY <1>12 DEF CloseFile, TaskGoto, Close
  <2>2. f \in Sockets /\ table[f] = "file"
    BY <2>1 DEF FilesOpen
  <2>3. \A g \in Sockets : table'[g] \in Clients <=> table[g] \in Clients
    BY <2>1, <2>2, Constants DEF Typing, K!Typed
  <2>4. Held'
    <3>1. \A v \in Workers : task'[v] \in {"unborn", "missing", "dequeue"}
                               <=> task[v] \in {"unborn", "missing", "dequeue"}
      BY <2>1 DEF Typing
    <3> QED BY <1>0, <2>1, <2>3, <3>1, NobodyMoves
  <2>5. FilesOpen'
    BY <2>1, <2>2, Constants DEF FilesOpen, Typing, K!Typed
  <2> QED BY <2>4, <2>5 DEF Held
<1>13. CASE CloseClient(w)
  <2>1. Held'
    BY <1>0, <1>13, CloseKeepsHeld
  <2>2. client_fd[w] \in Sockets /\ table[client_fd[w]] \in Clients
    <3>1. Carries(w)
      BY <1>13 DEF CloseClient, TaskGoto, Phases, Carries
    <3> QED BY <3>1, Constants DEF HandsHold
  <2>3. \A g \in Sockets : table'[g] = "file" <=> table[g] = "file"
    BY <1>13, <2>2, Constants DEF CloseClient, Close, Typing, K!Typed
  <2>4. FilesOpen'
    <3>1. \A v \in Workers : task'[v] \in {"200", "body"} <=> task[v] \in {"200", "body"}
      BY <1>13 DEF CloseClient, TaskGoto, Typing
    <3>2. \A v \in Workers : task[v] = "body" => task'[v] = "body"
      BY <1>13 DEF CloseClient, TaskGoto, Typing
    <3>3. UNCHANGED <<open_fd, sent>>
      BY <1>13 DEF CloseClient
    <3> QED BY <2>3, <3>1, <3>2, <3>3, FilesStay
  <2> QED BY <2>1, <2>4 DEF Held
<1> QED BY <1>2, <1>3, <1>4, <1>5, <1>6, <1>7, <1>9, <1>10, <1>11, <1>12, <1>13 DEF WorkerStep

LEMMA OwnershipKept ==
    ASSUME QueueInv, Typing, Phases, Ownership, [PoolNext]_poolVars
    PROVE  Ownership'
<1>1. ASSUME UNCHANGED <<queueVars, workerVars, table>>  PROVE Ownership'
  <2>1. Held' /\ FilesOpen'
    BY <1>1, NobodyMoves, FilesStay DEF Held, Ownership, workerVars
  <2> QED BY <2>1 DEF Held, Ownership
<1>2. ASSUME NEW c \in Clients, ClientStep(c), UNCHANGED <<queueVars, status, workerVars>>
      PROVE  Ownership'
  BY <1>1, <1>2 DEF ClientStep, Connect, Send, HangUp
<1> QED BY <1>1, <1>2, MainKeepsOwnership, WorkerKeepsOwnership
        DEF PoolNext, Run, poolVars, kernelVars

LEMMA InitiallyOwned == PoolInit => IInv
<1> SUFFICES ASSUME PoolInit  PROVE IInv
  OBVIOUS
<1> USE DEF PoolInit
<1>1. QueueInv
  BY InitInv
<1>2. K!Typed /\ K!ConnectionInv
  <2>1. K!KernelInit
    BY DEF KernelInit, K!KernelInit
  <2> QED BY <2>1, Constants, K!KernelStart
<1>3. Typing
  BY <1>2, ThreadPoolAssumption DEF Typing, Tasks, KernelInit
<1>4. \A t \in Threads : pc[t] = "idle" /\ ~Carries(t)
  BY Constants DEF QueueInit, Carries
<1>5. Phases
  BY <1>4, Constants DEF Phases
<1>6. Ownership
  <2>1. count = 0 /\ 1 .. count = {}
    BY DEF QueueInit
  <2>2. \A f \in Sockets : table[f] = NULL
    BY DEF KernelInit
  <2>3. HandsHold /\ RingHolds /\ HeldBySomeone
    BY <1>4, <2>1, <2>2, Constants DEF HandsHold, RingHolds, HeldBySomeone, InRing
  <2>4. FilesOpen
    BY <2>2, Constants DEF FilesOpen
  <2> QED BY <2>3, <2>4 DEF Ownership
<1> QED BY <1>1, <1>2, <1>3, <1>5, <1>6 DEF IInv

LEMMA IInvKept ==
    ASSUME IInv, [PoolNext]_poolVars
    PROVE  IInv'
<1>1. QueueInv'
  BY IsQueueStep, QueueKept DEF IInv
<1>2. Typing' /\ Phases' /\ Ownership'
  BY TypingKept, PhasesKept, OwnershipKept DEF IInv
<1>3. K!ConnectionInv'
  <2>1. K!KernelStep
    BY IsKernelStep DEF IInv
  <2> QED BY <2>1, Constants, K!KernelKeepsConnections DEF IInv, Typing
<1> QED BY <1>1, <1>2, <1>3 DEF IInv

LEMMA Invariance == PoolSpec => []IInv
BY InitiallyOwned, IInvKept, PTL DEF PoolSpec

-----------------------------------------------------------------------------
LEMMA CarriesIs ==
    ASSUME QueueInv, Typing
    PROVE  \A t \in Threads : t \in Holding <=> Carries(t)
<1> USE Constants DEF QueueInv, QueueTypeOK
<1>1. Carries(Main) <=> StageOf(pc[Main]) = "enq"
  BY DEF Carries, StageOf, PutStages, GetStages
<1>2. ASSUME NEW w \in Workers
      PROVE  Carries(w) <=> StageOf(pc[w]) = "done" \/
                 (pc[w] = "idle" /\ task[w] \notin {"unborn", "missing", "dequeue"})
  BY DEF Carries, StageOf, PutStages, GetStages
<1> QED BY <1>1, <1>2 DEF Holding, InHand

\* The server uses the queue as QueueSpec allows, so what is proved of the
\* queue holds in it: each socket that main enqueues goes to one worker, in
\* order (server.c:122, :162).
THEOREM UsesQueue == PoolSpec => QueueSpec /\ QueueLinearizable
<1>1. PoolInit => QueueInit
  BY DEF PoolInit
<1> QED BY <1>1, IsQueueStep, Linearizability, PTL DEF PoolSpec, QueueSpec

\* Every open descriptor of a connection is main's, in the queue once, or one
\* worker's, and every open file one worker's (server.c:81, :97, :112, :115):
\* none is closed twice, used after it was given out again, or forgotten.
THEOREM Descriptors == PoolSpec => []DescriptorInv
<1>1. IInv => PoolTypeOK
  BY DEF IInv, QueueInv, Typing, Tasks, K!Typed, PoolTypeOK
<1>2. IInv => DescriptorOwnership
  <2> SUFFICES ASSUME IInv  PROVE DescriptorOwnership
    OBVIOUS
  <2> USE DEF IInv, Ownership
  <2>1. \A t : t \in Holding <=> t \in Threads /\ Carries(t)
    BY CarriesIs DEF Holding
  <2>2. \A f : f \in Queued <=> InRing(f)
    BY DEF Queued, InRing
  <2>3. {f \in Sockets : table[f] \in Clients} = Queued \cup {client_fd[t] : t \in Holding}
    <3>1. ASSUME NEW f \in Sockets, table[f] \in Clients
          PROVE  f \in Queued \/ \E t \in Holding : f = client_fd[t]
      BY <2>1, <2>2, <3>1 DEF HeldBySomeone
    <3>2. ASSUME NEW f \in Queued  PROVE f \in Sockets /\ table[f] \in Clients
      BY DEF Queued, RingHolds
    <3>3. ASSUME NEW t \in Holding  PROVE client_fd[t] \in Sockets /\ table[client_fd[t]] \in Clients
      BY <2>1 DEF HandsHold
    <3> QED BY <3>1, <3>2, <3>3
  <2>4. {f \in Sockets : table[f] = "file"} = {open_fd[w] : w \in Workers} \ {NULL}
    <3>1. ASSUME NEW f \in Sockets, table[f] = "file"
          PROVE  f # NULL /\ \E w \in Workers : f = open_fd[w]
      BY <3>1, Constants DEF FilesOpen
    <3>2. ASSUME NEW w \in Workers, open_fd[w] # NULL
          PROVE  open_fd[w] \in Sockets /\ table[open_fd[w]] = "file"
      BY <3>2 DEF FilesOpen
    <3> QED BY <3>1, <3>2
  <2>5. /\ \A i, j \in 1 .. count : Waiting[i] = Waiting[j] => i = j
        /\ \A t \in Holding : client_fd[t] \notin Queued
        /\ \A t, u \in Holding : client_fd[t] = client_fd[u] => t = u
    BY <2>1, <2>2 DEF RingHolds, HandsHold
  <2>6. \A v, w \in Workers : open_fd[v] = open_fd[w] /\ open_fd[v] # NULL => v = w
    BY DEF FilesOpen
  <2>7. \A f, g \in Sockets : table[f] = table[g] /\ table[f] \in Clients => f = g
    BY DEF K!ConnectionInv
  <2> QED BY <2>3, <2>4, <2>5, <2>6, <2>7 DEF DescriptorOwnership
<1> QED BY <1>1, <1>2, Invariance, PTL DEF DescriptorInv

-----------------------------------------------------------------------------
(***************************************************************************)
(* Answers.  What a client has received is the part of its answer that its *)
(* worker's step stands for; a client that hung up received less.          *)
(***************************************************************************)
Body(n) == <<"200">> \o [i \in 1 .. n |-> "block"]

Answered(c) ==
    \/ answer[c] = <<>>
    \/ request[c] = "bad" /\ answer[c] = <<"400">>
    \/ request[c] \in {"missing", "file"} /\ answer[c] = <<"404">>
    \/ request[c] = "file" /\ \E n \in 0 .. Chunks : answer[c] = Body(n)

\* Worker w, whose client is c.
Progress(w, c) ==
    /\ task[w] \in {"read", "open", "400", "404", "200"} => answer[c] = <<>>
    /\ task[w] = "400" => request[c] = "bad"
    /\ task[w] \in {"open", "404"} => request[c] \in {"missing", "file"}
    /\ task[w] = "200" => request[c] = "file"
    /\ task[w] = "body" => /\ request[c] = "file"
                           /\ peer[c] = "open" => answer[c] = Body(sent[w])
    /\ task[w] = "close" /\ peer[c] = "open" => answer[c] \in Answers(request[c])

Released(c) == eof[c] /\ peer[c] = "open" => answer[c] \in Answers(request[c])

\* Nobody writes to a connection that no worker has taken.
Fresh(f) == InRing(f) \/ (Carries(Main) /\ client_fd[Main] = f)

AnswerInv ==
    /\ \A c \in Clients : Answered(c) /\ Released(c)
    /\ \A w \in Workers : Carries(w) => Progress(w, table[client_fd[w]])
    /\ \A f \in Sockets : Fresh(f) => answer[table[f]] = <<>>

LEMMA BodyGrows ==
    ASSUME NEW n \in Nat
    PROVE  /\ Append(Body(n), "block") = Body(n + 1)
           /\ Body(0) = <<"200">>
           /\ Body(n) \in Seq({"400", "404", "200", "block"}) /\ Len(Body(n)) = n + 1
           /\ \A m \in n .. Chunks : Body(n) = SubSeq(Body(m), 1, n + 1)
<1> DEFINE at(k) == IF k = 1 THEN "200" ELSE "block"
<1>1. ASSUME NEW m \in Nat
      PROVE  /\ Body(m) = [k \in 1 .. m + 1 |-> at(k)]
             /\ Body(m) \in Seq({"400", "404", "200", "block"}) /\ Len(Body(m)) = m + 1
             /\ \A k \in 1 .. m + 1 : Body(m)[k] = at(k)
  BY DEF Body
<1>2. ASSUME NEW m \in n .. Chunks  PROVE Body(n) = SubSeq(Body(m), 1, n + 1)
  <2>1. m \in Nat /\ n <= m
    BY ThreadPoolAssumption
  <2>2. SubSeq(Body(m), 1, n + 1) = [k \in 1 .. n + 1 |-> Body(m)[k]]
    BY <1>1, <2>1
  <2>3. \A k \in 1 .. n + 1 : Body(m)[k] = at(k)
    BY <1>1, <2>1
  <2> HIDE DEF at
  <2> QED BY <1>1, <2>2, <2>3
<1>3. Append(Body(n), "block") = Body(n + 1)
  <2> DEFINE s == Append(Body(n), "block")
             t == Body(n + 1)
             T == {"400", "404", "200", "block"}
  <2>1. n + 1 \in Nat /\ at(n + 2) = "block"
    OBVIOUS
  <2>2. s \in Seq(T) /\ Len(s) = n + 2 /\ s[n + 2] = "block" /\ \A k \in 1 .. n + 1 : s[k] = Body(n)[k]
    <3>1. ASSUME NEW S, NEW q \in Seq(S), NEW x \in S, Len(q) = n + 1
          PROVE  /\ Append(q, x) \in Seq(S) /\ Len(Append(q, x)) = n + 2
                 /\ Append(q, x)[n + 2] = x /\ \A k \in 1 .. n + 1 : Append(q, x)[k] = q[k]
      BY ONLY <3>1, n \in Nat
    <3>2. Body(n) \in Seq(T) /\ Len(Body(n)) = n + 1 /\ "block" \in T
      BY <1>1
    <3> HIDE DEF T
    <3> QED BY ONLY <3>1, <3>2
  <2>3. t \in Seq(T) /\ Len(t) = n + 2 /\ \A k \in 1 .. n + 2 : t[k] = at(k)
    BY <1>1, <2>1
  <2>4. \A k \in 1 .. n + 2 : s[k] = t[k]
    <3>1. \A k \in 1 .. n + 1 : Body(n)[k] = at(k) /\ k \in 1 .. n + 2
      BY <1>1
    <3>2. \A k \in 1 .. n + 2 : k = n + 2 \/ k \in 1 .. n + 1
      OBVIOUS
    <3> HIDE DEF at, s, t
    <3> QED BY ONLY <2>1, <2>2, <2>3, <3>1, <3>2
  <2> HIDE DEF at, s, t, T
  <2>5. s = t
    BY <2>2, <2>3, <2>4
  <2> QED BY <2>5 DEF s, t
<1>4. Body(0) = <<"200">>
  <2>1. [i \in 1 .. 0 |-> "block"] = <<>>
    OBVIOUS
  <2> QED BY <2>1 DEF Body
<1> QED BY <1>1, <1>2, <1>3, <1>4

LEMMA AnswersAre ==
    /\ Answers("bad") = {<<"400">>} /\ Answers("missing") = {<<"404">>}
    /\ Answers("file") = {<<"404">>, Body(Chunks)}
    /\ Chunks \in Nat
BY ThreadPoolAssumption DEF Answers, Body

\* No two threads serve one client, and none serves one that is in the queue.
LEMMA OneEach ==
    ASSUME Ownership, K!ConnectionInv
    PROVE  /\ \A t, u \in Threads : Carries(t) /\ Carries(u) /\ t # u =>
                 table[client_fd[t]] # table[client_fd[u]]
           /\ \A t \in Threads : \A f \in Sockets :
                 Carries(t) /\ InRing(f) => table[client_fd[t]] # table[f]
<1>1. \A f, g \in Sockets : table[f] \in Clients /\ table[f] = table[g] => f = g
  BY DEF K!ConnectionInv
<1> QED BY <1>1 DEF Ownership, HandsHold, RingHolds

\* A step at which no client sends or receives.
LEMMA NoTalk ==
    ASSUME AnswerInv, UNCHANGED <<peer, request, answer, eof>>,
           \A w \in Workers : (Carries(w))' => (Progress(w, table[client_fd[w]]))',
           \A f \in Sockets : (Fresh(f))' => answer[table'[f]] = <<>>
    PROVE  AnswerInv'
BY DEF AnswerInv, Answered, Released

\* Worker w goes on with the connection it had.
LEMMA GoesOnAs ==
    ASSUME AnswerInv, UNCHANGED <<peer, request, answer>>, NEW w \in Workers, Carries(w),
           task'[w] = task[w], sent'[w] = sent[w], client_fd'[w] = client_fd[w],
           table'[client_fd[w]] = table[client_fd[w]]
    PROVE  (Progress(w, table[client_fd[w]]))'
<1>1. Progress(w, table[client_fd[w]])
  BY DEF AnswerInv
<1> QED BY <1>1 DEF Progress

\* What enqueue does to who has which socket.
LEMMA PutMoves ==
    ASSUME QueueInv, PutStep(Main), UNCHANGED task
    PROVE  /\ \A w \in Workers : ((Carries(w))' => Carries(w)) /\ client_fd'[w] = client_fd[w]
           /\ \A f : (Fresh(f))' => Fresh(f)
<1> USE Constants DEF QueueInv, QueueTypeOK
<1>1. ASSUME NEW from \in PutStages, NEW to \in PutStages \cup {"idle"}, Goto(Main, from, to)
      PROVE  /\ \A w \in Workers : (Carries(w))' => Carries(w)
             /\ Carries(Main) <=> from \in {"put_wait", "put_lock", "put_store", "put_advance"}
             /\ (Carries(Main))' <=> to \in {"put_wait", "put_lock", "put_store", "put_advance"}
  BY <1>1 DEF Goto, Carries, PutStages
<1>2. ASSUME Waiting' = Waiting, count' = count, (Carries(Main))' => Carries(Main) /\ client_fd' = client_fd
      PROVE  \A f : (Fresh(f))' => Fresh(f)
  BY <1>2 DEF Fresh, InRing
<1>3. CASE PutWait(Main)
  <2>1. UNCHANGED <<ring, client_fd>> /\ Goto(Main, "put_wait", "put_lock")
    BY <1>3 DEF PutWait
  <2> QED BY <1>1, <1>2, <2>1, WaitingStutter DEF ring, PutStages
<1>4. CASE PutLock(Main)
  <2>1. UNCHANGED <<ring, client_fd>> /\ Goto(Main, "put_lock", "put_store")
    BY <1>4 DEF PutLock, Lock
  <2> QED BY <1>1, <1>2, <2>1, WaitingStutter DEF ring, PutStages
<1>5. CASE PutStore(Main)
  <2>1. Waiting' = Waiting /\ UNCHANGED <<count, client_fd>> /\ Goto(Main, "put_store", "put_advance")
    BY <1>5, StoreHidden DEF PutStore
  <2> QED BY <1>1, <1>2, <2>1 DEF PutStages
<1>6. CASE PutAdvance(Main)
  <2>1. Waiting' = Append(Waiting, client_fd[Main]) /\ UNCHANGED client_fd /\ count' = count + 1
    BY <1>6, AdvanceAppends DEF PutAdvance
  <2>2. Carries(Main) /\ ~(Carries(Main))' /\ \A w \in Workers : (Carries(w))' => Carries(w)
    BY <1>1, <1>6 DEF PutAdvance, PutStages
  <2>3. /\ \A i \in 1 .. count : Waiting'[i] = Waiting[i]
        /\ Waiting'[count + 1] = client_fd[Main] /\ 1 .. count' = (1 .. count) \cup {count + 1}
    BY <2>1, RingContents
  <2>4. \A f : (InRing(f))' => InRing(f) \/ client_fd[Main] = f
    BY <2>3 DEF InRing
  <2> QED BY <2>1, <2>2, <2>4 DEF Fresh
<1>7. CASE PutUnlock(Main)
  <2>1. UNCHANGED <<ring, client_fd>> /\ Goto(Main, "put_unlock", "put_post")
    BY <1>7 DEF PutUnlock, Unlock
  <2> QED BY <1>1, <1>2, <2>1, WaitingStutter DEF ring, PutStages
<1>8. CASE PutPost(Main)
  <2>1. UNCHANGED ring /\ Goto(Main, "put_post", "idle")
        /\ \A t \in Threads \ {Main} : client_fd'[t] = client_fd[t]
    BY <1>8 DEF PutPost
  <2> QED BY <1>1, <1>2, <2>1, WaitingStutter DEF ring, PutStages
<1> QED BY <1>3, <1>4, <1>5, <1>6, <1>7, <1>8 DEF PutStep

\* What dequeue does: the worker has then what was in the queue.
LEMMA GetMoves ==
    ASSUME QueueInv, Phases, Held, NEW w \in Workers, GetStep(w), UNCHANGED task
    PROVE  /\ \A t \in Threads \ {w} : ((Carries(t))' <=> Carries(t)) /\ client_fd'[t] = client_fd[t]
           /\ (Carries(w))' => \/ Carries(w) /\ client_fd'[w] = client_fd[w]
                               \/ task[w] = "read" /\ client_fd'[w] \in Sockets /\ InRing(client_fd'[w])
           /\ \A f : (Fresh(f))' => Fresh(f)
<1> USE Constants DEF QueueInv, QueueTypeOK
<1>1. ASSUME NEW from \in GetStages, NEW to \in GetStages \cup {"idle"}, Goto(w, from, to)
      PROVE  /\ task[w] = "read"
             /\ \A t \in Threads \ {w} : (Carries(t))' <=> Carries(t)
             /\ Carries(w) <=> from \in {"get_unlock", "get_post"}
             /\ (Carries(w))' <=> to \in {"get_unlock", "get_post", "idle"}
  BY <1>1 DEF Goto, Carries, GetStages, Phases
<1>2. ASSUME Waiting' = Waiting, count' = count, (Carries(Main))' <=> Carries(Main),
             client_fd'[Main] = client_fd[Main]
      PROVE  \A f : (Fresh(f))' => Fresh(f)
  BY <1>2 DEF Fresh, InRing
<1>3. CASE GetWait(w)
  <2>1. UNCHANGED <<ring, client_fd>> /\ Goto(w, "get_wait", "get_lock")
    BY <1>3 DEF GetWait
  <2> QED BY <1>1, <1>2, <2>1, WaitingStutter DEF ring, GetStages
<1>4. CASE GetLock(w)
  <2>1. UNCHANGED <<ring, client_fd>> /\ Goto(w, "get_lock", "get_load")
    BY <1>4 DEF GetLock, Lock
  <2> QED BY <1>1, <1>2, <2>1, WaitingStutter DEF ring, GetStages
<1>5. CASE GetLoad(w)
  <2>1. UNCHANGED ring /\ Goto(w, "get_load", "get_advance")
        /\ \A t \in Threads \ {w} : client_fd'[t] = client_fd[t]
    BY <1>5 DEF GetLoad
  <2> QED BY <1>1, <1>2, <2>1, WaitingStutter DEF ring, GetStages
<1>6. CASE GetAdvance(w)
  <2>1. Waiting # <<>> /\ client_fd[w] = Head(Waiting) /\ Waiting' = Tail(Waiting)
        /\ UNCHANGED client_fd /\ count' = count - 1
    BY <1>6, AdvanceRemoves DEF GetAdvance
  <2>2. /\ \A i \in 1 .. count' : i + 1 \in 1 .. count /\ Waiting'[i] = Waiting[i + 1]
        /\ 1 \in 1 .. count /\ Waiting[1] = client_fd[w]
    BY <2>1, RingContents
  <2>3. InRing(client_fd[w]) /\ client_fd[w] \in Sockets /\ \A f : (InRing(f))' => InRing(f)
    BY <2>2 DEF InRing, Held, RingHolds
  <2>4. task[w] = "read" /\ \A t \in Threads \ {w} : (Carries(t))' <=> Carries(t)
    BY <1>1, <1>6 DEF GetAdvance, GetStages
  <2> QED BY <2>1, <2>3, <2>4 DEF Fresh
<1>7. CASE GetUnlock(w)
  <2>1. UNCHANGED <<ring, client_fd>> /\ Goto(w, "get_unlock", "get_post")
    BY <1>7 DEF GetUnlock, Unlock
  <2> QED BY <1>1, <1>2, <2>1, WaitingStutter DEF ring, GetStages
<1>8. CASE GetPost(w)
  <2>1. UNCHANGED <<ring, client_fd>> /\ Goto(w, "get_post", "idle")
    BY <1>8 DEF GetPost
  <2> QED BY <1>1, <1>2, <2>1, WaitingStutter DEF ring, GetStages
<1> QED BY <1>3, <1>4, <1>5, <1>6, <1>7, <1>8 DEF GetStep

\* The turn of worker w, whose client is c: nothing of the other clients changes.
LEMMA Turn ==
    ASSUME Ownership, K!ConnectionInv, AnswerInv,
           NEW w \in Workers, Carries(w), NEW c \in Clients, c = table[client_fd[w]],
           UNCHANGED queueVars,
           \A v \in Workers \ {w} : task'[v] = task[v] /\ sent'[v] = sent[v],
           \A f \in Sockets : table[f] \in Clients /\ table[f] # c => table'[f] = table[f],
           \A d \in Clients \ {c} : /\ answer'[d] = answer[d] /\ request'[d] = request[d]
                                    /\ peer'[d] = peer[d] /\ eof'[d] = eof[d],
           (Answered(c))', (Released(c))', (Carries(w))' => (Progress(w, table[client_fd[w]]))'
    PROVE  AnswerInv'
<1>1. /\ \A t \in Threads : client_fd'[t] = client_fd[t] /\ pc'[t] = pc[t]
      /\ Waiting' = Waiting /\ count' = count
  BY WaitingStutter DEF queueVars, ring
<1>2. \A d \in Clients : (Answered(d))' /\ (Released(d))'
  <2>1. ASSUME NEW d \in Clients \ {c}  PROVE (Answered(d))' /\ (Released(d))'
    <3>1. Answered(d) /\ Released(d)
      BY DEF AnswerInv
    <3>2. answer'[d] = answer[d] /\ request'[d] = request[d] /\ peer'[d] = peer[d] /\ eof'[d] = eof[d]
      OBVIOUS
    <3> QED BY ONLY <3>1, <3>2 DEF Answered, Released
  <2> QED BY <2>1
<1>3. ASSUME NEW v \in Workers \ {w}, (Carries(v))'  PROVE (Progress(v, table[client_fd[v]]))'
  <2> DEFINE d == table[client_fd[v]]
  <2>1. Carries(v) /\ v \in Threads /\ w \in Threads /\ client_fd'[v] = client_fd[v]
    BY <1>1, <1>3, Constants DEF Carries
  <2>2. client_fd[v] \in Sockets /\ d \in Clients \ {c} /\ Progress(v, d)
    BY <2>1, OneEach DEF Ownership, HandsHold, AnswerInv
  <2>3. task'[v] = task[v] /\ sent'[v] = sent[v] /\ table'[client_fd'[v]] = d
    BY <2>1, <2>2
  <2>4. answer'[d] = answer[d] /\ request'[d] = request[d] /\ peer'[d] = peer[d]
    BY <2>2
  <2> QED BY ONLY <2>2, <2>3, <2>4 DEF Progress
<1>4. ASSUME NEW f \in Sockets, (Fresh(f))'  PROVE answer'[table'[f]] = <<>>
  <2>1. Fresh(f) /\ Main \in Threads /\ w \in Threads /\ Main # w
    BY <1>1, <1>4, Constants DEF Fresh, InRing, Carries
  <2>2. table[f] \in Clients /\ table[f] # c
    BY <2>1, OneEach DEF Fresh, InRing, Ownership, RingHolds, HandsHold
  <2>3. table'[f] = table[f] /\ answer'[table[f]] = answer[table[f]]
    BY <2>2
  <2> QED BY <2>1, <2>3 DEF AnswerInv
<1> QED BY <1>2, <1>3, <1>4 DEF AnswerInv

LEMMA MainKeepsAnswers ==
    ASSUME QueueInv, Typing, Phases, Ownership, K!ConnectionInv, AnswerInv, MainStep
    PROVE  AnswerInv'
<1> USE DEF workerVars, kernelVars
<1>1. ASSUME NEW w \in Workers, StartWorker(w) \/ StartFails(w)  PROVE AnswerInv'
  <2>1. /\ UNCHANGED queueVars /\ UNCHANGED <<sent, table, peer, request, answer, eof>>
        /\ task[w] = "unborn" /\ task'[w] \in {"dequeue", "missing"}
        /\ \A v \in Workers \ {w} : task'[v] = task[v]
    BY <1>1 DEF StartWorker, StartFails, Typing
  <2>2. \A f : (Fresh(f))' => Fresh(f)
    BY <2>1, WaitingStutter, Constants DEF Fresh, InRing, Carries, queueVars, ring
  <2>3. \A v \in Workers : (Carries(v))' => Carries(v) /\ task'[v] = task[v] /\ client_fd'[v] = client_fd[v]
    BY <2>1, Constants DEF Carries, Phases, queueVars
  <2>4. ASSUME NEW v \in Workers, (Carries(v))'  PROVE (Progress(v, table[client_fd[v]]))'
    BY <2>1, <2>3, <2>4, GoesOnAs
  <2> QED BY <2>1, <2>2, <2>4, NoTalk DEF AnswerInv
<1>2. CASE AcceptClient
  <2>1. PICK f \in Sockets : Accept(f) /\ CallEnqueue(Main, f)
    BY <1>2 DEF AcceptClient
  <2>2. /\ table[f] = NULL /\ table' = [table EXCEPT ![f] = Head(backlog)]
        /\ Head(backlog) = backlog[1] /\ 1 \in 1 .. Len(backlog) /\ Head(backlog) \in Clients
        /\ UNCHANGED <<peer, request, answer, eof, task, sent>>
    <3>1. backlog \in Seq(Clients) /\ backlog # <<>>
      BY <2>1 DEF Accept, Typing, K!Typed
    <3>2. Head(backlog) = backlog[1] /\ 1 \in 1 .. Len(backlog) /\ Head(backlog) \in Clients
      BY <3>1
    <3> QED BY <1>2, <2>1, <3>2 DEF AcceptClient, Accept, IsNextFd, Free
  <2>3. answer[Head(backlog)] = <<>>
    BY <2>2 DEF K!ConnectionInv, K!Queued
  <2>4. /\ Waiting' = Waiting /\ count' = count /\ client_fd'[Main] = f
        /\ \A w \in Workers : ((Carries(w))' <=> Carries(w)) /\ client_fd'[w] = client_fd[w]
    BY <2>1, <2>2, WaitingStutter, Constants
       DEF CallEnqueue, Goto, Carries, ring, QueueInv, QueueTypeOK
  <2>5. ASSUME NEW w \in Workers, (Carries(w))'  PROVE (Progress(w, table[client_fd[w]]))'
    <3>1. client_fd[w] \in Sockets /\ table'[client_fd[w]] = table[client_fd[w]]
      BY <2>2, <2>4, <2>5, Constants DEF Ownership, HandsHold, Typing, K!Typed
    <3> QED BY <2>2, <2>4, <2>5, <3>1, GoesOnAs
  <2>6. ASSUME NEW g \in Sockets, (Fresh(g))'  PROVE answer[table'[g]] = <<>>
    <3>1. CASE g = f
      BY <2>2, <2>3, <3>1 DEF Typing, K!Typed
    <3>2. CASE g # f
      <4>1. Fresh(g) /\ table'[g] = table[g]
        BY <2>2, <2>4, <2>6, <3>2 DEF Fresh, InRing, Typing, K!Typed
      <4> QED BY <4>1 DEF AnswerInv
    <3> QED BY <3>1, <3>2
  <2> QED BY <2>2, <2>5, <2>6, NoTalk
<1>3. CASE PutStep(Main) /\ UNCHANGED <<status, workerVars, kernelVars>>
  <2>1. \A f : (Fresh(f))' => Fresh(f)
    BY <1>3, PutMoves
  <2>2. ASSUME NEW w \in Workers, (Carries(w))'  PROVE (Progress(w, table[client_fd[w]]))'
    <3>1. Carries(w) /\ client_fd'[w] = client_fd[w]
      BY <1>3, <2>2, PutMoves
    <3> QED BY <1>3, <3>1, GoesOnAs
  <2> QED BY <1>3, <2>1, <2>2, NoTalk DEF AnswerInv
<1> QED BY <1>1, <1>2, <1>3 DEF MainStep

\* A client connects, sends or hangs up; who hangs up is told nothing more.
LEMMA ClientKeepsAnswers ==
    ASSUME Typing, Ownership, K!ConnectionInv, AnswerInv, NEW c \in Clients, ClientStep(c),
           UNCHANGED <<queueVars, workerVars>>
    PROVE  AnswerInv'
<1> USE DEF Typing, K!Typed
<1>0. /\ UNCHANGED <<task, sent, table, answer, eof, Waiting, count>>
      /\ \A t \in Threads : ((Carries(t))' <=> Carries(t)) /\ client_fd'[t] = client_fd[t]
  BY WaitingStutter DEF ClientStep, Connect, Send, HangUp, Carries, queueVars, workerVars, ring
<1>1. \A f \in Sockets : (Fresh(f))' => answer'[table'[f]] = <<>>
  BY <1>0, Constants DEF AnswerInv, Fresh, InRing
<1>2. \A w \in Workers : Carries(w) => table[client_fd[w]] \in Clients
  BY Constants DEF Ownership, HandsHold
<1>3. SUFFICES /\ \A d \in Clients : (Answered(d))' /\ (Released(d))'
               /\ \A w \in Workers : Carries(w) => (Progress(w, table[client_fd[w]]))'
  BY <1>0, <1>1, Constants DEF AnswerInv
<1>4. CASE Connect(c)
  <2>1. request' = request /\ peer' = [peer EXCEPT ![c] = "open"]
        /\ ~eof[c] /\ \A w \in Workers : Carries(w) => table[client_fd[w]] # c
    <3>1. ~K!Opened(c) /\ ~eof[c]
      BY <1>4 DEF Connect, K!ConnectionInv
    <3> QED BY <1>4, <3>1, Constants DEF Connect, K!Opened, Ownership, HandsHold
  <2>2. \A d \in Clients : (Answered(d))' /\ (Released(d))'
    BY <1>0, <2>1 DEF AnswerInv, Answered, Released
  <2>3. ASSUME NEW w \in Workers, Carries(w)  PROVE (Progress(w, table[client_fd[w]]))'
    <3> DEFINE d == table[client_fd[w]]
    <3>1. Progress(w, d) /\ d \in Clients /\ d # c /\ client_fd'[w] = client_fd[w]
      BY <1>0, <1>2, <2>1, <2>3, Constants DEF AnswerInv
    <3>2. peer'[d] = peer[d]
      BY <2>1, <3>1
    <3> HIDE DEF d
    <3>3. (Progress(w, d))'
      BY <1>0, <2>1, <3>1, <3>2 DEF Progress, d
    <3> QED BY <1>0, <3>1, <3>3 DEF d
  <2> QED BY <2>2, <2>3
<1>5. CASE Send(c)
  <2>1. /\ peer' = peer /\ request[c] = NULL /\ peer[c] = "open" /\ ~eof[c]
        /\ request' = [request EXCEPT ![c] = request'[c]]
    BY <1>5 DEF Send
  <2>2. answer[c] = <<>>
    BY <2>1, ThreadPoolAssumption DEF AnswerInv, Answered
  <2>3. \A d \in Clients : (Answered(d))' /\ (Released(d))'
    BY <1>0, <2>1, <2>2 DEF AnswerInv, Answered, Released
  <2>4. ASSUME NEW w \in Workers, Carries(w)  PROVE (Progress(w, table[client_fd[w]]))'
    <3>1. Progress(w, table[client_fd[w]]) /\ table[client_fd[w]] \in Clients
      BY <1>2, <2>4 DEF AnswerInv
    <3>2. table[client_fd[w]] = c => task[w] = "read" \/ task[w] \notin {"open", "400", "404", "200", "body", "close"}
      BY <2>1, <2>2, <3>1, AnswersAre, ThreadPoolAssumption DEF Progress, Answers
    <3> QED BY <1>0, <2>1, <2>2, <3>1, <3>2, Constants DEF Progress
  <2> QED BY <2>3, <2>4
<1>6. CASE HangUp(c)
  <2>1. request' = request /\ \A d \in Clients : peer'[d] = "open" => peer[d] = "open"
    BY <1>6 DEF HangUp
  <2>2. \A d \in Clients : (Answered(d))' /\ (Released(d))'
    BY <1>0, <2>1 DEF AnswerInv, Answered, Released
  <2>3. ASSUME NEW w \in Workers, Carries(w)  PROVE (Progress(w, table[client_fd[w]]))'
    <3>1. Progress(w, table[client_fd[w]]) /\ table[client_fd[w]] \in Clients
      BY <1>2, <2>3 DEF AnswerInv
    <3> QED BY <1>0, <2>1, <3>1, Constants DEF Progress
  <2> QED BY <2>2, <2>3
<1> QED BY <1>4, <1>5, <1>6 DEF ClientStep

\* A worker takes a connection that nobody has written to, writes to its own
\* client only, and goes on to the step that what the client has then stands
\* for.
LEMMA WorkerKeepsAnswers ==
    ASSUME QueueInv, Typing, Phases, Ownership, K!ConnectionInv, AnswerInv,
           NEW w \in Workers, WorkerStep(w)
    PROVE  AnswerInv'
<1> USE DEF Typing, K!Typed, workerVars, kernelVars
<1>a. PICK f, c : f = client_fd[w] /\ c = table[f]
  OBVIOUS
<1> USE <1>a
<1>0. w \in Threads
  BY Constants
<1>1. ASSUME Carries(w)
      PROVE  f \in Sockets /\ c \in Clients /\ Answered(c) /\ ~eof[c] /\ Progress(w, c)
  BY <1>0, <1>1 DEF Ownership, HandsHold, AnswerInv, K!ConnectionInv, K!Opened
<1>2. ASSUME task[w] \in {"open", "400", "404", "200", "body", "close"}  PROVE Carries(w)
  BY <1>2 DEF Carries, Phases
<1>3. ASSUME UNCHANGED queueVars
      PROVE  client_fd' = client_fd /\ pc' = pc
  BY <1>3 DEF queueVars
<1>4. CASE Dequeue(w)
  <2>1. /\ pc[w] = "idle" /\ pc'[w] = "get_wait" /\ task'[w] = "read"
        /\ \A t \in Threads \ {w} : pc'[t] = pc[t] /\ client_fd'[t] = client_fd[t]
        /\ \A v \in Workers \ {w} : task'[v] = task[v]
        /\ UNCHANGED <<ring, sent, table, peer, request, answer, eof>>
    BY <1>4, Constants DEF Dequeue, CallDequeue, Goto, TaskGoto, QueueInv, QueueTypeOK
  <2>2. ~(Carries(w))' /\ \A t \in Threads \ {w} : (Carries(t))' <=> Carries(t)
    BY <2>1 DEF Carries
  <2>3. \A g : (Fresh(g))' => Fresh(g)
    <3>1. Waiting' = Waiting /\ count' = count
      BY <2>1, WaitingStutter DEF ring
    <3> QED BY <2>1, <2>2, <3>1, Constants DEF Fresh, InRing
  <2>4. ASSUME NEW v \in Workers, (Carries(v))'  PROVE (Progress(v, table[client_fd[v]]))'
    <3>1. v # w /\ Carries(v)
      BY <2>2, <2>4, Constants
    <3> QED BY <2>1, <3>1, GoesOnAs, Constants
  <2> QED BY <2>1, <2>3, <2>4, NoTalk DEF AnswerInv
<1>5. CASE GetStep(w) /\ UNCHANGED <<status, workerVars, kernelVars>>
  <2>1. Held
    BY DEF Held, Ownership
  <2>2. /\ \A t \in Threads \ {w} : ((Carries(t))' <=> Carries(t)) /\ client_fd'[t] = client_fd[t]
        /\ (Carries(w))' => \/ Carries(w) /\ client_fd'[w] = client_fd[w]
                            \/ task[w] = "read" /\ client_fd'[w] \in Sockets /\ InRing(client_fd'[w])
        /\ \A g : (Fresh(g))' => Fresh(g)
    BY <1>5, <2>1, GetMoves
  <2>3. ASSUME NEW v \in Workers, (Carries(v))'  PROVE (Progress(v, table[client_fd[v]]))'
    <3>1. CASE Carries(v) /\ client_fd'[v] = client_fd[v]
      BY <1>5, <3>1, GoesOnAs
    <3>2. CASE ~(Carries(v) /\ client_fd'[v] = client_fd[v])
      <4>1. v = w /\ task[w] = "read" /\ client_fd'[w] \in Sockets /\ InRing(client_fd'[w])
        BY <2>2, <2>3, <3>2, Constants
      <4>2. answer[table[client_fd'[w]]] = <<>>
        BY <4>1 DEF AnswerInv, Fresh
      <4> QED BY <1>5, <4>1, <4>2 DEF Progress
    <3> QED BY <3>1, <3>2
  <2> QED BY <1>5, <2>2, <2>3, NoTalk DEF AnswerInv
<1>6. CASE Read(w)
  <2>1. /\ UNCHANGED queueVars /\ UNCHANGED <<sent, table, peer, request, answer, eof>>
        /\ task[w] = "read" /\ Carries(w)
        /\ \A v \in Workers \ {w} : task'[v] = task[v]
    BY <1>6 DEF Read, Carries
  <2>2. c \in Clients /\ answer[c] = <<>> /\ client_fd' = client_fd /\ request[c] \in Wants[c] \cup {NULL}
    BY <1>1, <1>3, <2>1 DEF Progress
  <2>3. request[c] \in {"bad", "missing", "file", NULL}
    BY <2>2, ThreadPoolAssumption
  <2>4. \/ task'[w] = "close" /\ peer[c] # "open"
        \/ task'[w] = "400" /\ request[c] = "bad"
        \/ task'[w] = "open" /\ request[c] \in {"missing", "file"}
    BY <1>6, <2>2, <2>3 DEF Read, Client, Readable, ReadsData, Asked
  <2>5. (Progress(w, table[client_fd[w]]))'
    BY <2>1, <2>2, <2>4 DEF Progress
  <2>6. (Answered(c))' /\ (Released(c))'
    BY <1>1, <2>1 DEF Answered, Released
  <2> QED BY <2>1, <2>2, <2>5, <2>6, Turn
<1>7. CASE OpenFails(w)
  <2>1. /\ UNCHANGED queueVars /\ UNCHANGED <<sent, table, peer, request, answer, eof>>
        /\ task[w] = "open" /\ Carries(w) /\ task'[w] = "404"
        /\ \A v \in Workers \ {w} : task'[v] = task[v]
    BY <1>2, <1>7 DEF OpenFails, TaskGoto
  <2>2. c \in Clients /\ client_fd' = client_fd
    BY <1>1, <1>3, <2>1
  <2>3. (Progress(w, table[client_fd[w]]))'
    BY <1>1, <2>1, <2>2 DEF Progress
  <2>4. (Answered(c))' /\ (Released(c))'
    BY <1>1, <2>1 DEF Answered, Released
  <2> QED BY <2>1, <2>2, <2>3, <2>4, Turn
<1>8. CASE Open(w)
  <2>1. PICK g \in Sockets : OpenFile(g)
    BY <1>8 DEF Open
  <2>2. /\ UNCHANGED queueVars /\ UNCHANGED <<sent, peer, request, answer, eof>>
        /\ task[w] = "open" /\ Carries(w) /\ task'[w] = "200"
        /\ \A v \in Workers \ {w} : task'[v] = task[v]
        /\ table[g] = NULL /\ table' = [table EXCEPT ![g] = "file"]
    BY <1>2, <1>8, <2>1 DEF Open, TaskGoto, OpenFile, IsNextFd, Free
  <2>3. c \in Clients /\ client_fd' = client_fd /\ request[c] = "file"
        /\ \A h \in Sockets : table[h] \in Clients => table'[h] = table[h]
    BY <1>1, <1>3, <1>8, <2>2, Constants DEF Open, Client, Asked
  <2>4. (Progress(w, table[client_fd[w]]))'
    <3>1. table'[f] = c /\ Progress(w, c)
      BY <1>1, <2>2, <2>3
    <3> QED BY <2>2, <2>3, <3>1 DEF Progress
  <2>5. (Answered(c))' /\ (Released(c))'
    BY <1>1, <2>2 DEF Answered, Released
  <2> QED BY <2>2, <2>3, <2>4, <2>5, Turn
\* A write to the worker's own client.
<1>9. ASSUME NEW x, Write(c, x), c \in Clients
      PROVE  /\ UNCHANGED <<table, request, eof>>
             /\ \A d \in Clients \ {c} : answer'[d] = answer[d] /\ peer'[d] = peer[d]
             /\ peer'[c] = "open" => peer[c] = "open"
             /\ answer'[c] = IF peer[c] = "open" THEN Append(answer[c], x) ELSE answer[c]
  BY <1>9 DEF Write
<1>10. ASSUME NEW x \in {"400", "404", "200"}, NEW next, Respond(w, x, next)
       PROVE  /\ UNCHANGED queueVars /\ UNCHANGED <<sent, table, request, eof>>
              /\ task[w] = x /\ Carries(w) /\ task'[w] = next /\ c \in Clients
              /\ \A v \in Workers \ {w} : task'[v] = task[v]
              /\ \A d \in Clients \ {c} : answer'[d] = answer[d] /\ peer'[d] = peer[d]
              /\ peer'[c] = "open" => peer[c] = "open"
              /\ answer'[c] = IF peer[c] = "open" THEN <<x>> ELSE <<>>
  <2>1. task[w] = x /\ Carries(w) /\ Write(c, x) /\ c \in Clients /\ answer[c] = <<>>
    BY <1>1, <1>2, <1>10 DEF Respond, TaskGoto, Client, Progress
  <2>2. Append(<<>>, x) = <<x>>
    OBVIOUS
  <2> QED BY <1>9, <1>10, <2>1, <2>2 DEF Respond, TaskGoto
<1>11. CASE Respond(w, "400", "close") \/ Respond(w, "404", "close")
  <2>1. PICK x \in {"400", "404"} : Respond(w, x, "close")
    BY <1>11
  <2>2. Progress(w, c) /\ client_fd' = client_fd /\ c \in Clients /\ ~eof[c]
    BY <1>1, <1>3, <1>10, <2>1
  <2>3. /\ x = "400" => request[c] = "bad"
        /\ x = "404" => request[c] \in {"missing", "file"}
    BY <1>10, <2>1, <2>2 DEF Progress
  <2>4. (Progress(w, table[client_fd[w]]))'
    <3>1. x = "400" \/ x = "404"
      BY <2>1
    <3> QED BY <1>10, <2>1, <2>2, <2>3, <3>1, AnswersAre DEF Progress
  <2>5. (Answered(c))' /\ (Released(c))'
    <3>1. /\ answer'[c] = <<>> \/ (answer'[c] = <<x>> /\ peer[c] = "open")
          /\ request' = request /\ eof' = eof
      BY <1>10, <2>1
    <3>2. ~(eof[c])'
      BY <2>2, <3>1
    <3>3. x = "400" \/ x = "404"
      BY <2>1
    <3>4. (Answered(c))'
      BY <2>3, <3>1, <3>2, <3>3 DEF Answered
    <3>5. (Released(c))'
      BY <3>2 DEF Released
    <3> QED BY <3>4, <3>5
  <2>6. /\ UNCHANGED queueVars /\ UNCHANGED <<sent, table, request, eof>> /\ Carries(w)
        /\ \A v \in Workers \ {w} : task'[v] = task[v]
        /\ \A d \in Clients \ {c} : answer'[d] = answer[d] /\ peer'[d] = peer[d]
    BY <1>10, <2>1
  <2> QED BY <2>2, <2>4, <2>5, <2>6, Turn
<1>12. CASE Respond(w, "200", "body")
  <2>1. Progress(w, c) /\ client_fd' = client_fd /\ c \in Clients /\ ~eof[c] /\ task[w] = "200"
    BY <1>1, <1>3, <1>10, <1>12
  <2>2. request[c] = "file" /\ sent[w] = 0 /\ answer[c] = <<>>
    BY <2>1 DEF Progress, Ownership, FilesOpen
  <2>3. Body(0) = <<"200">> /\ 0 \in 0 .. Chunks
    BY BodyGrows, AnswersAre
  <2>4. (Progress(w, table[client_fd[w]]))'
    BY <1>10, <1>12, <2>1, <2>2, <2>3 DEF Progress
  <2>5. (Answered(c))' /\ (Released(c))'
    BY <1>10, <1>12, <2>1, <2>2, <2>3 DEF Answered, Released
  <2> QED BY <1>10, <1>12, <2>1, <2>4, <2>5, Turn
<1>13. CASE SendBlock(w)
  <2>1. /\ UNCHANGED queueVars /\ task' = task /\ task[w] = "body" /\ Carries(w) /\ Write(c, "block")
        /\ sent[w] \in 0 .. Chunks /\ sent[w] < Chunks /\ sent' = [sent EXCEPT ![w] = sent[w] + 1]
    BY <1>2, <1>13 DEF SendBlock, Client
  <2>2. /\ c \in Clients /\ ~eof[c] /\ client_fd' = client_fd /\ request[c] = "file" /\ Answered(c)
        /\ peer[c] = "open" => answer[c] = Body(sent[w])
    BY <1>1, <1>3, <2>1 DEF Progress
  <2>3. sent'[w] \in 0 .. Chunks /\ Append(Body(sent[w]), "block") = Body(sent'[w])
    <3>1. PICK n \in Nat : n = sent[w] /\ n + 1 \in 0 .. Chunks
      BY <2>1, AnswersAre
    <3>2. sent'[w] = n + 1
      BY <2>1, <3>1
    <3>3. Append(Body(n), "block") = Body(n + 1)
      BY BodyGrows
    <3> QED BY ONLY <3>1, <3>2, <3>3
  <2>4. answer'[c] = IF peer[c] = "open" THEN Body(sent'[w]) ELSE answer[c]
    <3>1. answer'[c] = IF peer[c] = "open" THEN Append(answer[c], "block") ELSE answer[c]
      BY <1>9, <2>1, <2>2
    <3> QED BY ONLY <2>2, <2>3, <3>1
  <2>5. (Progress(w, table[client_fd[w]]))'
    BY <1>9, <2>1, <2>2, <2>4 DEF Progress
  <2>6. (Answered(c))' /\ (Released(c))'
    BY <1>9, <2>1, <2>2, <2>3, <2>4 DEF Answered, Released
  <2> QED BY <1>9, <2>1, <2>2, <2>5, <2>6, Turn
<1>14. CASE Killed(w)
  <2>1. UNCHANGED queueVars /\ UNCHANGED <<task, sent, table, peer, request, answer, eof>>
    BY <1>14 DEF Killed
  <2>2. \A g : (Fresh(g))' => Fresh(g)
    BY <2>1, WaitingStutter DEF Fresh, InRing, Carries, queueVars, ring
  <2>3. ASSUME NEW v \in Workers, (Carries(v))'  PROVE (Progress(v, table[client_fd[v]]))'
    <3>1. Carries(v)
      BY <2>1, <2>3 DEF Carries, queueVars
    <3> QED BY <1>3, <2>1, <3>1, GoesOnAs
  <2> QED BY <2>1, <2>2, <2>3, NoTalk DEF AnswerInv
<1>15. CASE CloseFile(w)
  <2> DEFINE g == open_fd[w]
  <2>1. /\ UNCHANGED queueVars /\ UNCHANGED <<peer, request, answer>>
        /\ task[w] = "body" /\ task'[w] = "close" /\ Carries(w) /\ sent[w] = Chunks
        /\ \A v \in Workers \ {w} : task'[v] = task[v] /\ sent'[v] = sent[v]
        /\ table' = [table EXCEPT ![g] = NULL] /\ eof' = [d \in Clients |-> eof[d] \/ table[g] = d]
    BY <1>2, <1>15 DEF CloseFile, TaskGoto, Close
  <2>2. g \in Sockets /\ table[g] = "file"
    BY <2>1 DEF Ownership, FilesOpen
  <2>3. /\ \A d \in Clients : eof'[d] = eof[d]
        /\ \A h \in Sockets : table[h] \in Clients => table'[h] = table[h]
    BY <2>1, <2>2, Constants
  <2>4. /\ c \in Clients /\ ~eof[c] /\ client_fd' = client_fd /\ request[c] = "file" /\ Answered(c)
        /\ peer[c] = "open" => answer[c] = Body(Chunks)
    BY <1>1, <1>3, <2>1 DEF Progress
  <2>5. (Progress(w, table[client_fd[w]]))'
    <3>1. table'[client_fd'[w]] = c
      BY <1>1, <2>1, <2>3, <2>4
    <3> QED BY <2>1, <2>4, <3>1, AnswersAre DEF Progress
  <2>6. (Answered(c))' /\ (Released(c))'
    BY <2>1, <2>3, <2>4 DEF Answered, Released
  <2> QED BY <2>1, <2>3, <2>4, <2>5, <2>6, Turn
<1>16. CASE CloseClient(w)
  <2>1. /\ UNCHANGED queueVars /\ UNCHANGED <<sent, peer, request, answer>>
        /\ task[w] = "close" /\ task'[w] = "dequeue" /\ Carries(w)
        /\ \A v \in Workers \ {w} : task'[v] = task[v]
        /\ table' = [table EXCEPT ![f] = NULL] /\ eof' = [d \in Clients |-> eof[d] \/ table[f] = d]
    BY <1>2, <1>16 DEF CloseClient, TaskGoto, Close
  <2>2. /\ c \in Clients /\ f \in Sockets /\ pc[w] = "idle" /\ Answered(c)
        /\ peer[c] = "open" => answer[c] \in Answers(request[c])
    BY <1>1, <2>1 DEF Progress, Phases
  <2>3. ~(Carries(w))'
    BY <1>3, <2>1, <2>2 DEF Carries
  <2>4. (Answered(c))' /\ (Released(c))'
    BY <2>1, <2>2 DEF Answered, Released
  <2>5. /\ \A d \in Clients \ {c} : eof'[d] = eof[d]
        /\ \A h \in Sockets : table[h] \in Clients /\ table[h] # c => table'[h] = table[h]
    BY <2>1
  <2> QED BY <2>1, <2>2, <2>3, <2>4, <2>5, Turn
<1> QED BY <1>4, <1>5, <1>6, <1>7, <1>8, <1>11, <1>12, <1>13, <1>14, <1>15, <1>16 DEF WorkerStep

LEMMA AnswersKept ==
    ASSUME IInv, AnswerInv, [PoolNext]_poolVars
    PROVE  AnswerInv'
<1> USE DEF IInv
<1>1. ASSUME UNCHANGED poolVars  PROVE AnswerInv'
  <2>1. UNCHANGED queueVars /\ UNCHANGED <<task, sent, table, peer, request, answer, eof>>
    BY <1>1 DEF poolVars, workerVars, kernelVars
  <2>2. \A g : (Fresh(g))' => Fresh(g)
    BY <2>1, WaitingStutter DEF Fresh, InRing, Carries, queueVars, ring
  <2>3. ASSUME NEW v \in Workers, (Carries(v))'  PROVE (Progress(v, table[client_fd[v]]))'
    <3>1. Carries(v) /\ client_fd' = client_fd
      BY <2>1, <2>3 DEF Carries, queueVars
    <3> QED BY <2>1, <3>1, GoesOnAs
  <2> QED BY <2>1, <2>2, <2>3, NoTalk DEF AnswerInv
<1> QED BY <1>1, MainKeepsAnswers, WorkerKeepsAnswers, ClientKeepsAnswers DEF PoolNext, Run

\* Each client receives the answer to its own request, from its beginning, and
\* all of it if it is still there when the server closes (server.c:81 to :115).
THEOREM Answering == PoolSpec => []RightAnswer
<1>1. PoolInit => AnswerInv
  <2> SUFFICES ASSUME PoolInit  PROVE AnswerInv
    OBVIOUS
  <2>1. \A t \in Threads : ~Carries(t)
    BY Constants DEF PoolInit, QueueInit, Carries
  <2>2. \A f : ~Fresh(f)
    BY <2>1, Constants DEF PoolInit, QueueInit, Fresh, InRing
  <2> QED BY <2>1, <2>2, Constants DEF PoolInit, KernelInit, AnswerInv, Answered, Released
<1>2. IInv /\ AnswerInv => RightAnswer
  <2> SUFFICES ASSUME IInv, AnswerInv, NEW c \in Clients
               PROVE  answer[c] # <<>> => \E a \in Answers(request[c]) :
                          Len(answer[c]) <= Len(a) /\ answer[c] = SubSeq(a, 1, Len(answer[c]))
    BY DEF RightAnswer, AnswerInv, Released
  <2>1. ASSUME NEW x \in {"400", "404"}, answer[c] = <<x>>
        PROVE  Len(answer[c]) <= Len(<<x>>) /\ answer[c] = SubSeq(<<x>>, 1, Len(answer[c]))
    BY <2>1
  <2>2. CASE request[c] = "bad" /\ answer[c] = <<"400">>
    BY <2>1, <2>2, AnswersAre
  <2>3. CASE request[c] \in {"missing", "file"} /\ answer[c] = <<"404">>
    BY <2>1, <2>3, AnswersAre
  <2>4. CASE request[c] = "file" /\ \E n \in 0 .. Chunks : answer[c] = Body(n)
    <3>1. PICK n \in 0 .. Chunks : answer[c] = Body(n)
      BY <2>4
    <3>2. Len(Body(n)) = n + 1 /\ Len(Body(Chunks)) = Chunks + 1 /\ n + 1 <= Chunks + 1
          /\ Body(n) = SubSeq(Body(Chunks), 1, n + 1)
      BY BodyGrows, AnswersAre
    <3>3. Body(Chunks) \in Answers(request[c])
      BY <2>4, AnswersAre
    <3> QED BY <3>1, <3>2, <3>3
  <2> QED BY <2>2, <2>3, <2>4 DEF AnswerInv, Answered
<1> QED BY <1>1, <1>2, Invariance, AnswersKept, PTL DEF PoolSpec

=============================================================================

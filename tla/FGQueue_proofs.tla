--------------------------- MODULE FGQueue_proofs ---------------------------
(***************************************************************************)
(* Proofs about the queue of ThreadedQueue.c, for any threads, values and  *)
(* heap, which use nothing of its test program; and about that program, for *)
(* any number of producers, items and consumers: who owns which payload    *)
(* block, why a consumer leaves its loop only when all is done, and why    *)
(* main finds the queue empty.                                             *)
(***************************************************************************)
EXTENDS FGQueueTest, FiniteSetTheorems, SequenceTheorems, TLAPS

\* What one step of thread t leaves alone.
Others(t) ==
    \A u \in Threads \ {t} :
        pc'[u] = pc[u] /\ node'[u] = node[u] /\ old'[u] = old[u] /\ val'[u] = val[u]

LEMMA InitInv == Init => IInv
<1> SUFFICES ASSUME Init PROVE IInv OBVIOUS
<1>1. TypeOK
  BY FGQueueAssumption DEF Init, TypeOK
<1>2. ChainInv
  BY DEF Init, ChainInv
<1>3. LockInv /\ NodeLockInv /\ EndInv /\ EnqInv /\ DeqInv
  BY FGQueueAssumption DEF Init, LockInv, NodeLockInv, EndInv, EnqInv, DeqInv,
     TailSection, HeadSection, EnqueueStages, DequeueStages, Unlinked, Retired
<1>4. TailInv
  BY DEF Init, TailInv
<1> QED BY <1>1, <1>2, <1>3, <1>4 DEF IInv

-----------------------------------------------------------------------------
\* What the invariant says of a thread inside a critical section, and of the
\* two ways in which the chain changes.

LEMMA InTailSection ==
    ASSUME IInv, NEW t \in Threads, pc[t] \in TailSection
    PROVE  \A u \in Threads : u # t => pc[u] \notin TailSection
BY DEF IInv, LockInv

LEMMA InHeadSection ==
    ASSUME IInv, NEW t \in Threads, pc[t] \in HeadSection
    PROVE  \A u \in Threads : u # t => pc[u] \notin HeadSection
BY DEF IInv, LockInv

LEMMA ChainEnds ==
    ASSUME IInv
    PROVE  /\ Len(chain) \in Nat /\ Len(chain) > 0
           /\ \A i \in 1 .. Len(chain) : chain[i] \in Nodes
BY DEF IInv, TypeOK

LEMMA Appended ==
    ASSUME IInv, NEW n \in Nodes, chain' = Append(chain, n)
    PROVE  /\ Len(chain') = Len(chain) + 1
           /\ \A i \in 1 .. Len(chain) : chain'[i] = chain[i]
           /\ chain'[Len(chain) + 1] = n
           /\ chain' \in Seq(Nodes) /\ chain' # <<>>
<1>1. chain \in Seq(Nodes) BY DEF IInv, TypeOK
<1>2. /\ Append(chain, n) \in Seq(Nodes) /\ Len(Append(chain, n)) = Len(chain) + 1
      /\ \A i \in 1 .. Len(chain) : Append(chain, n)[i] = chain[i]
      /\ Append(chain, n)[Len(chain) + 1] = n
  BY <1>1
<1>3. Append(chain, n) # <<>> BY <1>1, <1>2
<1> QED BY <1>2, <1>3

LEMMA Shortened ==
    ASSUME IInv, Len(chain) > 1, chain' = Tail(chain)
    PROVE  /\ Len(chain') = Len(chain) - 1
           /\ \A i \in 1 .. Len(chain) - 1 : chain'[i] = chain[i + 1]
           /\ chain' \in Seq(Nodes) /\ chain' # <<>>
<1>1. chain \in Seq(Nodes) /\ chain # <<>> BY DEF IInv, TypeOK
<1>2. /\ Tail(chain) \in Seq(Nodes) /\ Len(Tail(chain)) = Len(chain) - 1
      /\ \A i \in 1 .. Len(chain) - 1 : Tail(chain)[i] = chain[i + 1]
  BY <1>1
<1> QED BY <1>2

\* The store that links node n behind the last node of the chain.
LEMMA Linked1 ==
    ASSUME IInv, ChainInv, NEW n \in live, n \in Nodes, ~InChain(n),
           next[n] = NULL, value[n] \in Values,
           chain' = Append(chain, n), next' = [next EXCEPT ![chain[Len(chain)]] = n],
           UNCHANGED <<head, value, live>>
    PROVE  ChainInv'
<1> DEFINE L == Len(chain)
<1>0. L \in Nat /\ L > 0 /\ \A i \in 1 .. L : chain[i] \in Nodes /\ chain[i] # n
  BY ChainEnds DEF InChain
<1>1. /\ Len(chain') = L + 1 /\ chain'[L + 1] = n
      /\ \A i \in 1 .. L : chain'[i] = chain[i]
  BY Appended
<1>2. next' \in [Nodes -> Nodes \cup {NULL}] /\ next'[chain[L]] = n /\ next'[n] = NULL
      /\ \A i \in 1 .. L - 1 : next'[chain[i]] = chain[i + 1]
  BY <1>0 DEF IInv, TypeOK, ChainInv
<1>3. \A i \in 1 .. L + 1 : i \in 1 .. L \/ i = L + 1
  BY <1>0
<1>4. \A i \in 1 .. L + 1 : chain'[i] \in live
  BY <1>0, <1>1, <1>3 DEF ChainInv
<1>5. \A i, j \in 1 .. L + 1 : chain'[i] = chain'[j] => i = j
  BY <1>0, <1>1, <1>3 DEF ChainInv
<1>6. \A i \in 1 .. L : next'[chain'[i]] = chain'[i + 1]
  <2> SUFFICES ASSUME NEW i \in 1 .. L PROVE next'[chain'[i]] = chain'[i + 1] OBVIOUS
  <2>1. CASE i = L BY <1>0, <1>1, <1>2, <2>1
  <2>2. CASE i # L
    <3>1. i \in 1 .. L - 1 /\ i + 1 \in 1 .. L BY <1>0, <2>2
    <3> QED BY <1>1, <1>2, <3>1
  <2> QED BY <2>1, <2>2
<1>7. \A i \in 2 .. L + 1 : value[chain'[i]] \in Values
  BY <1>0, <1>1, <1>3 DEF ChainInv
<1>8. chain'[1] = head BY <1>0, <1>1 DEF ChainInv
<1> HIDE DEF L
<1>9. (L + 1) - 1 = L BY <1>0
<1> QED BY <1>1, <1>2, <1>4, <1>5, <1>6, <1>7, <1>8, <1>9 DEF ChainInv

-----------------------------------------------------------------------------
\* Each step of fgq_enqueue preserves the invariant.

LEMMA CallEnqueueInv ==
    ASSUME IInv, status = "ready", NEW t \in Threads, NEW v \in Values, CallEnqueue(t, v) PROVE IInv'
<1> USE FGQueueAssumption DEF IInv
<1>0. /\ pc[t] = "idle" /\ pc' = [pc EXCEPT ![t] = "enq_alloc"] /\ pc'[t] = "enq_alloc"
      /\ Others(t) /\ status' = "ready"
  BY DEF CallEnqueue, Goto, memory, TypeOK, Others
<1>1. TypeOK'
  BY <1>0 DEF CallEnqueue, Goto, memory, Others, TypeOK, EnqueueStages, DequeueStages
<1>2. ChainInv'
  BY <1>0 DEF CallEnqueue, Goto, memory, Others, ChainInv, TypeOK
<1>3. LockInv'
  BY <1>0 DEF CallEnqueue, Goto, memory, Others, LockInv, TypeOK, TailSection, HeadSection, DequeueStages
<1>4. NodeLockInv'
  BY <1>0 DEF CallEnqueue, Goto, memory, Others, NodeLockInv, TypeOK
<1>5. TailInv'
  BY <1>0 DEF CallEnqueue, Goto, memory, Others, TailInv, TypeOK
<1>6. EnqInv'
  BY <1>0 DEF CallEnqueue, Goto, memory, Others, EnqInv, TypeOK, InChain, Unlinked, EnqueueStages
<1>7. DeqInv'
  BY <1>0 DEF CallEnqueue, Goto, memory, Others, DeqInv, TypeOK, InChain, Retired, Unlinked
<1> QED BY <1>0, <1>1, <1>2, <1>3, <1>4, <1>5, <1>6, <1>7 DEF EndInv

LEMMA EnqAllocInv ==
    ASSUME IInv, status = "ready", NEW t \in Threads, EnqAlloc(t) PROVE IInv'
<1> USE FGQueueAssumption DEF IInv
<1>0. /\ pc[t] = "enq_alloc" /\ pc' = [pc EXCEPT ![t] = "enq_lock"] /\ pc'[t] = "enq_lock"
      /\ Others(t) /\ status' = "ready"
  BY DEF EnqAlloc, Goto, TypeOK, Others
<1>c. ChainInv BY DEF IInv
<1>a. PICK n \in Nodes \ live :
          /\ live' = live \cup {n}
          /\ value' = [value EXCEPT ![n] = val[t]]
          /\ next' = [next EXCEPT ![n] = NULL]
          /\ lock' = [lock EXCEPT ![n] = NULL]
          /\ node' = [node EXCEPT ![t] = n]
  BY DEF EnqAlloc
<1>b. ~InChain(n) /\ chain' = chain /\ head' = head /\ old' = old /\ val' = val
  BY <1>a, <1>c DEF ChainInv, InChain, EnqAlloc
<1>1. TypeOK'
  BY <1>0 DEF EnqAlloc, Goto, Others, TypeOK, EnqueueStages, DequeueStages
<1>2. ChainInv'
  BY <1>0 DEF EnqAlloc, Goto, Others, ChainInv, TypeOK
<1>3. LockInv'
  BY <1>0 DEF EnqAlloc, Goto, Others, LockInv, TypeOK, TailSection, HeadSection, DequeueStages
<1>4. NodeLockInv'
  BY <1>0 DEF EnqAlloc, Goto, Others, NodeLockInv, TypeOK
<1>5. TailInv'
  BY <1>0 DEF EnqAlloc, Goto, Others, TailInv, TypeOK
<1>6. EnqInv'
  <2>1. val[t] \in Values BY <1>0 DEF EnqInv, EnqueueStages
  <2>2. \A u \in Threads : u # t /\ Unlinked(u) => node[u] # n BY <1>a DEF EnqInv
  <2>3. \A m : InChain(m)' <=> InChain(m) BY <1>b DEF InChain
  <2> QED BY <1>0, <1>a, <1>b, <2>1, <2>2, <2>3 DEF EnqInv, Others, Unlinked, TypeOK, EnqueueStages
<1>7. DeqInv'
  <2>1. \A u \in Threads : Retired(u) => old[u] # n /\ old[u] \in live BY <1>a DEF DeqInv
  <2>2. \A m : InChain(m)' <=> InChain(m) BY <1>b DEF InChain
  <2>3. head \in live /\ head \in Nodes BY <1>c, ChainEnds DEF ChainInv, TypeOK
  <2> QED BY <1>0, <1>a, <1>b, <2>1, <2>2, <2>3 DEF DeqInv, Others, Unlinked, Retired, TypeOK
<1> QED BY <1>0, <1>1, <1>2, <1>3, <1>4, <1>5, <1>6, <1>7 DEF EndInv

LEMMA EnqLockInv ==
    ASSUME IInv, status = "ready", NEW t \in Threads, EnqLock(t) PROVE IInv'
<1> USE FGQueueAssumption DEF IInv
<1>0. /\ pc[t] = "enq_lock" /\ pc' = [pc EXCEPT ![t] = "enq_link"] /\ pc'[t] = "enq_link"
      /\ Others(t) /\ status' = "ready"
  BY DEF EnqLock, Goto, memory, TypeOK, Others
<1>1. TypeOK'
  BY <1>0 DEF EnqLock, Goto, memory, Others, TypeOK, EnqueueStages, DequeueStages
<1>2. ChainInv'
  BY <1>0 DEF EnqLock, Goto, memory, Others, ChainInv, TypeOK
<1>3. LockInv'
  BY <1>0 DEF EnqLock, Goto, memory, Others, LockInv, TypeOK, TailSection, HeadSection, DequeueStages
<1>4. NodeLockInv'
  BY <1>0 DEF EnqLock, Goto, memory, Others, NodeLockInv, TypeOK
<1>5. TailInv'
  BY <1>0 DEF EnqLock, Goto, memory, Others, TailInv, TypeOK
<1>6. EnqInv'
  BY <1>0 DEF EnqLock, Goto, memory, Others, EnqInv, TypeOK, InChain, Unlinked, EnqueueStages
<1>7. DeqInv'
  BY <1>0 DEF EnqLock, Goto, memory, Others, DeqInv, TypeOK, InChain, Retired, Unlinked
<1> QED BY <1>0, <1>1, <1>2, <1>3, <1>4, <1>5, <1>6, <1>7 DEF EndInv

LEMMA EnqLinkFirstInv ==
    ASSUME IInv, status = "ready", NEW t \in Threads, EnqLinkFirst(t) PROVE IInv'
<1> USE FGQueueAssumption DEF IInv
<1>0. /\ pc[t] = "enq_link" /\ pc' = [pc EXCEPT ![t] = "enq_swing"] /\ pc'[t] = "enq_swing"
      /\ Others(t) /\ status' = "ready"
  BY DEF EnqLinkFirst, Goto, TypeOK, Others
<1>c. ChainInv BY DEF IInv
<1>a. /\ node[t] \in live /\ node[t] \in Nodes /\ ~InChain(node[t])
      /\ next[node[t]] = NULL /\ value[node[t]] \in Values
  BY <1>0 DEF EnqInv, Unlinked, EnqueueStages, TypeOK
<1>b. \A u \in Threads : u # t => pc[u] \notin TailSection
  BY <1>0, InTailSection DEF TailSection
<1>d. tail = chain[Len(chain)]
  BY <1>0, <1>b DEF TailInv, TailSection
<1>e. /\ Len(chain) \in Nat /\ Len(chain) > 0 /\ \A i \in 1 .. Len(chain) : chain[i] \in Nodes
      /\ Len(chain') = Len(chain) + 1 /\ chain'[Len(chain')] = node[t]
      /\ \A i \in 1 .. Len(chain) : chain'[i] = chain[i]
      /\ chain' \in Seq(Nodes) /\ chain' # <<>>
  BY <1>a, ChainEnds, Appended DEF EnqLinkFirst
<1>f. \A m : InChain(m)' <=> InChain(m) \/ m = node[t]
  <2>1. \A i \in 1 .. Len(chain) + 1 : i \in 1 .. Len(chain) \/ i = Len(chain) + 1
    BY <1>e
  <2>2. Len(chain) + 1 \in 1 .. Len(chain) + 1 /\ \A i \in 1 .. Len(chain) : i \in 1 .. Len(chain) + 1
    BY <1>e
  <2> QED BY <1>e, <2>1, <2>2 DEF InChain
<1>1. TypeOK'
  BY <1>0, <1>a, <1>e DEF EnqLinkFirst, TypeOK, EnqueueStages, DequeueStages
<1>2. ChainInv'
  BY <1>a, <1>c, <1>d, Linked1 DEF EnqLinkFirst
<1>3. LockInv'
  BY <1>0 DEF EnqLinkFirst, Goto, Others, LockInv, TypeOK, TailSection, HeadSection, DequeueStages
<1>4. NodeLockInv'
  BY <1>0 DEF EnqLinkFirst, Goto, Others, NodeLockInv, TypeOK
<1>5. TailInv'
  BY <1>0, <1>b, <1>e DEF EnqLinkFirst, TailInv, Others, TailSection
<1>6. EnqInv'
  <2>1. \A u \in Threads : u # t /\ Unlinked(u) => node[u] # node[t]
    BY <1>0 DEF EnqInv, Unlinked
  <2>2. \A u \in Threads : u # t /\ Unlinked(u) => node[u] # tail
    BY <1>d, <1>e DEF EnqInv, InChain
  <2> QED BY <1>0, <1>f, <2>1, <2>2 DEF EnqLinkFirst, EnqInv, Others, Unlinked, TypeOK, EnqueueStages
<1>7. DeqInv'
  BY <1>0 DEF EnqLinkFirst, Goto, Others, DeqInv, TypeOK, InChain, Retired, Unlinked
<1> QED BY <1>0, <1>1, <1>2, <1>3, <1>4, <1>5, <1>6, <1>7 DEF EndInv

LEMMA EnqSwingInv ==
    ASSUME IInv, status = "ready", NEW t \in Threads, EnqSwing(t) PROVE IInv'
<1> USE FGQueueAssumption DEF IInv
<1>0. /\ pc[t] = "enq_swing" /\ pc' = [pc EXCEPT ![t] = "enq_unlock"] /\ pc'[t] = "enq_unlock"
      /\ Others(t) /\ status' = "ready"
  BY DEF EnqSwing, Goto, memory, TypeOK, Others
<1>a. node[t] \in Nodes /\ node[t] = chain[Len(chain)]
  BY <1>0, ChainEnds DEF TailInv
<1>b. \A u \in Threads : u # t => pc[u] \notin TailSection
  BY <1>0, InTailSection DEF TailSection
<1>1. TypeOK'
  BY <1>0, <1>a DEF EnqSwing, memory, TypeOK, EnqueueStages, DequeueStages
<1>2. ChainInv'
  BY <1>0 DEF EnqSwing, Goto, memory, Others, ChainInv, TypeOK
<1>3. LockInv'
  BY <1>0 DEF EnqSwing, Goto, memory, Others, LockInv, TypeOK, TailSection, HeadSection, DequeueStages
<1>4. NodeLockInv'
  BY <1>0 DEF EnqSwing, Goto, memory, Others, NodeLockInv, TypeOK
<1>5. TailInv'
  BY <1>0, <1>a, <1>b DEF EnqSwing, memory, TailInv, Others, TailSection
<1>6. EnqInv'
  BY <1>0 DEF EnqSwing, Goto, memory, Others, EnqInv, TypeOK, InChain, Unlinked, EnqueueStages
<1>7. DeqInv'
  BY <1>0 DEF EnqSwing, Goto, memory, Others, DeqInv, TypeOK, InChain, Retired, Unlinked
<1> QED BY <1>0, <1>1, <1>2, <1>3, <1>4, <1>5, <1>6, <1>7 DEF EndInv

LEMMA EnqSwingFirstInv ==
    ASSUME IInv, status = "ready", NEW t \in Threads, EnqSwingFirst(t) PROVE IInv'
<1> USE FGQueueAssumption DEF IInv
<1>0. /\ pc[t] = "enq_link" /\ pc' = [pc EXCEPT ![t] = "enq_late"] /\ pc'[t] = "enq_late"
      /\ Others(t) /\ status' = "ready"
  BY DEF EnqSwingFirst, Goto, memory, TypeOK, Others
<1>a. /\ node[t] \in live /\ node[t] \in Nodes /\ ~InChain(node[t])
      /\ next[node[t]] = NULL /\ value[node[t]] \in Values
  BY <1>0 DEF EnqInv, Unlinked, EnqueueStages, TypeOK
<1>b. \A u \in Threads : u # t => pc[u] \notin TailSection
  BY <1>0, InTailSection DEF TailSection
<1>d. tail = chain[Len(chain)]
  BY <1>0, <1>b DEF TailInv, TailSection
<1>1. TypeOK'
  BY <1>0, <1>a DEF EnqSwingFirst, memory, TypeOK, EnqueueStages, DequeueStages
<1>2. ChainInv'
  BY <1>0 DEF EnqSwingFirst, Goto, memory, Others, ChainInv, TypeOK
<1>3. LockInv'
  BY <1>0 DEF EnqSwingFirst, Goto, memory, Others, LockInv, TypeOK, TailSection, HeadSection, DequeueStages
<1>4. NodeLockInv'
  BY <1>0 DEF EnqSwingFirst, Goto, memory, Others, NodeLockInv, TypeOK
<1>5. TailInv'
  BY <1>0, <1>a, <1>b, <1>d DEF EnqSwingFirst, memory, TailInv, TypeOK, Others, TailSection
<1>6. EnqInv'
  BY <1>0 DEF EnqSwingFirst, Goto, memory, Others, EnqInv, TypeOK, InChain, Unlinked, EnqueueStages
<1>7. DeqInv'
  BY <1>0 DEF EnqSwingFirst, Goto, memory, Others, DeqInv, TypeOK, InChain, Retired, Unlinked
<1> QED BY <1>0, <1>1, <1>2, <1>3, <1>4, <1>5, <1>6, <1>7 DEF EndInv

LEMMA EnqLinkLateInv ==
    ASSUME IInv, status = "ready", NEW t \in Threads, EnqLinkLate(t) PROVE IInv'
<1> USE FGQueueAssumption DEF IInv
<1>0. /\ pc[t] = "enq_late" /\ pc' = [pc EXCEPT ![t] = "enq_unlock"] /\ pc'[t] = "enq_unlock"
      /\ Others(t) /\ status' = "ready"
  BY DEF EnqLinkLate, Goto, TypeOK, Others
<1>c. ChainInv BY DEF IInv
<1>a. /\ node[t] \in live /\ node[t] \in Nodes /\ ~InChain(node[t])
      /\ next[node[t]] = NULL /\ value[node[t]] \in Values
  BY <1>0 DEF EnqInv, Unlinked, EnqueueStages, TypeOK
<1>b. \A u \in Threads : u # t => pc[u] \notin TailSection
  BY <1>0, InTailSection DEF TailSection
<1>d. old[t] = chain[Len(chain)] /\ tail = node[t]
  BY <1>0 DEF TailInv
<1>e. /\ Len(chain) \in Nat /\ Len(chain) > 0 /\ \A i \in 1 .. Len(chain) : chain[i] \in Nodes
      /\ Len(chain') = Len(chain) + 1 /\ chain'[Len(chain')] = node[t]
      /\ \A i \in 1 .. Len(chain) : chain'[i] = chain[i]
      /\ chain' \in Seq(Nodes) /\ chain' # <<>>
  BY <1>a, ChainEnds, Appended DEF EnqLinkLate
<1>f. \A m : InChain(m)' <=> InChain(m) \/ m = node[t]
  <2>1. \A i \in 1 .. Len(chain) + 1 : i \in 1 .. Len(chain) \/ i = Len(chain) + 1
    BY <1>e
  <2>2. Len(chain) + 1 \in 1 .. Len(chain) + 1 /\ \A i \in 1 .. Len(chain) : i \in 1 .. Len(chain) + 1
    BY <1>e
  <2> QED BY <1>e, <2>1, <2>2 DEF InChain
<1>1. TypeOK'
  BY <1>0, <1>a, <1>e DEF EnqLinkLate, TypeOK, EnqueueStages, DequeueStages
<1>2. ChainInv'
  BY <1>a, <1>c, <1>d, Linked1 DEF EnqLinkLate
<1>3. LockInv'
  BY <1>0 DEF EnqLinkLate, Goto, Others, LockInv, TypeOK, TailSection, HeadSection, DequeueStages
<1>4. NodeLockInv'
  BY <1>0 DEF EnqLinkLate, Goto, Others, NodeLockInv, TypeOK
<1>5. TailInv'
  BY <1>0, <1>b, <1>d, <1>e DEF EnqLinkLate, TailInv, Others, TailSection
<1>6. EnqInv'
  <2>1. \A u \in Threads : u # t /\ Unlinked(u) => node[u] # node[t]
    BY <1>0 DEF EnqInv, Unlinked
  <2>2. \A u \in Threads : u # t /\ Unlinked(u) => node[u] # old[t]
    BY <1>d, <1>e DEF EnqInv, InChain
  <2> QED BY <1>0, <1>f, <2>1, <2>2 DEF EnqLinkLate, EnqInv, Others, Unlinked, TypeOK, EnqueueStages
<1>7. DeqInv'
  BY <1>0 DEF EnqLinkLate, Goto, Others, DeqInv, TypeOK, InChain, Retired, Unlinked
<1> QED BY <1>0, <1>1, <1>2, <1>3, <1>4, <1>5, <1>6, <1>7 DEF EndInv

LEMMA EnqUnlockInv ==
    ASSUME IInv, status = "ready", NEW t \in Threads, EnqUnlock(t) PROVE IInv'
<1> USE FGQueueAssumption DEF IInv
<1>0. /\ pc[t] = "enq_unlock" /\ pc' = [pc EXCEPT ![t] = "enq_size"] /\ pc'[t] = "enq_size"
      /\ Others(t) /\ status' = "ready"
  BY DEF EnqUnlock, Goto, memory, TypeOK, Others
<1>1. TypeOK'
  BY <1>0 DEF EnqUnlock, Goto, memory, Others, TypeOK, EnqueueStages, DequeueStages
<1>2. ChainInv'
  BY <1>0 DEF EnqUnlock, Goto, memory, Others, ChainInv, TypeOK
<1>3. LockInv'
  BY <1>0 DEF EnqUnlock, Goto, memory, Others, LockInv, TypeOK, TailSection, HeadSection, DequeueStages
<1>4. NodeLockInv'
  BY <1>0 DEF EnqUnlock, Goto, memory, Others, NodeLockInv, TypeOK
<1>5. TailInv'
  BY <1>0 DEF EnqUnlock, Goto, memory, Others, TailInv, TypeOK
<1>6. EnqInv'
  BY <1>0 DEF EnqUnlock, Goto, memory, Others, EnqInv, TypeOK, InChain, Unlinked, EnqueueStages
<1>7. DeqInv'
  BY <1>0 DEF EnqUnlock, Goto, memory, Others, DeqInv, TypeOK, InChain, Retired, Unlinked
<1> QED BY <1>0, <1>1, <1>2, <1>3, <1>4, <1>5, <1>6, <1>7 DEF EndInv

LEMMA EnqSizeInv ==
    ASSUME IInv, status = "ready", NEW t \in Threads, EnqSize(t) PROVE IInv'
<1> USE FGQueueAssumption DEF IInv
<1>0. /\ pc[t] = "enq_size" /\ pc' = [pc EXCEPT ![t] = "idle"] /\ pc'[t] = "idle"
      /\ Others(t) /\ status' = "ready"
  BY DEF EnqSize, Goto, Leave, memory, TypeOK, Others
<1>1. TypeOK'
  BY <1>0 DEF EnqSize, Goto, Leave, memory, Others, TypeOK, EnqueueStages, DequeueStages
<1>2. ChainInv'
  BY <1>0 DEF EnqSize, Goto, Leave, memory, Others, ChainInv, TypeOK
<1>3. LockInv'
  BY <1>0 DEF EnqSize, Goto, Leave, memory, Others, LockInv, TypeOK, TailSection, HeadSection, DequeueStages
<1>4. NodeLockInv'
  BY <1>0 DEF EnqSize, Goto, Leave, memory, Others, NodeLockInv, TypeOK
<1>5. TailInv'
  BY <1>0 DEF EnqSize, Goto, Leave, memory, Others, TailInv, TypeOK
<1>6. EnqInv'
  BY <1>0 DEF EnqSize, Goto, Leave, memory, Others, EnqInv, TypeOK, InChain, Unlinked, EnqueueStages
<1>7. DeqInv'
  BY <1>0 DEF EnqSize, Goto, Leave, memory, Others, DeqInv, TypeOK, InChain, Retired, Unlinked
<1> QED BY <1>0, <1>1, <1>2, <1>3, <1>4, <1>5, <1>6, <1>7 DEF EndInv

-----------------------------------------------------------------------------
\* Each step of fgq_dequeue preserves the invariant.

LEMMA CallDequeueInv ==
    ASSUME IInv, status = "ready", NEW t \in Threads, CallDequeue(t) PROVE IInv'
<1> USE FGQueueAssumption DEF IInv
<1>0. /\ pc[t] = "idle" /\ pc' = [pc EXCEPT ![t] = "deq_hlock"] /\ pc'[t] = "deq_hlock"
      /\ Others(t) /\ status' = "ready"
  BY DEF CallDequeue, Goto, memory, TypeOK, Others
<1>1. TypeOK'
  BY <1>0 DEF CallDequeue, Goto, memory, Others, TypeOK, EnqueueStages, DequeueStages
<1>2. ChainInv'
  BY <1>0 DEF CallDequeue, Goto, memory, Others, ChainInv, TypeOK
<1>3. LockInv'
  BY <1>0 DEF CallDequeue, Goto, memory, Others, LockInv, TypeOK, TailSection, HeadSection, DequeueStages
<1>4. NodeLockInv'
  BY <1>0 DEF CallDequeue, Goto, memory, Others, NodeLockInv, TypeOK
<1>5. TailInv'
  BY <1>0 DEF CallDequeue, Goto, memory, Others, TailInv, TypeOK
<1>6. EnqInv'
  BY <1>0 DEF CallDequeue, Goto, memory, Others, EnqInv, TypeOK, InChain, Unlinked, EnqueueStages
<1>7. DeqInv'
  BY <1>0 DEF CallDequeue, Goto, memory, Others, DeqInv, TypeOK, InChain, Retired, Unlinked
<1> QED BY <1>0, <1>1, <1>2, <1>3, <1>4, <1>5, <1>6, <1>7 DEF EndInv

LEMMA DeqHeadLockInv ==
    ASSUME IInv, status = "ready", NEW t \in Threads, DeqHeadLock(t) PROVE IInv'
<1> USE FGQueueAssumption DEF IInv
<1>0. /\ pc[t] = "deq_hlock" /\ pc' = [pc EXCEPT ![t] = "deq_nlock"] /\ pc'[t] = "deq_nlock"
      /\ Others(t) /\ status' = "ready"
  BY DEF DeqHeadLock, Goto, memory, TypeOK, Others
<1>1. TypeOK'
  BY <1>0 DEF DeqHeadLock, Goto, memory, Others, TypeOK, EnqueueStages, DequeueStages
<1>2. ChainInv'
  BY <1>0 DEF DeqHeadLock, Goto, memory, Others, ChainInv, TypeOK
<1>3. LockInv'
  BY <1>0 DEF DeqHeadLock, Goto, memory, Others, LockInv, TypeOK, TailSection, HeadSection, DequeueStages
<1>4. NodeLockInv'
  BY <1>0 DEF DeqHeadLock, Goto, memory, Others, NodeLockInv, TypeOK
<1>5. TailInv'
  BY <1>0 DEF DeqHeadLock, Goto, memory, Others, TailInv, TypeOK
<1>6. EnqInv'
  BY <1>0 DEF DeqHeadLock, Goto, memory, Others, EnqInv, TypeOK, InChain, Unlinked, EnqueueStages
<1>7. DeqInv'
  BY <1>0 DEF DeqHeadLock, Goto, memory, Others, DeqInv, TypeOK, InChain, Retired, Unlinked
<1> QED BY <1>0, <1>1, <1>2, <1>3, <1>4, <1>5, <1>6, <1>7 DEF EndInv

LEMMA DeqNodeLockInv ==
    ASSUME IInv, status = "ready", NEW t \in Threads, DeqNodeLock(t) PROVE IInv'
<1> USE FGQueueAssumption DEF IInv
<1>0. /\ pc[t] = "deq_nlock" /\ pc' = [pc EXCEPT ![t] = "deq_next"] /\ pc'[t] = "deq_next"
      /\ Others(t) /\ status' = "ready"
  BY DEF DeqNodeLock, Goto, TypeOK, Others
<1>1. TypeOK'
  <2>1. lock' \in [Nodes -> Threads \cup {NULL}]
    BY DEF DeqNodeLock, TypeOK
  <2> QED BY <1>0, <2>1 DEF DeqNodeLock, TypeOK, EnqueueStages, DequeueStages
<1>2. ChainInv'
  BY <1>0 DEF DeqNodeLock, Goto, Others, ChainInv, TypeOK
<1>3. LockInv'
  BY <1>0 DEF DeqNodeLock, Goto, Others, LockInv, TypeOK, TailSection, HeadSection, DequeueStages
<1>4. NodeLockInv'
  BY <1>0 DEF DeqNodeLock, Goto, Others, NodeLockInv, TypeOK
<1>5. TailInv'
  BY <1>0 DEF DeqNodeLock, Goto, Others, TailInv, TypeOK
<1>6. EnqInv'
  BY <1>0 DEF DeqNodeLock, Goto, Others, EnqInv, TypeOK, InChain, Unlinked, EnqueueStages
<1>7. DeqInv'
  BY <1>0 DEF DeqNodeLock, Goto, Others, DeqInv, TypeOK, InChain, Retired, Unlinked
<1> QED BY <1>0, <1>1, <1>2, <1>3, <1>4, <1>5, <1>6, <1>7 DEF EndInv

LEMMA DeqNextInv ==
    ASSUME IInv, status = "ready", NEW t \in Threads, DeqNext(t) PROVE IInv'
<1> USE FGQueueAssumption DEF IInv
<1>0. /\ pc[t] = "deq_next" /\ TRUE
      /\ Others(t) /\ status' = "ready"
  BY DEF DeqNext, Goto, memory, TypeOK, Others
<1>c. ChainInv BY DEF IInv
<1>b. \A u \in Threads : u # t => pc[u] \notin HeadSection
  BY <1>0, InHeadSection DEF HeadSection, DequeueStages
<1>a. /\ old[t] = head /\ head \in Nodes /\ next[head] \in Nodes \cup {NULL}
      /\ node' = [node EXCEPT ![t] = next[head]] /\ node'[t] = next[head]
  BY <1>0 DEF DeqNext, DeqInv, TypeOK
<1>d. /\ pc'[t] \in {"deq_empty", "deq_lock_next"}
      /\ pc'[t] = "deq_lock_next" => next[head] # NULL
      /\ pc' = [pc EXCEPT ![t] = pc'[t]]
  BY <1>0, <1>a DEF DeqNext, TypeOK
<1>e. next[head] # NULL => Len(chain) > 1 /\ next[head] = chain[2]
  <2>1. Len(chain) \in Nat /\ Len(chain) > 0 BY ChainEnds
  <2>2. next[head] # NULL => Len(chain) # 1 BY <1>c DEF ChainInv
  <2>3. Len(chain) > 1 => next[chain[1]] = chain[2]
    <3>1. Len(chain) > 1 => 1 \in 1 .. Len(chain) - 1 BY <2>1
    <3> QED BY <1>c, <3>1 DEF ChainInv
  <2> QED BY <1>c, <2>1, <2>2, <2>3 DEF ChainInv
<1>1. TypeOK'
  BY <1>0, <1>a, <1>d DEF DeqNext, memory, TypeOK, EnqueueStages, DequeueStages
<1>2. ChainInv'
  BY <1>0 DEF DeqNext, Goto, memory, Others, ChainInv, TypeOK
<1>3. LockInv'
  BY <1>0, <1>d DEF DeqNext, memory, Others, LockInv, TypeOK, TailSection, HeadSection, DequeueStages
<1>4. NodeLockInv'
  BY <1>0, <1>a, <1>d DEF DeqNext, memory, Others, NodeLockInv, TypeOK
<1>5. TailInv'
  BY <1>0, <1>d DEF DeqNext, memory, Others, TailInv, TypeOK
<1>6. EnqInv'
  BY <1>0, <1>d DEF DeqNext, memory, Others, EnqInv, TypeOK, InChain, Unlinked, EnqueueStages
<1>7. DeqInv'
  BY <1>0, <1>a, <1>b, <1>d, <1>e DEF DeqNext, memory, Others, DeqInv, TypeOK, InChain, Retired, Unlinked, HeadSection, DequeueStages
<1> QED BY <1>0, <1>1, <1>2, <1>3, <1>4, <1>5, <1>6, <1>7 DEF EndInv

LEMMA DeqEmptyInv ==
    ASSUME IInv, status = "ready", NEW t \in Threads, DeqEmpty(t) PROVE IInv'
<1> USE FGQueueAssumption DEF IInv
<1>0. /\ pc[t] = "deq_empty" /\ pc' = [pc EXCEPT ![t] = "deq_hunlock"] /\ pc'[t] = "deq_hunlock"
      /\ Others(t) /\ status' = "ready"
  BY DEF DeqEmpty, Goto, TypeOK, Others
<1>1. TypeOK'
  BY <1>0 DEF DeqEmpty, Goto, Others, TypeOK, EnqueueStages, DequeueStages
<1>2. ChainInv'
  BY <1>0 DEF DeqEmpty, Goto, Others, ChainInv, TypeOK
<1>3. LockInv'
  BY <1>0 DEF DeqEmpty, Goto, Others, LockInv, TypeOK, TailSection, HeadSection, DequeueStages
<1>4. NodeLockInv'
  BY <1>0 DEF DeqEmpty, Goto, Others, NodeLockInv, TypeOK
<1>5. TailInv'
  BY <1>0 DEF DeqEmpty, Goto, Others, TailInv, TypeOK
<1>6. EnqInv'
  BY <1>0 DEF DeqEmpty, Goto, Others, EnqInv, TypeOK, InChain, Unlinked, EnqueueStages
<1>7. DeqInv'
  BY <1>0 DEF DeqEmpty, Goto, Others, DeqInv, TypeOK, InChain, Retired, Unlinked
<1> QED BY <1>0, <1>1, <1>2, <1>3, <1>4, <1>5, <1>6, <1>7 DEF EndInv

LEMMA DeqLockNextInv ==
    ASSUME IInv, status = "ready", NEW t \in Threads, DeqLockNext(t) PROVE IInv'
<1> USE FGQueueAssumption DEF IInv
<1>0. /\ pc[t] = "deq_lock_next" /\ pc' = [pc EXCEPT ![t] = "deq_move"] /\ pc'[t] = "deq_move"
      /\ Others(t) /\ status' = "ready"
  BY DEF DeqLockNext, Goto, TypeOK, Others
<1>1. TypeOK'
  <2>1. pc' \in [Threads -> {"idle"} \cup EnqueueStages \cup DequeueStages]
    BY <1>0 DEF TypeOK, DequeueStages
  <2>2. lock' \in [Nodes -> Threads \cup {NULL}]
    BY DEF DeqLockNext, TypeOK
  <2> QED BY <2>1, <2>2 DEF DeqLockNext, TypeOK
<1>2. ChainInv'
  BY <1>0 DEF DeqLockNext, Goto, Others, ChainInv, TypeOK
<1>3. LockInv'
  BY <1>0 DEF DeqLockNext, Goto, Others, LockInv, TypeOK, TailSection, HeadSection, DequeueStages
<1>4. NodeLockInv'
  BY <1>0 DEF DeqLockNext, Goto, Others, NodeLockInv, TypeOK
<1>5. TailInv'
  BY <1>0 DEF DeqLockNext, Goto, Others, TailInv, TypeOK
<1>6. EnqInv'
  BY <1>0 DEF DeqLockNext, Goto, Others, EnqInv, TypeOK, InChain, Unlinked, EnqueueStages
<1>7. DeqInv'
  BY <1>0 DEF DeqLockNext, Goto, Others, DeqInv, TypeOK, InChain, Retired, Unlinked
<1> QED BY <1>0, <1>1, <1>2, <1>3, <1>4, <1>5, <1>6, <1>7 DEF EndInv

LEMMA DeqMoveInv ==
    ASSUME IInv, status = "ready", NEW t \in Threads, DeqMove(t) PROVE IInv'
<1> USE FGQueueAssumption DEF IInv
<1>0. /\ pc[t] = "deq_move" /\ pc' = [pc EXCEPT ![t] = "deq_take"] /\ pc'[t] = "deq_take"
      /\ Others(t) /\ status' = "ready"
  BY DEF DeqMove, Goto, memory, TypeOK, Others
<1>c. ChainInv BY DEF IInv
<1>b. \A u \in Threads : u # t => pc[u] \notin HeadSection
  BY <1>0, InHeadSection DEF HeadSection, DequeueStages
<1>a. /\ old[t] = head /\ Len(chain) > 1 /\ node[t] = chain[2]
      /\ Len(chain) \in Nat /\ \A i \in 1 .. Len(chain) : chain[i] \in Nodes
  BY <1>0, ChainEnds DEF DeqInv
<1>e. /\ Len(chain') = Len(chain) - 1
      /\ \A i \in 1 .. Len(chain) - 1 : chain'[i] = chain[i + 1]
      /\ chain' \in Seq(Nodes) /\ chain' # <<>>
  BY <1>a, Shortened DEF DeqMove
<1>f. /\ \A m : InChain(m)' => InChain(m)
      /\ \A i \in 1 .. Len(chain) - 1 : chain'[i] # head
  <2>1. \A i \in 1 .. Len(chain) - 1 : i + 1 \in 1 .. Len(chain) /\ i + 1 # 1
    BY <1>a
  <2>2. 1 \in 1 .. Len(chain) BY <1>a
  <2> QED BY <1>c, <1>e, <2>1, <2>2 DEF InChain, ChainInv
<1>g. chain[1] \in live /\ chain[2] \in live /\ value[chain[2]] \in Values /\ InChain(head)
  <2>1. 1 \in 1 .. Len(chain) /\ 2 \in 1 .. Len(chain) /\ 2 \in 2 .. Len(chain)
    BY <1>a
  <2> QED BY <1>c, <2>1 DEF ChainInv, InChain
<1>1. TypeOK'
  BY <1>0, <1>a, <1>e DEF DeqMove, memory, TypeOK, EnqueueStages, DequeueStages
<1>2. ChainInv'
  <2>1. /\ \A i \in 1 .. Len(chain) - 1 : i + 1 \in 1 .. Len(chain)
        /\ \A i \in 1 .. Len(chain) - 2 : i + 1 \in 1 .. Len(chain) - 1 /\ i \in 1 .. Len(chain) - 1
        /\ \A i \in 2 .. Len(chain) - 1 : i + 1 \in 2 .. Len(chain) /\ i \in 1 .. Len(chain) - 1
        /\ (Len(chain) - 1) + 1 = Len(chain) /\ (Len(chain) - 1) - 1 = Len(chain) - 2
        /\ 1 \in 1 .. Len(chain) - 1 /\ Len(chain) - 1 \in 1 .. Len(chain) - 1
    BY <1>a
  <2>2. chain'[1] = node[t] /\ head' = node[t] BY <1>a, <1>e, <2>1 DEF DeqMove
  <2>3. UNCHANGED <<next, value, live>> BY DEF DeqMove, memory
  <2>4. \A i, j \in 1 .. Len(chain) - 1 : chain'[i] = chain'[j] => i = j
    BY <1>a, <1>c, <1>e, <2>1 DEF ChainInv
  <2>5. \A i \in 1 .. Len(chain) - 2 : next[chain'[i]] = chain'[i + 1]
    BY <1>a, <1>c, <1>e, <2>1 DEF ChainInv
  <2>6. \A i \in 2 .. Len(chain) - 1 : value[chain'[i]] \in Values
    BY <1>a, <1>c, <1>e, <2>1 DEF ChainInv
  <2>7. \A i \in 1 .. Len(chain) - 1 : chain'[i] \in live
    BY <1>a, <1>c, <1>e, <2>1 DEF ChainInv
  <2>8. next[chain'[Len(chain')]] = NULL
    BY <1>a, <1>c, <1>e, <2>1 DEF ChainInv
  <2> QED BY <1>e, <2>1, <2>2, <2>3, <2>4, <2>5, <2>6, <2>7, <2>8 DEF ChainInv
<1>3. LockInv'
  BY <1>0 DEF DeqMove, Goto, memory, Others, LockInv, TypeOK, TailSection, HeadSection, DequeueStages
<1>4. NodeLockInv'
  BY <1>0 DEF DeqMove, Goto, memory, Others, NodeLockInv, TypeOK
<1>5. TailInv'
  <2>1. chain'[Len(chain')] = chain[Len(chain)]
    BY <1>a, <1>e
  <2> QED BY <1>0, <2>1 DEF DeqMove, memory, TailInv, Others, TypeOK
<1>6. EnqInv'
  BY <1>0, <1>f DEF DeqMove, memory, Others, EnqInv, TypeOK, Unlinked, EnqueueStages
<1>7. DeqInv'
  <2>1. \A u \in Threads : Unlinked(u) => node[u] # head
    BY <1>g DEF EnqInv
  <2>2. head' = chain[2] /\ old[t] = chain[1] /\ chain[1] = head
    BY <1>a, <1>c DEF DeqMove, ChainInv
  <2>3. ~(\E i \in 1 .. Len(chain') : chain'[i] = old[t])
    BY <1>a, <1>e, <1>f
  <2>4. UNCHANGED <<value, next, lock, live, node, old, val>> BY DEF DeqMove, memory
  <2>5. \A u \in Threads : u # t => pc'[u] \notin HeadSection /\ pc'[u] = pc[u]
    BY <1>0, <1>b DEF Others
  <2>6. \A u \in Threads : Unlinked(u)' <=> Unlinked(u)
    BY <1>0, <2>5 DEF Unlinked
  <2>7. val[t] = NULL BY <1>0 DEF DeqInv
  <2>8. /\ Retired(t)' => /\ node'[t] = head' /\ old'[t] \in live' /\ ~InChain(old[t])'
                          /\ \A u \in Threads : Unlinked(u)' => node'[u] # old'[t]
        /\ value'[head'] \in Values
    BY <1>a, <1>g, <2>1, <2>2, <2>3, <2>4, <2>6 DEF InChain
  <2> QED BY <1>0, <2>4, <2>5, <2>7, <2>8 DEF DeqInv, Retired, HeadSection, DequeueStages
<1> QED BY <1>0, <1>1, <1>2, <1>3, <1>4, <1>5, <1>6, <1>7 DEF EndInv

LEMMA DeqTakeInv ==
    ASSUME IInv, status = "ready", NEW t \in Threads, DeqTake(t) PROVE IInv'
<1> USE FGQueueAssumption DEF IInv
<1>0. /\ pc[t] = "deq_take" /\ pc' = [pc EXCEPT ![t] = "deq_unlock_next"] /\ pc'[t] = "deq_unlock_next"
      /\ Others(t) /\ status' = "ready"
  BY DEF DeqTake, Goto, TypeOK, Others
<1>c. ChainInv BY DEF IInv
<1>b. \A u \in Threads : u # t => pc[u] \notin HeadSection
  BY <1>0, InHeadSection DEF HeadSection, DequeueStages
<1>a. node[t] = head /\ head \in Nodes /\ value[head] \in Values
  BY <1>0 DEF DeqInv, Retired, TypeOK
<1>d. /\ Len(chain) \in Nat /\ chain[1] = head
      /\ \A i \in 2 .. Len(chain) : chain[i] # head
  <2>1. Len(chain) \in Nat /\ Len(chain) > 0 BY ChainEnds
  <2>2. 1 \in 1 .. Len(chain) /\ \A i \in 2 .. Len(chain) : i \in 1 .. Len(chain) /\ i # 1
    BY <2>1
  <2> QED BY <1>c, <2>1, <2>2 DEF ChainInv
<1>1. TypeOK'
  BY <1>0, <1>a DEF DeqTake, TypeOK, EnqueueStages, DequeueStages
<1>2. ChainInv'
  <2>1. \A i \in 2 .. Len(chain) : value'[chain[i]] = value[chain[i]]
    BY <1>a, <1>d, ChainEnds DEF DeqTake, TypeOK
  <2> QED BY <1>c, <2>1 DEF DeqTake, ChainInv
<1>3. LockInv'
  BY <1>0 DEF DeqTake, Goto, Others, LockInv, TypeOK, TailSection, HeadSection, DequeueStages
<1>4. NodeLockInv'
  BY <1>0 DEF DeqTake, Goto, Others, NodeLockInv, TypeOK
<1>5. TailInv'
  BY <1>0 DEF DeqTake, Goto, Others, TailInv, TypeOK
<1>6. EnqInv'
  <2>1. \A u \in Threads : Unlinked(u) => node[u] # head
    <3>1. InChain(head) BY <1>d, ChainEnds DEF InChain
    <3> QED BY <3>1 DEF EnqInv
  <2> QED BY <1>0, <1>a, <2>1 DEF DeqTake, Others, EnqInv, TypeOK, InChain, Unlinked, EnqueueStages
<1>7. DeqInv'
  BY <1>0, <1>a, <1>b DEF DeqTake, Others, DeqInv, TypeOK, InChain, Retired, Unlinked, HeadSection, DequeueStages
<1> QED BY <1>0, <1>1, <1>2, <1>3, <1>4, <1>5, <1>6, <1>7 DEF EndInv

LEMMA DeqUnlockNextInv ==
    ASSUME IInv, status = "ready", NEW t \in Threads, DeqUnlockNext(t) PROVE IInv'
<1> USE FGQueueAssumption DEF IInv
<1>0. /\ pc[t] = "deq_unlock_next" /\ pc' = [pc EXCEPT ![t] = "deq_free"] /\ pc'[t] = "deq_free"
      /\ Others(t) /\ status' = "ready"
  BY DEF DeqUnlockNext, Goto, TypeOK, Others
<1>1. TypeOK'
  BY <1>0 DEF DeqUnlockNext, Goto, Others, TypeOK, EnqueueStages, DequeueStages
<1>2. ChainInv'
  BY <1>0 DEF DeqUnlockNext, Goto, Others, ChainInv, TypeOK
<1>3. LockInv'
  BY <1>0 DEF DeqUnlockNext, Goto, Others, LockInv, TypeOK, TailSection, HeadSection, DequeueStages
<1>4. NodeLockInv'
  BY <1>0 DEF DeqUnlockNext, Goto, Others, NodeLockInv, TypeOK
<1>5. TailInv'
  BY <1>0 DEF DeqUnlockNext, Goto, Others, TailInv, TypeOK
<1>6. EnqInv'
  BY <1>0 DEF DeqUnlockNext, Goto, Others, EnqInv, TypeOK, InChain, Unlinked, EnqueueStages
<1>7. DeqInv'
  BY <1>0 DEF DeqUnlockNext, Goto, Others, DeqInv, TypeOK, InChain, Retired, Unlinked
<1> QED BY <1>0, <1>1, <1>2, <1>3, <1>4, <1>5, <1>6, <1>7 DEF EndInv

LEMMA DeqFreeInv ==
    ASSUME IInv, status = "ready", NEW t \in Threads, DeqFree(t) PROVE IInv'
<1> USE FGQueueAssumption DEF IInv
<1>0. /\ pc[t] = "deq_free" /\ pc' = [pc EXCEPT ![t] = "deq_size"] /\ pc'[t] = "deq_size"
      /\ Others(t) /\ status' = "ready"
  BY DEF DeqFree, Goto, TypeOK, Others
<1>c. ChainInv BY DEF IInv
<1>b. \A u \in Threads : u # t => pc[u] \notin HeadSection
  BY <1>0, InHeadSection DEF HeadSection, DequeueStages
<1>a. /\ old[t] \in live /\ ~InChain(old[t])
      /\ \A u \in Threads : Unlinked(u) => node[u] # old[t]
  BY <1>0 DEF DeqInv, Retired
<1>1. TypeOK'
  BY <1>0 DEF DeqFree, Goto, Others, TypeOK, EnqueueStages, DequeueStages
<1>2. ChainInv'
  BY <1>a, <1>c DEF DeqFree, ChainInv, InChain
<1>3. LockInv'
  BY <1>0 DEF DeqFree, Goto, Others, LockInv, TypeOK, TailSection, HeadSection, DequeueStages
<1>4. NodeLockInv'
  BY <1>0 DEF DeqFree, Goto, Others, NodeLockInv, TypeOK
<1>5. TailInv'
  BY <1>0 DEF DeqFree, Goto, Others, TailInv, TypeOK
<1>6. EnqInv'
  BY <1>0, <1>a DEF DeqFree, Others, EnqInv, TypeOK, InChain, Unlinked, EnqueueStages
<1>7. DeqInv'
  BY <1>0, <1>a, <1>b DEF DeqFree, Others, DeqInv, TypeOK, InChain, Retired, Unlinked, HeadSection, DequeueStages
<1> QED BY <1>0, <1>1, <1>2, <1>3, <1>4, <1>5, <1>6, <1>7 DEF EndInv

LEMMA DeqSizeInv ==
    ASSUME IInv, status = "ready", NEW t \in Threads, DeqSize(t) PROVE IInv'
<1> USE FGQueueAssumption DEF IInv
<1>0. /\ pc[t] = "deq_size" /\ pc' = [pc EXCEPT ![t] = "deq_hunlock"] /\ pc'[t] = "deq_hunlock"
      /\ Others(t) /\ status' = "ready"
  BY DEF DeqSize, Goto, memory, TypeOK, Others
<1>1. TypeOK'
  BY <1>0 DEF DeqSize, Goto, memory, Others, TypeOK, EnqueueStages, DequeueStages
<1>2. ChainInv'
  BY <1>0 DEF DeqSize, Goto, memory, Others, ChainInv, TypeOK
<1>3. LockInv'
  BY <1>0 DEF DeqSize, Goto, memory, Others, LockInv, TypeOK, TailSection, HeadSection, DequeueStages
<1>4. NodeLockInv'
  BY <1>0 DEF DeqSize, Goto, memory, Others, NodeLockInv, TypeOK
<1>5. TailInv'
  BY <1>0 DEF DeqSize, Goto, memory, Others, TailInv, TypeOK
<1>6. EnqInv'
  BY <1>0 DEF DeqSize, Goto, memory, Others, EnqInv, TypeOK, InChain, Unlinked, EnqueueStages
<1>7. DeqInv'
  BY <1>0 DEF DeqSize, Goto, memory, Others, DeqInv, TypeOK, InChain, Retired, Unlinked
<1> QED BY <1>0, <1>1, <1>2, <1>3, <1>4, <1>5, <1>6, <1>7 DEF EndInv

LEMMA DeqHeadUnlockInv ==
    ASSUME IInv, status = "ready", NEW t \in Threads, DeqHeadUnlock(t) PROVE IInv'
<1> USE FGQueueAssumption DEF IInv
<1>0. /\ pc[t] = "deq_hunlock" /\ pc' = [pc EXCEPT ![t] = "idle"] /\ pc'[t] = "idle"
      /\ Others(t) /\ status' = "ready"
  BY DEF DeqHeadUnlock, Goto, Leave, memory, TypeOK, Others
<1>1. TypeOK'
  BY <1>0 DEF DeqHeadUnlock, Goto, Leave, memory, Others, TypeOK, EnqueueStages, DequeueStages
<1>2. ChainInv'
  BY <1>0 DEF DeqHeadUnlock, Goto, Leave, memory, Others, ChainInv, TypeOK
<1>3. LockInv'
  BY <1>0 DEF DeqHeadUnlock, Goto, Leave, memory, Others, LockInv, TypeOK, TailSection, HeadSection, DequeueStages
<1>4. NodeLockInv'
  BY <1>0 DEF DeqHeadUnlock, Goto, Leave, memory, Others, NodeLockInv, TypeOK
<1>5. TailInv'
  BY <1>0 DEF DeqHeadUnlock, Goto, Leave, memory, Others, TailInv, TypeOK
<1>6. EnqInv'
  BY <1>0 DEF DeqHeadUnlock, Goto, Leave, memory, Others, EnqInv, TypeOK, InChain, Unlinked, EnqueueStages
<1>7. DeqInv'
  BY <1>0 DEF DeqHeadUnlock, Goto, Leave, memory, Others, DeqInv, TypeOK, InChain, Retired, Unlinked
<1> QED BY <1>0, <1>1, <1>2, <1>3, <1>4, <1>5, <1>6, <1>7 DEF EndInv

-----------------------------------------------------------------------------
\* How the queue ends, and the invariance theorem.

LEMMA EnqAbortInv ==
    ASSUME IInv, NEW t \in Threads, EnqAbort(t) PROVE IInv'
BY DEF EnqAbort, memory, locals, IInv, TypeOK, ChainInv, LockInv, NodeLockInv, TailInv, EnqInv,
       DeqInv, EndInv, InChain, Unlinked, Retired

LEMMA DestroyInv == ASSUME IInv, Destroy PROVE IInv'
<1>1. \A t \in Threads : pc[t] = "idle" /\ pc'[t] = "idle"
  BY DEF Destroy, locals
<1>2. TypeOK'
  BY DEF Destroy, locals, IInv, TypeOK
<1>3. LockInv' /\ NodeLockInv' /\ TailInv' /\ EndInv'
  BY <1>1 DEF Destroy, locals, IInv, TypeOK, LockInv, NodeLockInv, TailInv, EndInv
<1>4. EnqInv' /\ DeqInv'
  BY <1>1 DEF Destroy, EnqInv, DeqInv, Unlinked, Retired, EnqueueStages
<1> QED BY <1>2, <1>3, <1>4 DEF Destroy, IInv

LEMMA StutterInv == ASSUME IInv, UNCHANGED vars PROVE IInv'
BY DEF vars, memory, locals, IInv, TypeOK, ChainInv, LockInv, NodeLockInv, TailInv, EnqInv,
       DeqInv, EndInv, InChain, Unlinked, Retired

LEMMA StepInv == ASSUME IInv, [Next]_vars PROVE IInv'
<1>1. ASSUME status = "ready", NEW t \in Threads, Call(t) PROVE IInv'
  BY <1>1, CallEnqueueInv, CallDequeueInv DEF Call
<1>2. ASSUME status = "ready", NEW t \in Threads, EnqueueStep(t) PROVE IInv'
  BY <1>2, EnqAllocInv, EnqAbortInv, EnqLockInv, EnqLinkFirstInv, EnqSwingInv,
     EnqSwingFirstInv, EnqLinkLateInv, EnqUnlockInv, EnqSizeInv DEF EnqueueStep
<1>3. ASSUME status = "ready", NEW t \in Threads, DequeueStep(t) PROVE IInv'
  BY <1>3, DeqHeadLockInv, DeqNodeLockInv, DeqNextInv, DeqEmptyInv, DeqLockNextInv,
     DeqMoveInv, DeqTakeInv, DeqUnlockNextInv, DeqFreeInv, DeqSizeInv, DeqHeadUnlockInv
     DEF DequeueStep
<1>4. CASE Destroy BY <1>4, DestroyInv
<1>5. CASE UNCHANGED vars BY <1>5, StutterInv
<1> QED BY <1>1, <1>2, <1>3, <1>4, <1>5 DEF Next

\* The inductive invariant holds of every behaviour.
THEOREM Invariance == Spec => []IInv
<1>1. IInv /\ [Next]_vars => IInv' BY StepInv
<1> QED BY InitInv, <1>1, PTL DEF Spec

\* Every variable stays in its domain.
THEOREM Typing == Spec => []TypeOK
BY Invariance, PTL DEF IInv

\* No thread is about to touch a node that was freed (ThreadedQueue.c:96, :140).
THEOREM Safety == Spec => []NoUseAfterFree
<1>1. IInv => NoUseAfterFree
  <2> SUFFICES ASSUME IInv, NEW t \in Threads, pc[t] # "idle" PROVE Touches(t) \subseteq live
    BY DEF NoUseAfterFree, Touches
  <2>1. ChainInv BY DEF IInv, EndInv
  <2>2. /\ Len(chain) \in Nat /\ Len(chain) > 0 /\ chain[1] \in live
        /\ chain[Len(chain)] \in live
        /\ Len(chain) > 1 => chain[2] \in live
    <3>1. Len(chain) \in Nat /\ Len(chain) > 0 BY ChainEnds
    <3>2. /\ 1 \in 1 .. Len(chain) /\ Len(chain) \in 1 .. Len(chain)
          /\ Len(chain) > 1 => 2 \in 1 .. Len(chain)
      BY <3>1
    <3> QED BY <2>1, <3>1, <3>2 DEF ChainInv
  <2>3. pc[t] = "enq_link" => tail \in live
    <3> SUFFICES ASSUME pc[t] = "enq_link" PROVE tail \in live OBVIOUS
    <3>1. \A u \in Threads : u # t => pc[u] \notin TailSection
      BY InTailSection DEF TailSection
    <3>2. tail = chain[Len(chain)] BY <3>1 DEF IInv, TailInv, TailSection
    <3> QED BY <3>2, <2>2
  <2>4. pc[t] = "enq_late" => old[t] \in live
    BY <2>2 DEF IInv, TailInv
  <2>5. pc[t] \in {"deq_nlock", "deq_next", "deq_empty", "deq_free"} => old[t] \in live
    BY <2>1, <2>2 DEF IInv, ChainInv, DeqInv, Retired
  <2>6. pc[t] \in {"deq_lock_next", "deq_take", "deq_unlock_next"} => node[t] \in live
    BY <2>1, <2>2 DEF IInv, ChainInv, DeqInv, Retired
  <2> QED BY <2>3, <2>4, <2>5, <2>6 DEF Touches
<1> QED BY Invariance, <1>1, PTL

\* The lock of a node is free whenever a dequeuer asks for it (:114, :125).
THEOREM NodeLocks == Spec => []NodeLocksUncontended
<1>1. IInv => NodeLocksUncontended
  <2> SUFFICES ASSUME IInv, NEW t \in Threads
               PROVE  /\ pc[t] = "deq_nlock" => lock[old[t]] = NULL
                      /\ pc[t] = "deq_lock_next" => lock[node[t]] = NULL
    BY DEF NodeLocksUncontended
  <2>1. pc[t] # "idle" => ChainInv BY DEF IInv, EndInv
  <2>2. pc[t] \in {"deq_nlock", "deq_lock_next"} =>
            \A u \in Threads : u # t => pc[u] \notin HeadSection
    BY InHeadSection DEF HeadSection, DequeueStages
  <2>3. pc[t] = "deq_nlock" => old[t] \in live /\ old[t] \in Nodes
    <3>1. 1 \in 1 .. Len(chain) BY ChainEnds
    <3> QED BY <2>1, <3>1 DEF IInv, DeqInv, ChainInv, TypeOK
  <2>4. pc[t] = "deq_lock_next" => node[t] \in live /\ node[t] \in Nodes /\ node[t] # old[t]
    <3>1. Len(chain) > 1 => 1 \in 1 .. Len(chain) /\ 2 \in 1 .. Len(chain) BY ChainEnds
    <3> QED BY <2>1, <3>1 DEF IInv, DeqInv, ChainInv, TypeOK
  <2>5. \A n \in live : lock[n] \in Threads \cup {NULL}
    BY DEF IInv, TypeOK
  <2>6. pc[t] = "deq_nlock" => lock[old[t]] \notin Threads
    BY <2>2, <2>3 DEF IInv, NodeLockInv, HeadSection, DequeueStages
  <2>7. pc[t] = "deq_lock_next" => lock[node[t]] \notin Threads
    BY <2>2, <2>4 DEF IInv, NodeLockInv, HeadSection, DequeueStages
  <2> QED BY <2>3, <2>4, <2>5, <2>6, <2>7
<1> QED BY Invariance, <1>1, PTL

-----------------------------------------------------------------------------
\* No node leaks.  The invariant says that linked, unlinked and retired nodes
\* are allocated; what is left is that nothing else is.

\* Induction, in the form the provers can use: a set of numbers has a least one.
LEMMA LeastNumber ==
    ASSUME NEW S \in SUBSET Nat, S # {}
    PROVE  \E n \in S : \A m \in S : n <= m
<1> DEFINE Upto(n) == {m \in S : m <= n}
           R == StrictSubsetOrdering(Nat)
           F == FiniteSubsetsOf(Nat)
           T == {Upto(n) : n \in S}
<1>1. IsWellFoundedOn(R, F) BY FS_StrictSubsetOrderingWellFounded
<1>2. \A n \in S : Upto(n) \in F BY FS_BoundedSetOfNaturals DEF FiniteSubsetsOf
<1>3. T \subseteq F /\ T # {} BY <1>2
<1>4. ASSUME NEW n \in S, NEW m \in S, m < n PROVE <<Upto(m), Upto(n)>> \in R
  <2>1. n \in Upto(n) /\ n \notin Upto(m) BY <1>4
  <2>2. ASSUME NEW k \in Upto(m) PROVE k \in Upto(n)
    <3>1. k \in S /\ k <= m /\ k \in Nat /\ m \in Nat /\ n \in Nat OBVIOUS
    <3>2. k <= n BY <3>1, <1>4
    <3> QED BY <3>1, <3>2
  <2>3. Upto(m) \in SUBSET Nat /\ Upto(n) \in SUBSET Nat OBVIOUS
  <2> HIDE DEF Upto
  <2> QED BY <2>1, <2>2, <2>3 DEF StrictSubsetOrdering
<1>5. /\ \A m \in S : Upto(m) \in T
      /\ \A x \in T : \E n \in S : x = Upto(n)
  OBVIOUS
<1> HIDE DEF R, F, T, Upto
<1>6. PICK x \in T : \A y \in T : ~(<<y, x>> \in R) BY <1>1, <1>3, WFMin
<1>7. PICK n \in S : x = Upto(n) BY <1>5
<1>8. ASSUME NEW m \in S PROVE n <= m
  <2>1. ~(<<Upto(m), Upto(n)>> \in R) BY <1>5, <1>6, <1>7
  <2> QED BY <1>4, <2>1
<1> QED BY <1>8

\* The loop of fgq_destroy meets exactly the nodes of the chain.
LEMMA FromHeadIsChain ==
    ASSUME IInv, ChainInv PROVE \A n \in Nodes : n \in FromHead <=> InChain(n)
<1> DEFINE L == Len(chain)
<1>1. /\ L \in Nat /\ L > 0 /\ \A i \in 1 .. L : chain[i] \in Nodes
      /\ NULL \notin Nodes /\ chain[1] = head /\ next[chain[L]] = NULL
      /\ \A i \in 1 .. L - 1 : next[chain[i]] = chain[i + 1]
  BY ChainEnds, FGQueueAssumption DEF ChainInv
<1> HIDE DEF L
<1>2. ASSUME NEW n \in Nodes, n \in FromHead PROVE InChain(n)
  <2> DEFINE S == {chain[i] : i \in 1 .. L}
  <2>1. S \in SUBSET Nodes BY <1>1
  <2>2. head \in S BY <1>1
  <2>3. ASSUME NEW m \in S, next[m] # NULL PROVE next[m] \in S
    <3>1. PICK i \in 1 .. L : m = chain[i] OBVIOUS
    <3>2. i \in 1 .. L - 1 /\ i + 1 \in 1 .. L BY <1>1, <2>3, <3>1
    <3> QED BY <1>1, <3>1, <3>2
  <2> HIDE DEF S
  <2>4. n \in S BY <1>2, <2>1, <2>2, <2>3 DEF FromHead
  <2> QED BY <2>4 DEF S, L, InChain
<1>3. ASSUME NEW n \in Nodes, InChain(n) PROVE n \in FromHead
  <2> SUFFICES ASSUME NEW S \in SUBSET Nodes, head \in S,
                      \A m \in S : next[m] # NULL => next[m] \in S
               PROVE  n \in S
    BY DEF FromHead
  <2> DEFINE Out == {i \in 1 .. L : chain[i] \notin S}
  <2>1. Out = {}
    <3> SUFFICES ASSUME Out # {} PROVE FALSE OBVIOUS
    <3>1. Out \in SUBSET Nat BY <1>1
    <3>2. PICK k \in Out : \A i \in Out : k <= i
      <4> HIDE DEF Out
      <4> QED BY <3>1, LeastNumber
    <3>3. k \in 1 .. L /\ k # 1 BY <1>1
    <3>4. k - 1 \in 1 .. L - 1 /\ k - 1 \in 1 .. L /\ (k - 1) + 1 = k BY <1>1, <3>3
    <3>5. chain[k - 1] \in S BY <1>1, <3>2, <3>4
    <3>6. next[chain[k - 1]] = chain[k] /\ chain[k] # NULL BY <1>1, <3>3, <3>4
    <3> QED BY <3>2, <3>5, <3>6
  <2> QED BY <1>3, <2>1 DEF InChain, L
<1> QED BY <1>2, <1>3

\* Every allocated node is one that somebody will free.
Accounted(n) ==
    \/ InChain(n)
    \/ \E t \in Threads : Unlinked(t) /\ node[t] = n
    \/ \E t \in Threads : Retired(t) /\ old[t] = n
LiveInv ==
    /\ status = "ready" => \A n \in live : Accounted(n)
    /\ status = "destroyed" => live = {}

\* A step that only moves thread t on, and keeps the nodes that are its own.
LEMMA LiveKept ==
    ASSUME LiveInv, status = "ready", NEW t \in Threads, Others(t), UNCHANGED <<live, chain>>,
           Unlinked(t) => Unlinked(t)' /\ node'[t] = node[t],
           Retired(t) => Retired(t)' /\ old'[t] = old[t],
           status' = "ready"
    PROVE  LiveInv'
<1> SUFFICES ASSUME NEW n \in live PROVE Accounted(n)' BY DEF LiveInv
<1>1. Accounted(n) BY DEF LiveInv
<1>2. InChain(n) => InChain(n)' BY DEF InChain
<1>3. ASSUME NEW u \in Threads, u # t
      PROVE  (Unlinked(u)' <=> Unlinked(u)) /\ (Retired(u)' <=> Retired(u))
             /\ node'[u] = node[u] /\ old'[u] = old[u]
  BY <1>3 DEF Others, Unlinked, Retired
<1> QED BY <1>1, <1>2, <1>3 DEF Accounted

LEMMA EnqueueLive ==
    ASSUME IInv, LiveInv, status = "ready", NEW t \in Threads, EnqueueStep(t) PROVE LiveInv'
<1>1. ASSUME EnqAlloc(t) PROVE LiveInv'
  <2>1. PICK n \in Nodes \ live : live' = live \cup {n} /\ node' = [node EXCEPT ![t] = n]
    BY <1>1 DEF EnqAlloc
  <2>2. /\ pc[t] = "enq_alloc" /\ pc'[t] = "enq_lock" /\ node'[t] = n /\ chain' = chain
        /\ status' = "ready" /\ old' = old
        /\ \A u \in Threads \ {t} : pc'[u] = pc[u] /\ node'[u] = node[u]
    BY <1>1, <2>1 DEF EnqAlloc, Goto, IInv, TypeOK
  <2>3. Accounted(n)' BY <2>2 DEF Accounted, Unlinked
  <2>4. ASSUME NEW m \in live PROVE Accounted(m)'
    <3>1. Accounted(m) BY DEF LiveInv
    <3>2. \A u \in Threads : (Unlinked(u) => u # t /\ Unlinked(u)') /\ (Retired(u) => u # t /\ Retired(u)')
      BY <2>2 DEF Unlinked, Retired
    <3> QED BY <2>2, <3>1, <3>2 DEF Accounted, InChain
  <2> QED BY <2>1, <2>2, <2>3, <2>4 DEF LiveInv
<1>2. CASE EnqAbort(t) BY <1>2 DEF EnqAbort, LiveInv
<1>3. CASE EnqLock(t)
  BY <1>3, LiveKept DEF EnqLock, Goto, memory, IInv, TypeOK, Others, Unlinked, Retired
<1>4. ASSUME EnqLinkFirst(t) \/ EnqLinkLate(t) PROVE LiveInv'
  <2>1. /\ pc[t] \in {"enq_link", "enq_late"} /\ live' = live /\ node' = node /\ old' = old
        /\ chain' = Append(chain, node[t]) /\ status' = "ready" /\ node[t] \in Nodes
        /\ \A u \in Threads \ {t} : pc'[u] = pc[u]
    BY <1>4 DEF EnqLinkFirst, EnqLinkLate, Goto, IInv, TypeOK, EnqInv, Unlinked
  <2>2. \A m : InChain(m) \/ m = node[t] => InChain(m)'
    <3>1. /\ Len(chain) \in Nat /\ Len(chain') = Len(chain) + 1 /\ chain'[Len(chain) + 1] = node[t]
          /\ \A i \in 1 .. Len(chain) : chain'[i] = chain[i] /\ i \in 1 .. Len(chain) + 1
          /\ Len(chain) + 1 \in 1 .. Len(chain) + 1
      BY <2>1, ChainEnds, Appended
    <3> QED BY <3>1 DEF InChain
  <2>3. \A u \in Threads : (Unlinked(u) /\ u # t => Unlinked(u)') /\ (Retired(u) => Retired(u)')
    BY <2>1 DEF Unlinked, Retired
  <2>4. \A n \in live : Accounted(n)' BY <2>1, <2>2, <2>3 DEF LiveInv, Accounted
  <2> QED BY <2>1, <2>4 DEF LiveInv
<1>5. CASE EnqSwing(t)
  BY <1>5, LiveKept DEF EnqSwing, Goto, memory, IInv, TypeOK, Others, Unlinked, Retired
<1>6. CASE EnqSwingFirst(t)
  BY <1>6, LiveKept DEF EnqSwingFirst, Goto, memory, IInv, TypeOK, Others, Unlinked, Retired
<1>7. CASE EnqUnlock(t)
  BY <1>7, LiveKept DEF EnqUnlock, Goto, memory, IInv, TypeOK, Others, Unlinked, Retired
<1>8. CASE EnqSize(t)
  BY <1>8, LiveKept DEF EnqSize, Goto, Leave, memory, IInv, TypeOK, Others, Unlinked, Retired
<1> QED BY <1>1, <1>2, <1>3, <1>4, <1>5, <1>6, <1>7, <1>8 DEF EnqueueStep

LEMMA DequeueLive ==
    ASSUME IInv, LiveInv, status = "ready", NEW t \in Threads, DequeueStep(t) PROVE LiveInv'
<1>0. ChainInv BY DEF IInv
<1>1. CASE DeqHeadLock(t)
  BY <1>1, LiveKept DEF DeqHeadLock, Goto, memory, IInv, TypeOK, Others, Unlinked, Retired
<1>2. CASE DeqNodeLock(t)
  BY <1>2, LiveKept DEF DeqNodeLock, Goto, IInv, TypeOK, Others, Unlinked, Retired
<1>3. CASE DeqNext(t)
  BY <1>3, LiveKept DEF DeqNext, memory, IInv, TypeOK, Others, Unlinked, Retired
<1>4. CASE DeqEmpty(t)
  BY <1>4, LiveKept DEF DeqEmpty, Goto, IInv, TypeOK, Others, Unlinked, Retired
<1>5. CASE DeqLockNext(t)
  BY <1>5, LiveKept DEF DeqLockNext, Goto, IInv, TypeOK, Others, Unlinked, Retired
<1>6. ASSUME DeqMove(t) PROVE LiveInv'
  <2>1. /\ pc[t] = "deq_move" /\ pc'[t] = "deq_take" /\ live' = live /\ node' = node /\ old' = old
        /\ chain' = Tail(chain) /\ status' = "ready"
        /\ \A u \in Threads \ {t} : pc'[u] = pc[u]
    BY <1>6 DEF DeqMove, Goto, memory, IInv, TypeOK
  <2>2. old[t] = chain[1] /\ Len(chain) > 1 BY <1>0, <2>1 DEF IInv, DeqInv, ChainInv
  <2>3. ASSUME NEW m, InChain(m) PROVE InChain(m)' \/ m = old[t]
    <3>1. /\ Len(chain) \in Nat /\ Len(chain') = Len(chain) - 1
          /\ \A i \in 1 .. Len(chain) - 1 : chain'[i] = chain[i + 1]
      BY <2>1, <2>2, ChainEnds, Shortened
    <3>2. PICK i \in 1 .. Len(chain) : m = chain[i] BY <2>3 DEF InChain
    <3>3. CASE i # 1
      <4>1. i - 1 \in 1 .. Len(chain') /\ (i - 1) + 1 = i BY <3>1, <3>3
      <4> QED BY <3>1, <3>2, <4>1 DEF InChain
    <3> QED BY <2>2, <3>2, <3>3
  <2>4. /\ Retired(t)'
        /\ \A u \in Threads : (Unlinked(u) => Unlinked(u)') /\ (Retired(u) => Retired(u)')
    BY <2>1 DEF Unlinked, Retired
  <2>5. \A n \in live : Accounted(n)' BY <2>1, <2>3, <2>4 DEF LiveInv, Accounted
  <2> QED BY <2>1, <2>5 DEF LiveInv
<1>7. CASE DeqTake(t)
  BY <1>7, LiveKept DEF DeqTake, Goto, IInv, TypeOK, Others, Unlinked, Retired
<1>8. CASE DeqUnlockNext(t)
  BY <1>8, LiveKept DEF DeqUnlockNext, Goto, IInv, TypeOK, Others, Unlinked, Retired
<1>9. ASSUME DeqFree(t) PROVE LiveInv'
  <2>1. /\ pc[t] = "deq_free" /\ live' = live \ {old[t]} /\ node' = node /\ old' = old
        /\ chain' = chain /\ status' = "ready" /\ \A u \in Threads \ {t} : pc'[u] = pc[u]
    BY <1>9 DEF DeqFree, Goto, IInv, TypeOK
  <2>2. \A u \in Threads : /\ Unlinked(u) => Unlinked(u)'
                           /\ Retired(u) /\ old[u] # old[t] => Retired(u)'
    BY <2>1 DEF Unlinked, Retired
  <2>3. ASSUME NEW n \in live, n # old[t] PROVE Accounted(n)'
    BY <2>1, <2>2, <2>3 DEF LiveInv, Accounted, InChain
  <2> QED BY <2>1, <2>3 DEF LiveInv
<1>10. CASE DeqSize(t)
  BY <1>10, LiveKept DEF DeqSize, Goto, memory, IInv, TypeOK, Others, Unlinked, Retired
<1>11. CASE DeqHeadUnlock(t)
  BY <1>11, LiveKept DEF DeqHeadUnlock, Goto, Leave, memory, IInv, TypeOK, Others, Unlinked, Retired
<1> QED BY <1>1, <1>2, <1>3, <1>4, <1>5, <1>6, <1>7, <1>8, <1>9, <1>10, <1>11 DEF DequeueStep

LEMMA LiveInvariance == IInv /\ LiveInv /\ [Next]_vars => LiveInv'
<1> SUFFICES ASSUME IInv, LiveInv, [Next]_vars PROVE LiveInv' OBVIOUS
<1>1. ASSUME status = "ready", NEW t \in Threads, Call(t) PROVE LiveInv'
  <2>1. /\ pc[t] = "idle" /\ Others(t) /\ UNCHANGED <<live, chain>> /\ status' = "ready"
    BY <1>1 DEF Call, CallEnqueue, CallDequeue, Goto, memory, IInv, TypeOK, Others
  <2> QED BY <1>1, <2>1, LiveKept DEF Unlinked, Retired
<1>2. ASSUME Destroy, status = "ready" PROVE LiveInv'
  <2>1. ChainInv BY <1>2 DEF IInv
  <2>2. \A n \in live : InChain(n) BY <1>2 DEF Destroy, LiveInv, Accounted, Unlinked, Retired
  <2>3. \A n \in live : n \in FromHead BY <2>1, <2>2, FromHeadIsChain DEF IInv, TypeOK
  <2> QED BY <1>2, <2>3 DEF Destroy, LiveInv
<1>3. CASE UNCHANGED vars
  BY <1>3 DEF vars, memory, locals, LiveInv, Accounted, InChain, Unlinked, Retired
<1> QED BY <1>1, <1>2, <1>3, EnqueueLive, DequeueLive DEF Next

\* No node leaks: every allocated node is linked, private to its enqueuer or on
\* its way to free, and fgq_destroy frees all there are (:69-74, :80-101, :140).
THEOREM NothingLeaks == Spec => []NoLeak
<1>1. Init => LiveInv BY DEF Init, LiveInv, Accounted, InChain
<1>2. IInv /\ LiveInv => NoLeak
  <2> SUFFICES ASSUME IInv, LiveInv PROVE NoLeak OBVIOUS
  <2>1. ASSUME status = "ready"
        PROVE  live = FromHead \cup {node[t] : t \in {u \in Threads : Unlinked(u)}}
                               \cup {old[t] : t \in {u \in Threads : Retired(u)}}
    <3>1. ChainInv BY <2>1 DEF IInv
    <3>2. \A n \in live : n \in Nodes /\ Accounted(n) BY <2>1 DEF LiveInv, IInv, TypeOK
    <3>3. \A n \in FromHead : n \in live
      <4>1. \A n \in FromHead : n \in Nodes BY DEF FromHead
      <4>2. \A n \in FromHead : InChain(n) BY <3>1, <4>1, FromHeadIsChain
      <4> QED BY <3>1, <4>2 DEF ChainInv, InChain
    <3>4. /\ \A t \in Threads : Unlinked(t) => node[t] \in live
          /\ \A t \in Threads : Retired(t) => old[t] \in live
      BY DEF IInv, EnqInv, DeqInv
    <3> QED BY <3>1, <3>2, <3>3, <3>4, FromHeadIsChain DEF Accounted
  <2> QED BY <2>1 DEF NoLeak, LiveInv
<1> QED BY <1>1, <1>2, LiveInvariance, Invariance, PTL DEF Spec

-----------------------------------------------------------------------------
\* The counter.  What a call still owes it depends on where the call is.

LEMMA ModIs ==
    ASSUME NEW m \in Nat \ {0}, NEW q \in Int, NEW r \in 0 .. m - 1
    PROVE  (m * q + r) % m = r
OBVIOUS

LEMMA ModNext ==
    ASSUME NEW m \in Nat \ {0}, NEW a \in Int
    PROVE  ((a % m) + 1) % m = (a + 1) % m /\ ((a % m) - 1) % m = (a - 1) % m
<1> DEFINE q == a \div m
           r == a % m
<1>1. q \in Int /\ r \in 0 .. m - 1 /\ a = m * q + r OBVIOUS
<1> HIDE DEF q, r
<1>2. \A k \in Int, s \in 0 .. m - 1 : (m * k + s) % m = s BY ModIs
<1>3. (r + 1) % m = (a + 1) % m
  <2>1. CASE r + 1 < m
    <3>1. r + 1 \in 0 .. m - 1 /\ r + 1 = m * 0 + (r + 1) /\ a + 1 = m * q + (r + 1) BY <1>1, <2>1
    <3>2. (m * 0 + (r + 1)) % m = r + 1 /\ (m * q + (r + 1)) % m = r + 1 BY <1>1, <1>2, <3>1
    <3> QED BY <3>1, <3>2
  <2>2. CASE r + 1 = m
    <3>1. 0 \in 0 .. m - 1 /\ r + 1 = m * 1 + 0 /\ a + 1 = m * (q + 1) + 0 BY <1>1, <2>2
    <3>2. (m * 1 + 0) % m = 0 /\ (m * (q + 1) + 0) % m = 0 BY <1>1, <1>2, <3>1
    <3> QED BY <3>1, <3>2
  <2> QED BY <1>1, <2>1, <2>2
<1>4. (r - 1) % m = (a - 1) % m
  <2>1. CASE r > 0
    <3>1. r - 1 \in 0 .. m - 1 /\ r - 1 = m * 0 + (r - 1) /\ a - 1 = m * q + (r - 1) BY <1>1, <2>1
    <3>2. (m * 0 + (r - 1)) % m = r - 1 /\ (m * q + (r - 1)) % m = r - 1 BY <1>1, <1>2, <3>1
    <3> QED BY <3>1, <3>2
  <2>2. CASE r = 0
    <3>1. m - 1 \in 0 .. m - 1 /\ r - 1 = m * (-1) + (m - 1) /\ a - 1 = m * (q - 1) + (m - 1) BY <1>1, <2>2
    <3>2. (m * (-1) + (m - 1)) % m = m - 1 /\ (m * (q - 1) + (m - 1)) % m = m - 1 BY <1>1, <1>2, <3>1
    <3> QED BY <3>1, <3>2
  <2> QED BY <1>1, <2>1, <2>2
<1> QED BY <1>3, <1>4 DEF r

\* What a thread at stage p takes from the number of linked values, or adds.
Owes(p) ==
    IF p \in {"enq_swing", "enq_unlock", "enq_size"} THEN -1
    ELSE IF p \in {"deq_take", "deq_unlock_next", "deq_free", "deq_size"} THEN 1 ELSE 0

Balance == Linked - Cardinality(Uncounted) + Cardinality(Undiscounted)

\* One element more or less.
LEMMA Recount ==
    ASSUME NEW S, NEW T, IsFiniteSet(S), NEW x, S \ {x} = T \ {x}
    PROVE  /\ IsFiniteSet(T) /\ Cardinality(S) \in Nat
           /\ Cardinality(T) = Cardinality(S) + (IF x \in T THEN 1 ELSE 0)
                                              - (IF x \in S THEN 1 ELSE 0)
<1> DEFINE R == S \ {x}
<1>1. IsFiniteSet(R) /\ x \notin R BY FS_RemoveElement
<1>2. Cardinality(R) \in Nat BY <1>1, FS_CardinalityType
<1>3. IsFiniteSet(R \cup {x}) /\ Cardinality(R \cup {x}) = Cardinality(R) + 1
  BY <1>1, FS_AddElement
<1>4. S = (IF x \in S THEN R \cup {x} ELSE R) OBVIOUS
<1>5. T = (IF x \in T THEN R \cup {x} ELSE R) OBVIOUS
<1> HIDE DEF R
<1>6. Cardinality(S) = Cardinality(R) + (IF x \in S THEN 1 ELSE 0) BY <1>2, <1>3, <1>4
<1>7. IsFiniteSet(T) /\ Cardinality(T) = Cardinality(R) + (IF x \in T THEN 1 ELSE 0)
  <2>1. CASE x \in T BY <1>3, <1>5, <2>1
  <2>2. CASE x \notin T BY <1>1, <1>2, <1>5, <2>2
  <2> QED BY <2>1, <2>2
<1> QED BY <1>2, <1>6, <1>7

LEMMA BalanceMoves ==
    ASSUME IInv, NEW t \in Threads, Others(t), Len(chain') \in Nat
    PROVE  /\ Balance \in Int
           /\ Balance' = Balance + (Len(chain') - Len(chain)) + Owes(pc'[t]) - Owes(pc[t])
<1>1. Len(chain) \in Nat BY ChainEnds
<1>2. IsFiniteSet(Uncounted) /\ IsFiniteSet(Undiscounted)
  <2>1. Uncounted \in SUBSET Threads /\ Undiscounted \in SUBSET Threads
    BY DEF Uncounted, Undiscounted
  <2> QED BY <2>1, FS_Subset, FGQueueAssumption DEF FGQueueAssumption
<1>3. Uncounted \ {t} = Uncounted' \ {t} BY DEF Others, Uncounted
<1>4. Undiscounted \ {t} = Undiscounted' \ {t} BY DEF Others, Undiscounted, Retired
<1>5. /\ Cardinality(Uncounted) \in Nat
      /\ Cardinality(Uncounted') = Cardinality(Uncounted)
           + (IF t \in Uncounted' THEN 1 ELSE 0) - (IF t \in Uncounted THEN 1 ELSE 0)
  BY <1>2, <1>3, Recount
<1>6. /\ Cardinality(Undiscounted) \in Nat
      /\ Cardinality(Undiscounted') = Cardinality(Undiscounted)
           + (IF t \in Undiscounted' THEN 1 ELSE 0) - (IF t \in Undiscounted THEN 1 ELSE 0)
  BY <1>2, <1>4, Recount
<1>7. Owes(pc[t]) = (IF t \in Undiscounted THEN 1 ELSE 0) - (IF t \in Uncounted THEN 1 ELSE 0)
  BY DEF Owes, Undiscounted, Uncounted, Retired
<1>8. Owes(pc'[t]) = (IF t \in Undiscounted' THEN 1 ELSE 0) - (IF t \in Uncounted' THEN 1 ELSE 0)
  BY DEF Owes, Undiscounted, Uncounted, Retired
<1>9. Len(chain') \in Nat OBVIOUS
<1> DEFINE a == IF t \in Uncounted THEN 1 ELSE 0
           b == IF t \in Uncounted' THEN 1 ELSE 0
           c == IF t \in Undiscounted THEN 1 ELSE 0
           d == IF t \in Undiscounted' THEN 1 ELSE 0
           m == Len(chain)
           n == Len(chain')
           u == Cardinality(Uncounted)
           w == Cardinality(Undiscounted)
<1>10. a \in Int /\ b \in Int /\ c \in Int /\ d \in Int OBVIOUS
<1>11. Owes(pc[t]) = c - a /\ Owes(pc'[t]) = d - b
  BY ONLY <1>7, <1>8
<1>12. m \in Int /\ n \in Int /\ u \in Int /\ w \in Int BY ONLY <1>1, <1>5, <1>6, <1>9
<1>13. Balance = m - 1 - u + w /\ Balance' = n - 1 - (u + b - a) + (w + d - c)
  BY <1>5, <1>6 DEF Balance, Linked
<1> HIDE DEF a, b, c, d, m, n, u, w
<1>14. Balance \in Int /\ Balance' = Balance + (n - m) + (d - b) - (c - a)
  BY ONLY <1>10, <1>12, <1>13
<1> QED BY ONLY <1>11, <1>14 DEF m, n

\* A step that leaves the counter alone is about the length of the chain.
LEMMA SizeKept ==
    ASSUME IInv, SizeAccounting, NEW t \in Threads, Others(t), size' = size,
           Len(chain') \in Nat, Len(chain') + Owes(pc'[t]) = Len(chain) + Owes(pc[t])
    PROVE  SizeAccounting'
<1>1. Len(chain) \in Nat /\ Owes(pc'[t]) \in Int /\ Owes(pc[t]) \in Int
  BY ChainEnds DEF Owes
<1>2. Balance' = Balance BY <1>1, BalanceMoves
<1> QED BY <1>2 DEF SizeAccounting, Balance

LEMMA EnqueueCounts ==
    ASSUME IInv, SizeAccounting, NEW t \in Threads, EnqueueStep(t) PROVE SizeAccounting'
<1>0. /\ Len(chain) \in Nat
      /\ \A n \in Nodes : chain' = Append(chain, n) => Len(chain') = Len(chain) + 1
  BY ChainEnds, Appended
<1>1. CASE EnqAlloc(t) \/ EnqLock(t) \/ EnqSwing(t) \/ EnqSwingFirst(t) \/ EnqUnlock(t)
  <2>1. chain' = chain /\ size' = size /\ Others(t) /\ Owes(pc'[t]) = Owes(pc[t])
    BY <1>1 DEF EnqAlloc, EnqLock, EnqSwing, EnqSwingFirst, EnqUnlock, Goto, memory, IInv,
       TypeOK, Others, Owes
  <2> QED BY <1>0, <2>1, SizeKept
<1>2. CASE EnqLinkFirst(t) \/ EnqLinkLate(t)
  <2>1. /\ node[t] \in Nodes /\ chain' = Append(chain, node[t]) /\ size' = size /\ Others(t)
        /\ Owes(pc'[t]) = -1 /\ Owes(pc[t]) = 0
    BY <1>2 DEF EnqLinkFirst, EnqLinkLate, Goto, IInv, TypeOK, EnqInv, Unlinked, Others, Owes
  <2> QED BY <1>0, <2>1, SizeKept
<1>3. CASE EnqSize(t)
  <2>1. /\ chain' = chain /\ size' = (size + 1) % SizeMod /\ Others(t)
        /\ Owes(pc'[t]) = 0 /\ Owes(pc[t]) = -1
    BY <1>3 DEF EnqSize, Goto, Leave, memory, IInv, TypeOK, Others, Owes
  <2>2. Balance \in Int /\ Balance' = Balance + 1 BY <1>0, <2>1, BalanceMoves
  <2>3. size = Balance % SizeMod BY DEF SizeAccounting, Balance
  <2>4. size' = Balance' % SizeMod BY <2>1, <2>2, <2>3, ModNext, FGQueueAssumption DEF FGQueueAssumption
  <2> QED BY <2>4 DEF SizeAccounting, Balance
<1>4. CASE EnqAbort(t)
  BY <1>4 DEF EnqAbort, locals, SizeAccounting, Linked, Uncounted, Undiscounted, Retired
<1> QED BY <1>1, <1>2, <1>3, <1>4 DEF EnqueueStep

LEMMA DequeueCounts ==
    ASSUME IInv, SizeAccounting, NEW t \in Threads, DequeueStep(t) PROVE SizeAccounting'
<1>0. Len(chain) \in Nat BY ChainEnds
<1>1. CASE DeqHeadLock(t) \/ DeqNodeLock(t) \/ DeqNext(t) \/ DeqEmpty(t) \/ DeqLockNext(t)
           \/ DeqTake(t) \/ DeqUnlockNext(t) \/ DeqFree(t) \/ DeqHeadUnlock(t)
  <2>1. chain' = chain /\ size' = size /\ Others(t) /\ Owes(pc'[t]) = Owes(pc[t])
    BY <1>1 DEF DeqHeadLock, DeqNodeLock, DeqNext, DeqEmpty, DeqLockNext, DeqTake, DeqUnlockNext,
       DeqFree, DeqHeadUnlock, Goto, Leave, memory, IInv, TypeOK, Others, Owes
  <2> QED BY <1>0, <2>1, SizeKept
<1>2. CASE DeqMove(t)
  <2>1. /\ chain' = Tail(chain) /\ Len(chain) > 1 /\ size' = size /\ Others(t)
        /\ Owes(pc'[t]) = 1 /\ Owes(pc[t]) = 0
    BY <1>2 DEF DeqMove, Goto, memory, IInv, TypeOK, DeqInv, Others, Owes
  <2>2. Len(chain') = Len(chain) - 1 BY <2>1, Shortened
  <2> QED BY <1>0, <2>1, <2>2, SizeKept
<1>3. CASE DeqSize(t)
  <2>1. /\ chain' = chain /\ size' = (size - 1) % SizeMod /\ Others(t)
        /\ Owes(pc'[t]) = 0 /\ Owes(pc[t]) = 1
    BY <1>3 DEF DeqSize, Goto, memory, IInv, TypeOK, Others, Owes
  <2>2. Balance \in Int /\ Balance' = Balance - 1 BY <1>0, <2>1, BalanceMoves
  <2>3. size = Balance % SizeMod BY DEF SizeAccounting, Balance
  <2>4. size' = Balance' % SizeMod BY <2>1, <2>2, <2>3, ModNext, FGQueueAssumption DEF FGQueueAssumption
  <2> QED BY <2>4 DEF SizeAccounting, Balance
<1> QED BY <1>1, <1>2, <1>3 DEF DequeueStep

LEMMA InitCounts == ASSUME Init PROVE SizeAccounting
<1>1. Uncounted = {} /\ Undiscounted = {} BY DEF Init, Uncounted, Undiscounted, Retired
<1>2. Linked = 0 /\ size = 0 BY DEF Init, Linked
<1>3. 0 % SizeMod = 0
  <2>1. SizeMod \in Nat \ {0} BY FGQueueAssumption
  <2> QED BY <2>1
<1> QED BY <1>1, <1>2, <1>3, FS_EmptySet DEF SizeAccounting

LEMMA StepCounts == ASSUME IInv, SizeAccounting, [Next]_vars PROVE SizeAccounting'
<1>1. ASSUME NEW t \in Threads, Call(t) PROVE SizeAccounting'
  <2>1. chain' = chain /\ size' = size /\ Others(t) /\ Owes(pc'[t]) = Owes(pc[t])
    BY <1>1 DEF Call, CallEnqueue, CallDequeue, Goto, memory, IInv, TypeOK, Others, Owes
  <2> QED BY <2>1, ChainEnds, SizeKept
<1>2. CASE Destroy
  BY <1>2 DEF Destroy, locals, SizeAccounting, Linked, Uncounted, Undiscounted, Retired
<1>3. CASE UNCHANGED vars
  BY <1>3 DEF vars, locals, SizeAccounting, Linked, Uncounted, Undiscounted, Retired
<1> QED BY <1>1, <1>2, <1>3, EnqueueCounts, DequeueCounts DEF Next

\* The counter is the number of linked values, modulo its width, but for the calls
\* between their link or unhook and their atomic update (:100, :142).
THEOREM Counting == Spec => []SizeAccounting
<1>1. Init => SizeAccounting BY InitCounts
<1>2. IInv /\ SizeAccounting /\ [Next]_vars => SizeAccounting' BY StepCounts
<1> QED BY <1>1, <1>2, Invariance, PTL DEF Spec

-----------------------------------------------------------------------------
\* The queue implements the abstract FIFO queue: the store that links a node is
\* Enqueue, the store to q->head is Dequeue, reading a null next is
\* DequeueEmpty, and no other step inside a call is seen.

\* The abstract call of a thread, from its stage, its value and the value of
\* the node it holds.
OpOf(p, v, w) ==
    [stage |-> StageOf(p),
     val   |-> CASE p = "deq_take" -> w
               [] p \in {"enq_swing", "enq_unlock", "enq_size"} -> NULL
               [] OTHER -> v]

Untouched(t) ==
    \A u \in Threads \ {t} :
        /\ pc'[u] = pc[u] /\ val'[u] = val[u]
        /\ pc[u] = "deq_take" => value'[node'[u]] = value[node[u]]

LEMMA OpMove ==
    ASSUME TypeOK, TypeOK', NEW t \in Threads, Untouched(t)
    PROVE  /\ Op' = [Op EXCEPT ![t] = OpOf(pc'[t], val'[t], value'[node'[t]])]
           /\ Op[t] = OpOf(pc[t], val[t], value[node[t]])
<1>1. /\ Op = [u \in Threads |-> OpOf(pc[u], val[u], value[node[u]])]
      /\ Op' = [u \in Threads |-> OpOf(pc'[u], val'[u], value'[node'[u]])]
  BY DEF Op, OpOf
<1>2. \A u \in Threads \ {t} :
        OpOf(pc'[u], val'[u], value'[node'[u]]) = OpOf(pc[u], val[u], value[node[u]])
  <2> SUFFICES ASSUME NEW u \in Threads \ {t}
               PROVE  OpOf(pc'[u], val'[u], value'[node'[u]]) = OpOf(pc[u], val[u], value[node[u]])
    OBVIOUS
  <2>1. CASE pc[u] = "deq_take" BY <2>1 DEF Untouched
  <2>2. CASE pc[u] # "deq_take" BY <2>2 DEF Untouched, OpOf
  <2> QED BY <2>1, <2>2
<1> QED BY <1>1, <1>2

LEMMA OpStutter ==
    ASSUME TypeOK, TypeOK', NEW t \in Threads, Untouched(t),
           OpOf(pc'[t], val'[t], value'[node'[t]]) = OpOf(pc[t], val[t], value[node[t]])
    PROVE  Op' = Op
<1>1. /\ Op = [u \in Threads |-> OpOf(pc[u], val[u], value[node[u]])]
      /\ Op' = [u \in Threads |-> OpOf(pc'[u], val'[u], value'[node'[u]])]
  BY DEF Op, OpOf
<1>2. \A u \in Threads :
        OpOf(pc'[u], val'[u], value'[node'[u]]) = OpOf(pc[u], val[u], value[node[u]])
  <2> SUFFICES ASSUME NEW u \in Threads \ {t}
               PROVE  OpOf(pc'[u], val'[u], value'[node'[u]]) = OpOf(pc[u], val[u], value[node[u]])
    OBVIOUS
  <2>1. CASE pc[u] = "deq_take" BY <2>1 DEF Untouched
  <2>2. CASE pc[u] # "deq_take" BY <2>2 DEF Untouched, OpOf
  <2> QED BY <2>1, <2>2
<1> QED BY <1>1, <1>2

LEMMA ContentsStutter == ASSUME UNCHANGED <<chain, value>> PROVE Contents' = Contents
BY DEF Contents

LEMMA ContentsAppend ==
    ASSUME IInv, ChainInv, NEW n \in Nodes, chain' = Append(chain, n), value' = value
    PROVE  Contents' = Append(Contents, value[n])
<1>1. Len(chain) \in Nat /\ Len(chain) > 0 BY ChainEnds
<1>2. /\ Len(chain') = Len(chain) + 1 /\ chain'[Len(chain) + 1] = n
      /\ \A i \in 1 .. Len(chain) : chain'[i] = chain[i]
  BY Appended
<1>3. \A i \in 1 .. Len(chain) : i + 1 \in 2 .. Len(chain) \/ i = Len(chain)
  BY <1>1
<1>4. Contents \in Seq(Values) /\ Len(Contents) = Len(chain) - 1
  <2>1. \A i \in 1 .. Len(chain) - 1 : i + 1 \in 2 .. Len(chain) BY <1>1
  <2>2. \A i \in 1 .. Len(chain) - 1 : value[chain[i + 1]] \in Values BY <2>1 DEF ChainInv
  <2> QED BY <1>1, <2>2 DEF Contents
<1>5. Append(Contents, value[n])
        = [i \in 1 .. Len(chain) |-> IF i = Len(chain) THEN value[n] ELSE Contents[i]]
  BY <1>1, <1>4
<1>6. Contents' = [i \in 1 .. Len(chain) |-> value[chain'[i + 1]]]
  <2>1. (Len(chain) + 1) - 1 = Len(chain) BY <1>1
  <2> QED BY <1>2, <2>1 DEF Contents
<1>7. \A i \in 1 .. Len(chain) :
        value[chain'[i + 1]] = IF i = Len(chain) THEN value[n] ELSE Contents[i]
  <2> SUFFICES ASSUME NEW i \in 1 .. Len(chain)
               PROVE  value[chain'[i + 1]] = IF i = Len(chain) THEN value[n] ELSE Contents[i]
    OBVIOUS
  <2>1. CASE i = Len(chain) BY <1>2, <2>1
  <2>2. CASE i # Len(chain)
    <3>1. i \in 1 .. Len(chain) - 1 /\ i + 1 \in 1 .. Len(chain) BY <1>1, <2>2
    <3> QED BY <1>2, <2>2, <3>1 DEF Contents
  <2> QED BY <2>1, <2>2
<1> QED BY <1>5, <1>6, <1>7

LEMMA TailAsFunction ==
    ASSUME NEW S, NEW s \in Seq(S), s # <<>>
    PROVE  Tail(s) = [i \in 1 .. Len(s) - 1 |-> s[i + 1]]
<1>1. /\ Tail(s) \in Seq(S) /\ Len(Tail(s)) = Len(s) - 1
      /\ \A i \in 1 .. Len(s) - 1 : Tail(s)[i] = s[i + 1]
  OBVIOUS
<1>2. Tail(s) = [i \in 1 .. Len(Tail(s)) |-> Tail(s)[i]]
  BY <1>1, LenProperties
<1> QED BY <1>1, <1>2

LEMMA ContentsTail ==
    ASSUME IInv, ChainInv, Len(chain) > 1, chain' = Tail(chain), value' = value
    PROVE  Contents # <<>> /\ Head(Contents) = value[chain[2]] /\ Contents' = Tail(Contents)
<1>1. Len(chain) \in Nat BY ChainEnds
<1>2. /\ Len(chain') = Len(chain) - 1
      /\ \A i \in 1 .. Len(chain) - 1 : chain'[i] = chain[i + 1]
  BY Shortened
<1>3. Contents \in Seq(Values) /\ Len(Contents) = Len(chain) - 1
  <2>1. \A i \in 1 .. Len(chain) - 1 : i + 1 \in 2 .. Len(chain) BY <1>1
  <2>2. \A i \in 1 .. Len(chain) - 1 : value[chain[i + 1]] \in Values BY <2>1 DEF ChainInv
  <2>3. Len(chain) - 1 \in Nat BY <1>1
  <2> QED BY <2>2, <2>3 DEF Contents
<1>4. Contents # <<>> /\ Head(Contents) = value[chain[2]]
  <2>1. 1 \in 1 .. Len(chain) - 1 BY <1>1
  <2>2. Contents[1] = value[chain[1 + 1]] BY <2>1 DEF Contents
  <2> QED BY <1>1, <1>3, <2>2
<1>5. Tail(Contents) = [i \in 1 .. Len(chain) - 2 |-> Contents[i + 1]]
  <2>1. (Len(chain) - 1) - 1 = Len(chain) - 2 BY <1>1
  <2> QED BY <1>3, <1>4, <2>1, TailAsFunction
<1>6. Contents' = [i \in 1 .. Len(chain) - 2 |-> value[chain'[i + 1]]]
  <2>1. (Len(chain) - 1) - 1 = Len(chain) - 2 BY <1>1
  <2> QED BY <1>2, <2>1 DEF Contents
<1>7. \A i \in 1 .. Len(chain) - 2 : value[chain'[i + 1]] = Contents[i + 1]
  <2> SUFFICES ASSUME NEW i \in 1 .. Len(chain) - 2
               PROVE  value[chain'[i + 1]] = Contents[i + 1]
    OBVIOUS
  <2>1. i + 1 \in 1 .. Len(chain) - 1 BY <1>1
  <2> QED BY <1>2, <2>1 DEF Contents
<1> QED BY <1>4, <1>5, <1>6, <1>7

LEMMA CallEnqueueFifo ==
    ASSUME IInv, IInv', NEW t \in Threads, NEW v \in Values, CallEnqueue(t, v), status = "ready"
    PROVE  Fifo!InvokeEnqueue(t, v)
<1>0. /\ pc[t] = "idle" /\ pc'[t] = "enq_alloc" /\ val'[t] = v
      /\ \A u \in Threads \ {t} : pc'[u] = pc[u] /\ val'[u] = val[u] /\ node'[u] = node[u]
  BY DEF CallEnqueue, Goto, memory, IInv, TypeOK
<1>1. Untouched(t)
  BY <1>0 DEF Untouched, CallEnqueue, memory, IInv
<1>2. Contents' = Contents
  BY ContentsStutter DEF CallEnqueue, memory
<1>3. /\ OpOf(pc[t], val[t], value[node[t]]) = [stage |-> "idle", val |-> val[t]]
      /\ OpOf(pc'[t], val'[t], value'[node'[t]]) = [stage |-> "enq", val |-> v]
  BY <1>0 DEF OpOf, StageOf
<1>4. /\ Op[t] = [stage |-> "idle", val |-> val[t]]
      /\ Op' = [Op EXCEPT ![t] = [stage |-> "enq", val |-> v]]
  BY <1>1, <1>3, OpMove DEF IInv
<1> QED BY <1>2, <1>4 DEF Fifo!InvokeEnqueue

LEMMA EnqAllocFifo ==
    ASSUME IInv, IInv', NEW t \in Threads, EnqAlloc(t), status = "ready"
    PROVE  UNCHANGED Fifo!vars
<1>0. /\ pc[t] = "enq_alloc" /\ pc'[t] = "enq_lock" /\ val'[t] = val[t]
      /\ \A u \in Threads \ {t} : pc'[u] = pc[u] /\ val'[u] = val[u] /\ node'[u] = node[u]
  BY DEF EnqAlloc, Goto, IInv, TypeOK
<1>c. ChainInv BY DEF IInv
<1>a. PICK n \in Nodes \ live : value' = [value EXCEPT ![n] = val[t]] /\ chain' = chain
  BY DEF EnqAlloc
<1>b. \A m \in live : value'[m] = value[m]
  BY <1>a DEF IInv, TypeOK
<1>1. Untouched(t)
  <2>1. \A u \in Threads : pc[u] = "deq_take" => node[u] \in live
    <3>1. 1 \in 1 .. Len(chain) BY ChainEnds
    <3> QED BY <1>c, <3>1 DEF IInv, DeqInv, Retired, ChainInv
  <2> QED BY <1>0, <1>b, <2>1 DEF Untouched
<1>2. Contents' = Contents
  <2>1. \A i \in 1 .. Len(chain) - 1 : i + 1 \in 1 .. Len(chain) BY ChainEnds
  <2>2. \A i \in 1 .. Len(chain) - 1 : value'[chain[i + 1]] = value[chain[i + 1]]
    BY <1>b, <1>c, <2>1 DEF ChainInv
  <2> QED BY <1>a, <2>2 DEF Contents
<1>3. OpOf(pc'[t], val'[t], value'[node'[t]]) = OpOf(pc[t], val[t], value[node[t]])
  BY <1>0 DEF OpOf, StageOf
<1>4. Op' = Op BY <1>1, <1>3, OpStutter DEF IInv
<1> QED BY <1>2, <1>4 DEF Fifo!vars

LEMMA EnqLockFifo ==
    ASSUME IInv, IInv', NEW t \in Threads, EnqLock(t), status = "ready"
    PROVE  UNCHANGED Fifo!vars
<1>0. /\ pc[t] = "enq_lock" /\ pc'[t] = "enq_link" /\ val'[t] = val[t]
      /\ \A u \in Threads \ {t} : pc'[u] = pc[u] /\ val'[u] = val[u] /\ node'[u] = node[u]
  BY DEF EnqLock, Goto, memory, IInv, TypeOK
<1>1. Untouched(t)
  BY <1>0 DEF Untouched, EnqLock, memory, IInv
<1>2. Contents' = Contents
  BY ContentsStutter DEF EnqLock, memory
<1>3. OpOf(pc'[t], val'[t], value'[node'[t]]) = OpOf(pc[t], val[t], value[node[t]])
  BY <1>0 DEF OpOf, StageOf
<1>4. Op' = Op BY <1>1, <1>3, OpStutter DEF IInv
<1> QED BY <1>2, <1>4 DEF Fifo!vars

LEMMA EnqLinkFirstFifo ==
    ASSUME IInv, IInv', NEW t \in Threads, EnqLinkFirst(t), status = "ready"
    PROVE  Fifo!Enqueue(t)
<1>0. /\ pc[t] = "enq_link" /\ pc'[t] = "enq_swing" /\ val'[t] = val[t]
      /\ \A u \in Threads \ {t} : pc'[u] = pc[u] /\ val'[u] = val[u] /\ node'[u] = node[u]
  BY DEF EnqLinkFirst, Goto, IInv, TypeOK
<1>c. ChainInv BY DEF IInv
<1>a. node[t] \in Nodes /\ value[node[t]] = val[t]
  BY <1>0 DEF IInv, EnqInv, Unlinked, TypeOK
<1>1. Untouched(t)
  BY <1>0 DEF Untouched, EnqLinkFirst, IInv
<1>2. Contents' = Append(Contents, val[t])
  BY <1>a, <1>c, ContentsAppend DEF EnqLinkFirst
<1>3. /\ OpOf(pc[t], val[t], value[node[t]]) = [stage |-> "enq", val |-> val[t]]
      /\ OpOf(pc'[t], val'[t], value'[node'[t]]) = [stage |-> "done", val |-> NULL]
  BY <1>0 DEF OpOf, StageOf
<1>4. /\ Op[t] = [stage |-> "enq", val |-> val[t]]
      /\ Op' = [Op EXCEPT ![t] = [stage |-> "done", val |-> NULL]]
  BY <1>1, <1>3, OpMove DEF IInv
<1> QED BY <1>2, <1>4 DEF Fifo!Enqueue

LEMMA EnqSwingFifo ==
    ASSUME IInv, IInv', NEW t \in Threads, EnqSwing(t), status = "ready"
    PROVE  UNCHANGED Fifo!vars
<1>0. /\ pc[t] = "enq_swing" /\ pc'[t] = "enq_unlock" /\ val'[t] = val[t]
      /\ \A u \in Threads \ {t} : pc'[u] = pc[u] /\ val'[u] = val[u] /\ node'[u] = node[u]
  BY DEF EnqSwing, Goto, memory, IInv, TypeOK
<1>1. Untouched(t)
  BY <1>0 DEF Untouched, EnqSwing, memory, IInv
<1>2. Contents' = Contents
  BY ContentsStutter DEF EnqSwing, memory
<1>3. OpOf(pc'[t], val'[t], value'[node'[t]]) = OpOf(pc[t], val[t], value[node[t]])
  BY <1>0 DEF OpOf, StageOf
<1>4. Op' = Op BY <1>1, <1>3, OpStutter DEF IInv
<1> QED BY <1>2, <1>4 DEF Fifo!vars

LEMMA EnqSwingFirstFifo ==
    ASSUME IInv, IInv', NEW t \in Threads, EnqSwingFirst(t), status = "ready"
    PROVE  UNCHANGED Fifo!vars
<1>0. /\ pc[t] = "enq_link" /\ pc'[t] = "enq_late" /\ val'[t] = val[t]
      /\ \A u \in Threads \ {t} : pc'[u] = pc[u] /\ val'[u] = val[u] /\ node'[u] = node[u]
  BY DEF EnqSwingFirst, Goto, memory, IInv, TypeOK
<1>1. Untouched(t)
  BY <1>0 DEF Untouched, EnqSwingFirst, memory, IInv
<1>2. Contents' = Contents
  BY ContentsStutter DEF EnqSwingFirst, memory
<1>3. OpOf(pc'[t], val'[t], value'[node'[t]]) = OpOf(pc[t], val[t], value[node[t]])
  BY <1>0 DEF OpOf, StageOf
<1>4. Op' = Op BY <1>1, <1>3, OpStutter DEF IInv
<1> QED BY <1>2, <1>4 DEF Fifo!vars

LEMMA EnqLinkLateFifo ==
    ASSUME IInv, IInv', NEW t \in Threads, EnqLinkLate(t), status = "ready"
    PROVE  Fifo!Enqueue(t)
<1>0. /\ pc[t] = "enq_late" /\ pc'[t] = "enq_unlock" /\ val'[t] = val[t]
      /\ \A u \in Threads \ {t} : pc'[u] = pc[u] /\ val'[u] = val[u] /\ node'[u] = node[u]
  BY DEF EnqLinkLate, Goto, IInv, TypeOK
<1>c. ChainInv BY DEF IInv
<1>a. node[t] \in Nodes /\ value[node[t]] = val[t]
  BY <1>0 DEF IInv, EnqInv, Unlinked, TypeOK
<1>1. Untouched(t)
  BY <1>0 DEF Untouched, EnqLinkLate, IInv
<1>2. Contents' = Append(Contents, val[t])
  BY <1>a, <1>c, ContentsAppend DEF EnqLinkLate
<1>3. /\ OpOf(pc[t], val[t], value[node[t]]) = [stage |-> "enq", val |-> val[t]]
      /\ OpOf(pc'[t], val'[t], value'[node'[t]]) = [stage |-> "done", val |-> NULL]
  BY <1>0 DEF OpOf, StageOf
<1>4. /\ Op[t] = [stage |-> "enq", val |-> val[t]]
      /\ Op' = [Op EXCEPT ![t] = [stage |-> "done", val |-> NULL]]
  BY <1>1, <1>3, OpMove DEF IInv
<1> QED BY <1>2, <1>4 DEF Fifo!Enqueue

LEMMA EnqUnlockFifo ==
    ASSUME IInv, IInv', NEW t \in Threads, EnqUnlock(t), status = "ready"
    PROVE  UNCHANGED Fifo!vars
<1>0. /\ pc[t] = "enq_unlock" /\ pc'[t] = "enq_size" /\ val'[t] = val[t]
      /\ \A u \in Threads \ {t} : pc'[u] = pc[u] /\ val'[u] = val[u] /\ node'[u] = node[u]
  BY DEF EnqUnlock, Goto, memory, IInv, TypeOK
<1>1. Untouched(t)
  BY <1>0 DEF Untouched, EnqUnlock, memory, IInv
<1>2. Contents' = Contents
  BY ContentsStutter DEF EnqUnlock, memory
<1>3. OpOf(pc'[t], val'[t], value'[node'[t]]) = OpOf(pc[t], val[t], value[node[t]])
  BY <1>0 DEF OpOf, StageOf
<1>4. Op' = Op BY <1>1, <1>3, OpStutter DEF IInv
<1> QED BY <1>2, <1>4 DEF Fifo!vars

LEMMA EnqSizeFifo ==
    ASSUME IInv, IInv', NEW t \in Threads, EnqSize(t), status = "ready"
    PROVE  Fifo!Return(t)
<1>0. /\ pc[t] = "enq_size" /\ pc'[t] = "idle" /\ val'[t] = NULL
      /\ \A u \in Threads \ {t} : pc'[u] = pc[u] /\ val'[u] = val[u] /\ node'[u] = node[u]
  BY DEF EnqSize, Goto, Leave, memory, IInv, TypeOK
<1>1. Untouched(t)
  BY <1>0 DEF Untouched, EnqSize, Leave, memory, IInv
<1>2. Contents' = Contents
  BY ContentsStutter DEF EnqSize, memory
<1>3. /\ OpOf(pc[t], val[t], value[node[t]]) = [stage |-> "done", val |-> NULL]
      /\ OpOf(pc'[t], val'[t], value'[node'[t]]) = [stage |-> "idle", val |-> NULL]
  BY <1>0 DEF OpOf, StageOf
<1>4. /\ Op[t] = [stage |-> "done", val |-> NULL]
      /\ Op' = [Op EXCEPT ![t] = [stage |-> "idle", val |-> NULL]]
  BY <1>1, <1>3, OpMove DEF IInv
<1> QED BY <1>2, <1>4 DEF Fifo!Return

LEMMA CallDequeueFifo ==
    ASSUME IInv, IInv', NEW t \in Threads, CallDequeue(t), status = "ready"
    PROVE  Fifo!InvokeDequeue(t)
<1>0. /\ pc[t] = "idle" /\ pc'[t] = "deq_hlock" /\ val'[t] = NULL
      /\ \A u \in Threads \ {t} : pc'[u] = pc[u] /\ val'[u] = val[u] /\ node'[u] = node[u]
  BY DEF CallDequeue, Goto, memory, IInv, TypeOK
<1>1. Untouched(t)
  BY <1>0 DEF Untouched, CallDequeue, memory, IInv
<1>2. Contents' = Contents
  BY ContentsStutter DEF CallDequeue, memory
<1>3. /\ OpOf(pc[t], val[t], value[node[t]]) = [stage |-> "idle", val |-> val[t]]
      /\ OpOf(pc'[t], val'[t], value'[node'[t]]) = [stage |-> "deq", val |-> NULL]
  BY <1>0 DEF OpOf, StageOf
<1>4. /\ Op[t] = [stage |-> "idle", val |-> val[t]]
      /\ Op' = [Op EXCEPT ![t] = [stage |-> "deq", val |-> NULL]]
  BY <1>1, <1>3, OpMove DEF IInv
<1> QED BY <1>2, <1>4 DEF Fifo!InvokeDequeue

LEMMA DeqHeadLockFifo ==
    ASSUME IInv, IInv', NEW t \in Threads, DeqHeadLock(t), status = "ready"
    PROVE  UNCHANGED Fifo!vars
<1>0. /\ pc[t] = "deq_hlock" /\ pc'[t] = "deq_nlock" /\ val'[t] = val[t]
      /\ \A u \in Threads \ {t} : pc'[u] = pc[u] /\ val'[u] = val[u] /\ node'[u] = node[u]
  BY DEF DeqHeadLock, Goto, memory, IInv, TypeOK
<1>1. Untouched(t)
  BY <1>0 DEF Untouched, DeqHeadLock, memory, IInv
<1>2. Contents' = Contents
  BY ContentsStutter DEF DeqHeadLock, memory
<1>3. OpOf(pc'[t], val'[t], value'[node'[t]]) = OpOf(pc[t], val[t], value[node[t]])
  BY <1>0 DEF OpOf, StageOf
<1>4. Op' = Op BY <1>1, <1>3, OpStutter DEF IInv
<1> QED BY <1>2, <1>4 DEF Fifo!vars

LEMMA DeqNodeLockFifo ==
    ASSUME IInv, IInv', NEW t \in Threads, DeqNodeLock(t), status = "ready"
    PROVE  UNCHANGED Fifo!vars
<1>0. /\ pc[t] = "deq_nlock" /\ pc'[t] = "deq_next" /\ val'[t] = val[t]
      /\ \A u \in Threads \ {t} : pc'[u] = pc[u] /\ val'[u] = val[u] /\ node'[u] = node[u]
  BY DEF DeqNodeLock, Goto, IInv, TypeOK
<1>1. Untouched(t)
  BY <1>0 DEF Untouched, DeqNodeLock, IInv
<1>2. Contents' = Contents
  BY ContentsStutter DEF DeqNodeLock
<1>3. OpOf(pc'[t], val'[t], value'[node'[t]]) = OpOf(pc[t], val[t], value[node[t]])
  BY <1>0 DEF OpOf, StageOf
<1>4. Op' = Op BY <1>1, <1>3, OpStutter DEF IInv
<1> QED BY <1>2, <1>4 DEF Fifo!vars

LEMMA DeqNextFifo ==
    ASSUME IInv, IInv', NEW t \in Threads, DeqNext(t), status = "ready"
    PROVE  Fifo!DequeueEmpty(t) \/ UNCHANGED Fifo!vars
<1>0. /\ pc[t] = "deq_next" /\ val'[t] = val[t] /\ val[t] = NULL
      /\ pc'[t] = IF next[old[t]] = NULL THEN "deq_empty" ELSE "deq_lock_next"
      /\ \A u \in Threads \ {t} : pc'[u] = pc[u] /\ val'[u] = val[u] /\ node'[u] = node[u]
  BY DEF DeqNext, memory, IInv, TypeOK, DeqInv
<1>1. Untouched(t)
  BY <1>0 DEF Untouched, DeqNext, memory
<1>2. Contents' = Contents
  BY ContentsStutter DEF DeqNext, memory
<1>3. CASE next[old[t]] = NULL
  <2>1. Contents = <<>>
    <3>1. ChainInv /\ old[t] = chain[1] BY <1>0 DEF IInv, DeqInv, ChainInv
    <3>2. Len(chain) \in Nat /\ Len(chain) > 0 BY ChainEnds
    <3>3. Len(chain) > 1 => next[chain[1]] \in Nodes
      <4>1. Len(chain) > 1 => 1 \in 1 .. Len(chain) - 1 /\ 1 + 1 \in 1 .. Len(chain) BY <3>2
      <4>2. Len(chain) > 1 => next[chain[1]] = chain[1 + 1] BY <3>1, <4>1 DEF ChainInv
      <4>3. Len(chain) > 1 => chain[1 + 1] \in Nodes BY <4>1, ChainEnds
      <4> QED BY <4>2, <4>3
    <3>4. next[chain[1]] = NULL BY <1>3, <3>1
    <3>5. Len(chain) = 1 \/ Len(chain) > 1 BY <3>2
    <3>6. Len(chain) = 1 BY <3>3, <3>4, <3>5, FGQueueAssumption
    <3> QED BY <3>6 DEF Contents
  <2>2. /\ OpOf(pc[t], val[t], value[node[t]]) = [stage |-> "deq", val |-> NULL]
        /\ OpOf(pc'[t], val'[t], value'[node'[t]]) = [stage |-> "done", val |-> NULL]
    BY <1>0, <1>3 DEF OpOf, StageOf
  <2>3. /\ Op[t] = [stage |-> "deq", val |-> NULL]
        /\ Op' = [Op EXCEPT ![t] = [stage |-> "done", val |-> NULL]]
    BY <1>1, <2>2, OpMove DEF IInv
  <2> QED BY <1>2, <2>1, <2>3 DEF Fifo!DequeueEmpty
<1>4. CASE next[old[t]] # NULL
  <2>1. OpOf(pc'[t], val'[t], value'[node'[t]]) = OpOf(pc[t], val[t], value[node[t]])
    BY <1>0, <1>4 DEF OpOf, StageOf
  <2>2. Op' = Op BY <1>1, <2>1, OpStutter DEF IInv
  <2> QED BY <1>2, <2>2 DEF Fifo!vars
<1> QED BY <1>3, <1>4

LEMMA DeqEmptyFifo ==
    ASSUME IInv, IInv', NEW t \in Threads, DeqEmpty(t), status = "ready"
    PROVE  UNCHANGED Fifo!vars
<1>0. /\ pc[t] = "deq_empty" /\ pc'[t] = "deq_hunlock" /\ val'[t] = val[t]
      /\ \A u \in Threads \ {t} : pc'[u] = pc[u] /\ val'[u] = val[u] /\ node'[u] = node[u]
  BY DEF DeqEmpty, Goto, IInv, TypeOK
<1>1. Untouched(t)
  BY <1>0 DEF Untouched, DeqEmpty, IInv
<1>2. Contents' = Contents
  BY ContentsStutter DEF DeqEmpty
<1>3. OpOf(pc'[t], val'[t], value'[node'[t]]) = OpOf(pc[t], val[t], value[node[t]])
  BY <1>0 DEF OpOf, StageOf
<1>4. Op' = Op BY <1>1, <1>3, OpStutter DEF IInv
<1> QED BY <1>2, <1>4 DEF Fifo!vars

LEMMA DeqLockNextFifo ==
    ASSUME IInv, IInv', NEW t \in Threads, DeqLockNext(t), status = "ready"
    PROVE  UNCHANGED Fifo!vars
<1>0. /\ pc[t] = "deq_lock_next" /\ pc'[t] = "deq_move" /\ val'[t] = val[t]
      /\ \A u \in Threads \ {t} : pc'[u] = pc[u] /\ val'[u] = val[u] /\ node'[u] = node[u]
  BY DEF DeqLockNext, Goto, IInv, TypeOK
<1>1. Untouched(t)
  BY <1>0 DEF Untouched, DeqLockNext, IInv
<1>2. Contents' = Contents
  BY ContentsStutter DEF DeqLockNext
<1>3. OpOf(pc'[t], val'[t], value'[node'[t]]) = OpOf(pc[t], val[t], value[node[t]])
  BY <1>0 DEF OpOf, StageOf
<1>4. Op' = Op BY <1>1, <1>3, OpStutter DEF IInv
<1> QED BY <1>2, <1>4 DEF Fifo!vars

LEMMA DeqMoveFifo ==
    ASSUME IInv, IInv', NEW t \in Threads, DeqMove(t), status = "ready"
    PROVE  Fifo!Dequeue(t)
<1>0. /\ pc[t] = "deq_move" /\ pc'[t] = "deq_take" /\ val'[t] = val[t]
      /\ \A u \in Threads \ {t} : pc'[u] = pc[u] /\ val'[u] = val[u] /\ node'[u] = node[u]
  BY DEF DeqMove, Goto, memory, IInv, TypeOK
<1>c. ChainInv BY DEF IInv
<1>a. /\ Len(chain) > 1 /\ node[t] = chain[2] /\ val[t] = NULL
      /\ value' = value /\ node' = node /\ chain' = Tail(chain)
  BY <1>0 DEF DeqMove, memory, IInv, DeqInv
<1>1. Untouched(t)
  BY <1>0 DEF Untouched, DeqMove, memory, IInv
<1>2. Contents # <<>> /\ Head(Contents) = value[node[t]] /\ Contents' = Tail(Contents)
  BY <1>a, <1>c, ContentsTail
<1>3. /\ OpOf(pc[t], val[t], value[node[t]]) = [stage |-> "deq", val |-> NULL]
      /\ OpOf(pc'[t], val'[t], value'[node'[t]]) = [stage |-> "done", val |-> Head(Contents)]
  BY <1>0, <1>2, <1>a DEF OpOf, StageOf
<1>4. /\ Op[t] = [stage |-> "deq", val |-> NULL]
      /\ Op' = [Op EXCEPT ![t] = [stage |-> "done", val |-> Head(Contents)]]
  BY <1>1, <1>3, OpMove DEF IInv
<1> QED BY <1>2, <1>4 DEF Fifo!Dequeue

LEMMA DeqTakeFifo ==
    ASSUME IInv, IInv', NEW t \in Threads, DeqTake(t), status = "ready"
    PROVE  UNCHANGED Fifo!vars
<1>0. /\ pc[t] = "deq_take" /\ pc'[t] = "deq_unlock_next" /\ val'[t] = value[node[t]]
      /\ \A u \in Threads \ {t} : pc'[u] = pc[u] /\ val'[u] = val[u] /\ node'[u] = node[u]
  BY DEF DeqTake, Goto, IInv, TypeOK
<1>c. ChainInv BY DEF IInv
<1>a. /\ node[t] = chain[1] /\ node[t] \in Nodes
      /\ value' = [value EXCEPT ![node[t]] = NULL] /\ chain' = chain
  BY <1>0, <1>c DEF DeqTake, IInv, DeqInv, Retired, ChainInv, TypeOK
<1>b. \A u \in Threads : u # t => pc[u] # "deq_take"
  BY <1>0, InHeadSection DEF HeadSection, DequeueStages
<1>1. Untouched(t)
  BY <1>0, <1>b DEF Untouched
<1>2. Contents' = Contents
  <2>1. \A i \in 1 .. Len(chain) - 1 : i + 1 \in 1 .. Len(chain) /\ i + 1 # 1 /\ 1 \in 1 .. Len(chain)
    BY ChainEnds
  <2>2. \A i \in 1 .. Len(chain) - 1 : chain[i + 1] # chain[1] /\ chain[i + 1] \in Nodes
    BY <1>c, <2>1, ChainEnds DEF ChainInv
  <2>3. \A i \in 1 .. Len(chain) - 1 : value'[chain[i + 1]] = value[chain[i + 1]]
    BY <1>a, <2>2 DEF IInv, TypeOK
  <2> QED BY <1>a, <2>3 DEF Contents
<1>3. OpOf(pc'[t], val'[t], value'[node'[t]]) = OpOf(pc[t], val[t], value[node[t]])
  BY <1>0 DEF OpOf, StageOf
<1>4. Op' = Op BY <1>1, <1>3, OpStutter DEF IInv
<1> QED BY <1>2, <1>4 DEF Fifo!vars

LEMMA DeqUnlockNextFifo ==
    ASSUME IInv, IInv', NEW t \in Threads, DeqUnlockNext(t), status = "ready"
    PROVE  UNCHANGED Fifo!vars
<1>0. /\ pc[t] = "deq_unlock_next" /\ pc'[t] = "deq_free" /\ val'[t] = val[t]
      /\ \A u \in Threads \ {t} : pc'[u] = pc[u] /\ val'[u] = val[u] /\ node'[u] = node[u]
  BY DEF DeqUnlockNext, Goto, IInv, TypeOK
<1>1. Untouched(t)
  BY <1>0 DEF Untouched, DeqUnlockNext, IInv
<1>2. Contents' = Contents
  BY ContentsStutter DEF DeqUnlockNext
<1>3. OpOf(pc'[t], val'[t], value'[node'[t]]) = OpOf(pc[t], val[t], value[node[t]])
  BY <1>0 DEF OpOf, StageOf
<1>4. Op' = Op BY <1>1, <1>3, OpStutter DEF IInv
<1> QED BY <1>2, <1>4 DEF Fifo!vars

LEMMA DeqFreeFifo ==
    ASSUME IInv, IInv', NEW t \in Threads, DeqFree(t), status = "ready"
    PROVE  UNCHANGED Fifo!vars
<1>0. /\ pc[t] = "deq_free" /\ pc'[t] = "deq_size" /\ val'[t] = val[t]
      /\ \A u \in Threads \ {t} : pc'[u] = pc[u] /\ val'[u] = val[u] /\ node'[u] = node[u]
  BY DEF DeqFree, Goto, IInv, TypeOK
<1>1. Untouched(t)
  BY <1>0 DEF Untouched, DeqFree, IInv
<1>2. Contents' = Contents
  BY ContentsStutter DEF DeqFree
<1>3. OpOf(pc'[t], val'[t], value'[node'[t]]) = OpOf(pc[t], val[t], value[node[t]])
  BY <1>0 DEF OpOf, StageOf
<1>4. Op' = Op BY <1>1, <1>3, OpStutter DEF IInv
<1> QED BY <1>2, <1>4 DEF Fifo!vars

LEMMA DeqSizeFifo ==
    ASSUME IInv, IInv', NEW t \in Threads, DeqSize(t), status = "ready"
    PROVE  UNCHANGED Fifo!vars
<1>0. /\ pc[t] = "deq_size" /\ pc'[t] = "deq_hunlock" /\ val'[t] = val[t]
      /\ \A u \in Threads \ {t} : pc'[u] = pc[u] /\ val'[u] = val[u] /\ node'[u] = node[u]
  BY DEF DeqSize, Goto, memory, IInv, TypeOK
<1>1. Untouched(t)
  BY <1>0 DEF Untouched, DeqSize, memory, IInv
<1>2. Contents' = Contents
  BY ContentsStutter DEF DeqSize, memory
<1>3. OpOf(pc'[t], val'[t], value'[node'[t]]) = OpOf(pc[t], val[t], value[node[t]])
  BY <1>0 DEF OpOf, StageOf
<1>4. Op' = Op BY <1>1, <1>3, OpStutter DEF IInv
<1> QED BY <1>2, <1>4 DEF Fifo!vars

LEMMA DeqHeadUnlockFifo ==
    ASSUME IInv, IInv', NEW t \in Threads, DeqHeadUnlock(t), status = "ready"
    PROVE  Fifo!Return(t)
<1>0. /\ pc[t] = "deq_hunlock" /\ pc'[t] = "idle" /\ val'[t] = val[t]
      /\ \A u \in Threads \ {t} : pc'[u] = pc[u] /\ val'[u] = val[u] /\ node'[u] = node[u]
  BY DEF DeqHeadUnlock, Goto, Leave, memory, IInv, TypeOK
<1>1. Untouched(t)
  BY <1>0 DEF Untouched, DeqHeadUnlock, Leave, memory, IInv
<1>2. Contents' = Contents
  BY ContentsStutter DEF DeqHeadUnlock, memory
<1>3. /\ OpOf(pc[t], val[t], value[node[t]]) = [stage |-> "done", val |-> val[t]]
      /\ OpOf(pc'[t], val'[t], value'[node'[t]]) = [stage |-> "idle", val |-> val[t]]
  BY <1>0 DEF OpOf, StageOf
<1>4. /\ Op[t] = [stage |-> "done", val |-> val[t]]
      /\ Op' = [Op EXCEPT ![t] = [stage |-> "idle", val |-> val[t]]]
  BY <1>1, <1>3, OpMove DEF IInv
<1> QED BY <1>2, <1>4 DEF Fifo!Return

\* What the abstract queue sees of a step inside a call.
LEMMA EnqueueFifo ==
    ASSUME IInv, IInv', status = "ready", NEW t \in Threads, EnqueueStep(t)
    PROVE  Fifo!Enqueue(t) \/ Fifo!Return(t) \/ UNCHANGED Fifo!vars
<1>1. CASE EnqAbort(t)
  BY <1>1 DEF EnqAbort, memory, locals, Fifo!vars, Contents, Op
<1> QED BY <1>1, EnqAllocFifo, EnqLockFifo, EnqLinkFirstFifo, EnqSwingFifo, EnqSwingFirstFifo,
        EnqLinkLateFifo, EnqUnlockFifo, EnqSizeFifo DEF EnqueueStep

LEMMA DequeueFifo ==
    ASSUME IInv, IInv', status = "ready", NEW t \in Threads, DequeueStep(t)
    PROVE  \/ Fifo!Dequeue(t) \/ Fifo!DequeueEmpty(t) \/ Fifo!Return(t)
           \/ UNCHANGED Fifo!vars
BY DeqHeadLockFifo, DeqNodeLockFifo, DeqNextFifo, DeqEmptyFifo, DeqLockNextFifo, DeqMoveFifo,
   DeqTakeFifo, DeqUnlockNextFifo, DeqFreeFifo, DeqSizeFifo, DeqHeadUnlockFifo DEF DequeueStep

\* Any number of threads, values and heap blocks: every interleaving of
\* fgq_enqueue and fgq_dequeue is linearizable to a FIFO queue.
THEOREM Linearizability == Spec => Linearizable
<1>1. Init => Fifo!Init
  <2> SUFFICES ASSUME Init PROVE Fifo!Init OBVIOUS
  <2>1. Contents = <<>> BY DEF Init, Contents
  <2>2. Op = [t \in Threads |-> [stage |-> "idle", val |-> NULL]]
    BY DEF Init, Op, StageOf
  <2> QED BY <2>1, <2>2 DEF Fifo!Init
<1>2. IInv /\ IInv' /\ [Next]_vars => [Fifo!Next]_(Fifo!vars)
  <2> SUFFICES ASSUME IInv, IInv', [Next]_vars PROVE [Fifo!Next]_(Fifo!vars) OBVIOUS
  <2>1. ASSUME status = "ready", NEW t \in Threads, Call(t) PROVE Fifo!Next
    BY <2>1, CallEnqueueFifo, CallDequeueFifo DEF Call, Fifo!Next
  <2>2. ASSUME status = "ready", NEW t \in Threads, EnqueueStep(t) \/ DequeueStep(t)
        PROVE  [Fifo!Next]_(Fifo!vars)
    BY <2>2, EnqueueFifo, DequeueFifo DEF Fifo!Next
  <2>3. CASE Destroy
    BY <2>3 DEF Destroy, locals, Fifo!vars, Contents, Op
  <2>4. CASE UNCHANGED vars
    BY <2>4 DEF vars, memory, locals, Fifo!vars, Contents, Op
  <2> QED BY <2>1, <2>2, <2>3, <2>4 DEF Next
<1> QED BY <1>1, <1>2, Invariance, PTL DEF Spec, Linearizable, Fifo!Spec

-----------------------------------------------------------------------------
(***************************************************************************)
(* The invariant: where each thread is in its call, and the books: every   *)
(* item begun is a block of the heap, or was freed and is about to be      *)
(* counted, or was counted.                                                *)
(***************************************************************************)
Stages ==
    \A t \in Threads :
        /\ pc[t] # "idle" => thr[t] = "call"
        /\ t \in Producers => pc[t] \in {"idle"} \cup EnqueueStages /\ thr[t] \notin {"count", "check"}
        /\ t \in Consumers => pc[t] \in {"idle"} \cup DequeueStages

Items   == Producers \X (1 .. ItemsPerProducer)
Counted == {x \in Items : x[2] <= made[x[1]]}
Begun   == {x \in Items : x[2] <= made[x[1]] + (IF thr[x[1]] = "call" THEN 1 ELSE 0)}
Freed   == {c \in Consumers : thr[c] = "count"}

Ledger ==
    /\ \A p \in Producers : /\ thr[p] = "call" => made[p] < ItemsPerProducer
                            /\ thr[p] = "exited" => made[p] = ItemsPerProducer
    /\ produced_total = Cardinality(Counted)
    /\ IsFiniteSet(heap)
    /\ Cardinality(heap) + Cardinality(Freed) + consumed_total = Cardinality(Begun)

\* A consumer saw all items counted, and main has joined whom it says.
Leaving ==
    /\ \A c \in Consumers : thr[c] = "exited" => consumed_total = Total
    /\ main \in {"join_consumers", "assert", "destroy"} => \A t \in Producers : thr[t] = "exited"
    /\ main \in {"assert", "destroy"} => \A t \in Consumers : thr[t] = "exited"

\* The blocks of h have one owner each: the queue s, or the thread whose hand
\* they are in.
Owners(h, s, H) ==
    /\ h = {s[i] : i \in 1 .. Len(s)} \cup UNION {H[t] : t \in Threads}
    /\ \A i, j \in 1 .. Len(s) : s[i] = s[j] => i = j
    /\ \A t \in Threads : H[t] \cap {s[i] : i \in 1 .. Len(s)} = {}
    /\ \A t, u \in Threads : H[t] \cap H[u] # {} => t = u

Hands == [t \in Threads |-> Holds(t)]

TestInv ==
    /\ IInv /\ SizeAccounting /\ TestTypeOK
    /\ Stages /\ Ledger /\ Leaving
    /\ Owners(heap, Contents, Hands)

-----------------------------------------------------------------------------
(***************************************************************************)
(* The owners.                                                             *)
(***************************************************************************)
LEMMA PutOwned ==
    ASSUME NEW h, NEW s \in Seq(Values), NEW H \in [Threads -> SUBSET Values], Owners(h, s, H),
           NEW t \in Threads, NEW v \in Values, H[t] = {v}
    PROVE  Owners(h, Append(s, v), [H EXCEPT ![t] = {}])
<1> DEFINE q == Append(s, v)
           G == [H EXCEPT ![t] = {}]
<1>1. /\ q \in Seq(Values) /\ Len(q) = Len(s) + 1 /\ Len(s) \in Nat /\ q[Len(s) + 1] = v
      /\ \A i \in 1 .. Len(s) : q[i] = s[i]
  OBVIOUS
<1>2. {q[i] : i \in 1 .. Len(q)} = {s[i] : i \in 1 .. Len(s)} \cup {v}
  <2>1. \A i \in 1 .. Len(s) + 1 : i \in 1 .. Len(s) \/ i = Len(s) + 1
    BY <1>1
  <2>2. Len(s) + 1 \in 1 .. Len(s) + 1 /\ \A i \in 1 .. Len(s) : i \in 1 .. Len(s) + 1
    BY <1>1
  <2> QED BY <1>1, <2>1, <2>2
<1>3. G[t] = {} /\ \A u \in Threads \ {t} : G[u] = H[u]
  OBVIOUS
<1>4. \A i \in 1 .. Len(s) : s[i] # v
  BY DEF Owners
<1>5. \A u \in Threads \ {t} : v \notin H[u]
  BY DEF Owners
<1> HIDE DEF q, G
<1>6. h = {q[i] : i \in 1 .. Len(q)} \cup UNION {G[u] : u \in Threads}
  <2>1. UNION {H[u] : u \in Threads} = {v} \cup UNION {G[u] : u \in Threads}
    BY <1>3
  <2> QED BY <1>2, <2>1 DEF Owners
<1>7. \A i, j \in 1 .. Len(q) : q[i] = q[j] => i = j
  <2>1. \A i \in 1 .. Len(q) : i \in 1 .. Len(s) \/ i = Len(s) + 1
    BY <1>1
  <2> QED BY <1>1, <1>4, <2>1 DEF Owners
<1>8. \A u \in Threads : G[u] \cap {q[i] : i \in 1 .. Len(q)} = {}
  BY <1>2, <1>3, <1>5 DEF Owners
<1>9. \A u, w \in Threads : G[u] \cap G[w] # {} => u = w
  BY <1>3 DEF Owners
<1> QED BY <1>6, <1>7, <1>8, <1>9 DEF Owners, q, G

LEMMA GetOwned ==
    ASSUME NEW h, NEW s \in Seq(Values), NEW H \in [Threads -> SUBSET Values], Owners(h, s, H),
           s # <<>>, NEW t \in Threads, H[t] = {}
    PROVE  Owners(h, Tail(s), [H EXCEPT ![t] = {Head(s)}]) /\ Head(s) \in Values
<1> DEFINE q == Tail(s)
           v == Head(s)
           G == [H EXCEPT ![t] = {v}]
<1>1. /\ q \in Seq(Values) /\ Len(q) = Len(s) - 1 /\ Len(s) \in Nat /\ Len(s) > 0
      /\ v = s[1] /\ v \in Values /\ \A i \in 1 .. Len(s) - 1 : q[i] = s[i + 1]
  OBVIOUS
<1>2. /\ \A i \in 1 .. Len(q) : i + 1 \in 1 .. Len(s)
      /\ \A i \in 1 .. Len(s) : i = 1 \/ (i - 1 \in 1 .. Len(q) /\ (i - 1) + 1 = i)
      /\ 1 \in 1 .. Len(s)
  BY <1>1
<1>3. G[t] = {v} /\ \A u \in Threads \ {t} : G[u] = H[u]
  OBVIOUS
<1> HIDE DEF q, v, G
<1>4. {s[i] : i \in 1 .. Len(s)} = {q[i] : i \in 1 .. Len(q)} \cup {v}
  <2>1. \A i \in 1 .. Len(s) : s[i] = v \/ \E j \in 1 .. Len(q) : s[i] = q[j]
    BY <1>1, <1>2
  <2>2. \A j \in 1 .. Len(q) : \E i \in 1 .. Len(s) : s[i] = q[j]
    BY <1>1, <1>2
  <2> QED BY <1>1, <1>2, <2>1, <2>2
<1>5. \A i \in 1 .. Len(q) : q[i] # v
  <2> SUFFICES ASSUME NEW i \in 1 .. Len(q), q[i] = v  PROVE FALSE
    OBVIOUS
  <2>1. s[i + 1] = s[1] /\ i + 1 # 1
    BY <1>1
  <2> QED BY <1>2, <2>1 DEF Owners
<1>6. h = {q[i] : i \in 1 .. Len(q)} \cup UNION {G[u] : u \in Threads}
  <2>1. UNION {G[u] : u \in Threads} = {v} \cup UNION {H[u] : u \in Threads}
    BY <1>3
  <2> QED BY <1>4, <2>1 DEF Owners
<1>7. \A i, j \in 1 .. Len(q) : q[i] = q[j] => i = j
  <2> SUFFICES ASSUME NEW i \in 1 .. Len(q), NEW j \in 1 .. Len(q), q[i] = q[j]  PROVE i = j
    OBVIOUS
  <2>1. s[i + 1] = s[j + 1] /\ i + 1 \in 1 .. Len(s) /\ j + 1 \in 1 .. Len(s)
    BY <1>1, <1>2
  <2>2. i + 1 = j + 1
    BY <2>1 DEF Owners
  <2> QED BY <2>2
<1>8. \A u \in Threads : G[u] \cap {q[i] : i \in 1 .. Len(q)} = {}
  BY <1>3, <1>4, <1>5 DEF Owners
<1>9. \A u, w \in Threads : G[u] \cap G[w] # {} => u = w
  <2>1. \A u \in Threads \ {t} : v \notin H[u]
    BY <1>4 DEF Owners
  <2> QED BY <1>3, <2>1 DEF Owners
<1> QED BY <1>1, <1>6, <1>7, <1>8, <1>9 DEF Owners, q, v, G

LEMMA NewOwned ==
    ASSUME NEW h, NEW s, NEW H \in [Threads -> SUBSET Values], Owners(h, s, H),
           NEW t \in Threads, H[t] = {}, NEW v, v \notin h
    PROVE  Owners(h \cup {v}, s, [H EXCEPT ![t] = {v}])
<1> DEFINE G == [H EXCEPT ![t] = {v}]
<1>1. G[t] = {v} /\ \A u \in Threads \ {t} : G[u] = H[u]
  OBVIOUS
<1> HIDE DEF G
<1>2. UNION {G[u] : u \in Threads} = {v} \cup UNION {H[u] : u \in Threads}
  BY <1>1
<1>3. h \cup {v} = {s[i] : i \in 1 .. Len(s)} \cup UNION {G[u] : u \in Threads}
  BY <1>2 DEF Owners
<1>4. \A u \in Threads : v \notin H[u]
  BY DEF Owners
<1>5. \A u \in Threads : G[u] \cap {s[i] : i \in 1 .. Len(s)} = {}
  BY <1>1 DEF Owners
<1>6. \A u, w \in Threads : G[u] \cap G[w] # {} => u = w
  BY <1>1, <1>4 DEF Owners
<1> QED BY <1>3, <1>5, <1>6 DEF Owners, G

LEMMA DropOwned ==
    ASSUME NEW h, NEW s, NEW H \in [Threads -> SUBSET Values], Owners(h, s, H),
           NEW t \in Threads, NEW v, H[t] = {v}
    PROVE  v \in h /\ Owners(h \ {v}, s, [H EXCEPT ![t] = {}])
<1> DEFINE G == [H EXCEPT ![t] = {}]
<1>1. G[t] = {} /\ \A u \in Threads \ {t} : G[u] = H[u]
  OBVIOUS
<1> HIDE DEF G
<1>2. v \notin {s[i] : i \in 1 .. Len(s)} /\ \A u \in Threads \ {t} : v \notin H[u]
  BY DEF Owners
<1>3. /\ UNION {H[u] : u \in Threads} = {v} \cup UNION {G[u] : u \in Threads}
      /\ v \notin UNION {G[u] : u \in Threads}
  BY <1>1, <1>2
<1>4. v \in h /\ h \ {v} = {s[i] : i \in 1 .. Len(s)} \cup UNION {G[u] : u \in Threads}
  <2>1. h = {s[i] : i \in 1 .. Len(s)} \cup UNION {H[u] : u \in Threads}
    BY DEF Owners
  <2> QED BY ONLY <1>2, <1>3, <2>1
<1>5. \A u \in Threads : G[u] \cap {s[i] : i \in 1 .. Len(s)} = {}
  BY <1>1 DEF Owners
<1>6. \A u, w \in Threads : G[u] \cap G[w] # {} => u = w
  BY <1>1 DEF Owners
<1> QED BY <1>4, <1>5, <1>6 DEF Owners, G

\* The queue passes blocks on, and who has which block follows from where the
\* thread is in its own loop and from its abstract call.
LEMMA ContentsOf ==
    ASSUME IInv, ChainInv
    PROVE  /\ Contents \in Seq(Values) /\ Len(Contents) = Len(chain) - 1
           /\ Queued = {Contents[i] : i \in 1 .. Len(Contents)}
<1>1. Len(chain) \in Nat /\ Len(chain) > 0
  BY ChainEnds
<1>2. \A i \in 1 .. Len(chain) - 1 : i + 1 \in 2 .. Len(chain)
  BY <1>1
<1>3. \A i \in 1 .. Len(chain) - 1 : value[chain[i + 1]] \in Values
  BY <1>2 DEF ChainInv
<1>4. Len(chain) - 1 \in Nat
  BY <1>1
<1>5. Contents \in Seq(Values) /\ Len(Contents) = Len(chain) - 1
  BY <1>3, <1>4 DEF Contents
<1> QED BY <1>5 DEF Queued

Hand(t, h, o) ==
    IF o.stage = "enq" THEN {o.val}
    ELSE IF t \in Consumers /\ h = "call" /\ o.stage \in {"done", "idle"} THEN {o.val} \ {NULL}
    ELSE {}

LEMMA HandIs == \A t \in Threads : Holds(t) = Hand(t, thr[t], Op[t])
<1> TAKE t \in Threads
<1>1. /\ Op[t].stage = StageOf(pc[t])
      /\ StageOf(pc[t]) = "enq" \/ pc[t] = "idle" => Op[t].val = val[t]
  BY DEF Op, StageOf
<1>2. pc[t] = "idle" <=> StageOf(pc[t]) = "idle"
  BY DEF StageOf
<1>3. CASE StageOf(pc[t]) = "enq"
  BY <1>1, <1>2, <1>3 DEF Holds, Hand
<1>4. CASE StageOf(pc[t]) = "done"
  <2>1. CASE t \in Consumers /\ thr[t] = "call"
    BY <1>1, <1>2, <1>4, <2>1 DEF Holds, Hand
  <2>2. CASE ~(t \in Consumers /\ thr[t] = "call")
    BY <1>1, <1>2, <1>4, <2>2 DEF Holds, Hand
  <2> QED BY <2>1, <2>2
<1>5. CASE StageOf(pc[t]) = "idle"
  BY <1>1, <1>2, <1>5 DEF Holds, Hand
<1>6. CASE StageOf(pc[t]) = "deq"
  BY <1>1, <1>2, <1>6 DEF Holds, Hand
<1>7. StageOf(pc[t]) \in {"enq", "done", "idle", "deq"}
  BY DEF StageOf
<1> QED BY <1>3, <1>4, <1>5, <1>6, <1>7

LEMMA HandsAre ==
    ASSUME IInv, ChainInv
    PROVE  Hands \in [Threads -> SUBSET Values]
<1>1. ASSUME NEW t \in Threads  PROVE Holds(t) \subseteq Values
  <2>1. val[t] \in Values \cup {NULL} /\ (pc[t] \in EnqueueStages => val[t] \in Values)
    BY DEF IInv, TypeOK, EnqInv
  <2>2. pc[t] = "deq_take" => value[node[t]] \in Values
    <3>1. pc[t] = "deq_take" => node[t] = head
      BY DEF IInv, DeqInv, Retired
    <3> QED BY <3>1 DEF IInv, DeqInv
  <2>3. Op[t].val \in Values \cup {NULL}
    BY <2>1, <2>2 DEF Op
  <2>4. StageOf(pc[t]) = "enq" => pc[t] \in EnqueueStages
    BY DEF StageOf, EnqueueStages
  <2> QED BY <2>1, <2>3, <2>4 DEF Holds
<1> QED BY <1>1 DEF Hands

LEMMA HandNext == (\A t \in Threads : Holds(t) = Hand(t, thr[t], Op[t]))'
BY HandIs, PTL

\* One thread's call or place moves on.
LEMMA HandsMove ==
    ASSUME NEW t \in Threads, \A u \in Threads \ {t} : thr'[u] = thr[u] /\ Op'[u] = Op[u]
    PROVE  Hands' = [Hands EXCEPT ![t] = Hand(t, thr'[t], Op'[t])]
<1>1. \A u \in Threads : Holds(u) = Hand(u, thr[u], Op[u])
  BY HandIs
<1>2. \A u \in Threads : (Holds(u))' = Hand(u, thr'[u], Op'[u])
  BY HandNext
<1>3. \A u \in Threads : Hands[u] = Holds(u) /\ Hands'[u] = (Holds(u))'
  BY DEF Hands
<1>4. Hands = [u \in Threads |-> Hands[u]] /\ Hands' = [u \in Threads |-> Hands'[u]]
  BY DEF Hands
<1>5. \A u \in Threads \ {t} : Hands'[u] = Hands[u]
  BY <1>1, <1>2, <1>3
<1>6. Hands'[t] = Hand(t, thr'[t], Op'[t])
  BY <1>2, <1>3
<1> QED BY <1>4, <1>5, <1>6

-----------------------------------------------------------------------------
(***************************************************************************)
(* The books.                                                              *)
(***************************************************************************)
LEMMA Sizes ==
    /\ IsFiniteSet(Consumers) /\ Total \in Nat
    /\ IsFiniteSet(Items) /\ Cardinality(Items) = Total
    /\ \A S \in SUBSET Items :
          /\ IsFiniteSet(S) /\ Cardinality(S) \in 0 .. Total
          /\ Cardinality(S) = Total => S = Items
    /\ \A S \in SUBSET Consumers : IsFiniteSet(S) /\ Cardinality(S) \in Nat
<1>1. IsFiniteSet(Producers) /\ IsFiniteSet(Consumers)
  BY FGQueueAssumption, FGQueueTestAssumption, FS_Subset
<1>2. /\ IsFiniteSet(1 .. ItemsPerProducer)
      /\ Cardinality(1 .. ItemsPerProducer) = ItemsPerProducer /\ ItemsPerProducer \in Nat
  <2>1. ItemsPerProducer \in Nat
    BY FGQueueTestAssumption
  <2>2. /\ IsFiniteSet(1 .. ItemsPerProducer)
        /\ Cardinality(1 .. ItemsPerProducer) =
             IF 1 > ItemsPerProducer THEN 0 ELSE ItemsPerProducer - 1 + 1
    BY <2>1, FS_Interval
  <2> QED BY <2>1, <2>2
<1>3. IsFiniteSet(Items) /\ Cardinality(Items) = Total
  BY <1>1, <1>2, FS_Product DEF Items, Total
<1>4. Cardinality(Producers) \in Nat /\ Total \in Nat
  BY <1>1, <1>2, <1>3, FS_CardinalityType
<1>5. ASSUME NEW S \in SUBSET Items
      PROVE  /\ IsFiniteSet(S) /\ Cardinality(S) \in 0 .. Total
             /\ Cardinality(S) = Total => S = Items
  <2>1. /\ IsFiniteSet(S) /\ Cardinality(S) <= Total
        /\ Total = Cardinality(S) => S = Items
    BY <1>3, FS_Subset
  <2>2. Cardinality(S) \in Nat
    BY <2>1, FS_CardinalityType
  <2> QED BY <1>4, <2>1, <2>2
<1>6. ASSUME NEW S \in SUBSET Consumers  PROVE IsFiniteSet(S) /\ Cardinality(S) \in Nat
  BY <1>1, FS_Subset, FS_CardinalityType
<1> QED BY <1>1, <1>3, <1>4, <1>5, <1>6

\* One producer gets one item further.
Upto(f) == {x \in Items : x[2] <= f[x[1]]}

LEMMA OneMore ==
    ASSUME NEW f \in [Producers -> Nat], NEW g \in [Producers -> Nat], NEW q \in Producers,
           g[q] = f[q] + 1, g[q] <= ItemsPerProducer, \A r \in Producers \ {q} : g[r] = f[r]
    PROVE  Cardinality(Upto(g)) = Cardinality(Upto(f)) + 1
<1> DEFINE x == <<q, g[q]>>
<1>1. ItemsPerProducer \in Nat
  BY FGQueueTestAssumption
<1>2. x \in Items /\ x \notin Upto(f)
  BY <1>1 DEF Items, Upto
<1>3. Upto(g) = Upto(f) \cup {x}
  <2>1. ASSUME NEW y \in Items  PROVE y \in Upto(g) <=> y \in Upto(f) \/ y = x
    <3>1. PICK r \in Producers, k \in 1 .. ItemsPerProducer : y = <<r, k>>
      BY DEF Items
    <3>2. CASE r = q
      <4>1. k \in Nat /\ f[q] \in Nat /\ (k <= g[q] <=> k <= f[q] \/ k = g[q])
        BY <1>1
      <4> QED BY <3>1, <3>2, <4>1 DEF Upto
    <3>3. CASE r # q
      BY <3>1, <3>3 DEF Upto
    <3> QED BY <3>2, <3>3
  <2> HIDE DEF x
  <2> QED BY <1>2, <2>1 DEF Upto
<1>4. IsFiniteSet(Upto(f)) /\ Cardinality(Upto(f)) \in 0 .. Total
  BY Sizes DEF Upto
<1> QED BY <1>2, <1>3, <1>4, FS_AddElement

Started == [q \in Producers |-> made[q] + (IF thr[q] = "call" THEN 1 ELSE 0)]

LEMMA Books == Counted = Upto(made) /\ Begun = Upto(Started)
<1>1. \A x \in Items : x[1] \in Producers
  BY DEF Items
<1> QED BY <1>1 DEF Counted, Begun, Upto, Started

LEMMA BooksNext == (Counted = Upto(made) /\ Begun = Upto(Started))'
BY Books, PTL

LEMMA BooksAre ==
    ASSUME TestTypeOK
    PROVE  /\ made \in [Producers -> Nat] /\ Started \in [Producers -> Nat]
           /\ IsFiniteSet(Counted) /\ Cardinality(Counted) \in 0 .. Total
           /\ IsFiniteSet(Begun) /\ Cardinality(Begun) \in 0 .. Total
           /\ IsFiniteSet(Freed) /\ Cardinality(Freed) \in Nat
<1>1. made \in [Producers -> Nat] /\ Started \in [Producers -> Nat]
  BY FGQueueTestAssumption DEF TestTypeOK, Started
<1>2. Counted \in SUBSET Items /\ Begun \in SUBSET Items /\ Freed \in SUBSET Consumers
  BY DEF Counted, Begun, Freed
<1> QED BY <1>1, <1>2, Sizes

-----------------------------------------------------------------------------
(***************************************************************************)
(* Each step preserves the invariant.  The queue's part of it follows from *)
(* the invariance of the queue alone.                                      *)
(***************************************************************************)
LEMMA EndProcessInv ==
    ASSUME IInv, SizeAccounting, status = "ready", EndProcess  PROVE IInv' /\ SizeAccounting'
<1>1. IInv'
  BY DEF EndProcess, memory, locals, IInv, TypeOK, ChainInv, LockInv, NodeLockInv, TailInv, EnqInv,
     DeqInv, EndInv, InChain, Unlinked, Retired
<1>2. SizeAccounting'
  BY DEF EndProcess, memory, locals, SizeAccounting, Linked, Uncounted, Undiscounted, Retired
<1> QED BY <1>1, <1>2

LEMMA IsQueueStep ==
    ASSUME TestNext  PROVE [Next]_vars \/ (status = "ready" /\ EndProcess)
<1>1. ASSUME Main, status = "ready"  PROVE [Next]_vars \/ (status = "ready" /\ EndProcess)
  BY <1>1 DEF Main, Spawn, SpawnFails, Spawned, JoinProducers, JoinConsumers, AssertEmpty, Finish,
     MainGoto, Next
<1>2. ASSUME NEW t \in Producers, ProducerStep(t), status = "ready"  PROVE [Next]_vars \/ (status = "ready" /\ EndProcess)
  <2>1. t \in Threads
    BY FGQueueTestAssumption
  <2>2. CASE Produce(t)
    <3>1. PICK v \in Values : CallEnqueue(t, v)
      BY <2>2 DEF Produce
    <3> QED BY <1>2, <2>1, <3>1 DEF Next, Call
  <2> QED BY <1>2, <2>1, <2>2 DEF ProducerStep, ProduceAbort, Produced, ProducerExit, Next
<1>3. ASSUME NEW t \in Consumers, ConsumerStep(t), status = "ready"  PROVE [Next]_vars \/ (status = "ready" /\ EndProcess)
  <2>1. t \in Threads
    BY FGQueueTestAssumption
  <2> QED BY <1>3, <2>1 DEF ConsumerStep, Consume, Free, Count, ReadProduced, ReadConsumed, Next, Call
<1>4. CASE UNCHANGED allVars
  BY <1>4 DEF allVars
<1> QED BY <1>1, <1>2, <1>3, <1>4 DEF TestNext, Run

LEMMA QueueKept ==
    ASSUME IInv, SizeAccounting, TestNext  PROVE IInv' /\ SizeAccounting'
BY IsQueueStep, EndProcessInv, StepInv, StepCounts

\* What a step inside a call does to the owners.
LEMMA CallOwners ==
    ASSUME IInv, ChainInv, NEW t \in Threads, thr' = thr, Owners(heap, Contents, Hands),
           \/ Fifo!Enqueue(t)
           \/ t \in Consumers /\ thr[t] = "call" /\ Fifo!Dequeue(t)
           \/ Fifo!DequeueEmpty(t) \/ Fifo!Return(t) \/ UNCHANGED Fifo!vars
    PROVE  Owners(heap, Contents', Hands')
<1>1. /\ Contents \in Seq(Values) /\ Hands \in [Threads -> SUBSET Values]
      /\ Hands[t] = Hand(t, thr[t], Op[t])
  BY ContentsOf, HandsAre, HandIs DEF Hands
<1>2. ASSUME NEW o, Op' = [Op EXCEPT ![t] = o]
      PROVE  Hands' = [Hands EXCEPT ![t] = Hand(t, thr[t], o)]
  <2>1. Op'[t] = o /\ \A u \in Threads \ {t} : Op'[u] = Op[u]
    BY <1>2 DEF Op
  <2> QED BY <2>1, HandsMove
<1>3. CASE Fifo!Enqueue(t)
  <2>1. /\ Hands[t] = {Op[t].val} /\ Contents' = Append(Contents, Op[t].val)
        /\ Hands' = [Hands EXCEPT ![t] = Hand(t, thr[t], [stage |-> "done", val |-> NULL])]
    BY <1>1, <1>2, <1>3 DEF Fifo!Enqueue, Hand
  <2>2. Hand(t, thr[t], [stage |-> "done", val |-> NULL]) = {}
    BY DEF Hand
  <2>3. Op[t].val \in Values
    BY <1>1, <2>1
  <2> QED BY <1>1, <2>1, <2>2, <2>3, PutOwned
<1>4. CASE t \in Consumers /\ thr[t] = "call" /\ Fifo!Dequeue(t)
  <2>1. /\ Hands[t] = {} /\ Contents # <<>> /\ Contents' = Tail(Contents)
        /\ Hands' = [Hands EXCEPT ![t] = Hand(t, thr[t], [stage |-> "done", val |-> Head(Contents)])]
    BY <1>1, <1>2, <1>4 DEF Fifo!Dequeue, Hand
  <2>2. /\ Owners(heap, Tail(Contents), [Hands EXCEPT ![t] = {Head(Contents)}])
        /\ Head(Contents) \in Values
    BY <1>1, <2>1, GetOwned
  <2>3. Hand(t, thr[t], [stage |-> "done", val |-> Head(Contents)]) = {Head(Contents)}
    BY <1>4, <2>2, FGQueueAssumption DEF Hand
  <2> QED BY <2>1, <2>2, <2>3
<1>5. CASE Fifo!DequeueEmpty(t)
  <2>1. /\ Hands[t] = {} /\ Contents' = Contents
        /\ Hands' = [Hands EXCEPT ![t] = Hand(t, thr[t], [stage |-> "done", val |-> NULL])]
    BY <1>1, <1>2, <1>5 DEF Fifo!DequeueEmpty, Hand
  <2>2. Hand(t, thr[t], [stage |-> "done", val |-> NULL]) = {}
    BY DEF Hand
  <2>3. Hands' = Hands
    BY <1>1, <2>1, <2>2
  <2> QED BY <2>1, <2>3
<1>6. CASE Fifo!Return(t)
  <2>1. /\ Op[t].stage = "done" /\ Contents' = Contents
        /\ Hands' = [Hands EXCEPT ![t] = Hand(t, thr[t], [stage |-> "idle", val |-> Op[t].val])]
    BY <1>2, <1>6 DEF Fifo!Return
  <2>2. Hand(t, thr[t], [stage |-> "idle", val |-> Op[t].val]) = Hands[t]
    BY <1>1, <2>1 DEF Hand
  <2>3. Hands' = Hands
    BY <1>1, <2>1, <2>2
  <2> QED BY <2>1, <2>3
<1>7. CASE UNCHANGED Fifo!vars
  <2>1. Contents' = Contents /\ Op' = Op
    BY <1>7 DEF Fifo!vars
  <2>2. Op' = [Op EXCEPT ![t] = Op[t]]
    BY <2>1 DEF Op
  <2>3. Hands' = [Hands EXCEPT ![t] = Hand(t, thr[t], Op[t])]
    BY <1>2, <2>2
  <2>4. Hands' = Hands
    BY <1>1, <2>3
  <2> QED BY <2>1, <2>4
<1> QED BY <1>3, <1>4, <1>5, <1>6, <1>7

\* Steps that change neither calls nor hands, or no count of the books.
LEMMA SameHands ==
    ASSUME UNCHANGED <<value, chain, pc, node, val>>,
           \A t \in Consumers : thr'[t] = "call" <=> thr[t] = "call"
    PROVE  Contents' = Contents /\ Op' = Op /\ Hands' = Hands
<1>1. Contents' = Contents /\ Op' = Op
  BY DEF Contents, Op
<1>2. \A t \in Threads : Holds(t) = Hand(t, thr[t], Op[t]) /\ (Holds(t))' = Hand(t, thr'[t], Op[t])
  BY <1>1, HandIs, HandNext
<1>3. \A t \in Threads : (Holds(t))' = Holds(t)
  BY <1>2 DEF Hand
<1> QED BY <1>1, <1>3 DEF Hands

LEMMA SameBooks ==
    ASSUME Ledger, UNCHANGED <<made, produced_total, consumed_total, heap>>,
           \A q \in Producers : /\ thr'[q] = "call" <=> thr[q] = "call"
                                /\ thr'[q] = "exited" => thr[q] = "exited" \/ made[q] = ItemsPerProducer,
           \A c \in Consumers : thr'[c] = "count" <=> thr[c] = "count"
    PROVE  Ledger'
<1>1. Counted' = Counted
  BY DEF Counted
<1>2. Begun' = Begun
  BY DEF Begun, Items
<1>3. Freed' = Freed
  BY DEF Freed
<1> QED BY <1>1, <1>2, <1>3 DEF Ledger

\* main
LEMMA MainKeeps ==
    ASSUME TestInv, status = "ready", Main, IInv', SizeAccounting'  PROVE TestInv'
<1> USE DEF TestInv
<1>1. /\ UNCHANGED <<value, chain, pc, node, val, made, prod, produced_total, consumed_total, heap>>
      /\ \/ main' = main /\ \E t \in Threads : thr[t] = "unborn" /\ thr' = [thr EXCEPT ![t] = "top"]
         \/ thr' = thr /\ main' = main
         \/ /\ thr' = thr
            /\ \/ main = "spawn" /\ main' = "join_producers"
               \/ main = "join_producers" /\ main' = "join_consumers" /\ \A t \in Producers : thr[t] = "exited"
               \/ main = "join_consumers" /\ main' = "assert" /\ \A t \in Consumers : thr[t] = "exited"
               \/ main = "assert" /\ main' = "destroy"
  <2>1. CASE \E t \in Threads : Spawn(t)
    BY <2>1 DEF Spawn, Become, vars, memory, locals
  <2>2. CASE SpawnFails \/ Finish
    BY <2>2 DEF SpawnFails, Finish, EndProcess, Destroy, testVars, threadVars, memory, locals
  <2>3. CASE Spawned \/ JoinProducers \/ JoinConsumers \/ AssertEmpty
    BY <2>3 DEF Spawned, JoinProducers, JoinConsumers, AssertEmpty, MainGoto, vars, threadVars,
       memory, locals
  <2> QED BY <2>1, <2>2, <2>3 DEF Main
<1>2. /\ thr' \in [Threads -> {"unborn", "top", "call", "count", "check", "exited"}]
      /\ \A t \in Threads : thr'[t] = thr[t] \/ (thr[t] = "unborn" /\ thr'[t] = "top")
  BY <1>1 DEF TestTypeOK
<1>3. TestTypeOK'
  BY <1>1, <1>2 DEF TestTypeOK, IInv
<1>4. Stages'
  BY <1>1, <1>2 DEF Stages
<1>5. Producers \subseteq Threads /\ Consumers \subseteq Threads
  BY FGQueueTestAssumption
<1>6. Ledger'
  BY <1>1, <1>2, <1>5, SameBooks
<1>7. Leaving'
  BY <1>1, <1>2, <1>5 DEF Leaving
<1>8. Contents' = Contents /\ Hands' = Hands
  BY <1>1, <1>2, <1>5, SameHands
<1> QED BY <1>1, <1>3, <1>4, <1>6, <1>7, <1>8

\* A step inside a call
LEMMA EnqueuePlace ==
    ASSUME TypeOK, NEW t \in Threads, EnqueueStep(t)
    PROVE  /\ pc[t] \in EnqueueStages /\ pc'[t] \in {"idle"} \cup EnqueueStages
           /\ \A u \in Threads \ {t} : pc'[u] = pc[u]
BY DEF TypeOK, EnqueueStep, EnqAlloc, EnqAbort, EnqLock, EnqLinkFirst, EnqSwing, EnqSwingFirst,
   EnqLinkLate, EnqUnlock, EnqSize, Goto, locals, EnqueueStages

LEMMA DequeuePlace ==
    ASSUME TypeOK, NEW t \in Threads, DequeueStep(t)
    PROVE  /\ pc[t] \in DequeueStages /\ pc'[t] \in {"idle"} \cup DequeueStages
           /\ \A u \in Threads \ {t} : pc'[u] = pc[u]
BY DEF TypeOK, DequeueStep, DeqHeadLock, DeqNodeLock, DeqNext, DeqEmpty, DeqLockNext, DeqMove,
   DeqTake, DeqUnlockNext, DeqFree, DeqSize, DeqHeadUnlock, Goto, DequeueStages

LEMMA CallKeeps ==
    ASSUME TestInv, status = "ready", IInv', SizeAccounting', UNCHANGED testVars, NEW t \in Threads,
           (t \in Producers /\ EnqueueStep(t)) \/ (t \in Consumers /\ DequeueStep(t))
    PROVE  TestInv'
<1> USE DEF TestInv
<1>1. UNCHANGED <<main, thr, made, prod, produced_total, consumed_total, heap>>
  BY DEF testVars, threadVars
<1>2. TypeOK /\ ChainInv
  BY DEF IInv
<1>3. TestTypeOK'
  BY <1>1 DEF TestTypeOK, IInv
<1>4. Stages'
  <2>1. t \in Producers => t \notin Consumers
    BY FGQueueTestAssumption
  <2>2. pc[t] # "idle" /\ \A u \in Threads \ {t} : pc'[u] = pc[u]
    BY <1>2, EnqueuePlace, DequeuePlace DEF EnqueueStages, DequeueStages
  <2>3. /\ t \in Producers => pc'[t] \in {"idle"} \cup EnqueueStages
        /\ t \in Consumers => pc'[t] \in {"idle"} \cup DequeueStages
    BY <1>2, <2>1, EnqueuePlace, DequeuePlace
  <2> QED BY <1>1, <2>2, <2>3 DEF Stages
<1>5. Ledger'
  BY <1>1, SameBooks
<1>6. Leaving'
  BY <1>1 DEF Leaving
<1>7. Owners(heap, Contents', Hands')
  <2>1. thr[t] = "call"
    BY <1>2, EnqueuePlace, DequeuePlace DEF Stages, EnqueueStages, DequeueStages
  <2> QED BY <1>1, <1>2, <2>1, EnqueueFifo, DequeueFifo, CallOwners
<1> QED BY <1>1, <1>3, <1>4, <1>5, <1>6, <1>7

\* A producer's own steps
LEMMA ProduceKeeps ==
    ASSUME TestInv, status = "ready", IInv', SizeAccounting', NEW t \in Producers, Produce(t)
    PROVE  TestInv'
<1> USE DEF TestInv
<1>1. PICK v \in Values \ heap : heap' = heap \cup {v} /\ CallEnqueue(t, v)
  BY DEF Produce
<1>2. /\ t \in Threads /\ t \notin Consumers
      /\ Producers \subseteq Threads /\ Consumers \subseteq Threads
  BY FGQueueTestAssumption
<1>3. /\ made[t] < ItemsPerProducer /\ thr[t] = "top" /\ thr' = [thr EXCEPT ![t] = "call"]
      /\ UNCHANGED <<main, made, prod, produced_total, consumed_total>>
  BY DEF Produce, Become
<1>4. /\ pc[t] = "idle" /\ pc'[t] = "enq_alloc" /\ \A u \in Threads \ {t} : pc'[u] = pc[u]
      /\ thr'[t] = "call" /\ \A u \in Threads \ {t} : thr'[u] = thr[u]
  BY <1>1, <1>2, <1>3 DEF CallEnqueue, Goto, IInv, TypeOK, TestTypeOK
<1>5. TestTypeOK'
  BY <1>1, <1>3 DEF TestTypeOK, IInv
<1>6. Stages'
  BY <1>2, <1>4 DEF Stages, EnqueueStages
<1>7. Ledger'
  <2>1. Counted' = Counted
    BY <1>3 DEF Counted
  <2>2. Freed' = Freed
    BY <1>2, <1>4 DEF Freed
  <2>3. Cardinality(Begun') = Cardinality(Begun) + 1
    <3>1. /\ Started \in [Producers -> Nat] /\ Started' \in [Producers -> Nat]
          /\ Started'[t] = Started[t] + 1 /\ Started'[t] <= ItemsPerProducer
          /\ \A r \in Producers \ {t} : Started'[r] = Started[r]
      <4>1. Started' = [q \in Producers |-> made[q] + (IF thr'[q] = "call" THEN 1 ELSE 0)]
        BY <1>3 DEF Started
      <4>2. /\ made[t] \in Nat /\ ItemsPerProducer \in Nat
            /\ Started'[t] = made[t] + 1 /\ Started[t] = made[t]
        BY <1>3, <1>4, <4>1, BooksAre, FGQueueTestAssumption DEF Started
      <4>3. \A r \in Producers \ {t} : Started'[r] = Started[r]
        BY <1>2, <1>4, <4>1 DEF Started
      <4>4. Started' \in [Producers -> Nat]
        BY <4>1, BooksAre
      <4> QED BY <1>3, <4>2, <4>3, <4>4, BooksAre
    <3>2. Cardinality(Upto(Started')) = Cardinality(Upto(Started)) + 1
      BY <3>1, OneMore
    <3> QED BY <3>2, Books, BooksNext
  <2>4. IsFiniteSet(heap') /\ Cardinality(heap') = Cardinality(heap) + 1
    BY <1>1, FS_AddElement DEF Ledger
  <2>5. /\ Cardinality(heap) \in Nat /\ Cardinality(Begun) \in Nat
        /\ Cardinality(Freed) \in Nat /\ consumed_total \in Nat
    BY BooksAre, Sizes, FS_CardinalityType DEF Ledger, TestTypeOK
  <2>6. Cardinality(heap') + Cardinality(Freed') + consumed_total' = Cardinality(Begun')
    BY <1>3, <2>2, <2>3, <2>4, <2>5 DEF Ledger
  <2>7. \A q \in Producers : /\ thr'[q] = "call" => made'[q] < ItemsPerProducer
                             /\ thr'[q] = "exited" => made'[q] = ItemsPerProducer
    BY <1>2, <1>3, <1>4 DEF Ledger
  <2>8. produced_total' = Cardinality(Counted')
    BY <1>3, <2>1 DEF Ledger
  <2> QED BY <2>4, <2>6, <2>7, <2>8 DEF Ledger
<1>8. Leaving'
  BY <1>2, <1>3, <1>4 DEF Leaving
<1>9. Owners(heap', Contents', Hands')
  <2>1. Fifo!InvokeEnqueue(t, v)
    BY <1>1, <1>2, CallEnqueueFifo
  <2>2. /\ Contents' = Contents /\ Op[t].stage = "idle"
        /\ Op' = [Op EXCEPT ![t] = [stage |-> "enq", val |-> v]]
    BY <2>1 DEF Fifo!InvokeEnqueue
  <2>3. Op'[t] = [stage |-> "enq", val |-> v] /\ \A u \in Threads \ {t} : Op'[u] = Op[u]
    BY <1>2, <2>2 DEF Op
  <2>4. Hands' = [Hands EXCEPT ![t] = Hand(t, thr'[t], Op'[t])]
    BY <1>2, <1>4, <2>3, HandsMove
  <2>5. Hand(t, thr'[t], Op'[t]) = {v}
    BY <2>3 DEF Hand
  <2>6. Hands[t] = {}
    BY <1>2, <2>2, HandIs DEF Hands, Hand
  <2>7. Hands \in [Threads -> SUBSET Values]
    BY HandsAre DEF IInv
  <2> QED BY <1>1, <1>2, <2>2, <2>4, <2>5, <2>6, <2>7, NewOwned
<1> QED BY <1>5, <1>6, <1>7, <1>8, <1>9

LEMMA ProducedKeeps ==
    ASSUME TestInv, status = "ready", IInv', SizeAccounting', NEW t \in Producers, Produced(t)
    PROVE  TestInv'
<1> USE DEF TestInv
<1>1. /\ t \in Threads /\ t \notin Consumers
      /\ Producers \subseteq Threads /\ Consumers \subseteq Threads
      /\ ItemsPerProducer \in Nat
  BY FGQueueTestAssumption
<1>2. /\ pc[t] = "idle" /\ thr[t] = "call" /\ thr' = [thr EXCEPT ![t] = "top"]
      /\ made' = [made EXCEPT ![t] = @ + 1] /\ produced_total' = produced_total + 1
      /\ UNCHANGED <<main, prod, consumed_total, heap, value, chain, pc, node, val>>
  BY DEF Produced, Become, vars, memory, locals
<1>3. /\ thr'[t] = "top" /\ \A u \in Threads \ {t} : thr'[u] = thr[u]
      /\ made[t] \in Nat /\ made[t] < ItemsPerProducer
      /\ made'[t] = made[t] + 1 /\ \A r \in Producers \ {t} : made'[r] = made[r]
      /\ made' \in [Producers -> 0 .. ItemsPerProducer]
  BY <1>1, <1>2 DEF TestTypeOK, Ledger
<1>4. made \in [Producers -> Nat] /\ made' \in [Producers -> Nat]
  BY <1>1, <1>3 DEF TestTypeOK
<1>5. Cardinality(Counted') = Cardinality(Counted) + 1
  <2>1. Cardinality(Upto(made')) = Cardinality(Upto(made)) + 1
    BY <1>1, <1>3, <1>4, OneMore
  <2> QED BY <2>1, Books, BooksNext
<1>6. produced_total' = Cardinality(Counted') /\ produced_total' \in 0 .. Total
  <2>1. Counted' \in SUBSET Items
    BY DEF Counted, Items
  <2>2. Cardinality(Counted') \in 0 .. Total
    BY <2>1, Sizes
  <2> QED BY <1>2, <1>5, <2>2 DEF Ledger
<1>7. TestTypeOK'
  BY <1>1, <1>2, <1>3, <1>6 DEF TestTypeOK, IInv
<1>8. Stages'
  BY <1>1, <1>2, <1>3 DEF Stages
<1>9. Ledger'
  <2>1. Begun' = Begun
    <3>1. \A r \in Producers : made'[r] + (IF thr'[r] = "call" THEN 1 ELSE 0)
                                 = made[r] + (IF thr[r] = "call" THEN 1 ELSE 0)
      BY <1>1, <1>2, <1>3
    <3>2. Started' = Started
      BY <3>1 DEF Started
    <3> QED BY <3>2, Books, BooksNext DEF Upto
  <2>2. Freed' = Freed
    BY <1>1, <1>3 DEF Freed
  <2>3. \A q \in Producers : /\ thr'[q] = "call" => made'[q] < ItemsPerProducer
                             /\ thr'[q] = "exited" => made'[q] = ItemsPerProducer
    BY <1>1, <1>3 DEF Ledger
  <2> QED BY <1>2, <1>6, <2>1, <2>2, <2>3 DEF Ledger
<1>10. Leaving'
  BY <1>1, <1>2, <1>3 DEF Leaving
<1>11. Contents' = Contents /\ Hands' = Hands
  BY <1>1, <1>2, <1>3, SameHands
<1> QED BY <1>2, <1>7, <1>8, <1>9, <1>10, <1>11

LEMMA ProducerKeeps ==
    ASSUME TestInv, status = "ready", IInv', SizeAccounting', NEW t \in Producers, ProducerStep(t)
    PROVE  TestInv'
<1>1. /\ t \in Threads /\ t \notin Consumers
      /\ Producers \subseteq Threads /\ Consumers \subseteq Threads
  BY FGQueueTestAssumption
<1>2. CASE ProduceAbort(t)
  <2> USE DEF TestInv
  <2>1. UNCHANGED <<value, chain, pc, node, val, main, thr, made, prod, produced_total, consumed_total, heap>>
    BY <1>2 DEF ProduceAbort, EndProcess, memory, locals, testVars, threadVars
  <2>2. TestTypeOK' /\ Stages' /\ Leaving'
    BY <2>1 DEF TestTypeOK, Stages, Leaving, IInv
  <2>3. Ledger'
    BY <2>1, SameBooks
  <2>4. Contents' = Contents /\ Hands' = Hands
    BY <2>1, SameHands
  <2> QED BY <2>1, <2>2, <2>3, <2>4
<1>3. CASE ProducerExit(t)
  <2> USE DEF TestInv
  <2>1. /\ made[t] = ItemsPerProducer /\ thr[t] = "top" /\ thr' = [thr EXCEPT ![t] = "exited"]
        /\ UNCHANGED <<value, chain, pc, node, val, main, made, prod, produced_total, consumed_total, heap>>
    BY <1>3 DEF ProducerExit, Become, vars, memory, locals
  <2>2. thr'[t] = "exited" /\ \A u \in Threads \ {t} : thr'[u] = thr[u]
    BY <1>1, <2>1 DEF TestTypeOK
  <2>3. TestTypeOK'
    BY <2>1 DEF TestTypeOK, IInv
  <2>4. Stages' /\ Leaving'
    BY <1>1, <2>1, <2>2 DEF Stages, Leaving
  <2>5. Ledger'
    BY <1>1, <2>1, <2>2, SameBooks
  <2>6. Contents' = Contents /\ Hands' = Hands
    BY <1>1, <2>1, <2>2, SameHands
  <2> QED BY <2>1, <2>3, <2>4, <2>5, <2>6
<1>4. ASSUME EnqueueStep(t), UNCHANGED testVars  PROVE TestInv'
  BY <1>1, <1>4, CallKeeps
<1> QED BY <1>2, <1>3, <1>4, ProduceKeeps, ProducedKeeps DEF ProducerStep

\* A consumer's own steps
LEMMA ConsumerPlace ==
    ASSUME TestTypeOK, Ledger, NEW t \in Consumers, NEW to, thr' = [thr EXCEPT ![t] = to],
           UNCHANGED <<made, produced_total>>
    PROVE  /\ t \in Threads /\ t \notin Producers /\ Consumers \subseteq Threads
           /\ thr'[t] = to /\ \A u \in Threads \ {t} : thr'[u] = thr[u]
           /\ Begun' = Begun /\ produced_total' = Cardinality(Counted')
           /\ \A q \in Producers : /\ thr'[q] = thr[q]
                                   /\ thr'[q] = "call" => made'[q] < ItemsPerProducer
                                   /\ thr'[q] = "exited" => made'[q] = ItemsPerProducer
<1>1. /\ t \in Threads /\ t \notin Producers
      /\ Producers \subseteq Threads /\ Consumers \subseteq Threads
  BY FGQueueTestAssumption
<1>2. thr'[t] = to /\ \A u \in Threads \ {t} : thr'[u] = thr[u]
  BY <1>1 DEF TestTypeOK
<1>3. Started' = Started
  BY <1>1, <1>2 DEF Started
<1>4. Begun' = Begun
  BY <1>3, Books, BooksNext DEF Upto
<1>5. Counted' = Counted
  BY DEF Counted
<1> QED BY <1>1, <1>2, <1>4, <1>5 DEF Ledger

LEMMA ConsumeKeeps ==
    ASSUME TestInv, status = "ready", IInv', SizeAccounting', NEW t \in Consumers, Consume(t)
    PROVE  TestInv'
<1> USE DEF TestInv
<1>1. /\ thr[t] = "top" /\ thr' = [thr EXCEPT ![t] = "call"] /\ CallDequeue(t)
      /\ UNCHANGED <<main, made, prod, produced_total, consumed_total, heap>>
  BY DEF Consume, Become
<1>2. /\ t \in Threads /\ t \notin Producers /\ Consumers \subseteq Threads
      /\ thr'[t] = "call" /\ \A u \in Threads \ {t} : thr'[u] = thr[u]
      /\ \A q \in Producers : thr'[q] = thr[q]
  BY <1>1, ConsumerPlace
<1>3. pc[t] = "idle" /\ pc'[t] = "deq_hlock" /\ \A u \in Threads \ {t} : pc'[u] = pc[u]
  BY <1>1, <1>2 DEF CallDequeue, Goto, IInv, TypeOK
<1>4. TestTypeOK'
  BY <1>1, <1>2 DEF TestTypeOK, IInv
<1>5. Stages'
  BY <1>2, <1>3 DEF Stages, DequeueStages
<1>6. Ledger'
  BY <1>1, <1>2, SameBooks
<1>7. Leaving'
  BY <1>1, <1>2 DEF Leaving
<1>8. Fifo!InvokeDequeue(t)
  BY <1>1, <1>2, CallDequeueFifo
<1>9. Contents' = Contents /\ Hands' = Hands
  <2>1. /\ Contents' = Contents /\ Op[t].stage = "idle"
        /\ Op' = [Op EXCEPT ![t] = [stage |-> "deq", val |-> NULL]]
    BY <1>8 DEF Fifo!InvokeDequeue
  <2>2. Op'[t] = [stage |-> "deq", val |-> NULL] /\ \A u \in Threads \ {t} : Op'[u] = Op[u]
    BY <1>2, <2>1 DEF Op
  <2>3. Hands' = [Hands EXCEPT ![t] = Hand(t, thr'[t], Op'[t])]
    BY <1>2, <2>2, HandsMove
  <2>4. Hand(t, thr'[t], Op'[t]) = {}
    BY <2>2 DEF Hand
  <2>5. Hands[t] = {}
    BY <1>1, <1>2, <2>1, HandIs DEF Hands, Hand
  <2>6. Hands \in [Threads -> SUBSET Values]
    BY HandsAre DEF IInv
  <2> QED BY <2>1, <2>3, <2>4, <2>5, <2>6
<1> QED BY <1>1, <1>4, <1>5, <1>6, <1>7, <1>9

LEMMA FreeKeeps ==
    ASSUME TestInv, status = "ready", IInv', SizeAccounting', NEW t \in Consumers, Free(t)
    PROVE  TestInv'
<1> USE DEF TestInv
<1>1. /\ pc[t] = "idle" /\ val[t] # NULL /\ thr[t] = "call" /\ thr' = [thr EXCEPT ![t] = "count"]
      /\ heap' = heap \ {val[t]}
      /\ UNCHANGED <<value, chain, pc, node, val, main, made, prod, produced_total, consumed_total>>
  BY DEF Free, Become, vars, memory, locals
<1>2. /\ t \in Threads /\ t \notin Producers /\ Consumers \subseteq Threads
      /\ thr'[t] = "count" /\ \A u \in Threads \ {t} : thr'[u] = thr[u]
      /\ Begun' = Begun /\ produced_total' = Cardinality(Counted')
      /\ \A q \in Producers : /\ thr'[q] = thr[q]
                              /\ thr'[q] = "call" => made'[q] < ItemsPerProducer
                              /\ thr'[q] = "exited" => made'[q] = ItemsPerProducer
  BY <1>1, ConsumerPlace
<1>3. TestTypeOK'
  BY <1>1, <1>2 DEF TestTypeOK, IInv
<1>4. Stages'
  BY <1>1, <1>2 DEF Stages
<1>5. Leaving'
  BY <1>1, <1>2 DEF Leaving
<1>6. Op' = Op /\ Contents' = Contents /\ Op[t].stage = "idle" /\ Op[t].val = val[t]
  BY <1>1, <1>2 DEF Op, Contents, StageOf
<1>7. Hands[t] = {val[t]} /\ Hands' = [Hands EXCEPT ![t] = {}]
  <2>1. Hands' = [Hands EXCEPT ![t] = Hand(t, thr'[t], Op'[t])]
    BY <1>2, <1>6, HandsMove
  <2>2. Hand(t, thr'[t], Op'[t]) = {}
    BY <1>2, <1>6 DEF Hand
  <2>3. Hands[t] = {val[t]}
    BY <1>1, <1>2, <1>6, HandIs DEF Hands, Hand
  <2> QED BY <2>1, <2>2, <2>3
<1>8. val[t] \in heap /\ Owners(heap', Contents', Hands')
  <2>1. Hands \in [Threads -> SUBSET Values]
    BY HandsAre DEF IInv
  <2>2. Owners(heap, Contents, Hands)
    OBVIOUS
  <2>3. val[t] \in heap /\ Owners(heap \ {val[t]}, Contents, [Hands EXCEPT ![t] = {}])
    BY ONLY <1>2, <1>7, <2>1, <2>2, DropOwned
  <2> QED BY <1>1, <1>6, <1>7, <2>3
<1>9. Ledger'
  <2>1. IsFiniteSet(heap') /\ Cardinality(heap') = Cardinality(heap) - 1
    BY <1>1, <1>8, FS_RemoveElement DEF Ledger
  <2>2. Freed' = Freed \cup {t} /\ t \notin Freed
    BY <1>1, <1>2 DEF Freed
  <2>3. Cardinality(Freed') = Cardinality(Freed) + 1
    BY <2>2, BooksAre, FS_AddElement
  <2>4. /\ Cardinality(heap) \in Nat /\ Cardinality(Freed) \in Nat /\ consumed_total \in Nat
    BY BooksAre, Sizes, FS_CardinalityType DEF Ledger, TestTypeOK
  <2>5. Cardinality(heap') + Cardinality(Freed') + consumed_total' = Cardinality(Begun')
    BY <1>1, <1>2, <2>1, <2>3, <2>4 DEF Ledger
  <2> QED BY <1>2, <2>1, <2>5 DEF Ledger
<1> QED BY <1>3, <1>4, <1>5, <1>8, <1>9

LEMMA CountKeeps ==
    ASSUME TestInv, status = "ready", IInv', SizeAccounting', NEW t \in Consumers, Count(t)
    PROVE  TestInv'
<1> USE DEF TestInv
<1> DEFINE to == IF consumed_total + 1 >= Total THEN "exited" ELSE "top"
<1>1. /\ thr[t] = "count" /\ thr' = [thr EXCEPT ![t] = to] /\ consumed_total' = consumed_total + 1
      /\ UNCHANGED <<value, chain, pc, node, val, main, made, prod, produced_total, heap>>
  BY DEF Count, Become, vars, memory, locals
<1>2. /\ t \in Threads /\ t \notin Producers /\ Consumers \subseteq Threads
      /\ thr'[t] = to /\ \A u \in Threads \ {t} : thr'[u] = thr[u]
      /\ Begun' = Begun /\ produced_total' = Cardinality(Counted')
      /\ \A q \in Producers : /\ thr'[q] = thr[q]
                              /\ thr'[q] = "call" => made'[q] < ItemsPerProducer
                              /\ thr'[q] = "exited" => made'[q] = ItemsPerProducer
  BY <1>1, ConsumerPlace
<1>3. to \in {"exited", "top"} /\ (to = "exited" => consumed_total + 1 >= Total)
  OBVIOUS
<1> HIDE DEF to
<1>4. Cardinality(Freed') = Cardinality(Freed) - 1
  <2>1. Freed' = Freed \ {t} /\ t \in Freed
    BY <1>1, <1>2, <1>3 DEF Freed
  <2> QED BY <2>1, BooksAre, FS_RemoveElement
<1>5. /\ Cardinality(heap) \in Nat /\ Cardinality(Freed) \in Nat /\ consumed_total \in Nat
      /\ Cardinality(Freed') \in Nat /\ Cardinality(Begun) \in 0 .. Total /\ Total \in Nat
  <2>1. Freed' \in SUBSET Consumers
    BY DEF Freed
  <2> QED BY <2>1, BooksAre, Sizes, FS_CardinalityType DEF Ledger, TestTypeOK
<1>6. Cardinality(heap') + Cardinality(Freed') + consumed_total' = Cardinality(Begun')
  BY <1>1, <1>2, <1>4, <1>5 DEF Ledger
<1>7. Ledger'
  BY <1>1, <1>2, <1>6 DEF Ledger
<1>8. consumed_total' \in 0 .. Total /\ consumed_total # Total
  BY <1>1, <1>2, <1>5, <1>6
<1>9. TestTypeOK'
  BY <1>1, <1>2, <1>3, <1>8 DEF TestTypeOK, IInv
<1>10. Stages'
  BY <1>1, <1>2 DEF Stages
<1>11. Leaving'
  <2>1. to = "exited" => consumed_total' = Total
    BY <1>1, <1>3, <1>5, <1>8
  <2>2. \A c \in Consumers : thr'[c] = "exited" => c = t
    BY <1>2, <1>8 DEF Leaving
  <2> QED BY <1>1, <1>2, <2>1, <2>2 DEF Leaving
<1>12. Contents' = Contents /\ Hands' = Hands
  BY <1>1, <1>2, <1>3, SameHands
<1> QED BY <1>1, <1>7, <1>9, <1>10, <1>11, <1>12

LEMMA ReadProducedKeeps ==
    ASSUME TestInv, status = "ready", IInv', SizeAccounting', NEW t \in Consumers, ReadProduced(t)
    PROVE  TestInv'
<1> USE DEF TestInv
<1>1. /\ pc[t] = "idle" /\ val[t] = NULL /\ thr[t] = "call" /\ thr' = [thr EXCEPT ![t] = "check"]
      /\ prod' = [prod EXCEPT ![t] = produced_total]
      /\ UNCHANGED <<value, chain, pc, node, val, main, made, produced_total, consumed_total, heap>>
  BY DEF ReadProduced, Become, vars, memory, locals
<1>2. /\ t \in Threads /\ t \notin Producers /\ Consumers \subseteq Threads
      /\ thr'[t] = "check" /\ \A u \in Threads \ {t} : thr'[u] = thr[u]
      /\ \A q \in Producers : thr'[q] = thr[q]
  BY <1>1, ConsumerPlace
<1>3. TestTypeOK' /\ Stages' /\ Leaving'
  <2>1. TestTypeOK'
    BY <1>1, <1>2 DEF TestTypeOK, IInv
  <2>2. Stages'
    BY <1>1, <1>2 DEF Stages
  <2>3. Leaving'
    BY <1>1, <1>2 DEF Leaving
  <2> QED BY <2>1, <2>2, <2>3
<1>4. Ledger'
  BY <1>1, <1>2, SameBooks
<1>5. Op' = Op /\ Contents' = Contents /\ Op[t].stage = "idle" /\ Op[t].val = NULL
  BY <1>1, <1>2 DEF Op, Contents, StageOf
<1>6. Hands' = Hands
  <2>1. Hands' = [Hands EXCEPT ![t] = Hand(t, thr'[t], Op'[t])]
    BY <1>2, <1>5, HandsMove
  <2>2. Hand(t, thr'[t], Op'[t]) = {} /\ Hands[t] = {}
    BY <1>1, <1>2, <1>5, HandIs DEF Hands, Hand
  <2>3. Hands \in [Threads -> SUBSET Values]
    BY HandsAre DEF IInv
  <2> QED BY <2>1, <2>2, <2>3
<1> QED BY <1>1, <1>3, <1>4, <1>5, <1>6

LEMMA ReadConsumedKeeps ==
    ASSUME TestInv, status = "ready", IInv', SizeAccounting', NEW t \in Consumers, ReadConsumed(t)
    PROVE  TestInv'
<1> USE DEF TestInv
<1> DEFINE to == IF prod[t] >= Total /\ consumed_total >= Total THEN "exited" ELSE "top"
<1>1. /\ thr[t] = "check" /\ thr' = [thr EXCEPT ![t] = to] /\ prod' = [prod EXCEPT ![t] = 0]
      /\ UNCHANGED <<value, chain, pc, node, val, main, made, produced_total, consumed_total, heap>>
  BY DEF ReadConsumed, Become, vars, memory, locals
<1>2. /\ t \in Threads /\ t \notin Producers /\ Consumers \subseteq Threads
      /\ thr'[t] = to /\ \A u \in Threads \ {t} : thr'[u] = thr[u]
      /\ \A q \in Producers : thr'[q] = thr[q]
  BY <1>1, ConsumerPlace
<1>3. to \in {"exited", "top"} /\ (to = "exited" => consumed_total >= Total)
  OBVIOUS
<1> HIDE DEF to
<1>4. Total \in Nat /\ consumed_total \in 0 .. Total
  BY Sizes DEF TestTypeOK
<1>5. TestTypeOK'
  BY <1>1, <1>2, <1>3, <1>4 DEF TestTypeOK, IInv
<1>6. Stages'
  BY <1>1, <1>2 DEF Stages
<1>7. Leaving'
  <2>1. to = "exited" => consumed_total = Total
    BY <1>3, <1>4
  <2> QED BY <1>1, <1>2, <2>1 DEF Leaving
<1>8. Ledger'
  BY <1>1, <1>2, <1>3, SameBooks
<1>9. Contents' = Contents /\ Hands' = Hands
  BY <1>1, <1>2, <1>3, SameHands
<1> QED BY <1>1, <1>5, <1>6, <1>7, <1>8, <1>9

LEMMA ConsumerKeeps ==
    ASSUME TestInv, status = "ready", IInv', SizeAccounting', NEW t \in Consumers, ConsumerStep(t)
    PROVE  TestInv'
<1>1. t \in Threads
  BY FGQueueTestAssumption
<1>2. ASSUME DequeueStep(t), UNCHANGED testVars  PROVE TestInv'
  BY <1>1, <1>2, CallKeeps
<1> QED BY <1>2, ConsumeKeeps, FreeKeeps, CountKeeps, ReadProducedKeeps, ReadConsumedKeeps DEF ConsumerStep

LEMMA TestStep == ASSUME TestInv, [TestNext]_allVars  PROVE TestInv'
<1>1. CASE UNCHANGED allVars
  <2> USE DEF TestInv
  <2>1. /\ UNCHANGED vars
        /\ UNCHANGED <<value, chain, pc, node, val, size, main, thr, made, prod, produced_total, consumed_total, heap>>
    BY <1>1 DEF allVars, vars, memory, locals, testVars, threadVars
  <2>2. IInv'
    BY <2>1, StutterInv
  <2>3. SizeAccounting'
    BY <2>1 DEF SizeAccounting, Linked, Uncounted, Undiscounted, Retired
  <2>4. TestTypeOK' /\ Stages' /\ Leaving'
    BY <2>1, <2>2 DEF TestTypeOK, Stages, Leaving, IInv
  <2>5. Ledger'
    BY <2>1, SameBooks
  <2>6. Contents' = Contents /\ Hands' = Hands
    BY <2>1, SameHands
  <2> QED BY <2>1, <2>2, <2>3, <2>4, <2>5, <2>6
<1>2. CASE TestNext
  <2>1. IInv' /\ SizeAccounting'
    BY <1>2, QueueKept DEF TestInv
  <2>2. CASE Run(Main)
    BY <2>1, <2>2, MainKeeps DEF Run
  <2>3. CASE \E t \in Producers : Run(ProducerStep(t))
    BY <2>1, <2>3, ProducerKeeps DEF Run
  <2>4. CASE \E t \in Consumers : Run(ConsumerStep(t))
    BY <2>1, <2>4, ConsumerKeeps DEF Run
  <2> QED BY <1>1, <1>2, <2>2, <2>3, <2>4 DEF TestNext
<1> QED BY <1>1, <1>2

LEMMA TestStart == ASSUME TestInit  PROVE TestInv
<1>1. /\ Init /\ main = "spawn" /\ heap = {} /\ produced_total = 0 /\ consumed_total = 0
      /\ thr = [t \in Threads |-> "unborn"] /\ made = [t \in Producers |-> 0]
      /\ prod = [t \in Consumers |-> 0]
  BY DEF TestInit
<1>2. IInv /\ SizeAccounting
  BY <1>1, InitInv, InitCounts
<1>3. /\ Producers \subseteq Threads /\ Consumers \subseteq Threads
      /\ ItemsPerProducer \in Nat /\ Total \in Nat
  BY Sizes, FGQueueTestAssumption
<1>4. TestTypeOK
  BY <1>1, <1>2, <1>3 DEF TestTypeOK, IInv
<1>5. pc = [t \in Threads |-> "idle"] /\ Len(chain) = 1
  BY <1>1 DEF Init
<1>6. Stages /\ Leaving
  BY <1>1, <1>3, <1>5 DEF Stages, Leaving
<1>7. Ledger
  <2>1. \A x \in Items : /\ made[x[1]] = 0 /\ thr[x[1]] # "call" /\ x[2] > 0 /\ x[2] \in Nat
    BY <1>1, <1>3 DEF Items
  <2>2. Counted = {} /\ Begun = {}
    BY <2>1 DEF Counted, Begun
  <2>3. Freed = {}
    BY <1>1, <1>3 DEF Freed
  <2> QED BY <1>1, <1>3, <2>2, <2>3, FS_EmptySet DEF Ledger
<1>8. Owners(heap, Contents, Hands)
  <2>1. Contents = <<>>
    BY <1>5 DEF Contents
  <2>2. \A t \in Threads : Hands[t] = {}
    BY <1>1, <1>5 DEF Hands, Holds, StageOf
  <2> QED BY <1>1, <2>1, <2>2 DEF Owners
<1> QED BY <1>2, <1>4, <1>6, <1>7, <1>8 DEF TestInv

-----------------------------------------------------------------------------
(***************************************************************************)
(* What the invariant says to the test program.                            *)
(***************************************************************************)
\* A consumer has left: all items were begun, dequeued, freed and counted.
LEMMA NothingLeft ==
    ASSUME TestInv, NEW c \in Consumers, thr[c] = "exited"
    PROVE  heap = {} /\ consumed_total = Total /\ Begun = Items
<1> USE DEF TestInv
<1>1. consumed_total = Total
  BY DEF Leaving
<1>2. /\ Cardinality(heap) \in Nat /\ Cardinality(Freed) \in Nat /\ Total \in Nat
      /\ Cardinality(Begun) \in 0 .. Total
  BY BooksAre, Sizes, FS_CardinalityType DEF Ledger
<1>3. Cardinality(heap) + Cardinality(Freed) + consumed_total = Cardinality(Begun)
  BY DEF Ledger
<1>4. Cardinality(heap) = 0 /\ Cardinality(Begun) = Total
  BY <1>1, <1>2, <1>3
<1>5. Begun \in SUBSET Items
  BY DEF Begun
<1> QED BY <1>1, <1>4, <1>5, Sizes, FS_EmptySet DEF Ledger

THEOREM TestInvariance == TestSpec => []TestInv
<1> QED BY TestStart, TestStep, PTL DEF TestSpec

\* For any number of producers, items and consumers, each payload block has
\* one owner at every moment: fgq_enqueue takes it from its producer and
\* fgq_dequeue hands it to one consumer, which frees it once (:79, :104, :198).
THEOREM Ownership == TestSpec => []OwnershipInv
<1>1. TestInv => OwnershipInv
  <2> SUFFICES ASSUME TestInv  PROVE OwnershipInv
    OBVIOUS
  <2> USE DEF TestInv
  <2>1. ASSUME status = "ready"
        PROVE  /\ heap = Queued \cup UNION {Holds(t) : t \in Threads}
               /\ \A i, j \in 1 .. Len(chain) - 1 : Contents[i] = Contents[j] => i = j
               /\ \A t \in Threads : Holds(t) \cap Queued = {}
               /\ \A t, u \in Threads : Holds(t) \cap Holds(u) # {} => t = u
    <3>1. /\ Len(Contents) = Len(chain) - 1
          /\ Queued = {Contents[i] : i \in 1 .. Len(Contents)}
      BY <2>1, ContentsOf DEF IInv
    <3>2. \A t \in Threads : Hands[t] = Holds(t)
      BY DEF Hands
    <3>3. UNION {Hands[t] : t \in Threads} = UNION {Holds(t) : t \in Threads}
      BY <3>2
    <3> QED BY <3>1, <3>2, <3>3 DEF Owners
  <2> QED BY <2>1 DEF OwnershipInv, ExclusiveOwnership
<1> QED BY <1>1, TestInvariance, PTL

\* A consumer leaves its loop only when every item of every producer has been
\* enqueued, dequeued and freed, whichever of its two exits it takes (:200-205).
THEOREM Drained == TestSpec => []ExitOnlyWhenDrained
<1>1. TestInv => ExitOnlyWhenDrained
  <2> SUFFICES ASSUME TestInv, NEW c \in Consumers, thr[c] = "exited", NEW r \in Producers
               PROVE  /\ heap = {} /\ consumed_total = Total
                      /\ made[r] + (IF thr[r] = "call" THEN 1 ELSE 0) = ItemsPerProducer
    <3>1. ASSUME TestInv, NEW c \in Consumers, thr[c] = "exited"
          PROVE  heap = {} /\ consumed_total = Total
      BY <3>1, NothingLeft
    <3> QED BY <3>1 DEF ExitOnlyWhenDrained
  <2> DEFINE begun == made[r] + (IF thr[r] = "call" THEN 1 ELSE 0)
  <2>1. heap = {} /\ consumed_total = Total /\ Begun = Items
    BY NothingLeft
  <2>2. made[r] \in 0 .. ItemsPerProducer /\ ItemsPerProducer \in Nat
    BY FGQueueTestAssumption DEF TestInv, TestTypeOK
  <2>3. begun \in Nat /\ begun <= ItemsPerProducer
    BY <2>2 DEF TestInv, Ledger
  <2>4. ItemsPerProducer <= begun
    <3>1. CASE ItemsPerProducer = 0
      BY <2>3, <3>1
    <3>2. CASE ItemsPerProducer > 0
      <4>1. <<r, ItemsPerProducer>> \in Begun
        BY <2>1, <2>2, <3>2 DEF Items
      <4> QED BY <4>1 DEF Begun
    <3> QED BY <2>2, <3>1, <3>2
  <2>5. begun = ItemsPerProducer
    BY <2>2, <2>3, <2>4
  <2> QED BY <2>1, <2>5
<1> QED BY <1>1, TestInvariance, PTL

\* After main has joined its threads the counter it asserts is 0 (:273) and
\* fgq_destroy finds only the dummy (:67).
THEOREM Joined == TestSpec => []JoinsLeaveNothing
<1>1. TestInv => JoinsLeaveNothing
  <2> SUFFICES ASSUME TestInv, main \in {"assert", "destroy"}  PROVE size = 0 /\ Len(chain) = 1
    BY DEF JoinsLeaveNothing
  <2> USE DEF TestInv
  <2>1. Threads = Producers \cup Consumers
    BY FGQueueTestAssumption
  <2>2. \A t \in Threads : thr[t] = "exited"
    BY <2>1 DEF Leaving
  <2>3. \A t \in Threads : pc[t] = "idle"
    BY <2>2 DEF Stages
  <2>4. Uncounted = {} /\ Undiscounted = {}
    BY <2>3 DEF Uncounted, Undiscounted, Retired
  <2>5. PICK c \in Consumers : thr[c] = "exited"
    BY <2>1, <2>2, FGQueueTestAssumption
  <2>6. heap = {}
    BY <2>5, NothingLeft
  <2>7. Len(chain) \in Nat /\ Len(chain) > 0 /\ chain \in Seq(Nodes)
    BY ChainEnds DEF IInv, TypeOK
  <2>8. Len(chain) = 1
    <3>1. Contents \in Seq(Values \cup {NULL}) /\ Len(Contents) = Len(chain) - 1
      <4>1. Len(chain) - 1 \in Nat /\ \A i \in 1 .. Len(chain) - 1 : i + 1 \in 1 .. Len(chain)
        BY <2>7
      <4>2. \A i \in 1 .. Len(chain) - 1 : value[chain[i + 1]] \in Values \cup {NULL}
        BY <2>7, <4>1 DEF IInv, TypeOK
      <4> QED BY <4>1, <4>2 DEF Contents
    <3>2. {Contents[i] : i \in 1 .. Len(Contents)} = {}
      BY <2>6 DEF Owners
    <3>3. ~(1 \in 1 .. Len(Contents))
      BY <3>2
    <3> QED BY <2>7, <3>1, <3>3
  <2>9. size = 0
    <3>1. Linked = 0 /\ SizeMod \in Nat \ {0}
      BY <2>8, FGQueueAssumption DEF Linked
    <3>2. 0 % SizeMod = 0
      BY <3>1
    <3> QED BY <2>4, <3>1, <3>2, FS_EmptySet DEF SizeAccounting
  <2> QED BY <2>8, <2>9
<1> QED BY <1>1, TestInvariance, PTL
=============================================================================

-------------------------- MODULE Programs_proofs --------------------------
(***************************************************************************)
(* Proofs about programs with one thread: the traversals of BFS/main.c and *)
(* DFS/main.c, for any graph and any start; the heap of                    *)
(* MemoryManagementSystem.c, for any number of blocks and ticks and any    *)
(* first times; the page-replacement simulator, for any number of frames,  *)
(* pages, processes and accesses; the sort of BubbleSort.c, for lists of   *)
(* any length; compute_lps of LPS.c, for any pattern; max_sub of           *)
(* max_sub.c, for any array whose sums an int holds; the automata, for any *)
(* input; the scanner, for any files; the servers with one thread that     *)
(* fork, for any clients and any number of messages and failures; the      *)
(* upload, for a file of any length and any size of a piece; main of       *)
(* MYSQL/StudenDatabase, for any tables, errors and other clients.         *)
(***************************************************************************)
EXTENDS OneThread, MCSmallServers, FunctionTheorems, FiniteSetTheorems, SequenceTheorems,
        WellFoundedInduction, TLAPS

-----------------------------------------------------------------------------
(***************************************************************************)
(* The traversals.                                                         *)
(***************************************************************************)
\* A sequence of vertices without repetition is no longer than there are vertices.
LEMMA Pigeonhole ==
    ASSUME GraphAssumption, NEW s \in Seq(Vertices),
           \A h, t \in 1 .. Len(s) : s[h] = s[t] => h = t
    PROVE  Len(s) <= num_vert
<1>1. num_vert \in Nat \ {0} BY DEF GraphAssumption
<1>2. IsFiniteSet(Vertices) /\ Cardinality(Vertices) = num_vert
  <2>1. /\ IsFiniteSet(0 .. num_vert - 1)
        /\ Cardinality(0 .. num_vert - 1) =
             IF 0 > num_vert - 1 THEN 0 ELSE (num_vert - 1) - 0 + 1
    BY <1>1, FS_Interval
  <2> QED BY <1>1, <2>1 DEF Vertices
<1>3. Len(s) \in Nat OBVIOUS
<1>4. Cardinality(1 .. Len(s)) = Len(s)
  <2>1. Cardinality(1 .. Len(s)) = IF 1 > Len(s) THEN 0 ELSE Len(s) - 1 + 1
    BY <1>3, FS_Interval
  <2> QED BY <1>3, <2>1
<1> DEFINE f == [h \in 1 .. Len(s) |-> s[h]]
<1>5. f \in Injection(1 .. Len(s), Vertices)
  <2>1. f \in [1 .. Len(s) -> Vertices] OBVIOUS
  <2>2. \A h, t \in 1 .. Len(s) : f[h] = f[t] => h = t OBVIOUS
  <2> QED BY <2>1, <2>2, Zenon DEF Injection, IsInjective
<1> HIDE DEF f
<1>6. Cardinality(1 .. Len(s)) <= Cardinality(Vertices) BY <1>2, <1>5, FS_Injection
<1> QED BY <1>2, <1>4, <1>6

\* A vertex that a list holds is a successor, and a vertex.
LEMMA NodeIsSuccessor ==
    ASSUME GraphTypeOK, NEW v \in Vertices, NEW k \in 1 .. Len(adj[v])
    PROVE  adj[v][k] \in Successors(v) /\ adj[v][k] \in Vertices
<1>1. adj[v] \in Seq(Vertices) BY DEF GraphTypeOK
<1> QED BY <1>1 DEF Successors

\* A list that has been walked to its end has only visited vertices.
LEMMA WalkedWhole ==
    ASSUME GraphTypeOK, Walked, phase = "scan", p > Len(adj[list])
    PROVE  Successors(list) \subseteq visited
<1>1. adj[list] \in Seq(Vertices) /\ p \in Nat BY DEF GraphTypeOK
<1>2. \A h \in 1 .. p - 1 : adj[list][h] \in visited BY DEF Walked
<1>3. DOMAIN adj[list] \subseteq 1 .. p - 1 BY <1>1
<1> QED BY <1>2, <1>3 DEF Successors

\* A vertex found in the list of a visited one is in every closed set with the start.
LEMMA FoundReachable ==
    ASSUME GraphTypeOK, OnlyReachable, list \in visited, NEW v \in Successors(list),
           visited' = visited \cup {v}, adj' = adj
    PROVE  OnlyReachable'
<1> SUFFICES ASSUME NEW C \in SUBSET Vertices, start \in C, Closed(C)'
             PROVE  visited' \subseteq C
  BY DEF OnlyReachable, Vertices
<1>1. Closed(C) BY DEF Closed, Successors
<1>2. visited \subseteq C BY <1>1 DEF OnlyReachable
<1>3. Successors(list) \subseteq C BY <1>1, <1>2 DEF Closed
<1> QED BY <1>2, <1>3

-----------------------------------------------------------------------------
\* Breadth first.  BfsInv is inductive as it stands.

bfsIInv == traversal = "bfs" /\ BfsInv

\* What a step leaves alone stays true.
LEMMA BfsStutter ==
    ASSUME bfsIInv, UNCHANGED bfsVars PROVE bfsIInv'
<1>1. UNCHANGED <<traversal, adj, dir, edges, visited, list, p, phase, queue, front>>
  BY DEF bfsVars, graphVars, bfsLocals
<1>2. BfsTypeOK' /\ QueuedOnce' /\ Walked'
  BY <1>1 DEF bfsIInv, BfsInv, BfsTypeOK, GraphTypeOK, QueuedOnce, Walked, Vertices
<1>3. Done'
  <2>1. adj' = adj /\ visited' = visited /\ phase' = phase /\ list' = list /\ queue' = queue /\ front' = front
    BY <1>1
  <2>2. CASE phase = "scan" BY <2>1, <2>2 DEF bfsIInv, BfsInv, Done, Successors
  <2>3. CASE phase \in {"loop", "done", "deleted"}
    <3>1. start \in visited /\ \A h \in 1 .. front : Successors(queue[h]) \subseteq visited
      BY <2>3 DEF bfsIInv, BfsInv, Done
    <3>2. \A h \in 1 .. front' : Successors(queue[h])' \subseteq visited' BY <2>1, <3>1 DEF Successors
    <3> QED BY <2>1, <2>3, <3>1, <3>2 DEF Done
  <2>4. CASE phase \notin {"loop", "scan", "done", "deleted"} BY <2>1, <2>4 DEF Done
  <2> QED BY <2>2, <2>3, <2>4
<1>4. OnlyReachable' /\ AllReachable'
  BY <1>1 DEF bfsIInv, BfsInv, OnlyReachable, AllReachable, Closed, Successors, Vertices
<1> QED BY <1>1, <1>2, <1>3, <1>4 DEF bfsIInv, BfsInv

LEMMA BfsStart ==
    ASSUME GraphAssumption, BfsInit PROVE bfsIInv
<1>1. num_vert \in Nat \ {0} /\ start \in Vertices /\ MaxEdges \in Nat
  BY DEF GraphAssumption, Vertices
<1>2. BfsTypeOK BY <1>1 DEF BfsInit, GraphInit, BfsTypeOK, GraphTypeOK
<1>3. QueuedOnce BY DEF BfsInit, GraphInit, QueuedOnce
<1> QED BY <1>2, <1>3 DEF BfsInit, GraphInit, bfsIInv, BfsInv, Walked, Done, OnlyReachable, AllReachable

LEMMA BfsAddKeeps ==
    ASSUME GraphAssumption, bfsIInv, NEW src \in Vertices, NEW dest \in Vertices, BfsAdd(src, dest)
    PROVE  bfsIInv'
<1>1. GraphTypeOK /\ phase = "build" BY DEF bfsIInv, BfsInv, BfsTypeOK, BfsAdd
<1>2. \A g \in [Vertices -> Seq(Vertices)], a, b \in Vertices :
         Prepend(g, a, b) \in [Vertices -> Seq(Vertices)]
  BY DEF Prepend
<1>3. adj' \in [Vertices -> Seq(Vertices)] BY <1>1, <1>2 DEF BfsAdd, GraphTypeOK
<1>4. edges' \in 0 .. MaxEdges BY <1>1 DEF BfsAdd, GraphTypeOK, GraphAssumption
<1>5. traversal' = traversal /\ dir' = dir /\ UNCHANGED bfsLocals BY DEF BfsAdd
<1>6. BfsTypeOK'
  BY <1>3, <1>4, <1>5 DEF bfsIInv, BfsInv, BfsTypeOK, GraphTypeOK, bfsLocals, Vertices
<1>7. visited = {} BY <1>1 DEF bfsIInv, BfsInv, QueuedOnce
<1> QED BY <1>1, <1>5, <1>6, <1>7
        DEF bfsIInv, BfsInv, bfsLocals, QueuedOnce, Walked, Done, OnlyReachable, AllReachable

LEMMA BfsCallKeeps ==
    ASSUME GraphAssumption, bfsIInv, BfsCall PROVE bfsIInv'
<1>1. num_vert \in Nat \ {0} /\ start \in Vertices BY DEF GraphAssumption, Vertices
<1>2. queue = <<>> /\ front = -1 BY DEF bfsIInv, BfsInv, BfsCall
<1>3. queue' = <<start>> /\ front' = 0 BY <1>2 DEF BfsCall, Insert
<1>4. BfsTypeOK'
  BY <1>1, <1>3 DEF BfsCall, graphVars, bfsIInv, BfsInv, BfsTypeOK, GraphTypeOK, Vertices
<1>5. QueuedOnce' BY <1>3 DEF BfsCall, QueuedOnce
<1>6. OnlyReachable' BY DEF BfsCall, OnlyReachable
<1> QED BY <1>3, <1>4, <1>5, <1>6
        DEF BfsCall, graphVars, bfsIInv, BfsInv, Walked, Done, AllReachable

LEMMA BfsHeadKeeps ==
    ASSUME GraphAssumption, bfsIInv, BfsHead PROVE bfsIInv'
<1>1. BfsTypeOK /\ phase = "loop" BY DEF bfsIInv, BfsInv, BfsHead
<1>2. front \in 0 .. Len(queue) - 1 /\ front + 1 \in 1 .. Len(queue)
  BY <1>1 DEF BfsTypeOK, BfsHead, isEmpty, rear
<1>3. list' \in Vertices /\ list' = queue[front + 1] BY <1>1, <1>2 DEF BfsTypeOK, BfsHead
<1>4. BfsTypeOK'
  BY <1>1, <1>3 DEF BfsHead, graphVars, BfsTypeOK, GraphTypeOK, Vertices
<1>5. Walked'
  <2>1. adj'[list'] \in Seq(Vertices) BY <1>4, <1>3 DEF BfsTypeOK, GraphTypeOK, BfsHead, graphVars
  <2> QED BY <2>1 DEF Walked, BfsHead
<1>6. Done' BY <1>1, <1>2, <1>3 DEF bfsIInv, BfsInv, Done, BfsHead, graphVars, Successors
<1>7. QueuedOnce' /\ OnlyReachable'
  <2>1. queue' = queue /\ visited' = visited /\ adj' = adj BY DEF BfsHead, graphVars
  <2>2. QueuedOnce' BY <2>1 DEF bfsIInv, BfsInv, QueuedOnce
  <2>3. OnlyReachable' BY <2>1 DEF bfsIInv, BfsInv, OnlyReachable, Closed, Successors, Vertices
  <2> QED BY <2>2, <2>3
<1> QED BY <1>4, <1>5, <1>6, <1>7 DEF bfsIInv, BfsInv, BfsHead, graphVars, AllReachable

LEMMA BfsScanKeeps ==
    ASSUME GraphAssumption, bfsIInv, BfsScan PROVE bfsIInv'
<1>1. /\ BfsTypeOK /\ GraphTypeOK /\ phase = "scan" /\ phase' = "scan" /\ list' = list
      /\ UNCHANGED graphVars
  BY DEF bfsIInv, BfsInv, BfsTypeOK, BfsScan
<1>2. PICK l \in Vertices : l = list BY <1>1 DEF GraphTypeOK
<1>3. PICK k \in 1 .. Len(adj[l]) : k = p
  BY <1>1, <1>2 DEF BfsScan, GraphTypeOK
<1>4. PICK v \in Vertices : v = adj[l][k] /\ v \in Successors(l)
  BY <1>1, <1>2, <1>3, NodeIsSuccessor
<1>5. p' = k + 1 /\ p' <= Len(adj[l]) + 1 /\ p' \in Nat \ {0} BY <1>2, <1>3 DEF BfsScan
<1>6. queue \in Seq(Vertices) /\ front \in 0 .. Len(queue) - 1 /\ l = queue[front + 1] /\ l \in visited
  <2>1. queue \in Seq(Vertices) /\ front \in -1 .. Len(queue) /\ front >= 0 /\ front < Len(queue)
    BY <1>1 DEF BfsTypeOK, bfsIInv, BfsInv, Done
  <2>2. front + 1 \in 1 .. Len(queue) BY <2>1
  <2>3. l = queue[front + 1] BY <1>1, <1>2 DEF bfsIInv, BfsInv, Done
  <2> QED BY <2>1, <2>2, <2>3 DEF bfsIInv, BfsInv, QueuedOnce
<1>7. /\ start \in visited /\ \A h \in 1 .. front : Successors(queue[h]) \subseteq visited
      /\ \A h \in 1 .. k - 1 : adj[l][h] \in visited
  BY <1>1, <1>2, <1>3 DEF bfsIInv, BfsInv, Done, Walked
<1>8. CASE v \in visited
  <2>1. visited' = visited /\ queue' = queue /\ front' = front
    BY <1>2, <1>3, <1>4, <1>8 DEF BfsScan
  <2>2. BfsTypeOK' BY <1>1, <1>2, <1>5, <2>1 DEF BfsTypeOK, GraphTypeOK, graphVars, Vertices
  <2>3. QueuedOnce' BY <2>1 DEF bfsIInv, BfsInv, QueuedOnce
  <2>4. Walked'
    BY <1>1, <1>2, <1>3, <1>4, <1>5, <1>7, <1>8, <2>1 DEF Walked, graphVars
  <2>5. Done' BY <1>1, <2>1 DEF bfsIInv, BfsInv, Done, graphVars, Successors
  <2>6. OnlyReachable'
    BY <1>1, <2>1 DEF bfsIInv, BfsInv, OnlyReachable, graphVars, Closed, Successors, Vertices
  <2> QED BY <1>1, <2>2, <2>3, <2>4, <2>5, <2>6 DEF bfsIInv, BfsInv, AllReachable, graphVars
<1>9. CASE v \notin visited
  <2>1. visited' = visited \cup {v} /\ queue' = Append(queue, v) /\ front' = front
    BY <1>2, <1>3, <1>4, <1>6, <1>9 DEF BfsScan, Insert
  <2>2. /\ queue' \in Seq(Vertices) /\ Len(queue') = Len(queue) + 1
        /\ \A h \in 1 .. Len(queue) : queue'[h] = queue[h]
        /\ queue'[Len(queue) + 1] = v
    BY <1>6, <2>1
  <2>3. QueuedOnce'
    <3>1. visited = {queue[h] : h \in 1 .. Len(queue)} BY DEF bfsIInv, BfsInv, QueuedOnce
    <3>2. \A h \in 1 .. Len(queue) : queue[h] # v BY <3>1, <1>9
    <3>3. 1 .. Len(queue') = (1 .. Len(queue)) \cup {Len(queue) + 1} BY <1>6, <2>2
    <3>4. visited' = {queue'[h] : h \in 1 .. Len(queue')}
      <4>1. ASSUME NEW x \in visited' PROVE \E h \in 1 .. Len(queue') : queue'[h] = x
        BY <4>1, <2>1, <2>2, <3>1, <3>3
      <4>2. ASSUME NEW h \in 1 .. Len(queue') PROVE queue'[h] \in visited'
        BY <4>2, <2>1, <2>2, <3>1, <3>3
      <4> QED BY <4>1, <4>2
    <3>5. \A h, t \in 1 .. Len(queue) : queue[h] = queue[t] => h = t
      BY DEF bfsIInv, BfsInv, QueuedOnce
    <3>6. \A h, t \in 1 .. Len(queue') : queue'[h] = queue'[t] => h = t
      BY <2>2, <3>2, <3>3, <3>5
    <3> QED BY <3>4, <3>6 DEF QueuedOnce
  <2>4. BfsTypeOK'
    <3>1. Len(queue') <= num_vert BY <2>2, <2>3, Pigeonhole DEF QueuedOnce
    <3>2. front' \in -1 .. Len(queue') /\ front' >= 0 BY <1>6, <2>1, <2>2
    <3>3. visited' \subseteq Vertices BY <1>1, <2>1 DEF GraphTypeOK
    <3> QED BY <1>1, <1>2, <1>5, <2>2, <3>1, <3>2, <3>3 DEF BfsTypeOK, GraphTypeOK, graphVars, Vertices
  <2>5. Walked'
    BY <1>1, <1>2, <1>3, <1>4, <1>5, <1>7, <2>1 DEF Walked, graphVars
  <2>6. Done'
    <3>1. front' < Len(queue') /\ list' = queue'[front' + 1] BY <1>1, <1>2, <1>6, <2>1, <2>2
    <3>2. \A h \in 1 .. front' : queue'[h] = queue[h] BY <1>6, <2>1, <2>2
    <3>3. \A h \in 1 .. front : \A t \in DOMAIN adj[queue[h]] : adj[queue[h]][t] \in visited
      BY <1>7 DEF Successors
    <3>4. adj' = adj BY <1>1 DEF graphVars
    <3>5. \A h \in 1 .. front' : \A t \in DOMAIN adj'[queue'[h]] : adj'[queue'[h]][t] \in visited'
      BY <2>1, <3>2, <3>3, <3>4
    <3>6. \A h \in 1 .. front' : Successors(queue[h])' \subseteq visited' BY <3>5 DEF Successors
    <3> QED BY <1>1, <1>7, <2>1, <3>1, <3>6 DEF Done
  <2>7. OnlyReachable' BY <1>1, <1>2, <1>4, <1>6, <2>1, FoundReachable DEF bfsIInv, BfsInv, graphVars
  <2> QED BY <1>1, <2>3, <2>4, <2>5, <2>6, <2>7 DEF bfsIInv, BfsInv, AllReachable, graphVars
<1> QED BY <1>8, <1>9

LEMMA BfsDeqKeeps ==
    ASSUME GraphAssumption, bfsIInv, BfsDeq PROVE bfsIInv'
<1>1. /\ BfsTypeOK /\ GraphTypeOK /\ phase = "scan" /\ phase' = "loop" /\ front' = front + 1
      /\ UNCHANGED <<graphVars, visited, list, p, queue>>
  BY DEF bfsIInv, BfsInv, BfsTypeOK, BfsDeq
<1>2. Successors(list) \subseteq visited
  BY <1>1, WalkedWhole DEF bfsIInv, BfsInv, BfsDeq
<1>3. front \in 0 .. Len(queue) - 1 /\ list = queue[front + 1]
  BY <1>1 DEF BfsTypeOK, bfsIInv, BfsInv, Done
<1>4. BfsTypeOK'
  <2>1. GraphTypeOK'
    BY <1>1 DEF GraphTypeOK, graphVars, Vertices
  <2>2. queue' \in Seq(Vertices') /\ Len(queue') <= num_vert
    BY <1>1 DEF BfsTypeOK, Vertices
  <2>3. front' \in -1 .. Len(queue') /\ front' >= 0
    BY <1>1, <1>3 DEF BfsTypeOK
  <2> QED BY <2>1, <2>2, <2>3 DEF BfsTypeOK
<1>5. \A h \in 1 .. front' : h \in 1 .. front \/ h = front + 1 BY <1>1, <1>3
<1>6. Done'
  <2>1. /\ queue' = queue /\ visited' = visited /\ start \in visited
        /\ \A v : Successors(v)' = Successors(v)
    BY <1>1 DEF graphVars, Successors, bfsIInv, BfsInv, Done
  <2>2. \A h \in 1 .. front' : Successors(queue[h]) \subseteq visited
    BY <1>1, <1>2, <1>3, <1>5 DEF bfsIInv, BfsInv, Done
  <2> QED BY <1>1, <2>1, <2>2 DEF Done
<1>7. QueuedOnce' /\ OnlyReachable'
  <2>1. queue' = queue /\ visited' = visited /\ adj' = adj BY <1>1 DEF graphVars
  <2>2. QueuedOnce' BY <2>1 DEF bfsIInv, BfsInv, QueuedOnce
  <2>3. OnlyReachable' BY <2>1 DEF bfsIInv, BfsInv, OnlyReachable, Closed, Successors, Vertices
  <2> QED BY <2>2, <2>3
<1> QED BY <1>1, <1>4, <1>6, <1>7 DEF bfsIInv, BfsInv, graphVars, Walked, AllReachable

LEMMA BfsReturnKeeps ==
    ASSUME GraphAssumption, bfsIInv, BfsReturn PROVE bfsIInv'
<1>1. BfsTypeOK /\ phase = "loop" /\ phase' = "done"
      /\ UNCHANGED <<graphVars, visited, list, p, queue, front>>
  BY DEF bfsIInv, BfsInv, BfsReturn
<1>2. front = Len(queue) BY <1>1 DEF BfsTypeOK, BfsReturn, isEmpty, rear
<1>3. start \in visited /\ Closed(visited)
  BY <1>1, <1>2 DEF bfsIInv, BfsInv, QueuedOnce, Done, Closed
<1>4. AllReachable' BY <1>1, <1>3 DEF AllReachable, graphVars, Closed, Successors
<1>5. BfsTypeOK' BY <1>1, <1>2 DEF BfsTypeOK, GraphTypeOK, graphVars, Vertices
<1>6. QueuedOnce' /\ OnlyReachable'
  BY <1>1 DEF bfsIInv, BfsInv, graphVars, QueuedOnce, OnlyReachable, Closed, Successors, Vertices
<1>7. Done' BY <1>1 DEF bfsIInv, BfsInv, graphVars, Done, Successors
<1> QED BY <1>1, <1>2, <1>4, <1>5, <1>6, <1>7 DEF bfsIInv, BfsInv, graphVars, Walked

LEMMA BfsDeleteKeeps ==
    ASSUME GraphAssumption, bfsIInv, BfsDelete PROVE bfsIInv'
<1>1. BfsTypeOK /\ phase = "done" /\ phase' = "deleted"
      /\ UNCHANGED <<graphVars, visited, list, p, queue, front>>
  BY DEF bfsIInv, BfsInv, BfsDelete, DeleteGraph
<1>2. BfsTypeOK' BY <1>1 DEF BfsTypeOK, GraphTypeOK, graphVars, Vertices
<1>3. AllReachable' BY <1>1 DEF bfsIInv, BfsInv, AllReachable, graphVars, Closed, Successors
<1>4. QueuedOnce' /\ OnlyReachable'
  BY <1>1 DEF bfsIInv, BfsInv, graphVars, QueuedOnce, OnlyReachable, Closed, Successors, Vertices
<1>5. Done' BY <1>1 DEF bfsIInv, BfsInv, graphVars, Done, Successors
<1> QED BY <1>1, <1>2, <1>3, <1>4, <1>5 DEF bfsIInv, BfsInv, graphVars, Walked

\* The traversal marks, inserts and prints exactly the vertices that can be reached
\* from the start, each once, without leaving its array (BFS/main.c:56-81, 165-193).
THEOREM BfsVisits == BfsSpec => []BfsInv
<1>1. BfsInit => bfsIInv BY GraphAssumption, BfsStart
<1>2. bfsIInv /\ [BfsNext]_bfsVars => bfsIInv'
  BY GraphAssumption, BfsStutter, BfsAddKeeps, BfsCallKeeps, BfsHeadKeeps, BfsScanKeeps,
     BfsDeqKeeps, BfsReturnKeeps, BfsDeleteKeeps DEF BfsNext
<1>3. bfsIInv => BfsInv BY DEF bfsIInv
<1> QED BY <1>1, <1>2, <1>3, PTL DEF BfsSpec

-----------------------------------------------------------------------------
\* Nearest first.

\* Induction, in the form the provers can use: a set of numbers has a least one.
LEMMA LeastNumber ==
    ASSUME NEW S \in SUBSET Nat, S # {}
    PROVE  \E n \in S : \A m \in S : n <= m
<1> DEFINE Upto(n) == {m \in S : m <= n}
           R == StrictSubsetOrdering(Nat)
           F == FiniteSubsetsOf(Nat)
           T == {Upto(n) : n \in S}
<1>1. IsWellFoundedOn(R, F) BY FS_StrictSubsetOrderingWellFounded
<1>2. \A n \in S : Upto(n) \in F BY FS_BoundedSetOfNaturals DEF FiniteSubsetsOf
<1>3. T \subseteq F /\ T # {} BY <1>2
<1>4. ASSUME NEW n \in S, NEW m \in S, m < n PROVE <<Upto(m), Upto(n)>> \in R
  <2>1. n \in Upto(n) /\ n \notin Upto(m) BY <1>4
  <2>2. ASSUME NEW k \in Upto(m) PROVE k \in Upto(n)
    <3>1. k \in S /\ k <= m /\ k \in Nat /\ m \in Nat /\ n \in Nat OBVIOUS
    <3>2. k <= n BY <3>1, <1>4
    <3> QED BY <3>1, <3>2
  <2>3. Upto(m) \in SUBSET Nat /\ Upto(n) \in SUBSET Nat OBVIOUS
  <2> HIDE DEF Upto
  <2> QED BY <2>1, <2>2, <2>3 DEF StrictSubsetOrdering
<1>5. /\ \A m \in S : Upto(m) \in T
      /\ \A x \in T : \E n \in S : x = Upto(n)
  OBVIOUS
<1> HIDE DEF R, F, T, Upto
<1>6. PICK x \in T : \A y \in T : ~(<<y, x>> \in R) BY <1>1, <1>3, WFMin
<1>7. PICK n \in S : x = Upto(n) BY <1>5
<1>8. ASSUME NEW m \in S PROVE n <= m
  <2>1. ~(<<Upto(m), Upto(n)>> \in R) BY <1>5, <1>6, <1>7
  <2> QED BY <1>4, <2>1
<1> QED BY <1>8

\* Induction up to a number: a set that has 0, and with a number the next, has all.
LEMMA Climb ==
    ASSUME NEW N \in Nat, NEW S, 0 \in S, \A k \in 1 .. N : k - 1 \in S => k \in S
    PROVE  \A k \in 0 .. N : k \in S
<1> DEFINE Out == (0 .. N) \ S
<1>1. Out = {}
  <2> SUFFICES ASSUME Out # {} PROVE FALSE
    OBVIOUS
  <2>1. PICK n \in Out : \A m \in Out : n <= m
    <3>1. Out \in SUBSET Nat
      OBVIOUS
    <3> HIDE DEF Out
    <3> QED BY <3>1, LeastNumber
  <2>2. n \in 0 .. N /\ n \notin S
    OBVIOUS
  <2>3. n \in 1 .. N /\ n - 1 \in 0 .. N /\ ~(n <= n - 1)
    <3>1. n # 0
      BY <2>2
    <3> HIDE DEF Out
    <3> QED BY <2>2, <3>1
  <2>4. n - 1 \notin Out
    <3> HIDE DEF Out
    <3> QED BY <2>1, <2>3
  <2> QED BY <2>2, <2>3, <2>4
<1> QED BY <1>1

\* f begins with e and goes on with move, up to n.
Iterates(f, n, e, move) == f[0] = e /\ \A k \in 1 .. n : f[k] = move[k][f[k - 1]]

LEMMA IterationExists ==
    ASSUME NEW S, NEW e \in S, NEW N \in Nat, NEW move, \A k \in 1 .. N : \A s \in S : move[k][s] \in S
    PROVE  \E f \in [0 .. N -> S] : Iterates(f, N, e, move)
<1> DEFINE Upto(n) == \E f \in [0 .. n -> S] : Iterates(f, n, e, move)
           All == {n \in 0 .. N : Upto(n)}
<1>1. 0 \in All
  <2>1. [k \in 0 .. 0 |-> e] \in [0 .. 0 -> S] /\ Iterates([k \in 0 .. 0 |-> e], 0, e, move)
    BY DEF Iterates
  <2> QED BY <2>1
<1>2. ASSUME NEW n \in 1 .. N, n - 1 \in All  PROVE n \in All
  <2>1. n - 1 \in 0 .. N /\ n - 1 \in Nat /\ n \in Nat /\ n \in 0 .. N
    OBVIOUS
  <2>2. PICK f \in [0 .. n - 1 -> S] : Iterates(f, n - 1, e, move)
    BY <1>2
  <2> HIDE DEF All
  <2>3. PICK g : g = [k \in 0 .. n |-> IF k = n THEN move[n][f[n - 1]] ELSE f[k]]
    OBVIOUS
  <2>4. f[n - 1] \in S /\ move[n][f[n - 1]] \in S
    BY <2>1
  <2>5. g \in [0 .. n -> S]
    BY <2>1, <2>3, <2>4
  <2>6. g[n] = move[n][f[n - 1]] /\ \A k \in 0 .. n - 1 : g[k] = f[k]
    BY <2>1, <2>3
  <2>7. ASSUME NEW k \in 1 .. n  PROVE g[k] = move[k][g[k - 1]]
    <3>1. CASE k = n
      BY <2>1, <2>6, <3>1
    <3>2. CASE k \in 1 .. n - 1
      <4>1. k \in 0 .. n - 1 /\ k - 1 \in 0 .. n - 1
        BY <2>1, <3>2
      <4> QED BY <2>2, <2>6, <3>2, <4>1 DEF Iterates
    <3> QED BY <2>1, <3>1, <3>2
  <2>8. g[0] = e
    BY <2>1, <2>2, <2>6 DEF Iterates
  <2>9. Upto(n)
    BY <2>5, <2>7, <2>8 DEF Iterates
  <2> QED BY <2>1, <2>9 DEF All
<1>3. N \in All
  <2> HIDE DEF All
  <2>1. \A n \in 0 .. N : n \in All
    BY <1>1, <1>2, Climb
  <2> QED BY <2>1
<1> QED BY <1>3

\* The next level of a traversal by levels.
Grow(W) == W \cup UNION {Successors(v) : v \in W}

LEMMA LevelsExist ==
    ASSUME GraphAssumption
    PROVE  \E f : f = [n \in 0 .. num_vert |-> IF n = 0 THEN {start} ELSE Grow(f[n - 1])]
<1> DEFINE Levels(m, f) == f = [n \in 0 .. m |-> IF n = 0 THEN {start} ELSE Grow(f[n - 1])]
           None == {m \in Nat : ~\E f : Levels(m, f)}
<1>1. None = {}
  <2> SUFFICES ASSUME None # {} PROVE FALSE OBVIOUS
  <2>1. PICK k \in None : \A m \in None : k <= m
    <3>1. None \in SUBSET Nat OBVIOUS
    <3> HIDE DEF None
    <3> QED BY <3>1, LeastNumber
  <2>2. CASE k = 0
    <3>1. Levels(0, [n \in 0 .. 0 |-> {start}]) OBVIOUS
    <3> QED BY <2>2, <3>1
  <2>3. CASE k # 0
    <3>1. k \in Nat /\ k - 1 \in Nat /\ k - 1 \notin None
      <4>1. None \subseteq Nat OBVIOUS
      <4> HIDE DEF None
      <4> QED BY <2>1, <2>3, <4>1
    <3>2. PICK f : Levels(k - 1, f) BY <3>1
    <3> DEFINE g == [n \in 0 .. k |-> IF n = k THEN Grow(f[k - 1]) ELSE f[n]]
    <3>3. ASSUME NEW n \in 0 .. k
          PROVE  g[n] = IF n = 0 THEN {start} ELSE Grow(g[n - 1])
      <4>1. CASE n = k
        <5>1. k - 1 \in 0 .. k /\ k - 1 # k BY <3>1
        <5>2. g[k - 1] = f[k - 1] BY <5>1
        <5> QED BY <2>3, <4>1, <5>2
      <4>2. CASE n # k
        <5>1. n \in 0 .. k - 1 BY <3>1, <4>2
        <5>2. g[n] = f[n] BY <4>2
        <5>3. f[n] = IF n = 0 THEN {start} ELSE Grow(f[n - 1])
          <6> HIDE DEF g
          <6> QED BY <3>2, <5>1
        <5>4. n # 0 => n - 1 \in 0 .. k /\ n - 1 # k BY <3>1, <5>1
        <5>5. n # 0 => g[n - 1] = f[n - 1] BY <5>4
        <5> HIDE DEF g
        <5> QED BY <5>2, <5>3, <5>5
      <4> QED BY <4>1, <4>2
    <3>4. g = [n \in 0 .. k |-> g[n]] OBVIOUS
    <3> HIDE DEF g
    <3>5. Levels(k, g) BY <3>3, <3>4
    <3> QED BY <2>1, <3>5
  <2> QED BY <2>2, <2>3
<1>2. num_vert \in Nat BY DEF GraphAssumption
<1>3. \E f : Levels(num_vert, f) BY <1>1, <1>2
<1> QED BY <1>3

LEMMA WithinLevels ==
    ASSUME GraphAssumption
    PROVE  /\ Within[0] = {start}
           /\ \A n \in 1 .. num_vert : n - 1 \in 0 .. num_vert /\ Within[n] = Grow(Within[n - 1])
<1>1. Within = [n \in 0 .. num_vert |-> IF n = 0 THEN {start} ELSE Grow(Within[n - 1])]
  <2>1. PICK f : f = [n \in 0 .. num_vert |-> IF n = 0 THEN {start} ELSE Grow(f[n - 1])]
    BY LevelsExist
  <2> QED BY <2>1 DEF Within, Grow
<1>2. num_vert \in Nat BY DEF GraphAssumption
<1> HIDE DEF Within
<1>3. 0 \in 0 .. num_vert /\ \A n \in 1 .. num_vert : n \in 0 .. num_vert /\ n # 0 /\ n - 1 \in 0 .. num_vert
  BY <1>2
<1> QED BY <1>1, <1>3

\* The start comes first, the others were found in the list of a vertex that has
\* been, or is being, looked at.
Parents ==
    \A t \in 1 .. Len(queue) :
        IF t = 1 THEN queue[t] = start
        ELSE \E h \in 1 .. front + 1 : h <= Len(queue) /\ queue[t] \in Successors(queue[h])

\* If anything within n edges has not been looked at yet, the head is within n edges.
LEMMA HeadNearest ==
    ASSUME GraphAssumption, bfsIInv, Parents, NearestFirst, phase = "scan"
    PROVE  \A n \in 0 .. num_vert : \A u \in Within[n] :
              (\A h \in 1 .. front : queue[h] # u) => list \in Within[n]
<1>1. /\ front \in Nat /\ Len(queue) \in Nat /\ front < Len(queue) /\ list = queue[front + 1]
      /\ \A h \in 1 .. front : Successors(queue[h]) \subseteq visited
      /\ \A x \in visited : \E h \in 1 .. Len(queue) : x = queue[h]
      /\ start \in visited
  BY DEF bfsIInv, BfsInv, BfsTypeOK, Done, QueuedOnce
<1>2. num_vert \in Nat BY DEF GraphAssumption
<1>3. /\ Within[0] = {start}
      /\ \A n \in 1 .. num_vert : n - 1 \in 0 .. num_vert /\ Within[n] = Grow(Within[n - 1])
  BY WithinLevels
<1>4. \A h, t \in 1 .. Len(queue) : h < t =>
         \A n \in 0 .. num_vert : queue[t] \in Within[n] => queue[h] \in Within[n]
  BY DEF NearestFirst, bfsIInv
<1> HIDE DEF Within
<1> DEFINE Late(n) == \E u \in Within[n] : \A h \in 1 .. front : queue[h] # u
           Bad == {n \in 0 .. num_vert : Late(n) /\ list \notin Within[n]}
<1>5. Bad = {}
  <2> SUFFICES ASSUME Bad # {} PROVE FALSE OBVIOUS
  <2>1. PICK n \in Bad : \A m \in Bad : n <= m
    <3>1. Bad \in SUBSET Nat BY <1>2
    <3> HIDE DEF Bad
    <3> QED BY <3>1, LeastNumber
  <2>2. PICK u \in Within[n] : \A h \in 1 .. front : queue[h] # u OBVIOUS
  <2>3. CASE n = 0
    <3>1. u = start /\ queue[1] = start
      <4>1. 1 \in 1 .. Len(queue) BY <1>1
      <4> QED BY <1>3, <2>2, <2>3, <4>1 DEF Parents
    <3>2. front = 0 BY <1>1, <2>2, <3>1
    <3> QED BY <1>1, <2>2, <2>3, <3>1, <3>2
  <2>4. CASE n # 0
    <3>1. n \in 1 .. num_vert /\ n - 1 \in 0 .. num_vert /\ n - 1 \notin Bad
      BY <1>2, <2>1, <2>4
    <3>2. Within[n] = Grow(Within[n - 1]) BY <1>3, <3>1
    <3>3. list \notin Within[n - 1] BY <3>2 DEF Grow
    <3>4. ~Late(n - 1) BY <3>1, <3>3
    <3>5. u \notin Within[n - 1] BY <2>2, <3>4
    <3>6. PICK w \in Within[n - 1] : u \in Successors(w) BY <2>2, <3>2, <3>5 DEF Grow
    <3>7. PICK h \in 1 .. front : queue[h] = w BY <3>4, <3>6
    <3>8. u \in visited BY <1>1, <3>6, <3>7
    <3>9. PICK k \in 1 .. Len(queue) : u = queue[k] BY <1>1, <3>8
    <3>10. k = front + 1 \/ front + 1 < k BY <1>1, <2>2, <3>9
    <3>11. front + 1 \in 1 .. Len(queue) BY <1>1
    <3> QED BY <1>1, <1>4, <2>2, <3>9, <3>10, <3>11
  <2> QED BY <2>3, <2>4
<1> QED BY <1>5

\* A vertex found now is no nearer than any that was found before.
LEMMA FoundFarthest ==
    ASSUME GraphAssumption, bfsIInv, Parents, NearestFirst, phase = "scan",
           NEW v \in Vertices, v \notin visited
    PROVE  \A n \in 0 .. num_vert : v \in Within[n] =>
              \A t \in 1 .. Len(queue) : queue[t] \in Within[n]
<1>1. /\ front \in Nat /\ Len(queue) \in Nat /\ front < Len(queue) /\ list = queue[front + 1]
      /\ \A h \in 1 .. front : Successors(queue[h]) \subseteq visited
      /\ start \in visited
  BY DEF bfsIInv, BfsInv, BfsTypeOK, Done
<1>2. num_vert \in Nat BY DEF GraphAssumption
<1>3. /\ Within[0] = {start}
      /\ \A n \in 1 .. num_vert : n - 1 \in 0 .. num_vert /\ Within[n] = Grow(Within[n - 1])
  BY WithinLevels
<1>4. \A h, t \in 1 .. Len(queue) : h < t =>
         \A n \in 0 .. num_vert : queue[t] \in Within[n] => queue[h] \in Within[n]
  BY DEF NearestFirst, bfsIInv
<1>5. \A n \in 0 .. num_vert : \A u \in Within[n] :
         (\A h \in 1 .. front : queue[h] # u) => list \in Within[n]
  BY HeadNearest
<1> HIDE DEF Within
<1> DEFINE All(n) == \A t \in 1 .. Len(queue) : queue[t] \in Within[n]
           Bad == {n \in 0 .. num_vert : v \in Within[n] /\ ~All(n)}
<1>6. Bad = {}
  <2> SUFFICES ASSUME Bad # {} PROVE FALSE OBVIOUS
  <2>1. PICK n \in Bad : \A m \in Bad : n <= m
    <3>1. Bad \in SUBSET Nat BY <1>2
    <3> HIDE DEF Bad
    <3> QED BY <3>1, LeastNumber
  <2>2. n \in 1 .. num_vert /\ n - 1 \in 0 .. num_vert /\ n - 1 \notin Bad
    <3>1. n # 0 BY <1>1, <1>3
    <3> QED BY <1>2, <2>1, <3>1
  <2>3. Within[n] = Grow(Within[n - 1]) BY <1>3, <2>2
  <2>4. v \notin Within[n - 1]
    <3>1. v \in Within[n - 1] => All(n - 1) BY <2>2
    <3>2. All(n - 1) => All(n) BY <2>3 DEF Grow
    <3> QED BY <3>1, <3>2
  <2>5. PICK u \in Within[n - 1] : v \in Successors(u) BY <2>3, <2>4 DEF Grow
  <2>6. \A h \in 1 .. front : queue[h] # u BY <1>1, <2>5
  <2>7. list \in Within[n - 1] BY <1>5, <2>2, <2>6
  <2>8. ASSUME NEW t \in 1 .. Len(queue) PROVE queue[t] \in Within[n]
    <3>1. CASE t = 1
      <4>1. 1 = front + 1 \/ 1 < front + 1 BY <1>1
      <4>2. front + 1 \in 1 .. Len(queue) BY <1>1
      <4>3. queue[1] \in Within[n - 1] BY <1>1, <1>4, <2>2, <2>7, <3>1, <4>1, <4>2
      <4> QED BY <2>3, <3>1, <4>3 DEF Grow
    <3>2. CASE t # 1
      <4>1. PICK h \in 1 .. front + 1 : h <= Len(queue) /\ queue[t] \in Successors(queue[h])
        BY <3>2 DEF Parents
      <4>2. /\ h = front + 1 \/ h < front + 1
            /\ h \in 1 .. Len(queue) /\ front + 1 \in 1 .. Len(queue)
        BY <1>1
      <4>3. queue[h] \in Within[n - 1] BY <1>1, <1>4, <2>2, <2>7, <4>2
      <4> QED BY <2>3, <4>1, <4>3 DEF Grow
    <3> QED BY <3>1, <3>2
  <2> QED BY <2>8
<1> QED BY <1>6

nearIInv == bfsIInv /\ Parents /\ NearestFirst

\* A step that leaves the queue and the graph alone.
LEMMA NearSame ==
    ASSUME nearIInv, UNCHANGED <<adj, queue>>, front' \in {front, front + 1} PROVE Parents' /\ NearestFirst'
<1>1. Within' = Within BY DEF Within, Successors
<1>2. NearestFirst' BY <1>1 DEF nearIInv, bfsIInv, NearestFirst
<1>3. front \in Int BY DEF nearIInv, bfsIInv, BfsInv, BfsTypeOK
<1>4. ASSUME NEW h \in 1 .. front + 1 PROVE h \in 1 .. front' + 1
  <2>1. h <= front' + 1
    <3>1. CASE front' = front BY <1>3, <3>1
    <3>2. CASE front' = front + 1 BY <1>3, <3>2
    <3> QED BY <3>1, <3>2
  <2>2. front' + 1 \in Int BY <1>3
  <2> QED BY <2>1, <2>2
<1>5. \A w : Successors(w)' = Successors(w) BY DEF Successors
<1>6. Parents'
  <2> SUFFICES ASSUME NEW t \in 1 .. Len(queue), t # 1
               PROVE  \E h \in 1 .. front' + 1 : h <= Len(queue) /\ queue[t] \in Successors(queue[h])'
    BY DEF nearIInv, Parents
  <2>1. PICK h \in 1 .. front + 1 : h <= Len(queue) /\ queue[t] \in Successors(queue[h])
    BY DEF nearIInv, Parents
  <2> QED BY <1>4, <1>5, <2>1
<1> QED BY <1>2, <1>6

LEMMA NearScan ==
    ASSUME GraphAssumption, nearIInv, BfsScan PROVE Parents' /\ NearestFirst'
<1>1. GraphTypeOK /\ phase = "scan" /\ adj' = adj /\ traversal' = "bfs"
  BY DEF nearIInv, bfsIInv, BfsInv, BfsTypeOK, BfsScan, graphVars
<1>2. /\ queue \in Seq(Vertices) /\ front \in Nat /\ front < Len(queue) /\ list = queue[front + 1]
  BY <1>1 DEF nearIInv, bfsIInv, BfsInv, BfsTypeOK, Done
<1>3. adj[list][p] \in Successors(list) /\ adj[list][p] \in Vertices
  <2>1. list \in Vertices /\ p \in 1 .. Len(adj[list]) BY <1>1 DEF BfsScan, GraphTypeOK
  <2> QED BY <1>1, <2>1, NodeIsSuccessor
<1>4. CASE adj[list][p] \in visited
  BY <1>1, <1>4, NearSame DEF BfsScan
<1>5. CASE adj[list][p] \notin visited
  <2> DEFINE v == adj[list][p]
             L == Len(queue)
  <2>1. /\ queue' = Append(queue, v) /\ front' = front
    BY <1>2, <1>5 DEF BfsScan, Insert
  <2>2. /\ L \in Nat /\ L > 0 /\ Len(queue') = L + 1 /\ queue'[L + 1] = v
        /\ \A h \in 1 .. L : queue'[h] = queue[h]
        /\ \A h \in 1 .. L + 1 : h \in 1 .. L \/ h = L + 1
    BY <1>2, <1>3, <2>1
  <2>3. Within' = Within BY <1>1 DEF Within, Successors
  <2>4. \A w : Successors(w)' = Successors(w) BY <1>1 DEF Successors
  <2>5. \A n \in 0 .. num_vert : v \in Within[n] => \A t \in 1 .. L : queue[t] \in Within[n]
    BY <1>1, <1>3, <1>5, FoundFarthest DEF nearIInv
  <2>6. v \in Successors(list) BY <1>3
  <2> HIDE DEF v, L, Within
  <2>7. NearestFirst'
    <3> SUFFICES ASSUME NEW h \in 1 .. L + 1, NEW t \in 1 .. L + 1, h < t,
                        NEW n \in 0 .. num_vert, queue'[t] \in Within[n]
                 PROVE  queue'[h] \in Within[n]
      BY <2>2, <2>3 DEF NearestFirst
    <3>1. h \in 1 .. L BY <2>2
    <3>2. CASE t = L + 1 BY <2>2, <2>5, <3>1, <3>2
    <3>3. CASE t # L + 1 BY <2>2, <3>1, <3>3 DEF nearIInv, bfsIInv, NearestFirst, L
    <3> QED BY <3>2, <3>3
  <2>8. Parents'
    <3> SUFFICES ASSUME NEW t \in 1 .. L + 1
                 PROVE  IF t = 1 THEN queue'[t] = start
                        ELSE \E h \in 1 .. front + 1 : h <= L + 1 /\ queue'[t] \in Successors(queue'[h])
      BY <2>1, <2>2, <2>4 DEF Parents
    <3>1. CASE t = L + 1
      <4>1. front + 1 \in 1 .. L /\ front + 1 \in 1 .. front + 1 BY <1>2, <2>2 DEF L
      <4>2. queue'[front + 1] = list BY <1>2, <2>2, <4>1
      <4>3. queue'[t] \in Successors(queue'[front + 1]) BY <2>2, <2>6, <3>1, <4>2
      <4>4. t # 1 /\ front + 1 <= L + 1 BY <2>2, <3>1, <4>1
      <4> QED BY <4>1, <4>3, <4>4
    <3>2. CASE t # L + 1
      <4>1. t \in 1 .. L /\ queue'[t] = queue[t] BY <2>2, <3>2
      <4>2. CASE t = 1 BY <4>1, <4>2 DEF nearIInv, Parents, L
      <4>3. CASE t # 1
        <5>1. PICK h \in 1 .. front + 1 : h <= L /\ queue[t] \in Successors(queue[h])
          BY <4>1, <4>3 DEF nearIInv, Parents, L
        <5>2. h <= L + 1 /\ queue'[h] = queue[h] BY <1>2, <2>2, <5>1
        <5> QED BY <4>1, <4>3, <5>1, <5>2
      <4> QED BY <4>2, <4>3
    <3> QED BY <3>1, <3>2
  <2> QED BY <2>7, <2>8
<1> QED BY <1>4, <1>5

\* What makes the traversal breadth first: a vertex is never printed before one that is
\* nearer to the start (BFS/main.c:71).
THEOREM BfsNearest == BfsSpec => []NearestFirst
<1>1. BfsInit => Parents /\ NearestFirst BY DEF BfsInit, Parents, NearestFirst
<1>2. bfsIInv /\ bfsIInv' /\ Parents /\ NearestFirst /\ [BfsNext]_bfsVars => Parents' /\ NearestFirst'
  <2> SUFFICES ASSUME nearIInv, bfsIInv', [BfsNext]_bfsVars PROVE Parents' /\ NearestFirst'
    BY DEF nearIInv
  <2>1. ASSUME NEW a \in Vertices, NEW b \in Vertices, BfsAdd(a, b) PROVE Parents' /\ NearestFirst'
    <3>1. queue' = <<>> BY <2>1 DEF BfsAdd, bfsLocals, nearIInv, bfsIInv, BfsInv
    <3> QED BY <3>1 DEF Parents, NearestFirst
  <2>2. CASE BfsCall
    <3>1. queue' = <<start>> BY <2>2 DEF BfsCall, Insert, nearIInv, bfsIInv, BfsInv
    <3> QED BY <3>1 DEF Parents, NearestFirst
  <2>3. CASE BfsScan BY <2>3, NearScan, GraphAssumption
  <2>4. CASE BfsHead \/ BfsDeq \/ BfsReturn \/ BfsDelete \/ UNCHANGED bfsVars
    <3>1. UNCHANGED <<adj, queue>> /\ front' \in {front, front + 1}
      BY <2>4 DEF BfsHead, BfsDeq, BfsReturn, BfsDelete, DeleteGraph, bfsVars, bfsLocals, graphVars
    <3> QED BY <3>1, NearSame
  <2> QED BY <2>1, <2>2, <2>3, <2>4 DEF BfsNext
<1>3. BfsInit => bfsIInv BY GraphAssumption, BfsStart
<1>4. bfsIInv /\ [BfsNext]_bfsVars => bfsIInv'
  BY GraphAssumption, BfsStutter, BfsAddKeeps, BfsCallKeeps, BfsHeadKeeps, BfsScanKeeps,
     BfsDeqKeeps, BfsReturnKeeps, BfsDeleteKeeps DEF BfsNext
<1> QED BY <1>1, <1>2, <1>3, <1>4, PTL DEF BfsSpec

-----------------------------------------------------------------------------
\* Depth first.  DfsInv is inductive too.

dfsIInv == traversal = "dfs" /\ DfsInv

\* What follows where the graph, the marks and the stack stay as they are.
LEMMA DfsSame ==
    ASSUME dfsIInv, UNCHANGED <<graphVars, visited, stack>>
    PROVE  /\ OnStack' = OnStack /\ PoppedDone' /\ OnlyReachable'
           /\ Closed(visited)' = Closed(visited)
           /\ \A h, t \in 1 .. top' : stack'[h] = stack'[t] => h = t
           /\ \A h \in 1 .. top' - 1 : Successors(stack[h])' = Successors(stack[h])
<1>1. adj' = adj /\ visited' = visited /\ stack' = stack BY DEF graphVars
<1>2. OnStack' = OnStack BY <1>1 DEF OnStack, top
<1>3. PoppedDone' BY <1>1, <1>2 DEF dfsIInv, DfsInv, PoppedDone, Successors
<1>4. OnlyReachable'
  BY <1>1 DEF dfsIInv, DfsInv, OnlyReachable, Closed, Successors, Vertices
<1>5. Closed(visited)' = Closed(visited) BY <1>1 DEF Closed, Successors
<1>6. \A h, t \in 1 .. top' : stack'[h] = stack'[t] => h = t
  BY <1>1 DEF dfsIInv, DfsInv, StackIsPath, top
<1>7. \A h \in 1 .. top' - 1 : Successors(stack[h])' = Successors(stack[h])
  BY <1>1 DEF Successors
<1> QED BY <1>2, <1>3, <1>4, <1>5, <1>6, <1>7

LEMMA DfsStutter ==
    ASSUME dfsIInv, UNCHANGED dfsVars PROVE dfsIInv'
<1>1. UNCHANGED <<traversal, adj, dir, edges, visited, list, p, phase, stack>>
  BY DEF dfsVars, graphVars
<1>2. OnStack' = OnStack /\ PoppedDone' /\ OnlyReachable' /\ Closed(visited)' = Closed(visited)
  BY <1>1, DfsSame DEF graphVars
<1>3. DfsTypeOK' /\ Walked'
  BY <1>1 DEF dfsIInv, DfsInv, DfsTypeOK, GraphTypeOK, Walked, Vertices
<1>4. StackIsPath' BY <1>1, <1>2 DEF dfsIInv, DfsInv, StackIsPath, top, Successors
<1>5. AllReachable' BY <1>1, <1>2 DEF dfsIInv, DfsInv, AllReachable
<1> QED BY <1>1, <1>2, <1>3, <1>4, <1>5 DEF dfsIInv, DfsInv

LEMMA DfsStart ==
    ASSUME GraphAssumption, DfsInit PROVE dfsIInv
<1>1. num_vert \in Nat \ {0} /\ start \in Vertices /\ MaxEdges \in Nat
  BY DEF GraphAssumption, Vertices
<1>2. DfsTypeOK BY <1>1 DEF DfsInit, GraphInit, DfsTypeOK, GraphTypeOK
<1>3. StackIsPath BY DEF DfsInit, GraphInit, StackIsPath, OnStack, top
<1> QED BY <1>2, <1>3
        DEF DfsInit, GraphInit, dfsIInv, DfsInv, PoppedDone, Walked, OnlyReachable, AllReachable

LEMMA DfsAddKeeps ==
    ASSUME GraphAssumption, dfsIInv, NEW src \in Vertices, NEW dest \in Vertices, DfsAdd(src, dest)
    PROVE  dfsIInv'
<1>1. GraphTypeOK /\ phase = "build" BY DEF dfsIInv, DfsInv, DfsTypeOK, DfsAdd
<1>2. adj' \in [Vertices -> Seq(Vertices)] BY <1>1 DEF DfsAdd, GraphTypeOK, Prepend
<1>3. edges' \in 0 .. MaxEdges BY <1>1 DEF DfsAdd, GraphTypeOK, GraphAssumption
<1>4. UNCHANGED <<traversal, dir, visited, list, p, phase, stack>> BY DEF DfsAdd
<1>5. DfsTypeOK'
  BY <1>2, <1>3, <1>4 DEF dfsIInv, DfsInv, DfsTypeOK, GraphTypeOK, Vertices
<1>6. visited = {} /\ stack = <<>> BY <1>1 DEF dfsIInv, DfsInv
<1>7. StackIsPath' BY <1>1, <1>4, <1>6 DEF StackIsPath, OnStack, top
<1> QED BY <1>1, <1>4, <1>5, <1>6, <1>7
        DEF dfsIInv, DfsInv, PoppedDone, Walked, OnlyReachable, AllReachable

LEMMA DfsCallKeeps ==
    ASSUME GraphAssumption, dfsIInv, DfsCall PROVE dfsIInv'
<1>1. num_vert \in Nat \ {0} /\ start \in Vertices BY DEF GraphAssumption, Vertices
<1>2. stack = <<>> BY DEF dfsIInv, DfsInv, DfsCall
<1>3. stack' = <<start>> BY <1>1, <1>2 DEF DfsCall, Push, top
<1>4. DfsTypeOK'
  BY <1>1, <1>3 DEF DfsCall, graphVars, dfsIInv, DfsInv, DfsTypeOK, GraphTypeOK, Vertices
<1>5. OnStack' = {start} BY <1>3 DEF OnStack, top
<1>6. StackIsPath' BY <1>3, <1>5 DEF DfsCall, StackIsPath, top
<1>7. PoppedDone' BY <1>5 DEF DfsCall, PoppedDone
<1>8. OnlyReachable' BY DEF DfsCall, OnlyReachable
<1> QED BY <1>3, <1>4, <1>6, <1>7, <1>8 DEF DfsCall, graphVars, dfsIInv, DfsInv, Walked, AllReachable

LEMMA DfsFirstKeeps ==
    ASSUME GraphAssumption, dfsIInv, DfsFirst PROVE dfsIInv'
<1>1. /\ DfsTypeOK /\ phase = "loop" /\ phase' = "scan" /\ stack # <<>> /\ p' = 1
      /\ UNCHANGED <<graphVars, visited, stack>>
  BY DEF dfsIInv, DfsInv, DfsFirst
<1>2. top \in 1 .. Len(stack) BY <1>1 DEF DfsTypeOK, top
<1>3. list' \in Vertices /\ list' = stack[top] BY <1>1, <1>2 DEF DfsTypeOK, DfsFirst
<1>4. DfsTypeOK' BY <1>1, <1>3 DEF graphVars, DfsTypeOK, GraphTypeOK, Vertices
<1>5. OnStack' = OnStack /\ PoppedDone' /\ OnlyReachable' BY <1>1, DfsSame
<1>6. Walked'
  <2>1. adj'[list'] \in Seq(Vertices) BY <1>1, <1>3 DEF DfsTypeOK, GraphTypeOK, graphVars
  <2> QED BY <1>1, <2>1 DEF Walked
<1>7. StackIsPath'
  BY <1>1, <1>3, <1>5 DEF dfsIInv, DfsInv, StackIsPath, top, graphVars, Successors
<1> QED BY <1>1, <1>4, <1>5, <1>6, <1>7 DEF dfsIInv, DfsInv, AllReachable, graphVars

LEMMA DfsNextNodeKeeps ==
    ASSUME GraphAssumption, dfsIInv, DfsNextNode PROVE dfsIInv'
<1>1. /\ DfsTypeOK /\ GraphTypeOK /\ phase = "scan" /\ phase' = "scan" /\ list' = list
      /\ p' = p + 1 /\ UNCHANGED <<graphVars, visited, stack>>
  BY DEF dfsIInv, DfsInv, DfsTypeOK, DfsNextNode
<1>2. PICK l \in Vertices : l = list BY <1>1 DEF GraphTypeOK
<1>3. PICK k \in 1 .. Len(adj[l]) : k = p BY <1>1, <1>2 DEF DfsNextNode, GraphTypeOK
<1>4. DfsTypeOK' BY <1>1, <1>2, <1>3 DEF graphVars, DfsTypeOK, GraphTypeOK, Vertices
<1>5. OnStack' = OnStack /\ PoppedDone' /\ OnlyReachable' BY <1>1, DfsSame
<1>6. Walked'
  <2>1. adj[l][k] \in visited BY <1>2, <1>3 DEF DfsNextNode
  <2>2. \A h \in 1 .. k - 1 : adj[l][h] \in visited
    BY <1>1, <1>2, <1>3 DEF dfsIInv, DfsInv, Walked
  <2> QED BY <1>1, <1>2, <1>3, <2>1, <2>2 DEF Walked, graphVars
<1>7. StackIsPath' BY <1>1, <1>5 DEF dfsIInv, DfsInv, StackIsPath, top, graphVars, Successors
<1> QED BY <1>1, <1>4, <1>5, <1>6, <1>7 DEF dfsIInv, DfsInv, AllReachable, graphVars

LEMMA DescendKeeps ==
    ASSUME GraphAssumption, dfsIInv, Descend PROVE dfsIInv'
<1>1. /\ DfsTypeOK /\ GraphTypeOK /\ phase = "scan" /\ phase' = "scan" /\ p' = 1
      /\ UNCHANGED graphVars
  BY DEF dfsIInv, DfsInv, DfsTypeOK, Descend
<1>2. PICK l \in Vertices : l = list BY <1>1 DEF GraphTypeOK
<1>3. PICK k \in 1 .. Len(adj[l]) : k = p BY <1>1, <1>2 DEF Descend, GraphTypeOK
<1>4. PICK v \in Vertices : v = adj[l][k] /\ v \in Successors(l)
  BY <1>1, <1>2, <1>3, NodeIsSuccessor
<1>5. v \notin visited /\ visited' = visited \cup {v} /\ list' = v
  BY <1>2, <1>3, <1>4 DEF Descend
<1>6. stack \in Seq(Vertices) /\ Len(stack) \in 1 .. num_vert /\ l = stack[Len(stack)] /\ l \in visited
  <2>1. stack \in Seq(Vertices) /\ Len(stack) <= num_vert /\ stack # <<>> /\ l = stack[Len(stack)]
    BY <1>1, <1>2 DEF dfsIInv, DfsInv, DfsTypeOK, StackIsPath, top
  <2>2. Len(stack) \in Nat \ {0} /\ num_vert \in Nat BY <2>1 DEF GraphAssumption
  <2>3. l \in OnStack BY <2>1, <2>2 DEF OnStack, top
  <2> QED BY <2>1, <2>2, <2>3 DEF dfsIInv, DfsInv, StackIsPath
<1>7. stack' = Append(stack, v)
  <2>1. top - 1 < num_vert BY <1>6 DEF top, GraphAssumption
  <2> QED BY <1>2, <1>3, <1>4, <2>1 DEF Descend, Push
<1>8. /\ stack' \in Seq(Vertices) /\ Len(stack') = Len(stack) + 1 /\ top' = Len(stack) + 1
      /\ \A h \in 1 .. Len(stack) : stack'[h] = stack[h]
      /\ stack'[Len(stack) + 1] = v
      /\ 1 .. Len(stack') = (1 .. Len(stack)) \cup {Len(stack) + 1}
  BY <1>6, <1>7 DEF top
<1>9. OnStack' = OnStack \cup {v} /\ OnStack \subseteq visited
  <2>1. OnStack' = {stack'[h] : h \in 1 .. Len(stack')} BY DEF OnStack, top
  <2>2. OnStack = {stack[h] : h \in 1 .. Len(stack)} BY DEF OnStack, top
  <2>3. ASSUME NEW x \in OnStack' PROVE x \in OnStack \cup {v} BY <2>1, <2>2, <2>3, <1>8
  <2>4. ASSUME NEW x \in OnStack \cup {v} PROVE x \in OnStack' BY <2>1, <2>2, <2>4, <1>8
  <2> QED BY <2>3, <2>4 DEF dfsIInv, DfsInv, StackIsPath
<1>10. \A h, t \in 1 .. Len(stack') : stack'[h] = stack'[t] => h = t
  <2>1. \A h \in 1 .. Len(stack) : stack[h] # v
    BY <1>5, <1>9 DEF OnStack, top
  <2>2. \A h, t \in 1 .. Len(stack) : stack[h] = stack[t] => h = t
    BY DEF dfsIInv, DfsInv, StackIsPath, top
  <2> QED BY <1>8, <2>1, <2>2
<1>11. StackIsPath'
  <2>1. \A h \in 1 .. Len(stack) - 1 : stack[h + 1] \in Successors(stack[h])
    BY DEF dfsIInv, DfsInv, StackIsPath, top
  <2>2. \A h \in 1 .. top' - 1 : h \in 1 .. Len(stack) /\ (h = Len(stack) \/ h \in 1 .. Len(stack) - 1)
    BY <1>6, <1>8
  <2>3. adj' = adj BY <1>1 DEF graphVars
  <2>4. \A h \in 1 .. top' - 1 : stack'[h + 1] \in Successors(stack'[h])
    <3> TAKE h \in 1 .. top' - 1
    <3>1. CASE h = Len(stack) BY <3>1, <1>4, <1>6, <1>8
    <3>2. CASE h \in 1 .. Len(stack) - 1
      <4>1. stack'[h + 1] = stack[h + 1] /\ stack'[h] = stack[h] BY <3>2, <1>6, <1>8
      <4> QED BY <4>1, <3>2, <2>1
    <3> QED BY <2>2, <3>1, <3>2
  <2>5. \A h \in 1 .. top' - 1 : stack'[h + 1] \in Successors(stack[h])'
    BY <2>3, <2>4 DEF Successors
  <2>6. stack' # <<>> /\ list' = stack'[top'] BY <1>5, <1>8
  <2> QED BY <1>5, <1>8, <1>9, <1>10, <2>5, <2>6 DEF StackIsPath, top
<1>12. DfsTypeOK'
  <2>1. Len(stack') <= num_vert BY <1>8, <1>10, Pigeonhole
  <2>2. visited' \subseteq Vertices BY <1>1, <1>5 DEF GraphTypeOK
  <2>3. GraphTypeOK' BY <1>1, <1>5, <2>2 DEF GraphTypeOK, graphVars, Vertices
  <2>4. stack' \in Seq(Vertices)' BY <1>8 DEF Vertices
  <2> QED BY <2>1, <2>3, <2>4 DEF DfsTypeOK
<1>13. PoppedDone'
  <2>1. adj' = adj BY <1>1 DEF graphVars
  <2>2. \A x \in visited' \ OnStack' : Successors(x) \subseteq visited'
    BY <1>5, <1>9 DEF dfsIInv, DfsInv, PoppedDone
  <2> QED BY <2>1, <2>2 DEF PoppedDone, Successors
<1>14. Walked'
  <2>1. adj'[list'] \in Seq(Vertices) BY <1>1, <1>5 DEF GraphTypeOK, graphVars
  <2> QED BY <1>1, <2>1 DEF Walked
<1>15. OnlyReachable'
  BY <1>1, <1>2, <1>4, <1>5, <1>6, FoundReachable DEF dfsIInv, DfsInv, graphVars
<1> QED BY <1>1, <1>5, <1>11, <1>12, <1>13, <1>14, <1>15 DEF dfsIInv, DfsInv, AllReachable, graphVars

LEMMA DfsPopKeeps ==
    ASSUME GraphAssumption, dfsIInv, DfsPop PROVE dfsIInv'
<1>1. /\ DfsTypeOK /\ GraphTypeOK /\ phase = "scan" /\ phase' = "loop"
      /\ stack' = SubSeq(stack, 1, Len(stack) - 1)
      /\ UNCHANGED <<graphVars, visited, list, p>>
  BY DEF dfsIInv, DfsInv, DfsTypeOK, DfsPop, top
<1>2. Successors(list) \subseteq visited BY <1>1, WalkedWhole DEF dfsIInv, DfsInv, DfsPop
<1>3. stack \in Seq(Vertices) /\ Len(stack) \in Nat \ {0} /\ list = stack[Len(stack)]
  BY <1>1 DEF dfsIInv, DfsInv, DfsTypeOK, StackIsPath, top
<1>4. /\ stack' \in Seq(Vertices) /\ Len(stack') = Len(stack) - 1
      /\ \A h \in 1 .. Len(stack') : stack'[h] = stack[h]
  <2>1. Len(stack') = Len(stack) - 1
    <3>1. PICK n \in Nat \ {0} : n = Len(stack) BY <1>3
    <3>2. Len(SubSeq(stack, 1, n - 1)) = IF 1 <= n - 1 THEN n - 1 - 1 + 1 ELSE 0
      BY <1>3, <3>1, SubSeqProperties
    <3> QED BY <1>1, <3>1, <3>2
  <2>2. \A h \in 1 .. Len(stack) - 1 : stack'[h] = stack[h] BY <1>1, <1>3
  <2>3. stack' \in Seq(Vertices) BY <1>1, <1>3
  <2> QED BY <2>1, <2>2, <2>3
<1>5. /\ \A h \in 1 .. Len(stack') : h \in 1 .. Len(stack)
      /\ \A h \in 1 .. Len(stack) : h \in 1 .. Len(stack') \/ h = Len(stack)
      /\ \A h \in 1 .. Len(stack') - 1 : h \in 1 .. Len(stack) - 1 /\ h + 1 \in 1 .. Len(stack')
  BY <1>3, <1>4
<1>6. adj' = adj BY <1>1 DEF graphVars
<1>7. OnStack' \subseteq OnStack /\ OnStack \subseteq OnStack' \cup {list}
  BY <1>3, <1>4, <1>5 DEF OnStack, top
<1>8. DfsTypeOK'
  <2>1. Len(stack') <= num_vert BY <1>1, <1>3, <1>4 DEF DfsTypeOK, GraphAssumption
  <2> QED BY <1>1, <1>4, <2>1 DEF DfsTypeOK, GraphTypeOK, graphVars, Vertices
<1>9. StackIsPath'
  <2>1. \A h, t \in 1 .. Len(stack') : stack'[h] = stack'[t] => h = t
    BY <1>4, <1>5 DEF dfsIInv, DfsInv, StackIsPath, top
  <2>2. \A h \in 1 .. Len(stack') - 1 : stack'[h + 1] \in Successors(stack'[h])
    BY <1>4, <1>5 DEF dfsIInv, DfsInv, StackIsPath, top
  <2>3. \A h \in 1 .. Len(stack') - 1 : stack'[h + 1] \in Successors(stack[h])'
    BY <1>6, <2>2 DEF Successors
  <2>4. OnStack' \subseteq visited' BY <1>1, <1>7 DEF dfsIInv, DfsInv, StackIsPath
  <2> QED BY <1>1, <2>1, <2>3, <2>4 DEF StackIsPath, top
<1>10. PoppedDone'
  <2>1. \A x \in visited' \ OnStack' : Successors(x) \subseteq visited'
    BY <1>1, <1>2, <1>7 DEF dfsIInv, DfsInv, PoppedDone
  <2> QED BY <1>6, <2>1 DEF PoppedDone, Successors
<1>11. OnlyReachable'
  BY <1>1, <1>6 DEF dfsIInv, DfsInv, OnlyReachable, Closed, Successors, Vertices
<1> QED BY <1>1, <1>8, <1>9, <1>10, <1>11 DEF dfsIInv, DfsInv, graphVars, Walked, AllReachable

LEMMA DfsReturnKeeps ==
    ASSUME GraphAssumption, dfsIInv, DfsReturn PROVE dfsIInv'
<1>1. /\ DfsTypeOK /\ phase = "loop" /\ phase' = "done" /\ stack = <<>>
      /\ UNCHANGED <<graphVars, visited, list, p, stack>>
  BY DEF dfsIInv, DfsInv, DfsReturn
<1>2. OnStack = {} BY <1>1 DEF OnStack, top
<1>3. start \in visited /\ Closed(visited)
  BY <1>1, <1>2 DEF dfsIInv, DfsInv, PoppedDone, Closed
<1>4. OnStack' = OnStack /\ PoppedDone' /\ OnlyReachable' /\ Closed(visited)' = Closed(visited)
  BY <1>1, DfsSame
<1>5. AllReachable' BY <1>1, <1>3, <1>4 DEF AllReachable
<1>6. DfsTypeOK' BY <1>1 DEF DfsTypeOK, GraphTypeOK, graphVars, Vertices
<1>7. StackIsPath' BY <1>1, <1>2, <1>4 DEF StackIsPath, top
<1> QED BY <1>1, <1>3, <1>4, <1>5, <1>6, <1>7 DEF dfsIInv, DfsInv, graphVars, Walked

LEMMA DfsDeleteKeeps ==
    ASSUME GraphAssumption, dfsIInv, DfsDelete PROVE dfsIInv'
<1>1. /\ DfsTypeOK /\ phase = "done" /\ phase' = "deleted"
      /\ UNCHANGED <<graphVars, visited, list, p, stack>>
  BY DEF dfsIInv, DfsInv, DfsDelete, DeleteGraph
<1>2. stack = <<>> /\ OnStack = {} BY <1>1 DEF dfsIInv, DfsInv, OnStack, top
<1>3. OnStack' = OnStack /\ PoppedDone' /\ OnlyReachable' /\ Closed(visited)' = Closed(visited)
  BY <1>1, DfsSame
<1>4. AllReachable' BY <1>1, <1>3 DEF dfsIInv, DfsInv, AllReachable
<1>5. DfsTypeOK' BY <1>1 DEF DfsTypeOK, GraphTypeOK, graphVars, Vertices
<1>6. StackIsPath' BY <1>1, <1>2, <1>3 DEF StackIsPath, top
<1> QED BY <1>1, <1>2, <1>3, <1>4, <1>5, <1>6 DEF dfsIInv, DfsInv, graphVars, Walked

\* The traversal marks exactly the vertices that can be reached from the start, and
\* its stack is a path that never fills the array, so that push's test does not
\* matter (DFS/main.c:59-94, 157-176).
THEOREM DfsVisits == DfsSpec => []DfsInv
<1>1. DfsInit => dfsIInv BY GraphAssumption, DfsStart
<1>2. dfsIInv /\ [DfsNext]_dfsVars => dfsIInv'
  BY GraphAssumption, DfsStutter, DfsAddKeeps, DfsCallKeeps, DfsFirstKeeps, DfsNextNodeKeeps,
     DescendKeeps, DfsPopKeeps, DfsReturnKeeps, DfsDeleteKeeps DEF DfsNext
<1>3. dfsIInv => DfsInv BY DEF dfsIInv
<1> QED BY <1>1, <1>2, <1>3, PTL DEF DfsSpec


-----------------------------------------------------------------------------
(***************************************************************************)
(* The heap of MemoryManagementSystem.c.                                   *)
(***************************************************************************)
\* Slots, the slots under them, and parents.
LEMMA Slots ==
    ASSUME HeapAssumption
    PROVE  /\ \A h \in Blocks : \A c \in Under(h) : c \in Blocks /\ h < c /\ Parent(c) = h
           /\ \A c \in Blocks : c > 0 =>
                 Parent(c) \in Blocks /\ Parent(c) < c /\ c \in Under(Parent(c))
<1>1. num_blocks \in Nat BY DEF HeapAssumption
<1>2. ASSUME NEW h \in Blocks, NEW c \in Under(h)
      PROVE  c \in Blocks /\ h < c /\ Parent(c) = h
  <2>1. h \in Nat /\ c \in {2 * h + 1, 2 * h + 2} /\ c < num_blocks
    BY <1>1 DEF Under, Left, Right, Blocks
  <2>2. (2 * h + 1 - 1) \div 2 = h /\ (2 * h + 2 - 1) \div 2 = h BY <2>1
  <2> QED BY <1>1, <2>1, <2>2 DEF Blocks, Parent
<1>3. ASSUME NEW c \in Blocks, c > 0
      PROVE  Parent(c) \in Blocks /\ Parent(c) < c /\ c \in Under(Parent(c))
  <2>1. c \in Nat \ {0} /\ c < num_blocks BY <1>1, <1>3 DEF Blocks
  <2>2. PICK k \in Nat : k = (c - 1) \div 2 BY <2>1
  <2>3. c = 2 * k + 1 \/ c = 2 * k + 2 BY <2>1, <2>2
  <2> QED BY <1>1, <2>1, <2>2, <2>3 DEF Blocks, Parent, Under, Left, Right
<1> QED BY <1>2, <1>3

\* What a swap does.
LEMMA SwapEffect ==
    ASSUME HeapTypeOK, BackIndices, NEW h \in Blocks, NEW t \in Blocks, h # t, Swap(h, t),
           last_access' = last_access
    PROVE  /\ heap' \in [Blocks -> Blocks] /\ heap_index' \in [Blocks -> Blocks]
           /\ BackIndices'
           /\ Time(h)' = Time(t) /\ Time(t)' = Time(h)
           /\ \A k \in Blocks \ {h, t} : Time(k)' = Time(k)
<1>1. /\ heap' \in [Blocks -> Blocks] /\ heap'[h] = heap[t] /\ heap'[t] = heap[h]
      /\ \A k \in Blocks \ {h, t} : heap'[k] = heap[k]
  BY DEF HeapTypeOK, Swap
<1>2. heap[h] # heap[t] /\ heap[h] \in Blocks /\ heap[t] \in Blocks
  BY DEF HeapTypeOK, BackIndices
<1>3. /\ heap_index' \in [Blocks -> Blocks]
      /\ heap_index'[heap[t]] = h /\ heap_index'[heap[h]] = t
      /\ \A b \in Blocks \ {heap[h], heap[t]} : heap_index'[b] = heap_index[b]
  BY <1>2 DEF HeapTypeOK, Swap
<1>4. ASSUME NEW b \in Blocks PROVE heap'[heap_index'[b]] = b
  <2>1. CASE b = heap[h] BY <2>1, <1>1, <1>3
  <2>2. CASE b = heap[t] BY <2>2, <1>1, <1>3
  <2>3. CASE b # heap[h] /\ b # heap[t]
    <3>1. heap_index[b] \in Blocks \ {h, t} BY <2>3 DEF HeapTypeOK, BackIndices
    <3> QED BY <2>3, <3>1, <1>1, <1>3 DEF BackIndices
  <2> QED BY <2>1, <2>2, <2>3
<1>5. ASSUME NEW k \in Blocks PROVE heap_index'[heap'[k]] = k
  <2>1. CASE k = h BY <2>1, <1>1, <1>3
  <2>2. CASE k = t BY <2>2, <1>1, <1>3
  <2>3. CASE k # h /\ k # t
    <3>1. heap[k] \in Blocks \ {heap[h], heap[t]} BY <2>3 DEF HeapTypeOK, BackIndices
    <3> QED BY <2>3, <3>1, <1>1, <1>3 DEF BackIndices
  <2> QED BY <2>1, <2>2, <2>3
<1>6. Blocks' = Blocks BY DEF Blocks
<1> QED BY <1>1, <1>3, <1>4, <1>5, <1>6 DEF BackIndices, Time

\* The smallest of a slot and the slots under it.
LEMMA SmallestIs ==
    ASSUME HeapAssumption, HeapTypeOK, NEW h \in Blocks
    PROVE  /\ Smallest(h) = h => Before(h, h)
           /\ Smallest(h) # h => /\ Smallest(h) \in Under(h) /\ Time(Smallest(h)) < Time(h)
                                 /\ Before(Smallest(h), h)
<1>1. num_blocks \in Nat BY DEF HeapAssumption
<1>2. \A k \in Blocks : Time(k) \in Nat BY DEF HeapTypeOK, Time
<1>3. /\ Left(h) \in Nat /\ Right(h) \in Nat /\ Left(h) # h /\ Right(h) # h
      /\ Left(h) < num_blocks => Left(h) \in Blocks
      /\ Right(h) < num_blocks => Right(h) \in Blocks
  BY <1>1 DEF Left, Right, Blocks
<1> DEFINE m == SmallerOf(h, Left(h))
<1>4. /\ m \in Blocks /\ Time(m) <= Time(h) /\ (Left(h) < num_blocks => Time(m) <= Time(Left(h)))
      /\ m = h \/ (m = Left(h) /\ Left(h) < num_blocks /\ Time(m) < Time(h))
  BY <1>2, <1>3 DEF SmallerOf
<1>5. /\ Smallest(h) \in Blocks /\ Time(Smallest(h)) <= Time(m)
      /\ Right(h) < num_blocks => Time(Smallest(h)) <= Time(Right(h))
      /\ Smallest(h) = m \/ (/\ Smallest(h) = Right(h) /\ Right(h) < num_blocks
                             /\ Time(Smallest(h)) < Time(m))
  BY <1>2, <1>3, <1>4 DEF Smallest, SmallerOf
<1> HIDE DEF m
<1>6. /\ Time(Smallest(h)) \in Nat /\ Time(m) \in Nat /\ Time(h) \in Nat
      /\ Left(h) < num_blocks => Time(Left(h)) \in Nat
  BY <1>2, <1>3, <1>4, <1>5
<1>7. Before(Smallest(h), h) BY <1>4, <1>5, <1>6 DEF Before, Under
<1> QED BY <1>4, <1>5, <1>6, <1>7 DEF Under

LEMMA Times ==
    ASSUME HeapTypeOK PROVE \A k \in Blocks : Time(k) \in Nat
BY DEF HeapTypeOK, Time

LEMMA HeapInitInv == HeapAssumption /\ HeapInit => HeapInv
<1> SUFFICES ASSUME HeapAssumption, HeapInit PROVE HeapInv
  OBVIOUS
<1>1. num_blocks \in Nat \ {0} /\ num_blocks \div 2 \in Nat
  BY DEF HeapAssumption
<1>2. 2 * (num_blocks \div 2) + 1 >= num_blocks /\ num_blocks \div 2 <= num_blocks
  BY <1>1
<1>3. HeapTypeOK
  <2>1. last_access \in [Blocks -> Nat] BY DEF HeapInit, HeapAssumption
  <2>2. 0 \in Blocks /\ num_blocks \div 2 - 1 \in -1 .. num_blocks - 1
    BY <1>1, <1>2 DEF Blocks
  <2>3. 0 \in 0 .. simulation_ticks BY DEF HeapAssumption
  <2> QED BY <2>1, <2>2, <2>3 DEF HeapInit, HeapTypeOK
<1>4. BackIndices BY DEF HeapInit, BackIndices
<1>5. BuildInv
  <2>1. ASSUME NEW h \in Blocks, From <= h PROVE Under(h) = {}
    <3>1. h \in Nat /\ num_blocks \div 2 <= h
      BY <1>1, <2>1 DEF From, HeapInit, Blocks
    <3> QED BY <1>1, <1>2, <3>1 DEF Under, Left, Right
  <2> QED BY <2>1 DEF BuildInv, Before
<1> QED BY <1>3, <1>4, <1>5 DEF HeapInit, HeapInv, Built, DownInv, UpInv, HeapOrder

\* What a step that leaves heap and times alone keeps.
LEMMA SameOrder ==
    ASSUME UNCHANGED <<heap, last_access>>
    PROVE  \A h, t : Before(t, h)' <=> Before(t, h)
BY DEF Before, Under, Left, Right, Time

LEMMA BuildKeeps ==
    ASSUME HeapAssumption, HeapInv, Build PROVE HeapInv'
<1>1. num_blocks \in Nat /\ Blocks' = Blocks /\ root \in -1 .. num_blocks - 1
  BY DEF HeapAssumption, Blocks, HeapInv, HeapTypeOK
<1>2. (\A h, t : Before(t, h)' <=> Before(t, h)) BY SameOrder DEF Build
<1>3. HeapTypeOK' /\ BackIndices'
  <2>1. BackIndices' BY <1>1 DEF HeapInv, BackIndices, Build
  <2>2. heap' \in [Blocks -> Blocks] /\ last_access' \in [Blocks -> Nat]
    BY DEF HeapInv, HeapTypeOK, Build
  <2>3. heap_index' \in [Blocks -> Blocks] /\ sim_time' \in 0 .. simulation_ticks
    BY DEF HeapInv, HeapTypeOK, Build
  <2>4. index' \in Blocks /\ root' \in -1 .. num_blocks - 1
    BY <1>1 DEF HeapInv, HeapTypeOK, Build, Blocks
  <2>5. at' \in {"build", "tick", "down", "up"} BY DEF Build
  <2> QED BY <1>1, <2>1, <2>2, <2>3, <2>4, <2>5 DEF HeapTypeOK
<1>4. \A h \in Blocks : root + 1 <= h => Before(h, h)
  BY DEF HeapInv, BuildInv, Build, From
<1>5. CASE root >= 0
  <2>1. at' = "down" /\ index' = root /\ root' = root /\ From' = root
    BY <1>1, <1>5 DEF Build, From
  <2>2. \A h \in Blocks : h \in Int /\ (root <= h /\ h # root => root + 1 <= h)
    BY <1>1 DEF Blocks
  <2>3. ~(root > 0 /\ root <= Parent(root)) BY <1>1 DEF Parent
  <2>4. Parent(index') = Parent(root) /\ Parent(index)' = Parent(root)
    BY <2>1 DEF Parent
  <2>5. DownInv'
    BY <1>1, <1>2, <1>4, <2>1, <2>2, <2>3, <2>4 DEF DownInv
  <2> QED BY <1>3, <2>1, <2>5 DEF HeapInv, Built, BuildInv, UpInv, HeapOrder
<1>6. CASE root < 0
  <2>1. at' = "tick" /\ root' = -1 BY <1>1, <1>6 DEF Build
  <2>2. \A h \in Blocks : root + 1 <= h BY <1>1, <1>6 DEF Blocks
  <2>3. HeapOrder' BY <1>1, <1>2, <1>4, <2>2 DEF HeapOrder
  <2> QED BY <1>3, <2>1, <2>3 DEF HeapInv, Built, BuildInv, DownInv, UpInv
<1> QED BY <1>1, <1>5, <1>6

LEMMA DownEndKeeps ==
    ASSUME HeapAssumption, HeapInv, DownEnd PROVE HeapInv'
<1>1. num_blocks \in Nat /\ Blocks' = Blocks /\ root \in -1 .. num_blocks - 1
  BY DEF HeapAssumption, Blocks, HeapInv, HeapTypeOK
<1>2. (\A h, t : Before(t, h)' <=> Before(t, h)) BY SameOrder DEF DownEnd
<1>3. HeapTypeOK' /\ BackIndices'
  <2>1. BackIndices' BY <1>1 DEF HeapInv, BackIndices, DownEnd
  <2>2. heap' \in [Blocks -> Blocks] /\ last_access' \in [Blocks -> Nat]
    BY DEF HeapInv, HeapTypeOK, DownEnd
  <2>3. heap_index' \in [Blocks -> Blocks] /\ sim_time' \in 0 .. simulation_ticks
    BY DEF HeapInv, HeapTypeOK, DownEnd
  <2>4. index' \in Blocks /\ root' \in -1 .. num_blocks - 1
    BY <1>1 DEF HeapInv, HeapTypeOK, DownEnd, Blocks
  <2>5. at' \in {"build", "tick", "down", "up"} BY DEF DownEnd
  <2> QED BY <1>1, <2>1, <2>2, <2>3, <2>4, <2>5 DEF HeapTypeOK
<1>4. \A h \in Blocks : From <= h => Before(h, h)
  <2>1. Before(index, index) BY SmallestIs DEF HeapInv, HeapTypeOK, DownEnd
  <2> QED BY <2>1 DEF HeapInv, DownInv, DownEnd
<1>5. CASE root >= 0
  <2>1. at' = "build" /\ From' = From BY <1>1, <1>5 DEF DownEnd, From
  <2>2. BuildInv' BY <1>1, <1>2, <1>4, <2>1 DEF BuildInv
  <2> QED BY <1>3, <2>1, <2>2 DEF HeapInv, Built, DownInv, UpInv, HeapOrder
<1>6. CASE root < 0
  <2>1. at' = "tick" /\ root' = -1 /\ From = 0 BY <1>1, <1>6 DEF DownEnd, From
  <2>2. \A h \in Blocks : From <= h BY <1>1, <2>1 DEF Blocks
  <2>3. HeapOrder' BY <1>1, <1>2, <1>4, <2>2 DEF HeapOrder
  <2> QED BY <1>3, <2>1, <2>3 DEF HeapInv, Built, BuildInv, DownInv, UpInv
<1> QED BY <1>1, <1>5, <1>6

LEMMA UpEndKeeps ==
    ASSUME HeapAssumption, HeapInv, UpEnd PROVE HeapInv'
<1>1. num_blocks \in Nat /\ Blocks' = Blocks BY DEF HeapAssumption, Blocks
<1>2. (\A h, t : Before(t, h)' <=> Before(t, h)) BY SameOrder DEF UpEnd
<1>3. HeapTypeOK' /\ BackIndices'
  <2>1. BackIndices' BY <1>1 DEF HeapInv, BackIndices, UpEnd
  <2>2. heap' \in [Blocks -> Blocks] /\ last_access' \in [Blocks -> Nat]
    BY DEF HeapInv, HeapTypeOK, UpEnd
  <2>3. heap_index' \in [Blocks -> Blocks] /\ sim_time' \in 0 .. simulation_ticks
    BY DEF HeapInv, HeapTypeOK, UpEnd
  <2>4. index' \in Blocks /\ root' \in -1 .. num_blocks - 1
    BY <1>1 DEF HeapInv, HeapTypeOK, UpEnd, Blocks
  <2>5. at' \in {"build", "tick", "down", "up"} BY DEF UpEnd
  <2> QED BY <1>1, <2>1, <2>2, <2>3, <2>4, <2>5 DEF HeapTypeOK
<1>4. ASSUME NEW h \in Blocks, NEW c \in Under(h) PROVE Time(h) <= Time(c)
  <2>1. CASE c # index BY <2>1 DEF HeapInv, UpInv, UpEnd
  <2>2. CASE c = index
    <3>1. c \in Blocks /\ h < c /\ Parent(c) = h /\ h \in Nat
      BY <1>1, Slots DEF Blocks
    <3>2. Time(h) \in Nat /\ Time(c) \in Nat BY <3>1, Times DEF HeapInv
    <3>3. c > 0 BY <1>1, <3>1 DEF Blocks
    <3> QED BY <2>2, <3>1, <3>2, <3>3 DEF UpEnd
  <2> QED BY <2>1, <2>2
<1>5. HeapOrder' BY <1>1, <1>2, <1>4 DEF HeapOrder, Before
<1> QED BY <1>3, <1>5 DEF HeapInv, UpEnd, Built, BuildInv, DownInv, UpInv

LEMMA DownSwapKeeps ==
    ASSUME HeapAssumption, HeapInv, DownSwap PROVE HeapInv'
<1>1. /\ num_blocks \in Nat /\ Blocks' = Blocks /\ root \in -1 .. num_blocks - 1
      /\ index \in Blocks /\ HeapTypeOK /\ BackIndices
  BY DEF HeapAssumption, Blocks, HeapInv, HeapTypeOK
<1>2. PICK x \in Blocks : x = index BY <1>1
<1>3. PICK s \in Blocks : s = Smallest(index) BY <1>1, SmallestIs, Slots DEF DownSwap
<1>4. s \in Under(x) /\ Time(s) < Time(x) /\ Before(s, x)
  BY <1>1, <1>2, <1>3, SmallestIs DEF DownSwap
<1>5. x < s /\ Parent(s) = x /\ x \in Nat /\ s \in Nat /\ From \in Int
  BY <1>1, <1>4, Slots DEF Blocks, From
<1>6. Swap(x, s) /\ index' = s /\ at = "down"
  BY <1>2, <1>3 DEF DownSwap
<1>7. last_access' = last_access /\ sim_time' = sim_time /\ at' = at /\ root' = root
  BY DEF DownSwap
<1>8. /\ heap' \in [Blocks -> Blocks] /\ heap_index' \in [Blocks -> Blocks] /\ BackIndices'
      /\ Time(x)' = Time(s) /\ Time(s)' = Time(x)
      /\ \A k \in Blocks \ {x, s} : Time(k)' = Time(k)
  <2>1. x # s BY <1>5
  <2> QED BY <1>1, <1>6, <1>7, <2>1, SwapEffect
<1> DEFINE T(k) == Time(k)'
<1>9. /\ T(x) = Time(s) /\ T(s) = Time(x)
      /\ \A k \in Blocks \ {x, s} : T(k) = Time(k)
  BY <1>8
<1>10. From' = From BY <1>7 DEF From
<1>11. \A k \in Blocks : Time(k) \in Nat BY <1>1, Times
<1>12. From <= x /\ (\A h \in Blocks : From <= h /\ h # x => Before(h, h))
  BY <1>2, <1>6 DEF HeapInv, DownInv
<1>13. x > 0 /\ From <= Parent(x) => Before(Parent(x), x)
  BY <1>2, <1>6 DEF HeapInv, DownInv
<1> HIDE DEF T
<1>14. ASSUME NEW h \in Blocks, From <= h, h # s, NEW c \in Under(h) PROVE T(h) <= T(c)
  <2>1. c \in Blocks /\ h < c /\ Parent(c) = h /\ h \in Nat /\ c \in Nat
    BY <1>1, Slots DEF Blocks
  <2>2. CASE h = x
    <3>1. Time(s) <= Time(c) BY <1>4, <2>2 DEF Before
    <3>2. CASE c = s BY <1>4, <1>9, <1>11, <2>2, <3>2
    <3>3. CASE c # s BY <1>9, <2>1, <2>2, <3>1, <3>3
    <3> QED BY <3>2, <3>3
  <2>3. CASE h # x
    <3>1. Time(h) <= Time(c) /\ T(h) = Time(h) BY <1>9, <1>12, <1>14, <2>3 DEF Before
    <3>2. CASE c = x
      <4>1. x > 0 /\ From <= Parent(x) BY <1>14, <2>1, <3>2
      <4>2. Time(h) <= Time(s) BY <1>4, <1>13, <2>1, <3>2, <4>1 DEF Before
      <4> QED BY <1>9, <3>1, <3>2, <4>2
    <3>3. CASE c # x
      <4>1. c # s BY <1>5, <2>1, <2>3
      <4> QED BY <1>9, <2>1, <3>1, <3>3, <4>1
    <3> QED BY <3>2, <3>3
  <2> QED BY <2>2, <2>3
<1>15. ASSUME NEW c \in Under(s) PROVE T(x) <= T(c)
  <2>1. c \in Blocks /\ s < c /\ c \in Nat BY <1>1, Slots DEF Blocks
  <2>2. From <= s /\ s # x BY <1>5, <1>12
  <2>3. Time(s) <= Time(c) BY <1>12, <2>2 DEF Before
  <2>4. c # x /\ c # s BY <1>5, <2>1
  <2> QED BY <1>9, <2>1, <2>3, <2>4
<1>16. DownInv'
  <2>1. From' <= index' BY <1>5, <1>6, <1>10, <1>12
  <2>2. \A h, t : Before(t, h)' <=> (\A c \in Under(h) : T(t) <= T(c))
    BY DEF Before, Under, Left, Right, T
  <2>3. \A h \in Blocks : From' <= h /\ h # index' => Before(h, h)'
    BY <1>6, <1>10, <1>14, <2>2
  <2>4. Before(Parent(index), index)'
    <3>1. Under(index)' = Under(s) BY <1>6 DEF Under, Left, Right
    <3>2. Time(Parent(index))' = T(x) BY <1>5, <1>6 DEF T, Time, Parent
    <3>3. \A c : Time(c)' = T(c) BY DEF T
    <3> QED BY <1>15, <3>1, <3>2, <3>3 DEF Before
  <2> QED BY <1>1, <2>1, <2>3, <2>4 DEF DownInv
<1>17. HeapTypeOK' BY <1>1, <1>6, <1>7, <1>8 DEF HeapTypeOK
<1> QED BY <1>6, <1>7, <1>8, <1>16, <1>17 DEF HeapInv, Built, BuildInv, UpInv, HeapOrder

LEMMA TickKeeps ==
    ASSUME HeapAssumption, HeapInv, Tick PROVE HeapInv'
<1>1. /\ num_blocks \in Nat /\ Blocks' = Blocks /\ HeapTypeOK /\ BackIndices
      /\ at = "tick" /\ root = -1 /\ root' = root /\ heap' = heap
      /\ heap_index' = heap_index /\ sim_time < simulation_ticks
      /\ sim_time' = sim_time + 1 /\ sim_time \in Nat /\ simulation_ticks \in Nat
  <2>1. num_blocks \in Nat /\ simulation_ticks \in Nat BY DEF HeapAssumption
  <2>2. HeapTypeOK /\ BackIndices /\ sim_time \in Nat BY <2>1 DEF HeapInv, HeapTypeOK
  <2>3. at = "tick" /\ root = -1 BY DEF HeapInv, Built, Tick
  <2> QED BY <2>1, <2>2, <2>3 DEF Tick, Blocks
<1>2. PICK h \in Blocks : /\ last_access' = [last_access EXCEPT ![heap[h]] = sim_time']
                          /\ at' = IF sim_time' > last_access[heap[h]] THEN "down" ELSE "up"
                          /\ index' = heap_index[heap[h]]
  BY DEF Tick
<1>3. index' = h /\ h \in Nat BY <1>1, <1>2 DEF BackIndices, Blocks
<1> DEFINE T(k) == Time(k)'
<1>4. T(h) = sim_time' /\ (\A k \in Blocks \ {h} : T(k) = Time(k))
  <2>1. heap[h] \in Blocks /\ last_access \in [Blocks -> Nat] BY <1>1 DEF HeapTypeOK
  <2>2. \A k \in Blocks \ {h} : heap[k] # heap[h] BY <1>1 DEF BackIndices
  <2> QED BY <1>1, <1>2, <2>1, <2>2 DEF Time
<1>5. \A k \in Blocks : Time(k) \in Nat BY <1>1, Times
<1>6. (\A k \in Blocks : T(k) \in Nat) BY <1>1, <1>4, <1>5
<1>7. \A t, k : Before(t, k)' <=> (\A c \in Under(k) : T(t) <= T(c))
  BY DEF Before, Under, Left, Right
<1>8. Time(index)' = T(h) /\ Before(index, index)' = Before(h, h)'
  BY <1>3 DEF Time, Before, Under, Left, Right
<1> HIDE DEF T
<1>9. \A k \in Blocks : \A c \in Under(k) : Time(k) <= Time(c)
  BY <1>1 DEF HeapInv, HeapOrder, Before
<1>10. HeapTypeOK'
  <2>1. last_access' \in [Blocks -> Nat] BY <1>1, <1>2 DEF HeapTypeOK
  <2>2. sim_time' \in 0 .. simulation_ticks BY <1>1
  <2> QED BY <1>1, <1>2, <1>3, <2>1, <2>2 DEF HeapTypeOK
<1>11. BackIndices' BY <1>1 DEF BackIndices
<1>12. CASE at' = "down"
  <2>1. T(h) > Time(h) BY <1>1, <1>2, <1>4, <1>12 DEF Time
  <2>2. From' = 0 BY <1>1, <1>12 DEF From
  <2>3. ASSUME NEW k \in Blocks, k # h, NEW c \in Under(k) PROVE T(k) <= T(c)
    <3>1. c \in Blocks BY <1>1, Slots
    <3>2. T(k) = Time(k) /\ Time(k) <= Time(c) BY <1>4, <1>9, <2>3
    <3>3. T(c) >= Time(c) BY <1>4, <1>5, <1>6, <2>1, <3>1
    <3> QED BY <1>5, <1>6, <2>3, <3>1, <3>2, <3>3
  <2>4. ASSUME h > 0, NEW c \in Under(h) PROVE T(Parent(h)) <= T(c)
    <3>1. /\ Parent(h) \in Blocks /\ Parent(h) < h /\ h \in Under(Parent(h))
          /\ c \in Blocks /\ h < c
      BY <1>1, <2>4, Slots
    <3>2. Time(Parent(h)) <= Time(h) /\ Time(h) <= Time(c) BY <1>9, <3>1
    <3>3. T(Parent(h)) = Time(Parent(h)) /\ T(c) = Time(c)
      <4>1. Parent(h) # h /\ c # h BY <1>3, <3>1 DEF Blocks
      <4> QED BY <1>4, <3>1, <4>1
    <3> QED BY <1>5, <3>1, <3>2, <3>3
  <2>5. index' > 0 => Before(Parent(index), index)'
    <3>1. Under(index)' = Under(h) BY <1>3 DEF Under, Left, Right
    <3>2. Time(Parent(index))' = T(Parent(h)) BY <1>3 DEF T, Time, Parent
    <3>3. \A c : Time(c)' = T(c) BY DEF T
    <3> QED BY <1>3, <2>4, <3>1, <3>2, <3>3 DEF Before
  <2>6. DownInv'
    <3>1. \A k \in Blocks : k # index' => Before(k, k)' BY <1>3, <1>7, <2>3
    <3>2. From' <= index' BY <1>3, <2>2
    <3> QED BY <1>1, <2>5, <3>1, <3>2 DEF DownInv
  <2> QED BY <1>10, <1>11, <1>12, <2>6 DEF HeapInv, Built, BuildInv, UpInv, HeapOrder
<1>13. CASE at' = "up"
  <2>1. T(h) <= Time(h)
    <3>1. ~(sim_time' > Time(h)) BY <1>2, <1>13 DEF Time
    <3> QED BY <1>1, <1>4, <1>5, <3>1
  <2>2. ASSUME NEW k \in Blocks, NEW c \in Under(k), c # h PROVE T(k) <= T(c)
    <3>1. c \in Blocks BY <1>1, Slots
    <3>2. T(c) = Time(c) /\ Time(k) <= Time(c) BY <1>4, <1>9, <2>2, <3>1
    <3>3. T(k) <= Time(k) BY <1>4, <1>5, <2>1
    <3> QED BY <1>5, <1>6, <3>1, <3>2, <3>3
  <2>3. ASSUME h > 0, NEW c \in Under(h) PROVE T(Parent(h)) <= T(c)
    <3>1. /\ Parent(h) \in Blocks /\ Parent(h) < h /\ h \in Under(Parent(h))
          /\ c \in Blocks /\ h < c
      BY <1>1, <2>3, Slots
    <3>2. Time(Parent(h)) <= Time(h) /\ Time(h) <= Time(c) BY <1>9, <3>1
    <3>3. T(Parent(h)) = Time(Parent(h)) /\ T(c) = Time(c)
      <4>1. Parent(h) # h /\ c # h BY <1>3, <3>1 DEF Blocks
      <4> QED BY <1>4, <3>1, <4>1
    <3> QED BY <1>5, <3>1, <3>2, <3>3
  <2>4. UpInv'
    <3>1. \A c : Time(c)' = T(c) BY DEF T
    <3>2. \A k : Under(k)' = Under(k) BY DEF Under, Left, Right
    <3>3. Under(index)' = Under(h) BY <1>3 DEF Under, Left, Right
    <3>4. Time(Parent(index))' = T(Parent(h)) BY <1>3 DEF T, Time, Parent
    <3>5. index' > 0 => Before(Parent(index), index)'
      BY <1>3, <2>3, <3>1, <3>3, <3>4 DEF Before
    <3> QED BY <1>1, <1>3, <2>2, <3>1, <3>2, <3>5 DEF UpInv
  <2> QED BY <1>1, <1>10, <1>11, <1>13, <2>4 DEF HeapInv, Built, BuildInv, DownInv, HeapOrder
<1> QED BY <1>2, <1>12, <1>13

LEMMA UpSwapKeeps ==
    ASSUME HeapAssumption, HeapInv, UpSwap PROVE HeapInv'
<1>1. /\ num_blocks \in Nat /\ Blocks' = Blocks
      /\ index \in Blocks /\ HeapTypeOK /\ BackIndices
  BY DEF HeapAssumption, Blocks, HeapInv, HeapTypeOK
<1>2. PICK x \in Blocks : x = index BY <1>1
<1>3. PICK q \in Blocks : q = Parent(index) BY <1>1, Slots DEF UpSwap
<1>4. /\ Time(x) < Time(q) /\ q = Parent(x) /\ q < x /\ x \in Under(q)
      /\ x \in Nat /\ q \in Nat
  BY <1>1, <1>2, <1>3, Slots DEF UpSwap, Blocks
<1>5. Swap(x, q) /\ index' = q /\ at = "up" BY <1>2, <1>3 DEF UpSwap
<1>6. last_access' = last_access /\ sim_time' = sim_time /\ at' = at /\ root' = root
  BY DEF UpSwap
<1>7. /\ heap' \in [Blocks -> Blocks] /\ heap_index' \in [Blocks -> Blocks] /\ BackIndices'
      /\ Time(x)' = Time(q) /\ Time(q)' = Time(x)
      /\ \A k \in Blocks \ {x, q} : Time(k)' = Time(k)
  <2>1. x # q BY <1>4
  <2> QED BY <1>1, <1>5, <1>6, <2>1, SwapEffect
<1> DEFINE T(k) == Time(k)'
<1>8. /\ T(x) = Time(q) /\ T(q) = Time(x)
      /\ \A k \in Blocks \ {x, q} : T(k) = Time(k)
  BY <1>7
<1>9. \A k \in Blocks : Time(k) \in Nat BY <1>1, Times
<1>10. (\A h \in Blocks : \A c \in Under(h) : c # x => Time(h) <= Time(c)) /\ Before(q, x)
  <2>1. index > 0 BY DEF UpSwap
  <2> QED BY <1>2, <1>3, <1>5, <2>1 DEF HeapInv, UpInv
<1> HIDE DEF T
<1>11. ASSUME NEW h \in Blocks, NEW c \in Under(h), c # q PROVE T(h) <= T(c)
  <2>1. c \in Blocks /\ h < c /\ Parent(c) = h /\ h \in Nat /\ c \in Nat
    BY <1>1, Slots DEF Blocks
  <2>2. CASE h = q
    <3>1. CASE c = x BY <1>4, <1>8, <1>9, <2>2, <3>1
    <3>2. CASE c # x
      <4>1. Time(q) <= Time(c) /\ T(c) = Time(c) BY <1>8, <1>10, <1>11, <2>1, <2>2, <3>2
      <4> QED BY <1>4, <1>8, <1>9, <2>1, <2>2, <4>1
    <3> QED BY <3>1, <3>2
  <2>3. CASE h = x
    <3>1. c # x BY <2>1, <2>3
    <3>2. Time(q) <= Time(c) BY <1>10, <2>3 DEF Before
    <3> QED BY <1>8, <1>11, <2>1, <2>3, <3>1, <3>2
  <2>4. CASE h # q /\ h # x
    <3>1. c # x BY <1>4, <2>1, <2>4
    <3> QED BY <1>8, <1>10, <1>11, <2>1, <2>4, <3>1
  <2> QED BY <2>2, <2>3, <2>4
<1>12. ASSUME q > 0, NEW c \in Under(q) PROVE T(Parent(q)) <= T(c)
  <2>1. /\ Parent(q) \in Blocks /\ Parent(q) < q /\ q \in Under(Parent(q))
        /\ c \in Blocks /\ q < c /\ c \in Nat /\ Parent(q) \in Nat
    BY <1>1, <1>12, Slots DEF Blocks
  <2>2. Time(Parent(q)) <= Time(q) BY <1>4, <1>10, <2>1
  <2>3. T(Parent(q)) = Time(Parent(q))
    <3>1. Parent(q) # q /\ Parent(q) # x BY <1>4, <2>1
    <3> QED BY <1>8, <2>1, <3>1
  <2>4. CASE c = x BY <1>8, <2>2, <2>3, <2>4
  <2>5. CASE c # x
    <3>1. Time(q) <= Time(c) /\ T(c) = Time(c)
      <4>1. c # q BY <1>4, <2>1
      <4> QED BY <1>8, <1>10, <2>1, <2>5, <4>1
    <3>2. Time(Parent(q)) \in Nat /\ Time(q) \in Nat /\ Time(c) \in Nat BY <1>9, <2>1
    <3>3. Time(Parent(q)) <= Time(c) BY ONLY <2>2, <3>1, <3>2
    <3> QED BY <2>3, <3>1, <3>3
  <2> QED BY <2>4, <2>5
<1>13. UpInv'
  <2>1. \A c : Time(c)' = T(c) BY DEF T
  <2>2. \A k : Under(k)' = Under(k) BY DEF Under, Left, Right
  <2>3. Under(index)' = Under(q) BY <1>5 DEF Under, Left, Right
  <2>4. Time(Parent(index))' = T(Parent(q)) BY <1>4, <1>5 DEF T, Time, Parent
  <2>5. index' > 0 => Before(Parent(index), index)'
    BY <1>5, <1>12, <2>1, <2>3, <2>4 DEF Before
  <2> QED BY <1>1, <1>5, <1>11, <2>1, <2>2, <2>5 DEF UpInv
<1>14. HeapTypeOK' BY <1>1, <1>3, <1>5, <1>6, <1>7 DEF HeapTypeOK
<1> QED BY <1>5, <1>6, <1>7, <1>13, <1>14 DEF HeapInv, Built, BuildInv, DownInv, HeapOrder

LEMMA StepKeeps == HeapInv /\ [HeapNext]_heapVars => HeapInv'
<1> SUFFICES ASSUME HeapInv, [HeapNext]_heapVars PROVE HeapInv'
  OBVIOUS
<1>1. CASE UNCHANGED heapVars
  BY <1>1 DEF heapVars, HeapInv, HeapTypeOK, BackIndices, Built, BuildInv, DownInv, UpInv,
     HeapOrder, Before, Under, Left, Right, Parent, Time, From, Blocks
<1>2. CASE HeapNext
  BY <1>2, BuildKeeps, DownSwapKeeps, DownEndKeeps, TickKeeps, UpSwapKeeps, UpEndKeeps,
     HeapAssumption DEF HeapNext
<1> QED BY <1>1, <1>2

\* The heap and its back indices are in order at every turn of every loop, for
\* any number of blocks (init_simulation, heapify_up, heapify_down,
\* update_block_access).
THEOREM HeapInvariance == HeapSpec => []HeapInv
<1>1. HeapInit => HeapInv BY HeapInitInv, HeapAssumption
<1>2. HeapInv /\ [HeapNext]_heapVars => HeapInv' BY StepKeeps
<1> QED BY <1>1, <1>2, PTL DEF HeapSpec

LEMMA OrderedRoot == HeapInv => RootIsLeast
<1> SUFFICES ASSUME HeapInv, at = "tick",
                    NEW b \in Blocks, ~(last_access[heap[0]] <= last_access[b])
             PROVE  FALSE
  BY DEF RootIsLeast
<1> DEFINE L == {h \in Blocks : Time(h) < Time(0)}
<1>1. num_blocks \in Nat /\ 0 \in Blocks BY HeapAssumption DEF Blocks
<1>2. \A k \in Blocks : Time(k) \in Nat BY Times DEF HeapInv
<1>3. heap_index[b] \in L
  <2>1. heap_index[b] \in Blocks /\ Time(heap_index[b]) = last_access[b]
    BY DEF HeapInv, HeapTypeOK, BackIndices, Time
  <2> QED BY <1>1, <1>2, <2>1 DEF Time
<1>4. L \subseteq Nat BY DEF Blocks
<1> HIDE DEF L
<1>5. PICK m \in L : \A k \in L : ~(k < m)
  <2>1. \E m \in L : \A k \in L : ~(<<k, m>> \in OpToRel(<, Nat))
    BY <1>3, <1>4, NatLessThanWellFounded, WFMin, Zenon
  <2>2. \A k, m \in L : k < m => <<k, m>> \in OpToRel(<, Nat)
    BY <1>4 DEF OpToRel
  <2> QED BY <2>1, <2>2
<1>6. m \in Blocks /\ Time(m) < Time(0) BY DEF L
<1>7. m \in Nat /\ m # 0 BY <1>1, <1>2, <1>4, <1>6
<1>8. Parent(m) \in Blocks /\ Parent(m) < m /\ m \in Under(Parent(m))
  BY <1>6, <1>7, Slots, HeapAssumption
<1>9. Time(Parent(m)) <= Time(m) BY <1>8 DEF HeapInv, HeapOrder, Before
<1>10. Parent(m) \in L BY <1>1, <1>2, <1>6, <1>8, <1>9 DEF L
<1> QED BY <1>5, <1>8, <1>10

\* Between two ticks the root has the least time of all blocks: it is the one that
\* peek_lru returns (lines 137-142), for any number of blocks.
THEOREM Least == HeapSpec => []RootIsLeast
<1>1. HeapSpec => []HeapInv BY HeapInvariance
<1>2. HeapInv => RootIsLeast BY OrderedRoot
<1> QED BY <1>1, <1>2, PTL

-----------------------------------------------------------------------------
(***************************************************************************)
(* The page-replacement simulator.                                         *)
(***************************************************************************)
Tables == [Processes -> [Pages -> PageTableEntry]]

\* What one access means, whoever owns what.
LEMMA PagesArePairs ==
    /\ \A b \in Processes, g \in Pages : <<b, g>> \in AllPages /\ Entry(<<b, g>>) = page_table[b][g]
    /\ \A x \in AllPages : x[1] \in Processes /\ x[2] \in Pages /\ x = <<x[1], x[2]>>
BY DEF AllPages, Entry

LEMMA EntryType ==
    ASSUME page_table \in Tables
    PROVE  \A x \in AllPages : Entry(x) \in PageTableEntry
BY DEF Tables, AllPages, Entry

\* Fields of an entry.
LEMMA EntryWithTime ==
    ASSUME NEW e \in PageTableEntry, e.present, NEW time
    PROVE  [e EXCEPT !.last_access = time] =
             [frame_number |-> e.frame_number, present |-> TRUE, last_access |-> time]
<1> DEFINE d == [e EXCEPT !.last_access = time]
           x == [frame_number |-> e.frame_number, present |-> TRUE, last_access |-> time]
<1>1. DOMAIN d = {"frame_number", "present", "last_access"} BY DEF PageTableEntry
<1>2. /\ d["frame_number"] = x["frame_number"]
      /\ d["present"] = x["present"]
      /\ d["last_access"] = x["last_access"]
  BY DEF PageTableEntry
<1>3. d = [h \in DOMAIN d |-> d[h]] BY DEF PageTableEntry
<1> QED BY <1>1, <1>2, <1>3

LEMMA EntryCleared ==
    ASSUME NEW e \in PageTableEntry
    PROVE  [[e EXCEPT !.present = FALSE] EXCEPT !.frame_number = -1] =
             [frame_number |-> -1, present |-> FALSE, last_access |-> e.last_access]
<1> DEFINE d == [[e EXCEPT !.present = FALSE] EXCEPT !.frame_number = -1]
           x == [frame_number |-> -1, present |-> FALSE, last_access |-> e.last_access]
<1>1. DOMAIN d = {"frame_number", "present", "last_access"} BY DEF PageTableEntry
<1>2. /\ d["frame_number"] = x["frame_number"]
      /\ d["present"] = x["present"]
      /\ d["last_access"] = x["last_access"]
  BY DEF PageTableEntry
<1>3. d = [h \in DOMAIN d |-> d[h]] BY DEF PageTableEntry
<1> QED BY <1>1, <1>2, <1>3

\* A hit gives one page a new time.
LEMMA HitEntries ==
    ASSUME PageTypeOK, NEW b \in Processes, NEW g \in Pages, AccessHit(b, g),
           current_time' = current_time + 1
    PROVE  /\ page_table' \in Tables
           /\ Entry(<<b, g>>)' = [frame_number |-> Entry(<<b, g>>).frame_number, present |-> TRUE,
                                  last_access |-> current_time']
           /\ \A x \in AllPages \ {<<b, g>>} : Entry(x)' = Entry(x)
<1> DEFINE e == [page_table[b][g] EXCEPT !.last_access = current_time']
<1>1. page_table[b][g] \in PageTableEntry /\ page_table[b][g].present /\ current_time' \in Int
  BY DEF PageTypeOK, AccessHit
<1>2. e = [frame_number |-> page_table[b][g].frame_number, present |-> TRUE,
           last_access |-> current_time']
  BY <1>1, EntryWithTime
<1>3. e \in PageTableEntry BY <1>1, <1>2 DEF PageTableEntry
<1>4. page_table' = [page_table EXCEPT ![b] = [page_table[b] EXCEPT ![g] = e]]
  BY DEF AccessHit, PageTypeOK
<1> HIDE DEF e
<1>5. /\ page_table' \in Tables /\ page_table'[b][g] = e
      /\ \A q \in Processes, k \in Pages : <<q, k>> # <<b, g>> => page_table'[q][k] = page_table[q][k]
  BY <1>3, <1>4 DEF PageTypeOK, Tables
<1> QED BY <1>2, <1>5 DEF Entry, AllPages

\* A load gives one page a new entry.
LEMMA LoadEntries ==
    ASSUME NEW b \in Processes, NEW g \in Pages, NEW f \in Frames, NEW pages \in Tables,
           LoadPage(b, g, f, pages), current_time' \in Int
    PROVE  /\ page_table' \in Tables
           /\ Entry(<<b, g>>)' = [frame_number |-> f, present |-> TRUE, last_access |-> current_time']
           /\ \A x \in AllPages \ {<<b, g>>} : Entry(x)' = pages[x[1]][x[2]]
<1> DEFINE e == [frame_number |-> f, present |-> TRUE, last_access |-> current_time']
<1>1. e \in PageTableEntry BY DEF PageTableEntry
<1>2. page_table' = [pages EXCEPT ![b] = [pages[b] EXCEPT ![g] = e]]
  BY DEF LoadPage, Tables
<1> HIDE DEF e
<1>3. /\ page_table' \in Tables /\ page_table'[b][g] = e
      /\ \A q \in Processes, k \in Pages : <<q, k>> # <<b, g>> => page_table'[q][k] = pages[q][k]
  BY <1>1, <1>2 DEF Tables
<1> QED BY <1>3 DEF Entry, AllPages, e

\* An eviction clears the entry of the owner of the frame.
LEMMA EvictedEntries ==
    ASSUME PageTypeOK, NEW f \in Frames, Owner(f) \in AllPages
    PROVE  /\ Evicted(f) \in Tables
           /\ LET o == Owner(f)
              IN  Evicted(f)[o[1]][o[2]] =
                    [frame_number |-> -1, present |-> FALSE, last_access |-> Entry(o).last_access]
           /\ \A x \in AllPages \ {Owner(f)} : Evicted(f)[x[1]][x[2]] = Entry(x)
<1> DEFINE b == ram_owner_proc[f]
           g == ram_owner_page[f]
           e == [frame_number |-> -1, present |-> FALSE, last_access |-> page_table[b][g].last_access]
<1>1. b \in Processes /\ g \in Pages BY DEF Owner, AllPages
<1>2. page_table[b][g] \in PageTableEntry BY <1>1 DEF PageTypeOK
<1>3. e \in PageTableEntry BY <1>2 DEF PageTableEntry
<1>4. Evicted(f) = [page_table EXCEPT ![b] = [page_table[b] EXCEPT ![g] = e]]
  <2>1. [[page_table[b][g] EXCEPT !.present = FALSE] EXCEPT !.frame_number = -1] = e
    BY <1>2, EntryCleared
  <2> HIDE DEF e
  <2> QED BY <1>1, <2>1 DEF Evicted, PageTypeOK
<1> HIDE DEF e
<1>5. /\ Evicted(f) \in Tables /\ Evicted(f)[b][g] = e
      /\ \A q \in Processes, k \in Pages : <<q, k>> # <<b, g>> => Evicted(f)[q][k] = page_table[q][k]
  BY <1>1, <1>3, <1>4 DEF PageTypeOK, Tables
<1> QED BY <1>1, <1>5 DEF Entry, AllPages, Owner, e
-----------------------------------------------------------------------------
\* The invariant

USE DEF PageInv

LEMMA HitPreserves ==
    ASSUME PageInv, PageAssumption, NEW b \in Processes, NEW g \in Pages, AccessHit(b, g),
           current_time < NUM_ACCESSES, current_time' = current_time + 1
    PROVE  /\ PageInv' /\ Resident' = Resident
           /\ Entry(<<b, g>>)'.last_access = current_time'
           /\ \A x \in Resident \ {<<b, g>>} : Entry(x)'.last_access = Entry(x).last_access
<1> DEFINE x0 == <<b, g>>
           f0 == Entry(x0).frame_number
<1>1. /\ page_table' \in Tables
      /\ Entry(x0)' = [frame_number |-> f0, present |-> TRUE, last_access |-> current_time']
      /\ \A x \in AllPages \ {x0} : Entry(x)' = Entry(x)
  BY HitEntries
<1>2. x0 \in Resident /\ x0 \in AllPages
  BY PagesArePairs DEF AccessHit, Resident
<1>3. f0 \in Used /\ f0 \in Frames /\ Owner(f0) = x0
  BY <1>2 DEF TablesInverse, Used
<1>4. last_access_time' = [last_access_time EXCEPT ![f0] = current_time']
  BY DEF AccessHit, Entry
<1>5. AllPages' = AllPages /\ Frames' = Frames /\ Resident' = Resident
  BY <1>1, <1>2 DEF Resident, AllPages
<1>6. Used' = Used /\ FreeFrames' = FreeFrames /\ \A f \in Frames : Owner(f)' = Owner(f)
  BY DEF AccessHit, Used, FreeFrames, Owner
<1>7. PageTypeOK'
  <2>1. current_time' \in 0 .. NUM_ACCESSES /\ page_hit_count' \in Nat
    BY PageAssumption DEF PageTypeOK, AccessHit
  <2>2. last_access_time' \in [Frames -> Int]
    BY <2>1, <1>3, <1>4 DEF PageTypeOK
  <2> QED BY <2>1, <2>2, <1>1 DEF PageTypeOK, AccessHit, Tables
<1>8. /\ Entry(x0)'.frame_number = f0 /\ Entry(x0)'.last_access = current_time'
      /\ last_access_time'[f0] = current_time'
      /\ \A f \in Frames \ {f0} : last_access_time'[f] = last_access_time[f]
  BY <1>1, <1>3, <1>4 DEF PageTypeOK
<1>9. TablesInverse'
  <2>1. ASSUME NEW f \in Used
        PROVE  \E o \in Resident : /\ Owner(f) = o
                                  /\ Entry(o)'.frame_number = f
                                  /\ last_access_time'[f] = Entry(o)'.last_access
    <3>1. CASE f = f0 BY <3>1, <1>2, <1>3, <1>8
    <3>2. CASE f # f0
      <4>1. /\ Owner(f) \in Resident /\ Owner(f) # x0 /\ f \in Frames
            /\ Entry(Owner(f)).frame_number = f
            /\ last_access_time[f] = Entry(Owner(f)).last_access
        BY <3>2, <2>1, <1>3 DEF TablesInverse, Used
      <4>2. PICK o \in Resident : o = Owner(f) BY <4>1
      <4>3. Entry(o)' = Entry(o) BY <4>1, <4>2, <1>1 DEF Resident
      <4> QED BY <4>1, <4>2, <4>3, <3>2, <1>8
    <3> QED BY <3>1, <3>2
  <2>2. ASSUME NEW x \in Resident
        PROVE  Entry(x)'.frame_number \in Used /\ Owner(Entry(x)'.frame_number) = x
    <3>1. CASE x = x0 BY <3>1, <1>3, <1>8
    <3>2. CASE x # x0 BY <3>2, <1>1 DEF TablesInverse, Resident
    <3> QED BY <3>1, <3>2
  <2>3. \A x \in AllPages \ Resident : Entry(x)'.frame_number = -1
    BY <1>1, <1>2 DEF TablesInverse
  <2>4. \A f \in Used : Owner(f)' = Owner(f) BY <1>6 DEF Used
  <2>5. \A f \in Used :
           /\ Owner(f)' \in Resident
           /\ (Entry(Owner(f)).frame_number)' = f
           /\ last_access_time'[f] = (Entry(Owner(f)).last_access)'
    BY <2>1, <2>4 DEF Entry
  <2>6. \A x \in Resident :
           /\ Entry(x)'.frame_number \in Used
           /\ (Owner(Entry(x).frame_number) = x)'
    BY <2>2, <2>4, <1>6 DEF Owner, Used
  <2> QED BY <2>3, <2>5, <2>6, <1>5, <1>6 DEF TablesInverse
<1>10. current_time \in Nat /\ \A y \in AllPages : Entry(y).last_access \in -1 .. current_time
  BY DEF TimesDiffer, PageTypeOK
<1>11. MostRecentResident'
  <2>1. ASSUME NEW x \in Resident, NEW y \in AllPages \ Resident
        PROVE  Entry(y)'.last_access < Entry(x)'.last_access
    <3>1. Entry(y)' = Entry(y) BY <1>1, <1>2
    <3>2. CASE x = x0 BY <3>1, <3>2, <1>8, <1>10
    <3>3. CASE x # x0
      <4>1. Entry(x)' = Entry(x) BY <3>3, <1>1 DEF Resident
      <4> QED BY <3>1, <4>1 DEF MostRecentResident
    <3> QED BY <3>2, <3>3
  <2>2. \A y \in AllPages \ Resident : Entry(y)'.last_access = Entry(y).last_access
    BY <1>1, <1>2
  <2> QED BY <2>1, <2>2, <1>5, <1>6 DEF MostRecentResident
<1>12. TimesDiffer'
  <2>1. \A f \in Used : f \in Frames /\ last_access_time[f] \in 1 .. current_time
    BY DEF TimesDiffer, Used
  <2>2. \A f \in Used : last_access_time'[f] \in 1 .. current_time'
    BY <2>1, <1>8, <1>10
  <2>3. \A f, k \in Used : last_access_time'[f] = last_access_time'[k] => f = k
    BY <2>1, <1>8, <1>10 DEF TimesDiffer
  <2>4. \A y \in AllPages : Entry(y)'.last_access \in -1 .. current_time'
    BY <1>1, <1>8, <1>10
  <2> QED BY <2>2, <2>3, <2>4, <1>5, <1>6 DEF TimesDiffer
<1>13. \A x \in Resident \ {x0} : Entry(x)'.last_access = Entry(x).last_access
  BY <1>1 DEF Resident
<1> QED BY <1>5, <1>7, <1>8, <1>9, <1>11, <1>12, <1>13

\* A load, when kept is the set of the pages that stay and frame f is that of
\* none of them.
LEMMA LoadPreserves ==
    ASSUME PageInv, PageAssumption, NEW b \in Processes, NEW g \in Pages, NEW f \in Frames,
           NEW pages \in Tables, NEW kept \in SUBSET Resident, <<b, g>> \notin Resident,
           LoadPage(b, g, f, pages), current_time < NUM_ACCESSES, current_time' = current_time + 1,
           page_hit_count' \in Nat, page_fault_count' \in Nat,
           \A x \in kept : pages[x[1]][x[2]] = Entry(x) /\ Entry(x).frame_number # f,
           \A x \in AllPages \ kept :
              pages[x[1]][x[2]] = [frame_number |-> -1, present |-> FALSE,
                                   last_access |-> Entry(x).last_access],
           \A k \in Used \ {f} : Owner(k) \in kept,
           \A x \in kept, y \in AllPages \ kept : Entry(y).last_access < Entry(x).last_access,
           FreeFrames \ {f} # {} => \A y \in AllPages \ kept : Entry(y).last_access = -1
    PROVE  /\ PageInv' /\ Resident' = kept \cup {<<b, g>>}
           /\ Entry(<<b, g>>)'.last_access = current_time'
           /\ \A x \in kept : Entry(x)'.last_access = Entry(x).last_access
<1> DEFINE x0 == <<b, g>>
<1>1. x0 \in AllPages /\ x0 \notin kept /\ kept \subseteq AllPages
  BY PagesArePairs DEF Resident
<1>2. current_time \in Nat /\ current_time' \in Nat
      /\ \A y \in AllPages : Entry(y).last_access \in -1 .. current_time
  BY DEF TimesDiffer, PageTypeOK
<1>3. /\ page_table' \in Tables
      /\ Entry(x0)' = [frame_number |-> f, present |-> TRUE, last_access |-> current_time']
      /\ \A x \in AllPages \ {x0} : Entry(x)' = pages[x[1]][x[2]]
  BY <1>2, LoadEntries
<1>4. /\ \A x \in kept : Entry(x)' = Entry(x)
      /\ \A x \in AllPages \ (kept \cup {x0}) :
            Entry(x)' = [frame_number |-> -1, present |-> FALSE, last_access |-> Entry(x).last_access]
  BY <1>1, <1>3
<1>5. AllPages' = AllPages /\ Frames' = Frames BY DEF AllPages
<1>6. Resident' = kept \cup {x0}
  BY <1>1, <1>3, <1>4, <1>5 DEF Resident
<1>7. /\ free_frame_list' = [free_frame_list EXCEPT ![f] = FALSE]
      /\ Owner(f)' = x0 /\ \A k \in Frames \ {f} : Owner(k)' = Owner(k)
      /\ last_access_time'[f] = current_time'
      /\ \A k \in Frames \ {f} : last_access_time'[k] = last_access_time[k]
  BY DEF LoadPage, PageTypeOK, Owner
<1>8. Used' = Used \cup {f} /\ FreeFrames' = FreeFrames \ {f}
  BY <1>7 DEF Used, FreeFrames, PageTypeOK
<1>9. PageTypeOK'
  BY <1>2, <1>3 DEF PageTypeOK, LoadPage, Tables
<1>10. TablesInverse'
  <2>1. ASSUME NEW k \in Used \cup {f}
        PROVE  \E o \in kept \cup {x0} :
                  /\ Owner(k)' = o
                  /\ Entry(o)'.frame_number = k
                  /\ last_access_time'[k] = Entry(o)'.last_access
    <3>1. CASE k = f BY <3>1, <1>3, <1>7
    <3>2. CASE k # f
      <4>1. k \in Frames \ {f} /\ Owner(k)' = Owner(k) /\ Owner(k) \in kept
        BY <3>2, <2>1, <1>7 DEF Used
      <4>2. Entry(Owner(k)).frame_number = k /\ last_access_time[k] = Entry(Owner(k)).last_access
        BY <3>2, <2>1 DEF TablesInverse
      <4>3. PICK o \in kept : o = Owner(k) BY <4>1
      <4>4. Entry(o)' = Entry(o) BY <1>4, <4>3
      <4> QED BY <4>1, <4>2, <4>3, <4>4, <1>7
    <3> QED BY <3>1, <3>2
  <2>2. ASSUME NEW x \in kept \cup {x0}
        PROVE  \E k \in Used \cup {f} : Entry(x)'.frame_number = k /\ Owner(k)' = x
    <3>1. CASE x = x0 BY <3>1, <1>3, <1>7
    <3>2. CASE x # x0
      <4>1. Entry(x)' = Entry(x) /\ Entry(x).frame_number # f
        BY <3>2, <2>2, <1>4
      <4>2. Entry(x).frame_number \in Used /\ Owner(Entry(x).frame_number) = x
        BY <3>2, <2>2 DEF TablesInverse
      <4> QED BY <4>1, <4>2, <1>7 DEF Used
    <3> QED BY <3>1, <3>2
  <2>3. \A x \in AllPages \ (kept \cup {x0}) : Entry(x)'.frame_number = -1
    BY <1>4
  <2>4. \A k \in Used \cup {f} :
           /\ Owner(k)' \in kept \cup {x0}
           /\ (Entry(Owner(k)).frame_number)' = k
           /\ last_access_time'[k] = (Entry(Owner(k)).last_access)'
    BY <2>1 DEF Entry
  <2>5. \A x \in kept \cup {x0} :
           /\ Entry(x)'.frame_number \in Used \cup {f}
           /\ (Owner(Entry(x).frame_number) = x)'
    BY <2>2 DEF Owner
  <2> QED BY <2>3, <2>4, <2>5, <1>5, <1>6, <1>8 DEF TablesInverse
<1>11. MostRecentResident'
  <2>1. ASSUME NEW x \in kept \cup {x0}, NEW y \in AllPages \ (kept \cup {x0})
        PROVE  Entry(y)'.last_access < Entry(x)'.last_access
    <3>1. Entry(y)'.last_access = Entry(y).last_access BY <1>4
    <3>2. CASE x = x0 BY <3>1, <3>2, <1>2, <1>3
    <3>3. CASE x # x0 BY <3>1, <3>3, <1>4
    <3> QED BY <3>2, <3>3
  <2>2. \A y \in AllPages \ (kept \cup {x0}) : Entry(y)'.last_access = Entry(y).last_access
    BY <1>4
  <2> QED BY <2>1, <2>2, <1>5, <1>6, <1>8 DEF MostRecentResident
<1>12. TimesDiffer'
  <2>1. \A k \in Used : k \in Frames /\ last_access_time[k] \in 1 .. current_time
    BY DEF TimesDiffer, Used
  <2>2. \A k \in Used \cup {f} : last_access_time'[k] \in 1 .. current_time'
    BY <2>1, <1>2, <1>7
  <2>3. \A t, k \in Used \cup {f} : last_access_time'[t] = last_access_time'[k] => t = k
    BY <2>1, <1>2, <1>7 DEF TimesDiffer
  <2>4. \A y \in AllPages : Entry(y)'.last_access \in -1 .. current_time'
    BY <1>2, <1>3, <1>4
  <2> QED BY <2>2, <2>3, <2>4, <1>5, <1>8 DEF TimesDiffer
<1> QED BY <1>3, <1>4, <1>6, <1>9, <1>10, <1>11, <1>12

\* A fault with a free frame: every page stays.
LEMMA FreePreserves ==
    ASSUME PageInv, PageAssumption, NEW b \in Processes, NEW g \in Pages, FaultFree(b, g),
           current_time < NUM_ACCESSES, current_time' = current_time + 1
    PROVE  /\ PageInv' /\ FreeFrames # {} /\ <<b, g>> \notin Resident
           /\ Resident' = Resident \cup {<<b, g>>}
           /\ Entry(<<b, g>>)'.last_access = current_time'
           /\ \A x \in Resident : Entry(x)'.last_access = Entry(x).last_access
<1>1. PICK f \in Frames : IsFreeFrame(f) /\ LoadPage(b, g, f, page_table)
  BY DEF FaultFree
<1>2. f \notin Used /\ FreeFrames # {} BY <1>1 DEF IsFreeFrame, FreeFrames, Used
<1>3. <<b, g>> \notin Resident BY PagesArePairs DEF FaultFree, Resident
<1>4. page_table \in Tables BY DEF PageTypeOK, Tables
<1>5. page_hit_count' \in Nat /\ page_fault_count' \in Nat BY DEF FaultFree, PageTypeOK
<1>6. \A x \in Resident : page_table[x[1]][x[2]] = Entry(x) /\ Entry(x).frame_number # f
  BY <1>2 DEF TablesInverse, Entry
<1>7. ASSUME NEW x \in AllPages \ Resident
      PROVE  page_table[x[1]][x[2]] = [frame_number |-> -1, present |-> FALSE,
                                       last_access |-> Entry(x).last_access]
  <2>1. Entry(x) \in PageTableEntry BY <1>4, EntryType
  <2>2. Entry(x).frame_number = -1 /\ Entry(x).present = FALSE
    BY <2>1 DEF TablesInverse, Resident, PageTableEntry
  <2> QED BY <2>1, <2>2 DEF PageTableEntry, Entry
<1>8. \A k \in Used \ {f} : Owner(k) \in Resident BY DEF TablesInverse
<1>9. /\ \A x \in Resident, y \in AllPages \ Resident : Entry(y).last_access < Entry(x).last_access
      /\ FreeFrames \ {f} # {} => \A y \in AllPages \ Resident : Entry(y).last_access = -1
  BY <1>2 DEF MostRecentResident
<1> HIDE DEF PageInv
<1> QED BY <1>1, <1>2, <1>3, <1>4, <1>5, <1>6, <1>7, <1>8, <1>9, LoadPreserves

\* A fault with no free frame: every page stays but the one used least recently.
LEMMA ReplacePreserves ==
    ASSUME PageInv, PageAssumption, NEW b \in Processes, NEW g \in Pages, FaultReplace(b, g),
           current_time < NUM_ACCESSES, current_time' = current_time + 1
    PROVE  /\ PageInv' /\ FreeFrames = {} /\ <<b, g>> \notin Resident
           /\ \E v \in Resident :
                 /\ \A x \in Resident \ {v} : Entry(v).last_access < Entry(x).last_access
                 /\ Resident' = (Resident \ {v}) \cup {<<b, g>>}
                 /\ Entry(<<b, g>>)'.last_access = current_time'
                 /\ \A x \in Resident \ {v} : Entry(x)'.last_access = Entry(x).last_access
<1>1. PICK f \in Frames : IsLruFrame(f) /\ LoadPage(b, g, f, Evicted(f))
  BY DEF FaultReplace
<1> DEFINE v == Owner(f)
           kept == Resident \ {v}
<1>2. Used = Frames /\ FreeFrames = {} BY DEF FaultReplace, FreeFrames, Used
<1>3. /\ v \in Resident /\ v \in AllPages /\ Entry(v).frame_number = f
      /\ last_access_time[f] = Entry(v).last_access
  BY <1>2 DEF TablesInverse, Resident
<1>4. <<b, g>> \notin Resident BY PagesArePairs DEF FaultReplace, Resident
<1>5. /\ Evicted(f) \in Tables
      /\ Evicted(f)[v[1]][v[2]] =
            [frame_number |-> -1, present |-> FALSE, last_access |-> Entry(v).last_access]
      /\ \A x \in AllPages \ {v} : Evicted(f)[x[1]][x[2]] = Entry(x)
  BY <1>3, EvictedEntries
<1>6. page_hit_count' \in Nat /\ page_fault_count' \in Nat BY DEF FaultReplace, PageTypeOK
<1>7. \A x \in Resident : /\ Entry(x).frame_number \in Frames /\ Owner(Entry(x).frame_number) = x
                          /\ last_access_time[Entry(x).frame_number] = Entry(x).last_access
  BY <1>2 DEF TablesInverse
<1>8. \A x \in kept : Evicted(f)[x[1]][x[2]] = Entry(x) /\ Entry(x).frame_number # f
  BY <1>5, <1>7 DEF Resident
<1>9. ASSUME NEW x \in AllPages \ kept
      PROVE  Evicted(f)[x[1]][x[2]] = [frame_number |-> -1, present |-> FALSE,
                                       last_access |-> Entry(x).last_access]
  <2>1. CASE x = v BY <2>1, <1>5
  <2>2. CASE x # v
    <3>1. Entry(x) \in PageTableEntry BY EntryType DEF PageTypeOK, Tables
    <3>2. Entry(x).frame_number = -1 /\ Entry(x).present = FALSE
      BY <2>2, <3>1 DEF TablesInverse, Resident, PageTableEntry
    <3>3. Evicted(f)[x[1]][x[2]] = Entry(x) BY <2>2, <1>5
    <3> QED BY <3>1, <3>2, <3>3 DEF PageTableEntry
  <2> QED BY <2>1, <2>2
<1>10. \A k \in Used \ {f} : Owner(k) \in kept
  BY <1>3 DEF TablesInverse
<1>11. \A x \in kept : Entry(v).last_access < Entry(x).last_access
  <2>1. \A k \in Frames : last_access_time[k] \in Int BY DEF PageTypeOK
  <2>2. \A k \in Frames \ {f} : last_access_time[f] < last_access_time[k]
    BY <1>1, <1>2, <2>1 DEF IsLruFrame, TimesDiffer
  <2> QED BY <1>3, <1>7, <1>8, <2>2
<1>12. /\ \A x \in kept, y \in AllPages \ kept : Entry(y).last_access < Entry(x).last_access
       /\ FreeFrames \ {f} # {} => \A y \in AllPages \ kept : Entry(y).last_access = -1
  BY <1>2, <1>11 DEF MostRecentResident
<1>13. /\ PageInv' /\ Resident' = kept \cup {<<b, g>>}
       /\ Entry(<<b, g>>)'.last_access = current_time'
       /\ \A x \in kept : Entry(x)'.last_access = Entry(x).last_access
  <2> HIDE DEF PageInv, kept
  <2>1. kept \in SUBSET Resident BY DEF kept
  <2> QED BY <1>1, <1>4, <1>5, <1>6, <1>8, <1>9, <1>10, <1>12, <2>1, LoadPreserves
<1> QED BY <1>2, <1>3, <1>4, <1>11, <1>13

LEMMA PageInitInv == PageAssumption /\ PageInit => PageInv
<1> SUFFICES ASSUME PageAssumption, PageInit PROVE PageInv OBVIOUS
<1>1. /\ 0 \in 0 .. NUM_ACCESSES
      /\ [frame_number |-> -1, present |-> FALSE, last_access |-> -1] \in PageTableEntry
  BY DEF PageAssumption, PageTableEntry
<1>2. PageTypeOK BY <1>1 DEF PageInit, PageTypeOK
<1>3. Used = {} BY DEF PageInit, Used
<1>4. \A x \in AllPages : ~Entry(x).present /\ Entry(x).frame_number = -1 /\ Entry(x).last_access = -1
  BY DEF PageInit, AllPages, Entry
<1>5. Resident = {} BY <1>4 DEF Resident
<1> QED BY <1>2, <1>3, <1>4, <1>5 DEF PageInit, TablesInverse, MostRecentResident, TimesDiffer

LEMMA StepInv == PageAssumption /\ PageInv /\ [PageNext]_pageVars => PageInv'
<1> SUFFICES ASSUME PageAssumption, PageInv, [PageNext]_pageVars PROVE PageInv' OBVIOUS
<1>1. CASE PageNext
  <2>1. PICK b \in Processes, g \in Pages : AccessPage(b, g) BY <1>1 DEF PageNext
  <2>2. current_time < NUM_ACCESSES /\ current_time' = current_time + 1 BY <1>1 DEF PageNext
  <2> HIDE DEF PageInv
  <2> QED BY <2>1, <2>2, HitPreserves, FreePreserves, ReplacePreserves DEF AccessPage
<1>2. CASE UNCHANGED pageVars
  BY <1>2 DEF pageVars, tableVars, PageTypeOK, TablesInverse, MostRecentResident, TimesDiffer,
              Used, FreeFrames, Resident, Entry, Owner
<1> QED BY <1>1, <1>2

\* The page tables, the frame table and the times agree at every moment, and
\* what is in memory is what was used last (the whole of the simulator).
THEOREM PageInvariance == PageSpec => []PageInv
<1> HIDE DEF PageInv
<1> QED BY PageInitInv, StepInv, PageAssumption, PTL DEF PageSpec

\* No page outside memory was used after one inside.
THEOREM MostRecent == PageSpec => []MostRecentResident
<1>1. PageInv => MostRecentResident OBVIOUS
<1> HIDE DEF PageInv
<1> QED BY <1>1, PageInvariance, PTL

-----------------------------------------------------------------------------
\* The policy

\* As many pages are in memory as frames are used.
LEMMA ResidentCount ==
    ASSUME PageAssumption, PageInv
    PROVE  /\ FreeFrames = {} => Cardinality(Resident) = RAM_SIZE
           /\ FreeFrames # {} => Cardinality(Resident) < RAM_SIZE
<1> DEFINE B == [f \in Used |-> Owner(f)]
<1>1. B \in [Used -> Resident] BY DEF TablesInverse
<1>2. \A f, k \in Used : B[f] = B[k] => f = k BY DEF TablesInverse
<1>3. \A x \in Resident : \E f \in Used : B[f] = x BY DEF TablesInverse
<1>4. ExistsBijection(Used, Resident)
  <2> HIDE DEF B
  <2>1. B \in Bijection(Used, Resident) BY <1>1, <1>2, <1>3, Fun_IsBij
  <2> QED BY <2>1, Fun_ExistsBij
<1>5. IsFiniteSet(Frames) /\ Cardinality(Frames) = RAM_SIZE
  BY FS_Interval DEF Frames, PageAssumption
<1>6. /\ IsFiniteSet(Used) /\ Cardinality(Used) <= RAM_SIZE
      /\ Cardinality(Used) = RAM_SIZE => Used = Frames
  <2>1. Used \in SUBSET Frames BY DEF Used
  <2> QED BY <2>1, <1>5, FS_Subset
<1>7. Cardinality(Resident) = Cardinality(Used) BY <1>4, <1>6, FS_Bijection
<1>8. Cardinality(Used) \in Nat /\ RAM_SIZE \in Nat BY <1>6, FS_CardinalityType DEF PageAssumption
<1>9. FreeFrames = {} <=> Used = Frames BY DEF FreeFrames, Used
<1> QED BY <1>5, <1>6, <1>7, <1>8, <1>9

LEMMA SameCardinality == \A S : Lru!Cardinality(S) = Cardinality(S)
BY Zenon DEF Lru!Cardinality, Cardinality

\* The pages kept stay in their order, the page used comes last.
LEMMA OrderStep ==
    ASSUME NEW kept \in SUBSET Resident, NEW x0 \in AllPages, current_time \in Int,
           \A x \in AllPages : Entry(x).last_access \in Int /\ Entry(x).last_access <= current_time,
           current_time' = current_time + 1,
           Resident' = kept \cup {x0}, Entry(x0)'.last_access = current_time',
           \A x \in kept \ {x0} : Entry(x)'.last_access = Entry(x).last_access
    PROVE  Lru!KeepAndUse(kept, x0)
<1> DEFINE Older == {q \in Resident \X Resident : Entry(q[1]).last_access < Entry(q[2]).last_access}
           r == kept \ {x0}
           After == {q \in Older : q[1] \in r /\ q[2] \in r} \cup {<<y, x0>> : y \in r}
<1>1. ASSUME NEW y \in kept \cup {x0}, NEW z \in kept \cup {x0}
      PROVE  <<y, z>> \in After <=> Entry(y)'.last_access < Entry(z)'.last_access
  <2>1. y \in AllPages /\ z \in AllPages /\ kept \subseteq Resident BY DEF Resident
  <2>2. CASE z = x0 /\ y # x0
    BY <1>1, <2>1, <2>2
  <2>3. CASE z = x0 /\ y = x0
    BY <1>1, <2>1, <2>3
  <2>4. CASE z # x0 /\ y = x0
    BY <1>1, <2>1, <2>4
  <2>5. CASE z # x0 /\ y # x0
    BY <1>1, <2>1, <2>5
  <2> QED BY <2>2, <2>3, <2>4, <2>5
<1>2. After \subseteq (kept \cup {x0}) \X (kept \cup {x0}) OBVIOUS
<1>3. Older' = {q \in (kept \cup {x0}) \X (kept \cup {x0}) :
                    (Entry(q[1]).last_access < Entry(q[2]).last_access)'}
  OBVIOUS
<1>4. \A q \in (kept \cup {x0}) \X (kept \cup {x0}) :
          q \in After <=> (Entry(q[1]).last_access < Entry(q[2]).last_access)'
  BY <1>1
<1>5. Older' = After
  <2> HIDE DEF After, Older
  <2> QED BY <1>2, <1>3, <1>4
<1> QED BY <1>5 DEF Lru!KeepAndUse

LEMMA LruStep ==
    PageAssumption /\ PageInv /\ [PageNext]_pageVars => [Lru!LruNext]_(Lru!lruVars)
<1> SUFFICES ASSUME PageAssumption, PageInv, [PageNext]_pageVars
             PROVE  Lru!LruNext \/ UNCHANGED Lru!lruVars
  OBVIOUS
<1>1. CASE PageNext
  <2>1. PICK b \in Processes, g \in Pages : AccessPage(b, g) BY <1>1 DEF PageNext
  <2>2. /\ current_time < NUM_ACCESSES /\ current_time' = current_time + 1
        /\ current_time \in Int
        /\ \A x \in AllPages : Entry(x).last_access \in Int /\ Entry(x).last_access <= current_time
    BY <1>1 DEF PageNext, PageTypeOK, TimesDiffer
  <2>3. <<b, g>> \in AllPages BY DEF AllPages
  <2>4. CASE AccessHit(b, g)
    <3>1. /\ Resident' = Resident /\ Entry(<<b, g>>)'.last_access = current_time'
          /\ \A x \in Resident \ {<<b, g>>} : Entry(x)'.last_access = Entry(x).last_access
      BY <2>2, <2>4, HitPreserves
    <3>2. <<b, g>> \in Resident BY <2>4, PagesArePairs DEF AccessHit, Resident
    <3>3. Resident' = Resident \cup {<<b, g>>} BY <3>1, <3>2
    <3>4. Lru!KeepAndUse(Resident, <<b, g>>) BY <2>2, <2>3, <3>1, <3>3, OrderStep
    <3>5. Lru!Hit(<<b, g>>) BY <2>4, <3>2, <3>4 DEF Lru!Hit, AccessHit
    <3> QED BY <2>3, <3>5 DEF Lru!LruNext
  <2>5. CASE FaultFree(b, g)
    <3>1. /\ FreeFrames # {} /\ <<b, g>> \notin Resident
          /\ Resident' = Resident \cup {<<b, g>>}
          /\ Entry(<<b, g>>)'.last_access = current_time'
          /\ \A x \in Resident : Entry(x)'.last_access = Entry(x).last_access
      BY <2>2, <2>5, FreePreserves
    <3>2. Lru!KeepAndUse(Resident, <<b, g>>) BY <2>2, <2>3, <3>1, OrderStep
    <3>0. Cardinality(Resident) < RAM_SIZE BY <3>1, ResidentCount
    <3>3. Lru!Load(<<b, g>>) BY <2>5, <3>1, <3>2, <3>0, SameCardinality DEF Lru!Load, FaultFree
    <3> QED BY <2>3, <3>3 DEF Lru!LruNext
  <2>6. CASE FaultReplace(b, g)
    <3>1. PICK v \in Resident :
             /\ FreeFrames = {} /\ <<b, g>> \notin Resident
             /\ \A x \in Resident \ {v} : Entry(v).last_access < Entry(x).last_access
             /\ Resident' = (Resident \ {v}) \cup {<<b, g>>}
             /\ Entry(<<b, g>>)'.last_access = current_time'
             /\ \A x \in Resident \ {v} : Entry(x)'.last_access = Entry(x).last_access
      BY <2>2, <2>6, ReplacePreserves
    <3>2. Lru!Oldest(v) BY <3>1 DEF Lru!Oldest
    <3>3. Resident \ {v} \in SUBSET Resident OBVIOUS
    <3>4. Lru!KeepAndUse(Resident \ {v}, <<b, g>>) BY <2>2, <2>3, <3>1, <3>3, OrderStep
    <3>0. Cardinality(Resident) = RAM_SIZE BY <3>1, ResidentCount
    <3>5. Lru!Replace(<<b, g>>, v)
      BY <2>6, <3>1, <3>2, <3>4, <3>0, SameCardinality DEF Lru!Replace, FaultReplace
    <3> QED BY <2>3, <3>5 DEF Lru!LruNext
  <2> QED BY <2>1, <2>4, <2>5, <2>6 DEF AccessPage
<1>2. CASE UNCHANGED pageVars
  BY <1>2 DEF pageVars, tableVars, Lru!lruVars, Resident, Entry
<1> QED BY <1>1, <1>2

\* Every sequence of accesses evicts as the least-recently-used policy does,
\* and counts its hits and faults (lines 56-118).
THEOREM LruImplemented == PageSpec => LeastRecentlyUsed
<1>1. PageInit => Lru!LruInit
  BY DEF PageInit, Lru!LruInit, Resident, Entry, AllPages
<1> HIDE DEF PageInv
<1> QED BY <1>1, LruStep, PageInvariance, PageAssumption, PTL
        DEF PageSpec, LeastRecentlyUsed, Lru!LruSpec
-----------------------------------------------------------------------------
(***************************************************************************)
(* The sort of a list.                                                     *)
(***************************************************************************)
Ordered(s, k) == \A a, b \in 1 .. Len(s) : a < b /\ a < k => s[a] <= s[b]

\* An inner loop runs inside the list, and the outer one ends behind it.
SortIInv ==
    /\ nums \in Seq(Values) /\ inserted \in Seq(Values) /\ i \in Nat \ {0} /\ j \in Nat \ {0}
    /\ stage \in {"insert", "outer", "inner", "sorted", "freed"}
    /\ stage # "insert" => /\ Len(nums) = Len(inserted)
                           /\ \A v \in Values : Many(nums, v) = Many(inserted, v)
                           /\ Ordered(nums, i)
    /\ stage = "inner" => /\ i <= Len(nums) /\ i < j
                          /\ \A b \in i .. j - 1 : b <= Len(nums) => nums[i] <= nums[b]
    /\ stage \in {"sorted", "freed"} => i > Len(nums)

\* Where each element of a sequence has a place of its own in another, the other
\* holds a value at least as often.
LEMMA AtLeastAsMany ==
    ASSUME NEW s \in Seq(Values), NEW t \in Seq(Values), NEW v,
           NEW f \in [1 .. Len(s) -> 1 .. Len(t)],
           \A a, b \in 1 .. Len(s) : f[a] = f[b] => a = b,
           \A a \in 1 .. Len(s) : t[f[a]] = s[a]
    PROVE  Many(s, v) \in Nat /\ Many(s, v) <= Many(t, v)
<1> DEFINE S == {k \in DOMAIN s : s[k] = v}
           T == {k \in DOMAIN t : t[k] = v}
           g == [k \in S |-> f[k]]
<1>1. IsFiniteSet(S) /\ IsFiniteSet(T)
  <2>1. S \subseteq 1 .. Len(s) /\ T \subseteq 1 .. Len(t)
    OBVIOUS
  <2>2. IsFiniteSet(1 .. Len(s)) /\ IsFiniteSet(1 .. Len(t))
    BY FS_Interval
  <2> QED BY <2>1, <2>2, FS_Subset
<1>2. g \in Injection(S, T)
  <2>1. g \in [S -> T]
    OBVIOUS
  <2>2. \A a, b \in S : g[a] = g[b] => a = b
    OBVIOUS
  <2> HIDE DEF g, S, T
  <2> QED BY <2>1, <2>2, Zenon DEF Injection, IsInjective
<1> HIDE DEF g
<1>3. Cardinality(S) <= Cardinality(T)
  BY <1>1, <1>2, FS_Injection
<1> QED BY <1>1, <1>3, FS_CardinalityType DEF Many

\* An exchange of two elements loses no value and doubles none.
LEMMA ExchangeKeeps ==
    ASSUME NEW s \in Seq(Values), NEW a \in 1 .. Len(s), NEW b \in 1 .. Len(s), NEW v
    PROVE  Many([s EXCEPT ![a] = s[b], ![b] = s[a]], v) = Many(s, v)
<1> DEFINE t == [s EXCEPT ![a] = s[b], ![b] = s[a]]
           f == [k \in 1 .. Len(s) |-> IF k = a THEN b ELSE IF k = b THEN a ELSE k]
<1>1. t \in Seq(Values) /\ Len(t) = Len(s)
  OBVIOUS
<1>2. \A k \in 1 .. Len(s) : t[k] = IF k = b THEN s[a] ELSE IF k = a THEN s[b] ELSE s[k]
  OBVIOUS
<1>3. f \in [1 .. Len(s) -> 1 .. Len(s)] /\ \A k, l \in 1 .. Len(s) : f[k] = f[l] => k = l
  OBVIOUS
<1>4. \A k \in 1 .. Len(s) : t[f[k]] = s[k] /\ s[f[k]] = t[k]
  BY <1>2
<1> HIDE DEF t, f
<1>5. Many(s, v) \in Nat /\ Many(s, v) <= Many(t, v)
  BY <1>1, <1>3, <1>4, AtLeastAsMany
<1>6. Many(t, v) \in Nat /\ Many(t, v) <= Many(s, v)
  <2>1. f \in [1 .. Len(t) -> 1 .. Len(s)] /\ \A k, l \in 1 .. Len(t) : f[k] = f[l] => k = l
    BY <1>1, <1>3
  <2>2. \A k \in 1 .. Len(t) : s[f[k]] = t[k]
    BY <1>1, <1>4
  <2> QED BY <1>1, <2>1, <2>2, AtLeastAsMany
<1>7. Many(t, v) = Many(s, v)
  BY <1>5, <1>6
<1> QED BY <1>7 DEF t

LEMMA SortAtFirst ==
    ASSUME SortInit  PROVE SortIInv
BY DEF SortInit, SortIInv

LEMMA SortKept ==
    ASSUME SortIInv, [SortNext]_sortVars  PROVE SortIInv'
<1> USE DEF SortIInv
<1>0. \A k \in 1 .. Len(nums) : nums[k] \in Int
  <2>1. \A k \in 1 .. Len(nums) : nums[k] \in Values
    OBVIOUS
  <2> QED BY <2>1, SortAssumption
<1>1. CASE UNCHANGED sortVars
  BY <1>1 DEF sortVars, Ordered, Many
<1>2. ASSUME NEW v \in Values, InsertHead(v)  PROVE SortIInv'
  BY <1>2 DEF InsertHead
<1>3. CASE SortCall
  <2>1. Ordered(nums, 1)
    BY DEF Ordered
  <2> QED BY <1>3, <2>1 DEF SortCall, Ordered, Many
<1>4. CASE SortOuter
  <2>1. i' = i /\ nums' = nums /\ j' = i + 1 /\ \A b \in i .. j' - 1 : b = i
    BY <1>4 DEF SortOuter
  <2>2. i <= Len(nums) => nums[i] <= nums[i]
    BY <1>0
  <2> QED BY <1>4, <2>1, <2>2 DEF SortOuter, Ordered, Many
<1>5. CASE SortInner
  <2>1. /\ i \in 1 .. Len(nums) /\ j \in 1 .. Len(nums) /\ i < j /\ nums' = Swapped /\ j' = j + 1
        /\ i' = i /\ inserted' = inserted /\ stage' = stage /\ stage = "inner"
    BY <1>5 DEF SortInner
  <2>2. CASE nums[i] > nums[j]
    <3>1. nums' = [nums EXCEPT ![i] = nums[j], ![j] = nums[i]]
      BY <2>1, <2>2 DEF Swapped
    <3>2. /\ nums' \in Seq(Values) /\ Len(nums') = Len(nums)
          /\ \A k \in 1 .. Len(nums) : nums'[k] = IF k = j THEN nums[i] ELSE IF k = i THEN nums[j] ELSE nums[k]
      BY <2>1, <3>1
    <3>3. ASSUME NEW v \in Values  PROVE Many(nums, v)' = Many(inserted, v)'
      <4>1. Many(nums', v) = Many(nums, v)
        <5>1. Many([nums EXCEPT ![i] = nums[j], ![j] = nums[i]], v) = Many(nums, v)
          BY <2>1, ExchangeKeeps
        <5> QED BY <3>1, <5>1
      <4>2. Many(nums, v)' = Many(nums', v) /\ Many(inserted, v)' = Many(inserted, v)
        BY <2>1 DEF Many
      <4> QED BY <2>1, <4>1, <4>2
    <3>4. Ordered(nums, i)'
      <4> SUFFICES ASSUME NEW a \in 1 .. Len(nums), NEW b \in 1 .. Len(nums), a < b, a < i
                   PROVE  nums'[a] <= nums'[b]
        BY <2>1, <3>2 DEF Ordered
      <4>1. nums[a] <= nums[b] /\ nums[a] <= nums[i] /\ nums[a] <= nums[j]
        BY <2>1 DEF Ordered
      <4> QED BY <2>1, <3>2, <4>1
    <3>5. ASSUME NEW b \in i .. j' - 1  PROVE nums'[i] <= nums'[b]
      <4>1. nums'[i] = nums[j] /\ nums[j] \in Int /\ nums[i] \in Int
        BY <1>0, <2>1, <3>2
      <4>2. CASE b = j
        BY <2>1, <2>2, <3>2, <4>1, <4>2
      <4>3. CASE b = i
        BY <4>1, <4>3
      <4>4. CASE b \in i .. j - 1 /\ b # i
        <5>1. nums'[b] = nums[b] /\ nums[b] \in Int /\ nums[i] <= nums[b]
          BY <1>0, <2>1, <3>2, <4>4
        <5> QED BY <2>2, <4>1, <5>1
      <4> QED BY <2>1, <4>2, <4>3, <4>4
    <3> QED BY <2>1, <3>2, <3>3, <3>4, <3>5
  <2>3. CASE ~(nums[i] > nums[j])
    <3>1. nums' = nums
      BY <2>1, <2>3 DEF Swapped
    <3>2. nums[i] <= nums[j]
      BY <1>0, <2>1, <2>3
    <3>3. \A b \in i .. j' - 1 : b = j \/ b \in i .. j - 1
      BY <2>1
    <3>4. \A b \in i .. j' - 1 : b <= Len(nums') => nums'[i'] <= nums'[b]
      BY <2>1, <3>1, <3>2, <3>3
    <3>5. /\ Ordered(nums, i)' <=> Ordered(nums, i)
          /\ \A v : Many(nums, v)' = Many(nums, v) /\ Many(inserted, v)' = Many(inserted, v)
      BY <2>1, <3>1 DEF Ordered, Many
    <3> QED BY <2>1, <3>1, <3>4, <3>5
  <2> QED BY <2>2, <2>3
<1>6. CASE SortInnerEnd
  <2>1. j > Len(nums) /\ stage = "inner" /\ i' = i + 1 /\ nums' = nums /\ j' = j /\ inserted' = inserted
        /\ stage' = "outer"
    BY <1>6 DEF SortInnerEnd
  <2>2. Ordered(nums, i + 1)
    <3> SUFFICES ASSUME NEW a \in 1 .. Len(nums), NEW b \in 1 .. Len(nums), a < b, a < i + 1
                 PROVE  nums[a] <= nums[b]
      BY DEF Ordered
    <3>1. CASE a < i
      BY <2>1, <3>1 DEF Ordered
    <3>2. CASE a = i
      <4>1. b \in i .. j - 1
        BY <2>1, <3>2
      <4> QED BY <2>1, <3>2, <4>1
    <3> QED BY <3>1, <3>2
  <2>3. Ordered(nums, i)' <=> Ordered(nums, i + 1)
    BY <2>1 DEF Ordered
  <2> QED BY <2>1, <2>2, <2>3 DEF Many
<1>7. CASE SortReturn \/ FreeHead
  BY <1>7 DEF SortReturn, FreeHead, Ordered, Many
<1> QED BY <1>1, <1>2, <1>3, <1>4, <1>5, <1>6, <1>7 DEF SortNext

\* An exchange loses no value and doubles none, and the sort that has returned has
\* put the list in order, for lists of any length and any integers in them.
THEOREM ListSorted == SortSpec => []SortInv
<1>1. SortInit => SortIInv
  BY SortAtFirst
<1>2. SortIInv /\ [SortNext]_sortVars => SortIInv'
  BY SortKept
<1>3. SortIInv => SortInv
  <2> SUFFICES ASSUME SortIInv, stage # "insert"  PROVE SortInv
    BY DEF SortInv
  <2>1. stage \in {"sorted", "freed"} =>
           \A a, b \in 1 .. Len(nums) : a < b => nums[a] <= nums[b]
    BY DEF SortIInv, Ordered
  <2> QED BY <2>1 DEF SortIInv, SortInv, Ordered
<1> QED BY <1>1, <1>2, <1>3, PTL DEF SortSpec

-----------------------------------------------------------------------------
(***************************************************************************)
(* The borders of a pattern.                                               *)
(***************************************************************************)
IsLongest(m, n) == m \in Borders(n) /\ \A k \in Borders(n) : k <= m

LpsIInv ==
    /\ pat \in Seq(Letters) /\ ind \in 1 .. Len(pat) /\ len \in Borders(ind)
    /\ lps \in [0 .. Len(pat) - 1 -> Int]
    /\ \A k \in 0 .. ind - 1 : IsLongest(lps[k], k + 1)
    /\ ind < Len(pat) => \A k \in Borders(ind) : k > len => Pat(k) # Pat(ind)

\* A border, character by character.
LEMMA BorderIs ==
    ASSUME pat \in Seq(Letters), NEW n \in 1 .. Len(pat), NEW k
    PROVE  k \in Borders(n) <=> k \in 0 .. n - 1 /\ \A x \in 1 .. k : pat[x] = pat[(n - k) + x]
<1> SUFFICES ASSUME k \in 0 .. n - 1
             PROVE  SubSeq(pat, 1, k) = SubSeq(pat, n - k + 1, n)
                    <=> \A x \in 1 .. k : pat[x] = pat[(n - k) + x]
  BY DEF Borders
<1> DEFINE a == SubSeq(pat, 1, k)
           b == SubSeq(pat, n - k + 1, n)
<1>1. a \in Seq(Letters) /\ Len(a) = k /\ \A x \in 1 .. k : a[x] = pat[x]
  <2>1. \A x \in 1 .. k : pat[x] \in Letters /\ (1 + x) - 1 = x
    OBVIOUS
  <2>2. /\ a \in Seq(Letters) /\ Len(a) = (IF 1 <= k THEN k - 1 + 1 ELSE 0)
        /\ \A x \in 1 .. k - 1 + 1 : a[x] = pat[1 + x - 1]
    BY <2>1, SubSeqProperties
  <2> HIDE DEF a
  <2> QED BY <2>1, <2>2
<1>2. b \in Seq(Letters) /\ Len(b) = k /\ \A x \in 1 .. k : b[x] = pat[(n - k) + x]
  <2>1. /\ \A x \in n - k + 1 .. n : pat[x] \in Letters
        /\ n - (n - k + 1) + 1 = k /\ \A x \in 1 .. k : (n - k + 1) + x - 1 = (n - k) + x
        /\ (n - k + 1 <= n <=> 1 <= k)
    OBVIOUS
  <2>2. /\ b \in Seq(Letters) /\ Len(b) = (IF n - k + 1 <= n THEN n - (n - k + 1) + 1 ELSE 0)
        /\ \A x \in 1 .. n - (n - k + 1) + 1 : b[x] = pat[(n - k + 1) + x - 1]
    BY <2>1, SubSeqProperties
  <2> HIDE DEF b
  <2> QED BY <2>1, <2>2
<1> HIDE DEF a, b
<1>3. a = b <=> \A x \in 1 .. k : pat[x] = pat[(n - k) + x]
  <2>1. ASSUME \A x \in 1 .. k : pat[x] = pat[(n - k) + x]  PROVE a = b
    <3>1. \A x \in 1 .. Len(a) : a[x] = b[x]
      BY <1>1, <1>2, <2>1
    <3> QED BY <1>1, <1>2, <3>1, SeqEqual
  <2> QED BY <1>1, <1>2, <2>1
<1> QED BY <1>3 DEF a, b

\* The borders of a border are the shorter borders.
LEMMA BorderOfBorder ==
    ASSUME pat \in Seq(Letters), NEW n \in 1 .. Len(pat), NEW l \in Borders(n), NEW k \in 0 .. l - 1
    PROVE  k \in Borders(n) <=> k \in Borders(l)
<1>1. l \in 0 .. n - 1 /\ \A x \in 1 .. l : pat[x] = pat[(n - l) + x]
  BY BorderIs
<1>2. l \in 1 .. Len(pat) /\ k \in 0 .. n - 1
  BY <1>1
<1>3. \A x \in 1 .. k : pat[(l - k) + x] = pat[(n - k) + x]
  <2> SUFFICES ASSUME NEW x \in 1 .. k  PROVE pat[(l - k) + x] = pat[(n - k) + x]
    OBVIOUS
  <2>1. (l - k) + x \in 1 .. l /\ (n - l) + ((l - k) + x) = (n - k) + x
    BY <1>1
  <2> QED BY <1>1, <2>1
<1>4. k \in Borders(n) <=> \A x \in 1 .. k : pat[x] = pat[(n - k) + x]
  BY <1>2, BorderIs
<1>5. k \in Borders(l) <=> \A x \in 1 .. k : pat[x] = pat[(l - k) + x]
  BY <1>2, BorderIs
<1> QED BY <1>3, <1>4, <1>5

\* A border of one character more is a border that goes on.
LEMMA LongerBorder ==
    ASSUME pat \in Seq(Letters), NEW n \in 1 .. Len(pat) - 1
    PROVE  /\ 0 \in Borders(n + 1)
           /\ \A k \in 0 .. n - 1 : k + 1 \in Borders(n + 1) <=> k \in Borders(n) /\ Pat(k) = Pat(n)
           /\ \A m \in Borders(n + 1) : m = 0 \/ m - 1 \in 0 .. n - 1
<1>1. n + 1 \in 1 .. Len(pat) /\ n \in 1 .. Len(pat)
  OBVIOUS
<1>2. 0 \in Borders(n + 1)
  BY <1>1, BorderIs
<1>3. ASSUME NEW k \in 0 .. n - 1
      PROVE  k + 1 \in Borders(n + 1) <=> k \in Borders(n) /\ Pat(k) = Pat(n)
  <2> DEFINE Same(m) == \A x \in 1 .. m : pat[x] = pat[(n - k) + x]
  <2>1. (n + 1) - (k + 1) = n - k /\ k + 1 \in 0 .. (n + 1) - 1
    OBVIOUS
  <2>2. k + 1 \in Borders(n + 1) <=> Same(k + 1)
    <3>1. /\ \A x : ((n + 1) - (k + 1)) + x = (n - k) + x
          /\ k + 1 \in 0 .. (n + 1) - 1
      BY <2>1
    <3>2. k + 1 \in Borders(n + 1) <=>
            /\ k + 1 \in 0 .. (n + 1) - 1
            /\ \A x \in 1 .. k + 1 : pat[x] = pat[((n + 1) - (k + 1)) + x]
      BY <1>1, BorderIs
    <3>3. (\A x \in 1 .. k + 1 : pat[x] = pat[((n + 1) - (k + 1)) + x]) <=> Same(k + 1)
      BY <3>1, Zenon
    <3> HIDE DEF Same
    <3> QED BY <3>1, <3>2, <3>3, Zenon
  <2>3. k \in Borders(n) <=> Same(k)
    BY <1>1, BorderIs
  <2>4. Pat(k) = Pat(n) <=> pat[k + 1] = pat[(n - k) + (k + 1)]
    BY DEF Pat
  <2>5. Same(k + 1) <=> Same(k) /\ pat[k + 1] = pat[(n - k) + (k + 1)]
    <3>1. \A x \in 1 .. k + 1 : x \in 1 .. k \/ x = k + 1
      OBVIOUS
    <3>2. k + 1 \in 1 .. k + 1 /\ \A x \in 1 .. k : x \in 1 .. k + 1
      OBVIOUS
    <3> QED BY <3>1, <3>2
  <2> HIDE DEF Same
  <2> QED BY <2>2, <2>3, <2>4, <2>5
<1>4. \A m \in Borders(n + 1) : m \in 0 .. n
  BY DEF Borders
<1> QED BY <1>2, <1>3, <1>4

LEMMA LongestIs ==
    ASSUME pat \in Seq(Letters), NEW n \in 1 .. Len(pat), NEW m, IsLongest(m, n)
    PROVE  Longest(n) = m
<1>1. \A k \in Borders(n) : k \in Int
  BY DEF Borders
<1>2. \A k \in Borders(n) : (\A l \in Borders(n) : l <= k) => k = m
  BY <1>1 DEF IsLongest
<1> QED BY <1>2 DEF IsLongest, Longest

LEMMA LpsAtFirst ==
    ASSUME LpsInit  PROVE LpsIInv
<1>1. pat \in Seq(Letters) /\ Len(pat) \in Nat \ {0}
  <2>1. PICK k \in 1 .. MaxPattern : pat \in [1 .. k -> Letters]
    BY DEF LpsInit
  <2>2. k \in Nat \ {0}
    BY LpsAssumption
  <2> QED BY <2>1, <2>2
<1>2. \A k : k \in Borders(1) <=> k = 0
  <2>1. 1 \in 1 .. Len(pat)
    BY <1>1
  <2> QED BY <1>1, <2>1, BorderIs
<1>3. IsLongest(0, 1)
  BY <1>2 DEF IsLongest
<1> QED BY <1>1, <1>2, <1>3 DEF LpsInit, LpsIInv

LEMMA LpsKept ==
    ASSUME LpsIInv, [LpsTurn]_lpsVars  PROVE LpsIInv'
<1>1. CASE UNCHANGED lpsVars
  BY <1>1 DEF lpsVars, LpsIInv, IsLongest, Borders, Pat
<1> SUFFICES ASSUME LpsTurn  PROVE LpsIInv'
  BY <1>1
<1> USE DEF LpsIInv
<1>2. /\ pat' = pat /\ ind < Len(pat) /\ Len(pat) \in Nat /\ ind \in 1 .. Len(pat) - 1
      /\ len \in 0 .. ind - 1
  BY DEF LpsTurn, Borders
<1>3. /\ \A n : Borders(n)' = Borders(n)
      /\ \A m, n : IsLongest(m, n)' <=> IsLongest(m, n)
      /\ \A k : Pat(k)' = Pat(k)
  BY <1>2 DEF Borders, IsLongest, Pat
<1>4. \A k \in Borders(ind) : k > len => Pat(k) # Pat(ind)
  BY <1>2
\* The next entry is m, the longest border of ind + 1 characters, and len too.
<1>5. ASSUME NEW m, IsLongest(m, ind + 1), lps' = [lps EXCEPT ![ind] = m], len' = m, ind' = ind + 1
      PROVE  LpsIInv'
  <2>1. ind' \in 1 .. Len(pat) /\ m \in 0 .. ind
    BY <1>2, <1>5 DEF IsLongest, Borders
  <2>2. lps' \in [0 .. Len(pat) - 1 -> Int]
    BY <1>5, <2>1
  <2>3. ASSUME NEW k \in 0 .. ind' - 1  PROVE IsLongest(lps'[k], k + 1)
    <3>1. CASE k = ind
      BY <1>2, <1>5, <3>1
    <3>2. CASE k # ind
      <4>1. k \in 0 .. ind - 1 /\ lps'[k] = lps[k]
        BY <1>2, <1>5, <3>2
      <4> QED BY <4>1
    <3> QED BY <3>1, <3>2
  <2>4. len' \in Borders(ind') /\ \A k \in Borders(ind') : ~(k > len')
    <3>1. \A k \in Borders(ind + 1) : k \in Int
      BY DEF Borders
    <3>2. \A k \in Borders(ind + 1) : k <= m
      BY <1>5 DEF IsLongest
    <3> QED BY <1>5, <2>1, <3>1, <3>2 DEF IsLongest
  <2> QED BY <1>2, <1>3, <2>1, <2>2, <2>3, <2>4
<1>6. CASE Pat(ind) = Pat(len) /\ len' = len + 1 /\ ind' = ind + 1 /\ lps' = [lps EXCEPT ![ind] = len + 1]
  <2>1. len + 1 \in Borders(ind + 1)
    BY <1>2, <1>6, LongerBorder
  <2>2. ASSUME NEW m \in Borders(ind + 1)  PROVE m <= len + 1
    <3>1. m = 0 \/ (m - 1 \in 0 .. ind - 1 /\ (m - 1) + 1 = m)
      BY <1>2, LongerBorder
    <3>2. CASE m = 0
      BY <1>2, <3>2
    <3>3. CASE m # 0
      <4>1. m - 1 \in Borders(ind) /\ Pat(m - 1) = Pat(ind)
        BY <1>2, <3>1, <3>3, LongerBorder
      <4> QED BY <1>2, <1>4, <3>1, <3>3, <4>1
    <3> QED BY <3>2, <3>3
  <2>3. IsLongest(len + 1, ind + 1)
    BY <2>1, <2>2 DEF IsLongest
  <2> QED BY <1>5, <1>6, <2>3
<1>7. CASE Pat(ind) # Pat(len) /\ len # 0 /\ FallBack
  <2>1. len \in Borders(ind) /\ len - 1 \in 0 .. ind - 1 /\ (len - 1) + 1 = len /\ len \in 1 .. Len(pat)
    BY <1>2, <1>7
  <2>2. len' = lps[len - 1] /\ ind' = ind /\ lps' = lps
    BY <1>7 DEF FallBack
  <2>3. IsLongest(len', len)
    <3>1. IsLongest(lps[len - 1], (len - 1) + 1)
      BY <2>1
    <3> QED BY <2>1, <2>2, <3>1
  <2>4. len' \in Borders(len) /\ len' \in 0 .. len - 1
    BY <2>3 DEF IsLongest, Borders
  <2>5. len' \in Borders(ind)
    BY <1>2, <2>1, <2>4, BorderOfBorder
  <2>6. ASSUME NEW k \in Borders(ind), k > len'  PROVE Pat(k) # Pat(ind)
    <3>1. k \in 0 .. ind - 1
      BY DEF Borders
    <3>2. CASE k > len
      BY <1>4, <3>2
    <3>3. CASE k = len
      BY <1>7, <3>3
    <3>4. CASE k < len
      <4>1. k \in Borders(len)
        BY <1>2, <2>1, <3>1, <3>4, BorderOfBorder
      <4> QED BY <2>3, <2>4, <2>6, <3>1, <4>1 DEF IsLongest
    <3> QED BY <1>2, <3>1, <3>2, <3>3, <3>4
  <2> QED BY <1>2, <1>3, <2>2, <2>5, <2>6
<1>8. CASE Pat(ind) # Pat(len) /\ len = 0 /\ ind' = ind + 1 /\ len' = len /\ lps' = [lps EXCEPT ![ind] = 0]
  <2>1. 0 \in Borders(ind + 1)
    BY <1>2, LongerBorder
  <2>2. ASSUME NEW m \in Borders(ind + 1)  PROVE m = 0
    <3>1. m = 0 \/ (m - 1 \in 0 .. ind - 1 /\ (m - 1) + 1 = m)
      BY <1>2, LongerBorder
    <3>2. CASE m # 0
      <4>1. m - 1 \in Borders(ind) /\ Pat(m - 1) = Pat(ind)
        BY <1>2, <3>1, <3>2, LongerBorder
      <4>2. m - 1 > len \/ m - 1 = len
        BY <1>8, <3>1, <3>2
      <4> QED BY <1>4, <1>8, <4>1, <4>2
    <3> QED BY <3>2
  <2>3. IsLongest(0, ind + 1)
    BY <2>1, <2>2 DEF IsLongest
  <2> QED BY <1>5, <1>8, <2>3
<1> QED BY <1>6, <1>7, <1>8 DEF LpsTurn

\* Each entry of the table is the length of the longest border of its prefix, for
\* any pattern: after a mismatch no border that could go on is passed over.
THEOREM LongestBorders == LpsSpec => []LpsInv
<1>1. LpsInit => LpsIInv
  BY LpsAtFirst
<1>2. LpsIInv /\ [LpsTurn]_lpsVars => LpsIInv'
  BY LpsKept
<1>3. LpsIInv => LpsInv
  <2> SUFFICES ASSUME LpsIInv  PROVE LpsInv
    OBVIOUS
  <2>1. \A k \in 0 .. ind - 1 : k + 1 \in 1 .. Len(pat)
    BY DEF LpsIInv
  <2>2. \A k \in 0 .. ind - 1 : lps[k] = Longest(k + 1)
    BY <2>1, LongestIs DEF LpsIInv
  <2> QED BY <2>2 DEF LpsIInv, LpsInv
<1> QED BY <1>1, <1>2, <1>3, PTL DEF LpsSpec

-----------------------------------------------------------------------------
(***************************************************************************)
(* The best sum of neighbours in an array.                                 *)
(***************************************************************************)
\* The sums of an array add up.
LEMMA SumsAdd ==
    ASSUME NEW N \in Nat, NEW a \in [1 .. N -> Int]
    PROVE  /\ SumsUpto(a) \in [0 .. N -> Int]
           /\ \A k \in 1 .. N : SumsUpto(a)[k] = SumsUpto(a)[k - 1] + a[k]
<1> DEFINE Def(e) == [k \in 0 .. N |-> IF k = 0 THEN 0 ELSE e[k - 1] + a[k]]
           s == CHOOSE e : e = Def(e)
<1>1. PICK go : go = [k \in 1 .. N |-> [q \in Int |-> q + a[k]]]
  OBVIOUS
<1>2. \A k \in 1 .. N : \A q \in Int : go[k][q] = q + a[k] /\ go[k][q] \in Int
  BY <1>1
<1>3. PICK e \in [0 .. N -> Int] : Iterates(e, N, 0, go)
  <2>1. PICK Z : Z = Int
    OBVIOUS
  <2>2. 0 \in Z /\ \A k \in 1 .. N : \A q \in Z : go[k][q] \in Z
    BY <1>2, <2>1
  <2>3. \E e \in [0 .. N -> Z] : Iterates(e, N, 0, go)
    BY <2>2, IterationExists
  <2> QED BY <2>1, <2>3
<1>4. e = Def(e)
  <2>1. ASSUME NEW k \in 0 .. N  PROVE e[k] = IF k = 0 THEN 0 ELSE e[k - 1] + a[k]
    <3>1. CASE k = 0
      BY <1>3, <3>1 DEF Iterates
    <3>2. CASE k # 0
      <4>1. k \in 1 .. N /\ k - 1 \in 0 .. N
        BY <3>2
      <4>2. e[k - 1] \in Int /\ e[k] = go[k][e[k - 1]]
        BY <1>3, <4>1 DEF Iterates
      <4> QED BY <1>2, <3>2, <4>1, <4>2
    <3> QED BY <3>1, <3>2
  <2> QED BY <2>1
<1>5. s = Def(s)
  <2>1. \E g : g = Def(g)
    BY <1>4
  <2> HIDE DEF Def
  <2> QED BY <2>1
<1>6. SumsUpto(a) = s
  <2>1. Len(a) = N
    OBVIOUS
  <2> QED BY <2>1 DEF SumsUpto
<1>7. s[0] = 0 /\ (\A k \in 1 .. N : s[k] = s[k - 1] + a[k]) /\ s = [k \in 0 .. N |-> s[k]]
  <2>1. Def(s)[0] = 0 /\ (\A k \in 1 .. N : Def(s)[k] = s[k - 1] + a[k]) /\ Def(s) = [k \in 0 .. N |-> Def(s)[k]]
    OBVIOUS
  <2> HIDE DEF Def, s
  <2> QED BY <1>5, <2>1
<1> HIDE DEF s
<1>8. \A k \in 0 .. N : s[k] \in Int
  <2> DEFINE Good == {k \in 0 .. N : s[k] \in Int}
  <2>1. 0 \in Good
    BY <1>7
  <2>2. ASSUME NEW k \in 1 .. N, k - 1 \in Good  PROVE k \in Good
    <3>1. s[k - 1] \in Int /\ a[k] \in Int /\ k \in 0 .. N
      BY <2>2
    <3>2. s[k - 1] + a[k] \in Int
      BY <3>1
    <3> QED BY <1>7, <3>1, <3>2
  <2> HIDE DEF Good
  <2>3. \A k \in 0 .. N : k \in Good
    BY <2>1, <2>2, Climb
  <2> QED BY <2>3 DEF Good
<1> QED BY <1>6, <1>7, <1>8

LEMMA SumOfIs ==
    ASSUME NEW N \in Nat, NEW a \in [1 .. N -> Int]
    PROVE  /\ \A u \in 1 .. N : \A v \in u .. N : SumOf(a, u, v) \in Int
           /\ \A u \in 1 .. N : SumOf(a, u, u) = a[u]
           /\ \A u, v, m \in 1 .. N : u <= m /\ m < v => SumOf(a, u, v) = SumOf(a, u, m) + SumOf(a, m + 1, v)
<1>1. PICK s \in [0 .. N -> Int] : s = SumsUpto(a) /\ \A k \in 1 .. N : s[k] = s[k - 1] + a[k]
  BY SumsAdd
<1>2. \A h, t : SumOf(a, h, t) = s[t] - s[h - 1]
  BY <1>1 DEF SumOf
<1>3. \A u \in 1 .. N : u - 1 \in 0 .. N /\ u \in 0 .. N
  OBVIOUS
<1>4. ASSUME NEW u \in 1 .. N, NEW v \in u .. N  PROVE SumOf(a, u, v) \in Int
  <2>1. s[v] \in Int /\ s[u - 1] \in Int
    BY <1>3
  <2>2. s[v] - s[u - 1] \in Int
    BY <2>1
  <2> QED BY <1>2, <2>2
<1>5. ASSUME NEW u \in 1 .. N  PROVE SumOf(a, u, u) = a[u]
  <2>1. s[u - 1] \in Int /\ a[u] \in Int /\ s[u] = s[u - 1] + a[u]
    BY <1>1, <1>3
  <2>2. s[u] - s[u - 1] = a[u]
    BY <2>1
  <2> QED BY <1>2, <2>2
<1>6. ASSUME NEW u \in 1 .. N, NEW v \in 1 .. N, NEW m \in 1 .. N, u <= m, m < v
      PROVE  SumOf(a, u, v) = SumOf(a, u, m) + SumOf(a, m + 1, v)
  <2>1. s[u - 1] \in Int /\ s[m] \in Int /\ s[v] \in Int /\ m + 1 - 1 = m
    BY <1>3
  <2>2. s[v] - s[u - 1] = (s[m] - s[u - 1]) + (s[v] - s[m])
    BY <2>1
  <2>3. SumOf(a, u, v) = s[v] - s[u - 1] /\ SumOf(a, u, m) = s[m] - s[u - 1] /\ SumOf(a, m + 1, v) = s[v] - s[m]
    <3>1. \A h, t : SumOf(a, h, t) = s[t] - s[h - 1]
      BY <1>2
    <3>2. PICK h \in Int : h = m + 1 /\ h - 1 = m
      OBVIOUS
    <3>3. SumOf(a, h, v) = s[v] - s[h - 1]
      BY <3>1
    <3> QED BY <3>1, <3>2, <3>3
  <2> QED BY <2>2, <2>3
<1> QED BY <1>4, <1>5, <1>6

\* What most finds.
LEMMA MostIs ==
    ASSUME NEW S \in SUBSET Int, NEW n \in S, \A m \in S : m <= n
    PROVE  most(S) = n
<1>1. most(S) \in S /\ \A m \in S : m <= most(S)
  BY DEF most
<1>2. PICK k : k = most(S)
  OBVIOUS
<1>3. k \in Int /\ n \in Int /\ k <= n /\ n <= k
  BY <1>1, <1>2
<1>4. k = n
  BY <1>3
<1> QED BY <1>2, <1>4

LEMMA IntRange == INT_MIN \in Int /\ INT_MAX \in Int /\ INT_MIN \in INT_MIN .. INT_MAX
<1>1. INT_MAX \in Int
  BY SMT DEF INT_MAX
<1>2. INT_MIN \in Int
  BY SMT DEF INT_MIN, INT_MAX
<1>3. INT_MIN <= INT_MAX
  BY SMT DEF INT_MIN, INT_MAX
<1> QED BY <1>1, <1>2, <1>3

LEMMA MostExists ==
    ASSUME NEW S \in SUBSET (INT_MIN .. INT_MAX), S # {}
    PROVE  most(S) \in S /\ \A m \in S : m <= most(S)
<1> DEFINE Gap == {INT_MAX - m : m \in S}
<1>1. INT_MIN \in Int /\ INT_MAX \in Int
  BY IntRange
<1>2. Gap \in SUBSET Nat /\ Gap # {}
  <2>1. ASSUME NEW m \in S  PROVE INT_MAX - m \in Nat
    <3>1. m \in Int /\ m <= INT_MAX
      BY <1>1
    <3> QED BY <1>1, <3>1
  <2> QED BY <2>1
<1>3. PICK d \in Gap : \A m \in Gap : d <= m
  <2> HIDE DEF Gap
  <2> QED BY <1>2, LeastNumber
<1>4. PICK n \in S : d = INT_MAX - n
  OBVIOUS
<1>5. ASSUME NEW m \in S  PROVE m <= n
  <2>1. INT_MAX - m \in Gap
    OBVIOUS
  <2>2. INT_MAX - n <= INT_MAX - m
    BY <1>3, <1>4, <2>1
  <2>3. m \in Int /\ n \in Int
    BY <1>1
  <2> QED BY <1>1, <2>2, <2>3
<1> QED BY <1>4, <1>5 DEF most

\* The sums between two places of an array, and the best of them, which is what a
\* call returns.
SumsWithin(a, from, to)  == UNION {{SumOf(a, u, v) : v \in u .. to} : u \in from .. to}
BestSum(a, from, to) == IF from > to THEN INT_MIN ELSE most(SumsWithin(a, from, to))
Fits(a, N) == \A u \in 1 .. N : \A v \in u .. N : SumOf(a, u, v) \in INT_MIN .. INT_MAX

LEMMA BestIs ==
    ASSUME NEW N \in Nat, NEW a, Fits(a, N), NEW from \in 1 .. N + 1, NEW to \in 0 .. N
    PROVE  /\ BestSum(a, from, to) \in INT_MIN .. INT_MAX
           /\ from > to => BestSum(a, from, to) = INT_MIN
           /\ from <= to => \E u \in from .. to : \E v \in u .. to : BestSum(a, from, to) = SumOf(a, u, v)
           /\ \A u \in from .. to : \A v \in u .. to : SumOf(a, u, v) <= BestSum(a, from, to)
<1>1. PICK S : S = SumsWithin(a, from, to)
  OBVIOUS
<1>2. /\ \A u \in from .. to : \A v \in u .. to : SumOf(a, u, v) \in S
      /\ \A n \in S : \E u \in from .. to : \E v \in u .. to : n = SumOf(a, u, v)
  BY <1>1 DEF SumsWithin
<1>3. \A u \in from .. to : \A v \in u .. to : u \in 1 .. N /\ v \in u .. N
  OBVIOUS
<1>4. S \in SUBSET (INT_MIN .. INT_MAX)
  BY <1>2, <1>3 DEF Fits
<1>5. CASE from > to
  <2>1. INT_MIN \in INT_MIN .. INT_MAX
    BY IntRange
  <2>2. ~\E u : u \in from .. to
    BY <1>5
  <2> QED BY <1>5, <2>1, <2>2 DEF BestSum
<1>6. CASE ~(from > to)
  <2>1. from \in from .. to /\ from <= to
    BY <1>6
  <2>2. SumOf(a, from, from) \in S
    BY <1>2, <2>1
  <2>3. most(S) \in S /\ \A m \in S : m <= most(S)
    BY <1>4, <2>2, MostExists
  <2>4. BestSum(a, from, to) = most(S)
    BY <1>1, <1>6 DEF BestSum
  <2> QED BY <1>2, <1>4, <1>6, <2>3, <2>4
<1> QED BY <1>5, <1>6

\* The best sum before the middle, behind it, that ends in it, that begins behind it,
\* and of the last two: the best of all.
LEMMA Middle ==
    ASSUME NEW N \in Nat, NEW a \in [1 .. N -> Int], Fits(a, N), NEW first \in 1 .. N, NEW last \in 1 .. N,
           NEW med \in first .. last - 1
    PROVE  most({BestSum(a, first, med - 1), BestSum(a, med + 1, last), mid_sub(a, first, med, last)})
               = BestSum(a, first, last)
<1>1. /\ first <= med /\ med < last /\ med \in 1 .. N /\ med + 1 \in 1 .. N + 1 /\ med - 1 \in 0 .. N
      /\ first \in 1 .. N + 1 /\ last \in 0 .. N /\ first <= last
  OBVIOUS
<1>2. PICK l : l = most(LeftSums(a, first, med))
  OBVIOUS
<1>3. PICK r : r = most(RightSums(a, med, last))
  OBVIOUS
<1>4. l \in INT_MIN .. INT_MAX /\ (\A k \in first .. med : SumOf(a, k, med) <= l)
      /\ \E k \in first .. med : l = SumOf(a, k, med)
  <2>1. \A k \in first .. med : SumOf(a, k, med) \in INT_MIN .. INT_MAX
    <3>1. \A k \in first .. med : k \in 1 .. N /\ med \in k .. N
      BY <1>1
    <3> QED BY <3>1 DEF Fits
  <2>2. LeftSums(a, first, med) \in SUBSET (INT_MIN .. INT_MAX) /\ LeftSums(a, first, med) # {}
    <3>1. med \in first .. med
      BY <1>1
    <3> QED BY <2>1, <3>1 DEF LeftSums
  <2>3. l \in LeftSums(a, first, med) /\ \A m \in LeftSums(a, first, med) : m <= l
    BY <1>2, <2>2, MostExists
  <2> QED BY <2>2, <2>3 DEF LeftSums
<1>5. r \in INT_MIN .. INT_MAX /\ (\A k \in med + 1 .. last : SumOf(a, med + 1, k) <= r)
      /\ \E k \in med + 1 .. last : r = SumOf(a, med + 1, k)
  <2>1. \A k \in med + 1 .. last : SumOf(a, med + 1, k) \in INT_MIN .. INT_MAX
    <3>1. \A k \in med + 1 .. last : med + 1 \in 1 .. N /\ k \in med + 1 .. N
      BY <1>1
    <3> QED BY <3>1 DEF Fits
  <2>2. RightSums(a, med, last) \in SUBSET (INT_MIN .. INT_MAX) /\ RightSums(a, med, last) # {}
    <3>1. last \in med + 1 .. last
      BY <1>1
    <3> QED BY <2>1, <3>1 DEF RightSums
  <2>3. r \in RightSums(a, med, last) /\ \A m \in RightSums(a, med, last) : m <= r
    BY <1>3, <2>2, MostExists
  <2> QED BY <2>2, <2>3 DEF RightSums
<1>6. INT_MIN \in Int /\ INT_MAX \in Int
  BY IntRange
<1>7. l \in Int /\ r \in Int /\ l + r \in Int
  BY <1>4, <1>5, <1>6
<1>8. PICK k1 \in first .. med : l = SumOf(a, k1, med)
  BY <1>4
<1>9. PICK k2 \in med + 1 .. last : r = SumOf(a, med + 1, k2)
  BY <1>5
<1>10. l + r = SumOf(a, k1, k2)
  <2>1. k1 \in 1 .. N /\ k2 \in 1 .. N /\ k1 <= med /\ med < k2
    BY <1>1
  <2> QED BY <1>1, <1>8, <1>9, <2>1, SumOfIs
<1>11. PICK m : m = most({l + r, l, r})
  OBVIOUS
<1>12. m \in {l + r, l, r} /\ l + r <= m /\ l <= m /\ r <= m /\ m \in Int
  <2>1. PICK x \in {l + r, l, r} : l + r <= x /\ l <= x /\ r <= x
    BY <1>7
  <2>2. m = x
    BY <1>7, <1>11, <2>1, MostIs
  <2> QED BY <1>7, <2>1, <2>2
<1>13. m = mid_sub(a, first, med, last)
  BY <1>2, <1>3, <1>11 DEF mid_sub, max_three
<1>14. PICK best : best = BestSum(a, first, last)
  OBVIOUS
<1>15. best \in Int /\ (\A u \in first .. last : \A v \in u .. last : SumOf(a, u, v) <= best) /\ INT_MIN <= best
      /\ \E u \in first .. last : \E v \in u .. last : best = SumOf(a, u, v)
  <2>1. best \in INT_MIN .. INT_MAX
    BY <1>1, <1>14, BestIs
  <2>2. best \in Int /\ INT_MIN <= best
    BY <1>6, <2>1
  <2> QED BY <1>1, <1>14, <2>2, BestIs
<1>16. m <= best
  <2>1. /\ k1 \in first .. last /\ med \in k1 .. last /\ k2 \in k1 .. last
        /\ med + 1 \in first .. last /\ k2 \in med + 1 .. last
    BY <1>1
  <2>2. l <= best /\ r <= best /\ l + r <= best
    BY <1>8, <1>9, <1>10, <1>15, <2>1
  <2> QED BY <1>12, <2>2
<1>17. PICK L : L = BestSum(a, first, med - 1)
  OBVIOUS
<1>18. PICK R : R = BestSum(a, med + 1, last)
  OBVIOUS
<1>19. L \in Int /\ L <= best
  <2>1. L \in INT_MIN .. INT_MAX
    BY <1>1, <1>17, BestIs
  <2>2. CASE first > med - 1
    BY <1>1, <1>6, <1>15, <1>17, <2>1, <2>2, BestIs
  <2>3. CASE ~(first > med - 1)
    <3>1. PICK u \in first .. med - 1 : \E v \in u .. med - 1 : L = SumOf(a, u, v)
      BY <1>1, <1>17, <2>3, BestIs
    <3>2. PICK v \in u .. med - 1 : L = SumOf(a, u, v)
      BY <3>1
    <3>3. u \in first .. last /\ v \in u .. last
      BY <1>1
    <3> QED BY <1>6, <1>15, <2>1, <3>2, <3>3
  <2> QED BY <2>2, <2>3
<1>20. R \in Int /\ R <= best
  <2>1. R \in INT_MIN .. INT_MAX
    BY <1>1, <1>18, BestIs
  <2>2. med + 1 <= last
    BY <1>1
  <2>3. PICK u \in med + 1 .. last : \E v \in u .. last : R = SumOf(a, u, v)
    BY <1>1, <1>18, <2>2, BestIs
  <2>4. PICK v \in u .. last : R = SumOf(a, u, v)
    BY <2>3
  <2>5. u \in first .. last /\ v \in u .. last
    BY <1>1
  <2> QED BY <1>6, <1>15, <2>1, <2>4, <2>5
<1>21. best <= L \/ best <= R \/ best <= m
  <2>1. PICK u \in first .. last : \E v \in u .. last : best = SumOf(a, u, v)
    BY <1>15
  <2>2. PICK v \in u .. last : best = SumOf(a, u, v)
    BY <2>1
  <2>3. u \in 1 .. N /\ v \in 1 .. N /\ u \in Int /\ v \in Int /\ med \in Int /\ u <= v
    BY <1>1
  <2>4. CASE v < med
    <3>1. u \in first .. med - 1 /\ v \in u .. med - 1
      BY <1>1, <2>3, <2>4
    <3> QED BY <1>1, <1>17, <2>2, <3>1, BestIs
  <2>5. CASE u > med
    <3>1. u \in med + 1 .. last /\ v \in u .. last
      BY <1>1, <2>3, <2>5
    <3> QED BY <1>1, <1>18, <2>2, <3>1, BestIs
  <2>6. CASE u <= med /\ v = med
    <3>1. u \in first .. med
      BY <1>1, <2>3, <2>6
    <3>2. best <= l
      BY <1>4, <2>2, <2>6, <3>1
    <3> QED BY <1>7, <1>12, <1>15, <3>2
  <2>7. CASE u <= med /\ v > med
    <3>1. u \in first .. med /\ v \in med + 1 .. last /\ med < v
      BY <1>1, <2>3, <2>7
    <3>2. best = SumOf(a, u, med) + SumOf(a, med + 1, v)
      BY <1>1, <2>2, <2>3, <2>7, <3>1, SumOfIs
    <3>3. SumOf(a, u, med) <= l /\ SumOf(a, med + 1, v) <= r
      BY <1>4, <1>5, <3>1
    <3>4. SumOf(a, u, med) \in Int /\ SumOf(a, med + 1, v) \in Int
      <4>1. med \in u .. N /\ med + 1 \in 1 .. N /\ v \in med + 1 .. N
        BY <1>1, <2>3, <3>1
      <4> QED BY <2>3, <4>1, SumOfIs
    <3>5. best <= l + r
      BY <1>7, <3>2, <3>3, <3>4
    <3> QED BY <1>7, <1>12, <1>15, <3>5
  <2> QED BY <2>3, <2>4, <2>5, <2>6, <2>7
<1>22. best \in {L, R, m} /\ \A x \in {L, R, m} : x <= best
  BY <1>12, <1>15, <1>16, <1>19, <1>20, <1>21
<1>23. most({L, R, m}) = best
  BY <1>12, <1>19, <1>20, <1>22, MostIs
<1> QED BY <1>13, <1>14, <1>17, <1>18, <1>23

LEMMA PairIs ==
    ASSUME NEW N \in Nat, NEW x \in 1 .. N + 1, NEW y \in 0 .. N
    PROVE  \E pair \in (1 .. N + 1) \X (0 .. N) : pair = <<x, y>> /\ pair[1] = x /\ pair[2] = y
<1>1. <<x, y>> \in (1 .. N + 1) \X (0 .. N) /\ <<x, y>>[1] = x /\ <<x, y>>[2] = y
  OBVIOUS
<1> QED BY <1>1

LEMMA MaxSubIs ==
    ASSUME NEW N \in Nat, NEW a \in [1 .. N -> Int], Fits(a, N)
    PROVE  \A pair \in (1 .. N + 1) \X (0 .. N) : max_sub(a)[pair] = BestSum(a, pair[1], pair[2])
<1> DEFINE D == (1 .. N + 1) \X (0 .. N)
           Turned(b, pair) == LET first == pair[1]
                               last == pair[2]
                               med == (first + last - 2) \div 2 + 1
                           IN  IF first > last THEN INT_MIN
                               ELSE IF first = last THEN a[first]
                               ELSE most({b[<<first, med - 1>>], b[<<med + 1, last>>], mid_sub(a, first, med, last)})
           Def(b) == [pair \in D |-> Turned(b, pair)]
           f == CHOOSE b : b = Def(b)
<1>0. /\ \A k \in 1 .. N : SumOf(a, k, k) = a[k]
      /\ \A h \in 1 .. N + 1 : \A t \in 0 .. N : \E q \in D : q = <<h, t>> /\ q[1] = h /\ q[2] = t
      /\ \A h \in 1 .. N + 1 : \A t \in 0 .. N : h <= t =>
            \E u \in h .. t : \E v \in u .. t : BestSum(a, h, t) = SumOf(a, u, v)
  <2>1. \A k \in 1 .. N : SumOf(a, k, k) = a[k]
    BY SumOfIs
  <2>2. \A h \in 1 .. N + 1 : \A t \in 0 .. N : \E q \in D : q = <<h, t>> /\ q[1] = h /\ q[2] = t
    BY PairIs
  <2>3. \A h \in 1 .. N + 1 : \A t \in 0 .. N : h <= t =>
            \E u \in h .. t : \E v \in u .. t : BestSum(a, h, t) = SumOf(a, u, v)
    BY BestIs
  <2> QED BY <2>1, <2>2, <2>3
<1>1. ASSUME NEW b, NEW pair \in D,
             \A q \in D : q[2] - q[1] < pair[2] - pair[1] => b[q] = BestSum(a, q[1], q[2])
      PROVE  Turned(b, pair) = BestSum(a, pair[1], pair[2])
  <2>1. PICK first \in 1 .. N + 1 : first = pair[1]
    OBVIOUS
  <2>2. PICK last \in 0 .. N : last = pair[2]
    OBVIOUS
  <2>3. PICK med \in Int : med = (first + last - 2) \div 2 + 1
    OBVIOUS
  <2>4. Turned(b, pair) = IF first > last THEN INT_MIN
                       ELSE IF first = last THEN a[first]
                       ELSE most({b[<<first, med - 1>>], b[<<med + 1, last>>], mid_sub(a, first, med, last)})
    BY <2>1, <2>2, <2>3
  <2> HIDE DEF Turned
  <2>5. CASE first > last
    BY <2>1, <2>2, <2>4, <2>5 DEF BestSum
  <2>6. CASE first = last
    <3>1. first \in 1 .. N /\ ~(first > last)
      BY <2>6
    <3>2. SumOf(a, first, first) = a[first]
      BY <1>0, <3>1
    <3>3. PICK u \in first .. last : \E v \in u .. last : BestSum(a, first, last) = SumOf(a, u, v)
      <4>1. first <= last
        BY <2>6
      <4> QED BY <1>0, <4>1
    <3>4. PICK v \in u .. last : BestSum(a, first, last) = SumOf(a, u, v)
      BY <3>3
    <3>5. u = first /\ v = first
      BY <2>6, <3>1
    <3> QED BY <2>1, <2>2, <2>4, <2>6, <3>1, <3>2, <3>4, <3>5
  <2>7. CASE first < last
    <3>1. first \in 1 .. N /\ last \in 1 .. N /\ ~(first > last) /\ first # last
      BY <2>7
    <3>2. med \in first .. last - 1
      BY <2>3, <2>7, <3>1
    <3>3. med - 1 \in 0 .. N /\ med + 1 \in 1 .. N + 1 /\ med - 1 - first < last - first /\ last - (med + 1) < last - first
      BY <3>1, <3>2
    <3>4. PICK q1 \in D : q1 = <<first, med - 1>> /\ q1[1] = first /\ q1[2] = med - 1
      <4>1. PICK y \in 0 .. N : y = med - 1
        BY <3>3
      <4>2. \E q \in D : q = <<first, y>> /\ q[1] = first /\ q[2] = y
        <5> HIDE DEF D
        <5> QED BY <1>0
      <4> QED BY <4>1, <4>2
    <3>5. PICK q2 \in D : q2 = <<med + 1, last>> /\ q2[1] = med + 1 /\ q2[2] = last
      <4>1. PICK x \in 1 .. N + 1 : x = med + 1
        BY <3>3
      <4>2. \E q \in D : q = <<x, last>> /\ q[1] = x /\ q[2] = last
        <5> HIDE DEF D
        <5> QED BY <1>0
      <4> QED BY <4>1, <4>2
    <3>6. b[q1] = BestSum(a, first, med - 1) /\ b[q2] = BestSum(a, med + 1, last)
      BY <1>1, <2>1, <2>2, <3>3, <3>4, <3>5
    <3>7. most({b[q1], b[q2], mid_sub(a, first, med, last)}) = BestSum(a, first, last)
      BY <3>1, <3>2, <3>6, Middle
    <3> QED BY <2>1, <2>2, <2>4, <3>1, <3>4, <3>5, <3>7
  <2> QED BY <2>5, <2>6, <2>7
<1>2. max_sub(a) = f
  <2>1. Len(a) = N
    OBVIOUS
  <2> QED BY <2>1 DEF max_sub
<1>3. f = Def(f)
  <2>1. PICK b : b = [pair \in D |-> BestSum(a, pair[1], pair[2])]
    OBVIOUS
  <2>2. \A q \in D : b[q] = BestSum(a, q[1], q[2])
    BY <2>1
  <2>3. \A pair \in D : Turned(b, pair) = b[pair]
    <3> HIDE DEF D, Turned
    <3> QED BY <1>1, <2>2
  <2>4. b = Def(b)
    <3> HIDE DEF D, Turned
    <3> QED BY <2>1, <2>2, <2>3
  <2> HIDE DEF Def
  <2> QED BY <2>4
<1>4. \A pair \in D : f[pair] = Turned(f, pair)
  <2>1. \A pair \in D : Def(f)[pair] = Turned(f, pair)
    <3> HIDE DEF f, Turned, D
    <3> QED OBVIOUS
  <2> HIDE DEF f, Turned, D, Def
  <2> QED BY <1>3, <2>1
<1> HIDE DEF f, Turned, Def
<1> DEFINE Wrong == {n \in Nat : \E pair \in D : f[pair] # BestSum(a, pair[1], pair[2]) /\ n = pair[2] - pair[1] + N + 1}
<1>5. \A pair \in D : pair[2] - pair[1] + N + 1 \in Nat /\ pair[1] \in Int /\ pair[2] \in Int
  OBVIOUS
<1>6. Wrong = {}
  <2> SUFFICES ASSUME Wrong # {}  PROVE FALSE
    OBVIOUS
  <2>1. PICK n \in Wrong : \A m \in Wrong : n <= m
    <3>1. Wrong \in SUBSET Nat
      OBVIOUS
    <3> HIDE DEF Wrong
    <3> QED BY <3>1, LeastNumber
  <2>2. PICK pair \in D : f[pair] # BestSum(a, pair[1], pair[2]) /\ n = pair[2] - pair[1] + N + 1
    OBVIOUS
  <2>3. ASSUME NEW q \in D, q[2] - q[1] < pair[2] - pair[1]  PROVE f[q] = BestSum(a, q[1], q[2])
    <3>1. PICK m \in Nat : m = q[2] - q[1] + N + 1
      BY <1>5
    <3>2. ~(n <= m)
      <4> HIDE DEF Wrong
      <4>1. pair[2] - pair[1] \in Int /\ q[2] - q[1] \in Int
        <5>1. pair[2] \in Int /\ pair[1] \in Int /\ q[2] \in Int /\ q[1] \in Int
          <6> HIDE DEF D
          <6> QED BY <1>5
        <5> QED BY <5>1
      <4>2. PICK d \in Int : d = pair[2] - pair[1]
        BY <4>1
      <4>3. PICK e \in Int : e = q[2] - q[1]
        BY <4>1
      <4>4. e < d /\ n = d + N + 1 /\ m = e + N + 1
        BY <2>2, <2>3, <3>1, <4>2, <4>3
      <4> QED BY <4>4
    <3>3. m \notin Wrong
      <4> HIDE DEF Wrong
      <4> QED BY <2>1, <3>2
    <3> QED BY <3>1, <3>3
  <2> HIDE DEF D
  <2> QED BY <1>1, <1>4, <2>2, <2>3
<1> QED BY <1>2, <1>5, <1>6

\* What the call returns is the best sum of neighbours of the whole array, for
\* arrays of any length of any numbers whose sums an int holds (max_sub.c:37-55).
THEOREM BestFound == MaxSubSpec => []MaxSubInv
<1> DEFINE Inv == array \in Arrays /\ MaxSubInv
<1>1. MaxSubInit => Inv
  BY DEF MaxSubInit, MaxSubInv
<1>2. Inv /\ [MaxSub]_algVars => Inv'
  <2> SUFFICES ASSUME Inv, [MaxSub]_algVars  PROVE Inv'
    OBVIOUS
  <2>1. CASE MaxSub
    <3>1. PICK N \in Nat : N >= 1 /\ array \in [1 .. N -> Int]
      <4>1. PICK k \in 1 .. MaxArray : array \in [1 .. k -> Numbers]
        BY DEF Arrays
      <4>2. MaxArray \in Nat /\ Numbers \subseteq Int
        BY ArrayAssumption
      <4>3. k \in Nat /\ k >= 1
        BY <4>2
      <4>4. array \in [1 .. k -> Int]
        BY <4>1, <4>2
      <4> QED BY <4>3, <4>4
    <3>2. Len(array) = N /\ DOMAIN array = 1 .. N /\ 1 \in 1 .. N + 1 /\ N \in 0 .. N /\ N \in Nat /\ 1 <= N
      BY <3>1
    <3>3. Fits(array, N)
      BY <3>2, ArrayAssumption DEF Fits
    <3>4. PICK pair \in (1 .. N + 1) \X (0 .. N) : pair = <<1, N>> /\ pair[1] = 1 /\ pair[2] = N
      <4>1. PICK x \in 1 .. N + 1 : x = 1
        BY <3>2
      <4>2. PICK y \in 0 .. N : y = N
        BY <3>2
      <4>3. \E pair \in (1 .. N + 1) \X (0 .. N) : pair = <<x, y>> /\ pair[1] = x /\ pair[2] = y
        BY PairIs
      <4> QED BY <4>1, <4>2, <4>3
    <3>5. max_sub(array)[pair] = BestSum(array, 1, N)
      BY <3>1, <3>2, <3>3, <3>4, MaxSubIs
    <3>6. answer' = <<BestSum(array, 1, N)>> /\ array' = array
      BY <2>1, <3>2, <3>4, <3>5 DEF MaxSub
    <3>7. BestSum(array, 1, N) = most(UNION {{SumOf(array, a, b) : b \in a .. Len(array)} : a \in DOMAIN array})
      <4>1. ~(1 > N)
        BY <3>2
      <4> QED BY <3>2, <4>1 DEF BestSum, SumsWithin
    <3> QED BY <3>6, <3>7 DEF MaxSubInv
  <2>2. CASE UNCHANGED algVars
    BY <2>2 DEF MaxSubInv, algVars
  <2> QED BY <2>1, <2>2
<1> QED BY <1>1, <1>2, PTL DEF MaxSubSpec

-----------------------------------------------------------------------------
(***************************************************************************)
(* The automata.                                                           *)
(***************************************************************************)
\* What a turn's tests make of the state, one after the other.
Tested(f, tests, c, n) ==
    /\ f[0] = state /\ f[n] = Turn(tests, c)
    /\ \A k \in 1 .. n : f[k] = IF f[k - 1] = tests[k].from /\ c = tests[k].on
                                THEN tests[k].to ELSE f[k - 1]

LEMMA TurnIs ==
    ASSUME NEW tests, NEW n \in Nat, Len(tests) = n, NEW c
    PROVE  \E f : Tested(f, tests, c, n)
<1> DEFINE S == {state} \cup {tests[k].to : k \in 1 .. n}
           Def(f) == [k \in 0 .. n |-> IF k = 0 THEN state
                                       ELSE IF f[k - 1] = tests[k].from /\ c = tests[k].on
                                            THEN tests[k].to ELSE f[k - 1]]
           s == CHOOSE f : f = Def(f)
<1>1. PICK go : go = [k \in 1 .. n |-> [q \in S |-> IF q = tests[k].from /\ c = tests[k].on
                                                      THEN tests[k].to ELSE q]]
  OBVIOUS
<1>2. \A k \in 1 .. n : \A q \in S :
         go[k][q] = (IF q = tests[k].from /\ c = tests[k].on THEN tests[k].to ELSE q) /\ go[k][q] \in S
  BY <1>1
<1>3. PICK f \in [0 .. n -> S] : Iterates(f, n, state, go)
  <2>1. state \in S
    OBVIOUS
  <2> HIDE DEF S
  <2> QED BY <1>2, <2>1, IterationExists
<1> HIDE DEF S
<1>4. \A k \in 1 .. n : f[k] = IF f[k - 1] = tests[k].from /\ c = tests[k].on THEN tests[k].to ELSE f[k - 1]
  <2>1. ASSUME NEW k \in 1 .. n
        PROVE  f[k] = IF f[k - 1] = tests[k].from /\ c = tests[k].on THEN tests[k].to ELSE f[k - 1]
    <3>1. k - 1 \in 0 .. n
      OBVIOUS
    <3>2. f[k - 1] \in S
      BY <3>1
    <3> QED BY <1>2, <1>3, <3>2 DEF Iterates
  <2> QED BY <2>1
<1>5. f = Def(f)
  BY <1>3, <1>4 DEF Iterates
<1>6. s = Def(s)
  <2>1. \E g : g = Def(g)
    BY <1>5
  <2> HIDE DEF Def
  <2> QED BY <2>1
<1>7. Turn(tests, c) = s[n]
  BY DEF Turn
<1>8. s[0] = state
  <2>1. Def(s)[0] = state
    OBVIOUS
  <2> HIDE DEF Def, s
  <2> QED BY <1>6, <2>1
<1>9. \A k \in 1 .. n : s[k] = IF s[k - 1] = tests[k].from /\ c = tests[k].on THEN tests[k].to ELSE s[k - 1]
  <2>1. \A k \in 1 .. n : Def(s)[k] = IF s[k - 1] = tests[k].from /\ c = tests[k].on
                                      THEN tests[k].to ELSE s[k - 1]
    OBVIOUS
  <2> HIDE DEF Def, s
  <2> QED BY <1>6, <2>1
<1> HIDE DEF s
<1> QED BY <1>7, <1>8, <1>9 DEF Tested

LEMMA ExampleTurn ==
    ASSUME NEW c, state \in {"a", "b", "c", "d"}
    PROVE  Turn(example, c) = CASE c = "a" -> "b"
                                [] c = "b" /\ state = "b" -> "c"
                                [] c = "c" /\ state = "b" -> "d"
                                [] OTHER -> state
<1>1. Len(example) = 5 /\ 5 \in Nat
  BY DEF example
<1>2. PICK f : Tested(f, example, c, 5)
  BY <1>1, TurnIs
<1>3. /\ example[1].from = "a" /\ example[1].on = "a" /\ example[1].to = "b"
      /\ example[2].from = "b" /\ example[2].on = "b" /\ example[2].to = "c"
      /\ example[3].from = "b" /\ example[3].on = "c" /\ example[3].to = "d"
      /\ example[4].from = "c" /\ example[4].on = "a" /\ example[4].to = "b"
      /\ example[5].from = "d" /\ example[5].on = "a" /\ example[5].to = "b"
  BY DEF example, Arrow
<1>4. /\ f[1] = IF state = "a" /\ c = "a" THEN "b" ELSE state
      /\ f[2] = IF f[1] = "b" /\ c = "b" THEN "c" ELSE f[1]
      /\ f[3] = IF f[2] = "b" /\ c = "c" THEN "d" ELSE f[2]
      /\ f[4] = IF f[3] = "c" /\ c = "a" THEN "b" ELSE f[3]
      /\ f[5] = IF f[4] = "d" /\ c = "a" THEN "b" ELSE f[4]
  <2>1. /\ 1 \in 1 .. 5 /\ 2 \in 1 .. 5 /\ 3 \in 1 .. 5 /\ 4 \in 1 .. 5 /\ 5 \in 1 .. 5
        /\ 1 - 1 = 0 /\ 2 - 1 = 1 /\ 3 - 1 = 2 /\ 4 - 1 = 3 /\ 5 - 1 = 4
    OBVIOUS
  <2>2. /\ f[1] = IF f[0] = example[1].from /\ c = example[1].on THEN example[1].to ELSE f[0]
        /\ f[2] = IF f[1] = example[2].from /\ c = example[2].on THEN example[2].to ELSE f[1]
        /\ f[3] = IF f[2] = example[3].from /\ c = example[3].on THEN example[3].to ELSE f[2]
        /\ f[4] = IF f[3] = example[4].from /\ c = example[4].on THEN example[4].to ELSE f[3]
        /\ f[5] = IF f[4] = example[5].from /\ c = example[5].on THEN example[5].to ELSE f[4]
    BY <1>2, <2>1 DEF Tested
  <2>3. f[0] = state
    BY <1>2 DEF Tested
  <2> QED BY <1>3, <2>2, <2>3
<1>5. CASE c = "a"
  BY <1>2, <1>4, <1>5 DEF Tested
<1>6. CASE c = "b"
  BY <1>2, <1>4, <1>6 DEF Tested
<1>7. CASE c = "c"
  BY <1>2, <1>4, <1>7 DEF Tested
<1>8. CASE c \notin {"a", "b", "c"}
  BY <1>2, <1>4, <1>8 DEF Tested
<1> QED BY <1>5, <1>6, <1>7, <1>8

LEMMA Example2Turn ==
    ASSUME NEW c, state \in {"before", "s0", "s1", "s2"}
    PROVE  Turn(example2, c) = CASE c = "sp" /\ state = "before" -> "s0"
                                 [] c = "r" /\ state = "s0" -> "s1"
                                 [] c = "0" /\ state = "s1" -> "s2"
                                 [] OTHER -> state
<1>1. Len(example2) = 3 /\ 3 \in Nat
  BY DEF example2
<1>2. PICK f : Tested(f, example2, c, 3)
  BY <1>1, TurnIs
<1>3. /\ example2[1].from = "before" /\ example2[1].on = "sp" /\ example2[1].to = "s0"
      /\ example2[2].from = "s0" /\ example2[2].on = "r" /\ example2[2].to = "s1"
      /\ example2[3].from = "s1" /\ example2[3].on = "0" /\ example2[3].to = "s2"
  BY DEF example2, Arrow
<1>4. /\ f[1] = IF state = "before" /\ c = "sp" THEN "s0" ELSE state
      /\ f[2] = IF f[1] = "s0" /\ c = "r" THEN "s1" ELSE f[1]
      /\ f[3] = IF f[2] = "s1" /\ c = "0" THEN "s2" ELSE f[2]
  <2>1. 1 \in 1 .. 3 /\ 2 \in 1 .. 3 /\ 3 \in 1 .. 3 /\ 1 - 1 = 0 /\ 2 - 1 = 1 /\ 3 - 1 = 2
    OBVIOUS
  <2>2. /\ f[1] = IF f[0] = example2[1].from /\ c = example2[1].on THEN example2[1].to ELSE f[0]
        /\ f[2] = IF f[1] = example2[2].from /\ c = example2[2].on THEN example2[2].to ELSE f[1]
        /\ f[3] = IF f[2] = example2[3].from /\ c = example2[3].on THEN example2[3].to ELSE f[2]
    BY <1>2, <2>1 DEF Tested
  <2>3. f[0] = state
    BY <1>2 DEF Tested
  <2> QED BY <1>3, <2>2, <2>3
<1>5. CASE c = "sp"
  BY <1>2, <1>4, <1>5 DEF Tested
<1>6. CASE c = "r"
  BY <1>2, <1>4, <1>6 DEF Tested
<1>7. CASE c = "0"
  BY <1>2, <1>4, <1>7 DEF Tested
<1>8. CASE c \notin {"sp", "r", "0"}
  BY <1>2, <1>4, <1>8 DEF Tested
<1> QED BY <1>5, <1>6, <1>7, <1>8

Chars == {"a", "b", "c", "sp", "r", "0", "\n"}

LEMMA CharAppended ==
    ASSUME NEW t \in Seq(Chars), NEW c \in Chars
    PROVE  /\ Append(t, c) \in Seq(Chars) /\ Len(Append(t, c)) = Len(t) + 1 /\ Len(t) \in Nat
           /\ DOMAIN t = 1 .. Len(t) /\ DOMAIN Append(t, c) = 1 .. Len(t) + 1
           /\ Append(t, c)[Len(t) + 1] = c /\ \A k \in 1 .. Len(t) : Append(t, c)[k] = t[k]
           /\ \A k \in 1 .. Len(t) + 1 : k \in 1 .. Len(t) \/ k = Len(t) + 1
           /\ \A k \in 1 .. Len(t) : k \in 1 .. Len(t) + 1 /\ k < Len(t) + 1
OBVIOUS

\* Whether one, two and three characters have come.
One(t, u) == \E h \in 1 .. Len(t) : t[h] = u
Two(t, u, v) == \E h, k \in 1 .. Len(t) : h < k /\ t[h] = u /\ t[k] = v
Three(t, u, v, w) == \E h, k, l \in 1 .. Len(t) : h < k /\ k < l /\ t[h] = u /\ t[k] = v /\ t[l] = w

LEMMA CameIs ==
    ASSUME NEW t \in Seq(Chars), NEW u, NEW v, NEW w
    PROVE  /\ Came(t, <<u>>) <=> One(t, u)
           /\ Came(t, <<u, v>>) <=> Two(t, u, v)
           /\ Came(t, <<u, v, w>>) <=> Three(t, u, v, w)
<1>1. DOMAIN t = 1 .. Len(t) /\ Len(t) \in Nat
  OBVIOUS
<1>2. /\ DOMAIN <<u>> = 1 .. 1 /\ <<u>>[1] = u
      /\ DOMAIN <<u, v>> = 1 .. 2 /\ <<u, v>>[1] = u /\ <<u, v>>[2] = v
      /\ DOMAIN <<u, v, w>> = 1 .. 3 /\ <<u, v, w>>[1] = u /\ <<u, v, w>>[2] = v /\ <<u, v, w>>[3] = w
  OBVIOUS
<1>3. Came(t, <<u>>) <=> \E h \in 1 .. Len(t) : t[h] = u
  <2>1. ASSUME Came(t, <<u>>)  PROVE \E h \in 1 .. Len(t) : t[h] = u
    <3>1. PICK f \in [1 .. 1 -> 1 .. Len(t)] : \A k \in 1 .. 1 : t[f[k]] = <<u>>[k]
      BY <1>1, <1>2, <2>1 DEF Came
    <3>2. 1 \in 1 .. 1
      OBVIOUS
    <3>3. f[1] \in 1 .. Len(t) /\ t[f[1]] = u
      BY <1>2, <3>1, <3>2
    <3> QED BY <3>3
  <2>2. ASSUME NEW h \in 1 .. Len(t), t[h] = u  PROVE Came(t, <<u>>)
    <3>1. PICK f : f = [k \in 1 .. 1 |-> h]
      OBVIOUS
    <3>2. f \in [1 .. 1 -> 1 .. Len(t)] /\ \A k \in 1 .. 1 : k = 1 /\ ~(k > 1) /\ f[k] = h
      BY <3>1
    <3> QED BY <1>1, <1>2, <2>2, <3>2 DEF Came
  <2> QED BY <2>1, <2>2
<1>4. Came(t, <<u, v>>) <=> \E h, k \in 1 .. Len(t) : h < k /\ t[h] = u /\ t[k] = v
  <2>1. ASSUME Came(t, <<u, v>>)  PROVE \E h, k \in 1 .. Len(t) : h < k /\ t[h] = u /\ t[k] = v
    <3>1. PICK f \in [1 .. 2 -> 1 .. Len(t)] : \A k \in 1 .. 2 : t[f[k]] = <<u, v>>[k] /\ (k > 1 => f[k - 1] < f[k])
      BY <1>1, <1>2, <2>1 DEF Came
    <3>2. 1 \in 1 .. 2 /\ 2 \in 1 .. 2 /\ 2 > 1 /\ 2 - 1 = 1
      OBVIOUS
    <3>3. f[1] \in 1 .. Len(t) /\ f[2] \in 1 .. Len(t) /\ t[f[1]] = u /\ t[f[2]] = v /\ f[1] < f[2]
      BY <1>2, <3>1, <3>2
    <3> QED BY <3>3
  <2>2. ASSUME NEW h \in 1 .. Len(t), NEW k \in 1 .. Len(t), h < k, t[h] = u, t[k] = v  PROVE Came(t, <<u, v>>)
    <3>1. PICK f : f = [m \in 1 .. 2 |-> IF m = 1 THEN h ELSE k]
      OBVIOUS
    <3>2. f \in [1 .. 2 -> 1 .. Len(t)] /\ f[1] = h /\ f[2] = k
      BY <3>1
    <3>3. \A m \in 1 .. 2 : t[f[m]] = <<u, v>>[m] /\ (m > 1 => f[m - 1] < f[m])
      <4>1. \A m \in 1 .. 2 : (m = 1 /\ ~(m > 1)) \/ (m = 2 /\ m - 1 = 1)
        OBVIOUS
      <4> QED BY <1>2, <2>2, <3>2, <4>1
    <3> QED BY <1>1, <1>2, <3>2, <3>3 DEF Came
  <2> QED BY <2>1, <2>2
<1>5. Came(t, <<u, v, w>>) <=>
         \E h, k, l \in 1 .. Len(t) : h < k /\ k < l /\ t[h] = u /\ t[k] = v /\ t[l] = w
  <2>1. ASSUME Came(t, <<u, v, w>>)
        PROVE  \E h, k, l \in 1 .. Len(t) : h < k /\ k < l /\ t[h] = u /\ t[k] = v /\ t[l] = w
    <3>1. PICK f \in [1 .. 3 -> 1 .. Len(t)] :
             \A k \in 1 .. 3 : t[f[k]] = <<u, v, w>>[k] /\ (k > 1 => f[k - 1] < f[k])
      BY <1>1, <1>2, <2>1 DEF Came
    <3>2. 1 \in 1 .. 3 /\ 2 \in 1 .. 3 /\ 3 \in 1 .. 3 /\ 2 > 1 /\ 3 > 1 /\ 2 - 1 = 1 /\ 3 - 1 = 2
      OBVIOUS
    <3>3. /\ f[1] \in 1 .. Len(t) /\ f[2] \in 1 .. Len(t) /\ f[3] \in 1 .. Len(t)
          /\ t[f[1]] = u /\ t[f[2]] = v /\ t[f[3]] = w /\ f[1] < f[2] /\ f[2] < f[3]
      BY <1>2, <3>1, <3>2
    <3> QED BY <3>3
  <2>2. ASSUME NEW h \in 1 .. Len(t), NEW k \in 1 .. Len(t), NEW l \in 1 .. Len(t), h < k, k < l,
               t[h] = u, t[k] = v, t[l] = w
        PROVE  Came(t, <<u, v, w>>)
    <3>1. PICK f : f = [m \in 1 .. 3 |-> IF m = 1 THEN h ELSE IF m = 2 THEN k ELSE l]
      OBVIOUS
    <3>2. f \in [1 .. 3 -> 1 .. Len(t)] /\ f[1] = h /\ f[2] = k /\ f[3] = l
      BY <3>1
    <3>3. \A m \in 1 .. 3 : t[f[m]] = <<u, v, w>>[m] /\ (m > 1 => f[m - 1] < f[m])
      <4>1. \A m \in 1 .. 3 : (m = 1 /\ ~(m > 1)) \/ (m = 2 /\ m - 1 = 1) \/ (m = 3 /\ m - 1 = 2)
        OBVIOUS
      <4> QED BY <1>2, <2>2, <3>2, <4>1
    <3> QED BY <1>1, <1>2, <3>2, <3>3 DEF Came
  <2> QED BY <2>1, <2>2
<1> QED BY <1>3, <1>4, <1>5 DEF One, Two, Three

LEMMA CameMore ==
    ASSUME NEW t \in Seq(Chars), NEW c \in Chars, NEW u, NEW v, NEW w
    PROVE  /\ Came(Append(t, c), <<u>>) <=> Came(t, <<u>>) \/ c = u
           /\ Came(Append(t, c), <<u, v>>) <=> Came(t, <<u, v>>) \/ (Came(t, <<u>>) /\ c = v)
           /\ Came(Append(t, c), <<u, v, w>>) <=> Came(t, <<u, v, w>>) \/ (Came(t, <<u, v>>) /\ c = w)
<1>1. PICK e \in Seq(Chars) : e = Append(t, c)
  BY CharAppended
<1>2. /\ Len(e) = Len(t) + 1 /\ Len(t) \in Nat /\ e[Len(t) + 1] = c /\ (\A k \in 1 .. Len(t) : e[k] = t[k])
      /\ (\A k \in 1 .. Len(e) : k \in 1 .. Len(t) \/ k = Len(t) + 1)
      /\ (\A k \in 1 .. Len(t) : k \in 1 .. Len(e) /\ k < Len(t) + 1) /\ Len(t) + 1 \in 1 .. Len(e)
      /\ \A k \in 1 .. Len(e) : ~(Len(t) + 1 < k)
  <2>1. Len(t) + 1 \in 1 .. Len(t) + 1 /\ \A k \in 1 .. Len(t) + 1 : ~(Len(t) + 1 < k)
    BY CharAppended
  <2> QED BY <1>1, <2>1, CharAppended
<1>3. /\ Came(t, <<u>>) <=> One(t, u)
      /\ Came(t, <<u, v>>) <=> Two(t, u, v)
      /\ Came(t, <<u, v, w>>) <=> Three(t, u, v, w)
  BY CameIs
<1>4. /\ Came(e, <<u>>) <=> One(e, u)
      /\ Came(e, <<u, v>>) <=> Two(e, u, v)
      /\ Came(e, <<u, v, w>>) <=> Three(e, u, v, w)
  BY CameIs
<1>5. (\E h \in 1 .. Len(e) : e[h] = u) <=> (\E h \in 1 .. Len(t) : t[h] = u) \/ c = u
  BY <1>2
<1>6. (\E h, k \in 1 .. Len(e) : h < k /\ e[h] = u /\ e[k] = v) <=>
         \/ \E h, k \in 1 .. Len(t) : h < k /\ t[h] = u /\ t[k] = v
         \/ (\E h \in 1 .. Len(t) : t[h] = u) /\ c = v
  <2>1. ASSUME NEW h \in 1 .. Len(e), NEW k \in 1 .. Len(e), h < k, e[h] = u, e[k] = v
        PROVE  \/ \E a, b \in 1 .. Len(t) : a < b /\ t[a] = u /\ t[b] = v
               \/ (\E a \in 1 .. Len(t) : t[a] = u) /\ c = v
    <3>1. h \in 1 .. Len(t) /\ t[h] = u
      BY <1>2, <2>1
    <3>2. CASE k = Len(t) + 1
      BY <1>2, <2>1, <3>1, <3>2
    <3>3. CASE k \in 1 .. Len(t)
      BY <1>2, <2>1, <3>1, <3>3
    <3> QED BY <1>2, <3>2, <3>3
  <2>2. ASSUME NEW h \in 1 .. Len(t), NEW k \in 1 .. Len(t), h < k, t[h] = u, t[k] = v
        PROVE  \E a, b \in 1 .. Len(e) : a < b /\ e[a] = u /\ e[b] = v
    BY <1>2, <2>2
  <2>3. ASSUME NEW h \in 1 .. Len(t), t[h] = u, c = v
        PROVE  \E a, b \in 1 .. Len(e) : a < b /\ e[a] = u /\ e[b] = v
    BY <1>2, <2>3
  <2> QED BY <2>1, <2>2, <2>3
<1>7. (\E h, k, l \in 1 .. Len(e) : h < k /\ k < l /\ e[h] = u /\ e[k] = v /\ e[l] = w) <=>
         \/ \E h, k, l \in 1 .. Len(t) : h < k /\ k < l /\ t[h] = u /\ t[k] = v /\ t[l] = w
         \/ (\E h, k \in 1 .. Len(t) : h < k /\ t[h] = u /\ t[k] = v) /\ c = w
  <2>1. ASSUME NEW h \in 1 .. Len(e), NEW k \in 1 .. Len(e), NEW l \in 1 .. Len(e), h < k, k < l,
               e[h] = u, e[k] = v, e[l] = w
        PROVE  \/ \E a, b, d \in 1 .. Len(t) : a < b /\ b < d /\ t[a] = u /\ t[b] = v /\ t[d] = w
               \/ (\E a, b \in 1 .. Len(t) : a < b /\ t[a] = u /\ t[b] = v) /\ c = w
    <3>1. k \in 1 .. Len(t) /\ t[k] = v
      BY <1>2, <2>1
    <3>2. h \in 1 .. Len(t) /\ t[h] = u
      BY <1>2, <2>1, <3>1
    <3>3. CASE l = Len(t) + 1
      BY <1>2, <2>1, <3>1, <3>2, <3>3
    <3>4. CASE l \in 1 .. Len(t)
      BY <1>2, <2>1, <3>1, <3>2, <3>4
    <3> QED BY <1>2, <3>3, <3>4
  <2>2. ASSUME NEW h \in 1 .. Len(t), NEW k \in 1 .. Len(t), NEW l \in 1 .. Len(t), h < k, k < l,
               t[h] = u, t[k] = v, t[l] = w
        PROVE  \E a, b, d \in 1 .. Len(e) : a < b /\ b < d /\ e[a] = u /\ e[b] = v /\ e[d] = w
    BY <1>2, <2>2
  <2>3. ASSUME NEW h \in 1 .. Len(t), NEW k \in 1 .. Len(t), h < k, t[h] = u, t[k] = v, c = w
        PROVE  \E a, b, d \in 1 .. Len(e) : a < b /\ b < d /\ e[a] = u /\ e[b] = v /\ e[d] = w
    BY <1>2, <2>3
  <2> QED BY <2>1, <2>2, <2>3
<1>8. /\ One(e, u) <=> One(t, u) \/ c = u
      /\ Two(e, u, v) <=> Two(t, u, v) \/ (One(t, u) /\ c = v)
      /\ Three(e, u, v, w) <=> Three(t, u, v, w) \/ (Two(t, u, v) /\ c = w)
  BY <1>5, <1>6, <1>7 DEF One, Two, Three
<1> QED BY <1>1, <1>3, <1>4, <1>8

\* The last "a" of t is not followed by a "b" or a "c".
OpenA(t) == \E h \in 1 .. Len(t) : t[h] = "a" /\ \A l \in h + 1 .. Len(t) : t[l] \notin {"a", "b", "c"}

LEMMA SinceMore ==
    ASSUME NEW t \in Seq(Chars), NEW c \in Chars, NEW u \in {"b", "c"}
    PROVE  /\ "a" \in ToSet(Append(t, c)) <=> "a" \in ToSet(t) \/ c = "a"
           /\ OpenA(Append(t, c)) <=> c = "a" \/ (OpenA(t) /\ c \notin {"b", "c"})
           /\ Since(Append(t, c), u) <=> c # "a" /\ (Since(t, u) \/ (OpenA(t) /\ c = u))
<1>1. PICK e \in Seq(Chars) : e = Append(t, c)
  BY CharAppended
<1>2. /\ Len(e) = Len(t) + 1 /\ Len(t) \in Nat /\ e[Len(t) + 1] = c /\ (\A k \in 1 .. Len(t) : e[k] = t[k])
      /\ (\A k \in 1 .. Len(e) : k \in 1 .. Len(t) \/ k = Len(t) + 1) /\ DOMAIN t = 1 .. Len(t) /\ DOMAIN e = 1 .. Len(e)
      /\ (\A k \in 1 .. Len(t) : k \in 1 .. Len(e) /\ k < Len(t) + 1) /\ Len(t) + 1 \in 1 .. Len(e)
      /\ \A k \in 1 .. Len(e) : ~(Len(t) + 1 < k)
  <2>1. Len(t) + 1 \in 1 .. Len(t) + 1 /\ \A k \in 1 .. Len(t) + 1 : ~(Len(t) + 1 < k)
    BY CharAppended
  <2> QED BY <1>1, <2>1, CharAppended
<1>3. \A h \in 1 .. Len(t) : \A l : /\ l \in h + 1 .. Len(e) => l \in h + 1 .. Len(t) \/ l = Len(t) + 1
                                    /\ l \in h + 1 .. Len(t) => l \in h + 1 .. Len(e) /\ l \in 1 .. Len(t)
                                    /\ Len(t) + 1 \in h + 1 .. Len(e)
  BY <1>2
<1>4. \A l : l \notin (Len(t) + 1) + 1 .. Len(e)
  BY <1>2
<1>5. "a" \in ToSet(e) <=> "a" \in ToSet(t) \/ c = "a"
  BY <1>2 DEF ToSet
<1>6. OpenA(e) <=> c = "a" \/ (OpenA(t) /\ c \notin {"b", "c"})
  <2>1. ASSUME OpenA(e), c # "a"  PROVE OpenA(t) /\ c \notin {"b", "c"}
    <3>1. PICK h \in 1 .. Len(e) : e[h] = "a" /\ \A l \in h + 1 .. Len(e) : e[l] \notin {"a", "b", "c"}
      BY <2>1 DEF OpenA
    <3>2. h \in 1 .. Len(t) /\ t[h] = "a"
      BY <1>2, <2>1, <3>1
    <3>3. \A l \in h + 1 .. Len(t) : t[l] \notin {"a", "b", "c"}
      BY <1>2, <1>3, <3>1, <3>2
    <3>4. e[Len(t) + 1] \notin {"a", "b", "c"}
      BY <1>3, <3>1, <3>2
    <3> QED BY <1>2, <3>2, <3>3, <3>4 DEF OpenA
  <2>2. ASSUME c = "a"  PROVE OpenA(e)
    BY <1>2, <1>4, <2>2 DEF OpenA
  <2>3. ASSUME OpenA(t), c \notin {"a", "b", "c"}  PROVE OpenA(e)
    <3>1. PICK h \in 1 .. Len(t) : t[h] = "a" /\ \A l \in h + 1 .. Len(t) : t[l] \notin {"a", "b", "c"}
      BY <2>3 DEF OpenA
    <3>2. h \in 1 .. Len(e) /\ e[h] = "a"
      BY <1>2, <3>1
    <3>3. \A l \in h + 1 .. Len(e) : e[l] \notin {"a", "b", "c"}
      BY <1>2, <1>3, <2>3, <3>1
    <3> QED BY <3>2, <3>3 DEF OpenA
  <2> QED BY <2>1, <2>2, <2>3
<1>7. Since(e, u) <=> c # "a" /\ (Since(t, u) \/ (OpenA(t) /\ c = u))
  <2>1. ASSUME Since(e, u)  PROVE c # "a" /\ (Since(t, u) \/ (OpenA(t) /\ c = u))
    <3>1. PICK h \in 1 .. Len(e), k \in 1 .. Len(e) :
             /\ e[h] = "a" /\ h < k /\ e[k] = u
             /\ \A l \in h + 1 .. Len(e) : e[l] # "a" /\ (l < k => e[l] \notin {"b", "c"})
      BY <1>2, <2>1 DEF Since
    <3>2. h \in 1 .. Len(t) /\ t[h] = "a"
      BY <1>2, <3>1
    <3>3. c # "a"
      BY <1>2, <1>3, <3>1, <3>2
    <3>4. CASE k = Len(t) + 1
      <4>1. \A l \in h + 1 .. Len(t) : t[l] \notin {"a", "b", "c"}
        <5>1. \A l \in h + 1 .. Len(t) : l \in h + 1 .. Len(e) /\ l < k /\ e[l] = t[l]
          BY <1>2, <1>3, <3>2, <3>4
        <5> QED BY <3>1, <5>1
      <4>2. OpenA(t)
        BY <3>2, <4>1 DEF OpenA
      <4> QED BY <1>2, <3>1, <3>3, <3>4, <4>2
    <3>5. CASE k \in 1 .. Len(t)
      <4>1. \A l \in h + 1 .. Len(t) : t[l] # "a" /\ (l < k => t[l] \notin {"b", "c"})
        <5>1. \A l \in h + 1 .. Len(t) : l \in h + 1 .. Len(e) /\ e[l] = t[l]
          BY <1>2, <1>3, <3>2
        <5> QED BY <3>1, <5>1
      <4>2. Since(t, u)
        BY <1>2, <3>1, <3>2, <3>5, <4>1 DEF Since
      <4> QED BY <3>3, <4>2
    <3> QED BY <1>2, <3>4, <3>5
  <2>2. ASSUME c # "a", Since(t, u)  PROVE Since(e, u)
    <3>1. PICK h \in 1 .. Len(t), k \in 1 .. Len(t) :
             /\ t[h] = "a" /\ h < k /\ t[k] = u
             /\ \A l \in h + 1 .. Len(t) : t[l] # "a" /\ (l < k => t[l] \notin {"b", "c"})
      BY <1>2, <2>2 DEF Since
    <3>2. \A l \in h + 1 .. Len(e) : e[l] # "a" /\ (l < k => e[l] \notin {"b", "c"})
      <4>1. ~(Len(t) + 1 < k)
        BY <1>2
      <4> QED BY <1>2, <1>3, <2>2, <3>1, <4>1
    <3> QED BY <1>2, <3>1, <3>2 DEF Since
  <2>3. ASSUME c # "a", OpenA(t), c = u  PROVE Since(e, u)
    <3>1. PICK h \in 1 .. Len(t) : t[h] = "a" /\ \A l \in h + 1 .. Len(t) : t[l] \notin {"a", "b", "c"}
      BY <2>3 DEF OpenA
    <3>2. \A l \in h + 1 .. Len(e) : e[l] # "a" /\ (l < Len(t) + 1 => e[l] \notin {"b", "c"})
      <4>1. ~(Len(t) + 1 < Len(t) + 1)
        BY <1>2
      <4> QED BY <1>2, <1>3, <2>3, <3>1, <4>1
    <3> QED BY <1>2, <2>3, <3>1, <3>2 DEF Since
  <2> QED BY <2>1, <2>2, <2>3
<1> QED BY <1>1, <1>5, <1>6, <1>7

\* How many of the "a" of "aab" the text ends with.
EndsA(t)  == Len(t) >= 1 /\ t[Len(t)] = "a"
EndsAa(t) == Len(t) >= 2 /\ t[Len(t)] = "a" /\ t[Len(t) - 1] = "a"

LEMMA AabMore ==
    ASSUME NEW t \in Seq(Chars), NEW c \in Chars
    PROVE  /\ HasAab(Append(t, c)) <=> HasAab(t) \/ (EndsAa(t) /\ c = "b")
           /\ EndsA(Append(t, c)) <=> c = "a"
           /\ EndsAa(Append(t, c)) <=> EndsA(t) /\ c = "a"
           /\ ToSet(Append(t, c)) = ToSet(t) \cup {c}
<1>1. PICK e \in Seq(Chars) : e = Append(t, c)
  BY CharAppended
<1>2. /\ Len(e) = Len(t) + 1 /\ Len(t) \in Nat /\ e[Len(t) + 1] = c /\ (\A k \in 1 .. Len(t) : e[k] = t[k])
      /\ (\A k \in 1 .. Len(e) : k \in 1 .. Len(t) \/ k = Len(t) + 1) /\ DOMAIN t = 1 .. Len(t) /\ DOMAIN e = 1 .. Len(e)
      /\ (\A k \in 1 .. Len(t) : k \in 1 .. Len(e)) /\ Len(t) + 1 \in 1 .. Len(e)
  <2>1. Len(t) + 1 \in 1 .. Len(t) + 1
    BY CharAppended
  <2> QED BY <1>1, <2>1, CharAppended
<1> DEFINE At(s, k) == s[k] = "a" /\ s[k + 1] = "a" /\ s[k + 2] = "b"
<1>3. ASSUME NEW s \in Seq(Chars)  PROVE HasAab(s) <=> \E k \in 1 .. Len(s) - 2 : At(s, k)
  <2>1. ASSUME NEW k \in 1 .. Len(s) - 2  PROVE SubSeq(s, k, k + 2) = <<"a", "a", "b">> <=> At(s, k)
    <3>1. PICK q : q = SubSeq(s, k, k + 2)
      OBVIOUS
    <3>2. k \in 1 .. Len(s) /\ k + 2 \in 1 .. Len(s) /\ k \in Nat /\ Len(s) \in Nat
      OBVIOUS
    <3>3. q = [i_1 \in 1 .. 3 |-> s[i_1 + k - 1]]
      <4>1. Len(q) = 3 /\ q \in Seq(Chars)
        BY <3>1, <3>2
      <4>2. \A m \in 1 .. 3 : q[m] = s[m + k - 1]
        BY <3>1, <3>2
      <4>3. q = [m \in 1 .. 3 |-> q[m]]
        BY <4>1
      <4> QED BY <4>2, <4>3
    <3>4. q[1] = s[k] /\ q[2] = s[k + 1] /\ q[3] = s[k + 2]
      <4>1. 1 \in 1 .. 3 /\ 2 \in 1 .. 3 /\ 3 \in 1 .. 3 /\ 1 + k - 1 = k /\ 2 + k - 1 = k + 1 /\ 3 + k - 1 = k + 2
        BY <3>2
      <4>2. q[1] = s[1 + k - 1] /\ q[2] = s[2 + k - 1] /\ q[3] = s[3 + k - 1]
        BY <3>3, <4>1
      <4> QED BY <4>1, <4>2
    <3>5. q = <<"a", "a", "b">> <=> q[1] = "a" /\ q[2] = "a" /\ q[3] = "b"
      <4>1. ASSUME q[1] = "a", q[2] = "a", q[3] = "b"  PROVE q = <<"a", "a", "b">>
        <5>1. q = [m \in 1 .. 3 |-> q[m]]
          BY <3>3
        <5>2. <<"a", "a", "b">> = [m \in 1 .. 3 |-> <<"a", "a", "b">>[m]]
          OBVIOUS
        <5>3. \A m \in 1 .. 3 : m = 1 \/ m = 2 \/ m = 3
          OBVIOUS
        <5>4. \A m \in 1 .. 3 : q[m] = <<"a", "a", "b">>[m]
          BY <4>1, <5>3
        <5> QED BY <5>1, <5>2, <5>4
      <4> QED BY <4>1
    <3> QED BY <3>1, <3>4, <3>5
  <2> QED BY <2>1 DEF HasAab
<1>4. HasAab(e) <=> HasAab(t) \/ (EndsAa(t) /\ c = "b")
  <2>1. ASSUME NEW k \in 1 .. Len(e) - 2, At(e, k)
        PROVE  (\E m \in 1 .. Len(t) - 2 : At(t, m)) \/ (EndsAa(t) /\ c = "b")
    <3>1. CASE k = Len(t) - 1
      <4>1. k \in 1 .. Len(t) /\ k + 1 \in 1 .. Len(t) /\ k + 2 = Len(t) + 1 /\ k + 1 = Len(t) /\ Len(t) >= 2
        BY <1>2, <2>1, <3>1
      <4> QED BY <1>2, <2>1, <3>1, <4>1 DEF EndsAa
    <3>2. CASE k # Len(t) - 1
      <4>0. Len(e) - 2 = Len(t) - 1 /\ Len(t) \in Nat
        BY <1>2
      <4>1. k \in 1 .. Len(t) - 2 /\ k \in 1 .. Len(t) /\ k + 1 \in 1 .. Len(t) /\ k + 2 \in 1 .. Len(t)
        BY <3>2, <4>0
      <4>2. At(t, k)
        BY <1>2, <2>1, <4>1
      <4> QED BY <4>1, <4>2
    <3> QED BY <3>1, <3>2
  <2>2. ASSUME NEW k \in 1 .. Len(t) - 2, At(t, k)  PROVE \E m \in 1 .. Len(e) - 2 : At(e, m)
    <3>1. k \in 1 .. Len(e) - 2 /\ k \in 1 .. Len(t) /\ k + 1 \in 1 .. Len(t) /\ k + 2 \in 1 .. Len(t)
      BY <1>2
    <3>2. At(e, k)
      BY <1>2, <2>2, <3>1
    <3> QED BY <3>1, <3>2
  <2>3. ASSUME EndsAa(t), c = "b"  PROVE \E m \in 1 .. Len(e) - 2 : At(e, m)
    <3>1. /\ Len(t) - 1 \in 1 .. Len(e) - 2 /\ Len(t) - 1 \in 1 .. Len(t) /\ Len(t) \in 1 .. Len(t)
          /\ Len(t) - 1 + 1 = Len(t) /\ Len(t) - 1 + 2 = Len(t) + 1
      BY <1>2, <2>3 DEF EndsAa
    <3>2. At(e, Len(t) - 1)
      BY <1>2, <2>3, <3>1 DEF EndsAa
    <3> QED BY <3>1, <3>2
  <2> HIDE DEF At
  <2> QED BY <1>3, <2>1, <2>2, <2>3
<1>5. EndsA(e) <=> c = "a"
  BY <1>2 DEF EndsA
<1>6. EndsAa(e) <=> EndsA(t) /\ c = "a"
  <2>1. Len(t) + 1 - 1 = Len(t) /\ (Len(t) + 1 >= 2 <=> Len(t) >= 1)
    BY <1>2
  <2>2. Len(t) >= 1 => Len(t) \in 1 .. Len(t)
    BY <1>2
  <2> QED BY <1>2, <2>1, <2>2 DEF EndsA, EndsAa
<1>7. ToSet(e) = ToSet(t) \cup {c}
  BY <1>2 DEF ToSet
<1> QED BY <1>1, <1>4, <1>5, <1>6, <1>7

ExampleIs(t, s) ==
    /\ s \in {"a", "b", "c", "d"}
    /\ s # "a" <=> "a" \in ToSet(t)
    /\ s = "b" <=> OpenA(t)
    /\ s = "c" <=> Since(t, "b")
    /\ s = "d" <=> Since(t, "c")

Example2Is(t, s) ==
    /\ s \in {"before", "s0", "s1", "s2"}
    /\ s # "before" <=> Came(t, <<"sp">>)
    /\ s \in {"s1", "s2"} <=> Came(t, <<"sp", "r">>)
    /\ s = "s2" <=> Came(t, <<"sp", "r", "0">>)

Example3Is(t, s) ==
    ToSet(t) \subseteq {"a", "b"} =>
       /\ s \in {"start", "s0", "s1", "final_state"}
       /\ s = "final_state" <=> HasAab(t)
       /\ s # "final_state" => /\ s = "s1" <=> EndsAa(t)
                               /\ s \in {"s0", "s1"} <=> EndsA(t)

AutIInv ==
    /\ machine \in {"example", "example2", "example3"} /\ typed \in Seq(Chars)
    /\ machine = "example" => ExampleIs(typed, state)
    /\ machine = "example2" => Example2Is(typed, state)
    /\ machine = "example3" => Example3Is(typed, state)

LEMMA AutAtFirst ==
    ASSUME AutInit  PROVE AutIInv
<1>1. /\ machine \in {"example", "example2", "example3"} /\ typed = <<>> /\ typed \in Seq(Chars)
      /\ Len(typed) = 0 /\ DOMAIN typed = 1 .. 0 /\ ToSet(typed) = {}
  <2>1. machine \in {"example", "example2", "example3"} /\ typed = <<>>
    BY DEF AutInit
  <2>2. Len(<<>>) = 0 /\ DOMAIN <<>> = 1 .. 0 /\ ToSet(<<>>) = {} /\ <<>> \in Seq(Chars)
    BY DEF ToSet
  <2> QED BY <2>1, <2>2
<1>2. machine = "example" => ExampleIs(typed, state)
  BY <1>1 DEF AutInit, ExampleIs, OpenA, Since
<1>3. machine = "example2" => Example2Is(typed, state)
  <2>1. /\ Came(typed, <<"sp">>) <=> One(typed, "sp")
        /\ Came(typed, <<"sp", "r">>) <=> Two(typed, "sp", "r")
        /\ Came(typed, <<"sp", "r", "0">>) <=> Three(typed, "sp", "r", "0")
    BY <1>1, CameIs
  <2>2. ~One(typed, "sp") /\ ~Two(typed, "sp", "r") /\ ~Three(typed, "sp", "r", "0")
    BY <1>1 DEF One, Two, Three
  <2> QED BY <2>1, <2>2 DEF AutInit, Example2Is
<1>4. machine = "example3" => Example3Is(typed, state)
  <2>1. ~EndsA(typed) /\ ~EndsAa(typed) /\ ~HasAab(typed)
    BY <1>1 DEF EndsA, EndsAa, HasAab
  <2> QED BY <2>1 DEF AutInit, Example3Is
<1> QED BY <1>1, <1>2, <1>3, <1>4 DEF AutIInv

LEMMA AutKept ==
    ASSUME AutIInv, NEW c \in Alphabet, ReadChar(c)  PROVE AutIInv'
<1>1. PICK t \in Seq(Chars) : t = typed
  BY DEF AutIInv
<1>2. c \in Chars /\ machine \in {"example", "example2", "example3"} /\ machine' = machine
  BY DEF Alphabet, Chars, AutIInv, ReadChar
<1>3. PICK e : e = Append(t, c)
  OBVIOUS
<1>4. typed' = e /\ e \in Seq(Chars)
  BY <1>1, <1>2, <1>3, CharAppended DEF ReadChar
<1>5. PICK s : s = state
  OBVIOUS
<1>6. PICK r : r = state'
  OBVIOUS
<1>7. CASE machine = "example"
  <2>1. ExampleIs(t, s)
    BY <1>1, <1>5, <1>7 DEF AutIInv
  <2>2. state \in {"a", "b", "c", "d"} /\ state' = Turn(example, c)
    BY <1>5, <1>7, <2>1 DEF ReadChar, ExampleIs
  <2>3. r = CASE c = "a" -> "b" [] c = "b" /\ s = "b" -> "c" [] c = "c" /\ s = "b" -> "d" [] OTHER -> s
    BY <1>5, <1>6, <2>2, ExampleTurn
  <2>4. /\ "a" \in ToSet(e) <=> "a" \in ToSet(t) \/ c = "a"
        /\ OpenA(e) <=> c = "a" \/ (OpenA(t) /\ c \notin {"b", "c"})
        /\ Since(e, "b") <=> c # "a" /\ (Since(t, "b") \/ (OpenA(t) /\ c = "b"))
        /\ Since(e, "c") <=> c # "a" /\ (Since(t, "c") \/ (OpenA(t) /\ c = "c"))
    BY <1>2, <1>3, SinceMore
  <2>5. ExampleIs(e, r)
    BY <2>1, <2>3, <2>4 DEF ExampleIs
  <2> QED BY <1>2, <1>4, <1>6, <1>7, <2>5 DEF AutIInv
<1>8. CASE machine = "example2"
  <2>1. Example2Is(t, s)
    BY <1>1, <1>5, <1>8 DEF AutIInv
  <2>2. state \in {"before", "s0", "s1", "s2"} /\ state' = Turn(example2, c)
    BY <1>5, <1>8, <2>1 DEF ReadChar, Example2Is
  <2>3. r = CASE c = "sp" /\ s = "before" -> "s0" [] c = "r" /\ s = "s0" -> "s1"
              [] c = "0" /\ s = "s1" -> "s2" [] OTHER -> s
    BY <1>5, <1>6, <2>2, Example2Turn
  <2>4. /\ Came(e, <<"sp">>) <=> Came(t, <<"sp">>) \/ c = "sp"
        /\ Came(e, <<"sp", "r">>) <=> Came(t, <<"sp", "r">>) \/ (Came(t, <<"sp">>) /\ c = "r")
        /\ Came(e, <<"sp", "r", "0">>) <=> Came(t, <<"sp", "r", "0">>) \/ (Came(t, <<"sp", "r">>) /\ c = "0")
    BY <1>2, <1>3, CameMore
  <2>5. Example2Is(e, r)
    BY <2>1, <2>3, <2>4 DEF Example2Is
  <2> QED BY <1>2, <1>4, <1>6, <1>8, <2>5 DEF AutIInv
<1>9. CASE machine = "example3"
  <2>1. Example3Is(t, s)
    BY <1>1, <1>5, <1>9 DEF AutIInv
  <2>2. /\ HasAab(e) <=> HasAab(t) \/ (EndsAa(t) /\ c = "b")
        /\ EndsA(e) <=> c = "a"
        /\ EndsAa(e) <=> EndsA(t) /\ c = "a"
        /\ ToSet(e) = ToSet(t) \cup {c}
    BY <1>2, <1>3, AabMore
  <2>3. ASSUME ToSet(e) \subseteq {"a", "b"}
        PROVE  /\ r \in {"start", "s0", "s1", "final_state"}
               /\ r = "final_state" <=> HasAab(e)
               /\ r # "final_state" => /\ r = "s1" <=> EndsAa(e)
                                       /\ r \in {"s0", "s1"} <=> EndsA(e)
    <3>1. c \in {"a", "b"} /\ ToSet(t) \subseteq {"a", "b"}
      BY <2>2, <2>3
    <3>2. /\ s \in {"start", "s0", "s1", "final_state"} /\ (s = "final_state" <=> HasAab(t))
          /\ s # "final_state" => /\ s = "s1" <=> EndsAa(t)
                                  /\ s \in {"s0", "s1"} <=> EndsA(t)
      BY <2>1, <3>1 DEF Example3Is
    <3>3. r = Functions3[s][c]
      BY <1>5, <1>6, <1>9, <3>1, <3>2 DEF ReadChar, Turn3
    <3>4. r = IF s = "final_state" THEN s ELSE IF c = "a" THEN IF s = "start" THEN "s0" ELSE "s1"
              ELSE IF s = "s1" THEN "final_state" ELSE "start"
      <4>1. /\ Functions3["start"] = start_state /\ Functions3["s0"] = s0_state
            /\ Functions3["s1"] = s1_state /\ Functions3["final_state"] = final_states
        BY DEF Functions3
      <4>2. /\ start_state["a"] = "s0" /\ start_state["b"] = "start" /\ s0_state["a"] = "s1" /\ s0_state["b"] = "start"
            /\ s1_state["a"] = "s1" /\ s1_state["b"] = "final_state"
            /\ final_states["a"] = "final_state" /\ final_states["b"] = "final_state"
        BY DEF start_state, s0_state, s1_state, final_states
      <4> QED BY <3>1, <3>2, <3>3, <4>1, <4>2
    <3> QED BY <2>2, <3>1, <3>2, <3>4
  <2>4. Example3Is(e, r)
    BY <2>3 DEF Example3Is
  <2> QED BY <1>2, <1>4, <1>6, <1>9, <2>4 DEF AutIInv
<1> QED BY <1>2, <1>7, <1>8, <1>9

\* The state of each automaton tells what it has read, for any input
\* (example.c:16-45, example2.c:14-39, example3.c:17-29).
THEOREM StatesTell == AutSpec => []AutomataInv
<1>1. AutInit => AutIInv
  BY AutAtFirst
<1>2. AutIInv /\ [AutNext]_autVars => AutIInv'
  <2> SUFFICES ASSUME AutIInv, [AutNext]_autVars  PROVE AutIInv'
    OBVIOUS
  <2>1. CASE AutNext
    BY <2>1, AutKept DEF AutNext
  <2>2. CASE UNCHANGED autVars
    BY <2>2 DEF AutIInv, autVars
  <2> QED BY <2>1, <2>2
<1>3. AutIInv => AutomataInv
  BY DEF AutIInv, AutomataInv, ExampleIs, Example2Is, Example3Is
<1> QED BY <1>1, <1>2, <1>3, PTL DEF AutSpec

-----------------------------------------------------------------------------
(***************************************************************************)
(* The scanner, over the files of its command line.                        *)
(***************************************************************************)
Triples == Nat \X Nat \X Nat

LEMMA PlusIs ==
    ASSUME NEW u \in Triples, NEW v \in Triples
    PROVE  /\ Plus(u, v) \in Triples /\ u = <<u[1], u[2], u[3]>> /\ u[1] \in Nat /\ u[2] \in Nat /\ u[3] \in Nat
           /\ Plus(u, v)[1] = u[1] + v[1] /\ Plus(u, v)[2] = u[2] + v[2] /\ Plus(u, v)[3] = u[3] + v[3]
BY DEF Triples, Plus

LEMMA SumsIs ==
    ASSUME NEW f, NEW N \in Nat, Len(f) = N, \A k \in 1 .. N : f[k] \in Triples
    PROVE  /\ Sums(f)[0] = <<0, 0, 0>> /\ \A k \in 1 .. N : Sums(f)[k] = Plus(Sums(f)[k - 1], f[k])
           /\ \A k \in 0 .. N : Sums(f)[k] \in Triples
<1> DEFINE Def(e) == [k \in 0 .. N |-> IF k = 0 THEN <<0, 0, 0>> ELSE Plus(e[k - 1], f[k])]
           s == CHOOSE e : e = Def(e)
<1>1. PICK go : go = [k \in 1 .. N |-> [q \in Triples |-> Plus(q, f[k])]]
  OBVIOUS
<1>2. \A k \in 1 .. N : \A q \in Triples : go[k][q] = Plus(q, f[k]) /\ go[k][q] \in Triples
  BY <1>1, PlusIs
<1>3. <<0, 0, 0>> \in Triples
  BY DEF Triples
<1>4. PICK e \in [0 .. N -> Triples] : Iterates(e, N, <<0, 0, 0>>, go)
  BY <1>2, <1>3, IterationExists
<1>5. e = Def(e)
  <2>1. ASSUME NEW k \in 0 .. N  PROVE e[k] = IF k = 0 THEN <<0, 0, 0>> ELSE Plus(e[k - 1], f[k])
    <3>1. CASE k = 0
      BY <1>4, <3>1 DEF Iterates
    <3>2. CASE k # 0
      <4>1. k \in 1 .. N /\ k - 1 \in 0 .. N
        BY <3>2
      <4>2. e[k - 1] \in Triples /\ e[k] = go[k][e[k - 1]]
        BY <1>4, <4>1 DEF Iterates
      <4> QED BY <1>2, <3>2, <4>1, <4>2
    <3> QED BY <3>1, <3>2
  <2> QED BY <2>1
<1>6. s = Def(s)
  <2>1. \E g : g = Def(g)
    BY <1>5
  <2> HIDE DEF Def
  <2> QED BY <2>1
<1>7. Sums(f) = s
  BY DEF Sums
<1>8. s[0] = <<0, 0, 0>> /\ \A k \in 1 .. N : s[k] = Plus(s[k - 1], f[k])
  <2>1. Def(s)[0] = <<0, 0, 0>> /\ \A k \in 1 .. N : Def(s)[k] = Plus(s[k - 1], f[k])
    OBVIOUS
  <2> HIDE DEF Def, s
  <2> QED BY <1>6, <2>1
<1>9. \A k \in 0 .. N : s[k] \in Triples
  <2> HIDE DEF s
  <2> DEFINE Good == {k \in 0 .. N : s[k] \in Triples}
  <2>1. 0 \in Good
    BY <1>3, <1>8
  <2>2. ASSUME NEW k \in 1 .. N, k - 1 \in Good  PROVE k \in Good
    <3>1. s[k - 1] \in Triples /\ s[k] = Plus(s[k - 1], f[k]) /\ k \in 0 .. N
      BY <1>8, <2>2
    <3> QED BY <3>1, PlusIs
  <2> HIDE DEF Good
  <2>3. \A k \in 0 .. N : k \in Good
    BY <2>1, <2>2, Climb
  <2> QED BY <2>3 DEF Good
<1> HIDE DEF s
<1> QED BY <1>7, <1>8, <1>9

\* The counts of what begins a file.
Starts(t, q) == {k \in 1 .. q : t[k] = "x" /\ (k = 1 \/ t[k - 1] # "x")}
LineEnds(t, q)   == {k \in 1 .. q : t[k] = "\n"}
Part(t, q)   == <<q, Cardinality(Starts(t, q)), Cardinality(LineEnds(t, q))>>

LEMMA PartIs ==
    ASSUME NEW t, NEW q \in Nat
    PROVE  /\ Part(t, q) \in Triples /\ IsFiniteSet(Starts(t, q)) /\ IsFiniteSet(LineEnds(t, q))
           /\ Part(t, q)[1] = q /\ Part(t, q)[2] = Cardinality(Starts(t, q)) /\ Part(t, q)[3] = Cardinality(LineEnds(t, q))
           /\ Part(t, 0) = <<0, 0, 0>>
<1>1. \A m \in Nat : IsFiniteSet(Starts(t, m)) /\ IsFiniteSet(LineEnds(t, m))
  <2>1. \A m \in Nat : IsFiniteSet(1 .. m)
    BY FS_Interval
  <2> QED BY <2>1, FS_Subset DEF Starts, LineEnds
<1>2. Cardinality(Starts(t, q)) \in Nat /\ Cardinality(LineEnds(t, q)) \in Nat
  BY <1>1, FS_CardinalityType
<1>3. Starts(t, 0) = {} /\ LineEnds(t, 0) = {}
  BY DEF Starts, LineEnds
<1>4. Part(t, 0) = <<0, 0, 0>>
  BY <1>3, FS_EmptySet DEF Part
<1> QED BY <1>1, <1>2, <1>4 DEF Part, Triples

\* A rule that is not the first goes over one character; the first over a whole word.
LEMMA PartOne ==
    ASSUME NEW t \in Seq(Characters), NEW q \in Nat, q < Len(t), t[q + 1] # "x"
    PROVE  Part(t, q + 1) = <<q + 1, Part(t, q)[2], Part(t, q)[3] + (IF t[q + 1] = "\n" THEN 1 ELSE 0)>>
<1>1. \A k : k \in 1 .. q + 1 <=> k \in 1 .. q \/ k = q + 1
  OBVIOUS
<1>2. q + 1 \notin 1 .. q /\ q + 1 \in Nat
  OBVIOUS
<1>3. Starts(t, q + 1) = Starts(t, q)
  BY <1>1 DEF Starts
<1>4. IsFiniteSet(LineEnds(t, q)) /\ Cardinality(LineEnds(t, q)) \in Nat
  BY PartIs, FS_CardinalityType
<1>5. CASE t[q + 1] = "\n"
  <2>1. LineEnds(t, q + 1) = LineEnds(t, q) \cup {q + 1} /\ q + 1 \notin LineEnds(t, q)
    BY <1>1, <1>2, <1>5 DEF LineEnds
  <2>2. Cardinality(LineEnds(t, q + 1)) = Cardinality(LineEnds(t, q)) + 1
    BY <1>4, <2>1, FS_AddElement
  <2> QED BY <1>3, <1>5, <2>2 DEF Part
<1>6. CASE t[q + 1] # "\n"
  <2>1. LineEnds(t, q + 1) = LineEnds(t, q)
    BY <1>1, <1>6 DEF LineEnds
  <2> QED BY <1>3, <1>4, <1>6, <2>1 DEF Part
<1> QED BY <1>5, <1>6

LEMMA PartWord ==
    ASSUME NEW t \in Seq(Characters), NEW q \in Nat, NEW n \in Nat \ {0}, q + n <= Len(t),
           q = 0 \/ t[q] # "x", \A k \in q + 1 .. q + n : t[k] = "x"
    PROVE  Part(t, q + n) = <<q + n, Part(t, q)[2] + 1, Part(t, q)[3]>>
<1>1. \A k : k \in 1 .. q + n <=> k \in 1 .. q \/ k \in q + 1 .. q + n
  OBVIOUS
<1>2. q + 1 \notin 1 .. q /\ q + 1 \in q + 1 .. q + n /\ q + 1 - 1 = q /\ (q + 1 = 1 <=> q = 0)
  OBVIOUS
<1>3. \A k \in q + 1 .. q + n : k # q + 1 => k - 1 \in q + 1 .. q + n /\ k # 1
  OBVIOUS
<1>4. Starts(t, q + n) = Starts(t, q) \cup {q + 1} /\ q + 1 \notin Starts(t, q)
  <2>1. ASSUME NEW k \in q + 1 .. q + n  PROVE k \in Starts(t, q + n) <=> k = q + 1
    <3>1. CASE k = q + 1
      BY <1>1, <1>2, <3>1 DEF Starts
    <3>2. CASE k # q + 1
      BY <1>3, <3>2 DEF Starts
    <3> QED BY <3>1, <3>2
  <2>2. \A k \in 1 .. q : k \in Starts(t, q + n) <=> k \in Starts(t, q)
    BY <1>1 DEF Starts
  <2>3. \A m \in Nat : Starts(t, m) \subseteq 1 .. m
    BY DEF Starts
  <2>4. Starts(t, q + n) \subseteq 1 .. q + n /\ Starts(t, q) \subseteq 1 .. q
    BY <2>3
  <2> QED BY <1>1, <1>2, <2>1, <2>2, <2>4
<1>5. LineEnds(t, q + n) = LineEnds(t, q)
  BY <1>1 DEF LineEnds
<1>6. Cardinality(Starts(t, q + n)) = Cardinality(Starts(t, q)) + 1
  <2>1. IsFiniteSet(Starts(t, q))
    BY PartIs
  <2> QED BY <1>4, <2>1, FS_AddElement
<1> QED BY <1>5, <1>6 DEF Part

\* The first rule matches all the letters there are.
LEMMA LettersAtIs ==
    ASSUME NEW s \in Seq(Characters), s # <<>>, s[1] = "x"
    PROVE  /\ LettersAt(s) \in 1 .. Len(s) /\ \A k \in 1 .. LettersAt(s) : s[k] = "x"
           /\ LettersAt(s) < Len(s) => s[LettersAt(s) + 1] # "x"
<1>1. Len(s) \in Nat /\ Len(s) >= 1
  OBVIOUS
<1> DEFINE Stop == {m \in 1 .. Len(s) : m = Len(s) \/ s[m + 1] # "x"}
<1>2. PICK n \in Stop : \A m \in Stop : n <= m
  <2>1. Stop \in SUBSET Nat /\ Len(s) \in Stop
    BY <1>1
  <2> HIDE DEF Stop
  <2> QED BY <2>1, LeastNumber
<1>3. n \in 1 .. Len(s) /\ (n < Len(s) => s[n + 1] # "x")
  OBVIOUS
<1>4. ASSUME NEW k \in 1 .. n  PROVE s[k] = "x"
  <2>1. CASE k # 1
    <3>1. k - 1 \in 1 .. Len(s) /\ ~(n <= k - 1) /\ k - 1 # Len(s) /\ k - 1 + 1 = k
      BY <1>3, <2>1
    <3>2. k - 1 \notin Stop
      <4> HIDE DEF Stop
      <4> QED BY <1>2, <3>1
    <3> QED BY <3>1, <3>2
  <2> QED BY <2>1
<1>5. \E m \in 1 .. Len(s) : (\A k \in 1 .. m : s[k] = "x") /\ (m < Len(s) => s[m + 1] # "x")
  BY <1>3, <1>4
<1> QED BY <1>5 DEF LettersAt

\* The counts of the files, and the sums of what is added to the totals.
Each    == [k \in DOMAIN argv |-> Counts(argv[k])]
AddedUp == [k \in DOMAIN argv |-> AllUpto[k]]

LEMMA SumsOfFiles ==
    ASSUME NEW N \in Nat, argv \in Seq(Seq(Characters)), Len(argv) = N
    PROVE  /\ AllUpto[0] = <<0, 0, 0>>
           /\ \A k \in 1 .. N : AllUpto[k] = Plus(AllUpto[k - 1], Part(argv[k], Len(argv[k])))
           /\ \A k \in 0 .. N : AllUpto[k] \in Triples
           /\ Sums(AddedUp)[0] = <<0, 0, 0>>
           /\ \A k \in 1 .. N : Sums(AddedUp)[k] = Plus(Sums(AddedUp)[k - 1], AllUpto[k])
           /\ \A k \in 0 .. N : Sums(AddedUp)[k] \in Triples
<1>1. DOMAIN argv = 1 .. N /\ \A k \in 1 .. N : argv[k] \in Seq(Characters)
  OBVIOUS
<1>2. ASSUME NEW t \in Seq(Characters)  PROVE Counts(t) = Part(t, Len(t)) /\ Part(t, Len(t)) \in Triples
  <2>1. DOMAIN t = 1 .. Len(t) /\ Len(t) \in Nat
    OBVIOUS
  <2> QED BY <2>1, PartIs DEF Counts, Part, Starts, LineEnds
<1>3. AllUpto = Sums(Each)
  BY DEF AllUpto, Each
<1>4. PICK e : e = Each
  OBVIOUS
<1>5. e \in Seq(Triples) /\ Len(e) = N /\ \A k \in 1 .. N : e[k] = Part(argv[k], Len(argv[k])) /\ e[k] \in Triples
  <2>1. e = [k \in 1 .. N |-> Counts(argv[k])]
    BY <1>1, <1>4 DEF Each
  <2>2. \A k \in 1 .. N : Counts(argv[k]) = Part(argv[k], Len(argv[k])) /\ Counts(argv[k]) \in Triples
    BY <1>1, <1>2
  <2> QED BY <2>1, <2>2
<1>6. /\ Sums(e)[0] = <<0, 0, 0>> /\ \A k \in 1 .. N : Sums(e)[k] = Plus(Sums(e)[k - 1], e[k])
      /\ \A k \in 0 .. N : Sums(e)[k] \in Triples
  BY <1>5, SumsIs
<1>7. PICK d : d = AddedUp
  OBVIOUS
<1>8. Len(d) = N /\ \A k \in 1 .. N : d[k] = AllUpto[k] /\ d[k] \in Triples
  <2>1. d = [k \in 1 .. N |-> AllUpto[k]]
    BY <1>1, <1>7 DEF AddedUp
  <2>2. \A k \in 1 .. N : AllUpto[k] \in Triples
    BY <1>3, <1>4, <1>6
  <2>3. d \in Seq(Triples)
    BY <2>1, <2>2
  <2> QED BY <2>1, <2>2, <2>3
<1>9. /\ Sums(d)[0] = <<0, 0, 0>> /\ \A k \in 1 .. N : Sums(d)[k] = Plus(Sums(d)[k - 1], d[k])
      /\ \A k \in 0 .. N : Sums(d)[k] \in Triples
  BY <1>8, SumsIs
<1> QED BY <1>3, <1>4, <1>5, <1>6, <1>7, <1>8, <1>9

\* How far the file in hand has been read: never in the middle of a word.
Reached(q) ==
    LET t == argv[file]
    IN  /\ rest = SubSeq(t, q + 1, Len(t))
        /\ <<chars, nwords, lines>> = Plus(AllUpto[file - 1], Part(t, q))
        /\ q \in 1 .. Len(t) - 1 => ~(t[q] = "x" /\ t[q + 1] = "x")

ScanIInv ==
    /\ argv \in Seq(Seq(Characters)) /\ file \in 1 .. Len(argv) + 1
    /\ chars \in Nat /\ nwords \in Nat /\ lines \in Nat
    /\ totals = Sums(AddedUp)[file - 1]
    /\ file > Len(argv) \/ unopened => rest = <<>>
    /\ file <= Len(argv) /\ ~unopened => \E q \in 0 .. Len(argv[file]) : Reached(q)

\* What is left of a file.
LEMMA RestIs ==
    ASSUME NEW t \in Seq(Characters), NEW q \in 0 .. Len(t)
    PROVE  /\ SubSeq(t, q + 1, Len(t)) \in Seq(Characters) /\ Len(SubSeq(t, q + 1, Len(t))) = Len(t) - q
           /\ \A k \in 1 .. Len(t) - q : SubSeq(t, q + 1, Len(t))[k] = t[q + k]
           /\ SubSeq(t, q + 1, Len(t)) = <<>> <=> q = Len(t)
           /\ q < Len(t) => Head(SubSeq(t, q + 1, Len(t))) = t[q + 1]
           /\ SubSeq(t, 1, Len(t)) = t
           /\ \A n \in 1 .. Len(t) - q :
                 SubSeq(SubSeq(t, q + 1, Len(t)), n + 1, Len(t) - q) = SubSeq(t, q + n + 1, Len(t))
<1>1. Len(t) \in Nat /\ q \in Nat /\ q <= Len(t)
  OBVIOUS
<1>2. PICK r : r = SubSeq(t, q + 1, Len(t))
  OBVIOUS
<1>3. r \in Seq(Characters) /\ Len(r) = Len(t) - q /\ \A k \in 1 .. Len(t) - q : r[k] = t[q + k]
  <2>1. \A k \in q + 1 .. Len(t) : t[k] \in Characters
    BY <1>1
  <2>2. r = [k \in 1 .. Len(t) - q |-> t[q + k]]
    <3>1. Len(t) - (q + 1) + 1 = Len(t) - q
      BY <1>1
    <3>2. \A k \in 1 .. Len(t) - q : k + (q + 1) - 1 = q + k
      BY <1>1
    <3>3. r \in Seq(Characters) /\ Len(r) = Len(t) - q /\ \A k \in 1 .. Len(t) - q : r[k] = t[q + k]
      BY <1>1, <1>2
    <3>4. r = [k \in 1 .. Len(r) |-> r[k]]
      BY <3>3
    <3> QED BY <3>3, <3>4
  <2> QED BY <1>1, <1>2
<1>4. r = <<>> <=> q = Len(t)
  BY <1>1, <1>3
<1>5. q < Len(t) => Head(r) = t[q + 1]
  <2>1. q < Len(t) => r # <<>> /\ 1 \in 1 .. Len(t) - q
    BY <1>1, <1>4
  <2>2. r # <<>> => Head(r) = r[1]
    BY <1>3
  <2> QED BY <1>3, <2>1, <2>2
<1>6. SubSeq(t, 1, Len(t)) = t
  OBVIOUS
<1>7. ASSUME NEW n \in 1 .. Len(t) - q
      PROVE  SubSeq(r, n + 1, Len(t) - q) = SubSeq(t, q + n + 1, Len(t))
  <2>1. PICK u : u = SubSeq(r, n + 1, Len(t) - q)
    OBVIOUS
  <2>2. PICK v : v = SubSeq(t, q + n + 1, Len(t))
    OBVIOUS
  <2>3. n \in Nat /\ n >= 1 /\ n <= Len(t) - q /\ q + n <= Len(t)
    BY <1>1
  <2>4. u \in Seq(Characters) /\ Len(u) = Len(t) - q - n /\ \A k \in 1 .. Len(t) - q - n : u[k] = r[n + k]
    BY <1>1, <1>3, <2>1, <2>3
  <2>5. v \in Seq(Characters) /\ Len(v) = Len(t) - q - n /\ \A k \in 1 .. Len(t) - q - n : v[k] = t[q + n + k]
    BY <1>1, <2>2, <2>3
  <2>6. ASSUME NEW k \in 1 .. Len(u)  PROVE u[k] = v[k]
    <3>1. k \in 1 .. Len(t) - q - n /\ n + k \in 1 .. Len(t) - q /\ q + (n + k) = q + n + k
      BY <1>1, <2>3, <2>4
    <3> QED BY <1>3, <2>4, <2>5, <3>1
  <2>7. u = v
    BY <2>4, <2>5, <2>6, SeqEqual
  <2> QED BY <2>1, <2>2, <2>7
<1> QED BY <1>2, <1>3, <1>4, <1>5, <1>6, <1>7

LEMMA ScanAtFirst ==
    ASSUME ScanAssumption, ScanInit  PROVE ScanIInv
<1>1. PICK n \in 1 .. MaxFiles : argv \in [1 .. n -> Files]
  BY DEF ScanInit
<1>2. n \in Nat /\ n >= 1 /\ argv \in Seq(Seq(Characters)) /\ Len(argv) = n /\ 1 \in 1 .. n
  <2>1. n \in Nat /\ n >= 1 /\ 1 \in 1 .. n
    BY DEF ScanAssumption
  <2>2. argv \in [1 .. n -> Seq(Characters)]
    BY <1>1 DEF ScanAssumption
  <2> QED BY <2>1, <2>2
<1>3. /\ file = 1 /\ rest = (IF unopened THEN <<>> ELSE argv[1]) /\ chars = 0 /\ nwords = 0 /\ lines = 0 /\ totals = <<0, 0, 0>>
  BY DEF ScanInit
<1>4. AllUpto[0] = <<0, 0, 0>> /\ Sums(AddedUp)[0] = <<0, 0, 0>>
  BY <1>2, SumsOfFiles
<1>5. PICK t \in Seq(Characters) : t = argv[1]
  BY <1>2
<1>6. ASSUME ~unopened  PROVE Reached(0)
  <2>1. Len(t) \in Nat /\ 0 \in 0 .. Len(t) /\ 0 \notin 1 .. Len(t) - 1 /\ 0 + 1 = 1 /\ 1 - 1 = 0
    OBVIOUS
  <2>2. rest = SubSeq(t, 0 + 1, Len(t))
    <3>1. SubSeq(t, 1, Len(t)) = t
      BY <2>1, RestIs
    <3> QED BY <1>3, <1>5, <1>6, <2>1, <3>1
  <2>3. Plus(AllUpto[1 - 1], Part(t, 0)) = <<0, 0, 0>>
    <3>1. Part(t, 0) = <<0, 0, 0>>
      BY PartIs
    <3>2. Plus(<<0, 0, 0>>, <<0, 0, 0>>) = <<0, 0, 0>>
      BY DEF Plus
    <3> QED BY <1>4, <2>1, <3>1, <3>2
  <2> QED BY <1>3, <1>5, <2>1, <2>2, <2>3 DEF Reached
<1>7. ~unopened => \E q \in 0 .. Len(argv[file]) : Reached(q)
  BY <1>3, <1>5, <1>6
<1>8. file \in 1 .. Len(argv) + 1 /\ ~(file > Len(argv)) /\ file - 1 = 0
  BY <1>2, <1>3
<1> QED BY <1>2, <1>3, <1>4, <1>7, <1>8 DEF ScanIInv

\* A rule goes over n characters, which add w to the words and l to the lines.
Passes(t, q, n, w, l) ==
    /\ Part(t, q + n) = <<q + n, Part(t, q)[2] + w, Part(t, q)[3] + l>>
    /\ q + n \in 1 .. Len(t) - 1 => ~(t[q + n] = "x" /\ t[q + n + 1] = "x")
    /\ UNCHANGED <<argv, file, unopened, totals>> /\ rest' = SubSeq(rest, n + 1, Len(rest))
    /\ chars' = chars + n /\ nwords' = nwords + w /\ lines' = lines + l

LEMMA Added ==
    ASSUME NEW m \in Nat, NEW h \in Nat, NEW d \in Nat
    PROVE  m + h \in Nat /\ m + h + d = m + (h + d)
OBVIOUS

LEMMA MatchKept ==
    ASSUME ScanIInv, rest # <<>>, NEW n \in 1 .. Len(rest), NEW w \in Nat, NEW l \in Nat,
           NEW q \in 0 .. Len(argv[file]), Reached(q), Passes(argv[file], q, n, w, l)
    PROVE  ScanIInv'
<1>1. /\ argv \in Seq(Seq(Characters)) /\ file \in 1 .. Len(argv) + 1 /\ Len(argv) \in Nat /\ file <= Len(argv)
      /\ file \in 1 .. Len(argv) /\ file - 1 \in 0 .. Len(argv)
      /\ chars \in Nat /\ nwords \in Nat /\ lines \in Nat /\ totals = Sums(AddedUp)[file - 1]
  BY DEF ScanIInv
<1>2. PICK t \in Seq(Characters) : t = argv[file]
  BY <1>1
<1>3. /\ q \in 0 .. Len(t) /\ q \in Nat /\ Len(t) \in Nat /\ rest = SubSeq(t, q + 1, Len(t))
      /\ <<chars, nwords, lines>> = Plus(AllUpto[file - 1], Part(t, q))
  BY <1>2 DEF Reached
<1>4. Len(rest) = Len(t) - q /\ n \in 1 .. Len(t) - q /\ n \in Nat
  <2>1. Len(rest) = Len(t) - q
    BY <1>3, RestIs
  <2> QED BY <1>3, <2>1
<1>5. rest' = SubSeq(t, q + n + 1, Len(t))
  <2>1. rest' = SubSeq(SubSeq(t, q + 1, Len(t)), n + 1, Len(t) - q)
    BY <1>2, <1>3, <1>4 DEF Passes
  <2>2. SubSeq(SubSeq(t, q + 1, Len(t)), n + 1, Len(t) - q) = SubSeq(t, q + n + 1, Len(t))
    BY <1>3, <1>4, RestIs
  <2> QED BY <2>1, <2>2
<1>6. q + n \in 0 .. Len(t) /\ q + n \in Nat
  BY <1>3, <1>4
<1>7. PICK u \in Triples : u = AllUpto[file - 1]
  BY <1>1, SumsOfFiles
<1>8. PICK a \in Triples : a = Part(t, q)
  BY <1>3, PartIs
<1>9. PICK b \in Triples : b = Part(t, q + n)
  BY <1>6, PartIs
<1>10. a[1] = q
  BY <1>3, <1>8, PartIs
<1>11. b = <<q + n, a[2] + w, a[3] + l>>
  BY <1>2, <1>8, <1>9 DEF Passes
<1>12. <<chars', nwords', lines'>> = Plus(u, b)
  <2>1. <<chars, nwords, lines>> = <<u[1] + a[1], u[2] + a[2], u[3] + a[3]>>
    BY <1>3, <1>7, <1>8 DEF Plus
  <2>2. chars = u[1] + q /\ nwords = u[2] + a[2] /\ lines = u[3] + a[3]
    BY <1>10, <2>1
  <2>3. u[1] \in Nat /\ u[2] \in Nat /\ u[3] \in Nat /\ a[2] \in Nat /\ a[3] \in Nat
    BY PlusIs
  <2>4. chars' = u[1] + (q + n) /\ nwords' = u[2] + (a[2] + w) /\ lines' = u[3] + (a[3] + l)
    <3>1. chars' = chars + n /\ nwords' = nwords + w /\ lines' = lines + l
      BY DEF Passes
    <3>2. q \in Nat /\ n \in Nat
      BY <1>3, <1>4
    <3>3. u[1] + q + n = u[1] + (q + n)
      BY <2>3, <3>2, Added
    <3>4. u[2] + a[2] + w = u[2] + (a[2] + w)
      BY <2>3, Added
    <3>5. u[3] + a[3] + l = u[3] + (a[3] + l)
      BY <2>3, Added
    <3> QED BY <2>2, <3>1, <3>3, <3>4, <3>5
  <2>5. b[1] = q + n /\ b[2] = a[2] + w /\ b[3] = a[3] + l
    BY <1>11
  <2> QED BY <2>4, <2>5 DEF Plus
<1>13. AllUpto' = AllUpto /\ AddedUp' = AddedUp /\ argv' = argv /\ file' = file
  BY DEF AllUpto, AddedUp, Passes
<1>14. Reached(q + n)'
  <2>1. rest' = SubSeq(t, (q + n) + 1, Len(t)) /\ argv'[file'] = t
    BY <1>2, <1>5, <1>13
  <2>2. <<chars', nwords', lines'>> = Plus(AllUpto'[file' - 1], Part(t, q + n))
    BY <1>7, <1>9, <1>12, <1>13
  <2>3. q + n \in 1 .. Len(t) - 1 => ~(t[q + n] = "x" /\ t[q + n + 1] = "x")
    BY <1>2 DEF Passes
  <2> QED BY <2>1, <2>2, <2>3 DEF Reached
<1>15. \E q_1 \in 0 .. Len(argv'[file']) : Reached(q_1)'
  BY <1>2, <1>6, <1>13, <1>14
<1>16. chars' \in Nat /\ nwords' \in Nat /\ lines' \in Nat
  <2>1. chars' = chars + n /\ nwords' = nwords + w /\ lines' = lines + l
    BY DEF Passes
  <2>2. chars \in Nat /\ nwords \in Nat /\ lines \in Nat /\ n \in Nat
    BY <1>1, <1>4
  <2>3. chars + n \in Nat /\ nwords + w \in Nat /\ lines + l \in Nat
    BY <2>2, Added
  <2> QED BY <2>1, <2>3
<1>17. totals' = Sums(AddedUp')[file' - 1]
  BY <1>1, <1>13 DEF Passes
<1>18. ~(file > Len(argv)) /\ ~unopened /\ unopened' = unopened
  BY <1>1 DEF ScanIInv, Passes
<1> QED BY <1>1, <1>13, <1>15, <1>16, <1>17, <1>18 DEF ScanIInv

LEMMA RuleKept ==
    ASSUME ScanIInv, rest # <<>>, WordRule \/ NewLineRule \/ AnyRule  PROVE ScanIInv'
<1>1. /\ argv \in Seq(Seq(Characters)) /\ Len(argv) \in Nat /\ file \in 1 .. Len(argv) /\ ~unopened
  BY DEF ScanIInv
<1>2. PICK q \in 0 .. Len(argv[file]) : Reached(q)
  BY <1>1 DEF ScanIInv
<1>3. PICK t \in Seq(Characters) : t = argv[file]
  BY <1>1
<1>4. /\ q \in Nat /\ Len(t) \in Nat /\ q \in 0 .. Len(t) /\ rest = SubSeq(t, q + 1, Len(t))
      /\ q \in 1 .. Len(t) - 1 => ~(t[q] = "x" /\ t[q + 1] = "x")
  BY <1>2, <1>3 DEF Reached
<1>5. /\ rest \in Seq(Characters) /\ Len(rest) = Len(t) - q /\ \A k \in 1 .. Len(t) - q : rest[k] = t[q + k]
  BY <1>4, RestIs
<1>6. q < Len(t) /\ 1 \in 1 .. Len(rest) /\ Head(rest) = t[q + 1] /\ Head(rest) = rest[1]
  <2>1. q # Len(t)
    BY <1>4, RestIs
  <2>2. q < Len(t) /\ 1 \in 1 .. Len(rest)
    BY <1>4, <1>5, <2>1
  <2> QED BY <1>4, <1>5, <2>2, RestIs
<1>7. CASE WordRule
  <2>1. Head(rest) = "x" /\ Match(LettersAt(rest)) /\ nwords' = nwords + 1 /\ lines' = lines
    BY <1>7 DEF WordRule
  <2>2. PICK n : n = LettersAt(rest)
    OBVIOUS
  <2>3. n \in 1 .. Len(rest) /\ (\A k \in 1 .. n : rest[k] = "x") /\ (n < Len(rest) => rest[n + 1] # "x")
    BY <1>5, <1>6, <2>1, <2>2, LettersAtIs
  <2>4. n \in Nat \ {0} /\ q + n <= Len(t)
    BY <1>4, <1>5, <2>3
  <2>5. \A k \in q + 1 .. q + n : t[k] = "x"
    <3>1. \A k \in q + 1 .. q + n : k - q \in 1 .. n /\ k - q \in 1 .. Len(t) - q /\ q + (k - q) = k
      BY <1>4, <2>4
    <3> QED BY <1>5, <2>3, <3>1
  <2>6. q = 0 \/ t[q] # "x"
    BY <1>4, <1>6, <2>1
  <2>7. Part(t, q + n) = <<q + n, Part(t, q)[2] + 1, Part(t, q)[3]>>
    BY <1>4, <2>4, <2>5, <2>6, PartWord
  <2>8. q + n \in 1 .. Len(t) - 1 => ~(t[q + n] = "x" /\ t[q + n + 1] = "x")
    <3>1. q + n \in 1 .. Len(t) - 1 => n < Len(rest) /\ n + 1 \in 1 .. Len(t) - q /\ q + (n + 1) = q + n + 1
      BY <1>4, <1>5, <2>4
    <3> QED BY <1>5, <2>3, <3>1
  <2>9. Part(t, q)[3] \in Nat
    <3>1. Part(t, q) \in Triples
      BY <1>4, PartIs
    <3> QED BY <3>1, PlusIs
  <2>10. Part(t, q + n) = <<q + n, Part(t, q)[2] + 1, Part(t, q)[3] + 0>>
    BY <2>7, <2>9
  <2>11. /\ UNCHANGED <<argv, file, unopened, totals>> /\ rest' = SubSeq(rest, n + 1, Len(rest)) /\ chars' = chars + n
         /\ nwords' = nwords + 1 /\ lines' = lines + 0 /\ 0 \in Nat /\ 1 \in Nat
    <3>1. UNCHANGED <<argv, file, unopened, totals>> /\ rest' = SubSeq(rest, n + 1, Len(rest)) /\ chars' = chars + n
      BY <2>1, <2>2 DEF Match
    <3>2. lines + 0 = lines
      BY DEF ScanIInv
    <3> QED BY <2>1, <3>1, <3>2
  <2>12. Passes(argv[file], q, n, 1, 0)
    BY <1>3, <2>8, <2>10, <2>11 DEF Passes
  <2> QED BY <1>2, <2>3, <2>11, <2>12, MatchKept
<1>8. CASE NewLineRule \/ AnyRule
  <2>1. PICK l \in Nat : l = IF NewLineRule THEN 1 ELSE 0
    OBVIOUS
  <2>2. /\ t[q + 1] # "x" /\ (t[q + 1] = "\n" <=> l = 1) /\ l \in {0, 1} /\ Match(1)
        /\ lines' = lines + l /\ nwords' = nwords + 0
    <3>1. lines \in Nat /\ nwords \in Nat
      BY DEF ScanIInv
    <3>2. CASE NewLineRule
      BY <1>6, <2>1, <3>1, <3>2 DEF NewLineRule
    <3>3. CASE ~NewLineRule
      <4>1. AnyRule /\ l = 0
        BY <1>8, <2>1, <3>3
      <4> QED BY <1>6, <3>1, <4>1 DEF AnyRule
    <3> QED BY <3>2, <3>3
  <2>3. PICK a \in Triples : a = Part(t, q)
    BY <1>4, PartIs
  <2>4. Part(t, q + 1) = <<q + 1, a[2], a[3] + (IF t[q + 1] = "\n" THEN 1 ELSE 0)>>
    BY <1>4, <1>6, <2>2, <2>3, PartOne
  <2>5. a[2] \in Nat
    BY PlusIs
  <2>6. Part(t, q + 1) = <<q + 1, Part(t, q)[2] + 0, Part(t, q)[3] + l>>
    BY <2>2, <2>3, <2>4, <2>5
  <2>7. UNCHANGED <<argv, file, unopened, totals>> /\ rest' = SubSeq(rest, 1 + 1, Len(rest)) /\ chars' = chars + 1
    BY <2>2 DEF Match
  <2>8. Passes(argv[file], q, 1, 0, l)
    BY <1>3, <2>2, <2>6, <2>7 DEF Passes
  <2>9. 0 \in Nat
    OBVIOUS
  <2> QED BY <1>2, <1>6, <2>8, <2>9, MatchKept
<1> QED BY <1>7, <1>8

LEMMA NextFileKept ==
    ASSUME ScanIInv, NextFile  PROVE ScanIInv'
<1>1. /\ argv \in Seq(Seq(Characters)) /\ Len(argv) \in Nat /\ file \in 1 .. Len(argv) /\ file \in Nat
      /\ file <= Len(argv) /\ file - 1 \in 0 .. Len(argv) /\ file \in 0 .. Len(argv) /\ ~unopened
      /\ chars \in Nat /\ nwords \in Nat /\ lines \in Nat /\ totals = Sums(AddedUp)[file - 1]
      /\ UNCHANGED <<argv, chars, nwords, lines>> /\ file' = file + 1 /\ rest = <<>>
      /\ rest' = (IF file < Len(argv) /\ ~unopened' THEN argv[file + 1] ELSE <<>>)
      /\ totals' = <<totals[1] + chars, totals[2] + nwords, totals[3] + lines>>
  <2>1. argv \in Seq(Seq(Characters)) /\ file \in 1 .. Len(argv) + 1 /\ file <= Len(argv)
    BY DEF ScanIInv, NextFile
  <2>2. Len(argv) \in Nat /\ file \in 1 .. Len(argv) /\ file \in Nat /\ file - 1 \in 0 .. Len(argv) /\ file \in 0 .. Len(argv)
    BY <2>1
  <2> QED BY <2>1, <2>2 DEF ScanIInv, NextFile
<1>2. PICK q \in 0 .. Len(argv[file]) : Reached(q)
  BY <1>1 DEF ScanIInv
<1>3. PICK t \in Seq(Characters) : t = argv[file]
  BY <1>1
<1>4. q = Len(t)
  <2>1. SubSeq(t, q + 1, Len(t)) = <<>> /\ q \in 0 .. Len(t)
    BY <1>1, <1>2, <1>3 DEF Reached
  <2> QED BY <2>1, RestIs
<1>5. <<chars, nwords, lines>> = AllUpto[file] /\ AllUpto[file] \in Triples
  <2>1. AllUpto[file] = Plus(AllUpto[file - 1], Part(t, Len(t))) /\ AllUpto[file] \in Triples
    BY <1>1, <1>3, SumsOfFiles
  <2> QED BY <1>2, <1>3, <1>4, <2>1 DEF Reached
<1>6. AllUpto' = AllUpto /\ AddedUp' = AddedUp
  BY <1>1 DEF AllUpto, AddedUp
<1>7. totals' = Sums(AddedUp')[file' - 1]
  <2>1. Sums(AddedUp)[file] = Plus(Sums(AddedUp)[file - 1], AllUpto[file])
    BY <1>1, SumsOfFiles
  <2>2. Plus(totals, <<chars, nwords, lines>>) = totals'
    BY <1>1 DEF Plus
  <2>3. file' - 1 = file
    BY <1>1
  <2> QED BY <1>1, <1>5, <1>6, <2>1, <2>2, <2>3
<1>8. file' \in 1 .. Len(argv') + 1 /\ (file' > Len(argv') <=> ~(file < Len(argv)))
      /\ (file < Len(argv) => file + 1 \in 1 .. Len(argv))
  <2>1. PICK n \in Nat : n = Len(argv)
    BY <1>1
  <2>2. file' = file + 1 /\ argv' = argv /\ file \in 1 .. n /\ file \in Nat
    BY <1>1, <2>1
  <2>3. /\ file + 1 \in 1 .. n + 1 /\ (file + 1 > n <=> ~(file < n))
        /\ (file < n => file + 1 \in 1 .. n)
    BY <2>2
  <2> QED BY <2>1, <2>2, <2>3
<1>9. ASSUME file < Len(argv), ~unopened'  PROVE \E q_1 \in 0 .. Len(argv'[file']) : Reached(q_1)'
  <2>1. PICK s \in Seq(Characters) : s = argv[file + 1]
    <3>1. file + 1 \in 1 .. Len(argv)
      BY <1>8, <1>9
    <3>2. argv \in Seq(Seq(Characters))
      BY <1>1
    <3> QED BY <3>1, <3>2
  <2>2. argv'[file'] = s /\ rest' = s /\ Len(s) \in Nat
    BY <1>1, <1>9, <2>1
  <2>3. 0 \in 0 .. Len(s) /\ 0 \notin 1 .. Len(s) - 1 /\ 0 + 1 = 1 /\ file' - 1 = file
    BY <1>1, <2>2
  <2>4. SubSeq(s, 1, Len(s)) = s
    BY <2>3, RestIs
  <2>5. <<chars, nwords, lines>> = Plus(AllUpto[file], Part(s, 0))
    <3>1. PICK u \in Triples : u = AllUpto[file]
      BY <1>5
    <3>2. Plus(u, <<0, 0, 0>>) = u
      <4>1. u = <<u[1], u[2], u[3]>> /\ u[1] \in Nat /\ u[2] \in Nat /\ u[3] \in Nat
        BY PlusIs
      <4>2. u[1] + 0 = u[1] /\ u[2] + 0 = u[2] /\ u[3] + 0 = u[3]
        BY <4>1
      <4>3. Plus(u, <<0, 0, 0>>) = <<u[1] + 0, u[2] + 0, u[3] + 0>>
        BY DEF Plus
      <4> QED BY <4>1, <4>2, <4>3
    <3>3. Part(s, 0) = <<0, 0, 0>>
      BY PartIs
    <3> QED BY <1>5, <3>1, <3>2, <3>3
  <2>6. Reached(0)'
    BY <1>1, <1>6, <2>2, <2>3, <2>4, <2>5 DEF Reached
  <2> QED BY <2>2, <2>3, <2>6
<1>10. file' > Len(argv') \/ unopened' => rest' = <<>>
  BY <1>1, <1>8
<1>11. file' <= Len(argv') => file < Len(argv)
  BY <1>1
<1> QED BY <1>1, <1>7, <1>8, <1>9, <1>10, <1>11 DEF ScanIInv

\* The counts and the totals are what the files up to each one hold, for any number
\* of files of any length: a word is counted once, however long (second.flex:15-17),
\* and a file is in the totals once for each file from it on (28-42).
THEOREM TotalsSum == ScanSpec => []ScanInv
<1>1. ScanInit => ScanIInv
  BY ScanAtFirst, ScanAssumption
<1>2. ScanIInv /\ [ScanNext]_scanVars => ScanIInv'
  <2> SUFFICES ASSUME ScanIInv, [ScanNext]_scanVars  PROVE ScanIInv'
    OBVIOUS
  <2>1. CASE ScanNext
    BY <2>1, RuleKept, NextFileKept DEF ScanNext
  <2>2. CASE UNCHANGED scanVars
    BY <2>2 DEF ScanIInv, scanVars, AddedUp, AllUpto, Reached
  <2> QED BY <2>1, <2>2
<1>3. ScanIInv => ScanInv
  <2> SUFFICES ASSUME ScanIInv  PROVE ScanInv
    OBVIOUS
  <2>1. totals = Sums([k \in DOMAIN argv |-> AllUpto[k]])[file - 1]
    BY DEF ScanIInv, AddedUp
  <2>2. ASSUME rest = <<>>, file <= Len(argv), ~unopened  PROVE <<chars, nwords, lines>> = AllUpto[file]
    <3>1. argv \in Seq(Seq(Characters)) /\ Len(argv) \in Nat /\ file \in 1 .. Len(argv)
      BY <2>2 DEF ScanIInv
    <3>2. PICK q \in 0 .. Len(argv[file]) : Reached(q)
      BY <2>2 DEF ScanIInv
    <3>3. PICK t \in Seq(Characters) : t = argv[file]
      BY <3>1
    <3>4. q = Len(t)
      <4>1. SubSeq(t, q + 1, Len(t)) = <<>> /\ q \in 0 .. Len(t)
        BY <2>2, <3>2, <3>3 DEF Reached
      <4> QED BY <4>1, RestIs
    <3>5. AllUpto[file] = Plus(AllUpto[file - 1], Part(t, Len(t)))
      BY <3>1, <3>3, SumsOfFiles
    <3> QED BY <3>2, <3>3, <3>4, <3>5 DEF Reached
  <2> QED BY <2>1, <2>2 DEF ScanInv
<1> QED BY <1>1, <1>2, <1>3, PTL DEF ScanSpec

\* Side by side, the algorithms compute what their definitions without loops say, for
\* any input of each (BubbleSort.c, LPS.c, max_sub.c, Automata/, second.flex).
THEOREM AlgorithmsHold == SortSpec /\ LpsSpec /\ MaxSubSpec /\ AutSpec /\ ScanSpec => []AlgorithmsInv
BY ListSorted, LongestBorders, BestFound, StatesTell, TotalsSum, PTL DEF AlgorithmsInv

-----------------------------------------------------------------------------
(***************************************************************************)
(* The servers that fork.                                                  *)
(***************************************************************************)
ClientPlaces == {"idle", "typing", "waiting", "closed", "killed"}
Busy == {"handle", "reply", "close"}

ForkTypes ==
    /\ daemon \in {"echo", "daytime"}
    /\ parent \in {"accept", "fork", "wait", "close", "exited"}
    /\ child \in {"none", "exited"} \cup Busy
    /\ accept_fd \in Clients \cup {NONE}
    /\ held \in [{"parent", "child"} -> SUBSET Clients]
    /\ backlog \in Seq(Clients)
    /\ replies \in [Clients -> Nat] /\ client \in [Clients -> ClientPlaces]

\* What each of the two has open, by the place of both.
Descriptors ==
    /\ parent \in {"accept", "exited"} => held["parent"] = {}
    /\ parent \in {"fork", "wait", "close"} => held["parent"] = {accept_fd} \ {NONE}
    /\ held["child"] = IF child \in Busy THEN held["parent"] ELSE {}
    /\ child # "none" => parent = "wait"
    /\ child \in {"reply", "close"} => listens = FALSE
    /\ parent = "fork" \/ child = "handle" => accept_fd # NONE \/ daemon = "echo"
    /\ child = "reply" => accept_fd # NONE

\* A client is connected once: it waits in the queue, or is the one in hand.
ConnectedOnce ==
    /\ \A a, b \in 1 .. Len(backlog) : backlog[a] = backlog[b] => a = b
    /\ \A c \in Queued : client[c] # "idle" /\ c \notin held["parent"] /\ replies[c] = 0
    /\ \A c \in held["parent"] : client[c] # "idle"
    /\ \A c \in Clients : client[c] = "idle" => replies[c] = 0

\* The connection in hand is answered once, between fork and the end of the child.
InHandAnswered ==
    /\ parent = "fork" \/ child \in {"handle", "reply"} =>
          \A c \in held["parent"] : replies[c] = 0
    /\ parent = "close" \/ (parent = "wait" /\ child \in {"none", "close", "exited"}) =>
          \A c \in held["parent"] : replies[c] = 1 \/ c \in excused
    /\ \A c \in Clients : replies[c] <= 1
    /\ \A c \in Clients :
          client[c] # "idle" /\ c \notin Queued \cup held["parent"] \cup excused => replies[c] = 1

ForkIInv == ForkTypes /\ Descriptors /\ ConnectedOnce /\ InHandAnswered

LEMMA ForkAtFirst ==
    ASSUME ForkInit  PROVE ForkIInv
<1>1. ForkTypes
  BY ForkAssumption DEF ForkInit, ForkTypes, ClientPlaces
<1>2. Queued = {} /\ held["parent"] = {} /\ held["child"] = {}
  BY DEF ForkInit, Queued
<1> QED BY <1>1, <1>2 DEF ForkInit, ForkIInv, Descriptors, ConnectedOnce, InHandAnswered, Busy

\* The head of the queue leaves it.
LEMMA QueueHead ==
    ASSUME ForkIInv, backlog # <<>>, NEW q, q = Tail(backlog)
    PROVE  /\ Head(backlog) \in Queued /\ q \in Seq(Clients) /\ Len(q) = Len(backlog) - 1
           /\ \A a \in 1 .. Len(q) : q[a] = backlog[a + 1]
           /\ {q[k] : k \in DOMAIN q} = Queued \ {Head(backlog)}
<1>1. backlog \in Seq(Clients) /\ Len(backlog) >= 1 /\ Head(backlog) = backlog[1]
  BY DEF ForkIInv, ForkTypes
<1>2. q \in Seq(Clients) /\ Len(q) = Len(backlog) - 1 /\ \A a \in 1 .. Len(q) : q[a] = backlog[a + 1]
  BY <1>1
<1>3. Queued = {backlog[k] : k \in 1 .. Len(backlog)} /\ DOMAIN q = 1 .. Len(q)
  BY <1>1, <1>2 DEF Queued
<1>4. \A k \in 1 .. Len(backlog) : k = 1 \/ (k - 1 \in 1 .. Len(q) /\ q[k - 1] = backlog[k])
  BY <1>1, <1>2
<1>5. \A k \in 1 .. Len(q) : k + 1 \in 1 .. Len(backlog) /\ backlog[k + 1] # backlog[1]
  <2>1. \A a, b \in 1 .. Len(backlog) : backlog[a] = backlog[b] => a = b
    BY DEF ForkIInv, ConnectedOnce
  <2> QED BY <1>1, <1>2, <2>1
<1>6. {q[k] : k \in 1 .. Len(q)} \subseteq Queued \ {backlog[1]}
  BY <1>2, <1>3, <1>5
<1>7. Queued \ {backlog[1]} \subseteq {q[k] : k \in 1 .. Len(q)}
  BY <1>3, <1>4
<1>8. backlog[1] \in Queued
  BY <1>1, <1>3
<1> QED BY <1>1, <1>2, <1>3, <1>6, <1>7, <1>8

LEMMA ForkKept ==
    ASSUME ForkIInv, [ForkNext]_forkVars  PROVE ForkIInv'
<1> USE DEF serverVars, clientVars
<1>1. CASE UNCHANGED forkVars
  BY <1>1 DEF forkVars, ForkIInv, ForkTypes, Descriptors, ConnectedOnce, InHandAnswered, Queued
<1>2. CASE ParentAccept
  <2> DEFINE c == Head(backlog)
  <2>1. /\ backlog # <<>> /\ parent = "accept" /\ parent' = "fork" /\ accept_fd' = c /\ child' = child
        /\ child = "none" /\ held["parent"] = {} /\ daemon' = daemon /\ client' = client
        /\ replies' = replies /\ excused' = excused /\ listens' = listens
    BY <1>2 DEF ParentAccept, ForkIInv, Descriptors
  <2>2. c \in Queued /\ c \in Clients /\ c # NONE
    BY <2>1, QueueHead, ForkAssumption DEF Queued, ForkIInv, ForkTypes
  <2>3. /\ backlog' \in Seq(Clients) /\ Len(backlog') = Len(backlog) - 1
        /\ \A a \in 1 .. Len(backlog') : backlog'[a] = backlog[a + 1]
        /\ Queued' = Queued \ {c}
    <3>1. backlog' = Tail(backlog)
      BY <1>2 DEF ParentAccept
    <3>2. /\ backlog' \in Seq(Clients) /\ Len(backlog') = Len(backlog) - 1
          /\ \A a \in 1 .. Len(backlog') : backlog'[a] = backlog[a + 1]
          /\ {backlog'[k] : k \in DOMAIN backlog'} = Queued \ {c}
      <4> DEFINE q == Tail(backlog)
      <4>1. /\ q \in Seq(Clients) /\ Len(q) = Len(backlog) - 1
            /\ \A a \in 1 .. Len(q) : q[a] = backlog[a + 1]
            /\ {q[k] : k \in DOMAIN q} = Queued \ {c}
        BY <2>1, QueueHead
      <4> HIDE DEF q
      <4>2. backlog' = q
        BY <3>1 DEF q
      <4> QED BY <4>1, <4>2
    <3> QED BY <3>2 DEF Queued
  <2>4. /\ held' \in [{"parent", "child"} -> SUBSET Clients]
        /\ held'["parent"] = {c} /\ held'["child"] = held["child"]
    BY <1>2, <2>1, <2>2 DEF ParentAccept, ForkIInv, ForkTypes
  <2> HIDE DEF c
  <2>5. ForkTypes' /\ Descriptors'
    BY <2>1, <2>2, <2>3, <2>4 DEF ForkIInv, ForkTypes, Descriptors, Busy
  <2>6. ConnectedOnce'
    <3>1. \A a, b \in 1 .. Len(backlog') : backlog'[a] = backlog'[b] => a = b
      <4>1. Len(backlog) \in Nat /\ \A a, b \in 1 .. Len(backlog) : backlog[a] = backlog[b] => a = b
        BY DEF ForkIInv, ForkTypes, ConnectedOnce
      <4> QED BY <2>3, <4>1
    <3> QED BY <2>1, <2>2, <2>3, <2>4, <3>1 DEF ForkIInv, ConnectedOnce
  <2>7. InHandAnswered'
    BY <2>1, <2>2, <2>3, <2>4 DEF ForkIInv, ConnectedOnce, InHandAnswered
  <2> QED BY <2>5, <2>6, <2>7 DEF ForkIInv
<1>3. CASE AcceptFails
  <2>1. /\ parent = "accept" /\ held["parent"] = {} /\ held["child"] = {} /\ child = "none"
        /\ UNCHANGED <<daemon, child, listens, backlog, client, replies, excused>>
    BY <1>3 DEF AcceptFails, ForkIInv, Descriptors, Busy
  <2>2. CASE daemon = "echo"
    <3>1. parent' = "fork" /\ accept_fd' = NONE /\ held' = held
      BY <1>3, <2>2 DEF AcceptFails
    <3> QED BY <2>1, <2>2, <3>1
            DEF ForkIInv, ForkTypes, Descriptors, ConnectedOnce, InHandAnswered, Queued, Busy
  <2>3. CASE daemon # "echo"
    <3>1. parent' = "exited" /\ accept_fd' = accept_fd /\ held' = [held EXCEPT !["parent"] = {}]
      BY <1>3, <2>3 DEF AcceptFails, Exits
    <3> QED BY <2>1, <2>3, <3>1
            DEF ForkIInv, ForkTypes, Descriptors, ConnectedOnce, InHandAnswered, Queued, Busy
  <2> QED BY <2>2, <2>3
<1>4. CASE Fork
  BY <1>4 DEF Fork, ForkIInv, ForkTypes, Descriptors, ConnectedOnce, InHandAnswered, Queued, Busy
<1>5. CASE ForkFails
  <2>1. /\ parent = "fork" /\ held["parent"] = {accept_fd} \ {NONE} /\ held["child"] = {}
        /\ child = "none" /\ excused' = excused \cup held["parent"]
        /\ UNCHANGED <<daemon, accept_fd, child, listens, backlog, client, replies>>
    BY <1>5 DEF ForkFails, ForkIInv, Descriptors, Busy
  <2>2. CASE daemon = "echo"
    <3>1. parent' = "exited" /\ held' = [held EXCEPT !["parent"] = {}]
      BY <1>5, <2>2 DEF ForkFails, Exits
    <3> QED BY <2>1, <2>2, <3>1
            DEF ForkIInv, ForkTypes, Descriptors, ConnectedOnce, InHandAnswered, Queued, Busy
  <2>3. CASE daemon # "echo"
    <3>1. parent' = "wait" /\ held' = held
      BY <1>5, <2>3 DEF ForkFails
    <3> QED BY <2>1, <2>3, <3>1
            DEF ForkIInv, ForkTypes, Descriptors, ConnectedOnce, InHandAnswered, Queued, Busy
  <2> QED BY <2>2, <2>3
<1>6. CASE Wait
  BY <1>6 DEF Wait, ForkIInv, ForkTypes, Descriptors, ConnectedOnce, InHandAnswered, Queued, Busy
<1>7. CASE Close
  BY <1>7 DEF Close, ForkIInv, ForkTypes, Descriptors, ConnectedOnce, InHandAnswered, Queued, Busy
<1>8. CASE Handle
  BY <1>8 DEF Handle, ForkIInv, ForkTypes, Descriptors, ConnectedOnce, InHandAnswered, Queued, Busy
<1>9. CASE Reply
  BY <1>9 DEF Reply, ForkIInv, ForkTypes, Descriptors, ConnectedOnce, InHandAnswered, Queued, Busy
<1>10. CASE ChildEnd
  BY <1>10 DEF ChildEnd, Exits, ForkIInv, ForkTypes, Descriptors, ConnectedOnce, InHandAnswered, Queued, Busy
<1>11. ASSUME NEW c \in Clients, Connect(c)  PROVE ForkIInv'
  <2>1. /\ client[c] = "idle" /\ backlog' = Append(backlog, c) /\ client'[c] # "idle"
        /\ client' \in [Clients -> ClientPlaces] /\ \A d \in Clients : d # c => client'[d] = client[d]
        /\ UNCHANGED <<daemon, failures, serverVars, replies, excused>>
    BY <1>11 DEF Connect, ForkIInv, ForkTypes, ClientPlaces
  <2>2. /\ backlog' \in Seq(Clients) /\ Len(backlog') = Len(backlog) + 1 /\ Len(backlog) \in Nat
        /\ backlog'[Len(backlog) + 1] = c /\ \A a \in 1 .. Len(backlog) : backlog'[a] = backlog[a]
    BY <2>1 DEF ForkIInv, ForkTypes
  <2>3. Queued' = Queued \cup {c}
    <3>1. DOMAIN backlog' = 1 .. Len(backlog') /\ DOMAIN backlog = 1 .. Len(backlog)
      BY <2>2 DEF ForkIInv, ForkTypes
    <3>2. \A k \in 1 .. Len(backlog') : k \in 1 .. Len(backlog) \/ k = Len(backlog) + 1
      BY <2>2
    <3> QED BY <2>2, <3>1, <3>2 DEF Queued
  <2>4. c \notin Queued /\ c \notin held["parent"] /\ replies[c] = 0
    BY <2>1 DEF ForkIInv, ConnectedOnce
  <2>5. \A a \in 1 .. Len(backlog) : backlog[a] # c
    BY <2>4 DEF Queued, ForkIInv, ForkTypes
  <2>6. \A a, b \in 1 .. Len(backlog') : backlog'[a] = backlog'[b] => a = b
    <3>1. \A a, b \in 1 .. Len(backlog) : backlog[a] = backlog[b] => a = b
      BY DEF ForkIInv, ConnectedOnce
    <3> QED BY <2>2, <2>5, <3>1
  <2>7. ForkTypes' /\ Descriptors'
    BY <2>1, <2>2 DEF ForkIInv, ForkTypes, Descriptors
  <2>8. ConnectedOnce'
    <3>1. \A d \in Queued : d \in Clients
      BY DEF Queued, ForkIInv, ForkTypes
    <3>2. held["parent"] \subseteq Clients
      BY DEF ForkIInv, ForkTypes
    <3> QED BY <2>1, <2>3, <2>4, <2>6, <3>1, <3>2 DEF ForkIInv, ConnectedOnce
  <2>9. InHandAnswered'
    BY <2>1, <2>3, <2>4 DEF ForkIInv, InHandAnswered
  <2> QED BY <2>7, <2>8, <2>9 DEF ForkIInv
<1>12. ASSUME NEW c \in Clients, UserStep(c)  PROVE ForkIInv'
  <2>1. /\ client' \in [Clients -> ClientPlaces] /\ \A d \in Clients : client'[d] = "idle" <=> client[d] = "idle"
        /\ UNCHANGED <<daemon, serverVars, backlog, replies, excused>>
    <3>1. client \in [Clients -> ClientPlaces]
      BY DEF ForkIInv, ForkTypes
    <3>2. CASE Send(c)
      BY <3>1, <3>2 DEF Send, ClientPlaces
    <3>3. CASE Receive(c)
      BY <3>1, <3>3 DEF Receive, ClientPlaces
    <3>4. CASE Exit(c)
      BY <3>1, <3>4 DEF Exit, ClientPlaces
    <3> QED BY <1>12, <3>2, <3>3, <3>4 DEF UserStep
  <2>2. Queued' = Queued /\ (\A d \in Queued : d \in Clients) /\ held["parent"] \subseteq Clients
    BY <2>1 DEF Queued, ForkIInv, ForkTypes
  <2>3. ForkTypes' /\ Descriptors'
    BY <2>1 DEF ForkIInv, ForkTypes, Descriptors
  <2>4. ConnectedOnce' /\ InHandAnswered'
    BY <2>1, <2>2 DEF ForkIInv, ConnectedOnce, InHandAnswered
  <2> QED BY <2>3, <2>4 DEF ForkIInv
<1> QED BY <1>1, <1>2, <1>3, <1>4, <1>5, <1>6, <1>7, <1>8, <1>9, <1>10, <1>11, <1>12
        DEF ForkNext, ServerStep

-----------------------------------------------------------------------------
(***************************************************************************)
(* The upload.                                                             *)
(***************************************************************************)
UploadTypes ==
    /\ remaining \in Nat /\ read \in Nat /\ wire \in Nat /\ stored \in Nat /\ length \in Nat
    /\ sender \in {"connect", "open", "send", "closed", "killed", "refused"}
    /\ receiver \in {"accept", "receive", "closed", "failed"}

\* Nothing is read before the loop, and it ends only when nothing is left to send;
\* the server closes its file only when nothing can come any more.
UploadIInv ==
    /\ UploadTypes
    /\ stored + wire <= read /\ read <= length
    /\ sender \in {"connect", "open"} => read = 0
    /\ sender \in {"send", "closed"} /\ receiver # "failed" => remaining + wire + stored = length
    /\ sender \in {"send", "closed"} => remaining = length - read
    /\ sender = "closed" => remaining = 0
    /\ receiver = "closed" => sender \in {"closed", "killed"} /\ wire = 0

LEMMA UploadAtFirst ==
    ASSUME UploadInit  PROVE UploadIInv
BY UploadAssumption DEF UploadInit, UploadIInv, UploadTypes

LEMMA UploadKept ==
    ASSUME UploadIInv, [UploadNext]_uploadVars  PROVE UploadIInv'
<1> USE UploadAssumption DEF UploadIInv, UploadTypes, fileVars, senderVars, receiverVars
<1>1. CASE UNCHANGED uploadVars
  BY <1>1 DEF uploadVars
<1>2. CASE UploadConnect
  BY <1>2 DEF UploadConnect
<1>3. CASE SendCall
  BY <1>3 DEF SendCall
<1>4. CASE SendTurn
  <2>1. PICK nread \in Freads :
           /\ remaining' = remaining - nread /\ read' = read + nread
           /\ IF nread > 0 \/ remaining' # 0
                 THEN /\ wire' = IF receiver = "failed" THEN wire ELSE wire + nread
                      /\ UNCHANGED sender
                 ELSE sender' = "closed" /\ UNCHANGED wire
    BY <1>4 DEF SendTurn
  <2>2. nread \in 0 .. length - read
    BY DEF Freads, min
  <2>3. nread <= remaining
    BY <1>4, <2>2 DEF SendTurn
  <2> QED BY <1>4, <2>1, <2>2, <2>3 DEF SendTurn
<1>5. CASE Killed
  <2>1. /\ sender = "send" /\ sender' = "killed" /\ receiver # "closed"
        /\ remaining' = remaining /\ read' = read /\ length' = length
        /\ stored' = stored /\ receiver' = receiver
    BY <1>5 DEF Killed
  <2>2. CASE wire' = wire
    BY <2>1, <2>2
  <2>3. CASE wire' = 0
    BY <2>1, <2>3
  <2> QED BY <1>5, <2>2, <2>3 DEF Killed
<1>6. CASE UploadAccept
  BY <1>6 DEF UploadAccept
<1>7. CASE UploadFails
  BY <1>7 DEF UploadFails
<1>8. CASE ReceiveTurn
  BY <1>8 DEF ReceiveTurn, min
<1>9. CASE ReceiveEnd
  BY <1>9 DEF ReceiveEnd
<1> QED BY <1>1, <1>2, <1>3, <1>4, <1>5, <1>6, <1>7, <1>8, <1>9
        DEF UploadNext, SenderStep, ReceiverStep

-----------------------------------------------------------------------------
(***************************************************************************)
(* The client of the database.                                             *)
(***************************************************************************)
DbTypes ==
    /\ call \in 0 .. 7 /\ step \in {"call", "store", "fetch", "free", "prepare", "execute", "close"}
    /\ ending \in {"none", "closed", "exit", "segv"} /\ student \subseteq Students

\* What of the library is allocated, by the place in the call.
Allocation ==
    /\ ending = "none" /\ call = 0 => step = "call" /\ allocated = {}
    /\ ending = "none" /\ call > 0 =>
         /\ step \in {"call", "store"} => allocated = {"conn"}
         /\ step = "fetch" => allocated = {"conn", "result"}
         /\ step = "free" => allocated \ {"result"} = {"conn"}
         /\ step \in {"prepare", "execute", "close"} => allocated = {"conn", "stmt"}
    /\ ending = "closed" => allocated = {} /\ step = "call"

\* The rows of the answer are printed or still to be fetched.
Listing ==
    /\ step = "store" => shown = {} /\ (answer_rows # NoAnswer => answer_rows = selected)
    /\ step = "fetch" => shown \cup answer_rows = selected
    /\ step = "free" => shown = selected

\* The second listing asks when the student has been deleted.
Away ==
    /\ stays_away => Deleted \notin student
    /\ call \in 5 .. 6 /\ step \in {"store", "fetch", "free"} /\ stays_away => Deleted \notin selected

DbIInv == DbTypes /\ Allocation /\ Listing /\ Away

LEMMA DbAtFirst ==
    ASSUME DbInit  PROVE DbIInv
<1>1. student \subseteq Students
  BY DEF DbInit
<1> QED BY <1>1 DEF DbInit, DbIInv, DbTypes, Allocation, Listing, Away

LEMMA CallsAre ==
    /\ DOMAIN Calls = 1 .. 6 /\ Len(Calls) = 6
    /\ \A c \in 1 .. 6 : Calls[c] = "deleteStudent" <=> c = 4
    /\ Calls[5] = "student" /\ Calls[6] = "grades"
BY DEF Calls

LEMMA DbKept ==
    ASSUME DbIInv, [DbNext]_dbVars  PROVE DbIInv'
<1> USE DEF DbIInv, DbTypes, Allocation, Listing, Away, answerVars, boundVars, In, Works, Error, Segfault
<1>1. CASE UNCHANGED dbVars
  BY <1>1 DEF dbVars
<1>2. CASE RealConnect
  BY <1>2 DEF RealConnect
<1>3. CASE CloseConn
  BY <1>3 DEF CloseConn
<1>4. CASE Other
  <2>1. PICK s \in Students :
          /\ student' = IF s \in student THEN student \ {s} ELSE student \cup {s}
          /\ stays_away' = (stays_away /\ (s = Deleted => s \in student))
    BY <1>4 DEF Other
  <2> QED BY <1>4, <2>1 DEF Other
<1> SUFFICES ASSUME NEW c \in 1 .. 6,
                    \/ Query(c) \/ Store(c) \/ Fetch(c) \/ Free(c)
                    \/ StmtInit(c) \/ Prepare(c) \/ Execute(c) \/ StmtClose(c)
             PROVE  DbIInv'
  BY <1>1, <1>2, <1>3, <1>4, CallsAre DEF DbNext, DbStep
<1>5. CASE Query(c)
  <2>1. c # 4 /\ step' \in {"store", "free"} /\ call' = c /\ shown' = {} /\ student' = student
        /\ allocated' = {"conn"} /\ ending' = "none" /\ stays_away' = stays_away
        /\ (step' = "free" => selected' = {})
        /\ (answer_rows' # NoAnswer => answer_rows' = selected')
    BY <1>5, CallsAre DEF Query
  <2>2. c \in 5 .. 6 => selected' \subseteq student
    BY <1>5, CallsAre DEF Query, Selects
  <2> QED BY <2>1, <2>2
<1>6. CASE Store(c)
  BY <1>6 DEF Store
<1>7. CASE Fetch(c)
  BY <1>7 DEF Fetch
<1>8. CASE Free(c)
  BY <1>8 DEF Free
<1>9. CASE StmtInit(c)
  BY <1>9, CallsAre DEF StmtInit
<1>10. CASE Prepare(c)
  BY <1>10 DEF Prepare
<1>11. CASE Execute(c)
  BY <1>11 DEF Execute
<1>12. CASE StmtClose(c)
  BY <1>12 DEF StmtClose
<1> QED BY <1>5, <1>6, <1>7, <1>8, <1>9, <1>10, <1>11, <1>12

-----------------------------------------------------------------------------
\* The servers that fork have one child at a time and keep no descriptor, and each
\* client is answered once; an upload loses no byte; main keeps nothing of the
\* library between its calls, and prints what its queries selected
\* (Echo/echo_server.c:60-72, UploadFile/client.c:60-70, StudenDatabase/main.c:81-95).
THEOREM ServersHold == Spec => []ServersInv
<1> DEFINE All == ForkIInv /\ UploadIInv /\ DbIInv
<1>1. Init => All
  BY ForkAtFirst, UploadAtFirst, DbAtFirst DEF Init
<1>2. All /\ [Next]_vars => All'
  <2> SUFFICES ASSUME All, [Next]_vars  PROVE All'
    OBVIOUS
  <2>1. [ForkNext]_forkVars /\ [UploadNext]_uploadVars /\ [DbNext]_dbVars
    BY DEF Next, vars, InFork, InUpload, InDb
  <2> QED BY <2>1, ForkKept, UploadKept, DbKept
<1>3. All => ServersInv
  <2> SUFFICES ASSUME All  PROVE ServersInv
    OBVIOUS
  <2>1. ForkInv
    BY DEF ForkIInv, ForkTypes, Descriptors, ForkInv, Open, Busy
  <2>2. Answered
    <3> SUFFICES ASSUME NEW c \in Clients
                 PROVE  /\ replies[c] <= 1
                        /\ client[c] # "idle" /\ Gone(c) /\ c \notin Queued \cup excused => replies[c] = 1
      BY DEF Answered
    <3>1. c \notin Open => c \notin held["parent"]
      BY DEF Open
    <3> QED BY <3>1 DEF ForkIInv, InHandAnswered, Gone
  <2>3. UploadInv
    BY DEF UploadIInv, UploadTypes, UploadInv
  <2>4. DatabaseInv
    BY DEF DbIInv, DbTypes, Allocation, Listing, Away, DatabaseInv
  <2> QED BY <2>1, <2>2, <2>3, <2>4 DEF ServersInv
<1> HIDE DEF All
<1> QED BY <1>1, <1>2, <1>3, PTL DEF Spec
=============================================================================

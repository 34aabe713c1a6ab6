---------------------------- MODULE BreadthFirst ----------------------------
(* DataStructures/BFS/main.c: bfs with its array queue. *)
EXTENDS AdjLists

VARIABLES
    queue,              \* t.a[0 .. t.rear], what has been inserted
    front               \* t.front, -1 before the first insert

bfsLocals == <<visited, list, p, phase, queue, front>>
bfsVars   == <<graphVars, bfsLocals>>

rear == Len(queue) - 1

BfsInit == traversal = "bfs" /\ GraphInit /\ queue = <<>> /\ front = -1

\* add
BfsAdd(src, dest) ==
    /\ phase = "build" /\ edges < MaxEdges
    /\ LET one == Prepend(adj, src, dest)
       IN  adj' = IF dir THEN one ELSE Prepend(one, dest, src)
    /\ edges' = edges + 1
    /\ UNCHANGED <<traversal, dir, bfsLocals>>

\* insert.  Its test for overflow only prints, and compares front, not rear.
Insert(v) == queue' = Append(queue, v) /\ front' = IF front = -1 THEN 0 ELSE front

isEmpty == front > rear \/ front = -1

\* bfs up to its loop
BfsCall ==
    /\ phase = "build" /\ phase' = "loop"
    /\ visited' = {start}
    /\ Insert(start)
    /\ UNCHANGED <<graphVars, list, p>>

\* A turn of the outer loop begins: get_head.
BfsHead ==
    /\ phase = "loop" /\ ~isEmpty /\ phase' = "scan"
    /\ list' = queue[front + 1] /\ p' = 1
    /\ UNCHANGED <<graphVars, visited, queue, front>>

\* Mutant: a vertex is marked when it leaves the queue.
BfsScanUnmarked ==
    /\ phase = "scan" /\ p <= Len(adj[list])
    /\ p' = p + 1
    /\ IF adj[list][p] \in visited
       THEN UNCHANGED <<visited, queue, front>>
       ELSE visited' = visited \cup {list} /\ Insert(adj[list][p])
    /\ UNCHANGED <<graphVars, list, phase>>

\* Mutant: the walk goes on in the list of the vertex inserted.
BfsScanDescends ==
    /\ phase = "scan" /\ p <= Len(adj[list])
    /\ IF adj[list][p] \in visited
       THEN p' = p + 1 /\ UNCHANGED <<visited, list, queue, front>>
       ELSE /\ visited' = visited \cup {adj[list][p]} /\ Insert(adj[list][p])
            /\ list' = adj[list][p] /\ p' = 1
    /\ UNCHANGED <<graphVars, phase>>

\* A turn of the inner loop.
BfsScan ==
    /\ phase = "scan" /\ p <= Len(adj[list])
    /\ p' = p + 1
    /\ IF adj[list][p] \in visited
       THEN UNCHANGED <<visited, queue, front>>
       ELSE visited' = visited \cup {adj[list][p]} /\ Insert(adj[list][p])
    /\ UNCHANGED <<graphVars, list, phase>>

\* Mutant: the last node of a list is skipped.
BfsDeqEarly ==
    /\ phase = "scan" /\ p >= Len(adj[list]) /\ phase' = "loop"
    /\ front' = front + 1
    /\ UNCHANGED <<graphVars, visited, list, p, queue>>

\* The turn of the outer loop ends: deq.
BfsDeq ==
    /\ phase = "scan" /\ p > Len(adj[list]) /\ phase' = "loop"
    /\ front' = front + 1
    /\ UNCHANGED <<graphVars, visited, list, p, queue>>

BfsReturn ==
    /\ phase = "loop" /\ isEmpty /\ phase' = "done"
    /\ UNCHANGED <<graphVars, visited, list, p, queue, front>>

BfsDelete == DeleteGraph /\ UNCHANGED <<queue, front>>

BfsNext ==
    \/ \E src, dest \in Vertices : BfsAdd(src, dest)
    \/ BfsCall \/ BfsHead \/ BfsScan \/ BfsDeq \/ BfsReturn
    \/ BfsDelete

BfsSpec == BfsInit /\ [][BfsNext]_bfsVars
-----------------------------------------------------------------------------
\* Every variable stays in its domain, the indices in the array malloc'd for
\* num_vert vertices (lines 63, 198): insert does not look at its end.
BfsTypeOK ==
    /\ GraphTypeOK
    /\ queue \in Seq(Vertices) /\ Len(queue) <= num_vert
    /\ front \in -1 .. Len(queue) /\ (phase # "build" => front >= 0)

\* A vertex is marked when it is inserted, so it is inserted once (lines 72-74).
QueuedOnce ==
    /\ visited = {queue[i] : i \in 1 .. Len(queue)}
    /\ \A i, j \in 1 .. Len(queue) : queue[i] = queue[j] => i = j

\* The vertices that have left the queue have only visited successors, and the
\* one whose list is walked is the head (lines 69, 79).
Done ==
    /\ phase \in {"loop", "done", "deleted"} =>
          /\ start \in visited
          /\ \A i \in 1 .. front : Successors(queue[i]) \subseteq visited
    /\ phase = "scan" =>
          /\ start \in visited
          /\ front < Len(queue) /\ list = queue[front + 1]
          /\ \A i \in 1 .. front : Successors(queue[i]) \subseteq visited

\* Exactly the reachable vertices, each once, within the array.
BfsInv == traversal = "bfs" =>
    /\ BfsTypeOK /\ QueuedOnce /\ Walked /\ Done
    /\ (phase \in {"done", "deleted"} => front = Len(queue))
    /\ (phase = "build" => queue = <<>> /\ front = -1)
    /\ OnlyReachable /\ AllReachable

\* The vertices at most n edges from the start.
Within[n \in 0 .. num_vert] ==
    IF n = 0 THEN {start} ELSE Within[n - 1] \cup UNION {Successors(v) : v \in Within[n - 1]}

\* What makes it breadth first: the nearer vertex is printed first, though its
\* position in the lists may be anywhere (line 71).
NearestFirst == traversal = "bfs" =>
    \A i, j \in 1 .. Len(queue) : i < j =>
        \A n \in 0 .. num_vert : queue[j] \in Within[n] => queue[i] \in Within[n]
=============================================================================

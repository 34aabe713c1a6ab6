----------------------------- MODULE DepthFirst -----------------------------
(* DataStructures/DFS/main.c: dfs with its array stack. *)
EXTENDS AdjLists

VARIABLE stack          \* t.a[0 .. t.top]

dfsVars == <<graphVars, visited, list, p, phase, stack>>

top == Len(stack)       \* t.top + 1

DfsInit == traversal = "dfs" /\ GraphInit /\ stack = <<>>

\* add: whatever g->directed says, the edge has one direction.
DfsAdd(src, dest) ==
    /\ phase = "build" /\ edges < MaxEdges
    /\ adj' = Prepend(adj, src, dest) /\ edges' = edges + 1
    /\ UNCHANGED <<traversal, dir, visited, list, p, phase, stack>>

\* push: its test lets through one element more than the array has.
Push(v) == stack' = IF top - 1 < num_vert THEN Append(stack, v) ELSE stack

\* dfs up to its loop
DfsCall ==
    /\ phase = "build" /\ phase' = "loop"
    /\ visited' = {start} /\ Push(start)
    /\ UNCHANGED <<graphVars, list, p>>

\* A turn of the outer loop begins: get_first.
DfsFirst ==
    /\ phase = "loop" /\ stack # <<>> /\ phase' = "scan"
    /\ list' = stack[top] /\ p' = 1
    /\ UNCHANGED <<graphVars, visited, stack>>

DfsNextNode ==
    /\ phase = "scan" /\ p <= Len(adj[list]) /\ adj[list][p] \in visited
    /\ p' = p + 1
    /\ UNCHANGED <<graphVars, visited, list, phase, stack>>

\* Mutant: the vertex is not marked.
DescendUnmarked ==
    /\ phase = "scan" /\ p <= Len(adj[list]) /\ adj[list][p] \notin visited
    /\ Push(adj[list][p])
    /\ list' = adj[list][p] /\ p' = 1
    /\ UNCHANGED <<graphVars, visited, phase>>

\* The walk goes on in the list of the vertex pushed.
Descend ==
    /\ phase = "scan" /\ p <= Len(adj[list]) /\ adj[list][p] \notin visited
    /\ visited' = visited \cup {adj[list][p]} /\ Push(adj[list][p])
    /\ list' = adj[list][p] /\ p' = 1
    /\ UNCHANGED <<graphVars, phase>>

\* The turn of the outer loop ends: pop.
DfsPop ==
    /\ phase = "scan" /\ p > Len(adj[list]) /\ phase' = "loop"
    /\ stack' = SubSeq(stack, 1, top - 1)
    /\ UNCHANGED <<graphVars, visited, list, p>>

DfsReturn ==
    /\ phase = "loop" /\ stack = <<>> /\ phase' = "done"
    /\ UNCHANGED <<graphVars, visited, list, p, stack>>

DfsDelete == DeleteGraph /\ UNCHANGED stack

DfsNext ==
    \/ \E src, dest \in Vertices : DfsAdd(src, dest)
    \/ DfsCall \/ DfsFirst \/ DfsNextNode \/ Descend \/ DfsPop \/ DfsReturn
    \/ DfsDelete

DfsSpec == DfsInit /\ [][DfsNext]_dfsVars
-----------------------------------------------------------------------------
OnStack == {stack[i] : i \in 1 .. top}

\* Every variable stays in its domain, top in the array malloc'd for num_vert
\* vertices (lines 71, 183), which the test of push (line 169) does not see to.
DfsTypeOK == GraphTypeOK /\ stack \in Seq(Vertices) /\ Len(stack) <= num_vert

\* The stack is a path of visited vertices without repetition, and ends in the
\* vertex whose list is walked, also after the descents of one turn (lines 77, 87).
StackIsPath ==
    /\ OnStack \subseteq visited
    /\ \A i, j \in 1 .. top : stack[i] = stack[j] => i = j
    /\ \A i \in 1 .. top - 1 : stack[i + 1] \in Successors(stack[i])
    /\ phase = "scan" => stack # <<>> /\ list = stack[top]

\* A vertex leaves the stack when all its successors are visited.
PoppedDone == \A v \in visited \ OnStack : Successors(v) \subseteq visited

\* Exactly the reachable vertices, within the array.
DfsInv == traversal = "dfs" =>
    /\ DfsTypeOK /\ StackIsPath /\ PoppedDone /\ Walked
    /\ (phase = "build" => visited = {} /\ stack = <<>>)
    /\ (phase # "build" => start \in visited)
    /\ (phase \in {"done", "deleted"} => stack = <<>>)
    /\ OnlyReachable /\ AllReachable
=============================================================================

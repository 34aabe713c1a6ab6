------------------------------ MODULE AdjLists ------------------------------
(***************************************************************************)
(* DataStructures/BFS/main.c and DataStructures/DFS/main.c: the graph of   *)
(* both programs, an array of adjacency lists, and the locals that both    *)
(* traversals have.  main builds some graph, traverses it from one vertex  *)
(* and deletes it.                                                         *)
(***************************************************************************)
EXTENDS Integers, Sequences

CONSTANTS num_vert,
          start,        \* the vertex that main passes to the traversal
          MaxEdges      \* the bound on main's calls of add

ASSUME GraphAssumption ==
    num_vert \in Nat \ {0} /\ start \in 0 .. num_vert - 1 /\ MaxEdges \in Nat

VARIABLES
    traversal,          \* the program: "bfs" or "dfs"
    adj,                \* adj[v], the vertices in the list of v, head first
    dir,                \* g->dir
    edges,              \* the calls of add
    visited,            \* the vertices v with visited[v]
    list, p,            \* p is the p-th node of the list of this vertex, or NULL after the last
    phase               \* "build", "loop", "scan" (in the inner loop), "done", "deleted"

graphVars == <<traversal, adj, dir, edges>>

Vertices == 0 .. num_vert - 1

\* create_graph, in a program that has not called its traversal yet
GraphInit ==
    /\ adj = [v \in Vertices |-> <<>>] /\ dir \in BOOLEAN /\ edges = 0
    /\ visited = {} /\ list = start /\ p = 1 /\ phase = "build"

\* The lists g with a new node for dest before the head of src's.
Prepend(g, src, dest) == [g EXCEPT ![src] = <<dest>> \o @]

\* delete_graph: every node is freed.  The heads keep their values, unread.
DeleteGraph ==
    /\ phase = "done" /\ phase' = "deleted"
    /\ UNCHANGED <<graphVars, visited, list, p>>

-----------------------------------------------------------------------------
Successors(v) == {adj[v][i] : i \in DOMAIN adj[v]}

\* No edge leaves the set C.
Closed(C) == \A v \in C : Successors(v) \subseteq C

GraphTypeOK ==
    /\ adj \in [Vertices -> Seq(Vertices)]
    /\ dir \in BOOLEAN /\ edges \in 0 .. MaxEdges
    /\ visited \subseteq Vertices
    /\ list \in Vertices /\ p \in Nat \ {0}
    /\ phase \in {"build", "loop", "scan", "done", "deleted"}

\* Only what can be reached is visited: visited is in every set with the start
\* that no edge leaves.
OnlyReachable ==
    \A C \in SUBSET Vertices : start \in C /\ Closed(C) => visited \subseteq C

\* A traversal that ends has visited all that can be reached, whatever cycles,
\* double edges or loops the graph has.
AllReachable == phase \in {"done", "deleted"} => start \in visited /\ Closed(visited)

\* Before its node, the list being walked has only visited vertices.
Walked == phase = "scan" => p <= Len(adj[list]) + 1 /\ \A i \in 1 .. p - 1 : adj[list][i] \in visited
=============================================================================

---------------------------- MODULE LinkedLists -----------------------------
(***************************************************************************)
(* The linked lists of DataStructures/: the deque with two links of        *)
(* DoublyLinkedListDequ.c and the list with one link of LinkedList/DQ.c.   *)
(* Each program calls its operations in any order; one step is one call,   *)
(* but one turn of the loop in reverse_list.  A step through a null        *)
(* pointer ends the program.                                               *)
(***************************************************************************)
EXTENDS Integers, FiniteSets, SequencesExt

CONSTANTS Nodes,        \* the memory; an address may be used again once it is freed
          Data, NULL,
          SizeofInt,    \* in bytes: what DQ.c asks for when it makes a node,
          SizeofNode,   \* a node of two fields,
          MinBlock      \* and the least block that malloc gives

ASSUME ListAssumption ==
    /\ IsFiniteSet(Nodes) /\ NULL \notin Nodes /\ Data \subseteq Int /\ Data # {}
    \* glibc's least block has 24 bytes that can be used, a node takes 16.  With a
    \* malloc of exact blocks DQ.c writes behind the block of every node it makes.
    /\ {SizeofInt, SizeofNode, MinBlock} \subseteq Nat /\ SizeofNode <= MinBlock

VARIABLES
    kind,               \* the program: "dq" or "sl"
    live,               \* the nodes that are allocated
    data, next, prev,   \* the fields of each node; "sl" has no prev
    head, tail, size,   \* the deque's fields; "sl" has a head only
    done, cur,          \* prev and cur in reverse_list
    status              \* "ok", "reverse", "ended", "segv" (the end of the program)

fields   == <<data, next, prev>>
ends     == <<head, tail, size>>
listVars == <<kind, live, fields, ends, done, cur, status>>

ListInit ==
    /\ kind \in {"dq", "sl"} /\ live = {}
    /\ data = [n \in Nodes |-> 0]
    /\ next = [n \in Nodes |-> NULL] /\ prev = [n \in Nodes |-> NULL]
    /\ head = NULL /\ tail = NULL /\ size = 0
    /\ done = NULL /\ cur = NULL /\ status = "ok"

\* The node that is k steps from n, and NULL behind the last one.
Steps(n, pointer) ==
    LET reach[k \in 0 .. Cardinality(Nodes)] ==
            LET m == reach[k - 1]
            IN  IF k = 0 THEN n ELSE IF m \in Nodes THEN pointer[m] ELSE NULL
    IN  reach

\* The nodes from n on, in the order of a link.
Along(n, pointer) ==
    LET reach == Steps(n, pointer)
    IN  [k \in 1 .. Cardinality({h \in DOMAIN reach : reach[h] \in Nodes}) |-> reach[k - 1]]

Chain == Along(head, next)

Running(k) == status = "ok" /\ kind = k
Crash      == status' = "segv" /\ UNCHANGED <<kind, live, fields, ends, done, cur>>
Goes       == UNCHANGED <<kind, done, cur, status>>

\* Mutant: malloc gives just what it is asked for.
UsableExact(bytes) == bytes

\* malloc rounds up a small request.
Usable(bytes) == IF bytes < MinBlock THEN MinBlock ELSE bytes

\* DQ.c allocates sizeof(int) for a node (line 127).
Whole == kind = "dq" \/ SizeofNode <= Usable(SizeofInt)

\* create_node, with the links that the caller then gives it: a store behind the
\* block changes a link somewhere.
New(n, d, after, before) ==
    LET linked == [m \in Nodes |-> IF m = n THEN after ELSE IF m = before THEN n ELSE next[m]]
    IN  /\ n \in Nodes \ live /\ live' = live \cup {n}
        /\ data' = [data EXCEPT ![n] = d]
        /\ next' \in IF Whole THEN {linked}
                     ELSE {[linked EXCEPT ![m] = x] : m \in Nodes, x \in Nodes \cup {NULL}}
        /\ prev' = [m \in Nodes |-> IF kind # "dq" THEN NULL
                                    ELSE IF m = n THEN before ELSE IF m = after THEN n ELSE prev[m]]

-----------------------------------------------------------------------------
\* DoublyLinkedListDequ.c

\* insert: the first node is not entered as the tail.
DqInsert(n, d) ==
    /\ Running("dq") /\ Goes /\ size' = size + 1
    /\ IF head = NULL THEN New(n, d, NULL, NULL) /\ head' = n /\ UNCHANGED tail
                      ELSE New(n, d, NULL, Last(Chain)) /\ tail' = n /\ UNCHANGED head

DqInsertFirst(n, d) ==
    /\ Running("dq")
    /\ IF head = NULL THEN Crash
       ELSE Goes /\ New(n, d, head, NULL) /\ head' = n /\ size' = size + 1 /\ UNCHANGED tail

\* Mutant: the tail stays where it was.
DqInsertLastStale(n, d) ==
    /\ Running("dq")
    /\ IF tail = NULL THEN Crash
       ELSE Goes /\ New(n, d, NULL, tail) /\ size' = size + 1 /\ UNCHANGED <<head, tail>>

DqInsertLast(n, d) ==
    /\ Running("dq")
    /\ IF tail = NULL THEN Crash
       ELSE Goes /\ New(n, d, NULL, tail) /\ tail' = n /\ size' = size + 1 /\ UNCHANGED head

DqRemoveFirst ==
    /\ Running("dq")
    /\ IF head = NULL \/ next[head] = NULL THEN Crash
       ELSE /\ Goes /\ head' = next[head] /\ prev' = [prev EXCEPT ![next[head]] = NULL]
            /\ live' = live \ {head} /\ size' = size - 1
            /\ UNCHANGED <<data, next, tail>>

DqRemoveLast ==
    /\ Running("dq")
    /\ IF tail = NULL THEN Crash
       ELSE IF prev[tail] = NULL THEN Crash
       ELSE /\ Goes /\ tail' = prev[tail] /\ next' = [next EXCEPT ![prev[tail]] = NULL]
            /\ live' = live \ {tail} /\ size' = size - 1
            /\ UNCHANGED <<data, prev, head>>

\* delete_dq, main's last call
DqDelete ==
    /\ Running("dq") /\ status' = "ended" /\ live' = live \ ToSet(Chain)
    /\ head' = NULL /\ size' = size - Len(Chain)
    /\ UNCHANGED <<kind, fields, tail, done, cur>>

-----------------------------------------------------------------------------
\* LinkedList/DQ.c

InsertFront(n, d) ==
    /\ Running("sl") /\ Goes /\ New(n, d, head, NULL) /\ head' = n /\ UNCHANGED <<tail, size>>

\* Mutant: the node goes to the wrong end.
SlAppendFront(n, d) == InsertFront(n, d)

SlAppend(n, d) ==
    /\ Running("sl") /\ Goes
    /\ IF head = NULL THEN New(n, d, NULL, NULL) /\ head' = n
                      ELSE New(n, d, NULL, Last(Chain)) /\ UNCHANGED head
    /\ UNCHANGED <<tail, size>>

SlInsertLast(n, d) ==
    /\ Running("sl")
    /\ IF head = NULL THEN Crash
       ELSE Goes /\ New(n, d, NULL, Last(Chain)) /\ UNCHANGED ends

SlRemoveFirst ==
    /\ Running("sl") /\ Goes /\ head # NULL
    /\ head' = next[head] /\ live' = live \ {head}
    /\ UNCHANGED <<fields, tail, size>>

\* remove_last: the node before the only one is looked for in vain.
SlRemoveLast ==
    /\ Running("sl") /\ head # NULL
    /\ IF next[head] = NULL THEN Crash
       ELSE /\ Goes /\ next' = [next EXCEPT ![Chain[Len(Chain) - 1]] = NULL]
            /\ live' = live \ {Last(Chain)}
            /\ UNCHANGED <<data, prev, ends>>

\* freeList, main's last call, is given the head and leaves main's as it was.
SlFree ==
    /\ Running("sl") /\ status' = "ended" /\ live' = live \ ToSet(Chain)
    /\ UNCHANGED <<kind, fields, ends, done, cur>>

ReverseCall ==
    /\ Running("sl") /\ status' = "reverse" /\ done' = NULL /\ cur' = head
    /\ UNCHANGED <<kind, live, fields, ends>>

\* Mutant: the turn reads the link it has just changed.
ReverseTurnLate ==
    /\ status = "reverse" /\ cur # NULL
    /\ next' = [next EXCEPT ![cur] = done] /\ done' = cur /\ cur' = next'[cur]
    /\ UNCHANGED <<kind, live, data, prev, ends, status>>

ReverseTurn ==
    /\ status = "reverse" /\ cur # NULL
    /\ next' = [next EXCEPT ![cur] = done] /\ done' = cur /\ cur' = next[cur]
    /\ UNCHANGED <<kind, live, data, prev, ends, status>>

ReverseReturn ==
    /\ status = "reverse" /\ cur = NULL /\ status' = "ok" /\ head' = done /\ done' = NULL
    /\ UNCHANGED <<kind, live, fields, tail, size, cur>>

ListNext ==
    \/ \E n \in Nodes, d \in Data :
          \/ DqInsert(n, d) \/ DqInsertFirst(n, d) \/ DqInsertLast(n, d)
          \/ InsertFront(n, d) \/ SlAppend(n, d) \/ SlInsertLast(n, d)
    \/ DqRemoveFirst \/ DqRemoveLast \/ DqDelete
    \/ SlRemoveFirst \/ SlRemoveLast \/ SlFree \/ ReverseCall \/ ReverseTurn \/ ReverseReturn

ListSpec == ListInit /\ [][ListNext]_listVars
-----------------------------------------------------------------------------
\* The nodes of the list, while it is reversed too: what is done, turned back,
\* and the rest.
Order ==
    IF status = "ended" THEN <<>>
    ELSE IF status = "reverse" THEN Reverse(Along(done, next)) \o Along(cur, next)
    ELSE Chain

\* No call loses a node or frees one that is in use, nor does a turn of the loop
\* in reverse_list; and the deque's links back are the reverse of its links
\* forward.  Its tail is the last node, or still NULL: insert enters the tail
\* only behind another node, and insert_first never does (lines 106, 83).
Linked ==
    status \in {"ok", "reverse"} =>
        /\ Len(Order) = Cardinality(live) /\ live = ToSet(Order)
        /\ kind = "dq" =>
              /\ size = Len(Chain)
              /\ tail # NULL => head # NULL
              /\ head # NULL => /\ tail \in {NULL, Last(Chain)}
                                /\ Along(Last(Chain), prev) = Reverse(Chain)

\* A list that is freed is freed whole, and a call fails only on a list of less
\* than two nodes or a deque with no tail yet (lines 67, 73, 81, 88; DQ.c 82, 92).
Failures ==
    /\ status = "ended" => live = {}
    /\ status = "segv" => Len(Chain) < 2 \/ (kind = "dq" /\ tail = NULL)

ListInv == Linked /\ Failures

\* The values in that order.
Items == LET order == Order IN [k \in 1 .. Len(order) |-> data[order[k]]]

Abs == INSTANCE DequeSpec WITH items <- Items

\* A call that adds a node n, one that takes a node off, and so on.
EachCall ==
    /\ \A n \in live' \ live, d \in Data :
          /\ DqInsert(n, d) \/ DqInsertLast(n, d) \/ SlAppend(n, d) \/ SlInsertLast(n, d) => Abs!AddLast(d)
          /\ DqInsertFirst(n, d) \/ InsertFront(n, d) => Abs!AddFirst(d)
    /\ DqRemoveFirst \/ SlRemoveFirst => Abs!DropFirst
    /\ DqRemoveLast \/ SlRemoveLast => Abs!DropLast
    /\ DqDelete \/ SlFree => Abs!Clear
    /\ ReverseCall \/ ReverseTurn => UNCHANGED Items
    /\ ReverseReturn => Abs!Turn

\* Each call that returns is the operation on a sequence that it is named for:
\* insert, insert_last and append add at the end, and so on.  reverse_list turns
\* the sequence round at its return, after turns that leave it as it was.  A call
\* that fails has changed nothing.
ListsAreDeques ==
    /\ Abs!Deque
    /\ [][listVars' # listVars => IF status' = "segv" THEN UNCHANGED Items ELSE EachCall]_listVars
=============================================================================

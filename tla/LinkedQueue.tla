---------------------------- MODULE LinkedQueue -----------------------------
(***************************************************************************)
(* DataStructures/Queue/Queue.c and DataStructures/queueandstack.c: a queue *)
(* of nodes whose next is not set when they are made.  Queue.c passes front *)
(* and rear to deQueue; main of queueandstack.c passes front twice, and     *)
(* pushes what it took on a stack.                                          *)
(***************************************************************************)
EXTENDS Integers, SequencesExt

CONSTANTS QNodes,       \* the memory
          Ints, NIL,
          MaxStack,     \* the bound on the values on the stack
          WILD          \* what an uninitialised pointer that is not NULL points to

ASSUME QueueAssumption == {NIL, WILD} \cap QNodes = {} /\ NIL # WILD

VARIABLES
    twice,              \* the program is queueandstack.c
    used,               \* the nodes that are allocated
    val, link,          \* x and next of a node; WILD is "not set"
    qPtr1, qPtr2,       \* the first and the last node
    stacked,            \* the values on the stack, its top first
    fifo,               \* the values enqueued and not yet taken (history)
    emptied,            \* the last node has been taken once (history)
    fate                \* "ok", "segv", "undefined": memory that is not the program's was used

queueVars == <<twice, used, val, link, qPtr1, qPtr2, stacked, fifo, emptied, fate>>

\* init
QueueInit ==
    /\ twice \in BOOLEAN /\ used = {}
    /\ val = [n \in QNodes |-> 0] /\ link = [n \in QNodes |-> WILD]
    /\ qPtr1 = NIL /\ qPtr2 = NIL
    /\ stacked = <<>> /\ fifo = <<>> /\ emptied = FALSE /\ fate = "ok"

Ends(how) ==
    /\ fate' = how
    /\ UNCHANGED <<twice, used, val, link, qPtr1, qPtr2, stacked, fifo, emptied>>

\* Queue.c looks at rear only, queueandstack.c at both.
QueueIsEmpty == qPtr2 = NIL /\ (twice => qPtr1 = NIL)

\* Mutant: a new node is linked from the first one.
enQueueSecond(n, v) ==
    /\ fate = "ok" /\ n \in QNodes \ used
    /\ IF ~QueueIsEmpty /\ qPtr2 \notin used THEN Ends("undefined")
       ELSE /\ used' = used \cup {n} /\ val' = [val EXCEPT ![n] = v]
            /\ link' = [m \in QNodes |-> IF m = n THEN WILD
                                         ELSE IF m = qPtr1 THEN n ELSE link[m]]
            /\ qPtr1' = IF QueueIsEmpty THEN n ELSE qPtr1
            /\ qPtr2' = n /\ fifo' = Append(fifo, v)
            /\ UNCHANGED <<twice, stacked, emptied, fate>>

\* enQueue of both
enQueue(n, v) ==
    /\ fate = "ok" /\ n \in QNodes \ used
    /\ IF ~QueueIsEmpty /\ qPtr2 \notin used THEN Ends("undefined")
       ELSE /\ used' = used \cup {n} /\ val' = [val EXCEPT ![n] = v]
            /\ link' = [m \in QNodes |-> IF m = n THEN WILD
                                         ELSE IF m = qPtr2 THEN n ELSE link[m]]
            /\ qPtr1' = IF QueueIsEmpty THEN n ELSE qPtr1
            /\ qPtr2' = n /\ fifo' = Append(fifo, v)
            /\ UNCHANGED <<twice, stacked, emptied, fate>>

\* What reading a pointer may give: one that is not set may happen to be NULL.
Read(ptr) == IF ptr = WILD THEN {WILD, NIL} ELSE {ptr}

\* On the stack of queueandstack.c.
pushed(v) == <<v>> \o stacked

\* deQueue.  The value goes to the output, or to the stack.
deQueue ==
    /\ fate = "ok" /\ Len(stacked) < MaxStack
    /\ IF qPtr1 = NIL THEN Ends("segv")
       ELSE IF qPtr1 \notin used THEN Ends("undefined")
       ELSE /\ qPtr1' \in Read(link[qPtr1])
            /\ qPtr2' = IF qPtr1' = NIL /\ ~twice THEN NIL ELSE qPtr2
            /\ used' = used \ {qPtr1}
            /\ stacked' = IF twice THEN pushed(val[qPtr1]) ELSE stacked
            /\ emptied' = (emptied \/ Len(fifo) = 1) /\ fifo' = Tail(fifo)
            /\ UNCHANGED <<twice, val, link, fate>>

pop ==
    /\ fate = "ok" /\ twice
    /\ IF stacked = <<>> THEN Ends("segv")
       ELSE /\ stacked' = Tail(stacked)
            /\ UNCHANGED <<twice, used, val, link, qPtr1, qPtr2, fifo, emptied, fate>>

QueueNext == (\E n \in QNodes, v \in Ints : enQueue(n, v)) \/ deQueue \/ pop

QueueSpec == QueueInit /\ [][QueueNext]_queueVars

-----------------------------------------------------------------------------
\* These are the used nodes, from qPtr1 to qPtr2 by their links, with the values.
InLine(nodes) ==
    /\ \A n \in used : \E k \in DOMAIN nodes : nodes[k] = n
    /\ \A k, l \in DOMAIN nodes : nodes[k] = nodes[l] => k = l
    /\ nodes[1] = qPtr1 /\ nodes[Len(fifo)] = qPtr2
    /\ \A k \in DOMAIN nodes : /\ val[nodes[k]] = fifo[k]
                               /\ k < Len(fifo) => link[nodes[k]] = nodes[k + 1]

\* As long as the last node has not been taken, the nodes are a queue: what was
\* enqueued and not taken, in order, between qPtr1 and qPtr2; and only then is the
\* use of a freed node or a wild pointer excluded (Queue.c:15-36, 44-55).  Queue.c
\* is a queue afterwards too where the pointer that was not set is NULL.
QueueInv ==
    /\ ~emptied => fate # "undefined"
    /\ fate = "ok" /\ (~emptied \/ (~twice /\ qPtr1 # WILD)) =>
          IF fifo = <<>> THEN used = {} /\ qPtr1 = NIL /\ qPtr2 = NIL
                         ELSE \E nodes \in [DOMAIN fifo -> used] : InLine(nodes)
=============================================================================

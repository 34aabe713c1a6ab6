------------------------------ MODULE HeapLRU -------------------------------
(***************************************************************************)
(* MemoryManagementSystem.c: a min-heap of pointers to memory blocks,      *)
(* ordered by the time of the last access, with the position of each block *)
(* kept in the block.  One step is one turn of a loop.                     *)
(***************************************************************************)
EXTENDS Integers, FiniteSets

CONSTANTS num_blocks, simulation_ticks,
          InitTimes     \* the initial access times, 0 .. 999 in the program

ASSUME HeapAssumption ==
    /\ num_blocks \in Nat \ {0} /\ simulation_ticks \in Nat
    /\ InitTimes \subseteq Nat /\ InitTimes # {}

VARIABLES
    heap,            \* heap[i], the number of the block it points to
    last_access, heap_index,
    sim_time,        \* current_time
    at,              \* "build", "tick", and in heapify_down "down" and heapify_up "up"
    index,           \* index in heapify_up and heapify_down
    root             \* i in the loop that builds the heap

heapVars == <<heap, last_access, heap_index, sim_time, at, index, root>>

Blocks == 0 .. num_blocks - 1

Left(i)   == 2 * i + 1
Right(i)  == 2 * i + 2
Parent(i) == (i - 1) \div 2

Time(i) == last_access[heap[i]]

\* init_simulation up to line 64
HeapInit ==
    /\ heap = [i \in Blocks |-> i]
    /\ heap_index = [b \in Blocks |-> b]
    /\ last_access \in [Blocks -> InitTimes]
    /\ sim_time = 0
    /\ at = "build" /\ index = 0 /\ root = num_blocks \div 2 - 1

-----------------------------------------------------------------------------
\* Mutant: one back index is forgotten.
SwapOneBack(i, j) ==
    /\ heap' = [heap EXCEPT ![i] = heap[j], ![j] = heap[i]]
    /\ heap_index' = [heap_index EXCEPT ![heap[j]] = i]

\* swap_heap_nodes
Swap(i, j) ==
    /\ heap' = [heap EXCEPT ![i] = heap[j], ![j] = heap[i]]
    /\ heap_index' = [heap_index EXCEPT ![heap[j]] = i, ![heap[i]] = j]

\* The index that one turn of heapify_down finds the smallest, the first of equals.
SmallerOf(i, j) == IF j < num_blocks /\ Time(j) < Time(i) THEN j ELSE i
Smallest(i)     == SmallerOf(SmallerOf(i, Left(i)), Right(i))

DownSwap ==
    /\ at = "down" /\ Smallest(index) # index
    /\ Swap(index, Smallest(index))
    /\ index' = Smallest(index)
    /\ UNCHANGED <<last_access, sim_time, at, root>>

\* The end of heapify_down, and of this turn of the loop that builds the heap.
DownEnd ==
    /\ at = "down" /\ Smallest(index) = index
    /\ at' = IF root >= 0 THEN "build" ELSE "tick"
    /\ root' = IF root >= 0 THEN root - 1 ELSE root
    /\ UNCHANGED <<heap, heap_index, last_access, sim_time, index>>

Build ==
    /\ at = "build"
    /\ at' = IF root >= 0 THEN "down" ELSE "tick"
    /\ index' = IF root >= 0 THEN root ELSE index
    /\ UNCHANGED <<heap, heap_index, last_access, sim_time, root>>

\* Mutant: a block is always sifted down.
TickDown ==
    /\ at = "tick" /\ sim_time < simulation_ticks
    /\ sim_time' = sim_time + 1
    /\ \E i \in Blocks :
          /\ last_access' = [last_access EXCEPT ![heap[i]] = sim_time']
          /\ index' = heap_index[heap[i]]
    /\ at' = "down"
    /\ UNCHANGED <<heap, heap_index, root>>

\* simulation_step with random_access_strategy, up to the calls in update_block_access
Tick ==
    /\ at = "tick" /\ sim_time < simulation_ticks
    /\ sim_time' = sim_time + 1
    /\ \E i \in Blocks :
          /\ last_access' = [last_access EXCEPT ![heap[i]] = sim_time']
          /\ at' = IF sim_time' > last_access[heap[i]] THEN "down" ELSE "up"
          /\ index' = heap_index[heap[i]]
    /\ UNCHANGED <<heap, heap_index, root>>

UpSwap ==
    /\ at = "up" /\ index > 0 /\ Time(index) < Time(Parent(index))
    /\ Swap(index, Parent(index))
    /\ index' = Parent(index)
    /\ UNCHANGED <<last_access, sim_time, at, root>>

UpEnd ==
    /\ at = "up" /\ ~(index > 0 /\ Time(index) < Time(Parent(index)))
    /\ at' = "tick"
    /\ UNCHANGED <<heap, heap_index, last_access, sim_time, index, root>>

HeapNext == Build \/ DownSwap \/ DownEnd \/ Tick \/ UpSwap \/ UpEnd

HeapSpec == HeapInit /\ [][HeapNext]_heapVars
-----------------------------------------------------------------------------
\* Every variable stays in its domain.
HeapTypeOK ==
    /\ heap \in [Blocks -> Blocks]
    /\ last_access \in [Blocks -> Nat]
    /\ heap_index \in [Blocks -> Blocks]
    /\ sim_time \in 0 .. simulation_ticks
    /\ at \in {"build", "tick", "down", "up"}
    /\ index \in Blocks
    /\ root \in -1 .. num_blocks - 1

\* Each block knows its place in the heap, in the middle of a sift too: that is
\* where update_block_access starts the next sift (lines 88, 89, 131, 133).
BackIndices == \A b \in Blocks : heap[heap_index[b]] = b /\ heap_index[heap[b]] = b

\* The slots under slot i, and those of them that may not come before slot j.
Under(i)     == {c \in {Left(i), Right(i)} : c < num_blocks}
Before(j, i) == \A c \in Under(i) : Time(j) <= Time(c)

\* Between two ticks the heap is in order, whichever way the new time moved the
\* block (lines 107-111, 130-133).
HeapOrder == at = "tick" => \A i \in Blocks : Before(i, i)

\* The root is a block with the least time (line 141).
RootIsLeast == at = "tick" => \A b \in Blocks : last_access[heap[0]] <= last_access[b]

\* The parents from here on have their place in the order, except as DownInv says.
From == IF at = "build" \/ root < 0 THEN root + 1 ELSE root

\* While a block sinks, only it may come after a slot under it, and its parent
\* comes before those.
DownInv ==
    at = "down" =>
        /\ From <= index
        /\ \A i \in Blocks : From <= i /\ i # index => Before(i, i)
        /\ index > 0 /\ From <= Parent(index) => Before(Parent(index), index)

\* While a block rises, only it may come before its parent, and its parent comes
\* before the slots under it.
UpInv ==
    at = "up" =>
        /\ \A i \in Blocks : \A c \in Under(i) : c # index => Time(i) <= Time(c)
        /\ index > 0 => Before(Parent(index), index)

BuildInv == at = "build" => \A i \in Blocks : From <= i => Before(i, i)
Built    == at \in {"tick", "up"} => root = -1

\* The order at every turn of every loop.
HeapInv == HeapTypeOK /\ BackIndices /\ Built /\ BuildInv /\ DownInv /\ UpInv /\ HeapOrder
=============================================================================

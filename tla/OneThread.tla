------------------------------ MODULE OneThread ------------------------------
(***************************************************************************)
(* The programs with one thread side by side.                              *)
(* They share nothing: each has its own state, and what is true of one is  *)
(* true whatever the others do.                                            *)
(***************************************************************************)
EXTENDS PageLRU, HeapLRU, BreadthFirst, DepthFirst, BubbleSort, LinkedLists,
        FrequencyCounter, LinkedQueue, Trie, Trees, Algorithms, Automata, Scanners

\* The data structures that are not graphs: the search trees, the linked lists, the
\* trie, the linked queue and the word counter's table are what they stand for after
\* every call (AVL_tree.c, BInaryTree.c, DoublyLinkedListDequ.c, DQ.c, Trie/main.c,
\* Queue.c, FrequencyCounter/main.c).
StructuresInv == TreeInv /\ ListInv /\ TrieInv /\ QueueInv /\ CounterInv

\* What one call may do to the keys of a tree, and to a list.
StructureSteps == TreeSteps /\ ListsAreDeques

\* The algorithms on lists, arrays and strings, the automata and the scanners: their
\* results are what a definition without their loops says (BubbleSort.c, LPS.c,
\* max_sub.c, the three examples of Automata/, second.flex).
AlgorithmsInv == SortInv /\ LpsInv /\ MaxSubInv /\ AutomataInv /\ ScanInv
=============================================================================

----------------------------- MODULE MCPrograms -----------------------------
(* One run for the programs that have one thread: a behaviour is one of    *)
(* them, from its start, and the variables of the others keep a first value. *)
EXTENDS OneThread

VARIABLE program

Programs == {"page", "heap", "bfs", "dfs", "sort", "avl", "bst", "lists", "count",
             "queue", "trie", "lps", "max_sub", "automata", "scanner"}

MCTimes == {0, 2, 9}

\* A file of one or two lines of one or two tokens: two words, one of them with a
\* full stop and alone, one with characters of negative code, and a lone full stop.
Tokens == {<<97>>, <<97, 46>>, <<98>>, <<-50, -79>>, <<46>>}
Lines  == UNION {[1 .. n -> Tokens] : n \in 1 .. 2}
Ended(l) == [l EXCEPT ![Len(l)] = Append(@, NewLine)]
MCTexts == LET last == Lines \cup {Ended(l) : l \in Lines}
           IN  {<<l>> : l \in last} \cup {<<Ended(k), l>> : k \in Lines, l \in last}
MCPunct == {46}

\* Words of two letters, and one of three that begins with another.
MCWords == [1 .. 1 -> {1, 2}] \cup [1 .. 2 -> {1, 2}] \cup {<<1, 2, 1>>}
MCNumbers == {-2, 0, 1, 3}
MCFiles   == UNION {[1 .. n -> Characters] : n \in 0 .. 3}

searchVars == <<bfsVars, stack>>
vars == <<program, pageVars, heapVars, searchVars, sortVars, treeVars, listVars, counterVars,
          queueVars, trieVars, lpsVars, algVars, autVars, scanVars>>

\* Where a program's first state is not always the same, it varies in that program only.
Init ==
    /\ program \in Programs
    /\ PageInit /\ SortInit /\ TreeInit
    /\ IF program = "heap" THEN HeapInit ELSE last_access = [b \in Blocks |-> 0] /\ HeapInit
    /\ ListInit /\ (program # "lists" => kind = "dq")
    /\ IF program = "dfs" THEN DfsInit /\ queue = <<>> /\ front = -1 ELSE BfsInit /\ stack = <<>>
    /\ (program # "bfs" => dir)
    /\ IF program = "count" THEN CounterInit ELSE text = <<<<<<97>>>>>> /\ CounterInit
    /\ QueueInit /\ (program # "queue" => twice)
    /\ TrieInit
    /\ IF program = "lps" THEN LpsInit ELSE pat = <<1>> /\ LpsInit
    /\ IF program = "max_sub" THEN MaxSubInit ELSE array = <<1>> /\ MaxSubInit
    /\ IF program = "scanner" THEN ScanInit ELSE argv = <<<<>>, <<>>>> /\ unopened = FALSE /\ ScanInit
    /\ AutInit /\ (program # "automata" => machine = "example")

PageU == UNCHANGED pageVars
HeapU == UNCHANGED heapVars
SearchU == UNCHANGED searchVars
SmallU == UNCHANGED <<queueVars, trieVars, lpsVars, algVars, autVars, scanVars>>
Rest == UNCHANGED <<sortVars, treeVars, listVars, counterVars>> /\ SmallU

Next ==
    /\ UNCHANGED program
    /\ \/ program = "page" /\ PageNext /\ HeapU /\ SearchU /\ Rest
       \/ program = "heap" /\ HeapNext /\ PageU /\ SearchU /\ Rest
       \/ program = "bfs" /\ BfsNext /\ PageU /\ HeapU /\ Rest /\ UNCHANGED stack
       \/ program = "dfs" /\ DfsNext /\ PageU /\ HeapU /\ Rest /\ UNCHANGED <<queue, front>>
       \/ /\ PageU /\ HeapU /\ SearchU /\ UNCHANGED <<sortVars, treeVars, listVars, counterVars>>
          /\ \/ program = "queue" /\ QueueNext /\ UNCHANGED <<trieVars, lpsVars, algVars, autVars, scanVars>>
             \/ program = "trie" /\ TrieNext /\ UNCHANGED <<queueVars, lpsVars, algVars, autVars, scanVars>>
             \/ /\ program = "lps" /\ LpsTurn
                /\ UNCHANGED <<queueVars, trieVars, algVars, autVars, scanVars>>
             \/ /\ program = "max_sub" /\ MaxSub
                /\ UNCHANGED <<queueVars, trieVars, lpsVars, autVars, scanVars>>
             \/ /\ program = "automata" /\ AutNext
                /\ UNCHANGED <<queueVars, trieVars, lpsVars, algVars, scanVars>>
             \/ /\ program = "scanner" /\ ScanNext
                /\ UNCHANGED <<queueVars, trieVars, lpsVars, algVars, autVars>>
       \/ /\ PageU /\ HeapU /\ SearchU /\ SmallU
          /\ \/ program = "sort" /\ SortNext /\ UNCHANGED <<treeVars, listVars, counterVars>>
             \/ program = "avl" /\ AvlNext /\ UNCHANGED <<sortVars, listVars, counterVars>>
             \/ program = "bst" /\ BstNext /\ UNCHANGED <<sortVars, listVars, counterVars>>
             \/ program = "lists" /\ ListNext /\ UNCHANGED <<sortVars, treeVars, counterVars>>
             \/ program = "count" /\ CounterNext /\ UNCHANGED <<sortVars, treeVars, listVars>>

\* A program goes on while it can.  Where the steps are calls of a structure, or
\* characters that are typed, nothing is promised but that a call returns.
GoesOn ==
    /\ program \notin {"avl", "bst", "queue", "trie", "automata"}
    /\ program = "lists" => status = "reverse"
    /\ Next

Spec == Init /\ [][Next]_vars /\ WF_vars(GoesOn)
-----------------------------------------------------------------------------
AtEnd ==
    CASE program = "page" -> current_time = NUM_ACCESSES
      [] program = "heap" -> at = "tick" /\ sim_time = simulation_ticks
      [] program \in {"bfs", "dfs"} -> phase = "deleted"
      [] program = "sort"  -> stage = "freed" \/ (stage = "sorted" /\ nums = <<>>)
      [] program = "count" -> counter = "deleted"
      [] program = "lps"   -> ind = Len(pat)
      [] program = "scanner" -> file > Len(argv) \/ unopened
      [] program = "lists" -> status # "reverse"
      [] OTHER -> TRUE

\* Every program comes to its end, whatever its input: the traversals of graphs with cycles,
\* the sifts, the loop that reads up to the end of the file
\* (Hash/FrequencyCounter/main.c:40), the search that falls back (LPS.c:22), and every
\* call of reverse_list.
Finishes == []<>AtEnd
=============================================================================

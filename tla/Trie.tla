-------------------------------- MODULE Trie --------------------------------
(***************************************************************************)
(* DataStructures/Trie/main.c.  A node is the sequence of letters on the   *)
(* way from the root to it.                                                *)
(***************************************************************************)
EXTENDS Integers, SequencesExt

CONSTANT Words          \* sequences of the letters 'a' to 'z'

ASSUME TrieAssumption == Words \subseteq Seq(1 .. 26)

VARIABLES is_leaf,      \* for the nodes there are; the empty one is the root
          learned       \* the words inserted (history)

trieVars == <<is_leaf, learned>>

TrieInit == is_leaf = [node \in {<<>>} |-> FALSE] /\ learned = {}

\* Mutant: the nodes on the way are made anew.
insert_trie_anew(word) ==
    /\ is_leaf' = [node \in DOMAIN is_leaf \cup Prefixes(word) |->
                     IF node \in Prefixes(word) THEN node = word ELSE is_leaf[node]]
    /\ learned' = learned \cup {word}

\* A node is made where there is none, not yet a leaf; the last becomes one.
insert_trie(word) ==
    /\ is_leaf' = [node \in DOMAIN is_leaf \cup Prefixes(word) |->
                     IF node = word THEN TRUE
                     ELSE IF node \in DOMAIN is_leaf THEN is_leaf[node] ELSE FALSE]
    /\ learned' = learned \cup {word}

\* The loop leaves at the first letter that has no child.
search(word) == Prefixes(word) \subseteq DOMAIN is_leaf /\ is_leaf[word]

TrieNext == \E word \in Words : insert_trie(word)

TrieSpec == TrieInit /\ [][TrieNext]_trieVars
-----------------------------------------------------------------------------
\* A word is found if and only if it was inserted, though it may be the beginning
\* of another or have another as its beginning (lines 45, 92, 96); and the nodes
\* are the beginnings of those words, so that free_trie frees them all.
TrieInv ==
    /\ \A word \in Words : search(word) <=> word \in learned
    /\ DOMAIN is_leaf = {<<>>} \cup UNION {Prefixes(word) : word \in learned}
=============================================================================

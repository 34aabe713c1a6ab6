------------------------- MODULE Structures_proofs -------------------------
(***************************************************************************)
(* Proofs about the data structures that are not graphs: the trie of       *)
(* Trie/main.c, for any words; the linked queue and stack of Queue.c and   *)
(* queueandstack.c, and the linked lists of DoublyLinkedListDequ.c and     *)
(* DQ.c, for any memory and any calls; the word counter of                 *)
(* FrequencyCounter/main.c, for any file and any size of its table; the    *)
(* search trees of AVL_tree.c and BInaryTree.c, for any keys.              *)
(***************************************************************************)
EXTENDS OneThread, FunctionTheorems, FiniteSetTheorems, SequenceTheorems, WellFoundedInduction, TLAPS

-----------------------------------------------------------------------------
(***************************************************************************)
(* Numbers and iteration.                                                  *)
(***************************************************************************)
\* Induction, in the form the provers can use: a set of numbers has a least one.
LEMMA LeastNumber ==
    ASSUME NEW S \in SUBSET Nat, S # {}
    PROVE  \E n \in S : \A m \in S : n <= m
<1> DEFINE Upto(n) == {m \in S : m <= n}
           R == StrictSubsetOrdering(Nat)
           F == FiniteSubsetsOf(Nat)
           T == {Upto(n) : n \in S}
<1>1. IsWellFoundedOn(R, F) BY FS_StrictSubsetOrderingWellFounded
<1>2. \A n \in S : Upto(n) \in F BY FS_BoundedSetOfNaturals DEF FiniteSubsetsOf
<1>3. T \subseteq F /\ T # {} BY <1>2
<1>4. ASSUME NEW n \in S, NEW m \in S, m < n PROVE <<Upto(m), Upto(n)>> \in R
  <2>1. n \in Upto(n) /\ n \notin Upto(m) BY <1>4
  <2>2. ASSUME NEW k \in Upto(m) PROVE k \in Upto(n)
    <3>1. k \in S /\ k <= m /\ k \in Nat /\ m \in Nat /\ n \in Nat OBVIOUS
    <3>2. k <= n BY <3>1, <1>4
    <3> QED BY <3>1, <3>2
  <2>3. Upto(m) \in SUBSET Nat /\ Upto(n) \in SUBSET Nat OBVIOUS
  <2> HIDE DEF Upto
  <2> QED BY <2>1, <2>2, <2>3 DEF StrictSubsetOrdering
<1>5. /\ \A m \in S : Upto(m) \in T
      /\ \A x \in T : \E n \in S : x = Upto(n)
  OBVIOUS
<1> HIDE DEF R, F, T, Upto
<1>6. PICK x \in T : \A y \in T : ~(<<y, x>> \in R) BY <1>1, <1>3, WFMin
<1>7. PICK n \in S : x = Upto(n) BY <1>5
<1>8. ASSUME NEW m \in S PROVE n <= m
  <2>1. ~(<<Upto(m), Upto(n)>> \in R) BY <1>5, <1>6, <1>7
  <2> QED BY <1>4, <2>1
<1> QED BY <1>8
\* Induction up to a number: a set that has 0, and with a number the next, has all.
LEMMA Climb ==
    ASSUME NEW N \in Nat, NEW S, 0 \in S, \A k \in 1 .. N : k - 1 \in S => k \in S
    PROVE  \A k \in 0 .. N : k \in S
<1> DEFINE Out == (0 .. N) \ S
<1>1. Out = {}
  <2> SUFFICES ASSUME Out # {} PROVE FALSE
    OBVIOUS
  <2>1. PICK n \in Out : \A m \in Out : n <= m
    <3>1. Out \in SUBSET Nat
      OBVIOUS
    <3> HIDE DEF Out
    <3> QED BY <3>1, LeastNumber
  <2>2. n \in 0 .. N /\ n \notin S
    OBVIOUS
  <2>3. n \in 1 .. N /\ n - 1 \in 0 .. N /\ ~(n <= n - 1)
    <3>1. n # 0
      BY <2>2
    <3> HIDE DEF Out
    <3> QED BY <2>2, <3>1
  <2>4. n - 1 \notin Out
    <3> HIDE DEF Out
    <3> QED BY <2>1, <2>3
  <2> QED BY <2>2, <2>3, <2>4
<1> QED BY <1>1

\* f begins with e and goes on with move, up to n.
Iterates(f, n, e, move) == f[0] = e /\ \A k \in 1 .. n : f[k] = move[k][f[k - 1]]

LEMMA IterationExists ==
    ASSUME NEW S, NEW e \in S, NEW N \in Nat, NEW move, \A k \in 1 .. N : \A s \in S : move[k][s] \in S
    PROVE  \E f \in [0 .. N -> S] : Iterates(f, N, e, move)
<1> DEFINE Upto(n) == \E f \in [0 .. n -> S] : Iterates(f, n, e, move)
           All == {n \in 0 .. N : Upto(n)}
<1>1. 0 \in All
  <2>1. [k \in 0 .. 0 |-> e] \in [0 .. 0 -> S] /\ Iterates([k \in 0 .. 0 |-> e], 0, e, move)
    BY DEF Iterates
  <2> QED BY <2>1
<1>2. ASSUME NEW n \in 1 .. N, n - 1 \in All  PROVE n \in All
  <2>1. n - 1 \in 0 .. N /\ n - 1 \in Nat /\ n \in Nat /\ n \in 0 .. N
    OBVIOUS
  <2>2. PICK f \in [0 .. n - 1 -> S] : Iterates(f, n - 1, e, move)
    BY <1>2
  <2> HIDE DEF All
  <2>3. PICK g : g = [k \in 0 .. n |-> IF k = n THEN move[n][f[n - 1]] ELSE f[k]]
    OBVIOUS
  <2>4. f[n - 1] \in S /\ move[n][f[n - 1]] \in S
    BY <2>1
  <2>5. g \in [0 .. n -> S]
    BY <2>1, <2>3, <2>4
  <2>6. g[n] = move[n][f[n - 1]] /\ \A k \in 0 .. n - 1 : g[k] = f[k]
    BY <2>1, <2>3
  <2>7. ASSUME NEW k \in 1 .. n  PROVE g[k] = move[k][g[k - 1]]
    <3>1. CASE k = n
      BY <2>1, <2>6, <3>1
    <3>2. CASE k \in 1 .. n - 1
      <4>1. k \in 0 .. n - 1 /\ k - 1 \in 0 .. n - 1
        BY <2>1, <3>2
      <4> QED BY <2>2, <2>6, <3>2, <4>1 DEF Iterates
    <3> QED BY <2>1, <3>1, <3>2
  <2>8. g[0] = e
    BY <2>1, <2>2, <2>6 DEF Iterates
  <2>9. Upto(n)
    BY <2>5, <2>7, <2>8 DEF Iterates
  <2> QED BY <2>1, <2>9 DEF All
<1>3. N \in All
  <2> HIDE DEF All
  <2>1. \A n \in 0 .. N : n \in All
    BY <1>1, <1>2, Climb
  <2> QED BY <2>1
<1> QED BY <1>3

-----------------------------------------------------------------------------
(***************************************************************************)
(* The trie: the nodes are the beginnings of the words that were inserted. *)
(***************************************************************************)
-----------------------------------------------------------------------------
(***************************************************************************)
(* The trie.                                                               *)
(***************************************************************************)
\* A node's flag tells whether its letters are a word that was inserted.
TrieIInv ==
    /\ learned \subseteq Words
    /\ DOMAIN is_leaf = {<<>>} \cup UNION {Prefixes(word) : word \in learned}
    /\ \A node \in DOMAIN is_leaf : is_leaf[node] <=> node \in learned

LEMMA WordIsPrefix ==
    ASSUME NEW word \in Words  PROVE word \in Prefixes(word)
<1>1. word \in Seq(1 .. 26) /\ Len(word) \in Nat
  BY TrieAssumption
<1>2. SubSeq(word, 1, Len(word)) = word
  BY <1>1, SubSeqFull
<1>3. Len(word) \in 0 .. Len(word)
  BY <1>1
<1>4. word \in {SubSeq(word, 1, l) : l \in 0 .. Len(word)}
  BY <1>2, <1>3, Zenon
<1> QED BY <1>4, Zenon DEF Prefixes

\* A word is found if and only if it was inserted, and the nodes are the beginnings
\* of the inserted words (Trie/main.c:38-52, 85-97).
THEOREM WordsFound == TrieSpec => []TrieInv
<1>1. TrieInit => TrieIInv
  BY DEF TrieInit, TrieIInv
<1>2. TrieIInv /\ [TrieNext]_trieVars => TrieIInv'
  <2> SUFFICES ASSUME TrieIInv, [TrieNext]_trieVars  PROVE TrieIInv'
    OBVIOUS
  <2>1. CASE UNCHANGED trieVars
    BY <2>1 DEF TrieIInv, trieVars
  <2>2. ASSUME NEW word \in Words, insert_trie(word)  PROVE TrieIInv'
    <3>1. DOMAIN is_leaf' = DOMAIN is_leaf \cup Prefixes(word) /\ learned' = learned \cup {word}
      BY <2>2 DEF insert_trie
    <3>2. ASSUME NEW node \in DOMAIN is_leaf'  PROVE is_leaf'[node] <=> node \in learned'
      <4>1. is_leaf'[node] = IF node = word THEN TRUE
                             ELSE IF node \in DOMAIN is_leaf THEN is_leaf[node] ELSE FALSE
        BY <2>2, <3>1, <3>2 DEF insert_trie
      <4>2. node \notin DOMAIN is_leaf => node \notin learned
        BY WordIsPrefix DEF TrieIInv
      <4> QED BY <3>1, <4>1, <4>2 DEF TrieIInv
    <3> QED BY <3>1, <3>2 DEF TrieIInv
  <2> QED BY <2>1, <2>2 DEF TrieNext
<1>3. TrieIInv => TrieInv
  <2> SUFFICES ASSUME TrieIInv  PROVE TrieInv
    OBVIOUS
  <2>1. ASSUME NEW word \in Words  PROVE search(word) <=> word \in learned
    BY WordIsPrefix DEF TrieIInv, search
  <2> QED BY <2>1 DEF TrieInv, TrieIInv
<1> QED BY <1>1, <1>2, <1>3, PTL DEF TrieSpec

-----------------------------------------------------------------------------
(***************************************************************************)
(* The linked queue and the stack.                                         *)
(***************************************************************************)
-----------------------------------------------------------------------------
(***************************************************************************)
(* The linked queue.                                                       *)
(***************************************************************************)
\* While the program has a queue: it is not empty for good, nor wild.
HasQueue == fate = "ok" /\ (~emptied \/ (~twice /\ qPtr1 # WILD))

\* The link of the last node is not set.
IsQueue ==
    /\ fifo \in Seq(Ints)
    /\ IF fifo = <<>> THEN used = {} /\ qPtr1 = NIL /\ qPtr2 = NIL
       ELSE \E nodes \in [1 .. Len(fifo) -> used] : InLine(nodes) /\ link[qPtr2] = WILD

\* Queue.c's rear is left behind when the pointer read is wild, and every call then
\* ends the program.
QueueIInv ==
    /\ used \subseteq QNodes /\ twice \in BOOLEAN /\ emptied \in BOOLEAN
    /\ val \in [QNodes -> Ints \cup {0}] /\ link \in [QNodes -> QNodes \cup {NIL, WILD}]
    /\ ~emptied => fate # "undefined"
    /\ HasQueue => IsQueue
    /\ ~twice /\ qPtr1 = WILD => qPtr2 # NIL /\ qPtr2 \notin used

LEMMA QueueAtFirst ==
    ASSUME QueueInit  PROVE QueueIInv
<1>1. fifo \in Seq(Ints)
  BY EmptySeq DEF QueueInit
<1> QED BY <1>1, QueueAssumption DEF QueueInit, QueueIInv, HasQueue, IsQueue

LEMMA QueueEnds ==
    ASSUME QueueIInv, NEW how \in {"segv", "undefined"}, Ends(how), how = "undefined" => emptied
    PROVE  QueueIInv'
BY DEF QueueIInv, Ends, HasQueue

\* What a queue with values begins and ends with.
LEMMA QueueEndsUsed ==
    ASSUME QueueIInv, IsQueue, fifo # <<>>  PROVE qPtr1 \in used /\ qPtr2 \in used
BY DEF IsQueue, InLine

LEMMA EnqueueKept ==
    ASSUME QueueIInv, NEW n \in QNodes, NEW v \in Ints, enQueue(n, v)  PROVE QueueIInv'
<1>1. CASE ~QueueIsEmpty /\ qPtr2 \notin used
  <2>1. fate = "ok" /\ Ends("undefined")
    BY <1>1 DEF enQueue
  <2>2. emptied
    <3> SUFFICES ASSUME ~emptied  PROVE FALSE
      BY DEF QueueIInv
    <3> QED BY <1>1, <2>1, QueueEndsUsed DEF QueueIInv, HasQueue, IsQueue, QueueIsEmpty
  <2> QED BY <2>1, <2>2, QueueEnds
<1>2. CASE QueueIsEmpty \/ qPtr2 \in used
  <2>1. /\ n \notin used /\ used' = used \cup {n} /\ val' = [val EXCEPT ![n] = v]
        /\ link' = [m \in QNodes |-> IF m = n THEN WILD ELSE IF m = qPtr2 THEN n ELSE link[m]]
        /\ qPtr1' = IF QueueIsEmpty THEN n ELSE qPtr1
        /\ qPtr2' = n /\ fifo' = Append(fifo, v) /\ UNCHANGED <<twice, stacked, emptied, fate>>
    BY <1>2 DEF enQueue
  <2>2. val' \in [QNodes -> Ints \cup {0}] /\ link' \in [QNodes -> QNodes \cup {NIL, WILD}]
    BY <2>1 DEF QueueIInv
  <2>3. ~twice => qPtr1' # WILD
    BY <1>2, <2>1, QueueAssumption DEF QueueIInv, QueueIsEmpty
  <2>4. ASSUME HasQueue'  PROVE IsQueue'
    <3>1. HasQueue /\ IsQueue
      BY <1>2, <2>1, <2>4 DEF HasQueue, QueueIInv, QueueIsEmpty
    <3>2. fifo \in Seq(Ints) /\ Len(fifo) \in Nat /\ fifo' \in Seq(Ints) /\ Len(fifo') = Len(fifo) + 1 /\ fifo' # <<>>
          /\ (\A k \in 1 .. Len(fifo) : fifo'[k] = fifo[k]) /\ fifo'[Len(fifo) + 1] = v
      BY <2>1, <3>1, AppendProperties DEF IsQueue
    <3>3. CASE fifo = <<>>
      <4>0. PICK line1 : line1 = [k \in 1 .. 1 |-> n]
        OBVIOUS
      <4>1. QueueIsEmpty /\ used = {} /\ Len(fifo') = 1 /\ fifo'[1] = v
        BY <3>1, <3>2, <3>3 DEF IsQueue, QueueIsEmpty
      <4>2. line1 \in [1 .. Len(fifo') -> used'] /\ InLine(line1)'
        BY <2>1, <4>0, <4>1 DEF InLine, QueueIInv
      <4>3. link'[qPtr2'] = WILD
        BY <2>1
      <4> QED BY <3>2, <4>2, <4>3 DEF IsQueue
    <3>4. CASE fifo # <<>>
      <4>1. PICK nodes \in [1 .. Len(fifo) -> used] : InLine(nodes) /\ link[qPtr2] = WILD
        BY <3>1, <3>4 DEF IsQueue
      <4>e. /\ DOMAIN nodes = 1 .. Len(fifo) /\ nodes[1] = qPtr1 /\ nodes[Len(fifo)] = qPtr2
            /\ \A k \in 1 .. Len(fifo) : val[nodes[k]] = fifo[k] /\ (k < Len(fifo) => link[nodes[k]] = nodes[k + 1])
            /\ \A k, l \in 1 .. Len(fifo) : nodes[k] = nodes[l] => k = l
        <5>1. DOMAIN nodes = 1 .. Len(fifo)
          OBVIOUS
        <5> QED BY ONLY <5>1, <4>1, Zenon DEF InLine
      <4>2. Len(fifo) >= 1 /\ qPtr2 \in used /\ qPtr1 \in used /\ NIL \notin used /\ ~QueueIsEmpty
        BY <3>1, <3>2, <3>4, QueueEndsUsed, QueueAssumption DEF QueueIInv, QueueIsEmpty
      <4>d. PICK more : more = [k \in 1 .. Len(fifo) + 1 |-> IF k <= Len(fifo) THEN nodes[k] ELSE n]
        OBVIOUS
      <4>3. more \in [1 .. Len(fifo') -> used'] /\ DOMAIN more = 1 .. Len(fifo')
        BY <2>1, <3>2, <4>d
      <4>4. \A k \in 1 .. Len(fifo) : more[k] = nodes[k] /\ nodes[k] \in used /\ nodes[k] # n
        BY <2>1, <3>2, <4>d
      <4>5. more[Len(fifo) + 1] = n
        BY <3>2, <4>d
      <4>6. \A k \in 1 .. Len(fifo) + 1 : k \in 1 .. Len(fifo) \/ k = Len(fifo) + 1
        BY <3>2
      <4>7. \A m \in used' : \E k \in DOMAIN more : more[k] = m
        <5> SUFFICES ASSUME NEW m \in used'  PROVE \E k \in DOMAIN more : more[k] = m
          OBVIOUS
        <5>1. CASE m = n
          BY <3>2, <4>3, <4>5, <5>1
        <5>2. CASE m \in used
          <6>1. PICK k \in 1 .. Len(fifo) : nodes[k] = m
            BY <4>1, <5>2 DEF InLine
          <6> QED BY <3>2, <4>3, <4>4, <6>1
        <5> QED BY <2>1, <5>1, <5>2
      <4>8. \A k, l \in DOMAIN more : more[k] = more[l] => k = l
        BY <3>2, <4>e, <4>3, <4>4, <4>5, <4>6
      <4>9. more[1] = qPtr1' /\ more[Len(fifo')] = qPtr2'
        BY <2>1, <3>2, <4>e, <4>2, <4>4, <4>5
      <4>10. ASSUME NEW k \in DOMAIN more
             PROVE  val'[more[k]] = fifo'[k] /\ (k < Len(fifo') => link'[more[k]] = more[k + 1])
        <5>1. CASE k = Len(fifo) + 1
          BY <2>1, <3>2, <4>5, <5>1 DEF QueueIInv
        <5>2. CASE k \in 1 .. Len(fifo)
          <6>1. more[k] = nodes[k] /\ nodes[k] \in QNodes /\ nodes[k] # n
            BY <4>4, <5>2 DEF QueueIInv
          <6>2. val'[more[k]] = fifo'[k]
            <7>1. val[nodes[k]] = fifo[k]
              BY <4>e, <5>2
            <7>2. val'[nodes[k]] = val[nodes[k]]
              BY <2>1, <6>1 DEF QueueIInv
            <7> QED BY <3>2, <5>2, <6>1, <7>1, <7>2
          <6>3. CASE k < Len(fifo)
            <7>1. nodes[k] # qPtr2 /\ link[nodes[k]] = nodes[k + 1] /\ k + 1 \in 1 .. Len(fifo)
              <8>1. Len(fifo) \in 1 .. Len(fifo) /\ k + 1 \in 1 .. Len(fifo) /\ k # Len(fifo)
                BY <3>2, <4>2, <5>2, <6>3
              <8> QED BY <4>e, <5>2, <6>3, <8>1
            <7>2. link'[nodes[k]] = link[nodes[k]]
              BY <2>1, <6>1, <7>1
            <7> QED BY <4>4, <6>1, <6>2, <7>1, <7>2
          <6>4. CASE k = Len(fifo)
            <7>1. nodes[k] = qPtr2
              BY <4>e, <6>4
            <7> QED BY <2>1, <4>5, <6>1, <6>2, <6>4, <7>1
          <6> QED BY <3>2, <5>2, <6>3, <6>4
        <5> QED BY <3>2, <4>3, <4>6, <5>1, <5>2
      <4>11. InLine(more)'
        BY <4>7, <4>8, <4>9, <4>10 DEF InLine
      <4>12. link'[qPtr2'] = WILD
        BY <2>1
      <4> QED BY <3>2, <4>3, <4>11, <4>12 DEF IsQueue
    <3> QED BY <3>3, <3>4
  <2> QED BY <1>2, <2>1, <2>2, <2>3, <2>4 DEF QueueIInv
<1> QED BY <1>1, <1>2

LEMMA DequeueKept ==
    ASSUME QueueIInv, deQueue  PROVE QueueIInv'
<1>1. CASE qPtr1 = NIL
  BY <1>1, QueueEnds DEF deQueue
<1>2. CASE qPtr1 # NIL /\ qPtr1 \notin used
  <2>1. fate = "ok" /\ Ends("undefined")
    BY <1>2 DEF deQueue
  <2>2. emptied
    <3> SUFFICES ASSUME ~emptied  PROVE FALSE
      BY DEF QueueIInv
    <3> QED BY <1>2, <2>1, QueueEndsUsed DEF QueueIInv, HasQueue, IsQueue
  <2> QED BY <2>1, <2>2, QueueEnds
<1>3. CASE qPtr1 # NIL /\ qPtr1 \in used
  <2>1. /\ qPtr1' \in Read(link[qPtr1])
        /\ qPtr2' = IF qPtr1' = NIL /\ ~twice THEN NIL ELSE qPtr2
        /\ used' = used \ {qPtr1}
        /\ emptied' = (emptied \/ Len(fifo) = 1) /\ fifo' = Tail(fifo)
        /\ UNCHANGED <<twice, val, link, fate>> /\ fate = "ok"
    BY <1>3 DEF deQueue
  <2>2. qPtr1 # WILD
    BY <1>3, QueueAssumption DEF QueueIInv
  <2>3. CASE ~HasQueue
    <3>1. emptied /\ twice
      BY <2>1, <2>2, <2>3 DEF HasQueue, QueueIInv
    <3> QED BY <2>1, <2>3, <3>1 DEF QueueIInv, HasQueue
  <2>4. CASE HasQueue
    <3>1. IsQueue /\ fifo # <<>> /\ fifo \in Seq(Ints)
      BY <1>3, <2>4 DEF QueueIInv, IsQueue
    <3>2. PICK nodes \in [1 .. Len(fifo) -> used] : InLine(nodes) /\ link[qPtr2] = WILD
      BY <3>1 DEF IsQueue
    <3>3. /\ Len(fifo) \in Nat /\ Len(fifo) >= 1 /\ fifo' \in Seq(Ints) /\ Len(fifo') = Len(fifo) - 1
          /\ \A k \in 1 .. Len(fifo') : fifo'[k] = fifo[k + 1]
      BY <2>1, <3>1, HeadTailProperties
    <3>4. /\ DOMAIN nodes = 1 .. Len(fifo) /\ nodes[1] = qPtr1 /\ nodes[Len(fifo)] = qPtr2
          /\ \A k \in 1 .. Len(fifo) : val[nodes[k]] = fifo[k] /\ (k < Len(fifo) => link[nodes[k]] = nodes[k + 1])
          /\ \A k, l \in 1 .. Len(fifo) : nodes[k] = nodes[l] => k = l
      <4>1. DOMAIN nodes = 1 .. Len(fifo)
        OBVIOUS
      <4> QED BY ONLY <4>1, <3>2, Zenon DEF InLine
    <3>5. CASE Len(fifo) = 1
      <4>1. qPtr1' \in {WILD, NIL} /\ qPtr1 = qPtr2
        BY <2>1, <3>2, <3>4, <3>5 DEF Read
      <4>2. used' = {} /\ fifo' = <<>> /\ emptied'
        <5>1. \A n \in used : n = qPtr1
          BY <3>2, <3>4, <3>5 DEF InLine
        <5>2. fifo' = <<>>
          BY <3>3, <3>5, EmptySeq
        <5> QED BY <2>1, <3>5, <5>1, <5>2
      <4>3. ~twice /\ qPtr1' = WILD => qPtr2' # NIL /\ qPtr2' \notin used'
        BY <1>3, <2>1, <4>1, <4>2, QueueAssumption
      <4>4. HasQueue' => qPtr1' = NIL /\ qPtr2' = NIL
        BY <2>1, <4>1, <4>2 DEF HasQueue
      <4> QED BY <2>1, <3>3, <4>2, <4>3, <4>4 DEF QueueIInv, IsQueue
    <3>6. CASE Len(fifo) > 1
      <4>1. 2 \in DOMAIN nodes /\ 1 \in DOMAIN nodes /\ link[qPtr1] = nodes[2] /\ nodes[2] \in used
        BY <3>3, <3>4, <3>6
      <4>2. qPtr1' = nodes[2] /\ qPtr1' # NIL /\ qPtr1' # WILD
        BY <2>1, <4>1, QueueAssumption DEF Read, QueueIInv
      <4>3. emptied' = emptied /\ qPtr2' = qPtr2
        BY <2>1, <3>3, <3>6, <4>2 DEF QueueIInv
      <4>d. PICK less : less = [k \in 1 .. Len(fifo) - 1 |-> nodes[k + 1]]
        OBVIOUS
      <4>4. DOMAIN less = 1 .. Len(fifo') /\ \A k \in 1 .. Len(fifo') : less[k] = nodes[k + 1] /\ k + 1 \in DOMAIN nodes
        BY <3>3, <4>d
      <4>5. \A k \in 1 .. Len(fifo') : nodes[k + 1] \in used'
        <5> SUFFICES ASSUME NEW k \in 1 .. Len(fifo')  PROVE nodes[k + 1] \in used'
          OBVIOUS
        <5>1. k + 1 \in DOMAIN nodes /\ k + 1 # 1
          BY <3>3, <4>4
        <5> QED BY <2>1, <3>4, <4>1, <5>1
      <4>6. less \in [1 .. Len(fifo') -> used']
        BY <3>3, <4>5, <4>d
      <4>7. \A n \in used' : \E k \in DOMAIN less : less[k] = n
        <5> SUFFICES ASSUME NEW n \in used'  PROVE \E k \in DOMAIN less : less[k] = n
          OBVIOUS
        <5>1. n \in used /\ n # nodes[1]
          BY <2>1, <3>4
        <5>2. PICK k \in DOMAIN nodes : nodes[k] = n
          BY <3>2, <5>1 DEF InLine
        <5>3. k - 1 \in 1 .. Len(fifo') /\ (k - 1) + 1 = k
          BY <3>3, <5>1, <5>2
        <5> QED BY <4>4, <5>2, <5>3
      <4>8. ASSUME NEW k \in DOMAIN less, NEW l \in DOMAIN less, less[k] = less[l]  PROVE k = l
        <5>1. k + 1 \in DOMAIN nodes /\ l + 1 \in DOMAIN nodes /\ nodes[k + 1] = nodes[l + 1] /\ k \in Nat /\ l \in Nat
          BY <3>3, <4>4, <4>8
        <5>2. k + 1 = l + 1
          BY <3>4, <5>1
        <5> QED BY <5>1, <5>2
      <4>9. less[1] = qPtr1' /\ less[Len(fifo')] = qPtr2'
        BY <3>3, <3>4, <3>6, <4>2, <4>3, <4>4
      <4>10. ASSUME NEW k \in DOMAIN less
             PROVE  val'[less[k]] = fifo'[k] /\ (k < Len(fifo') => link'[less[k]] = less[k + 1])
        <5>1. k + 1 \in DOMAIN nodes /\ less[k] = nodes[k + 1] /\ fifo'[k] = fifo[k + 1] /\ k \in 1 .. Len(fifo')
          BY <3>3, <4>4
        <5>2. val[nodes[k + 1]] = fifo[k + 1] /\ (k + 1 < Len(fifo) => link[nodes[k + 1]] = nodes[(k + 1) + 1])
          BY <3>4, <5>1
        <5>3. k < Len(fifo') => k + 1 < Len(fifo) /\ k + 1 \in 1 .. Len(fifo')
          BY <3>3, <5>1
        <5> QED BY <2>1, <4>4, <5>1, <5>2, <5>3
      <4>11. InLine(less)'
        BY <4>7, <4>8, <4>9, <4>10 DEF InLine
      <4>12. fifo' # <<>> /\ link'[qPtr2'] = WILD
        BY <2>1, <3>2, <3>3, <3>6, <4>3
      <4>13. IsQueue'
        BY <3>3, <4>6, <4>11, <4>12 DEF IsQueue
      <4> QED BY <2>1, <4>2, <4>3, <4>13 DEF QueueIInv
    <3> QED BY <3>3, <3>5, <3>6
  <2> QED BY <2>3, <2>4
<1> QED BY <1>1, <1>2, <1>3

\* Until the last node is taken, and in Queue.c as long as no wild pointer was read,
\* the nodes hold what was enqueued and not taken, in order, and no memory is used
\* that is not the program's, for any memory and any values (Queue.c:15-36, 44-55).
THEOREM QueueHolds == QueueSpec => []QueueInv
<1>1. QueueIInv /\ [QueueNext]_queueVars => QueueIInv'
  <2> SUFFICES ASSUME QueueIInv, [QueueNext]_queueVars  PROVE QueueIInv'
    OBVIOUS
  <2>1. CASE UNCHANGED queueVars
    BY <2>1 DEF QueueIInv, queueVars, HasQueue, IsQueue, InLine
  <2>2. CASE pop
    <3>1. CASE stacked = <<>>
      BY <2>2, <3>1, QueueEnds DEF pop
    <3>2. CASE stacked # <<>>
      BY <2>2, <3>2 DEF pop, QueueIInv, HasQueue, IsQueue, InLine
    <3> QED BY <3>1, <3>2
  <2> QED BY <2>1, <2>2, EnqueueKept, DequeueKept DEF QueueNext
<1>2. QueueIInv => QueueInv
  <2> SUFFICES ASSUME QueueIInv, HasQueue
               PROVE  IF fifo = <<>> THEN used = {} /\ qPtr1 = NIL /\ qPtr2 = NIL
                      ELSE \E nodes \in [DOMAIN fifo -> used] : InLine(nodes)
    BY DEF QueueIInv, QueueInv, HasQueue
  <2>1. IsQueue /\ DOMAIN fifo = 1 .. Len(fifo)
    BY DEF QueueIInv, IsQueue
  <2> QED BY <2>1 DEF IsQueue
<1> QED BY <1>1, <1>2, QueueAtFirst, PTL DEF QueueSpec

-----------------------------------------------------------------------------
(***************************************************************************)
(* The linked lists of both programs, with the reversal turn by turn, and  *)
(* that they implement a deque.                                            *)
(***************************************************************************)
\* The first element of one sequence goes to the end of another before it.
LEMMA MoveHead ==
    ASSUME NEW S, NEW r \in Seq(S), NEW c \in Seq(S), Len(c) > 0
    PROVE  Append(r, c[1]) \o Tail(c) = r \o c
<1>1. Len(c) \in Nat /\ 1 \in 1 .. Len(c) /\ c[1] \in S
  OBVIOUS
<1> DEFINE u == Append(r, c[1]) \o Tail(c)
           v == r \o c
<1>2. Tail(c) \in Seq(S) /\ Len(Tail(c)) = Len(c) - 1 /\ \A a \in 1 .. Len(c) - 1 : Tail(c)[a] = c[a + 1]
  OBVIOUS
<1>3. Len(r) \in Nat
  OBVIOUS
<1>4. /\ Append(r, c[1]) \in Seq(S) /\ Len(Append(r, c[1])) = Len(r) + 1 /\ Append(r, c[1])[Len(r) + 1] = c[1]
      /\ \A a \in 1 .. Len(r) : Append(r, c[1])[a] = r[a]
  BY <1>1, <1>3
<1>5. /\ v \in Seq(S) /\ Len(v) = Len(r) + Len(c) /\ (\A a \in 1 .. Len(r) : v[a] = r[a])
      /\ \A a \in 1 .. Len(v) : a > Len(r) => v[a] = c[a - Len(r)]
  BY <1>1, <1>3
<1>6. /\ u \in Seq(S) /\ Len(u) = Len(r) + 1 + (Len(c) - 1)
      /\ \A a \in 1 .. Len(u) : u[a] = IF a <= Len(r) + 1 THEN Append(r, c[1])[a] ELSE Tail(c)[a - (Len(r) + 1)]
  BY <1>1, <1>2, <1>3, <1>4
<1> HIDE DEF u, v
<1>7. Len(u) = Len(v) /\ Len(v) \in Nat
  BY <1>1, <1>3, <1>5, <1>6
<1>8. ASSUME NEW a \in 1 .. Len(u)  PROVE u[a] = v[a]
  <2>1. a \in Int /\ a >= 1 /\ a <= Len(r) + Len(c)
    BY <1>1, <1>3, <1>6, <1>8
  <2>2. CASE a <= Len(r)
    <3>1. a \in 1 .. Len(r) /\ a <= Len(r) + 1
      BY <1>3, <2>1, <2>2
    <3> QED BY <1>4, <1>5, <1>6, <1>8, <3>1
  <2>3. CASE a = Len(r) + 1
    <3>1. a > Len(r) /\ a - Len(r) = 1 /\ a <= Len(r) + 1
      BY <1>3, <2>3
    <3>2. u[a] = c[1]
      BY <1>4, <1>6, <1>8, <2>3, <3>1
    <3> QED BY <1>5, <1>7, <1>8, <3>1, <3>2
  <2>4. CASE a > Len(r) + 1
    <3>1. /\ a > Len(r) /\ ~(a <= Len(r) + 1) /\ a - (Len(r) + 1) \in 1 .. Len(c) - 1
          /\ (a - (Len(r) + 1)) + 1 = a - Len(r)
      BY <1>1, <1>3, <2>1, <2>4
    <3>2. u[a] = c[a - Len(r)]
      BY <1>2, <1>6, <1>8, <3>1
    <3> QED BY <1>5, <1>7, <1>8, <3>1, <3>2
  <2> QED BY <1>3, <2>1, <2>2, <2>3, <2>4
<1>9. u = v
  BY <1>5, <1>6, <1>7, <1>8, SeqEqual
<1> QED BY <1>9 DEF u, v

-----------------------------------------------------------------------------
(***************************************************************************)
(* The linked lists.                                                       *)
(***************************************************************************)
\* c are the nodes of a list that begins at n, in the order of its links.
IsChain(c, n, pointer) ==
    /\ c \in Seq(Nodes)
    /\ \A a, b \in 1 .. Len(c) : c[a] = c[b] => a = b
    /\ n = IF Len(c) = 0 THEN NULL ELSE c[1]
    /\ \A a \in 1 .. Len(c) : pointer[c[a]] = IF a < Len(c) THEN c[a + 1] ELSE NULL

\* A chain is no longer than there are nodes.
LEMMA ChainFits ==
    ASSUME ListAssumption, NEW c \in Seq(Nodes), \A a, b \in 1 .. Len(c) : c[a] = c[b] => a = b
    PROVE  Len(c) <= Cardinality(Nodes) /\ Cardinality(Nodes) \in Nat /\ Len(c) \in Nat
<1>1. IsFiniteSet(Nodes) /\ Cardinality(Nodes) \in Nat /\ Len(c) \in Nat
  BY FS_CardinalityType DEF ListAssumption
<1>2. Cardinality(1 .. Len(c)) = Len(c)
  <2>1. 1 \in Int /\ Len(c) \in Int
    BY <1>1
  <2>2. Cardinality(1 .. Len(c)) = IF 1 > Len(c) THEN 0 ELSE Len(c) - 1 + 1
    BY <2>1, FS_Interval
  <2> QED BY <1>1, <2>2
<1> DEFINE f == [a \in 1 .. Len(c) |-> c[a]]
<1>3. f \in Injection(1 .. Len(c), Nodes)
  <2>1. f \in [1 .. Len(c) -> Nodes]
    OBVIOUS
  <2>2. \A a, b \in 1 .. Len(c) : f[a] = f[b] => a = b
    OBVIOUS
  <2> QED BY <2>1, <2>2, Zenon DEF Injection, IsInjective
<1> HIDE DEF f
<1>4. Cardinality(1 .. Len(c)) <= Cardinality(Nodes)
  BY <1>1, <1>3, FS_Injection
<1> QED BY <1>1, <1>2, <1>4

\* Walking along a chain meets its nodes in order.
LEMMA ChainSteps ==
    ASSUME ListAssumption, NEW c, NEW n, NEW pointer, IsChain(c, n, pointer)
    PROVE  Steps(n, pointer) = [k \in 0 .. Cardinality(Nodes) |-> IF k < Len(c) THEN c[k + 1] ELSE NULL]
<1> DEFINE N == Cardinality(Nodes)
           walk == [k \in 0 .. N |-> IF k < Len(c) THEN c[k + 1] ELSE NULL]
           Def(f) == [k \in 0 .. N |-> IF k = 0 THEN n ELSE IF f[k - 1] \in Nodes THEN pointer[f[k - 1]] ELSE NULL]
<1>1. /\ c \in Seq(Nodes) /\ Len(c) \in Nat /\ N \in Nat /\ NULL \notin Nodes
      /\ n = IF Len(c) = 0 THEN NULL ELSE c[1]
      /\ \A a \in 1 .. Len(c) : c[a] \in Nodes /\ pointer[c[a]] = IF a < Len(c) THEN c[a + 1] ELSE NULL
  BY ChainFits DEF IsChain, ListAssumption
<1> HIDE DEF N
<1>2. walk = Def(walk)
  <2> SUFFICES ASSUME NEW k \in 0 .. N
               PROVE  walk[k] = IF k = 0 THEN n ELSE IF walk[k - 1] \in Nodes THEN pointer[walk[k - 1]] ELSE NULL
    OBVIOUS
  <2>1. CASE k = 0
    <3>1. 0 < Len(c) <=> Len(c) # 0
      BY <1>1
    <3> QED BY <1>1, <2>1, <3>1
  <2>2. CASE k # 0
    <3>1. k - 1 \in 0 .. N /\ k \in Nat /\ (k - 1) + 1 = k
      BY <1>1, <2>2
    <3>2. walk[k - 1] = IF k - 1 < Len(c) THEN c[k] ELSE NULL
      BY <3>1
    <3>3. walk[k] = IF k < Len(c) THEN c[k + 1] ELSE NULL
      OBVIOUS
    <3> HIDE DEF walk
    <3>4. CASE k - 1 < Len(c)
      <4>1. k \in 1 .. Len(c)
        BY <1>1, <2>2, <3>1, <3>4
      <4> QED BY <1>1, <2>2, <3>2, <3>3, <3>4, <4>1
    <3>5. CASE ~(k - 1 < Len(c))
      <4>1. ~(k < Len(c))
        BY <1>1, <3>1, <3>5
      <4> QED BY <1>1, <2>2, <3>2, <3>3, <3>5, <4>1
    <3> QED BY <3>4, <3>5
  <2> QED BY <2>1, <2>2
<1> DEFINE s == Steps(n, pointer)
<1>3. s = CHOOSE f : f = Def(f)
  BY DEF Steps, N
<1>4. s = Def(s)
  <2>1. \E f : f = Def(f)
    BY <1>2
  <2> HIDE DEF s, walk, Def
  <2> QED BY <1>3, <2>1
<1>5. \A k \in 0 .. N : s[k] = walk[k]
  <2> DEFINE Same == {k \in 0 .. N : s[k] = walk[k]}
  <2>1. 0 \in Same
    <3>1. 0 \in 0 .. N
      BY <1>1
    <3>2. Def(s)[0] = n /\ Def(walk)[0] = n
      BY <3>1
    <3> HIDE DEF s, walk, Def
    <3> QED BY <1>2, <1>4, <3>1, <3>2
  <2>2. ASSUME NEW k \in 1 .. N, k - 1 \in Same  PROVE k \in Same
    <3>1. k \in 0 .. N /\ k # 0 /\ s[k - 1] = walk[k - 1]
      BY <1>1, <2>2
    <3>2. \A f : Def(f)[k] = IF f[k - 1] \in Nodes THEN pointer[f[k - 1]] ELSE NULL
      BY <3>1
    <3> HIDE DEF s, walk, Def
    <3> QED BY <1>2, <1>4, <3>1, <3>2
  <2> HIDE DEF Same
  <2>3. \A k \in 0 .. N : k \in Same
    BY <1>1, <2>1, <2>2, Climb
  <2> QED BY <2>3 DEF Same
<1>6. s = [k \in 0 .. N |-> s[k]]
  <2> HIDE DEF s
  <2> QED BY <1>4
<1> HIDE DEF s
<1>7. s = walk
  BY <1>5, <1>6
<1> QED BY <1>7 DEF s, N

\* and so gives the chain.
LEMMA ChainAlong ==
    ASSUME ListAssumption, NEW c, NEW n, NEW pointer, IsChain(c, n, pointer)
    PROVE  Along(n, pointer) = c
<1> DEFINE N == Cardinality(Nodes)
           walk == [k \in 0 .. N |-> IF k < Len(c) THEN c[k + 1] ELSE NULL]
           met == {h \in DOMAIN walk : walk[h] \in Nodes}
<1>1. c \in Seq(Nodes) /\ Len(c) \in Nat /\ N \in Nat /\ Len(c) <= N /\ NULL \notin Nodes
  BY ChainFits DEF IsChain, ListAssumption
<1>2. Along(n, pointer) = [k \in 1 .. Cardinality(met) |-> walk[k - 1]]
  <2>1. Steps(n, pointer) = walk
    BY ChainSteps
  <2> HIDE DEF walk
  <2> QED BY <2>1 DEF Along
<1> HIDE DEF N
<1>3. met = 0 .. Len(c) - 1
  <2>1. ASSUME NEW h \in 0 .. N  PROVE walk[h] \in Nodes <=> h \in 0 .. Len(c) - 1
    <3>1. CASE h < Len(c)
      <4>1. h + 1 \in 1 .. Len(c) /\ h \in 0 .. Len(c) - 1
        BY <1>1, <3>1
      <4> QED BY <1>1, <3>1, <4>1
    <3>2. CASE ~(h < Len(c))
      BY <1>1, <3>2
    <3> QED BY <3>1, <3>2
  <2>2. DOMAIN walk = 0 .. N /\ 0 .. Len(c) - 1 \subseteq 0 .. N
    BY <1>1
  <2> HIDE DEF walk
  <2> QED BY <2>1, <2>2
<1>4. Cardinality(met) = Len(c)
  <2>1. 0 \in Int /\ Len(c) - 1 \in Int
    BY <1>1
  <2>2. Cardinality(0 .. Len(c) - 1) = IF 0 > Len(c) - 1 THEN 0 ELSE (Len(c) - 1) - 0 + 1
    BY <2>1, FS_Interval
  <2> HIDE DEF met
  <2> QED BY <1>1, <1>3, <2>2
<1> HIDE DEF met
<1>5. ASSUME NEW k \in 1 .. Len(c)  PROVE walk[k - 1] = c[k]
  <2>1. k - 1 \in 0 .. N /\ k - 1 < Len(c) /\ (k - 1) + 1 = k
    BY <1>1
  <2> QED BY <2>1
<1> HIDE DEF walk
<1>6. c = [k \in 1 .. Len(c) |-> c[k]]
  BY <1>1
<1> QED BY <1>4, <1>2, <1>5, <1>6

\* A sequence without its last element.
LEMMA FrontIs ==
    ASSUME NEW S, NEW c \in Seq(S), Len(c) > 0
    PROVE  Front(c) \in Seq(S) /\ Len(Front(c)) = Len(c) - 1 /\ \A a \in 1 .. Len(c) - 1 : Front(c)[a] = c[a]
<1>1. Len(c) \in Nat /\ \A a \in 1 .. Len(c) - 1 : c[a] \in S
  OBVIOUS
<1>2. PICK l : l = Len(c) - 1
  OBVIOUS
<1>3. 1 \in Int /\ l \in Int /\ \A a \in 1 .. l : c[a] \in S
  BY <1>1, <1>2
<1>4. /\ SubSeq(c, 1, l) \in Seq(S)
      /\ Len(SubSeq(c, 1, l)) = IF 1 <= l THEN l - 1 + 1 ELSE 0
      /\ \A a \in 1 .. l - 1 + 1 : SubSeq(c, 1, l)[a] = c[1 + a - 1]
  BY <1>3, SubSeqProperties
<1>5. l \in Nat /\ l - 1 + 1 = l /\ (~(1 <= l) => l = 0)
  BY <1>1, <1>2
<1>6. \A a \in 1 .. l : 1 + a - 1 = a
  BY <1>5
<1> QED BY <1>2, <1>4, <1>5, <1>6 DEF Front

\* Where a chain grows and shrinks.
LEMMA ChainAddFirst ==
    ASSUME NEW c, NEW h, NEW f, IsChain(c, h, f), NEW n \in Nodes, \A a \in 1 .. Len(c) : c[a] # n,
           NEW g, g[n] = h, \A m \in Nodes : m # n => g[m] = f[m]
    PROVE  IsChain(<<n>> \o c, n, g)
<1> DEFINE e == <<n>> \o c
<1>1. c \in Seq(Nodes) /\ Len(c) \in Nat
  BY DEF IsChain
<1>2. /\ e \in Seq(Nodes) /\ Len(e) = Len(c) + 1 /\ e[1] = n
      /\ \A a \in 2 .. Len(e) : a - 1 \in 1 .. Len(c) /\ e[a] = c[a - 1]
  BY <1>1
<1> HIDE DEF e
<1>3. ASSUME NEW a \in 1 .. Len(e), NEW b \in 1 .. Len(e), e[a] = e[b]  PROVE a = b
  <2>1. a \in Nat /\ b \in Nat /\ (a = 1 \/ a \in 2 .. Len(e)) /\ (b = 1 \/ b \in 2 .. Len(e))
    BY <1>1, <1>2
  <2>2. CASE a = 1 \/ b = 1
    BY <1>2, <1>3, <2>1, <2>2
  <2>3. CASE a \in 2 .. Len(e) /\ b \in 2 .. Len(e)
    <3>1. a - 1 \in 1 .. Len(c) /\ b - 1 \in 1 .. Len(c) /\ c[a - 1] = c[b - 1]
      BY <1>2, <1>3, <2>3
    <3>2. a - 1 = b - 1
      BY <3>1 DEF IsChain
    <3> QED BY <2>1, <3>2
  <2> QED BY <2>1, <2>2, <2>3
<1>4. ASSUME NEW a \in 1 .. Len(e)  PROVE g[e[a]] = IF a < Len(e) THEN e[a + 1] ELSE NULL
  <2>1. CASE a = 1
    <3>1. CASE Len(c) = 0
      BY <1>2, <2>1, <3>1 DEF IsChain
    <3>2. CASE Len(c) > 0
      <4>1. a + 1 \in 2 .. Len(e) /\ a < Len(e) /\ (a + 1) - 1 = 1 /\ Len(c) # 0
        BY <1>1, <1>2, <2>1, <3>2
      <4> QED BY <1>2, <2>1, <4>1 DEF IsChain
    <3> QED BY <1>1, <3>1, <3>2
  <2>2. CASE a \in 2 .. Len(e)
    <3>1. /\ a - 1 \in 1 .. Len(c) /\ e[a] = c[a - 1] /\ c[a - 1] \in Nodes /\ c[a - 1] # n
          /\ (a < Len(e) <=> a - 1 < Len(c)) /\ (a - 1) + 1 = a
      BY <1>1, <1>2, <2>2
    <3>2. f[c[a - 1]] = IF a - 1 < Len(c) THEN c[(a - 1) + 1] ELSE NULL
      BY <3>1 DEF IsChain
    <3>3. a < Len(e) => e[a + 1] = c[a]
      <4>1. a < Len(e) => a + 1 \in 2 .. Len(e) /\ (a + 1) - 1 = a
        BY <1>1, <1>2, <2>2
      <4> QED BY <1>2, <4>1
    <3> QED BY <3>1, <3>2, <3>3
  <2> QED BY <1>1, <1>2, <2>1, <2>2
<1>5. Len(e) # 0
  BY <1>1, <1>2
<1>6. IsChain(e, n, g)
  BY <1>2, <1>3, <1>4, <1>5 DEF IsChain
<1> QED BY <1>6 DEF e

LEMMA ChainAddLast ==
    ASSUME NEW c, NEW h, NEW f, IsChain(c, h, f), NEW n \in Nodes, \A a \in 1 .. Len(c) : c[a] # n,
           NEW g, g[n] = NULL, Len(c) > 0 => g[c[Len(c)]] = n,
           \A m \in Nodes : m # n /\ (Len(c) > 0 => m # c[Len(c)]) => g[m] = f[m]
    PROVE  IsChain(Append(c, n), IF Len(c) = 0 THEN n ELSE h, g)
<1> DEFINE e == Append(c, n)
<1>1. c \in Seq(Nodes) /\ Len(c) \in Nat
  BY DEF IsChain
<1>2. /\ e \in Seq(Nodes) /\ Len(e) = Len(c) + 1 /\ e[Len(c) + 1] = n
      /\ \A a \in 1 .. Len(c) : e[a] = c[a]
  BY <1>1
<1> HIDE DEF e
<1>3. \A a \in 1 .. Len(e) : a \in 1 .. Len(c) \/ a = Len(c) + 1
  BY <1>1, <1>2
<1>4. ASSUME NEW a \in 1 .. Len(e), NEW b \in 1 .. Len(e), e[a] = e[b]  PROVE a = b
  <2>1. \A k, l \in 1 .. Len(c) : c[k] = c[l] => k = l
    BY DEF IsChain
  <2> QED BY <1>2, <1>3, <1>4, <2>1
<1>5. ASSUME NEW a \in 1 .. Len(e)  PROVE g[e[a]] = IF a < Len(e) THEN e[a + 1] ELSE NULL
  <2>1. CASE a = Len(c) + 1
    <3>1. ~(a < Len(e))
      BY <1>1, <1>2, <2>1
    <3> QED BY <1>2, <2>1, <3>1
  <2>2. CASE a = Len(c) /\ a \in 1 .. Len(c)
    BY <1>1, <1>2, <2>2
  <2>3. CASE a \in 1 .. Len(c) /\ a # Len(c)
    <3>1. /\ a < Len(c) /\ a < Len(e) /\ a + 1 \in 1 .. Len(c) /\ Len(c) \in 1 .. Len(c)
          /\ e[a] = c[a] /\ e[a + 1] = c[a + 1] /\ c[a] \in Nodes /\ c[a] # n
      BY <1>1, <1>2, <2>3
    <3>2. c[a] # c[Len(c)]
      BY <2>3, <3>1 DEF IsChain
    <3>3. f[c[a]] = c[a + 1]
      BY <2>3, <3>1 DEF IsChain
    <3> QED BY <3>1, <3>2, <3>3
  <2> QED BY <1>3, <2>1, <2>2, <2>3
<1>6. e[1] = IF Len(c) = 0 THEN n ELSE h
  <2>1. Len(c) # 0 => 1 \in 1 .. Len(c)
    BY <1>1
  <2> QED BY <1>2, <2>1 DEF IsChain
<1>7. Len(e) # 0
  BY <1>1, <1>2
<1>8. IsChain(e, IF Len(c) = 0 THEN n ELSE h, g)
  BY <1>2, <1>4, <1>5, <1>6, <1>7 DEF IsChain
<1> QED BY <1>8 DEF e

LEMMA ChainDropFirst ==
    ASSUME NEW c, NEW h, NEW f, IsChain(c, h, f), Len(c) > 0,
           NEW g, \A m \in Nodes : m # c[1] => g[m] = f[m]
    PROVE  IsChain(Tail(c), f[h], g) /\ Len(Tail(c)) = Len(c) - 1
           /\ \A a \in 1 .. Len(c) - 1 : Tail(c)[a] = c[a + 1]
<1> DEFINE e == Tail(c)
<1>1. c \in Seq(Nodes) /\ Len(c) \in Nat /\ c # <<>> /\ h = c[1]
  BY DEF IsChain
<1>2. e \in Seq(Nodes) /\ Len(e) = Len(c) - 1 /\ \A a \in 1 .. Len(e) : e[a] = c[a + 1]
  BY <1>1, HeadTailProperties
<1> HIDE DEF e
<1>3. ASSUME NEW a \in 1 .. Len(e), NEW b \in 1 .. Len(e), e[a] = e[b]  PROVE a = b
  <2>1. a + 1 \in 1 .. Len(c) /\ b + 1 \in 1 .. Len(c) /\ c[a + 1] = c[b + 1]
    BY <1>1, <1>2, <1>3
  <2>2. a + 1 = b + 1
    BY <2>1 DEF IsChain
  <2> QED BY <1>1, <1>2, <2>2
<1>4. ASSUME NEW a \in 1 .. Len(e)  PROVE g[e[a]] = IF a < Len(e) THEN e[a + 1] ELSE NULL
  <2>1. a + 1 \in 1 .. Len(c) /\ 1 \in 1 .. Len(c) /\ a + 1 # 1 /\ e[a] = c[a + 1] /\ c[a + 1] \in Nodes
        /\ (a < Len(e) <=> a + 1 < Len(c))
    BY <1>1, <1>2
  <2>2. c[a + 1] # c[1]
    BY <2>1 DEF IsChain
  <2>3. f[c[a + 1]] = IF a + 1 < Len(c) THEN c[(a + 1) + 1] ELSE NULL
    BY <2>1 DEF IsChain
  <2>4. a < Len(e) => e[a + 1] = c[(a + 1) + 1]
    <3>1. a < Len(e) => a + 1 \in 1 .. Len(e)
      BY <1>1, <1>2
    <3> QED BY <1>2, <3>1
  <2> QED BY <2>1, <2>2, <2>3, <2>4
<1>5. f[h] = IF Len(e) = 0 THEN NULL ELSE e[1]
  <2>1. 1 \in 1 .. Len(c) /\ (1 < Len(c) <=> Len(e) # 0) /\ (Len(e) # 0 => 1 \in 1 .. Len(e))
    BY <1>1, <1>2
  <2>2. f[c[1]] = IF 1 < Len(c) THEN c[1 + 1] ELSE NULL
    BY <2>1 DEF IsChain
  <2> QED BY <1>1, <1>2, <2>1, <2>2
<1>6. IsChain(e, f[h], g)
  BY <1>2, <1>3, <1>4, <1>5 DEF IsChain
<1> QED BY <1>2, <1>6 DEF e

LEMMA ChainDropLast ==
    ASSUME NEW c, NEW h, NEW f, IsChain(c, h, f), Len(c) > 1,
           NEW g, g[c[Len(c) - 1]] = NULL, \A m \in Nodes : m # c[Len(c) - 1] => g[m] = f[m]
    PROVE  IsChain(Front(c), h, g) /\ Len(Front(c)) = Len(c) - 1
           /\ \A a \in 1 .. Len(c) - 1 : Front(c)[a] = c[a]
<1> DEFINE e == Front(c)
<1>1. c \in Seq(Nodes) /\ Len(c) \in Nat /\ h = c[1]
  BY DEF IsChain
<1>2. e \in Seq(Nodes) /\ Len(e) = Len(c) - 1 /\ \A a \in 1 .. Len(e) : e[a] = c[a]
  BY <1>1, FrontIs
<1> HIDE DEF e
<1>3. \A a \in 1 .. Len(e) : a \in 1 .. Len(c)
  BY <1>1, <1>2
<1>4. ASSUME NEW a \in 1 .. Len(e), NEW b \in 1 .. Len(e), e[a] = e[b]  PROVE a = b
  BY <1>2, <1>3, <1>4 DEF IsChain
<1>5. ASSUME NEW a \in 1 .. Len(e)  PROVE g[e[a]] = IF a < Len(e) THEN e[a + 1] ELSE NULL
  <2>1. CASE a = Len(e)
    <3>1. ~(a < Len(e)) /\ e[a] = c[Len(c) - 1]
      BY <1>1, <1>2, <2>1
    <3> QED BY <3>1
  <2>2. CASE a # Len(e)
    <3>1. /\ a < Len(e) /\ a < Len(c) /\ a + 1 \in 1 .. Len(e) /\ Len(c) - 1 \in 1 .. Len(c) /\ a # Len(c) - 1
          /\ a \in 1 .. Len(c) /\ c[a] \in Nodes
      BY <1>1, <1>2, <2>2
    <3>2. c[a] # c[Len(c) - 1]
      BY <3>1 DEF IsChain
    <3>3. f[c[a]] = c[a + 1]
      BY <3>1 DEF IsChain
    <3> QED BY <1>2, <3>1, <3>2, <3>3
  <2> QED BY <2>1, <2>2
<1>6. Len(e) # 0 /\ 1 \in 1 .. Len(e)
  BY <1>1, <1>2
<1>7. IsChain(e, h, g)
  BY <1>1, <1>2, <1>4, <1>5, <1>6 DEF IsChain
<1> QED BY <1>2, <1>7 DEF e

\* Turning a sequence round.
LEMMA ReverseIs ==
    ASSUME NEW S, NEW c \in Seq(S)
    PROVE  Reverse(c) \in Seq(S) /\ Len(Reverse(c)) = Len(c)
           /\ \A a \in 1 .. Len(c) : Len(c) - a + 1 \in 1 .. Len(c) /\ Reverse(c)[a] = c[Len(c) - a + 1]
<1>1. Len(c) \in Nat /\ \A a \in 1 .. Len(c) : Len(c) - a + 1 \in 1 .. Len(c) /\ c[Len(c) - a + 1] \in S
  BY LenProperties
<1> QED BY <1>1 DEF Reverse

LEMMA ReverseAddFirst ==
    ASSUME NEW S, NEW c \in Seq(S), NEW n \in S
    PROVE  Reverse(<<n>> \o c) = Append(Reverse(c), n)
<1> DEFINE e == <<n>> \o c
           l == Reverse(e)
           r == Append(Reverse(c), n)
<1>1. e \in Seq(S) /\ Len(c) \in Nat /\ Len(e) = Len(c) + 1 /\ e[1] = n
      /\ \A a \in 2 .. Len(c) + 1 : e[a] = c[a - 1]
  OBVIOUS
<1>2. r \in Seq(S) /\ Len(r) = Len(c) + 1 /\ r[Len(c) + 1] = n
      /\ \A a \in 1 .. Len(c) : r[a] = c[Len(c) - a + 1]
  BY <1>1, ReverseIs
<1> HIDE DEF e
<1>3. l \in Seq(S) /\ Len(l) = Len(e) /\ \A a \in 1 .. Len(e) : l[a] = e[Len(e) - a + 1]
  BY <1>1, ReverseIs
<1> HIDE DEF l, r
<1>4. ASSUME NEW a \in 1 .. Len(l)  PROVE l[a] = r[a]
  <2>1. CASE a = Len(c) + 1
    <3>1. Len(e) - a + 1 = 1
      BY <1>1, <2>1
    <3> QED BY <1>1, <1>2, <1>3, <2>1, <3>1
  <2>2. CASE a \in 1 .. Len(c)
    <3>1. Len(e) - a + 1 \in 2 .. Len(c) + 1 /\ (Len(e) - a + 1) - 1 = Len(c) - a + 1
      BY <1>1, <2>2
    <3> QED BY <1>1, <1>2, <1>3, <2>2, <3>1
  <2> QED BY <1>1, <1>3, <2>1, <2>2
<1>5. l = r
  BY <1>1, <1>2, <1>3, <1>4, SeqEqual
<1> QED BY <1>5 DEF e, l, r

LEMMA ReverseAddLast ==
    ASSUME NEW S, NEW c \in Seq(S), NEW n \in S
    PROVE  Reverse(Append(c, n)) = <<n>> \o Reverse(c)
<1> DEFINE e == Append(c, n)
           l == Reverse(e)
           r == <<n>> \o Reverse(c)
<1>1. e \in Seq(S) /\ Len(c) \in Nat /\ Len(e) = Len(c) + 1 /\ e[Len(c) + 1] = n
      /\ \A a \in 1 .. Len(c) : e[a] = c[a]
  OBVIOUS
<1>2. r \in Seq(S) /\ Len(r) = Len(c) + 1 /\ r[1] = n
      /\ \A a \in 2 .. Len(c) + 1 : r[a] = Reverse(c)[a - 1]
  BY <1>1, ReverseIs
<1> HIDE DEF e
<1>3. l \in Seq(S) /\ Len(l) = Len(e) /\ \A a \in 1 .. Len(e) : l[a] = e[Len(e) - a + 1]
  BY <1>1, ReverseIs
<1> HIDE DEF l, r
<1>4. ASSUME NEW a \in 1 .. Len(l)  PROVE l[a] = r[a]
  <2>1. CASE a = 1
    <3>1. Len(e) - a + 1 = Len(c) + 1
      BY <1>1, <2>1
    <3> QED BY <1>1, <1>2, <1>3, <2>1, <3>1
  <2>2. CASE a \in 2 .. Len(c) + 1
    <3>1. Len(e) - a + 1 \in 1 .. Len(c) /\ a - 1 \in 1 .. Len(c) /\ Len(c) - (a - 1) + 1 = Len(e) - a + 1
      BY <1>1, <2>2
    <3>2. Reverse(c)[a - 1] = c[Len(c) - (a - 1) + 1]
      BY <3>1, ReverseIs
    <3> QED BY <1>1, <1>2, <1>3, <2>2, <3>1, <3>2
  <2> QED BY <1>1, <1>3, <2>1, <2>2
<1>5. l = r
  BY <1>1, <1>2, <1>3, <1>4, SeqEqual
<1> QED BY <1>5 DEF e, l, r

LEMMA ReverseDropFirst ==
    ASSUME NEW S, NEW c \in Seq(S), Len(c) > 0
    PROVE  Reverse(Tail(c)) = Front(Reverse(c))
<1> DEFINE e == Tail(c)
           l == Reverse(e)
           r == Front(Reverse(c))
<1>1. e \in Seq(S) /\ Len(c) \in Nat /\ Len(e) = Len(c) - 1 /\ \A a \in 1 .. Len(e) : e[a] = c[a + 1]
  <2>1. c # <<>>
    OBVIOUS
  <2> QED BY <2>1, HeadTailProperties
<1>2. Reverse(c) \in Seq(S) /\ Len(Reverse(c)) = Len(c) /\ \A a \in 1 .. Len(c) : Reverse(c)[a] = c[Len(c) - a + 1]
  BY ReverseIs
<1>3. r \in Seq(S) /\ Len(r) = Len(c) - 1 /\ \A a \in 1 .. Len(c) - 1 : r[a] = Reverse(c)[a]
  BY <1>2, FrontIs
<1> HIDE DEF e
<1>4. l \in Seq(S) /\ Len(l) = Len(e) /\ \A a \in 1 .. Len(e) : l[a] = e[Len(e) - a + 1]
  BY <1>1, ReverseIs
<1> HIDE DEF l, r
<1>5. ASSUME NEW a \in 1 .. Len(l)  PROVE l[a] = r[a]
  <2>1. /\ a \in 1 .. Len(e) /\ a \in 1 .. Len(c) /\ a \in 1 .. Len(c) - 1
        /\ Len(e) - a + 1 \in 1 .. Len(e) /\ (Len(e) - a + 1) + 1 = Len(c) - a + 1
    BY <1>1, <1>4
  <2> QED BY <1>1, <1>2, <1>3, <1>4, <2>1
<1>6. l = r
  BY <1>1, <1>3, <1>4, <1>5, SeqEqual
<1> QED BY <1>6 DEF e, l, r

LEMMA ReverseDropLast ==
    ASSUME NEW S, NEW c \in Seq(S), Len(c) > 0
    PROVE  Reverse(Front(c)) = Tail(Reverse(c))
<1> DEFINE e == Front(c)
           l == Reverse(e)
           r == Tail(Reverse(c))
<1>1. e \in Seq(S) /\ Len(c) \in Nat /\ Len(e) = Len(c) - 1 /\ \A a \in 1 .. Len(e) : e[a] = c[a]
  BY FrontIs
<1>2. Reverse(c) \in Seq(S) /\ Len(Reverse(c)) = Len(c) /\ \A a \in 1 .. Len(c) : Reverse(c)[a] = c[Len(c) - a + 1]
  BY ReverseIs
<1>3. r \in Seq(S) /\ Len(r) = Len(c) - 1 /\ \A a \in 1 .. Len(c) - 1 : r[a] = Reverse(c)[a + 1]
  <2>1. Reverse(c) # <<>>
    BY <1>2
  <2> QED BY <1>2, <2>1, HeadTailProperties
<1> HIDE DEF e
<1>4. l \in Seq(S) /\ Len(l) = Len(e) /\ \A a \in 1 .. Len(e) : l[a] = e[Len(e) - a + 1]
  BY <1>1, ReverseIs
<1> HIDE DEF l, r
<1>5. ASSUME NEW a \in 1 .. Len(l)  PROVE l[a] = r[a]
  <2>1. /\ a \in 1 .. Len(e) /\ a + 1 \in 1 .. Len(c) /\ a \in 1 .. Len(c) - 1
        /\ Len(e) - a + 1 \in 1 .. Len(e) /\ Len(c) - (a + 1) + 1 = Len(e) - a + 1
    BY <1>1, <1>4
  <2>2. r[a] = c[Len(c) - (a + 1) + 1]
    BY <1>2, <1>3, <2>1
  <2> QED BY <1>1, <1>4, <2>1, <2>2
<1>6. l = r
  BY <1>1, <1>3, <1>4, <1>5, SeqEqual
<1> QED BY <1>6 DEF e, l, r

LEMMA ReverseTwice ==
    ASSUME NEW S, NEW c \in Seq(S)  PROVE Reverse(Reverse(c)) = c
<1>1. /\ Reverse(c) \in Seq(S) /\ Len(Reverse(c)) = Len(c) /\ Len(c) \in Nat
      /\ \A a \in 1 .. Len(c) : Len(c) - a + 1 \in 1 .. Len(c) /\ Reverse(c)[a] = c[Len(c) - a + 1]
  BY ReverseIs
<1>2. /\ Reverse(Reverse(c)) \in Seq(S) /\ Len(Reverse(Reverse(c))) = Len(c)
      /\ \A a \in 1 .. Len(c) : Reverse(Reverse(c))[a] = Reverse(c)[Len(c) - a + 1]
  BY <1>1, ReverseIs
<1>3. ASSUME NEW a \in 1 .. Len(c)  PROVE Reverse(Reverse(c))[a] = c[a]
  <2>1. Len(c) - (Len(c) - a + 1) + 1 = a
    BY <1>1
  <2> QED BY <1>1, <1>2, <2>1
<1> QED BY <1>1, <1>2, <1>3, SeqEqual

\* The values at the nodes of a sequence, and what becomes of them.
ValuesOf(c, f) == [k \in 1 .. Len(c) |-> f[c[k]]]

LEMMA ValuesAre ==
    ASSUME NEW c \in Seq(Nodes), NEW f \in [Nodes -> Int]
    PROVE  /\ ValuesOf(c, f) \in Seq(Int) /\ Len(ValuesOf(c, f)) = Len(c) /\ Len(c) \in Nat
           /\ \A k \in 1 .. Len(c) : ValuesOf(c, f)[k] = f[c[k]]
<1>1. Len(c) \in Nat /\ \A k \in 1 .. Len(c) : c[k] \in Nodes /\ f[c[k]] \in Int
  BY LenProperties
<1> QED BY <1>1 DEF ValuesOf

LEMMA ValuesSame ==
    ASSUME NEW c \in Seq(Nodes), NEW f, NEW g, \A k \in 1 .. Len(c) : f[c[k]] = g[c[k]]
    PROVE  ValuesOf(c, f) = ValuesOf(c, g)
BY DEF ValuesOf

LEMMA ValuesAddFirst ==
    ASSUME NEW c \in Seq(Nodes), NEW f \in [Nodes -> Int], NEW n \in Nodes
    PROVE  ValuesOf(<<n>> \o c, f) = <<f[n]>> \o ValuesOf(c, f)
<1> DEFINE e == <<n>> \o c
           l == ValuesOf(e, f)
           r == <<f[n]>> \o ValuesOf(c, f)
<1>0. /\ ValuesOf(c, f) \in Seq(Int) /\ Len(ValuesOf(c, f)) = Len(c) /\ Len(c) \in Nat
      /\ \A k \in 1 .. Len(c) : ValuesOf(c, f)[k] = f[c[k]]
  BY ValuesAre
<1>1. e \in Seq(Nodes) /\ Len(c) \in Nat /\ Len(e) = Len(c) + 1 /\ e[1] = n
      /\ \A a \in 2 .. Len(c) + 1 : e[a] = c[a - 1]
  OBVIOUS
<1>2. r \in Seq(Int) /\ Len(r) = Len(c) + 1 /\ r[1] = f[n]
      /\ \A a \in 2 .. Len(c) + 1 : r[a] = ValuesOf(c, f)[a - 1]
  <2>1. f[n] \in Int
    OBVIOUS
  <2> QED BY <2>1, ValuesAre
<1> HIDE DEF e
<1>3. l \in Seq(Int) /\ Len(l) = Len(e) /\ \A a \in 1 .. Len(e) : l[a] = f[e[a]]
  BY <1>1, ValuesAre
<1> HIDE DEF l, r
<1>4. ASSUME NEW a \in 1 .. Len(l)  PROVE l[a] = r[a]
  <2>1. CASE a = 1
    BY <1>1, <1>2, <1>3, <2>1
  <2>2. CASE a \in 2 .. Len(c) + 1
    <3>1. a - 1 \in 1 .. Len(c)
      BY <1>1, <2>2
    <3>2. ValuesOf(c, f)[a - 1] = f[c[a - 1]]
      BY <1>0, <3>1
    <3>3. r[a] = f[c[a - 1]]
      BY <1>2, <2>2, <3>2
    <3>4. e[a] = c[a - 1]
      BY <1>1, <2>2
    <3>5. a \in 1 .. Len(e)
      BY <1>1, <2>2
    <3> QED BY <1>3, <3>3, <3>4, <3>5
  <2> QED BY <1>1, <1>3, <2>1, <2>2
<1>5. l = r
  BY <1>1, <1>2, <1>3, <1>4, SeqEqual
<1> QED BY <1>5 DEF e, l, r

LEMMA ValuesAddLast ==
    ASSUME NEW c \in Seq(Nodes), NEW f \in [Nodes -> Int], NEW n \in Nodes
    PROVE  ValuesOf(Append(c, n), f) = Append(ValuesOf(c, f), f[n])
<1> DEFINE e == Append(c, n)
           l == ValuesOf(e, f)
           r == Append(ValuesOf(c, f), f[n])
<1>1. e \in Seq(Nodes) /\ Len(c) \in Nat /\ Len(e) = Len(c) + 1 /\ e[Len(c) + 1] = n
      /\ \A a \in 1 .. Len(c) : e[a] = c[a]
  OBVIOUS
<1>2. r \in Seq(Int) /\ Len(r) = Len(c) + 1 /\ r[Len(c) + 1] = f[n]
      /\ \A a \in 1 .. Len(c) : r[a] = f[c[a]]
  <2>1. f[n] \in Int
    OBVIOUS
  <2> QED BY <2>1, ValuesAre, AppendProperties
<1> HIDE DEF e
<1>3. l \in Seq(Int) /\ Len(l) = Len(e) /\ \A a \in 1 .. Len(e) : l[a] = f[e[a]]
  BY <1>1, ValuesAre
<1> HIDE DEF l, r
<1>4. ASSUME NEW a \in 1 .. Len(l)  PROVE l[a] = r[a]
  <2>1. a = Len(c) + 1 \/ a \in 1 .. Len(c)
    BY <1>1, <1>3
  <2>2. a \in 1 .. Len(e)
    BY <1>3
  <2>3. l[a] = f[e[a]]
    BY <1>3, <2>2
  <2>4. CASE a = Len(c) + 1
    BY <1>1, <1>2, <2>3, <2>4
  <2>5. CASE a \in 1 .. Len(c)
    BY <1>1, <1>2, <2>3, <2>5
  <2> QED BY <2>1, <2>4, <2>5
<1>5. l = r
  BY <1>1, <1>2, <1>3, <1>4, SeqEqual
<1> QED BY <1>5 DEF e, l, r

LEMMA ValuesDropFirst ==
    ASSUME NEW c \in Seq(Nodes), NEW f \in [Nodes -> Int], Len(c) > 0
    PROVE  ValuesOf(c, f) # <<>> /\ ValuesOf(Tail(c), f) = Tail(ValuesOf(c, f))
<1> DEFINE e == Tail(c)
           l == ValuesOf(e, f)
           r == Tail(ValuesOf(c, f))
<1>0. /\ ValuesOf(c, f) \in Seq(Int) /\ Len(ValuesOf(c, f)) = Len(c) /\ Len(c) \in Nat
      /\ \A k \in 1 .. Len(c) : ValuesOf(c, f)[k] = f[c[k]]
  BY ValuesAre
<1>1. e \in Seq(Nodes) /\ Len(c) \in Nat /\ Len(e) = Len(c) - 1 /\ \A a \in 1 .. Len(e) : e[a] = c[a + 1]
  <2>1. c # <<>>
    OBVIOUS
  <2> QED BY <2>1, HeadTailProperties
<1>2. ValuesOf(c, f) # <<>>
  <2>1. Len(ValuesOf(c, f)) # 0
    BY <1>1, <1>0
  <2> QED BY <2>1, EmptySeq
<1>3. r \in Seq(Int) /\ Len(r) = Len(c) - 1 /\ \A a \in 1 .. Len(c) - 1 : r[a] = ValuesOf(c, f)[a + 1]
  BY <1>2, <1>0, HeadTailProperties
<1> HIDE DEF e
<1>4. l \in Seq(Int) /\ Len(l) = Len(e) /\ \A a \in 1 .. Len(e) : l[a] = f[e[a]]
  BY <1>1, ValuesAre
<1> HIDE DEF l, r
<1>5. ASSUME NEW a \in 1 .. Len(l)  PROVE l[a] = r[a]
  <2>1. a \in 1 .. Len(e) /\ a \in 1 .. Len(c) - 1 /\ a + 1 \in 1 .. Len(c)
    <3>1. PICK n \in Nat : n = Len(c)
      BY <1>1
    <3>2. Len(l) = n - 1 /\ Len(e) = n - 1
      BY <1>1, <1>4, <3>1
    <3>3. a \in 1 .. n - 1 /\ a + 1 \in 1 .. n
      BY <3>2
    <3> QED BY <3>1, <3>2, <3>3
  <2>2. ValuesOf(c, f)[a + 1] = f[c[a + 1]]
    BY <1>0, <2>1
  <2>3. r[a] = f[c[a + 1]] /\ e[a] = c[a + 1]
    BY <1>1, <1>3, <2>1, <2>2
  <2> QED BY <1>4, <2>1, <2>3
<1>6. l = r
  BY <1>1, <1>3, <1>4, <1>5, SeqEqual
<1> QED BY <1>2, <1>6 DEF e, l, r

LEMMA ValuesDropLast ==
    ASSUME NEW c \in Seq(Nodes), NEW f \in [Nodes -> Int], Len(c) > 0
    PROVE  ValuesOf(c, f) # <<>> /\ ValuesOf(Front(c), f) = Front(ValuesOf(c, f))
<1> DEFINE e == Front(c)
           l == ValuesOf(e, f)
           r == Front(ValuesOf(c, f))
<1>0. /\ ValuesOf(c, f) \in Seq(Int) /\ Len(ValuesOf(c, f)) = Len(c) /\ Len(c) \in Nat
      /\ \A k \in 1 .. Len(c) : ValuesOf(c, f)[k] = f[c[k]]
  BY ValuesAre
<1>1. e \in Seq(Nodes) /\ Len(c) \in Nat /\ Len(e) = Len(c) - 1 /\ \A a \in 1 .. Len(e) : e[a] = c[a]
  BY FrontIs
<1>2. ValuesOf(c, f) # <<>>
  <2>1. Len(ValuesOf(c, f)) # 0
    BY <1>1, <1>0
  <2> QED BY <2>1, EmptySeq
<1>3. r \in Seq(Int) /\ Len(r) = Len(c) - 1 /\ \A a \in 1 .. Len(c) - 1 : r[a] = ValuesOf(c, f)[a]
  BY <1>0, FrontIs
<1> HIDE DEF e
<1>4. l \in Seq(Int) /\ Len(l) = Len(e) /\ \A a \in 1 .. Len(e) : l[a] = f[e[a]]
  BY <1>1, ValuesAre
<1> HIDE DEF l, r
<1>5. ASSUME NEW a \in 1 .. Len(l)  PROVE l[a] = r[a]
  <2>1. a \in 1 .. Len(e) /\ a \in 1 .. Len(c) - 1 /\ a \in 1 .. Len(c)
    BY <1>1, <1>4
  <2> QED BY <1>1, <1>3, <1>4, <2>1, <1>0
<1>6. l = r
  BY <1>1, <1>3, <1>4, <1>5, SeqEqual
<1> QED BY <1>2, <1>6 DEF e, l, r

LEMMA ValuesReverse ==
    ASSUME NEW c \in Seq(Nodes), NEW f \in [Nodes -> Int]
    PROVE  ValuesOf(Reverse(c), f) = Reverse(ValuesOf(c, f))
<1> DEFINE e == Reverse(c)
           l == ValuesOf(e, f)
           r == Reverse(ValuesOf(c, f))
<1>0. /\ ValuesOf(c, f) \in Seq(Int) /\ Len(ValuesOf(c, f)) = Len(c) /\ Len(c) \in Nat
      /\ \A k \in 1 .. Len(c) : ValuesOf(c, f)[k] = f[c[k]]
  BY ValuesAre
<1>1. e \in Seq(Nodes) /\ Len(e) = Len(c) /\ Len(c) \in Nat
      /\ \A a \in 1 .. Len(c) : Len(c) - a + 1 \in 1 .. Len(c) /\ e[a] = c[Len(c) - a + 1]
  BY ReverseIs
<1>2. r \in Seq(Int) /\ Len(r) = Len(c) /\ \A a \in 1 .. Len(c) : r[a] = ValuesOf(c, f)[Len(c) - a + 1]
  BY <1>0, ReverseIs
<1> HIDE DEF e
<1>3. l \in Seq(Int) /\ Len(l) = Len(e) /\ \A a \in 1 .. Len(e) : l[a] = f[e[a]]
  BY <1>1, ValuesAre
<1> HIDE DEF l, r
<1>4. ASSUME NEW a \in 1 .. Len(l)  PROVE l[a] = r[a]
  <2>1. a \in 1 .. Len(c) /\ a \in 1 .. Len(e) /\ Len(c) - a + 1 \in 1 .. Len(c) /\ e[a] = c[Len(c) - a + 1]
    BY <1>1, <1>3
  <2>2. ValuesOf(c, f)[Len(c) - a + 1] = f[c[Len(c) - a + 1]]
    BY <1>0, <2>1
  <2> QED BY <1>2, <1>3, <2>1, <2>2
<1>5. l = r
  BY <1>1, <1>2, <1>3, <1>4, SeqEqual
<1> QED BY <1>5 DEF e, l, r

\* Sequences in which nothing is repeated, by what they hold.
LEMMA RangeDropFirst ==
    ASSUME NEW c \in Seq(Nodes), Len(c) > 0, \A a, b \in 1 .. Len(c) : c[a] = c[b] => a = b
    PROVE  ToSet(Tail(c)) = ToSet(c) \ {c[1]}
<1>1. /\ Tail(c) \in Seq(Nodes) /\ Len(c) \in Nat /\ Len(Tail(c)) = Len(c) - 1
      /\ \A a \in 1 .. Len(Tail(c)) : Tail(c)[a] = c[a + 1]
  <2>1. c # <<>>
    OBVIOUS
  <2> QED BY <2>1, HeadTailProperties
<1>2. ASSUME NEW a \in 1 .. Len(Tail(c))  PROVE a + 1 \in 1 .. Len(c) /\ a + 1 # 1
  BY <1>1
<1>3. ASSUME NEW a \in 1 .. Len(c), a # 1  PROVE a - 1 \in 1 .. Len(Tail(c)) /\ (a - 1) + 1 = a
  BY <1>1, <1>3
<1>4. 1 \in 1 .. Len(c) /\ DOMAIN c = 1 .. Len(c) /\ DOMAIN Tail(c) = 1 .. Len(Tail(c))
  BY <1>1
<1>5. ToSet(Tail(c)) \subseteq ToSet(c) \ {c[1]}
  BY <1>1, <1>2, <1>4 DEF ToSet
<1>6. ASSUME NEW m \in ToSet(c), m # c[1]  PROVE m \in ToSet(Tail(c))
  <2>1. PICK a \in 1 .. Len(c) : m = c[a]
    BY <1>4 DEF ToSet
  <2>2. a - 1 \in 1 .. Len(Tail(c)) /\ Tail(c)[a - 1] = m
    <3>1. a - 1 \in 1 .. Len(Tail(c)) /\ (a - 1) + 1 = a
      BY <1>3, <1>6, <2>1
    <3> QED BY <1>1, <2>1, <3>1
  <2> QED BY <1>4, <2>2 DEF ToSet
<1> QED BY <1>5, <1>6

LEMMA RangeDropLast ==
    ASSUME NEW c \in Seq(Nodes), Len(c) > 0, \A a, b \in 1 .. Len(c) : c[a] = c[b] => a = b
    PROVE  ToSet(Front(c)) = ToSet(c) \ {c[Len(c)]}
<1>1. /\ Front(c) \in Seq(Nodes) /\ Len(c) \in Nat /\ Len(Front(c)) = Len(c) - 1
      /\ \A a \in 1 .. Len(Front(c)) : Front(c)[a] = c[a]
  BY FrontIs
<1>2. ASSUME NEW a \in 1 .. Len(Front(c))  PROVE a \in 1 .. Len(c) /\ a # Len(c)
  BY <1>1
<1>3. ASSUME NEW a \in 1 .. Len(c), a # Len(c)  PROVE a \in 1 .. Len(Front(c))
  BY <1>1, <1>3
<1>4. Len(c) \in 1 .. Len(c) /\ DOMAIN c = 1 .. Len(c) /\ DOMAIN Front(c) = 1 .. Len(Front(c))
  BY <1>1
<1>5. ToSet(Front(c)) \subseteq ToSet(c) \ {c[Len(c)]}
  BY <1>1, <1>2, <1>4 DEF ToSet
<1>6. ToSet(c) \ {c[Len(c)]} \subseteq ToSet(Front(c))
  BY <1>1, <1>3, <1>4 DEF ToSet
<1> QED BY <1>5, <1>6

LEMMA RangeAdd ==
    ASSUME NEW c \in Seq(Nodes), NEW n \in Nodes
    PROVE  ToSet(<<n>> \o c) = ToSet(c) \cup {n} /\ ToSet(Append(c, n)) = ToSet(c) \cup {n}
<1> DEFINE e == <<n>> \o c
           g == Append(c, n)
<1>1. /\ e \in Seq(Nodes) /\ Len(c) \in Nat /\ Len(e) = Len(c) + 1 /\ e[1] = n
      /\ \A a \in 2 .. Len(c) + 1 : e[a] = c[a - 1]
  OBVIOUS
<1>2. /\ g \in Seq(Nodes) /\ Len(g) = Len(c) + 1 /\ g[Len(c) + 1] = n
      /\ \A a \in 1 .. Len(c) : g[a] = c[a]
  OBVIOUS
<1> HIDE DEF e, g
<1>3. \A a \in 2 .. Len(c) + 1 : a - 1 \in 1 .. Len(c)
  BY <1>1
<1>4. \A a \in 1 .. Len(c) : a + 1 \in 2 .. Len(c) + 1 /\ (a + 1) - 1 = a /\ a + 1 \in 1 .. Len(c) + 1 /\ a \in 1 .. Len(c) + 1
  BY <1>1
<1>5. \A a \in 1 .. Len(c) + 1 : (a = 1 \/ a \in 2 .. Len(c) + 1) /\ (a \in 1 .. Len(c) \/ a = Len(c) + 1)
  BY <1>1
<1>6. /\ 1 \in 1 .. Len(c) + 1 /\ Len(c) + 1 \in 1 .. Len(c) + 1
      /\ DOMAIN c = 1 .. Len(c) /\ DOMAIN e = 1 .. Len(c) + 1 /\ DOMAIN g = 1 .. Len(c) + 1
  BY <1>1, <1>2
<1>7. ToSet(e) \subseteq ToSet(c) \cup {n} /\ ToSet(g) \subseteq ToSet(c) \cup {n}
  <2>1. \A a \in 1 .. Len(c) : c[a] \in ToSet(c)
    BY <1>6 DEF ToSet
  <2>2. \A a \in 1 .. Len(c) + 1 : e[a] \in ToSet(c) \cup {n} /\ g[a] \in ToSet(c) \cup {n}
    BY <1>1, <1>2, <1>3, <1>5, <2>1
  <2> QED BY <1>6, <2>2 DEF ToSet
<1>8. ASSUME NEW m \in ToSet(c) \cup {n}  PROVE m \in ToSet(e) /\ m \in ToSet(g)
  <2>1. CASE m = n
    BY <1>1, <1>2, <1>6, <2>1 DEF ToSet
  <2>2. CASE m \in ToSet(c)
    <3>1. PICK a \in 1 .. Len(c) : m = c[a]
      BY <1>6, <2>2 DEF ToSet
    <3>2. e[a + 1] = m /\ g[a] = m
      BY <1>1, <1>2, <1>4, <3>1
    <3> QED BY <1>4, <1>6, <3>2 DEF ToSet
  <2> QED BY <2>1, <2>2
<1>9. ToSet(e) = ToSet(c) \cup {n} /\ ToSet(g) = ToSet(c) \cup {n}
  BY <1>7, <1>8
<1> QED BY <1>9 DEF e, g

LEMMA RangeReverse ==
    ASSUME NEW c \in Seq(Nodes)  PROVE ToSet(Reverse(c)) = ToSet(c)
<1>1. /\ Len(c) \in Nat /\ Reverse(c) \in Seq(Nodes) /\ Len(Reverse(c)) = Len(c)
      /\ \A a \in 1 .. Len(c) : Len(c) - a + 1 \in 1 .. Len(c) /\ Reverse(c)[a] = c[Len(c) - a + 1]
  BY ReverseIs
<1>2. \A a \in 1 .. Len(c) : Len(c) - (Len(c) - a + 1) + 1 = a
  BY <1>1
<1>3. \A a \in 1 .. Len(c) : Reverse(c)[Len(c) - a + 1] = c[a]
  BY <1>1, <1>2
<1>4. DOMAIN c = 1 .. Len(c) /\ DOMAIN Reverse(c) = 1 .. Len(c)
  BY <1>1
<1>5. \A a \in 1 .. Len(c) : Reverse(c)[a] \in ToSet(c)
  BY <1>1, <1>4 DEF ToSet
<1>6. \A a \in 1 .. Len(c) : c[a] \in ToSet(Reverse(c))
  <2> HIDE DEF Reverse
  <2> SUFFICES ASSUME NEW a \in 1 .. Len(c)  PROVE \E b \in DOMAIN Reverse(c) : Reverse(c)[b] = c[a]
    BY DEF ToSet
  <2> QED BY <1>1, <1>3, <1>4
<1> QED BY <1>4, <1>5, <1>6 DEF ToSet

LEMMA RangeConcat ==
    ASSUME NEW d \in Seq(Nodes), NEW c \in Seq(Nodes)
    PROVE  ToSet(d \o c) = ToSet(d) \cup ToSet(c)
<1>1. /\ d \o c \in Seq(Nodes) /\ Len(d) \in Nat /\ Len(c) \in Nat /\ Len(d \o c) = Len(d) + Len(c)
      /\ \A a \in 1 .. Len(d) + Len(c) : (d \o c)[a] = IF a <= Len(d) THEN d[a] ELSE c[a - Len(d)]
  OBVIOUS
<1>2. \A a \in 1 .. Len(d) : a \in 1 .. Len(d) + Len(c) /\ a <= Len(d)
  BY <1>1
<1>3. \A a \in 1 .. Len(c) : a + Len(d) \in 1 .. Len(d) + Len(c) /\ ~(a + Len(d) <= Len(d)) /\ (a + Len(d)) - Len(d) = a
  BY <1>1
<1>4. \A a \in 1 .. Len(d) + Len(c) : a <= Len(d) \/ a - Len(d) \in 1 .. Len(c)
  BY <1>1
<1>5. \A a \in 1 .. Len(d) + Len(c) : a <= Len(d) => a \in 1 .. Len(d)
  BY <1>1
<1>6. /\ DOMAIN d = 1 .. Len(d) /\ DOMAIN c = 1 .. Len(c) /\ DOMAIN (d \o c) = 1 .. Len(d) + Len(c)
  BY <1>1
<1>7. ASSUME NEW v \in ToSet(d \o c)  PROVE v \in ToSet(d) \cup ToSet(c)
  <2>1. PICK a \in 1 .. Len(d) + Len(c) : v = (d \o c)[a]
    BY <1>6, <1>7 DEF ToSet
  <2> QED BY <1>1, <1>4, <1>5, <1>6, <2>1 DEF ToSet
<1>8. ASSUME NEW v \in ToSet(d)  PROVE v \in ToSet(d \o c)
  <2>1. PICK a \in 1 .. Len(d) : v = d[a]
    BY <1>6, <1>8 DEF ToSet
  <2> QED BY <1>1, <1>2, <1>6, <2>1 DEF ToSet
<1>9. ASSUME NEW v \in ToSet(c)  PROVE v \in ToSet(d \o c)
  <2>1. PICK a \in 1 .. Len(c) : v = c[a]
    BY <1>6, <1>9 DEF ToSet
  <2>2. (d \o c)[a + Len(d)] = v
    BY <1>1, <1>3, <2>1
  <2> QED BY <1>3, <1>6, <2>2 DEF ToSet
<1> QED BY <1>7, <1>8, <1>9

ListTypes ==
    /\ kind \in {"dq", "sl"} /\ status \in {"ok", "reverse", "ended", "segv"}
    /\ live \subseteq Nodes /\ size \in Int /\ data \in [Nodes -> Int]
    /\ next \in [Nodes -> Nodes \cup {NULL}] /\ prev \in [Nodes -> Nodes \cup {NULL}]
    /\ {head, tail, done, cur} \subseteq Nodes \cup {NULL}

\* c are the nodes of the list between two calls: those in memory, and for the
\* deque also backwards.
Holds(c) ==
    /\ IsChain(c, head, next) /\ live = ToSet(c)
    /\ kind = "dq" =>
          /\ size = Len(c) /\ IsChain(Reverse(c), IF Len(c) = 0 THEN NULL ELSE c[Len(c)], prev)
          /\ tail = NULL \/ (Len(c) > 0 /\ tail = c[Len(c)])

\* In reverse_list: d is turned round already, c is not.
Turning(d, c) ==
    /\ kind = "sl" /\ IsChain(d, done, next) /\ IsChain(c, cur, next)
    /\ ToSet(d) \cap ToSet(c) = {} /\ live = ToSet(d) \cup ToSet(c)

ListIInv ==
    /\ ListTypes
    /\ status = "ok" => \E c \in Seq(Nodes) : Holds(c)
    /\ status = "reverse" => \E d, c \in Seq(Nodes) : Turning(d, c)
    /\ status = "ended" => live = {}
    /\ status = "segv" =>
          \E c \in Seq(Nodes) : IsChain(c, head, next) /\ (Len(c) < 2 \/ (kind = "dq" /\ tail = NULL))

\* What a call does to the values of the list, unless it fails.
Does(B)    == IF status' = "segv" THEN Items' = Items ELSE B
Appends(d)  == Does(Items' = Append(Items, d))
Prepends(d) == Does(Items' = <<d>> \o Items)
DropsFirst  == Does(Items # <<>> /\ Items' = Tail(Items))
DropsLast   == Does(Items # <<>> /\ Items' = Front(Items))

\* A node is whole in the block that malloc gives, and nothing else is changed.
LEMMA NewIs ==
    ASSUME ListAssumption, NEW n, NEW d, NEW after, NEW before, New(n, d, after, before)
    PROVE  /\ n \in Nodes \ live /\ live' = live \cup {n} /\ data' = [data EXCEPT ![n] = d]
           /\ next' = [m \in Nodes |-> IF m = n THEN after ELSE IF m = before THEN n ELSE next[m]]
           /\ prev' = [m \in Nodes |-> IF kind # "dq" THEN NULL
                                       ELSE IF m = n THEN before ELSE IF m = after THEN n ELSE prev[m]]
<1>1. Whole
  <2>1. SizeofInt \in Nat /\ SizeofNode \in Nat /\ MinBlock \in Nat /\ SizeofNode <= MinBlock
    BY DEF ListAssumption
  <2>2. SizeofNode <= Usable(SizeofInt)
    BY <2>1 DEF Usable
  <2> QED BY <2>2 DEF Whole
<1> QED BY <1>1 DEF New

LEMMA OrderIs ==
    ASSUME ListAssumption, NEW c, IsChain(c, head, next), status \in {"ok", "segv"}
    PROVE  Order = c /\ Chain = c /\ Items = ValuesOf(c, data)
<1>1. Chain = c
  BY ChainAlong DEF Chain
<1>2. Order = c
  BY <1>1 DEF Order
<1> QED BY <1>1, <1>2 DEF Items, ValuesOf

LEMMA OrderIsNext ==
    ASSUME ListAssumption, NEW c, IsChain(c, head', next'), status' \in {"ok", "segv"}
    PROVE  Order' = c /\ Items' = ValuesOf(c, data')
<1>1. Chain' = c
  BY ChainAlong DEF Chain
<1>2. Order' = c
  BY <1>1 DEF Order
<1> QED BY <1>1, <1>2 DEF Items, ValuesOf

LEMMA OrderTurning ==
    ASSUME ListAssumption, NEW d, NEW c, Turning(d, c), status = "reverse"
    PROVE  Order = Reverse(d) \o c /\ Items = ValuesOf(Reverse(d) \o c, data)
<1>1. Along(done, next) = d /\ Along(cur, next) = c
  BY ChainAlong DEF Turning
<1>2. Order = Reverse(d) \o c
  BY <1>1 DEF Order
<1> QED BY <1>2 DEF Items, ValuesOf

LEMMA OrderNone ==
    ASSUME status = "ended"  PROVE Items = <<>>
<1>1. Order = <<>>
  BY DEF Order
<1> QED BY <1>1 DEF Items

\* What a call has to establish that returns.
LEMMA ListReturns ==
    ASSUME ListAssumption, ListTypes', NEW s, status' = "ok", IsChain(s, head', next'), live' = ToSet(s),
           kind' = "dq" =>
              /\ size' = Len(s) /\ IsChain(Reverse(s), IF Len(s) = 0 THEN NULL ELSE s[Len(s)], prev')
              /\ tail' = NULL \/ (Len(s) > 0 /\ tail' = s[Len(s)])
    PROVE  ListIInv' /\ Items' = ValuesOf(s, data')
<1>1. s \in Seq(Nodes)
  BY DEF IsChain
<1>2. IsChain(s, head, next)' /\ (kind = "dq" => IsChain(Reverse(s), IF Len(s) = 0 THEN NULL ELSE s[Len(s)], prev))'
  BY DEF IsChain
<1>3. Holds(s)'
  BY <1>2 DEF Holds
<1>4. ListIInv'
  BY <1>1, <1>3 DEF ListIInv
<1> QED BY <1>4, OrderIsNext

\* The calls that crash, and leave all as it was.
LEMMA ListCrash ==
    ASSUME ListAssumption, ListTypes, status = "ok", Crash, NEW c, Holds(c),
           Len(c) < 2 \/ (kind = "dq" /\ tail = NULL)
    PROVE  ListIInv' /\ status' = "segv" /\ Items' = Items
<1>1. /\ status' = "segv" /\ UNCHANGED <<kind, live, data, next, prev, head, tail, size, done, cur>>
      /\ IsChain(c, head, next) /\ c \in Seq(Nodes)
  BY DEF Crash, fields, ends, Holds, IsChain
<1>2. ListTypes'
  BY <1>1 DEF ListTypes
<1>3. IsChain(c, head, next)' /\ (Len(c) < 2 \/ (kind = "dq" /\ tail = NULL))'
  BY <1>1 DEF IsChain
<1>4. ListIInv'
  BY <1>1, <1>2, <1>3 DEF ListIInv
<1>5. Items' = Items
  <2>1. Items = ValuesOf(c, data)
    BY <1>1, OrderIs
  <2>2. Items' = ValuesOf(c, data')
    BY <1>1, OrderIsNext
  <2> QED BY <1>1, <2>1, <2>2
<1> QED BY <1>1, <1>4, <1>5

\* A node at the front, of a list or as the only one.
LEMMA ListAddFirst ==
    ASSUME ListAssumption, ListTypes, status = "ok", Goes, NEW c, Holds(c),
           NEW n \in Nodes, NEW d \in Data, New(n, d, head, NULL), head' = n, tail' = tail,
           size' \in Int, kind = "dq" => size' = size + 1
    PROVE  ListIInv' /\ status' = "ok" /\ Items' = <<d>> \o Items
<1>1. c \in Seq(Nodes) /\ Len(c) \in Nat /\ NULL \notin Nodes /\ IsChain(c, head, next)
      /\ n \notin live /\ live = ToSet(c) /\ d \in Int /\ n # NULL
  <2>1. IsChain(c, head, next) /\ live = ToSet(c)
    BY DEF Holds
  <2> QED BY <2>1, NewIs DEF IsChain, ListAssumption
<1>2. /\ live' = live \cup {n} /\ data' = [data EXCEPT ![n] = d]
      /\ next' = [m \in Nodes |-> IF m = n THEN head ELSE IF m = NULL THEN n ELSE next[m]]
      /\ prev' = [m \in Nodes |-> IF kind # "dq" THEN NULL
                                ELSE IF m = n THEN NULL ELSE IF m = head THEN n ELSE prev[m]]
      /\ UNCHANGED <<kind, done, cur, status>>
  BY NewIs DEF Goes
<1>3. ListTypes'
  BY <1>1, <1>2 DEF ListTypes
<1>4. \A a \in 1 .. Len(c) : c[a] # n /\ c[a] \in Nodes
  BY <1>1 DEF ToSet
<1> DEFINE e == <<n>> \o c
<1>5. e \in Seq(Nodes) /\ Len(e) = Len(c) + 1 /\ e[1] = n /\ (Len(c) > 0 => e[Len(e)] = c[Len(c)])
  BY <1>1
<1> HIDE DEF e
<1>6. IsChain(e, n, next')
  <2>1. next'[n] = head /\ \A m \in Nodes : m # n => next'[m] = next[m]
    BY <1>1, <1>2
  <2> QED BY <1>1, <1>4, <2>1, ChainAddFirst DEF e
<1>7. ToSet(e) = live'
  BY <1>1, <1>2, RangeAdd DEF e
<1>8. ASSUME kind = "dq"
      PROVE  /\ size' = Len(e) /\ IsChain(Reverse(e), e[Len(e)], prev')
             /\ tail' = NULL \/ tail' = e[Len(e)]
  <2>1. /\ size = Len(c) /\ IsChain(Reverse(c), IF Len(c) = 0 THEN NULL ELSE c[Len(c)], prev)
        /\ tail = NULL \/ (Len(c) > 0 /\ tail = c[Len(c)])
    BY <1>8 DEF Holds
  <2>2. /\ Reverse(c) \in Seq(Nodes) /\ Len(Reverse(c)) = Len(c)
        /\ \A a \in 1 .. Len(c) : Len(c) - a + 1 \in 1 .. Len(c) /\ Reverse(c)[a] = c[Len(c) - a + 1]
    BY <1>1, ReverseIs
  <2>3. \A a \in 1 .. Len(Reverse(c)) : Reverse(c)[a] # n
    BY <1>4, <2>2
  <2>4. Len(c) > 0 => Reverse(c)[Len(c)] = head /\ head \in Nodes /\ head # n
    <3>1. Len(c) > 0 => Len(c) \in 1 .. Len(c) /\ Len(c) - Len(c) + 1 = 1 /\ 1 \in 1 .. Len(c) /\ Len(c) # 0
      BY <1>1
    <3>2. head = IF Len(c) = 0 THEN NULL ELSE c[1]
      BY <1>1 DEF IsChain
    <3> QED BY <1>4, <2>2, <3>1, <3>2
  <2>5. Len(c) = 0 => head = NULL
    BY <1>1 DEF IsChain
  <2>6. prev'[n] = NULL /\ (Len(Reverse(c)) > 0 => prev'[Reverse(c)[Len(Reverse(c))]] = n)
    BY <1>2, <1>8, <2>2, <2>4
  <2>7. \A m \in Nodes : m # n /\ (Len(Reverse(c)) > 0 => m # Reverse(c)[Len(Reverse(c))]) => prev'[m] = prev[m]
    <3>1. Len(c) > 0 \/ Len(c) = 0
      BY <1>1
    <3> QED BY <1>1, <1>2, <1>8, <2>2, <2>4, <2>5, <3>1
  <2>8. IsChain(Append(Reverse(c), n), IF Len(Reverse(c)) = 0 THEN n ELSE IF Len(c) = 0 THEN NULL ELSE c[Len(c)], prev')
    BY <2>1, <2>3, <2>6, <2>7, ChainAddLast
  <2>9. Append(Reverse(c), n) = Reverse(e)
    BY <1>1, ReverseAddFirst DEF e
  <2>10. (IF Len(Reverse(c)) = 0 THEN n ELSE IF Len(c) = 0 THEN NULL ELSE c[Len(c)]) = e[Len(e)]
    <3>1. CASE Len(c) = 0
      BY <1>5, <2>2, <3>1
    <3>2. CASE Len(c) # 0
      BY <1>1, <1>5, <2>2, <3>2
    <3> QED BY <3>1, <3>2
  <2>11. IsChain(Reverse(e), e[Len(e)], prev')
    BY <2>8, <2>9, <2>10
  <2> QED BY <1>5, <1>8, <2>1, <2>11
<1>9. ListIInv' /\ Items' = ValuesOf(e, data')
  <2>1. Len(e) # 0 /\ Len(e) > 0 /\ status' = "ok" /\ kind' = kind
    BY <1>1, <1>2, <1>5
  <2>2. IsChain(e, head', next')
    BY <1>6
  <2> QED BY <1>3, <1>7, <1>8, <2>1, <2>2, ListReturns
<1>10. Items' = <<d>> \o Items
  <2>1. Items = ValuesOf(c, data)
    BY <1>1, OrderIs
  <2>2. data' \in [Nodes -> Int] /\ data'[n] = d /\ \A a \in 1 .. Len(c) : data'[c[a]] = data[c[a]]
    BY <1>1, <1>2, <1>4 DEF ListTypes
  <2>3. ValuesOf(e, data') = <<d>> \o ValuesOf(c, data')
    BY <1>1, <2>2, ValuesAddFirst DEF e
  <2>4. ValuesOf(c, data') = ValuesOf(c, data)
    BY <1>1, <2>2, ValuesSame
  <2> QED BY <1>9, <2>1, <2>3, <2>4
<1> QED BY <1>9, <1>10 DEF Goes

\* A node behind the last.
LEMMA ListAddLast ==
    ASSUME ListAssumption, ListTypes, status = "ok", Goes, NEW c, Holds(c), Len(c) > 0,
           NEW n \in Nodes, NEW d \in Data, New(n, d, NULL, c[Len(c)]), head' = head,
           size' \in Int, tail' \in Nodes \cup {NULL},
           kind = "dq" => size' = size + 1 /\ tail' = n
    PROVE  ListIInv' /\ status' = "ok" /\ Items' = Append(Items, d)
<1>1. c \in Seq(Nodes) /\ Len(c) \in Nat /\ NULL \notin Nodes /\ IsChain(c, head, next)
      /\ n \notin live /\ live = ToSet(c) /\ d \in Int /\ n # NULL
  <2>1. IsChain(c, head, next) /\ live = ToSet(c)
    BY DEF Holds
  <2> QED BY <2>1, NewIs DEF IsChain, ListAssumption
<1>2. /\ live' = live \cup {n} /\ data' = [data EXCEPT ![n] = d]
      /\ next' = [m \in Nodes |-> IF m = n THEN NULL ELSE IF m = c[Len(c)] THEN n ELSE next[m]]
      /\ prev' = [m \in Nodes |-> IF kind # "dq" THEN NULL
                                ELSE IF m = n THEN c[Len(c)] ELSE IF m = NULL THEN n ELSE prev[m]]
      /\ UNCHANGED <<kind, done, cur, status>>
  BY NewIs DEF Goes
<1>3. Len(c) \in 1 .. Len(c) /\ Len(c) # 0 /\ c[Len(c)] \in Nodes
  BY <1>1
<1>4. ListTypes'
  BY <1>1, <1>2, <1>3 DEF ListTypes
<1>5. \A a \in 1 .. Len(c) : c[a] # n /\ c[a] \in Nodes
  BY <1>1 DEF ToSet
<1> DEFINE e == Append(c, n)
<1>6. e \in Seq(Nodes) /\ Len(e) = Len(c) + 1 /\ e[Len(e)] = n
  BY <1>1
<1> HIDE DEF e
<1>7. IsChain(e, head, next')
  <2>1. next'[n] = NULL /\ next'[c[Len(c)]] = n
    BY <1>2, <1>3, <1>5
  <2>2. \A m \in Nodes : m # n /\ m # c[Len(c)] => next'[m] = next[m]
    BY <1>2
  <2>3. IsChain(e, IF Len(c) = 0 THEN n ELSE head, next')
    BY <1>1, <1>3, <1>5, <2>1, <2>2, ChainAddLast DEF e
  <2> QED BY <1>3, <2>3
<1>8. ToSet(e) = live'
  BY <1>1, <1>2, RangeAdd DEF e
<1>9. ASSUME kind = "dq"
      PROVE  size' = Len(e) /\ IsChain(Reverse(e), e[Len(e)], prev') /\ tail' = e[Len(e)]
  <2>1. size = Len(c) /\ IsChain(Reverse(c), c[Len(c)], prev)
    BY <1>3, <1>9 DEF Holds
  <2>2. \A a \in 1 .. Len(Reverse(c)) : Reverse(c)[a] # n
    BY <1>1, <1>5, ReverseIs
  <2>3. prev'[n] = c[Len(c)] /\ \A m \in Nodes : m # n => prev'[m] = prev[m]
    BY <1>1, <1>2, <1>9
  <2>4. IsChain(<<n>> \o Reverse(c), n, prev')
    BY <2>1, <2>2, <2>3, ChainAddFirst
  <2>5. <<n>> \o Reverse(c) = Reverse(e)
    BY <1>1, ReverseAddLast DEF e
  <2> QED BY <1>6, <1>9, <2>1, <2>4, <2>5
<1>10. ListIInv' /\ Items' = ValuesOf(e, data')
  <2>1. Len(e) # 0 /\ Len(e) > 0 /\ status' = "ok" /\ kind' = kind
    BY <1>1, <1>2, <1>6
  <2>2. IsChain(e, head', next')
    BY <1>7
  <2> QED BY <1>4, <1>8, <1>9, <2>1, <2>2, ListReturns
<1>11. Items' = Append(Items, d)
  <2>1. Items = ValuesOf(c, data)
    BY <1>1, OrderIs
  <2>2. data' \in [Nodes -> Int] /\ data'[n] = d /\ \A a \in 1 .. Len(c) : data'[c[a]] = data[c[a]]
    BY <1>1, <1>2, <1>5 DEF ListTypes
  <2>3. ValuesOf(e, data') = Append(ValuesOf(c, data'), d)
    BY <1>1, <2>2, ValuesAddLast DEF e
  <2>4. ValuesOf(c, data') = ValuesOf(c, data)
    BY <1>1, <2>2, ValuesSame
  <2> QED BY <1>10, <2>1, <2>3, <2>4
<1> QED BY <1>10, <1>11 DEF Goes

\* The first node taken off.
LEMMA ListDropFirst ==
    ASSUME ListAssumption, ListTypes, status = "ok", Goes, NEW c, Holds(c), Len(c) > 0,
           UNCHANGED <<data, next, tail>>, head' = next[head], live' = live \ {head}, size' \in Int,
           prev' \in [Nodes -> Nodes \cup {NULL}],
           kind = "dq" => Len(c) > 1 /\ size' = size - 1 /\ prev' = [prev EXCEPT ![next[head]] = NULL]
    PROVE  ListIInv' /\ status' = "ok" /\ Items # <<>> /\ Items' = Tail(Items)
<1>1. c \in Seq(Nodes) /\ Len(c) \in Nat /\ NULL \notin Nodes /\ IsChain(c, head, next)
      /\ live = ToSet(c) /\ head = c[1] /\ \A a, b \in 1 .. Len(c) : c[a] = c[b] => a = b
  <2>1. IsChain(c, head, next) /\ live = ToSet(c)
    BY DEF Holds
  <2>2. Len(c) \in Nat /\ Len(c) # 0
    BY <2>1 DEF IsChain
  <2> QED BY <2>1, <2>2 DEF IsChain, ListAssumption
<1>2. /\ UNCHANGED <<kind, done, cur, status>> /\ next[head] \in Nodes \cup {NULL}
      /\ 1 \in 1 .. Len(c) /\ c[1] \in Nodes
  BY <1>1 DEF Goes, ListTypes
<1>3. ListTypes'
  BY <1>1, <1>2 DEF ListTypes
<1> DEFINE e == Tail(c)
<1>4. /\ IsChain(e, next[head], next) /\ Len(e) = Len(c) - 1 /\ e \in Seq(Nodes)
      /\ \A a \in 1 .. Len(c) - 1 : e[a] = c[a + 1]
  <2>1. IsChain(e, next[head], next) /\ Len(e) = Len(c) - 1 /\ \A a \in 1 .. Len(c) - 1 : e[a] = c[a + 1]
    BY <1>1, ChainDropFirst
  <2> QED BY <2>1 DEF IsChain
<1>5. ToSet(e) = live'
  BY <1>1, RangeDropFirst
<1> HIDE DEF e
<1>6. ASSUME kind = "dq"
      PROVE  /\ size' = Len(e) /\ Len(e) > 0 /\ IsChain(Reverse(e), e[Len(e)], prev')
             /\ tail' = NULL \/ tail' = e[Len(e)]
  <2>1. /\ size = Len(c) /\ Len(c) > 1 /\ IsChain(Reverse(c), c[Len(c)], prev)
        /\ tail = NULL \/ tail = c[Len(c)]
    <3>1. Len(c) # 0
      BY <1>1
    <3> QED BY <1>6, <3>1 DEF Holds
  <2>2. /\ Reverse(c) \in Seq(Nodes) /\ Len(Reverse(c)) = Len(c)
        /\ \A a \in 1 .. Len(c) : Len(c) - a + 1 \in 1 .. Len(c) /\ Reverse(c)[a] = c[Len(c) - a + 1]
    BY <1>1, ReverseIs
  <2>3. Len(c) - 1 \in 1 .. Len(c) /\ Len(c) - (Len(c) - 1) + 1 = 2 /\ 2 \in 1 .. Len(c) /\ Len(c) - 1 \in 1 .. Len(c) - 1
        /\ (Len(c) - 1) + 1 = Len(c) /\ 1 < Len(c)
    BY <1>1, <2>1
  <2>4. Reverse(c)[Len(Reverse(c)) - 1] = c[2]
    BY <2>2, <2>3
  <2>5. next[head] = c[2]
    <3>1. next[c[1]] = IF 1 < Len(c) THEN c[1 + 1] ELSE NULL
      BY <1>1, <1>2 DEF IsChain
    <3> QED BY <1>1, <2>3, <3>1
  <2>6. prev'[c[2]] = NULL /\ \A m \in Nodes : m # c[2] => prev'[m] = prev[m]
    <3>1. c[2] \in Nodes
      BY <1>1, <2>3
    <3> QED BY <1>6, <2>5, <3>1 DEF ListTypes
  <2>7. IsChain(Front(Reverse(c)), c[Len(c)], prev')
    BY <2>1, <2>2, <2>4, <2>6, ChainDropLast
  <2>8. Front(Reverse(c)) = Reverse(e)
    BY <1>1, ReverseDropFirst DEF e
  <2>9. e[Len(e)] = c[Len(c)] /\ Len(e) > 0
    BY <1>1, <1>4, <2>3
  <2> QED BY <1>4, <1>6, <2>1, <2>7, <2>8, <2>9
<1>7. ListIInv' /\ Items' = ValuesOf(e, data')
  <2>1. status' = "ok" /\ kind' = kind /\ IsChain(e, head', next')
    BY <1>2, <1>4
  <2>2. kind = "dq" => Len(e) # 0
    BY <1>1, <1>4, <1>6
  <2> QED BY <1>3, <1>5, <1>6, <2>1, <2>2, ListReturns
<1>8. Items # <<>> /\ Items' = Tail(Items)
  <2>1. Items = ValuesOf(c, data)
    BY <1>1, OrderIs
  <2>2. ValuesOf(c, data) # <<>> /\ ValuesOf(e, data) = Tail(ValuesOf(c, data))
    BY <1>1, ValuesDropFirst DEF e, ListTypes
  <2> QED BY <1>7, <2>1, <2>2
<1> QED BY <1>7, <1>8 DEF Goes

\* The last node taken off.
LEMMA ListDropLast ==
    ASSUME ListAssumption, ListTypes, status = "ok", Goes, NEW c, Holds(c), Len(c) > 1,
           UNCHANGED <<data, prev, head>>, live' = live \ {c[Len(c)]},
           next' = [next EXCEPT ![c[Len(c) - 1]] = NULL], size' \in Int, tail' \in Nodes \cup {NULL},
           kind = "dq" => size' = size - 1 /\ tail' = c[Len(c) - 1]
    PROVE  ListIInv' /\ status' = "ok" /\ Items # <<>> /\ Items' = Front(Items)
<1>1. c \in Seq(Nodes) /\ Len(c) \in Nat /\ NULL \notin Nodes /\ IsChain(c, head, next)
      /\ live = ToSet(c) /\ \A a, b \in 1 .. Len(c) : c[a] = c[b] => a = b
  <2>1. IsChain(c, head, next) /\ live = ToSet(c)
    BY DEF Holds
  <2> QED BY <2>1 DEF IsChain, ListAssumption
<1>2. Len(c) - 1 \in 1 .. Len(c) /\ c[Len(c) - 1] \in Nodes /\ Len(c) - 1 > 0 /\ Len(c) # 0 /\ Len(c) > 0
      /\ UNCHANGED <<kind, done, cur, status>>
  BY <1>1 DEF Goes
<1>3. ListTypes'
  BY <1>1, <1>2 DEF ListTypes
<1> DEFINE e == Front(c)
<1>4. /\ IsChain(e, head, next') /\ Len(e) = Len(c) - 1 /\ e \in Seq(Nodes)
      /\ \A a \in 1 .. Len(c) - 1 : e[a] = c[a]
  <2>1. next'[c[Len(c) - 1]] = NULL /\ \A m \in Nodes : m # c[Len(c) - 1] => next'[m] = next[m]
    BY <1>2 DEF ListTypes
  <2>2. IsChain(e, head, next') /\ Len(e) = Len(c) - 1 /\ \A a \in 1 .. Len(c) - 1 : e[a] = c[a]
    <3>1. IsChain(c, head, next) /\ Len(c) > 1
      BY <1>1
    <3>2. \A f, g, h : IsChain(c, h, f) /\ g[c[Len(c) - 1]] = NULL /\ (\A m \in Nodes : m # c[Len(c) - 1] => g[m] = f[m])
             => IsChain(e, h, g) /\ Len(e) = Len(c) - 1 /\ \A a \in 1 .. Len(c) - 1 : e[a] = c[a]
      BY ChainDropLast
    <3> QED BY <2>1, <3>1, <3>2
  <2> QED BY <2>2 DEF IsChain
<1>5. ToSet(e) = live'
  BY <1>1, <1>2, RangeDropLast
<1> HIDE DEF e
<1>6. Len(e) # 0 /\ Len(e) > 0 /\ e[Len(e)] = c[Len(c) - 1]
  BY <1>1, <1>2, <1>4
<1>7. ASSUME kind = "dq"
      PROVE  size' = Len(e) /\ IsChain(Reverse(e), e[Len(e)], prev') /\ tail' = e[Len(e)]
  <2>1. size = Len(c) /\ IsChain(Reverse(c), c[Len(c)], prev)
    BY <1>2, <1>7 DEF Holds
  <2>2. /\ Reverse(c) \in Seq(Nodes) /\ Len(Reverse(c)) = Len(c)
        /\ \A a \in 1 .. Len(c) : Len(c) - a + 1 \in 1 .. Len(c) /\ Reverse(c)[a] = c[Len(c) - a + 1]
    BY <1>1, ReverseIs
  <2>3. IsChain(Tail(Reverse(c)), prev[c[Len(c)]], prev)
    BY <1>2, <2>1, <2>2, ChainDropFirst
  <2>4. Tail(Reverse(c)) = Reverse(e)
    BY <1>1, <1>2, ReverseDropLast DEF e
  <2>5. prev[c[Len(c)]] = c[Len(c) - 1]
    <3>1. 1 \in 1 .. Len(c) /\ 2 \in 1 .. Len(c) /\ 1 < Len(c) /\ 1 + 1 = 2 /\ Len(c) - 1 + 1 = Len(c) /\ Len(c) - 2 + 1 = Len(c) - 1
      BY <1>1
    <3>2. Reverse(c)[1] = c[Len(c)] /\ Reverse(c)[2] = c[Len(c) - 1]
      BY <2>2, <3>1
    <3>3. prev[Reverse(c)[1]] = IF 1 < Len(Reverse(c)) THEN Reverse(c)[1 + 1] ELSE NULL
      BY <2>1, <2>2, <3>1 DEF IsChain
    <3> QED BY <2>2, <3>1, <3>2, <3>3
  <2> QED BY <1>4, <1>6, <1>7, <2>1, <2>3, <2>4, <2>5
<1>8. ListIInv' /\ Items' = ValuesOf(e, data')
  <2>1. status' = "ok" /\ kind' = kind /\ IsChain(e, head', next')
    BY <1>2, <1>4
  <2> QED BY <1>3, <1>5, <1>6, <1>7, <2>1, ListReturns
<1>9. Items # <<>> /\ Items' = Front(Items)
  <2>1. Items = ValuesOf(c, data)
    BY <1>1, OrderIs
  <2>2. ValuesOf(c, data) # <<>> /\ ValuesOf(e, data) = Front(ValuesOf(c, data))
    BY <1>1, <1>2, ValuesDropLast DEF e, ListTypes
  <2> QED BY <1>8, <2>1, <2>2
<1> QED BY <1>8, <1>9 DEF Goes

\* What a call finds that begins with the nodes c.
LEMMA ListEnds ==
    ASSUME ListAssumption, status = "ok", NEW c, Holds(c)
    PROVE  /\ Chain = c /\ c \in Seq(Nodes) /\ Len(c) \in Nat
           /\ head = NULL <=> Len(c) = 0
           /\ head # NULL => /\ head \in Nodes /\ Len(c) > 0 /\ Last(Chain) = c[Len(c)]
                             /\ next[head] = NULL <=> Len(c) < 2
           /\ kind = "dq" /\ tail # NULL =>
                 /\ tail \in Nodes /\ Len(c) > 0 /\ tail = c[Len(c)]
                 /\ prev[tail] = IF Len(c) < 2 THEN NULL ELSE c[Len(c) - 1]
<1>1. IsChain(c, head, next) /\ c \in Seq(Nodes) /\ Len(c) \in Nat /\ NULL \notin Nodes
  BY DEF Holds, IsChain, ListAssumption
<1>2. Chain = c
  BY <1>1, OrderIs
<1>3. Len(c) = 0 \/ (1 \in 1 .. Len(c) /\ Len(c) \in 1 .. Len(c) /\ Len(c) > 0 /\ Len(c) # 0)
  BY <1>1
<1>4. head = IF Len(c) = 0 THEN NULL ELSE c[1]
  BY <1>1 DEF IsChain
<1>5. head = NULL <=> Len(c) = 0
  BY <1>1, <1>3, <1>4
<1>6. ASSUME head # NULL
      PROVE  head \in Nodes /\ Len(c) > 0 /\ Last(Chain) = c[Len(c)] /\ (next[head] = NULL <=> Len(c) < 2)
  <2>1. Len(c) > 0 /\ 1 \in 1 .. Len(c) /\ head = c[1]
    BY <1>3, <1>4, <1>6
  <2>2. next[head] = IF 1 < Len(c) THEN c[1 + 1] ELSE NULL
    BY <1>1, <2>1 DEF IsChain
  <2>3. 1 < Len(c) => 1 + 1 \in 1 .. Len(c)
    BY <1>1
  <2>4. 1 < Len(c) <=> ~(Len(c) < 2)
    BY <1>1
  <2> QED BY <1>1, <1>2, <2>1, <2>2, <2>3, <2>4 DEF Last
<1>7. ASSUME kind = "dq", tail # NULL
      PROVE  /\ tail \in Nodes /\ Len(c) > 0 /\ tail = c[Len(c)]
             /\ prev[tail] = IF Len(c) < 2 THEN NULL ELSE c[Len(c) - 1]
  <2>1. Len(c) > 0 /\ tail = c[Len(c)] /\ IsChain(Reverse(c), IF Len(c) = 0 THEN NULL ELSE c[Len(c)], prev)
    BY <1>7 DEF Holds
  <2>2. /\ Len(Reverse(c)) = Len(c)
        /\ \A a \in 1 .. Len(c) : Len(c) - a + 1 \in 1 .. Len(c) /\ Reverse(c)[a] = c[Len(c) - a + 1]
    BY <1>1, ReverseIs
  <2>3. 1 \in 1 .. Len(c) /\ Len(c) \in 1 .. Len(c) /\ Len(c) - 1 + 1 = Len(c) /\ 1 + 1 = 2
        /\ (1 < Len(c) <=> ~(Len(c) < 2)) /\ (1 < Len(c) => 2 \in 1 .. Len(c) /\ Len(c) - 2 + 1 = Len(c) - 1)
    BY <1>1, <2>1
  <2>4. Reverse(c)[1] = c[Len(c)] /\ (1 < Len(c) => Reverse(c)[2] = c[Len(c) - 1])
    BY <2>2, <2>3
  <2>5. prev[Reverse(c)[1]] = IF 1 < Len(c) THEN Reverse(c)[1 + 1] ELSE NULL
    BY <2>1, <2>2, <2>3 DEF IsChain
  <2> QED BY <1>1, <2>1, <2>3, <2>4, <2>5
<1> QED BY <1>1, <1>2, <1>5, <1>6, <1>7

\* A list without nodes has no values, so that its ends are one.
LEMMA NoItems ==
    ASSUME ListAssumption, status = "ok", NEW c, Holds(c), Len(c) = 0, NEW d \in Data
    PROVE  <<d>> \o Items = Append(Items, d)
<1>1. c \in Seq(Nodes) /\ Items = ValuesOf(c, data)
  BY OrderIs DEF Holds, IsChain
<1>2. Items = <<>>
  BY <1>1 DEF ValuesOf
<1> QED BY <1>2

\* The calls of DoublyLinkedListDequ.c.
LEMMA DqInsertAppends ==
    ASSUME ListAssumption, ListTypes, status = "ok", NEW c, Holds(c), NEW n \in Nodes, NEW d \in Data, DqInsert(n, d)
    PROVE  ListIInv' /\ Appends(d)
<1>1. Len(c) \in Nat /\ (head = NULL <=> Len(c) = 0) /\ size \in Int /\ size + 1 \in Int /\ tail \in Nodes \cup {NULL}
  BY ListEnds DEF ListTypes
<1>2. Goes /\ size' = size + 1
  BY DEF DqInsert
<1>3. CASE head = NULL
  <2>1. New(n, d, head, NULL) /\ head' = n /\ tail' = tail
    BY <1>3 DEF DqInsert
  <2>2. ListIInv' /\ status' = "ok" /\ Items' = <<d>> \o Items
    BY <1>1, <1>2, <2>1, ListAddFirst
  <2> QED BY <1>1, <1>3, <2>2, NoItems DEF Appends, Does
<1>4. CASE head # NULL
  <2>1. New(n, d, NULL, Last(Chain)) /\ tail' = n /\ head' = head
    BY <1>4 DEF DqInsert
  <2>2. Len(c) > 0 /\ Last(Chain) = c[Len(c)]
    BY <1>4, ListEnds
  <2>3. New(n, d, NULL, c[Len(c)])
    BY <2>1, <2>2
  <2>4. ListIInv' /\ status' = "ok" /\ Items' = Append(Items, d)
    BY <1>1, <1>2, <2>1, <2>2, <2>3, ListAddLast
  <2> QED BY <2>4 DEF Appends, Does
<1> QED BY <1>3, <1>4

LEMMA DqInsertFirstPrepends ==
    ASSUME ListAssumption, ListTypes, status = "ok", NEW c, Holds(c), NEW n \in Nodes, NEW d \in Data, DqInsertFirst(n, d)
    PROVE  ListIInv' /\ Prepends(d)
<1>1. Len(c) \in Nat /\ (head = NULL <=> Len(c) = 0) /\ size \in Int /\ size + 1 \in Int /\ tail \in Nodes \cup {NULL}
  BY ListEnds DEF ListTypes
<1>2. CASE head = NULL
  BY <1>1, <1>2, ListCrash DEF DqInsertFirst, Prepends, Does
<1>3. CASE head # NULL
  <2>1. Goes /\ New(n, d, head, NULL) /\ head' = n /\ size' = size + 1 /\ tail' = tail
    BY <1>3 DEF DqInsertFirst
  <2>2. ListIInv' /\ status' = "ok" /\ Items' = <<d>> \o Items
    BY <1>1, <2>1, ListAddFirst
  <2> QED BY <2>2 DEF Prepends, Does
<1> QED BY <1>2, <1>3

LEMMA DqInsertLastAppends ==
    ASSUME ListAssumption, ListTypes, status = "ok", NEW c, Holds(c), NEW n \in Nodes, NEW d \in Data, DqInsertLast(n, d)
    PROVE  ListIInv' /\ Appends(d)
<1>1. Len(c) \in Nat /\ kind = "dq" /\ size \in Int /\ size + 1 \in Int /\ tail \in Nodes \cup {NULL}
  BY ListEnds DEF ListTypes, DqInsertLast, Running
<1>2. CASE tail = NULL
  BY <1>1, <1>2, ListCrash DEF DqInsertLast, Appends, Does
<1>3. CASE tail # NULL
  <2>1. Goes /\ New(n, d, NULL, tail) /\ tail' = n /\ size' = size + 1 /\ head' = head
    BY <1>3 DEF DqInsertLast
  <2>2. Len(c) > 0 /\ tail = c[Len(c)]
    BY <1>1, <1>3, ListEnds
  <2>3. New(n, d, NULL, c[Len(c)])
    BY <2>1, <2>2
  <2>4. ListIInv' /\ status' = "ok" /\ Items' = Append(Items, d)
    BY <1>1, <2>1, <2>2, <2>3, ListAddLast
  <2> QED BY <2>4 DEF Appends, Does
<1> QED BY <1>2, <1>3

LEMMA DqRemoveFirstDrops ==
    ASSUME ListAssumption, ListTypes, status = "ok", NEW c, Holds(c), DqRemoveFirst
    PROVE  ListIInv' /\ DropsFirst
<1>1. Len(c) \in Nat /\ (head = NULL <=> Len(c) = 0) /\ size - 1 \in Int /\ kind = "dq"
  BY ListEnds DEF ListTypes, DqRemoveFirst, Running
<1>2. CASE head = NULL \/ next[head] = NULL
  <2>1. Len(c) < 2
    BY <1>1, <1>2, ListEnds
  <2> QED BY <1>2, <2>1, ListCrash DEF DqRemoveFirst, DropsFirst, Does
<1>3. CASE head # NULL /\ next[head] # NULL
  <2>1. /\ Goes /\ head' = next[head] /\ prev' = [prev EXCEPT ![next[head]] = NULL]
        /\ live' = live \ {head} /\ size' = size - 1 /\ UNCHANGED <<data, next, tail>>
    BY <1>3 DEF DqRemoveFirst
  <2>2. Len(c) > 0 /\ ~(Len(c) < 2)
    BY <1>3, ListEnds
  <2>3. Len(c) > 1
    BY <1>1, <2>2
  <2>4. prev' \in [Nodes -> Nodes \cup {NULL}]
    BY <2>1 DEF ListTypes
  <2>5. ListIInv' /\ status' = "ok" /\ Items # <<>> /\ Items' = Tail(Items)
    BY <1>1, <2>1, <2>2, <2>3, <2>4, ListDropFirst
  <2> QED BY <2>5 DEF DropsFirst, Does
<1> QED BY <1>2, <1>3

LEMMA DqRemoveLastDrops ==
    ASSUME ListAssumption, ListTypes, status = "ok", NEW c, Holds(c), DqRemoveLast
    PROVE  ListIInv' /\ DropsLast
<1>1. Len(c) \in Nat /\ size - 1 \in Int /\ kind = "dq"
  BY ListEnds DEF ListTypes, DqRemoveLast, Running
<1>2. CASE tail = NULL
  BY <1>1, <1>2, ListCrash DEF DqRemoveLast, DropsLast, Does
<1>3. CASE tail # NULL /\ prev[tail] = NULL
  <2>1. Len(c) < 2 \/ (c[Len(c) - 1] = NULL /\ Len(c) > 0)
    BY <1>1, <1>3, ListEnds
  <2>2. Len(c) < 2
    <3>1. Len(c) < 2 \/ Len(c) - 1 \in 1 .. Len(c)
      BY <1>1
    <3>2. c \in Seq(Nodes) /\ NULL \notin Nodes
      BY ListEnds DEF ListAssumption
    <3>3. Len(c) - 1 \in 1 .. Len(c) => c[Len(c) - 1] \in Nodes
      BY <3>2
    <3> QED BY <2>1, <3>1, <3>2, <3>3
  <2> QED BY <1>3, <2>2, ListCrash DEF DqRemoveLast, DropsLast, Does
<1>4. CASE tail # NULL /\ prev[tail] # NULL
  <2>1. /\ Goes /\ tail' = prev[tail] /\ next' = [next EXCEPT ![prev[tail]] = NULL]
        /\ live' = live \ {tail} /\ size' = size - 1 /\ UNCHANGED <<data, prev, head>>
    BY <1>4 DEF DqRemoveLast
  <2>2. tail \in Nodes /\ tail = c[Len(c)] /\ prev[tail] = c[Len(c) - 1] /\ ~(Len(c) < 2)
    BY <1>1, <1>4, ListEnds
  <2>3. Len(c) > 1
    BY <1>1, <2>2
  <2>4. tail' \in Nodes \cup {NULL}
    BY <2>1, <2>2 DEF ListTypes
  <2>5. ListIInv' /\ status' = "ok" /\ Items # <<>> /\ Items' = Front(Items)
    BY <1>1, <2>1, <2>2, <2>3, <2>4, ListDropLast
  <2> QED BY <2>5 DEF DropsLast, Does
<1> QED BY <1>2, <1>3, <1>4

\* The calls of LinkedList/DQ.c.
LEMMA InsertFrontPrepends ==
    ASSUME ListAssumption, ListTypes, status = "ok", NEW c, Holds(c), NEW n \in Nodes, NEW d \in Data, InsertFront(n, d)
    PROVE  ListIInv' /\ Prepends(d)
<1>1. size \in Int /\ kind # "dq"
  BY DEF ListTypes, InsertFront, Running
<1>2. Goes /\ New(n, d, head, NULL) /\ head' = n /\ tail' = tail /\ size' = size
  BY DEF InsertFront
<1>3. ListIInv' /\ status' = "ok" /\ Items' = <<d>> \o Items
  BY <1>1, <1>2, ListAddFirst
<1> QED BY <1>3 DEF Prepends, Does

LEMMA SlAppendAppends ==
    ASSUME ListAssumption, ListTypes, status = "ok", NEW c, Holds(c), NEW n \in Nodes, NEW d \in Data, SlAppend(n, d)
    PROVE  ListIInv' /\ Appends(d)
<1>1. Len(c) \in Nat /\ (head = NULL <=> Len(c) = 0) /\ size \in Int /\ tail \in Nodes \cup {NULL} /\ kind # "dq"
      /\ (head # NULL => Len(c) > 0 /\ Last(Chain) = c[Len(c)])
  BY ListEnds DEF ListTypes, SlAppend, Running
<1>2. CASE head = NULL
  <2>1. Goes /\ New(n, d, head, NULL) /\ head' = n /\ tail' = tail /\ size' = size
    BY <1>2 DEF SlAppend
  <2>2. ListIInv' /\ status' = "ok" /\ Items' = <<d>> \o Items
    BY <1>1, <2>1, ListAddFirst
  <2> QED BY <1>1, <1>2, <2>2, NoItems DEF Appends, Does
<1>3. CASE head # NULL
  <2>1. Goes /\ New(n, d, NULL, Last(Chain)) /\ head' = head /\ tail' = tail /\ size' = size
    BY <1>3 DEF SlAppend
  <2>2. New(n, d, NULL, c[Len(c)])
    BY <1>1, <1>3, <2>1
  <2>3. ListIInv' /\ status' = "ok" /\ Items' = Append(Items, d)
    BY <1>1, <1>3, <2>1, <2>2, ListAddLast
  <2> QED BY <2>3 DEF Appends, Does
<1> QED BY <1>2, <1>3

LEMMA SlInsertLastAppends ==
    ASSUME ListAssumption, ListTypes, status = "ok", NEW c, Holds(c), NEW n \in Nodes, NEW d \in Data, SlInsertLast(n, d)
    PROVE  ListIInv' /\ Appends(d)
<1>1. Len(c) \in Nat /\ (head = NULL <=> Len(c) = 0) /\ size \in Int /\ tail \in Nodes \cup {NULL} /\ kind # "dq"
      /\ (head # NULL => Len(c) > 0 /\ Last(Chain) = c[Len(c)])
  BY ListEnds DEF ListTypes, SlInsertLast, Running
<1>2. CASE head = NULL
  BY <1>1, <1>2, ListCrash DEF SlInsertLast, Appends, Does
<1>3. CASE head # NULL
  <2>1. Goes /\ New(n, d, NULL, Last(Chain)) /\ head' = head /\ tail' = tail /\ size' = size
    BY <1>3 DEF SlInsertLast, ends
  <2>2. New(n, d, NULL, c[Len(c)])
    BY <1>1, <1>3, <2>1
  <2>3. ListIInv' /\ status' = "ok" /\ Items' = Append(Items, d)
    BY <1>1, <1>3, <2>1, <2>2, ListAddLast
  <2> QED BY <2>3 DEF Appends, Does
<1> QED BY <1>2, <1>3

LEMMA SlRemoveFirstDrops ==
    ASSUME ListAssumption, ListTypes, status = "ok", NEW c, Holds(c), SlRemoveFirst
    PROVE  ListIInv' /\ DropsFirst
<1>1. Len(c) > 0 /\ size \in Int /\ kind # "dq"
  BY ListEnds DEF ListTypes, SlRemoveFirst, Running
<1>2. Goes /\ head' = next[head] /\ live' = live \ {head} /\ UNCHANGED <<data, next, prev, tail, size>>
  BY DEF SlRemoveFirst, fields
<1>3. prev' \in [Nodes -> Nodes \cup {NULL}]
  BY <1>2 DEF ListTypes
<1>4. ListIInv' /\ status' = "ok" /\ Items # <<>> /\ Items' = Tail(Items)
  BY <1>1, <1>2, <1>3, ListDropFirst
<1> QED BY <1>4 DEF DropsFirst, Does

LEMMA SlRemoveLastDrops ==
    ASSUME ListAssumption, ListTypes, status = "ok", NEW c, Holds(c), SlRemoveLast
    PROVE  ListIInv' /\ DropsLast
<1>1. /\ Len(c) \in Nat /\ size \in Int /\ kind # "dq" /\ head # NULL
      /\ Chain = c /\ (next[head] = NULL <=> Len(c) < 2) /\ Last(Chain) = c[Len(c)]
  BY ListEnds DEF ListTypes, SlRemoveLast, Running
<1>2. CASE next[head] = NULL
  BY <1>1, <1>2, ListCrash DEF SlRemoveLast, DropsLast, Does
<1>3. CASE next[head] # NULL
  <2>1. /\ Goes /\ next' = [next EXCEPT ![c[Len(c) - 1]] = NULL] /\ live' = live \ {c[Len(c)]}
        /\ UNCHANGED <<data, prev, head, tail, size>>
    BY <1>1, <1>3 DEF SlRemoveLast, ends
  <2>2. Len(c) > 1
    BY <1>1, <1>3
  <2>3. tail' \in Nodes \cup {NULL}
    BY <2>1 DEF ListTypes
  <2>4. ListIInv' /\ status' = "ok" /\ Items # <<>> /\ Items' = Front(Items)
    BY <1>1, <2>1, <2>2, <2>3, ListDropLast
  <2> QED BY <2>4 DEF DropsLast, Does
<1> QED BY <1>2, <1>3

\* The last call of each program.
LEMMA ListFreed ==
    ASSUME ListAssumption, ListTypes, status = "ok", NEW c, Holds(c), DqDelete \/ SlFree
    PROVE  ListIInv' /\ status' = "ended" /\ Items' = <<>>
<1>1. Chain = c /\ Len(c) \in Nat /\ live = ToSet(c)
  BY ListEnds DEF Holds
<1>2. /\ status' = "ended" /\ live' = live \ ToSet(c) /\ head' \in {head, NULL} /\ size' \in {size, size - Len(c)}
      /\ UNCHANGED <<kind, data, next, prev, tail, done, cur>>
  BY <1>1 DEF DqDelete, SlFree, fields, ends
<1>3. live' = {}
  BY <1>1, <1>2
<1>4. ListTypes'
  <2>1. size' \in Int
    BY <1>1, <1>2 DEF ListTypes
  <2>2. head' \in Nodes \cup {NULL}
    BY <1>2 DEF ListTypes
  <2> QED BY <1>2, <1>3, <2>1, <2>2 DEF ListTypes
<1>5. ListIInv'
  BY <1>2, <1>3, <1>4 DEF ListIInv
<1>6. Items' = <<>>
  <2>1. Order' = <<>>
    BY <1>2 DEF Order
  <2> QED BY <2>1 DEF Items
<1> QED BY <1>2, <1>5, <1>6

LEMMA OrderTurningNext ==
    ASSUME ListAssumption, NEW d, NEW c, IsChain(d, done', next'), IsChain(c, cur', next'), status' = "reverse"
    PROVE  Order' = Reverse(d) \o c /\ Items' = ValuesOf(Reverse(d) \o c, data')
<1>1. Along(done', next') = d /\ Along(cur', next') = c
  BY ChainAlong
<1>2. Order' = Reverse(d) \o c
  BY <1>1 DEF Order
<1> QED BY <1>2 DEF Items, ValuesOf

\* The turn of a node leaves what is behind it where it was.
LEMMA ReverseTurned ==
    ASSUME NEW d \in Seq(Nodes), NEW c \in Seq(Nodes), Len(c) > 0
    PROVE  Reverse(<<c[1]>> \o d) \o Tail(c) = Reverse(d) \o c
<1>1. /\ c[1] \in Nodes /\ Reverse(d) \in Seq(Nodes)
      /\ Reverse(<<c[1]>> \o d) = Append(Reverse(d), c[1])
  <2>1. Len(c) \in Nat /\ 1 \in 1 .. Len(c) /\ c[1] \in Nodes
    OBVIOUS
  <2> QED BY <2>1, ReverseIs, ReverseAddFirst
<1> QED BY <1>1, MoveHead

\* The calls and turns of reverse_list.
LEMMA ReverseBegins ==
    ASSUME ListAssumption, ListTypes, status = "ok", NEW c, Holds(c), ReverseCall
    PROVE  ListIInv' /\ status' = "reverse" /\ Items' = Items
<1>1. /\ kind = "sl" /\ status' = "reverse" /\ done' = NULL /\ cur' = head
      /\ UNCHANGED <<kind, live, data, next, prev, head, tail, size>>
  BY DEF ReverseCall, Running, fields, ends
<1>2. ListTypes'
  BY <1>1 DEF ListTypes
<1>3. IsChain(c, head, next) /\ live = ToSet(c) /\ c \in Seq(Nodes)
  BY DEF Holds, IsChain
<1>4. IsChain(<<>>, done', next') /\ IsChain(c, cur', next')
  <2>1. IsChain(<<>>, NULL, next')
    BY DEF IsChain
  <2> QED BY <1>1, <1>3, <2>1
<1>5. Turning(<<>>, c)'
  <2>1. ToSet(<<>>) = {}
    BY DEF ToSet
  <2>2. IsChain(<<>>, done, next)' /\ IsChain(c, cur, next)'
    BY <1>4 DEF IsChain
  <2> QED BY <1>1, <1>3, <2>1, <2>2 DEF Turning
<1>6. ListIInv'
  <2>1. \E x, y \in Seq(Nodes) : Turning(x, y)'
    <3>1. <<>> \in Seq(Nodes)
      OBVIOUS
    <3> QED BY <1>3, <1>5, <3>1
  <2> QED BY <1>1, <1>2, <2>1 DEF ListIInv
<1>7. Items' = Items
  <2>1. Items' = ValuesOf(Reverse(<<>>) \o c, data')
    BY <1>1, <1>4, OrderTurningNext
  <2>2. Items = ValuesOf(c, data)
    BY <1>3, OrderIs
  <2>3. Reverse(<<>>) \o c = c
    <3>1. <<>> \in Seq(Nodes) /\ Len(<<>>) = 0
      OBVIOUS
    <3>2. Reverse(<<>>) \in Seq(Nodes) /\ Len(Reverse(<<>>)) = 0
      BY <3>1, ReverseIs
    <3>3. Reverse(<<>>) = <<>>
      BY <3>2
    <3> QED BY <1>3, <3>3
  <2> QED BY <1>1, <2>1, <2>2, <2>3
<1> QED BY <1>1, <1>6, <1>7

LEMMA ReverseTurns ==
    ASSUME ListAssumption, ListTypes, NEW d, NEW c, Turning(d, c), ReverseTurn
    PROVE  ListIInv' /\ status' = "reverse" /\ Items' = Items
<1>1. /\ status = "reverse" /\ status' = "reverse" /\ cur # NULL /\ done' = cur /\ cur' = next[cur]
      /\ next' = [next EXCEPT ![cur] = done] /\ UNCHANGED <<kind, live, data, prev, head, tail, size>>
  BY DEF ReverseTurn, ends
<1>2. /\ kind = "sl" /\ IsChain(d, done, next) /\ IsChain(c, cur, next)
      /\ ToSet(d) \cap ToSet(c) = {} /\ live = ToSet(d) \cup ToSet(c)
  BY DEF Turning
<1>3. /\ d \in Seq(Nodes) /\ c \in Seq(Nodes) /\ Len(c) \in Nat /\ Len(c) > 0 /\ cur = c[1] /\ cur \in Nodes
      /\ 1 \in 1 .. Len(c) /\ \A a, b \in 1 .. Len(c) : c[a] = c[b] => a = b
  <2>1. Len(c) \in Nat /\ Len(c) # 0 /\ d \in Seq(Nodes) /\ c \in Seq(Nodes)
    BY <1>1, <1>2 DEF IsChain
  <2>2. cur = c[1]
    BY <1>2, <2>1 DEF IsChain
  <2> QED BY <1>2, <2>1, <2>2 DEF IsChain
<1>4. ListTypes'
  BY <1>1, <1>3 DEF ListTypes
<1>0. PICK f, g : f = <<cur>> \o d /\ g = Tail(c)
  OBVIOUS
<1>5. cur \in ToSet(c) /\ cur \notin ToSet(d) /\ \A a \in 1 .. Len(d) : d[a] # cur
  <2>1. cur \in ToSet(c)
    BY <1>3 DEF ToSet
  <2>2. cur \notin ToSet(d)
    BY <1>2, <2>1
  <2> QED BY <1>3, <2>1, <2>2 DEF ToSet
<1>6. next'[cur] = done /\ \A m \in Nodes : m # cur => next'[m] = next[m]
  BY <1>1, <1>3 DEF ListTypes
<1>7. IsChain(f, done', next')
  <2>1. IsChain(f, cur, next')
    BY <1>0, <1>2, <1>3, <1>5, <1>6, ChainAddFirst
  <2> QED BY <1>1, <2>1
<1>8. IsChain(g, cur', next')
  <2>1. IsChain(g, next[cur], next')
    <3>1. \A m \in Nodes : m # c[1] => next'[m] = next[m]
      BY <1>3, <1>6
    <3> QED BY <1>0, <1>2, <1>3, <3>1, ChainDropFirst
  <2> QED BY <1>1, <2>1
<1>9. ToSet(f) = ToSet(d) \cup {cur} /\ ToSet(g) = ToSet(c) \ {cur} /\ f \in Seq(Nodes) /\ g \in Seq(Nodes)
  <2>1. ToSet(g) = ToSet(c) \ {cur}
    BY <1>0, <1>3, RangeDropFirst
  <2>2. ToSet(f) = ToSet(d) \cup {cur}
    BY <1>0, <1>3, RangeAdd
  <2> QED BY <1>7, <1>8, <2>1, <2>2 DEF IsChain
<1>10. Reverse(f) \o g = Reverse(d) \o c
  BY <1>0, <1>3, ReverseTurned
<1>11. Turning(f, g)'
  <2>1. IsChain(f, done, next)' /\ IsChain(g, cur, next)'
    BY <1>7, <1>8 DEF IsChain
  <2>2. ToSet(f) \cap ToSet(g) = {} /\ live = ToSet(f) \cup ToSet(g)
    BY <1>2, <1>5, <1>9
  <2> QED BY <1>1, <1>2, <2>1, <2>2 DEF Turning
<1>12. ListIInv'
  <2>1. \E x, y \in Seq(Nodes) : Turning(x, y)'
    BY <1>9, <1>11
  <2> QED BY <1>1, <1>4, <2>1 DEF ListIInv
<1>13. Items' = Items
  <2>1. Items' = ValuesOf(Reverse(f) \o g, data')
    BY <1>1, <1>7, <1>8, OrderTurningNext
  <2>2. Items = ValuesOf(Reverse(d) \o c, data)
    BY <1>1, OrderTurning
  <2> QED BY <1>1, <1>10, <2>1, <2>2
<1> QED BY <1>1, <1>12, <1>13

LEMMA ReverseEnds ==
    ASSUME ListAssumption, ListTypes, NEW d, NEW c, Turning(d, c), ReverseReturn
    PROVE  ListIInv' /\ status' = "ok" /\ Items' = Reverse(Items)
<1>1. /\ status = "reverse" /\ cur = NULL /\ status' = "ok" /\ head' = done /\ done' = NULL
      /\ UNCHANGED <<kind, live, data, next, prev, tail, size, cur>>
  BY DEF ReverseReturn, fields
<1>2. /\ kind = "sl" /\ IsChain(d, done, next) /\ IsChain(c, cur, next) /\ live = ToSet(d) \cup ToSet(c)
      /\ d \in Seq(Nodes) /\ c \in Seq(Nodes) /\ data \in [Nodes -> Int]
  BY DEF Turning, IsChain, ListTypes
<1>3. c = <<>>
  <2>1. Len(c) \in Nat /\ NULL \notin Nodes
    BY <1>2 DEF ListAssumption
  <2>2. Len(c) > 0 => 1 \in 1 .. Len(c) /\ c[1] \in Nodes /\ Len(c) # 0
    BY <1>2, <2>1
  <2>3. Len(c) = 0
    BY <1>1, <1>2, <2>1, <2>2 DEF IsChain
  <2> QED BY <1>2, <2>3
<1>4. live' = ToSet(d)
  BY <1>1, <1>2, <1>3 DEF ToSet
<1>5. ListTypes'
  BY <1>1 DEF ListTypes
<1>6. ListIInv' /\ Items' = ValuesOf(d, data)
  <2>1. IsChain(d, head', next') /\ kind' # "dq"
    BY <1>1, <1>2
  <2> QED BY <1>1, <1>4, <1>5, <2>1, ListReturns
<1>7. Items = Reverse(ValuesOf(d, data))
  <2>1. Items = ValuesOf(Reverse(d) \o c, data)
    BY <1>1, OrderTurning
  <2>2. Reverse(d) \o c = Reverse(d)
    <3>1. Reverse(d) \in Seq(Nodes)
      BY <1>2, ReverseIs
    <3> QED BY <1>3, <3>1
  <2> QED BY <1>2, <2>1, <2>2, ValuesReverse
<1>8. Reverse(Reverse(ValuesOf(d, data))) = ValuesOf(d, data)
  BY <1>2, ValuesAre, ReverseTwice
<1> QED BY <1>1, <1>6, <1>7, <1>8

\* A chain has as many nodes as it is long.
LEMMA ChainSize ==
    ASSUME ListAssumption, NEW c \in Seq(Nodes), \A a, b \in 1 .. Len(c) : c[a] = c[b] => a = b
    PROVE  Cardinality(ToSet(c)) = Len(c)
<1>1. IsFiniteSet(Nodes) /\ Len(c) \in Nat
  BY DEF ListAssumption
<1>2. Cardinality(1 .. Len(c)) = Len(c)
  <2>1. 1 \in Int /\ Len(c) \in Int
    BY <1>1
  <2>2. Cardinality(1 .. Len(c)) = IF 1 > Len(c) THEN 0 ELSE Len(c) - 1 + 1
    BY <2>1, FS_Interval
  <2> QED BY <1>1, <2>2
<1>3. IsFiniteSet(ToSet(c))
  <2>1. ToSet(c) \subseteq Nodes
    BY DEF ToSet
  <2> QED BY <1>1, <2>1, FS_Subset
<1> DEFINE f == [a \in 1 .. Len(c) |-> c[a]]
<1>4. f \in [1 .. Len(c) -> ToSet(c)] /\ \A v \in ToSet(c) : \E a \in 1 .. Len(c) : f[a] = v
  BY DEF ToSet
<1>5. f \in Injection(1 .. Len(c), ToSet(c))
  <2>1. \A a, b \in 1 .. Len(c) : f[a] = f[b] => a = b
    OBVIOUS
  <2> QED BY <1>4, <2>1, Zenon DEF Injection, IsInjective
<1>6. f \in Surjection(1 .. Len(c), ToSet(c))
  BY <1>4, Zenon DEF Surjection
<1> HIDE DEF f
<1>7. Cardinality(1 .. Len(c)) = Cardinality(ToSet(c))
  BY <1>3, <1>5, <1>6, FS_Injection
<1> QED BY <1>2, <1>7

\* Every call and every turn keeps the list whole and does what it is named for.
LEMMA ListCalls ==
    ASSUME ListAssumption, ListIInv
    PROVE  /\ \A n \in Nodes, d \in Data :
                 /\ DqInsert(n, d) \/ DqInsertLast(n, d) \/ SlAppend(n, d) \/ SlInsertLast(n, d) =>
                       ListIInv' /\ Appends(d)
                 /\ DqInsertFirst(n, d) \/ InsertFront(n, d) => ListIInv' /\ Prepends(d)
           /\ DqRemoveFirst \/ SlRemoveFirst => ListIInv' /\ DropsFirst
           /\ DqRemoveLast \/ SlRemoveLast => ListIInv' /\ DropsLast
           /\ DqDelete \/ SlFree => ListIInv' /\ status' # "segv" /\ Items' = <<>>
           /\ ReverseCall \/ ReverseTurn => ListIInv' /\ Items' = Items
           /\ ReverseReturn => ListIInv' /\ status' # "segv" /\ Items' = Reverse(Items)
<1>1. ListTypes
  BY DEF ListIInv
<1>2. ASSUME status = "ok"  PROVE \E c \in Seq(Nodes) : Holds(c)
  BY <1>2 DEF ListIInv
<1>3. ASSUME NEW n \in Nodes, NEW d \in Data
      PROVE  /\ DqInsert(n, d) \/ DqInsertLast(n, d) \/ SlAppend(n, d) \/ SlInsertLast(n, d) =>
                   ListIInv' /\ Appends(d)
             /\ DqInsertFirst(n, d) \/ InsertFront(n, d) => ListIInv' /\ Prepends(d)
  <2>1. DqInsert(n, d) => ListIInv' /\ Appends(d)
    BY <1>1, <1>2, DqInsertAppends DEF DqInsert, Running
  <2>2. DqInsertLast(n, d) => ListIInv' /\ Appends(d)
    BY <1>1, <1>2, DqInsertLastAppends DEF DqInsertLast, Running
  <2>3. SlAppend(n, d) => ListIInv' /\ Appends(d)
    BY <1>1, <1>2, SlAppendAppends DEF SlAppend, Running
  <2>4. SlInsertLast(n, d) => ListIInv' /\ Appends(d)
    BY <1>1, <1>2, SlInsertLastAppends DEF SlInsertLast, Running
  <2>5. DqInsertFirst(n, d) => ListIInv' /\ Prepends(d)
    BY <1>1, <1>2, DqInsertFirstPrepends DEF DqInsertFirst, Running
  <2>6. InsertFront(n, d) => ListIInv' /\ Prepends(d)
    BY <1>1, <1>2, InsertFrontPrepends DEF InsertFront, Running
  <2> QED BY <2>1, <2>2, <2>3, <2>4, <2>5, <2>6
<1>4. DqRemoveFirst \/ SlRemoveFirst => ListIInv' /\ DropsFirst
  <2>1. DqRemoveFirst => ListIInv' /\ DropsFirst
    BY <1>1, <1>2, DqRemoveFirstDrops DEF DqRemoveFirst, Running
  <2>2. SlRemoveFirst => ListIInv' /\ DropsFirst
    BY <1>1, <1>2, SlRemoveFirstDrops DEF SlRemoveFirst, Running
  <2> QED BY <2>1, <2>2
<1>5. DqRemoveLast \/ SlRemoveLast => ListIInv' /\ DropsLast
  <2>1. DqRemoveLast => ListIInv' /\ DropsLast
    BY <1>1, <1>2, DqRemoveLastDrops DEF DqRemoveLast, Running
  <2>2. SlRemoveLast => ListIInv' /\ DropsLast
    BY <1>1, <1>2, SlRemoveLastDrops DEF SlRemoveLast, Running
  <2> QED BY <2>1, <2>2
<1>6. DqDelete \/ SlFree => ListIInv' /\ status' # "segv" /\ Items' = <<>>
  BY <1>1, <1>2, ListFreed DEF DqDelete, SlFree, Running
<1>7. ReverseCall => ListIInv' /\ Items' = Items
  BY <1>1, <1>2, ReverseBegins DEF ReverseCall, Running
<1>8. ASSUME status = "reverse"  PROVE \E d, c \in Seq(Nodes) : Turning(d, c)
  BY <1>8 DEF ListIInv
<1>9. ReverseTurn => ListIInv' /\ Items' = Items
  BY <1>1, <1>8, ReverseTurns DEF ReverseTurn
<1>10. ReverseReturn => ListIInv' /\ status' # "segv" /\ Items' = Reverse(Items)
  BY <1>1, <1>8, ReverseEnds DEF ReverseReturn
<1> QED BY <1>3, <1>4, <1>5, <1>6, <1>7, <1>9, <1>10

\* So does every step, or it leaves all as it is.
LEMMA ListStep ==
    ASSUME ListAssumption, ListIInv, [ListNext]_listVars
    PROVE  /\ ListIInv'
           /\ status' = "segv" \/ UNCHANGED listVars => Items' = Items
           /\ \/ Items' = Items \/ Items' = Reverse(Items) \/ Items' = <<>>
              \/ Items # <<>> /\ (Items' = Tail(Items) \/ Items' = Front(Items))
              \/ \E d \in Data : Items' = <<d>> \o Items \/ Items' = Append(Items, d)
<1>1. CASE UNCHANGED listVars
  <2>1. UNCHANGED <<kind, live, data, next, prev, head, tail, size, done, cur, status>>
    BY <1>1 DEF listVars, fields, ends
  <2>2. ListIInv'
    <3>1. ListTypes'
      BY <2>1 DEF ListTypes, ListIInv
    <3>2. ASSUME NEW c, NEW d
          PROVE  /\ Holds(c)' = Holds(c) /\ Turning(d, c)' = Turning(d, c)
                 /\ IsChain(c, head, next)' = IsChain(c, head, next)
      BY <2>1 DEF Holds, Turning, IsChain
    <3>3. status = "ok" => \E c \in Seq(Nodes) : Holds(c)'
      BY <3>2 DEF ListIInv
    <3>4. status = "reverse" => \E d, c \in Seq(Nodes) : Turning(d, c)'
      BY <3>2 DEF ListIInv
    <3>5. status = "segv" =>
             \E c \in Seq(Nodes) : IsChain(c, head, next)' /\ (Len(c) < 2 \/ (kind = "dq" /\ tail = NULL))
      BY <3>2 DEF ListIInv
    <3>6. status = "ended" => live = {}
      BY DEF ListIInv
    <3> QED BY <2>1, <3>1, <3>3, <3>4, <3>5, <3>6 DEF ListIInv
  <2>3. Items' = Items
    BY <2>1 DEF Items, Order, Chain
  <2> QED BY <2>2, <2>3
<1>2. ASSUME NEW n \in Nodes, NEW d \in Data,
             \/ DqInsert(n, d) \/ DqInsertFirst(n, d) \/ DqInsertLast(n, d)
             \/ InsertFront(n, d) \/ SlAppend(n, d) \/ SlInsertLast(n, d)
      PROVE  ListIInv' /\ IF status' = "segv" THEN Items' = Items
                                              ELSE Items' = <<d>> \o Items \/ Items' = Append(Items, d)
  <2>1. ListIInv' /\ (Appends(d) \/ Prepends(d))
    BY <1>2, ListCalls
  <2> QED BY <2>1 DEF Appends, Prepends, Does
<1>3. ASSUME DqRemoveFirst \/ DqRemoveLast \/ SlRemoveFirst \/ SlRemoveLast
      PROVE  ListIInv' /\ IF status' = "segv" THEN Items' = Items
                          ELSE Items # <<>> /\ (Items' = Tail(Items) \/ Items' = Front(Items))
  <2>1. ListIInv' /\ (DropsFirst \/ DropsLast)
    BY <1>3, ListCalls
  <2> QED BY <2>1 DEF DropsFirst, DropsLast, Does
<1>4. ASSUME DqDelete \/ SlFree \/ ReverseReturn
      PROVE  ListIInv' /\ status' # "segv" /\ (Items' = <<>> \/ Items' = Reverse(Items))
  BY <1>4, ListCalls
<1>5. ASSUME ReverseCall \/ ReverseTurn  PROVE ListIInv' /\ Items' = Items
  BY <1>5, ListCalls
<1>6. CASE ListNext /\ ~UNCHANGED listVars
  <2>1. CASE \E n \in Nodes, d \in Data :
                \/ DqInsert(n, d) \/ DqInsertFirst(n, d) \/ DqInsertLast(n, d)
                \/ InsertFront(n, d) \/ SlAppend(n, d) \/ SlInsertLast(n, d)
    BY <1>2, <1>6, <2>1
  <2>2. CASE DqRemoveFirst \/ DqRemoveLast \/ SlRemoveFirst \/ SlRemoveLast
    BY <1>3, <1>6, <2>2
  <2>3. CASE DqDelete \/ SlFree \/ ReverseReturn
    BY <1>4, <1>6, <2>3
  <2>4. CASE ReverseCall \/ ReverseTurn
    BY <1>5, <1>6, <2>4
  <2> QED BY <1>6, <2>1, <2>2, <2>3, <2>4 DEF ListNext
<1> QED BY <1>1, <1>6

LEMMA ListAtFirst ==
    ASSUME ListAssumption, ListInit
    PROVE  ListIInv /\ Items = <<>>
<1>1. ListTypes
  BY DEF ListInit, ListTypes, ListAssumption
<1>2. /\ <<>> \in Seq(Nodes) /\ Len(<<>>) = 0 /\ ToSet(<<>>) = {} /\ IsChain(<<>>, NULL, next)
      /\ IsChain(<<>>, NULL, prev)
  BY DEF IsChain, ToSet
<1>3. Reverse(<<>>) = <<>>
  <2>1. Reverse(<<>>) \in Seq(Nodes) /\ Len(Reverse(<<>>)) = 0
    BY <1>2, ReverseIs
  <2> QED BY <2>1
<1>4. Holds(<<>>) /\ status = "ok"
  BY <1>2, <1>3 DEF Holds, ListInit
<1>5. ListIInv
  BY <1>1, <1>2, <1>4 DEF ListIInv
<1>6. Items = <<>>
  <2>1. Order = <<>>
    BY <1>2, <1>4, OrderIs DEF Holds
  <2> QED BY <2>1 DEF Items
<1> QED BY <1>5, <1>6

LEMMA ListMeans ==
    ASSUME ListAssumption, ListIInv  PROVE ListInv
<1>1. ASSUME status = "ok"  PROVE Linked
  <2>1. PICK c \in Seq(Nodes) : Holds(c)
    BY <1>1 DEF ListIInv
  <2>2. /\ IsChain(c, head, next) /\ live = ToSet(c) /\ Len(c) \in Nat
        /\ \A a, b \in 1 .. Len(c) : c[a] = c[b] => a = b
    BY <2>1 DEF Holds, IsChain
  <2>3. Order = c /\ Chain = c
    BY <1>1, <2>2, OrderIs
  <2>4. Cardinality(live) = Len(c)
    BY <2>2, ChainSize
  <2>5. ASSUME kind = "dq"  PROVE size = Len(Chain) /\ (tail # NULL => head # NULL)
    BY <1>1, <2>1, <2>3, <2>5, ListEnds DEF Holds
  <2>6. ASSUME kind = "dq", head # NULL
        PROVE  tail \in {NULL, Last(Chain)} /\ Along(Last(Chain), prev) = Reverse(Chain)
    <3>1. Len(c) # 0 /\ Last(Chain) = c[Len(c)]
      BY <1>1, <2>1, <2>6, ListEnds
    <3>2. tail \in {NULL, c[Len(c)]} /\ IsChain(Reverse(c), c[Len(c)], prev)
      BY <2>1, <2>6, <3>1 DEF Holds
    <3>3. Along(c[Len(c)], prev) = Reverse(c)
      BY <3>2, ChainAlong
    <3> QED BY <2>3, <3>1, <3>2, <3>3
  <2> QED BY <1>1, <2>2, <2>3, <2>4, <2>5, <2>6 DEF Linked
<1>2. ASSUME status = "reverse"  PROVE Linked
  <2>1. PICK d, c \in Seq(Nodes) : Turning(d, c)
    BY <1>2 DEF ListIInv
  <2>2. /\ kind = "sl" /\ live = ToSet(d) \cup ToSet(c) /\ ToSet(d) \cap ToSet(c) = {}
        /\ Len(d) \in Nat /\ Len(c) \in Nat
        /\ \A a, b \in 1 .. Len(d) : d[a] = d[b] => a = b
        /\ \A a, b \in 1 .. Len(c) : c[a] = c[b] => a = b
    BY <2>1 DEF Turning, IsChain
  <2>3. PICK r : r = Reverse(d) \o c
    OBVIOUS
  <2>4. Order = r
    BY <1>2, <2>1, <2>3, OrderTurning
  <2>5. ToSet(r) = live
    <3>1. Reverse(d) \in Seq(Nodes) /\ ToSet(Reverse(d)) = ToSet(d)
      BY ReverseIs, RangeReverse
    <3> QED BY <2>2, <2>3, <3>1, RangeConcat
  <2>6. Len(r) = Cardinality(live)
    <3>1. Cardinality(ToSet(d)) = Len(d) /\ Cardinality(ToSet(c)) = Len(c)
      BY <2>2, ChainSize
    <3>2. IsFiniteSet(ToSet(d)) /\ IsFiniteSet(ToSet(c))
      <4>1. ToSet(d) \subseteq Nodes /\ ToSet(c) \subseteq Nodes /\ IsFiniteSet(Nodes)
        BY DEF ToSet, ListAssumption
      <4> QED BY <4>1, FS_Subset
    <3>3. Cardinality(live) = Len(d) + Len(c)
      <4>1. Cardinality(ToSet(d) \cup ToSet(c))
              = Cardinality(ToSet(d)) + Cardinality(ToSet(c)) - Cardinality(ToSet(d) \cap ToSet(c))
        BY <3>2, FS_Union
      <4>2. Cardinality(ToSet(d) \cap ToSet(c)) = 0
        BY <2>2, FS_EmptySet
      <4> QED BY <2>2, <3>1, <4>1, <4>2
    <3>4. Reverse(d) \in Seq(Nodes) /\ Len(Reverse(d)) = Len(d)
      BY ReverseIs
    <3>5. Len(r) = Len(d) + Len(c)
      <4>1. \A x, y \in Seq(Nodes) : Len(x \o y) = Len(x) + Len(y)
        OBVIOUS
      <4> QED BY <2>3, <3>4, <4>1
    <3> QED BY <3>3, <3>5
  <2> QED BY <1>2, <2>2, <2>4, <2>5, <2>6 DEF Linked
<1>3. Linked
  BY <1>1, <1>2 DEF Linked
<1>4. Failures
  <2>1. ASSUME status = "segv"  PROVE Len(Chain) < 2 \/ (kind = "dq" /\ tail = NULL)
    <3>1. PICK c \in Seq(Nodes) : IsChain(c, head, next) /\ (Len(c) < 2 \/ (kind = "dq" /\ tail = NULL))
      BY <2>1 DEF ListIInv
    <3>2. Chain = c
      BY <2>1, <3>1, OrderIs
    <3> QED BY <3>1, <3>2
  <2> QED BY <2>1 DEF Failures, ListIInv
<1> QED BY <1>3, <1>4 DEF ListInv

\* Whatever the calls and however many, no node is lost, none is freed that the
\* list still holds, reverse_list included, the deque's two chains of links are
\* the reverse of each other, and a call fails only on a list of less than two
\* nodes or a deque without a tail (DoublyLinkedListDequ.c, DQ.c).
THEOREM ListsHold == ListSpec => []ListInv
<1>1. ListInit => ListIInv
  BY ListAtFirst, ListAssumption
<1>2. ListIInv /\ [ListNext]_listVars => ListIInv'
  BY ListStep, ListAssumption
<1>3. ListIInv => ListInv
  BY ListMeans, ListAssumption
<1> QED BY <1>1, <1>2, <1>3, PTL DEF ListSpec

\* Each call of the two programs is the operation on a sequence of values that it
\* is named for, insert, insert_last and append at its end, insert_first and
\* insert_front at its beginning, or it fails and changes nothing.  The turns of
\* reverse_list change nothing, and its return turns the sequence round.
THEOREM ListsImplementDeque == ListSpec => ListsAreDeques
<1>1. ListInit => ListIInv
  BY ListAtFirst, ListAssumption
<1>2. ListIInv /\ [ListNext]_listVars => ListIInv'
  BY ListStep, ListAssumption
<1>3. ListInit => Abs!Start
  BY ListAtFirst, ListAssumption DEF Abs!Start, Items
<1>0. \A s : Abs!Front(s) = Front(s) /\ Abs!Reverse(s) = Reverse(s)
  BY DEF Abs!Front, Front, Abs!Reverse, Reverse
<1>4. ListIInv /\ [ListNext]_listVars => [Abs!Change]_Items
  <2> SUFFICES ASSUME ListIInv, [ListNext]_listVars
               PROVE  Abs!Change \/ Items' = Items
    OBVIOUS
  <2>1. \/ Items' = Items \/ Items' = Reverse(Items) \/ Items' = <<>>
        \/ Items # <<>> /\ (Items' = Tail(Items) \/ Items' = Front(Items))
        \/ \E d \in Data : Items' = <<d>> \o Items \/ Items' = Append(Items, d)
    BY ListStep, ListAssumption
  <2> QED BY <1>0, <2>1 DEF Abs!Change, Abs!Clear, Abs!Turn, Abs!DropFirst, Abs!DropLast,
                            Abs!AddFirst, Abs!AddLast
<1> DEFINE Each == listVars' # listVars => IF status' = "segv" THEN UNCHANGED Items ELSE EachCall
<1>5. ListIInv /\ [ListNext]_listVars => Each
  <2> SUFFICES ASSUME ListIInv, [ListNext]_listVars, status' # "segv"
               PROVE  EachCall
    BY ListStep, ListAssumption
  <2>1. ASSUME NEW n \in live' \ live, NEW d \in Data
        PROVE  /\ DqInsert(n, d) \/ DqInsertLast(n, d) \/ SlAppend(n, d) \/ SlInsertLast(n, d) => Abs!AddLast(d)
               /\ DqInsertFirst(n, d) \/ InsertFront(n, d) => Abs!AddFirst(d)
    <3>1. n \in Nodes
      BY <1>2 DEF ListIInv, ListTypes
    <3>2. /\ DqInsert(n, d) \/ DqInsertLast(n, d) \/ SlAppend(n, d) \/ SlInsertLast(n, d) => Appends(d)
          /\ DqInsertFirst(n, d) \/ InsertFront(n, d) => Prepends(d)
      BY <3>1, ListCalls, ListAssumption
    <3> QED BY <3>2 DEF Appends, Prepends, Does, Abs!AddLast, Abs!AddFirst
  <2>2. DqRemoveFirst \/ SlRemoveFirst => Abs!DropFirst
    BY ListCalls, ListAssumption DEF DropsFirst, Does, Abs!DropFirst
  <2>3. DqRemoveLast \/ SlRemoveLast => Abs!DropLast
    BY <1>0, ListCalls, ListAssumption DEF DropsLast, Does, Abs!DropLast
  <2>4. DqDelete \/ SlFree => Abs!Clear
    BY ListCalls, ListAssumption DEF Abs!Clear
  <2>5. ReverseCall \/ ReverseTurn => UNCHANGED Items
    BY ListCalls, ListAssumption
  <2>6. ReverseReturn => Abs!Turn
    BY <1>0, ListCalls, ListAssumption DEF Abs!Turn
  <2> QED BY <2>1, <2>2, <2>3, <2>4, <2>5, <2>6 DEF EachCall
<1>6. ListSpec => Abs!Deque
  BY <1>1, <1>2, <1>3, <1>4, PTL DEF ListSpec, Abs!Deque
<1>7. ListSpec => [][Each]_listVars
  <2> HIDE DEF Each
  <2> QED BY <1>1, <1>2, <1>5, PTL DEF ListSpec
<1> QED BY <1>6, <1>7 DEF ListsAreDeques

-----------------------------------------------------------------------------
(***************************************************************************)
(* The word frequency counter.                                             *)
(***************************************************************************)
-----------------------------------------------------------------------------
(***************************************************************************)
(* The words of a file.                                                    *)
(***************************************************************************)
Strings == Seq(Int)

\* What is copied of a string is a string.
LEMMA RemovePunctIs ==
    ASSUME NEW s \in Strings  PROVE removePunct(s) \in Strings
<1> DEFINE N == Len(s)
           Def(f) == [k \in 0 .. N |-> IF k = 0 THEN <<>>
                                       ELSE IF s[k] \in Punct THEN f[k - 1] ELSE Append(f[k - 1], s[k])]
           d == CHOOSE f : f = Def(f)
<1>1. N \in Nat /\ <<>> \in Strings /\ (\A k \in 1 .. N : s[k] \in Int)
      /\ \A q \in Strings, a \in Int : Append(q, a) \in Strings
  BY DEF Strings
<1>2. PICK go : go = [k \in 1 .. N |-> [q \in Strings |-> IF s[k] \in Punct THEN q ELSE Append(q, s[k])]]
  OBVIOUS
<1> HIDE DEF N
<1>3. \A k \in 1 .. N : \A q \in Strings :
         go[k][q] = (IF s[k] \in Punct THEN q ELSE Append(q, s[k])) /\ go[k][q] \in Strings
  BY <1>1, <1>2
<1>4. PICK f \in [0 .. N -> Strings] : Iterates(f, N, <<>>, go)
  BY <1>1, <1>3, IterationExists
<1>5. f = Def(f)
  <2>1. ASSUME NEW k \in 0 .. N
        PROVE  f[k] = IF k = 0 THEN <<>> ELSE IF s[k] \in Punct THEN f[k - 1] ELSE Append(f[k - 1], s[k])
    <3>1. CASE k = 0
      BY <1>4, <3>1 DEF Iterates
    <3>2. CASE k # 0
      <4>1. k \in 1 .. N /\ k - 1 \in 0 .. N
        BY <1>1, <3>2
      <4>2. f[k - 1] \in Strings /\ f[k] = go[k][f[k - 1]]
        BY <1>4, <4>1 DEF Iterates
      <4> QED BY <1>3, <3>2, <4>1, <4>2
    <3> QED BY <3>1, <3>2
  <2> QED BY <2>1
<1>6. d = Def(d)
  <2>1. \E g : g = Def(g)
    BY <1>5
  <2> HIDE DEF Def
  <2> QED BY <2>1
<1>7. removePunct(s) = d[N]
  BY DEF removePunct, N
<1>8. \A k \in 0 .. N : d[k] \in Strings
  <2> HIDE DEF d
  <2> DEFINE Good == {k \in 0 .. N : d[k] \in Strings}
  <2>1. 0 \in Good
    <3>1. 0 \in 0 .. N
      BY <1>1
    <3>2. Def(d)[0] = <<>>
      BY <3>1
    <3> HIDE DEF Def
    <3> QED BY <1>1, <1>6, <3>1, <3>2
  <2>2. ASSUME NEW k \in 1 .. N, k - 1 \in Good  PROVE k \in Good
    <3>1. k \in 0 .. N /\ k # 0 /\ d[k - 1] \in Strings
      BY <1>1, <2>2
    <3>2. Def(d)[k] = IF s[k] \in Punct THEN d[k - 1] ELSE Append(d[k - 1], s[k])
      BY <3>1
    <3> HIDE DEF Def
    <3> QED BY <1>1, <1>6, <3>1, <3>2
  <2> HIDE DEF Good, Def
  <2>3. \A k \in 0 .. N : k \in Good
    BY <1>1, <2>1, <2>2, Climb
  <2> QED BY <2>3 DEF Good
<1>9. N \in 0 .. N
  BY <1>1
<1> HIDE DEF d
<1> QED BY <1>7, <1>8, <1>9

\* The hash of a word is an index, whatever the sign of its characters.
LEMMA HashIs ==
    ASSUME CounterAssumption, NEW s \in Strings  PROVE hash(s) \in 0 .. TABLE_SIZE - 1
<1> DEFINE N == Len(s)
           Def(f) == [k \in 0 .. N |-> IF k = 0 THEN 0 ELSE Unsigned(32 * f[k - 1] + s[k])]
           h == CHOOSE f : f = Def(f)
           Places == 0 .. TABLE_SIZE - 1
<1>1. N \in Nat /\ 0 \in Places /\ (\A k \in 1 .. N : s[k] \in Int)
  BY DEF Strings, CounterAssumption
<1>2. \A a \in Int : Unsigned(a) \in Places
  <2>1. TwoTo32 \in Int
    <3>1. PICK m \in Int : m = 65536 % TABLE_SIZE
      BY DEF CounterAssumption
    <3> QED BY <3>1 DEF TwoTo32
  <2> QED BY <2>1 DEF Unsigned, CounterAssumption
<1>3. \A k \in 1 .. N : \A a \in Places : Unsigned(32 * a + s[k]) \in Places
  <2>1. \A k \in 1 .. N : \A a \in Places : 32 * a + s[k] \in Int
    BY <1>1 DEF CounterAssumption
  <2> HIDE DEF Places, N
  <2> QED BY <1>2, <2>1
<1> HIDE DEF N
<1>4. PICK go : go = [k \in 1 .. N |-> [a \in Places |-> Unsigned(32 * a + s[k])]]
  OBVIOUS
<1> HIDE DEF Places
<1>5. \A k \in 1 .. N : \A a \in Places : go[k][a] = Unsigned(32 * a + s[k]) /\ go[k][a] \in Places
  BY <1>3, <1>4
<1>6. PICK f \in [0 .. N -> Places] : Iterates(f, N, 0, go)
  BY <1>1, <1>5, IterationExists
<1>7. f = Def(f)
  <2>1. ASSUME NEW k \in 0 .. N
        PROVE  f[k] = IF k = 0 THEN 0 ELSE Unsigned(32 * f[k - 1] + s[k])
    <3>1. CASE k = 0
      BY <1>6, <3>1 DEF Iterates
    <3>2. CASE k # 0
      <4>1. k \in 1 .. N /\ k - 1 \in 0 .. N
        BY <1>1, <3>2
      <4>2. f[k - 1] \in Places /\ f[k] = go[k][f[k - 1]]
        BY <1>6, <4>1 DEF Iterates
      <4> QED BY <1>5, <3>2, <4>1, <4>2
    <3> QED BY <3>1, <3>2
  <2> QED BY <2>1
<1>8. h = Def(h)
  <2>1. \E g : g = Def(g)
    BY <1>7
  <2> HIDE DEF Def
  <2> QED BY <2>1
<1>9. hash(s) = h[N]
  BY DEF hash, N
<1>10. \A k \in 0 .. N : h[k] \in Places
  <2> HIDE DEF h
  <2> DEFINE Good == {k \in 0 .. N : h[k] \in Places}
  <2>1. 0 \in Good
    <3>1. 0 \in 0 .. N
      BY <1>1
    <3>2. Def(h)[0] = 0
      BY <3>1
    <3> HIDE DEF Def
    <3> QED BY <1>1, <1>8, <3>1, <3>2
  <2>2. ASSUME NEW k \in 1 .. N, k - 1 \in Good  PROVE k \in Good
    <3>1. k \in 0 .. N /\ k # 0 /\ h[k - 1] \in Places
      BY <1>1, <2>2
    <3>2. Def(h)[k] = Unsigned(32 * h[k - 1] + s[k])
      BY <3>1
    <3> HIDE DEF Def
    <3> QED BY <1>3, <1>8, <3>1, <3>2
  <2> HIDE DEF Good, Def
  <2>3. \A k \in 0 .. N : k \in Good
    BY <1>1, <2>1, <2>2, Climb
  <2> QED BY <2>3 DEF Good
<1>11. N \in 0 .. N
  BY <1>1
<1> HIDE DEF h
<1> QED BY <1>9, <1>10, <1>11 DEF Places

\* All the tokens of the first lines of a text, up to each line.
IsRead(f, s) == f[0] = <<>> /\ \A k \in 1 .. Len(s) : f[k] = f[k - 1] \o s[k]

LEMMA FlattenIs ==
    ASSUME NEW S, NEW s \in Seq(Seq(S)), s # <<>>
    PROVE  \E f \in [0 .. Len(s) -> Seq(S)] : IsRead(f, s) /\ f[Len(s)] = FlattenSeq(s)
<1> DEFINE N == Len(s)
           Def(f) == [k \in 1 .. N |-> IF k = 1 THEN s[k] ELSE f[k - 1] \o s[k]]
           g == CHOOSE f : f = Def(f)
<1>1. N \in Nat /\ N # 0 /\ <<>> \in Seq(S) /\ (\A k \in 1 .. N : s[k] \in Seq(S))
      /\ \A q, t \in Seq(S) : q \o t \in Seq(S)
  OBVIOUS
<1>2. PICK go : go = [k \in 1 .. N |-> [q \in Seq(S) |-> q \o s[k]]]
  OBVIOUS
<1> HIDE DEF N
<1>3. \A k \in 1 .. N : \A q \in Seq(S) : go[k][q] = q \o s[k] /\ go[k][q] \in Seq(S)
  BY <1>1, <1>2
<1>4. PICK f \in [0 .. N -> Seq(S)] : Iterates(f, N, <<>>, go)
  BY <1>1, <1>3, IterationExists
<1>5. f[0] = <<>> /\ \A k \in 1 .. N : f[k] = f[k - 1] \o s[k]
  <2>1. ASSUME NEW k \in 1 .. N  PROVE f[k] = f[k - 1] \o s[k]
    <3>1. k - 1 \in 0 .. N
      BY <1>1
    <3>2. f[k - 1] \in Seq(S)
      BY <3>1
    <3> QED BY <1>3, <1>4, <3>2 DEF Iterates
  <2> QED BY <1>4, <2>1 DEF Iterates
<1>6. PICK e : e = [k \in 1 .. N |-> f[k]]
  OBVIOUS
<1>7. e = Def(e)
  <2>1. ASSUME NEW k \in 1 .. N  PROVE e[k] = IF k = 1 THEN s[k] ELSE e[k - 1] \o s[k]
    <3>1. CASE k = 1
      <4>0. 1 \in 1 .. N /\ 1 - 1 = 0
        BY <3>1
      <4>1. f[1] = <<>> \o s[1] /\ s[1] \in Seq(S)
        BY <1>1, <1>5, <4>0
      <4>2. <<>> \o s[1] = s[1]
        BY <4>1
      <4> QED BY <1>6, <3>1, <4>1, <4>2
    <3>2. CASE k # 1
      <4>1. k - 1 \in 1 .. N
        BY <1>1, <3>2
      <4> QED BY <1>5, <1>6, <3>2, <4>1
    <3> QED BY <3>1, <3>2
  <2> QED BY <1>6, <2>1
<1>8. g = Def(g)
  <2>1. \E f_1 : f_1 = Def(f_1)
    BY <1>7
  <2> HIDE DEF Def
  <2> QED BY <2>1
<1>9. FlattenSeq(s) = g[N]
  BY <1>1 DEF FlattenSeq, N
<1>10. \A k \in 0 .. N : k > 0 => g[k] = f[k]
  <2> HIDE DEF g
  <2> DEFINE Same == {k \in 0 .. N : k > 0 => g[k] = f[k]}
  <2>1. 0 \in Same
    BY <1>1
  <2>2. ASSUME NEW k \in 1 .. N, k - 1 \in Same  PROVE k \in Same
    <3>1. k \in 0 .. N /\ k \in Int /\ (k = 1 \/ k - 1 > 0)
      BY <1>1
    <3>2. Def(g)[k] = IF k = 1 THEN s[k] ELSE g[k - 1] \o s[k]
      OBVIOUS
    <3>3. Def(e)[k] = IF k = 1 THEN s[k] ELSE e[k - 1] \o s[k]
      OBVIOUS
    <3>4. k # 1 => g[k - 1] = f[k - 1] /\ e[k - 1] = f[k - 1]
      <4>1. k # 1 => k - 1 \in 1 .. N
        BY <1>1, <3>1
      <4> QED BY <1>6, <2>2, <3>1, <4>1
    <3> HIDE DEF Def
    <3>5. g[k] = e[k]
      BY <1>7, <1>8, <3>2, <3>3, <3>4
    <3> QED BY <1>6, <3>1, <3>5
  <2> HIDE DEF Same, Def
  <2>3. \A k \in 0 .. N : k \in Same
    BY <1>1, <2>1, <2>2, Climb
  <2> QED BY <2>3 DEF Same
<1>11. N \in 0 .. N /\ N > 0
  BY <1>1
<1> HIDE DEF g
<1>12. f[N] = FlattenSeq(s)
  BY <1>9, <1>10, <1>11
<1> QED BY <1>5, <1>12 DEF IsRead, N

\* A node of a chain; and what insertHash makes of a chain.
TableEntry  == [word : Strings, frequency : Nat]
Places == 0 .. TABLE_SIZE - 1

LEMMA InsertedIs ==
    ASSUME NEW c \in Seq(TableEntry), NEW w \in Strings
    PROVE  /\ Inserted(c, w) \in Seq(TableEntry)
           /\ \A k \in 1 .. Len(c) :
                 /\ Inserted(c, w)[k].word = c[k].word
                 /\ Inserted(c, w)[k].frequency = IF c[k].word = w THEN c[k].frequency + 1 ELSE c[k].frequency
           /\ IF \E k \in 1 .. Len(c) : c[k].word = w THEN Len(Inserted(c, w)) = Len(c)
              ELSE /\ Len(Inserted(c, w)) = Len(c) + 1
                   /\ Inserted(c, w)[Len(c) + 1].word = w /\ Inserted(c, w)[Len(c) + 1].frequency = 1
<1>1. DOMAIN c = 1 .. Len(c) /\ Len(c) \in Nat /\ \A k \in 1 .. Len(c) : c[k] \in TableEntry
  OBVIOUS
<1>2. CASE \E k \in 1 .. Len(c) : c[k].word = w
  <2>1. Inserted(c, w) = [k \in 1 .. Len(c) |-> IF c[k].word = w THEN [c[k] EXCEPT !.frequency = @ + 1] ELSE c[k]]
    BY <1>1, <1>2 DEF Inserted
  <2>2. ASSUME NEW k \in 1 .. Len(c)
        PROVE  /\ [c[k] EXCEPT !.frequency = @ + 1] \in TableEntry /\ [c[k] EXCEPT !.frequency = @ + 1].word = c[k].word
               /\ [c[k] EXCEPT !.frequency = @ + 1].frequency = c[k].frequency + 1
    <3>1. c[k] \in TableEntry
      BY <1>1
    <3> QED BY <3>1 DEF TableEntry
  <2>3. Inserted(c, w) \in Seq(TableEntry) /\ Len(Inserted(c, w)) = Len(c)
    BY <1>1, <2>1, <2>2
  <2>4. \A k \in 1 .. Len(c) :
           Inserted(c, w)[k] = IF c[k].word = w THEN [c[k] EXCEPT !.frequency = @ + 1] ELSE c[k]
    BY <2>1
  <2> QED BY <1>2, <2>2, <2>3, <2>4
<1>3. CASE ~\E k \in 1 .. Len(c) : c[k].word = w
  <2>1. Inserted(c, w) = Append(c, [word |-> w, frequency |-> 1])
    BY <1>1, <1>3 DEF Inserted
  <2>2. [word |-> w, frequency |-> 1] \in TableEntry
    BY DEF TableEntry
  <2>3. /\ Inserted(c, w) \in Seq(TableEntry) /\ Len(Inserted(c, w)) = Len(c) + 1
        /\ Inserted(c, w)[Len(c) + 1] = [word |-> w, frequency |-> 1]
        /\ \A k \in 1 .. Len(c) : Inserted(c, w)[k] = c[k]
    BY <1>1, <2>1, <2>2
  <2> QED BY <1>3, <2>3
<1> QED BY <1>2, <1>3

\* How often each word was inserted, before and after one more.
LEMMA CountOneMore ==
    ASSUME words \in Seq(Strings), NEW w, words' = Append(words, w)
    PROVE  /\ \A v : Count(v) \in Nat /\ (v \notin ToSet(words) => Count(v) = 0)
           /\ \A v : Count(v)' = IF v = w THEN Count(v) + 1 ELSE Count(v)
<1>1. Len(words) \in Nat /\ DOMAIN words = 1 .. Len(words)
  OBVIOUS
<1>2. /\ DOMAIN words' = 1 .. Len(words) + 1 /\ words'[Len(words) + 1] = w
      /\ \A k \in 1 .. Len(words) : words'[k] = words[k]
  OBVIOUS
<1>3. ASSUME NEW v  PROVE Count(v) \in Nat /\ (v \notin ToSet(words) => Count(v) = 0)
                          /\ Count(v)' = IF v = w THEN Count(v) + 1 ELSE Count(v)
  <2>1. PICK A : A = {k \in 1 .. Len(words) : words[k] = v}
    OBVIOUS
  <2>2. IsFiniteSet(A) /\ Cardinality(A) \in Nat
    <3>1. IsFiniteSet(1 .. Len(words))
      BY <1>1, FS_Interval
    <3> QED BY <2>1, <3>1, FS_Subset, FS_CardinalityType
  <2>3. Count(v) = Cardinality(A)
    BY <1>1, <2>1 DEF Count
  <2>4. v \notin ToSet(words) => A = {}
    BY <1>1, <2>1 DEF ToSet
  <2>5. PICK B : B = {k \in 1 .. Len(words) + 1 : words'[k] = v}
    OBVIOUS
  <2>6. Count(v)' = Cardinality(B)
    BY <1>2, <2>5 DEF Count
  <2>7. \A k \in 1 .. Len(words) + 1 : k \in 1 .. Len(words) \/ k = Len(words) + 1
    BY <1>1
  <2>8. \A k \in 1 .. Len(words) : k \in 1 .. Len(words) + 1
    BY <1>1
  <2>9. CASE v = w
    <3>1. Len(words) + 1 \notin A /\ Len(words) + 1 \in 1 .. Len(words) + 1
      BY <1>1, <2>1
    <3>2. B = A \cup {Len(words) + 1}
      BY <1>2, <2>1, <2>5, <2>7, <2>8, <2>9, <3>1
    <3>3. Cardinality(B) = Cardinality(A) + 1
      BY <2>2, <3>1, <3>2, FS_AddElement
    <3> QED BY <2>2, <2>3, <2>4, <2>6, <2>9, <3>3, FS_EmptySet
  <2>10. CASE v # w
    <3>1. B = A
      BY <1>2, <2>1, <2>5, <2>7, <2>8, <2>10
    <3> QED BY <2>2, <2>3, <2>4, <2>6, <2>10, <3>1, FS_EmptySet
  <2> QED BY <2>9, <2>10
<1> QED BY <1>3

LEMMA WordsOneMore ==
    ASSUME NEW ws \in Seq(Strings), NEW w \in Strings
    PROVE  /\ Append(ws, w) \in Seq(Strings) /\ Len(Append(ws, w)) = Len(ws) + 1 /\ Len(ws) \in Nat
           /\ ToSet(Append(ws, w)) = ToSet(ws) \cup {w} /\ ToSet(ws) \subseteq Strings
           /\ IsFiniteSet(ToSet(ws)) /\ Cardinality(ToSet(ws)) \in Nat
           /\ Cardinality(ToSet(Append(ws, w))) =
                 IF w \in ToSet(ws) THEN Cardinality(ToSet(ws)) ELSE Cardinality(ToSet(ws)) + 1
<1>1. /\ Append(ws, w) \in Seq(Strings) /\ Len(Append(ws, w)) = Len(ws) + 1 /\ Len(ws) \in Nat
      /\ Append(ws, w)[Len(ws) + 1] = w /\ \A k \in 1 .. Len(ws) : Append(ws, w)[k] = ws[k]
      /\ DOMAIN ws = 1 .. Len(ws) /\ DOMAIN Append(ws, w) = 1 .. Len(ws) + 1
  OBVIOUS
<1>2. ToSet(ws) \subseteq Strings /\ ToSet(ws) = {ws[k] : k \in 1 .. Len(ws)}
  BY <1>1 DEF ToSet
<1>3. IsFiniteSet(ToSet(ws))
  <2>1. IsFiniteSet(1 .. Len(ws))
    BY <1>1, FS_Interval
  <2>2. PICK f : f = [k \in 1 .. Len(ws) |-> ws[k]]
    OBVIOUS
  <2>3. f \in Surjection(1 .. Len(ws), ToSet(ws))
    <3>1. f \in [1 .. Len(ws) -> ToSet(ws)] /\ \A v \in ToSet(ws) : \E k \in 1 .. Len(ws) : f[k] = v
      BY <1>2, <2>2
    <3> QED BY <3>1, Zenon DEF Surjection
  <2> QED BY <2>1, <2>3, FS_Surjection
<1>4. ToSet(Append(ws, w)) = ToSet(ws) \cup {w}
  <2>1. PICK q : q = Append(ws, w)
    OBVIOUS
  <2>2. \A k \in 1 .. Len(ws) + 1 : k \in 1 .. Len(ws) \/ k = Len(ws) + 1
    BY <1>1
  <2>3. Len(ws) + 1 \in 1 .. Len(ws) + 1 /\ \A k \in 1 .. Len(ws) : k \in 1 .. Len(ws) + 1
    BY <1>1
  <2>4. /\ q[Len(ws) + 1] = w /\ (\A k \in 1 .. Len(ws) : q[k] = ws[k])
        /\ DOMAIN ws = 1 .. Len(ws) /\ DOMAIN q = 1 .. Len(ws) + 1
    BY <1>1, <2>1
  <2>5. ToSet(q) = ToSet(ws) \cup {w}
    BY <2>2, <2>3, <2>4 DEF ToSet
  <2> QED BY <2>1, <2>5
<1>5. Cardinality(ToSet(ws)) \in Nat
  BY <1>3, FS_CardinalityType
<1>6. Cardinality(ToSet(Append(ws, w))) =
         IF w \in ToSet(ws) THEN Cardinality(ToSet(ws)) ELSE Cardinality(ToSet(ws)) + 1
  <2>1. CASE w \in ToSet(ws)
    <3>1. ToSet(Append(ws, w)) = ToSet(ws)
      BY <1>4, <2>1
    <3> QED BY <2>1, <3>1
  <2>2. CASE w \notin ToSet(ws)
    BY <1>3, <1>4, <2>2, FS_AddElement
  <2> QED BY <2>1, <2>2
<1> QED BY <1>1, <1>2, <1>3, <1>4, <1>5, <1>6

\* The table holds each word that was inserted once, where its hash tells.
Counted ==
    /\ \A h \in Places : \A k \in 1 .. Len(table[h]) :
          /\ table[h][k].word \in ToSet(words) /\ hash(table[h][k].word) = h
          /\ table[h][k].frequency = Count(table[h][k].word)
          /\ \A l \in 1 .. Len(table[h]) : table[h][l].word = table[h][k].word => l = k
    /\ \A v \in ToSet(words) : \E k \in 1 .. Len(table[hash(v)]) : table[hash(v)][k].word = v
    /\ unlinked = Len(words) - Cardinality(ToSet(words))

CounterTypes ==
    /\ text \in Texts /\ line \in 0 .. Len(text) /\ feof \in BOOLEAN /\ tokens \in Seq(Strings)
    /\ words \in Seq(Strings) /\ unlinked \in Int /\ table \in [Places -> Seq(TableEntry)]
    /\ counter \in {"read", "count", "printed", "deleted"}

\* What the buffer holds, and when the end of the file has been met.
Buffered ==
    /\ line > 0 => buffer = <<Head(text[line])>> /\ (feof \/ EndsLine(line))
    /\ feof => line = Len(text)
    /\ counter = "read" => tokens = <<>>
    /\ counter \in {"printed", "deleted"} => feof /\ tokens = <<>>

\* r are the tokens that have been counted, f those of the lines.
Again == IF feof /\ EndsLine(Len(text)) THEN <<Head(Last(text))>> ELSE <<>>
HasRead(f, r) ==
    /\ IsRead(f, text) /\ f[Len(text)] = FlattenSeq(text) /\ r \o tokens = f[line] \o Again
    /\ words = [k \in 1 .. Len(r) |-> removePunct(r[k])]

CounterIInv ==
    /\ CounterTypes /\ Buffered
    /\ counter # "deleted" => Counted
    /\ \E f \in [0 .. Len(text) -> Seq(Strings)], r \in Seq(Strings) : HasRead(f, r)

LEMMA TextIs ==
    ASSUME CounterAssumption, NEW t \in Texts
    PROVE  /\ t \in Seq(Seq(Strings)) /\ t # <<>> /\ Len(t) \in Nat /\ Len(t) > 0
           /\ \A k \in 1 .. Len(t) : t[k] \in Seq(Strings) /\ t[k] # <<>> /\ Head(t[k]) \in Strings
           /\ \A k \in 1 .. Len(t) : k < Len(t) => Last(Last(t[k])) = NewLine
           /\ Last(t) = t[Len(t)]
<1>1. t \in Seq(Seq(Strings)) /\ t # <<>> /\ DOMAIN t = 1 .. Len(t) /\ Len(t) \in Nat
  BY DEF CounterAssumption, Strings
<1>2. \A k \in 1 .. Len(t) : t[k] # <<>> /\ (k < Len(t) => Last(Last(t[k])) = NewLine)
  BY <1>1 DEF CounterAssumption
<1>3. Len(t) > 0 /\ \A k \in 1 .. Len(t) : t[k] \in Seq(Strings)
  BY <1>1
<1>4. \A q \in Seq(Strings) : q # <<>> => Head(q) \in Strings
  OBVIOUS
<1> QED BY <1>1, <1>2, <1>3, <1>4 DEF Last

LEMMA CounterAtFirst ==
    ASSUME CounterAssumption, CounterInit  PROVE CounterIInv
<1>1. /\ text \in Texts /\ line = 0 /\ feof = FALSE /\ tokens = <<>> /\ words = <<>> /\ unlinked = 0
      /\ table = [h \in Places |-> <<>>] /\ counter = "read"
  BY DEF CounterInit, Places
<1>2. /\ text \in Seq(Seq(Strings)) /\ text # <<>> /\ Len(text) \in Nat
  BY <1>1, TextIs
<1>3. <<>> \in Seq(Strings) /\ <<>> \in Seq(TableEntry) /\ Len(<<>>) = 0
  OBVIOUS
<1>4. CounterTypes
  <2>1. table \in [Places -> Seq(TableEntry)]
    BY <1>1, <1>3
  <2>2. line = 0 /\ unlinked = 0 /\ Len(text) \in Nat
    BY <1>1, <1>2
  <2>3. line \in 0 .. Len(text) /\ unlinked \in Int
    BY <2>2
  <2>4. feof \in BOOLEAN
    BY <1>1, Zenon
  <2> QED BY <1>1, <1>3, <2>1, <2>3, <2>4 DEF CounterTypes
<1>5. Buffered
  BY <1>1 DEF Buffered
<1>6. Counted
  <2>1. \A h \in Places : table[h] = <<>>
    BY <1>1
  <2>2. ToSet(words) = {}
    BY <1>1 DEF ToSet
  <2>3. Cardinality(ToSet(words)) = 0 /\ Len(words) = 0
    BY <1>1, <2>2, FS_EmptySet
  <2>4. \A h \in Places : 1 .. Len(table[h]) = {}
    BY <2>1
  <2> QED BY <1>1, <2>2, <2>3, <2>4 DEF Counted
<1>7. \E f \in [0 .. Len(text) -> Seq(Strings)], r \in Seq(Strings) : HasRead(f, r)
  <2>1. PICK f \in [0 .. Len(text) -> Seq(Strings)] : IsRead(f, text) /\ f[Len(text)] = FlattenSeq(text)
    BY <1>2, FlattenIs
  <2>2. Again = <<>>
    BY <1>1 DEF Again
  <2>3. <<>> \o tokens = f[line] \o Again
    BY <1>1, <2>1, <2>2 DEF IsRead
  <2>4. words = [k \in 1 .. Len(<<>>) |-> removePunct(<<>>[k])]
    BY <1>1
  <2>5. HasRead(f, <<>>)
    BY <2>1, <2>3, <2>4 DEF HasRead
  <2> QED BY <1>3, <2>5
<1> QED BY <1>1, <1>4, <1>5, <1>6, <1>7 DEF CounterIInv

\* Counted depends on the table and the words alone.
LEMMA CountedSame ==
    ASSUME Counted, UNCHANGED <<table, words, unlinked>>  PROVE Counted'
<1>1. \A v : Count(v)' = Count(v)
  BY DEF Count
<1> QED BY <1>1 DEF Counted

LEMMA ReadLineKept ==
    ASSUME CounterAssumption, CounterIInv, ReadLine  PROVE CounterIInv'
<1>1. /\ counter = "read" /\ ~feof /\ counter' = "count" /\ UNCHANGED <<text, table, words, unlinked>>
      /\ CounterTypes /\ Buffered /\ Counted /\ tokens = <<>> /\ Len(text) \in Nat /\ line \in 0 .. Len(text)
  <2>1. /\ counter = "read" /\ ~feof /\ counter' = "count" /\ UNCHANGED <<text, table, words, unlinked>>
        /\ CounterTypes /\ Buffered
    BY DEF ReadLine, CounterIInv
  <2>2. Counted /\ tokens = <<>> /\ text \in Texts /\ line \in 0 .. Len(text)
    BY <2>1 DEF CounterIInv, CounterTypes, Buffered
  <2> QED BY <2>1, <2>2, TextIs
<1>2. /\ text \in Texts /\ (\A k \in 1 .. Len(text) : text[k] \in Seq(Strings) /\ Head(text[k]) \in Strings)
      /\ (\A k \in 1 .. Len(text) : k < Len(text) => EndsLine(k)) /\ Last(text) = text[Len(text)] /\ Len(text) > 0
  <2>1. text \in Texts
    BY <1>1 DEF CounterTypes
  <2> QED BY <2>1, TextIs DEF EndsLine
<1>3. PICK f \in [0 .. Len(text) -> Seq(Strings)], r \in Seq(Strings) : HasRead(f, r)
  BY DEF CounterIInv
<1>4. r = f[line]
  <2>1. Again = <<>>
    BY <1>1 DEF Again
  <2>2. r \o <<>> = f[line] \o <<>> /\ f[line] \in Seq(Strings)
    BY <1>1, <1>3, <2>1 DEF HasRead
  <2>3. \A q \in Seq(Strings) : q \o <<>> = q
    OBVIOUS
  <2> QED BY <2>2, <2>3
<1>5. Counted'
  BY <1>1, CountedSame
<1>6. CASE line < Len(text)
  <2>1. /\ line' = line + 1 /\ tokens' = text[line + 1] /\ buffer' = <<Head(text[line + 1])>>
        /\ feof' = ~EndsLine(line + 1) /\ line + 1 \in 1 .. Len(text) /\ line + 1 \in 0 .. Len(text) /\ line + 1 > 0
    BY <1>1, <1>6 DEF ReadLine
  <2>2. feof' => line + 1 = Len(text)
    <3>1. line + 1 < Len(text) \/ line + 1 = Len(text)
      BY <1>1, <1>6
    <3> QED BY <1>2, <2>1, <3>1
  <2>3. CounterTypes'
    BY <1>1, <1>2, <2>1 DEF CounterTypes
  <2>4. Buffered'
    <3>1. (feof \/ EndsLine(line))'
      BY <1>1, <2>1 DEF EndsLine
    <3> QED BY <1>1, <2>1, <2>2, <3>1 DEF Buffered
  <2>5. Again' = <<>>
    <3>1. ~(feof' /\ EndsLine(Len(text))')
      <4>1. EndsLine(Len(text))' <=> EndsLine(Len(text))
        BY <1>1 DEF EndsLine
      <4> QED BY <2>1, <2>2, <4>1
    <3> QED BY <3>1 DEF Again
  <2>6. r \o tokens' = f[line'] \o Again'
    <3>1. f[line + 1] = f[line] \o text[line + 1]
      <4>1. f[line + 1] = f[line + 1 - 1] \o text[line + 1]
        BY <1>3, <2>1 DEF HasRead, IsRead
      <4>2. line + 1 - 1 = line
        BY <1>1
      <4> QED BY <4>1, <4>2
    <3>2. f[line + 1] \in Seq(Strings)
      BY <2>1
    <3>3. f[line + 1] \o <<>> = f[line + 1]
      BY <3>2
    <3> QED BY <1>4, <2>1, <2>5, <3>1, <3>3
  <2>7. HasRead(f, r)'
    BY <1>1, <1>3, <2>6 DEF HasRead, IsRead
  <2>8. \E g \in [0 .. Len(text') -> Seq(Strings)], q \in Seq(Strings) : HasRead(g, q)'
    BY <1>1, <2>7
  <2> QED BY <1>5, <2>3, <2>4, <2>8 DEF CounterIInv
<1>7. CASE ~(line < Len(text))
  <2>1. tokens' = buffer /\ feof' = TRUE /\ line' = line /\ buffer' = buffer /\ line = Len(text) /\ line > 0
    BY <1>1, <1>2, <1>7 DEF ReadLine
  <2>2. tokens' = <<Head(Last(text))>> /\ EndsLine(Len(text))
    BY <1>1, <1>2, <2>1 DEF Buffered
  <2>3. tokens' \in Seq(Strings)
    <3>1. Len(text) \in 1 .. Len(text)
      BY <1>1, <1>2
    <3>2. Head(Last(text)) \in Strings
      BY <1>2, <3>1
    <3> QED BY <2>2, <3>2
  <2>4. CounterTypes'
    BY <1>1, <2>1, <2>3 DEF CounterTypes
  <2>5. Buffered'
    BY <1>1, <2>1 DEF Buffered
  <2>6. Again' = <<Head(Last(text))>>
    BY <1>1, <2>1, <2>2 DEF Again, EndsLine
  <2>7. r \o tokens' = f[line'] \o Again'
    BY <1>4, <2>1, <2>2, <2>6
  <2>8. HasRead(f, r)'
    BY <1>1, <1>3, <2>7 DEF HasRead, IsRead
  <2>9. \E g \in [0 .. Len(text') -> Seq(Strings)], q \in Seq(Strings) : HasRead(g, q)'
    BY <1>1, <2>8
  <2> QED BY <1>5, <2>4, <2>5, <2>9 DEF CounterIInv
<1> QED BY <1>6, <1>7

\* A token is counted.
LEMMA CountTokenKept ==
    ASSUME CounterAssumption, CounterIInv, CountToken  PROVE CounterIInv'
<1>1. /\ counter = "count" /\ tokens # <<>> /\ tokens' = Tail(tokens)
      /\ UNCHANGED <<text, line, feof, buffer, counter>> /\ CounterTypes /\ Buffered /\ Counted
      /\ tokens \in Seq(Strings) /\ words \in Seq(Strings) /\ table \in [Places -> Seq(TableEntry)] /\ unlinked \in Int
  <2>1. /\ counter = "count" /\ tokens # <<>> /\ tokens' = Tail(tokens)
        /\ UNCHANGED <<text, line, feof, buffer, counter>> /\ CounterTypes /\ Buffered
    BY DEF CountToken, CounterIInv
  <2>2. Counted
    BY <2>1 DEF CounterIInv
  <2> QED BY <2>1, <2>2 DEF CounterTypes
<1>2. /\ Len(tokens) \in Nat /\ Len(tokens) > 0 /\ tokens[1] \in Strings /\ Head(tokens) = tokens[1]
      /\ Tail(tokens) \in Seq(Strings)
  BY <1>1
<1>3. PICK w \in Strings : w = removePunct(tokens[1])
  BY <1>2, RemovePunctIs
<1>4. PICK h \in Places : h = hash(w)
  BY <1>3, HashIs DEF Places
<1>5. PICK c \in Seq(TableEntry) : c = table[h]
  BY <1>1
<1>6. /\ words' = Append(words, w) /\ table' = [table EXCEPT ![h] = Inserted(c, w)]
      /\ unlinked' = unlinked + 1 - (Len(table'[h]) - Len(table[h]))
  BY <1>2, <1>3, <1>4, <1>5 DEF CountToken
<1>7. PICK e \in Seq(TableEntry) : e = Inserted(c, w)
  BY InsertedIs
<1>8. table'[h] = e /\ (\A g \in Places : g # h => table'[g] = table[g]) /\ table' \in [Places -> Seq(TableEntry)]
  BY <1>1, <1>6, <1>7
<1>9. /\ words' \in Seq(Strings) /\ Len(words') = Len(words) + 1 /\ Len(words) \in Nat
      /\ ToSet(words') = ToSet(words) \cup {w} /\ ToSet(words) \subseteq Strings /\ Cardinality(ToSet(words)) \in Nat
      /\ Cardinality(ToSet(words')) =
            IF w \in ToSet(words) THEN Cardinality(ToSet(words)) ELSE Cardinality(ToSet(words)) + 1
  BY <1>1, <1>6, WordsOneMore
<1>10. /\ \A v : Count(v) \in Nat /\ (v \notin ToSet(words) => Count(v) = 0)
       /\ \A v : Count(v)' = IF v = w THEN Count(v) + 1 ELSE Count(v)
  BY <1>1, <1>6, CountOneMore
<1>11. /\ Len(c) \in Nat /\ Len(e) \in Nat
       /\ \A k \in 1 .. Len(c) :
             /\ e[k].word = c[k].word
             /\ e[k].frequency = IF c[k].word = w THEN c[k].frequency + 1 ELSE c[k].frequency
       /\ IF \E k \in 1 .. Len(c) : c[k].word = w THEN Len(e) = Len(c)
          ELSE Len(e) = Len(c) + 1 /\ e[Len(c) + 1].word = w /\ e[Len(c) + 1].frequency = 1
  BY <1>7, InsertedIs
<1>12. w \in ToSet(words) <=> \E k \in 1 .. Len(c) : c[k].word = w
  BY <1>1, <1>4, <1>5 DEF Counted
<1>13. \A k \in 1 .. Len(e) : k \in 1 .. Len(c) \/ (k = Len(c) + 1 /\ w \notin ToSet(words))
  <2>1. Len(e) = Len(c) \/ (Len(e) = Len(c) + 1 /\ w \notin ToSet(words))
    BY <1>11, <1>12
  <2>2. Len(c) \in Nat
    BY <1>11
  <2> QED BY <2>1, <2>2
<1>14. \A k \in 1 .. Len(c) : k \in 1 .. Len(e)
  BY <1>11
<1>15. ASSUME NEW g \in Places, NEW k \in 1 .. Len(table'[g])
       PROVE  /\ table'[g][k].word \in ToSet(words') /\ hash(table'[g][k].word) = g
              /\ table'[g][k].frequency = Cardinality({l \in DOMAIN words' : words'[l] = table'[g][k].word})
              /\ \A l \in 1 .. Len(table'[g]) : table'[g][l].word = table'[g][k].word => l = k
  <2> DEFINE Good(v) == /\ v \in ToSet(words') /\ hash(v) = g /\ table'[g][k].frequency = Count(v)'
                        /\ \A l \in 1 .. Len(table'[g]) : table'[g][l].word = v => l = k
  <2>0. PICK v : v = table'[g][k].word
    OBVIOUS
  <2>1. ASSUME g # h  PROVE Good(v)
    <3>1. table'[g] = table[g]
      BY <1>8, <2>1
    <3>2. k \in 1 .. Len(table[g]) /\ table[g][k].word = v
      BY <2>0, <3>1
    <3>3. /\ v \in ToSet(words) /\ hash(v) = g /\ table[g][k].frequency = Count(v)
          /\ \A l \in 1 .. Len(table[g]) : table[g][l].word = v => l = k
      BY <1>1, <3>2 DEF Counted
    <3>4. Count(v)' = Count(v)
      BY <1>4, <1>10, <2>1, <3>3
    <3> QED BY <1>9, <3>1, <3>3, <3>4
  <2>2. ASSUME g = h  PROVE Good(v)
    <3>1. table'[g] = e /\ k \in 1 .. Len(e) /\ e[k].word = v
      BY <1>8, <2>0, <2>2
    <3>2. CASE k \in 1 .. Len(c)
      <4>1. c[k].word = v
        BY <1>11, <3>1, <3>2
      <4>2. /\ v \in ToSet(words) /\ hash(v) = h /\ c[k].frequency = Count(v)
            /\ \A l \in 1 .. Len(c) : c[l].word = v => l = k
        BY <1>1, <1>5, <3>2, <4>1 DEF Counted
      <4>3. e[k].frequency = Count(v)'
        BY <1>10, <1>11, <3>2, <4>1, <4>2
      <4>4. ASSUME NEW l \in 1 .. Len(e), e[l].word = v  PROVE l = k
        <5>1. CASE l \in 1 .. Len(c)
          BY <1>11, <4>2, <4>4, <5>1
        <5>2. CASE l = Len(c) + 1 /\ w \notin ToSet(words)
          BY <1>11, <1>12, <4>2, <4>4, <5>2
        <5> QED BY <1>13, <5>1, <5>2
      <4> QED BY <1>9, <2>2, <3>1, <4>2, <4>3, <4>4
    <3>3. CASE k = Len(c) + 1 /\ w \notin ToSet(words)
      <4>1. v = w /\ e[k].frequency = 1
        BY <1>11, <1>12, <3>1, <3>3
      <4>2. Count(w)' = 1
        BY <1>10, <3>3
      <4>3. ASSUME NEW l \in 1 .. Len(e), e[l].word = w  PROVE l = k
        <5>1. ~(l \in 1 .. Len(c))
          BY <1>11, <1>12, <3>3, <4>3
        <5> QED BY <1>13, <3>3, <5>1
      <4> QED BY <1>4, <1>9, <2>2, <3>1, <4>1, <4>2, <4>3
    <3> QED BY <1>13, <3>1, <3>2, <3>3
  <2>3. Good(v)
    BY <2>1, <2>2
  <2>4. {l \in DOMAIN words' : words'[l] = v} = {l \in DOMAIN words' : words'[l] = table'[g][k].word}
    BY <2>0
  <2>5. Count(v)' = Cardinality({l \in DOMAIN words' : words'[l] = table'[g][k].word})
    BY <2>4 DEF Count
  <2> QED BY <2>0, <2>3, <2>5
<1>16. ASSUME NEW v \in ToSet(words')
       PROVE  \E k \in 1 .. Len(table'[hash(v)]) : table'[hash(v)][k].word = v
  <2>1. hash(v) \in Places
    BY <1>9, <1>16, HashIs DEF Places
  <2>2. CASE v \in ToSet(words)
    <3>1. PICK k \in 1 .. Len(table[hash(v)]) : table[hash(v)][k].word = v
      BY <1>1, <2>2 DEF Counted
    <3>2. CASE hash(v) = h
      BY <1>5, <1>8, <1>11, <1>14, <3>1, <3>2
    <3>3. CASE hash(v) # h
      BY <1>8, <2>1, <3>1, <3>3
    <3> QED BY <3>2, <3>3
  <2>3. CASE v = w /\ w \notin ToSet(words)
    <3>1. Len(c) + 1 \in 1 .. Len(e) /\ e[Len(c) + 1].word = w
      BY <1>11, <1>12, <2>3
    <3> QED BY <1>4, <1>8, <2>3, <3>1
  <2> QED BY <1>9, <1>16, <2>2, <2>3
<1>17. unlinked' = Len(words') - Cardinality(ToSet(words')) /\ unlinked' \in Int
  <2>1. unlinked = Len(words) - Cardinality(ToSet(words))
    BY <1>1 DEF Counted
  <2>2. unlinked' = unlinked + 1 - (Len(e) - Len(c))
    BY <1>5, <1>6, <1>8
  <2>3. CASE w \in ToSet(words)
    <3>1. Len(e) = Len(c) /\ Cardinality(ToSet(words')) = Cardinality(ToSet(words))
      BY <1>9, <1>11, <1>12, <2>3
    <3> QED BY <1>1, <1>9, <1>11, <2>1, <2>2, <3>1
  <2>4. CASE w \notin ToSet(words)
    <3>1. Len(e) = Len(c) + 1
      BY <1>11, <1>12, <2>4
    <3>2. Cardinality(ToSet(words')) = Cardinality(ToSet(words)) + 1
      BY <1>9, <2>4
    <3>3. unlinked' = unlinked
      BY <1>1, <1>11, <2>2, <3>1
    <3> QED BY <1>1, <1>9, <2>1, <3>2, <3>3
  <2> QED BY <2>3, <2>4
<1>18. Counted'
  BY <1>15, <1>16, <1>17 DEF Counted, Count
<1>19. CounterTypes'
  BY <1>1, <1>2, <1>8, <1>9, <1>17 DEF CounterTypes
<1>20. Buffered'
  BY <1>1 DEF Buffered, EndsLine
<1>21. \E f \in [0 .. Len(text') -> Seq(Strings)], r \in Seq(Strings) : HasRead(f, r)'
  <2>1. PICK f \in [0 .. Len(text) -> Seq(Strings)], r \in Seq(Strings) : HasRead(f, r)
    BY DEF CounterIInv
  <2>2. PICK q : q = Append(r, tokens[1])
    OBVIOUS
  <2>3. /\ q \in Seq(Strings) /\ Len(q) = Len(r) + 1 /\ Len(r) \in Nat /\ q[Len(r) + 1] = tokens[1]
        /\ \A k \in 1 .. Len(r) : q[k] = r[k]
    BY <1>2, <2>2
  <2>4. q \o tokens' = r \o tokens
    BY <1>1, <1>2, <2>2, MoveHead
  <2>5. words' = [k \in 1 .. Len(q) |-> removePunct(q[k])]
    <3>1. words = [k \in 1 .. Len(r) |-> removePunct(r[k])]
      BY <2>1 DEF HasRead
    <3>2. Len(words) = Len(r) /\ \A k \in 1 .. Len(r) : words[k] = removePunct(r[k])
      BY <1>1, <2>3, <3>1
    <3>3. \A s \in Seq(Strings), a \in Strings :
             Append(s, a)[Len(s) + 1] = a /\ \A k \in 1 .. Len(s) : Append(s, a)[k] = s[k]
      OBVIOUS
    <3>4. PICK z \in Seq(Strings) : z = words'
      BY <1>9
    <3>5. /\ z[Len(words) + 1] = w /\ \A k \in 1 .. Len(words) : z[k] = words[k]
          /\ z = [k \in 1 .. Len(words) + 1 |-> z[k]]
      <4>1. z[Len(words) + 1] = w /\ \A k \in 1 .. Len(words) : z[k] = words[k]
        BY <1>1, <1>6, <3>3, <3>4
      <4>2. Len(z) = Len(words) + 1
        BY <1>9, <3>4
      <4>3. z = [k \in 1 .. Len(z) |-> z[k]]
        OBVIOUS
      <4> QED BY <4>1, <4>2, <4>3
    <3>6. \A k \in 1 .. Len(q) : z[k] = removePunct(q[k])
      <4>1. \A k \in 1 .. Len(q) : k \in 1 .. Len(r) \/ k = Len(r) + 1
        BY <2>3
      <4> QED BY <1>3, <2>3, <3>2, <3>5, <4>1
    <3>7. z = [k \in 1 .. Len(q) |-> z[k]]
      BY <2>3, <3>2, <3>5
    <3>8. z = [k \in 1 .. Len(q) |-> removePunct(q[k])]
      BY <3>6, <3>7
    <3> QED BY <3>4, <3>8
  <2>6. Again' = Again
    BY <1>1 DEF Again, EndsLine
  <2>7. HasRead(f, q)'
    BY <1>1, <2>1, <2>4, <2>5, <2>6 DEF HasRead, IsRead
  <2> QED BY <1>1, <2>1, <2>3, <2>7
<1> QED BY <1>1, <1>18, <1>19, <1>20, <1>21 DEF CounterIInv

LEMMA CounterRest ==
    ASSUME CounterAssumption, CounterIInv, LineDone \/ DeleteTable \/ UNCHANGED counterVars
    PROVE  CounterIInv'
<1>1. UNCHANGED <<text, line, feof, buffer, tokens, words, unlinked>>
  BY DEF LineDone, DeleteTable, counterVars
<1>2. \E f \in [0 .. Len(text') -> Seq(Strings)], r \in Seq(Strings) : HasRead(f, r)'
  <2>1. PICK f \in [0 .. Len(text) -> Seq(Strings)], r \in Seq(Strings) : HasRead(f, r)
    BY DEF CounterIInv
  <2>2. HasRead(f, r)'
    BY <1>1, <2>1 DEF HasRead, IsRead, Again, EndsLine
  <2> QED BY <1>1, <2>2
<1>3. CounterTypes /\ Buffered /\ (counter # "deleted" => Counted)
  BY DEF CounterIInv
<1>4. CASE LineDone
  <2>1. counter = "count" /\ tokens = <<>> /\ counter' = (IF feof THEN "printed" ELSE "read") /\ table' = table
    BY <1>4 DEF LineDone
  <2>2. CounterTypes' /\ Buffered'
    BY <1>1, <1>3, <2>1 DEF CounterTypes, Buffered, EndsLine
  <2>3. Counted'
    BY <1>1, <1>3, <2>1, CountedSame
  <2> QED BY <1>2, <2>2, <2>3 DEF CounterIInv
<1>5. CASE DeleteTable
  <2>1. counter = "printed" /\ counter' = "deleted" /\ table' = [h \in DOMAIN table |-> <<>>]
    BY <1>5 DEF DeleteTable
  <2>2. table' \in [Places -> Seq(TableEntry)]
    <3>1. <<>> \in Seq(TableEntry) /\ DOMAIN table = Places
      BY <1>3 DEF CounterTypes
    <3> QED BY <2>1, <3>1
  <2>3. CounterTypes' /\ Buffered'
    BY <1>1, <1>3, <2>1, <2>2 DEF CounterTypes, Buffered, EndsLine
  <2> QED BY <1>2, <2>1, <2>3 DEF CounterIInv
<1>6. CASE UNCHANGED counterVars
  <2>1. counter' = counter /\ table' = table
    BY <1>6 DEF counterVars
  <2>2. CounterTypes' /\ Buffered'
    BY <1>1, <1>3, <2>1 DEF CounterTypes, Buffered, EndsLine
  <2>3. counter' # "deleted" => Counted'
    BY <1>1, <1>3, <2>1, CountedSame
  <2> QED BY <1>2, <2>2, <2>3 DEF CounterIInv
<1> QED BY <1>4, <1>5, <1>6

LEMMA CounterMeans ==
    ASSUME CounterAssumption, CounterIInv  PROVE CounterInv
<1>1. CounterTypes /\ Buffered /\ DOMAIN table = Places /\ words \in Seq(Strings)
  BY DEF CounterIInv, CounterTypes
<1>2. \A h \in Places : table[h] \in Seq(TableEntry) /\ DOMAIN table[h] = 1 .. Len(table[h])
  BY <1>1 DEF CounterTypes
<1>3. \A v \in ToSet(words) : hash(v) \in Places
  <2>1. ToSet(words) \subseteq Strings
    BY <1>1 DEF ToSet
  <2> QED BY <2>1, HashIs DEF Places
<1>4. TableInv
  <2> SUFFICES ASSUME counter # "deleted"
               PROVE  /\ \A w \in ToSet(words) :
                            /\ hash(w) \in Indices
                            /\ \E k \in DOMAIN table[hash(w)] :
                                  table[hash(w)][k] = [word |-> w, frequency |-> Count(w)]
                      /\ \A h \in Indices : \A k \in DOMAIN table[h] :
                            /\ table[h][k].word \in ToSet(words) /\ hash(table[h][k].word) = h
                            /\ \A l \in DOMAIN table[h] : table[h][l].word = table[h][k].word => l = k
                      /\ unlinked = Len(words) - Cardinality(ToSet(words))
    BY DEF TableInv
  <2>1. Counted
    BY DEF CounterIInv
  <2>2. ASSUME NEW w \in ToSet(words)
        PROVE  \E k \in DOMAIN table[hash(w)] : table[hash(w)][k] = [word |-> w, frequency |-> Count(w)]
    <3>1. PICK k \in 1 .. Len(table[hash(w)]) : table[hash(w)][k].word = w
      BY <2>1, <2>2 DEF Counted
    <3>2. table[hash(w)][k].frequency = Count(w) /\ hash(w) \in Places /\ k \in DOMAIN table[hash(w)]
      BY <1>2, <1>3, <2>1, <2>2, <3>1 DEF Counted
    <3>3. table[hash(w)][k] \in TableEntry
      BY <1>2, <3>1, <3>2
    <3>4. table[hash(w)][k] = [word |-> w, frequency |-> Count(w)]
      BY <3>1, <3>2, <3>3 DEF TableEntry
    <3> QED BY <3>2, <3>4
  <2> QED BY <1>1, <1>2, <1>3, <2>1, <2>2 DEF Counted, Indices
<1>5. FileInv
  <2> SUFFICES ASSUME counter \in {"printed", "deleted"}
               PROVE  LET all == FlattenSeq(text) \o Surplus
                      IN  words = [k \in DOMAIN all |-> removePunct(all[k])]
    BY DEF FileInv
  <2>1. PICK f \in [0 .. Len(text) -> Seq(Strings)], r \in Seq(Strings) : HasRead(f, r)
    BY DEF CounterIInv
  <2>2. feof /\ tokens = <<>> /\ line = Len(text)
    BY <1>1 DEF Buffered
  <2>3. Again = Surplus
    BY <2>2 DEF Again, Surplus
  <2>4. r \o <<>> = FlattenSeq(text) \o Surplus
    BY <2>1, <2>2, <2>3 DEF HasRead
  <2>5. r = FlattenSeq(text) \o Surplus /\ DOMAIN r = 1 .. Len(r)
    <3>1. r \o <<>> = r /\ DOMAIN r = 1 .. Len(r)
      OBVIOUS
    <3> QED BY <2>4, <3>1
  <2> QED BY <2>1, <2>5 DEF HasRead
<1> QED BY <1>4, <1>5 DEF CounterInv

\* Every word of the file, and the first of its last line once more, is counted in
\* one node, which the hash of the word finds, for any file and size of the table,
\* and the nodes that nothing points to are those made for a word that had one
\* (FrequencyCounter/main.c:40-42, 98-123).
THEOREM WordsCounted == CounterSpec => []CounterInv
<1>1. CounterInit => CounterIInv
  BY CounterAtFirst, CounterAssumption
<1>2. CounterIInv /\ [CounterNext]_counterVars => CounterIInv'
  BY ReadLineKept, CountTokenKept, CounterRest, CounterAssumption DEF CounterNext
<1>3. CounterIInv => CounterInv
  BY CounterMeans, CounterAssumption
<1> QED BY <1>1, <1>2, <1>3, PTL DEF CounterSpec

-----------------------------------------------------------------------------
(***************************************************************************)
(* The search trees.  A recursion over trees is a function on the trees of *)
(* so many levels, found level by level; induction over trees is TreeClimb.*)
(***************************************************************************)
TreesAre(f, n) == f = [k \in 0 .. n |-> {Leaf} \cup IF k = 0 THEN {} ELSE NodesOver(f[k - 1])]

LEMMA TreesLevel ==
    ASSUME TreeAssumption
    PROVE  /\ MaxLevels \in Nat /\ TreesUpto[0] = {Leaf}
           /\ \A n \in 1 .. MaxLevels : TreesUpto[n] = {Leaf} \cup NodesOver(TreesUpto[n - 1])
<1> DEFINE All == {n \in 0 .. MaxLevels : \E f : TreesAre(f, n)}
<1>1. MaxLevels \in Nat
  BY DEF TreeAssumption
<1>2. 0 \in All
  <2>1. TreesAre([k \in 0 .. 0 |-> {Leaf}], 0)
    BY DEF TreesAre
  <2> QED BY <1>1, <2>1
<1>3. ASSUME NEW n \in 1 .. MaxLevels, n - 1 \in All  PROVE n \in All
  <2>1. PICK f : TreesAre(f, n - 1)
    BY <1>3
  <2> HIDE DEF All
  <2>2. PICK g : g = [k \in 0 .. n |-> {Leaf} \cup IF k = 0 THEN {} ELSE NodesOver(f[k - 1])]
    OBVIOUS
  <2>3. \A k \in 0 .. n - 1 : g[k] = f[k]
    <3>1. \A k \in 0 .. n - 1 : f[k] = {Leaf} \cup IF k = 0 THEN {} ELSE NodesOver(f[k - 1])
      BY <2>1 DEF TreesAre
    <3>2. \A k \in 0 .. n - 1 : k \in 0 .. n
      BY <1>1
    <3> QED BY <2>2, <3>1, <3>2
  <2>4. \A k \in 0 .. n : IF k = 0 THEN TRUE ELSE g[k - 1] = f[k - 1]
    <3>1. \A k \in 0 .. n : k # 0 => k - 1 \in 0 .. n - 1
      BY <1>1
    <3> QED BY <2>3, <3>1
  <2>5. \A k \in 0 .. n : ({Leaf} \cup IF k = 0 THEN {} ELSE NodesOver(f[k - 1]))
                            = ({Leaf} \cup IF k = 0 THEN {} ELSE NodesOver(g[k - 1]))
    BY <2>4
  <2>6. TreesAre(g, n)
    BY <2>2, <2>5 DEF TreesAre
  <2>7. n \in 0 .. MaxLevels
    BY <1>1
  <2> QED BY <2>6, <2>7 DEF All
<1>4. \E f : TreesAre(f, MaxLevels)
  <2> HIDE DEF All
  <2>1. \A n \in 0 .. MaxLevels : n \in All
    BY <1>1, <1>2, <1>3, Climb
  <2>2. MaxLevels \in All
    BY <1>1, <2>1
  <2> QED BY <2>2 DEF All
<1>5. TreesAre(TreesUpto, MaxLevels)
  BY <1>4 DEF TreesUpto, TreesAre
<1>6. \A n \in 0 .. MaxLevels : TreesUpto[n] = {Leaf} \cup IF n = 0 THEN {} ELSE NodesOver(TreesUpto[n - 1])
  BY <1>5 DEF TreesAre
<1>7. 0 \in 0 .. MaxLevels /\ \A n \in 1 .. MaxLevels : n \in 0 .. MaxLevels /\ n # 0
  BY <1>1
<1> QED BY <1>1, <1>6, <1>7

LEMMA NodesMore ==
    ASSUME NEW S, NEW T, S \subseteq T  PROVE NodesOver(S) \subseteq NodesOver(T)
BY DEF NodesOver

LEMMA TreesGrow ==
    ASSUME TreeAssumption
    PROVE  /\ \A n \in 1 .. MaxLevels : TreesUpto[n - 1] \subseteq TreesUpto[n]
           /\ \A n \in 0 .. MaxLevels : \A m \in 0 .. n : TreesUpto[m] \subseteq TreesUpto[n]
           /\ \A n \in 0 .. MaxLevels : TreesUpto[n] \subseteq TreeSet /\ Leaf \in TreesUpto[n]
<1> DEFINE In == {n \in 0 .. MaxLevels : n > 0 => TreesUpto[n - 1] \subseteq TreesUpto[n]}
           Over == {n \in 0 .. MaxLevels : \A m \in 0 .. n : TreesUpto[m] \subseteq TreesUpto[n]}
<1>1. /\ MaxLevels \in Nat /\ TreesUpto[0] = {Leaf}
      /\ \A n \in 1 .. MaxLevels : TreesUpto[n] = {Leaf} \cup NodesOver(TreesUpto[n - 1])
  BY TreesLevel
<1>2. 0 \in In
  BY <1>1
<1>3. ASSUME NEW n \in 1 .. MaxLevels, n - 1 \in In  PROVE n \in In
  <2>1. n \in 0 .. MaxLevels /\ n - 1 \in 0 .. MaxLevels
    BY <1>1
  <2>2. CASE n - 1 = 0
    BY <1>1, <2>1, <2>2
  <2>3. CASE n - 1 # 0
    <3>1. n - 1 \in 1 .. MaxLevels /\ n - 1 > 0
      BY <1>1, <2>1, <2>3
    <3>2. TreesUpto[n - 1 - 1] \subseteq TreesUpto[n - 1]
      BY <1>3, <3>1
    <3> HIDE DEF In
    <3>3. TreesUpto[n - 1] \subseteq TreesUpto[n]
      BY <1>1, <3>1, <3>2, NodesMore
    <3> QED BY <2>1, <3>3 DEF In
  <2> QED BY <2>2, <2>3
<1>4. \A n \in 1 .. MaxLevels : TreesUpto[n - 1] \subseteq TreesUpto[n]
  <2> HIDE DEF In
  <2>1. \A n \in 0 .. MaxLevels : n \in In
    BY <1>1, <1>2, <1>3, Climb
  <2>2. \A n \in 1 .. MaxLevels : n \in 0 .. MaxLevels /\ n > 0
    BY <1>1
  <2> QED BY <2>1, <2>2 DEF In
<1>5. 0 \in Over
  <2>1. \A m \in 0 .. 0 : m = 0
    OBVIOUS
  <2> QED BY <1>1, <2>1
<1>6. ASSUME NEW n \in 1 .. MaxLevels, n - 1 \in Over  PROVE n \in Over
  <2>1. \A m \in 0 .. n : m = n \/ m \in 0 .. n - 1
    BY <1>1
  <2>2. n \in 0 .. MaxLevels
    BY <1>1
  <2> QED BY <1>4, <1>6, <2>1, <2>2
<1>7. \A n \in 0 .. MaxLevels : n \in Over
  <2> HIDE DEF Over
  <2> QED BY <1>1, <1>5, <1>6, Climb
<1>8. \A n \in 0 .. MaxLevels : MaxLevels \in 0 .. MaxLevels /\ n \in 0 .. MaxLevels /\ 0 \in 0 .. n
  BY <1>1
<1>9. \A n \in 0 .. MaxLevels : TreesUpto[n] \subseteq TreeSet /\ Leaf \in TreesUpto[n]
  BY <1>1, <1>7, <1>8 DEF TreeSet
<1> QED BY <1>4, <1>7, <1>9

\* A tree is a leaf or a node of two smaller ones.
LEMMA NodeIs ==
    ASSUME TreeAssumption, NEW n \in 0 .. MaxLevels, NEW t \in TreesUpto[n], t # Leaf
    PROVE  /\ n \in 1 .. MaxLevels /\ t \in NodesOver(TreesUpto[n - 1])
           /\ t.left \in TreesUpto[n - 1] /\ t.right \in TreesUpto[n - 1] /\ t.data \in Keys /\ t.height \in Nat
           /\ t = [data |-> t.data, height |-> t.height, left |-> t.left, right |-> t.right]
           /\ t.left \in TreeSet /\ t.right \in TreeSet /\ t \in TreeSet
<1>1. n \in 1 .. MaxLevels /\ n - 1 \in 0 .. MaxLevels
  <2>1. n # 0
    BY TreesLevel
  <2> QED BY <2>1, TreesLevel
<1>2. t \in NodesOver(TreesUpto[n - 1])
  BY <1>1, TreesLevel
<1>3. TreesUpto[n - 1] \subseteq TreeSet /\ TreesUpto[n] \subseteq TreeSet
  BY <1>1, TreesGrow
<1> QED BY <1>1, <1>2, <1>3 DEF NodesOver

LEMMA TreeClimb ==
    ASSUME TreeAssumption, NEW S, Leaf \in S,
           \A t \in TreeSet \ {Leaf} : t.left \in S /\ t.right \in S => t \in S
    PROVE  TreeSet \subseteq S
<1> DEFINE All == {n \in 0 .. MaxLevels : TreesUpto[n] \subseteq S}
<1>1. MaxLevels \in Nat /\ TreesUpto[0] = {Leaf}
  BY TreesLevel
<1>2. 0 \in All
  BY <1>1
<1>3. ASSUME NEW n \in 1 .. MaxLevels, n - 1 \in All  PROVE n \in All
  <2>1. n \in 0 .. MaxLevels
    BY <1>1
  <2>2. TreesUpto[n - 1] \subseteq S
    BY <1>3
  <2> HIDE DEF All
  <2>3. ASSUME NEW t \in TreesUpto[n]  PROVE t \in S
    <3>1. CASE t # Leaf
      <4>1. t.left \in TreesUpto[n - 1] /\ t.right \in TreesUpto[n - 1] /\ t \in TreeSet
        BY <2>1, <3>1, NodeIs
      <4> QED BY <2>2, <3>1, <4>1
    <3> QED BY <3>1
  <2> QED BY <2>1, <2>3 DEF All
<1>4. MaxLevels \in All
  <2> HIDE DEF All
  <2>1. \A n \in 0 .. MaxLevels : n \in All
    BY <1>1, <1>2, <1>3, Climb
  <2> QED BY <1>1, <2>1
<1> QED BY <1>4 DEF TreeSet

\* Each recursion is what its one step says.
LEMMA MinNodeIs ==
    ASSUME TreeAssumption
    PROVE  \A t \in TreeSet : min_node[t] = IF t = Leaf \/ t.left = Leaf THEN t ELSE min_node[t.left]
<1> DEFINE Body(f, t) ==
               IF t = Leaf \/ t.left = Leaf THEN t ELSE f[t.left]
           Def(f, n) == [t \in TreesUpto[n] |-> Body(f, t)]
           All == {n \in 0 .. MaxLevels : \E f : f = Def(f, n)}
           x == CHOOSE f : f = [t \in TreeSet |-> Body(f, t)]
<1>1. /\ MaxLevels \in Nat /\ TreesUpto[0] = {Leaf}
      /\ \A n \in 1 .. MaxLevels : TreesUpto[n - 1] \subseteq TreesUpto[n]
  BY TreesLevel, TreesGrow
<1>2. ASSUME NEW t, NEW f, NEW g, t # Leaf => f[t.left] = g[t.left] /\ f[t.right] = g[t.right]
      PROVE  Body(f, t) = Body(g, t)
  BY <1>2
<1> HIDE DEF Body
<1>3. 0 \in All
  <2>1. PICK f : f = [t \in TreesUpto[0] |-> Body(<<>>, t)]
    OBVIOUS
  <2>2. \A t \in TreesUpto[0] : Body(<<>>, t) = Body(f, t)
    BY <1>1, <1>2
  <2>3. f = Def(f, 0)
    BY <2>1, <2>2
  <2> HIDE DEF Def
  <2> QED BY <1>1, <2>3
<1>4. ASSUME NEW n \in 1 .. MaxLevels, n - 1 \in All  PROVE n \in All
  <2>1. PICK f : f = Def(f, n - 1)
    BY <1>4
  <2>2. PICK g : g = Def(f, n)
    OBVIOUS
  <2>3. n \in 0 .. MaxLevels /\ TreesUpto[n - 1] \subseteq TreesUpto[n]
    BY <1>1
  <2>4. \A t \in TreesUpto[n - 1] : g[t] = f[t]
    <3>1. \A t \in TreesUpto[n - 1] : f[t] = Body(f, t)
      BY <2>1
    <3>2. \A t \in TreesUpto[n] : g[t] = Body(f, t)
      BY <2>2
    <3> QED BY <2>3, <3>1, <3>2
  <2>5. \A t \in TreesUpto[n] : Body(f, t) = Body(g, t)
    <3>1. \A t \in TreesUpto[n] : t # Leaf => t.left \in TreesUpto[n - 1] /\ t.right \in TreesUpto[n - 1]
      BY <2>3, NodeIs
    <3> QED BY <1>2, <2>4, <3>1
  <2>6. g = Def(g, n)
    BY <2>2, <2>5
  <2> HIDE DEF Def
  <2> QED BY <2>3, <2>6
<1>5. \E f : f = [t \in TreeSet |-> Body(f, t)]
  <2>1. MaxLevels \in All
    <3> HIDE DEF All
    <3>1. \A n \in 0 .. MaxLevels : n \in All
      BY <1>1, <1>3, <1>4, Climb
    <3> QED BY <1>1, <3>1
  <2> QED BY <2>1 DEF TreeSet
<1>6. x = [t \in TreeSet |-> Body(x, t)]
  <2> HIDE DEF Def
  <2> QED BY <1>5
<1>7. \A t \in TreeSet : x[t] = Body(x, t)
  <2> HIDE DEF x
  <2> QED BY <1>6
<1>8. x = min_node
  BY DEF min_node, Body
<1> HIDE DEF x
<1> QED BY <1>7, <1>8 DEF Body

LEMMA BelowIs ==
    ASSUME TreeAssumption
    PROVE  /\ Below[Leaf] = {}
           /\ \A t \in TreeSet \ {Leaf} : Below[t] = {t} \cup Below[t.left] \cup Below[t.right]
<1> DEFINE Body(f, t) ==
               IF t = Leaf THEN {} ELSE {t} \cup f[t.left] \cup f[t.right]
           Def(f, n) == [t \in TreesUpto[n] |-> Body(f, t)]
           All == {n \in 0 .. MaxLevels : \E f : f = Def(f, n)}
           x == CHOOSE f : f = [t \in TreeSet |-> Body(f, t)]
<1>1. /\ MaxLevels \in Nat /\ TreesUpto[0] = {Leaf}
      /\ \A n \in 1 .. MaxLevels : TreesUpto[n - 1] \subseteq TreesUpto[n]
  BY TreesLevel, TreesGrow
<1>2. ASSUME NEW t, NEW f, NEW g, t # Leaf => f[t.left] = g[t.left] /\ f[t.right] = g[t.right]
      PROVE  Body(f, t) = Body(g, t)
  BY <1>2
<1> HIDE DEF Body
<1>3. 0 \in All
  <2>1. PICK f : f = [t \in TreesUpto[0] |-> Body(<<>>, t)]
    OBVIOUS
  <2>2. \A t \in TreesUpto[0] : Body(<<>>, t) = Body(f, t)
    BY <1>1, <1>2
  <2>3. f = Def(f, 0)
    BY <2>1, <2>2
  <2> HIDE DEF Def
  <2> QED BY <1>1, <2>3
<1>4. ASSUME NEW n \in 1 .. MaxLevels, n - 1 \in All  PROVE n \in All
  <2>1. PICK f : f = Def(f, n - 1)
    BY <1>4
  <2>2. PICK g : g = Def(f, n)
    OBVIOUS
  <2>3. n \in 0 .. MaxLevels /\ TreesUpto[n - 1] \subseteq TreesUpto[n]
    BY <1>1
  <2>4. \A t \in TreesUpto[n - 1] : g[t] = f[t]
    <3>1. \A t \in TreesUpto[n - 1] : f[t] = Body(f, t)
      BY <2>1
    <3>2. \A t \in TreesUpto[n] : g[t] = Body(f, t)
      BY <2>2
    <3> QED BY <2>3, <3>1, <3>2
  <2>5. \A t \in TreesUpto[n] : Body(f, t) = Body(g, t)
    <3>1. \A t \in TreesUpto[n] : t # Leaf => t.left \in TreesUpto[n - 1] /\ t.right \in TreesUpto[n - 1]
      BY <2>3, NodeIs
    <3> QED BY <1>2, <2>4, <3>1
  <2>6. g = Def(g, n)
    BY <2>2, <2>5
  <2> HIDE DEF Def
  <2> QED BY <2>3, <2>6
<1>5. \E f : f = [t \in TreeSet |-> Body(f, t)]
  <2>1. MaxLevels \in All
    <3> HIDE DEF All
    <3>1. \A n \in 0 .. MaxLevels : n \in All
      BY <1>1, <1>3, <1>4, Climb
    <3> QED BY <1>1, <3>1
  <2> QED BY <2>1 DEF TreeSet
<1>6. x = [t \in TreeSet |-> Body(x, t)]
  <2> HIDE DEF Def
  <2> QED BY <1>5
<1>7. \A t \in TreeSet : x[t] = Body(x, t)
  <2> HIDE DEF x
  <2> QED BY <1>6
<1>8. x = Below
  BY DEF Below, Body
<1>9. Leaf \in TreeSet
  BY <1>1, TreesGrow
<1> HIDE DEF x
<1> QED BY <1>7, <1>8, <1>9 DEF Body

LEMMA MaxDepthIs ==
    ASSUME TreeAssumption
    PROVE  /\ MaxDepth[Leaf] = 0
           /\ \A t \in TreeSet \ {Leaf} : MaxDepth[t] = max(MaxDepth[t.left], MaxDepth[t.right]) + 1
<1> DEFINE Body(f, t) ==
               IF t = Leaf THEN 0 ELSE max(f[t.left], f[t.right]) + 1
           Def(f, n) == [t \in TreesUpto[n] |-> Body(f, t)]
           All == {n \in 0 .. MaxLevels : \E f : f = Def(f, n)}
           x == CHOOSE f : f = [t \in TreeSet |-> Body(f, t)]
<1>1. /\ MaxLevels \in Nat /\ TreesUpto[0] = {Leaf}
      /\ \A n \in 1 .. MaxLevels : TreesUpto[n - 1] \subseteq TreesUpto[n]
  BY TreesLevel, TreesGrow
<1>2. ASSUME NEW t, NEW f, NEW g, t # Leaf => f[t.left] = g[t.left] /\ f[t.right] = g[t.right]
      PROVE  Body(f, t) = Body(g, t)
  BY <1>2
<1> HIDE DEF Body
<1>3. 0 \in All
  <2>1. PICK f : f = [t \in TreesUpto[0] |-> Body(<<>>, t)]
    OBVIOUS
  <2>2. \A t \in TreesUpto[0] : Body(<<>>, t) = Body(f, t)
    BY <1>1, <1>2
  <2>3. f = Def(f, 0)
    BY <2>1, <2>2
  <2> HIDE DEF Def
  <2> QED BY <1>1, <2>3
<1>4. ASSUME NEW n \in 1 .. MaxLevels, n - 1 \in All  PROVE n \in All
  <2>1. PICK f : f = Def(f, n - 1)
    BY <1>4
  <2>2. PICK g : g = Def(f, n)
    OBVIOUS
  <2>3. n \in 0 .. MaxLevels /\ TreesUpto[n - 1] \subseteq TreesUpto[n]
    BY <1>1
  <2>4. \A t \in TreesUpto[n - 1] : g[t] = f[t]
    <3>1. \A t \in TreesUpto[n - 1] : f[t] = Body(f, t)
      BY <2>1
    <3>2. \A t \in TreesUpto[n] : g[t] = Body(f, t)
      BY <2>2
    <3> QED BY <2>3, <3>1, <3>2
  <2>5. \A t \in TreesUpto[n] : Body(f, t) = Body(g, t)
    <3>1. \A t \in TreesUpto[n] : t # Leaf => t.left \in TreesUpto[n - 1] /\ t.right \in TreesUpto[n - 1]
      BY <2>3, NodeIs
    <3> QED BY <1>2, <2>4, <3>1
  <2>6. g = Def(g, n)
    BY <2>2, <2>5
  <2> HIDE DEF Def
  <2> QED BY <2>3, <2>6
<1>5. \E f : f = [t \in TreeSet |-> Body(f, t)]
  <2>1. MaxLevels \in All
    <3> HIDE DEF All
    <3>1. \A n \in 0 .. MaxLevels : n \in All
      BY <1>1, <1>3, <1>4, Climb
    <3> QED BY <1>1, <3>1
  <2> QED BY <2>1 DEF TreeSet
<1>6. x = [t \in TreeSet |-> Body(x, t)]
  <2> HIDE DEF Def
  <2> QED BY <1>5
<1>7. \A t \in TreeSet : x[t] = Body(x, t)
  <2> HIDE DEF x
  <2> QED BY <1>6
<1>8. x = MaxDepth
  BY DEF MaxDepth, Body
<1>9. Leaf \in TreeSet
  BY <1>1, TreesGrow
<1> HIDE DEF x
<1> QED BY <1>7, <1>8, <1>9 DEF Body

LEMMA SizeIs ==
    ASSUME TreeAssumption
    PROVE  /\ Size[Leaf] = 0
           /\ \A t \in TreeSet \ {Leaf} : Size[t] = Size[t.left] + 1 + Size[t.right]
<1> DEFINE Body(f, t) ==
               IF t = Leaf THEN 0 ELSE f[t.left] + 1 + f[t.right]
           Def(f, n) == [t \in TreesUpto[n] |-> Body(f, t)]
           All == {n \in 0 .. MaxLevels : \E f : f = Def(f, n)}
           x == CHOOSE f : f = [t \in TreeSet |-> Body(f, t)]
<1>1. /\ MaxLevels \in Nat /\ TreesUpto[0] = {Leaf}
      /\ \A n \in 1 .. MaxLevels : TreesUpto[n - 1] \subseteq TreesUpto[n]
  BY TreesLevel, TreesGrow
<1>2. ASSUME NEW t, NEW f, NEW g, t # Leaf => f[t.left] = g[t.left] /\ f[t.right] = g[t.right]
      PROVE  Body(f, t) = Body(g, t)
  BY <1>2
<1> HIDE DEF Body
<1>3. 0 \in All
  <2>1. PICK f : f = [t \in TreesUpto[0] |-> Body(<<>>, t)]
    OBVIOUS
  <2>2. \A t \in TreesUpto[0] : Body(<<>>, t) = Body(f, t)
    BY <1>1, <1>2
  <2>3. f = Def(f, 0)
    BY <2>1, <2>2
  <2> HIDE DEF Def
  <2> QED BY <1>1, <2>3
<1>4. ASSUME NEW n \in 1 .. MaxLevels, n - 1 \in All  PROVE n \in All
  <2>1. PICK f : f = Def(f, n - 1)
    BY <1>4
  <2>2. PICK g : g = Def(f, n)
    OBVIOUS
  <2>3. n \in 0 .. MaxLevels /\ TreesUpto[n - 1] \subseteq TreesUpto[n]
    BY <1>1
  <2>4. \A t \in TreesUpto[n - 1] : g[t] = f[t]
    <3>1. \A t \in TreesUpto[n - 1] : f[t] = Body(f, t)
      BY <2>1
    <3>2. \A t \in TreesUpto[n] : g[t] = Body(f, t)
      BY <2>2
    <3> QED BY <2>3, <3>1, <3>2
  <2>5. \A t \in TreesUpto[n] : Body(f, t) = Body(g, t)
    <3>1. \A t \in TreesUpto[n] : t # Leaf => t.left \in TreesUpto[n - 1] /\ t.right \in TreesUpto[n - 1]
      BY <2>3, NodeIs
    <3> QED BY <1>2, <2>4, <3>1
  <2>6. g = Def(g, n)
    BY <2>2, <2>5
  <2> HIDE DEF Def
  <2> QED BY <2>3, <2>6
<1>5. \E f : f = [t \in TreeSet |-> Body(f, t)]
  <2>1. MaxLevels \in All
    <3> HIDE DEF All
    <3>1. \A n \in 0 .. MaxLevels : n \in All
      BY <1>1, <1>3, <1>4, Climb
    <3> QED BY <1>1, <3>1
  <2> QED BY <2>1 DEF TreeSet
<1>6. x = [t \in TreeSet |-> Body(x, t)]
  <2> HIDE DEF Def
  <2> QED BY <1>5
<1>7. \A t \in TreeSet : x[t] = Body(x, t)
  <2> HIDE DEF x
  <2> QED BY <1>6
<1>8. x = Size
  BY DEF Size, Body
<1>9. Leaf \in TreeSet
  BY <1>1, TreesGrow
<1> HIDE DEF x
<1> QED BY <1>7, <1>8, <1>9 DEF Body

LEMMA InorderIs ==
    ASSUME TreeAssumption
    PROVE  /\ inorder[Leaf] = <<>>
           /\ \A t \in TreeSet \ {Leaf} : inorder[t] = inorder[t.left] \o <<t.data>> \o inorder[t.right]
<1> DEFINE Body(f, t) ==
               IF t = Leaf THEN <<>> ELSE f[t.left] \o <<t.data>> \o f[t.right]
           Def(f, n) == [t \in TreesUpto[n] |-> Body(f, t)]
           All == {n \in 0 .. MaxLevels : \E f : f = Def(f, n)}
           x == CHOOSE f : f = [t \in TreeSet |-> Body(f, t)]
<1>1. /\ MaxLevels \in Nat /\ TreesUpto[0] = {Leaf}
      /\ \A n \in 1 .. MaxLevels : TreesUpto[n - 1] \subseteq TreesUpto[n]
  BY TreesLevel, TreesGrow
<1>2. ASSUME NEW t, NEW f, NEW g, t # Leaf => f[t.left] = g[t.left] /\ f[t.right] = g[t.right]
      PROVE  Body(f, t) = Body(g, t)
  BY <1>2
<1> HIDE DEF Body
<1>3. 0 \in All
  <2>1. PICK f : f = [t \in TreesUpto[0] |-> Body(<<>>, t)]
    OBVIOUS
  <2>2. \A t \in TreesUpto[0] : Body(<<>>, t) = Body(f, t)
    BY <1>1, <1>2
  <2>3. f = Def(f, 0)
    BY <2>1, <2>2
  <2> HIDE DEF Def
  <2> QED BY <1>1, <2>3
<1>4. ASSUME NEW n \in 1 .. MaxLevels, n - 1 \in All  PROVE n \in All
  <2>1. PICK f : f = Def(f, n - 1)
    BY <1>4
  <2>2. PICK g : g = Def(f, n)
    OBVIOUS
  <2>3. n \in 0 .. MaxLevels /\ TreesUpto[n - 1] \subseteq TreesUpto[n]
    BY <1>1
  <2>4. \A t \in TreesUpto[n - 1] : g[t] = f[t]
    <3>1. \A t \in TreesUpto[n - 1] : f[t] = Body(f, t)
      BY <2>1
    <3>2. \A t \in TreesUpto[n] : g[t] = Body(f, t)
      BY <2>2
    <3> QED BY <2>3, <3>1, <3>2
  <2>5. \A t \in TreesUpto[n] : Body(f, t) = Body(g, t)
    <3>1. \A t \in TreesUpto[n] : t # Leaf => t.left \in TreesUpto[n - 1] /\ t.right \in TreesUpto[n - 1]
      BY <2>3, NodeIs
    <3> QED BY <1>2, <2>4, <3>1
  <2>6. g = Def(g, n)
    BY <2>2, <2>5
  <2> HIDE DEF Def
  <2> QED BY <2>3, <2>6
<1>5. \E f : f = [t \in TreeSet |-> Body(f, t)]
  <2>1. MaxLevels \in All
    <3> HIDE DEF All
    <3>1. \A n \in 0 .. MaxLevels : n \in All
      BY <1>1, <1>3, <1>4, Climb
    <3> QED BY <1>1, <3>1
  <2> QED BY <2>1 DEF TreeSet
<1>6. x = [t \in TreeSet |-> Body(x, t)]
  <2> HIDE DEF Def
  <2> QED BY <1>5
<1>7. \A t \in TreeSet : x[t] = Body(x, t)
  <2> HIDE DEF x
  <2> QED BY <1>6
<1>8. x = inorder
  BY DEF inorder, Body
<1>9. Leaf \in TreeSet
  BY <1>1, TreesGrow
<1> HIDE DEF x
<1> QED BY <1>7, <1>8, <1>9 DEF Body

LEMMA AvlInsertIs ==
    ASSUME TreeAssumption, NEW d \in Keys
    PROVE  \A t \in TreeSet :
              /\ t = Leaf => avl_insert(t, d) = AvlNode(d)
              /\ t # Leaf /\ d = t.data => avl_insert(t, d) = t
              /\ t # Leaf /\ d < t.data =>
                   avl_insert(t, d) = InsertBalanced(Updated(WithLeft(t, avl_insert(t.left, d))), d)
              /\ t # Leaf /\ d > t.data =>
                   avl_insert(t, d) = InsertBalanced(Updated(WithRight(t, avl_insert(t.right, d))), d)
<1> DEFINE Body(f, t) ==
               IF t = Leaf THEN AvlNode(d)
               ELSE IF d < t.data THEN InsertBalanced(Updated(WithLeft(t, f[t.left])), d)
               ELSE IF d > t.data THEN InsertBalanced(Updated(WithRight(t, f[t.right])), d)
               ELSE t
           Def(f, n) == [t \in TreesUpto[n] |-> Body(f, t)]
           All == {n \in 0 .. MaxLevels : \E f : f = Def(f, n)}
           x == CHOOSE f : f = [t \in TreeSet |-> Body(f, t)]
<1>1. /\ MaxLevels \in Nat /\ TreesUpto[0] = {Leaf}
      /\ \A n \in 1 .. MaxLevels : TreesUpto[n - 1] \subseteq TreesUpto[n]
  BY TreesLevel, TreesGrow
<1>2. ASSUME NEW t, NEW f, NEW g, t # Leaf => f[t.left] = g[t.left] /\ f[t.right] = g[t.right]
      PROVE  Body(f, t) = Body(g, t)
  BY <1>2
<1> HIDE DEF Body
<1>3. 0 \in All
  <2>1. PICK f : f = [t \in TreesUpto[0] |-> Body(<<>>, t)]
    OBVIOUS
  <2>2. \A t \in TreesUpto[0] : Body(<<>>, t) = Body(f, t)
    BY <1>1, <1>2
  <2>3. f = Def(f, 0)
    BY <2>1, <2>2
  <2> HIDE DEF Def
  <2> QED BY <1>1, <2>3
<1>4. ASSUME NEW n \in 1 .. MaxLevels, n - 1 \in All  PROVE n \in All
  <2>1. PICK f : f = Def(f, n - 1)
    BY <1>4
  <2>2. PICK g : g = Def(f, n)
    OBVIOUS
  <2>3. n \in 0 .. MaxLevels /\ TreesUpto[n - 1] \subseteq TreesUpto[n]
    BY <1>1
  <2>4. \A t \in TreesUpto[n - 1] : g[t] = f[t]
    <3>1. \A t \in TreesUpto[n - 1] : f[t] = Body(f, t)
      BY <2>1
    <3>2. \A t \in TreesUpto[n] : g[t] = Body(f, t)
      BY <2>2
    <3> QED BY <2>3, <3>1, <3>2
  <2>5. \A t \in TreesUpto[n] : Body(f, t) = Body(g, t)
    <3>1. \A t \in TreesUpto[n] : t # Leaf => t.left \in TreesUpto[n - 1] /\ t.right \in TreesUpto[n - 1]
      BY <2>3, NodeIs
    <3> QED BY <1>2, <2>4, <3>1
  <2>6. g = Def(g, n)
    BY <2>2, <2>5
  <2> HIDE DEF Def
  <2> QED BY <2>3, <2>6
<1>5. \E f : f = [t \in TreeSet |-> Body(f, t)]
  <2>1. MaxLevels \in All
    <3> HIDE DEF All
    <3>1. \A n \in 0 .. MaxLevels : n \in All
      BY <1>1, <1>3, <1>4, Climb
    <3> QED BY <1>1, <3>1
  <2> QED BY <2>1 DEF TreeSet
<1>6. x = [t \in TreeSet |-> Body(x, t)]
  <2> HIDE DEF Def
  <2> QED BY <1>5
<1>7. \A t \in TreeSet : x[t] = Body(x, t)
  <2> HIDE DEF x
  <2> QED BY <1>6
<1>8. \A t \in TreeSet : x[t] = avl_insert(t, d)
  BY DEF avl_insert, Body
<1>9. d \in Int /\ \A t \in TreeSet : t # Leaf => t.data \in Int /\ t.left \in TreeSet /\ t.right \in TreeSet
  <2>1. MaxLevels \in 0 .. MaxLevels
    BY <1>1
  <2>2. \A t \in TreeSet : t # Leaf => t.data \in Keys /\ t.left \in TreeSet /\ t.right \in TreeSet
    BY <2>1, NodeIs DEF TreeSet
  <2> QED BY <2>2 DEF TreeAssumption
<1> HIDE DEF x
<1> SUFFICES ASSUME NEW t \in TreeSet
             PROVE  /\ t = Leaf => avl_insert(t, d) = AvlNode(d)
                    /\ t # Leaf /\ d = t.data => avl_insert(t, d) = t
                    /\ t # Leaf /\ d < t.data =>
                         avl_insert(t, d) = InsertBalanced(Updated(WithLeft(t, avl_insert(t.left, d))), d)
                    /\ t # Leaf /\ d > t.data =>
                         avl_insert(t, d) = InsertBalanced(Updated(WithRight(t, avl_insert(t.right, d))), d)
  OBVIOUS
<1>10. x[t] = avl_insert(t, d) /\ x[t] = Body(x, t)
  BY <1>7, <1>8
<1>11. CASE t = Leaf
  BY <1>10, <1>11 DEF Body
<1>12. CASE t # Leaf
  <2>1. x[t.left] = avl_insert(t.left, d) /\ x[t.right] = avl_insert(t.right, d)
    BY <1>8, <1>9, <1>12
  <2>2. d \in Int /\ t.data \in Int
    BY <1>9, <1>12
  <2> QED BY <1>10, <1>12, <2>1, <2>2 DEF Body
<1> QED BY <1>11, <1>12

LEMMA AvlDeleteIs ==
    ASSUME TreeAssumption, NEW d \in Keys
    PROVE  \A t \in TreeSet :
              /\ t = Leaf => avl_delete(t, d) = Leaf
              /\ t # Leaf /\ d = t.data /\ t.left = Leaf => avl_delete(t, d) = t.right
              /\ t # Leaf /\ d = t.data /\ t.left # Leaf /\ t.right = Leaf => avl_delete(t, d) = t.left
              /\ t # Leaf /\ d < t.data =>
                   avl_delete(t, d) = DeleteBalanced(Updated(WithLeft(t, avl_delete(t.left, d))))
              /\ t # Leaf /\ d > t.data =>
                   avl_delete(t, d) = DeleteBalanced(Updated(WithRight(t, avl_delete(t.right, d))))
              /\ t # Leaf /\ d = t.data /\ t.left # Leaf /\ t.right # Leaf =>
                   avl_delete(t, d) = DeleteBalanced(Updated(WithRight(WithData(t, min_node[t.right].data), avl_delete(t.right, d))))
<1> DEFINE Body(f, t) ==
               IF t = Leaf THEN Leaf
               ELSE IF d = t.data /\ t.left = Leaf  THEN t.right
               ELSE IF d = t.data /\ t.right = Leaf THEN t.left
               ELSE DeleteBalanced(Updated(
                    IF d < t.data THEN WithLeft(t, f[t.left])
                    ELSE IF d > t.data THEN WithRight(t, f[t.right])
                    ELSE WithRight(WithData(t, min_node[t.right].data), f[t.right])))
           Def(f, n) == [t \in TreesUpto[n] |-> Body(f, t)]
           All == {n \in 0 .. MaxLevels : \E f : f = Def(f, n)}
           x == CHOOSE f : f = [t \in TreeSet |-> Body(f, t)]
<1>1. /\ MaxLevels \in Nat /\ TreesUpto[0] = {Leaf}
      /\ \A n \in 1 .. MaxLevels : TreesUpto[n - 1] \subseteq TreesUpto[n]
  BY TreesLevel, TreesGrow
<1>2. ASSUME NEW t, NEW f, NEW g, t # Leaf => f[t.left] = g[t.left] /\ f[t.right] = g[t.right]
      PROVE  Body(f, t) = Body(g, t)
  BY <1>2
<1> HIDE DEF Body
<1>3. 0 \in All
  <2>1. PICK f : f = [t \in TreesUpto[0] |-> Body(<<>>, t)]
    OBVIOUS
  <2>2. \A t \in TreesUpto[0] : Body(<<>>, t) = Body(f, t)
    BY <1>1, <1>2
  <2>3. f = Def(f, 0)
    BY <2>1, <2>2
  <2> HIDE DEF Def
  <2> QED BY <1>1, <2>3
<1>4. ASSUME NEW n \in 1 .. MaxLevels, n - 1 \in All  PROVE n \in All
  <2>1. PICK f : f = Def(f, n - 1)
    BY <1>4
  <2>2. PICK g : g = Def(f, n)
    OBVIOUS
  <2>3. n \in 0 .. MaxLevels /\ TreesUpto[n - 1] \subseteq TreesUpto[n]
    BY <1>1
  <2>4. \A t \in TreesUpto[n - 1] : g[t] = f[t]
    <3>1. \A t \in TreesUpto[n - 1] : f[t] = Body(f, t)
      BY <2>1
    <3>2. \A t \in TreesUpto[n] : g[t] = Body(f, t)
      BY <2>2
    <3> QED BY <2>3, <3>1, <3>2
  <2>5. \A t \in TreesUpto[n] : Body(f, t) = Body(g, t)
    <3>1. \A t \in TreesUpto[n] : t # Leaf => t.left \in TreesUpto[n - 1] /\ t.right \in TreesUpto[n - 1]
      BY <2>3, NodeIs
    <3> QED BY <1>2, <2>4, <3>1
  <2>6. g = Def(g, n)
    BY <2>2, <2>5
  <2> HIDE DEF Def
  <2> QED BY <2>3, <2>6
<1>5. \E f : f = [t \in TreeSet |-> Body(f, t)]
  <2>1. MaxLevels \in All
    <3> HIDE DEF All
    <3>1. \A n \in 0 .. MaxLevels : n \in All
      BY <1>1, <1>3, <1>4, Climb
    <3> QED BY <1>1, <3>1
  <2> QED BY <2>1 DEF TreeSet
<1>6. x = [t \in TreeSet |-> Body(x, t)]
  <2> HIDE DEF Def
  <2> QED BY <1>5
<1>7. \A t \in TreeSet : x[t] = Body(x, t)
  <2> HIDE DEF x
  <2> QED BY <1>6
<1>8. \A t \in TreeSet : x[t] = avl_delete(t, d)
  BY DEF avl_delete, Body
<1>9. d \in Int /\ \A t \in TreeSet : t # Leaf => t.data \in Int /\ t.left \in TreeSet /\ t.right \in TreeSet
  <2>1. MaxLevels \in 0 .. MaxLevels
    BY <1>1
  <2>2. \A t \in TreeSet : t # Leaf => t.data \in Keys /\ t.left \in TreeSet /\ t.right \in TreeSet
    BY <2>1, NodeIs DEF TreeSet
  <2> QED BY <2>2 DEF TreeAssumption
<1> HIDE DEF x
<1> SUFFICES ASSUME NEW t \in TreeSet
             PROVE  /\ t = Leaf => avl_delete(t, d) = Leaf
                    /\ t # Leaf /\ d = t.data /\ t.left = Leaf => avl_delete(t, d) = t.right
                    /\ t # Leaf /\ d = t.data /\ t.left # Leaf /\ t.right = Leaf => avl_delete(t, d) = t.left
                    /\ t # Leaf /\ d < t.data =>
                         avl_delete(t, d) = DeleteBalanced(Updated(WithLeft(t, avl_delete(t.left, d))))
                    /\ t # Leaf /\ d > t.data =>
                         avl_delete(t, d) = DeleteBalanced(Updated(WithRight(t, avl_delete(t.right, d))))
                    /\ t # Leaf /\ d = t.data /\ t.left # Leaf /\ t.right # Leaf =>
                         avl_delete(t, d) = DeleteBalanced(Updated(WithRight(WithData(t, min_node[t.right].data), avl_delete(t.right, d))))
  OBVIOUS
<1>10. x[t] = avl_delete(t, d) /\ x[t] = Body(x, t)
  BY <1>7, <1>8
<1>11. CASE t = Leaf
  BY <1>10, <1>11 DEF Body
<1>12. CASE t # Leaf
  <2>1. x[t.left] = avl_delete(t.left, d) /\ x[t.right] = avl_delete(t.right, d)
    BY <1>8, <1>9, <1>12
  <2>2. d \in Int /\ t.data \in Int
    BY <1>9, <1>12
  <2> QED BY <1>10, <1>12, <2>1, <2>2 DEF Body
<1> QED BY <1>11, <1>12

LEMMA BstInsertIs ==
    ASSUME TreeAssumption, NEW d \in Keys
    PROVE  \A t \in TreeSet :
              /\ t = Leaf => bst_insert(t, d) = Node(d)
              /\ t # Leaf /\ d = t.data => bst_insert(t, d) = t
              /\ t # Leaf /\ d < t.data => bst_insert(t, d) = WithLeft(t, bst_insert(t.left, d))
              /\ t # Leaf /\ d > t.data => bst_insert(t, d) = WithRight(t, bst_insert(t.right, d))
<1> DEFINE Body(f, t) ==
               IF t = Leaf THEN Node(d)
               ELSE IF d < t.data THEN WithLeft(t, f[t.left])
               ELSE IF d > t.data THEN WithRight(t, f[t.right])
               ELSE t
           Def(f, n) == [t \in TreesUpto[n] |-> Body(f, t)]
           All == {n \in 0 .. MaxLevels : \E f : f = Def(f, n)}
           x == CHOOSE f : f = [t \in TreeSet |-> Body(f, t)]
<1>1. /\ MaxLevels \in Nat /\ TreesUpto[0] = {Leaf}
      /\ \A n \in 1 .. MaxLevels : TreesUpto[n - 1] \subseteq TreesUpto[n]
  BY TreesLevel, TreesGrow
<1>2. ASSUME NEW t, NEW f, NEW g, t # Leaf => f[t.left] = g[t.left] /\ f[t.right] = g[t.right]
      PROVE  Body(f, t) = Body(g, t)
  BY <1>2
<1> HIDE DEF Body
<1>3. 0 \in All
  <2>1. PICK f : f = [t \in TreesUpto[0] |-> Body(<<>>, t)]
    OBVIOUS
  <2>2. \A t \in TreesUpto[0] : Body(<<>>, t) = Body(f, t)
    BY <1>1, <1>2
  <2>3. f = Def(f, 0)
    BY <2>1, <2>2
  <2> HIDE DEF Def
  <2> QED BY <1>1, <2>3
<1>4. ASSUME NEW n \in 1 .. MaxLevels, n - 1 \in All  PROVE n \in All
  <2>1. PICK f : f = Def(f, n - 1)
    BY <1>4
  <2>2. PICK g : g = Def(f, n)
    OBVIOUS
  <2>3. n \in 0 .. MaxLevels /\ TreesUpto[n - 1] \subseteq TreesUpto[n]
    BY <1>1
  <2>4. \A t \in TreesUpto[n - 1] : g[t] = f[t]
    <3>1. \A t \in TreesUpto[n - 1] : f[t] = Body(f, t)
      BY <2>1
    <3>2. \A t \in TreesUpto[n] : g[t] = Body(f, t)
      BY <2>2
    <3> QED BY <2>3, <3>1, <3>2
  <2>5. \A t \in TreesUpto[n] : Body(f, t) = Body(g, t)
    <3>1. \A t \in TreesUpto[n] : t # Leaf => t.left \in TreesUpto[n - 1] /\ t.right \in TreesUpto[n - 1]
      BY <2>3, NodeIs
    <3> QED BY <1>2, <2>4, <3>1
  <2>6. g = Def(g, n)
    BY <2>2, <2>5
  <2> HIDE DEF Def
  <2> QED BY <2>3, <2>6
<1>5. \E f : f = [t \in TreeSet |-> Body(f, t)]
  <2>1. MaxLevels \in All
    <3> HIDE DEF All
    <3>1. \A n \in 0 .. MaxLevels : n \in All
      BY <1>1, <1>3, <1>4, Climb
    <3> QED BY <1>1, <3>1
  <2> QED BY <2>1 DEF TreeSet
<1>6. x = [t \in TreeSet |-> Body(x, t)]
  <2> HIDE DEF Def
  <2> QED BY <1>5
<1>7. \A t \in TreeSet : x[t] = Body(x, t)
  <2> HIDE DEF x
  <2> QED BY <1>6
<1>8. \A t \in TreeSet : x[t] = bst_insert(t, d)
  BY DEF bst_insert, Body
<1>9. d \in Int /\ \A t \in TreeSet : t # Leaf => t.data \in Int /\ t.left \in TreeSet /\ t.right \in TreeSet
  <2>1. MaxLevels \in 0 .. MaxLevels
    BY <1>1
  <2>2. \A t \in TreeSet : t # Leaf => t.data \in Keys /\ t.left \in TreeSet /\ t.right \in TreeSet
    BY <2>1, NodeIs DEF TreeSet
  <2> QED BY <2>2 DEF TreeAssumption
<1> HIDE DEF x
<1> SUFFICES ASSUME NEW t \in TreeSet
             PROVE  /\ t = Leaf => bst_insert(t, d) = Node(d)
                    /\ t # Leaf /\ d = t.data => bst_insert(t, d) = t
                    /\ t # Leaf /\ d < t.data => bst_insert(t, d) = WithLeft(t, bst_insert(t.left, d))
                    /\ t # Leaf /\ d > t.data => bst_insert(t, d) = WithRight(t, bst_insert(t.right, d))
  OBVIOUS
<1>10. x[t] = bst_insert(t, d) /\ x[t] = Body(x, t)
  BY <1>7, <1>8
<1>11. CASE t = Leaf
  BY <1>10, <1>11 DEF Body
<1>12. CASE t # Leaf
  <2>1. x[t.left] = bst_insert(t.left, d) /\ x[t.right] = bst_insert(t.right, d)
    BY <1>8, <1>9, <1>12
  <2>2. d \in Int /\ t.data \in Int
    BY <1>9, <1>12
  <2> QED BY <1>10, <1>12, <2>1, <2>2 DEF Body
<1> QED BY <1>11, <1>12

LEMMA BstFindIs ==
    ASSUME TreeAssumption, NEW k \in Keys
    PROVE  \A t \in TreeSet :
              /\ t = Leaf \/ t.data = k => bst_find(t, k) = t
              /\ t # Leaf /\ k < t.data => bst_find(t, k) = bst_find(t.left, k)
              /\ t # Leaf /\ k > t.data => bst_find(t, k) = bst_find(t.right, k)
<1> DEFINE Body(f, t) ==
               IF t = Leaf \/ t.data = k THEN t
               ELSE f[IF k < t.data THEN t.left ELSE t.right]
           Def(f, n) == [t \in TreesUpto[n] |-> Body(f, t)]
           All == {n \in 0 .. MaxLevels : \E f : f = Def(f, n)}
           x == CHOOSE f : f = [t \in TreeSet |-> Body(f, t)]
<1>1. /\ MaxLevels \in Nat /\ TreesUpto[0] = {Leaf}
      /\ \A n \in 1 .. MaxLevels : TreesUpto[n - 1] \subseteq TreesUpto[n]
  BY TreesLevel, TreesGrow
<1>2. ASSUME NEW t, NEW f, NEW g, t # Leaf => f[t.left] = g[t.left] /\ f[t.right] = g[t.right]
      PROVE  Body(f, t) = Body(g, t)
  BY <1>2
<1> HIDE DEF Body
<1>3. 0 \in All
  <2>1. PICK f : f = [t \in TreesUpto[0] |-> Body(<<>>, t)]
    OBVIOUS
  <2>2. \A t \in TreesUpto[0] : Body(<<>>, t) = Body(f, t)
    BY <1>1, <1>2
  <2>3. f = Def(f, 0)
    BY <2>1, <2>2
  <2> HIDE DEF Def
  <2> QED BY <1>1, <2>3
<1>4. ASSUME NEW n \in 1 .. MaxLevels, n - 1 \in All  PROVE n \in All
  <2>1. PICK f : f = Def(f, n - 1)
    BY <1>4
  <2>2. PICK g : g = Def(f, n)
    OBVIOUS
  <2>3. n \in 0 .. MaxLevels /\ TreesUpto[n - 1] \subseteq TreesUpto[n]
    BY <1>1
  <2>4. \A t \in TreesUpto[n - 1] : g[t] = f[t]
    <3>1. \A t \in TreesUpto[n - 1] : f[t] = Body(f, t)
      BY <2>1
    <3>2. \A t \in TreesUpto[n] : g[t] = Body(f, t)
      BY <2>2
    <3> QED BY <2>3, <3>1, <3>2
  <2>5. \A t \in TreesUpto[n] : Body(f, t) = Body(g, t)
    <3>1. \A t \in TreesUpto[n] : t # Leaf => t.left \in TreesUpto[n - 1] /\ t.right \in TreesUpto[n - 1]
      BY <2>3, NodeIs
    <3> QED BY <1>2, <2>4, <3>1
  <2>6. g = Def(g, n)
    BY <2>2, <2>5
  <2> HIDE DEF Def
  <2> QED BY <2>3, <2>6
<1>5. \E f : f = [t \in TreeSet |-> Body(f, t)]
  <2>1. MaxLevels \in All
    <3> HIDE DEF All
    <3>1. \A n \in 0 .. MaxLevels : n \in All
      BY <1>1, <1>3, <1>4, Climb
    <3> QED BY <1>1, <3>1
  <2> QED BY <2>1 DEF TreeSet
<1>6. x = [t \in TreeSet |-> Body(x, t)]
  <2> HIDE DEF Def
  <2> QED BY <1>5
<1>7. \A t \in TreeSet : x[t] = Body(x, t)
  <2> HIDE DEF x
  <2> QED BY <1>6
<1>8. \A t \in TreeSet : x[t] = bst_find(t, k)
  BY DEF bst_find, Body
<1>9. k \in Int /\ \A t \in TreeSet : t # Leaf => t.data \in Int /\ t.left \in TreeSet /\ t.right \in TreeSet
  <2>1. MaxLevels \in 0 .. MaxLevels
    BY <1>1
  <2>2. \A t \in TreeSet : t # Leaf => t.data \in Keys /\ t.left \in TreeSet /\ t.right \in TreeSet
    BY <2>1, NodeIs DEF TreeSet
  <2> QED BY <2>2 DEF TreeAssumption
<1> HIDE DEF x
<1> SUFFICES ASSUME NEW t \in TreeSet
             PROVE  /\ t = Leaf \/ t.data = k => bst_find(t, k) = t
                    /\ t # Leaf /\ k < t.data => bst_find(t, k) = bst_find(t.left, k)
                    /\ t # Leaf /\ k > t.data => bst_find(t, k) = bst_find(t.right, k)
  OBVIOUS
<1>10. x[t] = bst_find(t, k) /\ x[t] = Body(x, t)
  BY <1>7, <1>8
<1>11. CASE t = Leaf
  BY <1>10, <1>11 DEF Body
<1>12. CASE t # Leaf
  <2>1. x[t.left] = bst_find(t.left, k) /\ x[t.right] = bst_find(t.right, k)
    BY <1>8, <1>9, <1>12
  <2>2. k \in Int /\ t.data \in Int
    BY <1>9, <1>12
  <2> QED BY <1>10, <1>12, <2>1, <2>2 DEF Body
<1> QED BY <1>11, <1>12

LEMMA LookIs ==
    ASSUME TreeAssumption, NEW k \in Keys
    PROVE  \A t \in TreeSet :
              /\ t = Leaf => lookup(t, k) = FALSE
              /\ t # Leaf /\ k = t.data => lookup(t, k) = TRUE
              /\ t # Leaf /\ k < t.data => lookup(t, k) = lookup(t.left, k)
              /\ t # Leaf /\ k > t.data => lookup(t, k) = lookup(t.right, k)
<1> DEFINE Body(f, t) ==
               IF t = Leaf THEN FALSE
               ELSE IF k = t.data THEN TRUE
               ELSE f[IF k < t.data THEN t.left ELSE t.right]
           Def(f, n) == [t \in TreesUpto[n] |-> Body(f, t)]
           All == {n \in 0 .. MaxLevels : \E f : f = Def(f, n)}
           x == CHOOSE f : f = [t \in TreeSet |-> Body(f, t)]
<1>1. /\ MaxLevels \in Nat /\ TreesUpto[0] = {Leaf}
      /\ \A n \in 1 .. MaxLevels : TreesUpto[n - 1] \subseteq TreesUpto[n]
  BY TreesLevel, TreesGrow
<1>2. ASSUME NEW t, NEW f, NEW g, t # Leaf => f[t.left] = g[t.left] /\ f[t.right] = g[t.right]
      PROVE  Body(f, t) = Body(g, t)
  BY <1>2
<1> HIDE DEF Body
<1>3. 0 \in All
  <2>1. PICK f : f = [t \in TreesUpto[0] |-> Body(<<>>, t)]
    OBVIOUS
  <2>2. \A t \in TreesUpto[0] : Body(<<>>, t) = Body(f, t)
    BY <1>1, <1>2
  <2>3. f = Def(f, 0)
    BY <2>1, <2>2
  <2> HIDE DEF Def
  <2> QED BY <1>1, <2>3
<1>4. ASSUME NEW n \in 1 .. MaxLevels, n - 1 \in All  PROVE n \in All
  <2>1. PICK f : f = Def(f, n - 1)
    BY <1>4
  <2>2. PICK g : g = Def(f, n)
    OBVIOUS
  <2>3. n \in 0 .. MaxLevels /\ TreesUpto[n - 1] \subseteq TreesUpto[n]
    BY <1>1
  <2>4. \A t \in TreesUpto[n - 1] : g[t] = f[t]
    <3>1. \A t \in TreesUpto[n - 1] : f[t] = Body(f, t)
      BY <2>1
    <3>2. \A t \in TreesUpto[n] : g[t] = Body(f, t)
      BY <2>2
    <3> QED BY <2>3, <3>1, <3>2
  <2>5. \A t \in TreesUpto[n] : Body(f, t) = Body(g, t)
    <3>1. \A t \in TreesUpto[n] : t # Leaf => t.left \in TreesUpto[n - 1] /\ t.right \in TreesUpto[n - 1]
      BY <2>3, NodeIs
    <3> QED BY <1>2, <2>4, <3>1
  <2>6. g = Def(g, n)
    BY <2>2, <2>5
  <2> HIDE DEF Def
  <2> QED BY <2>3, <2>6
<1>5. \E f : f = [t \in TreeSet |-> Body(f, t)]
  <2>1. MaxLevels \in All
    <3> HIDE DEF All
    <3>1. \A n \in 0 .. MaxLevels : n \in All
      BY <1>1, <1>3, <1>4, Climb
    <3> QED BY <1>1, <3>1
  <2> QED BY <2>1 DEF TreeSet
<1>6. x = [t \in TreeSet |-> Body(x, t)]
  <2> HIDE DEF Def
  <2> QED BY <1>5
<1>7. \A t \in TreeSet : x[t] = Body(x, t)
  <2> HIDE DEF x
  <2> QED BY <1>6
<1>8. \A t \in TreeSet : x[t] = lookup(t, k)
  BY DEF lookup, Body
<1>9. k \in Int /\ \A t \in TreeSet : t # Leaf => t.data \in Int /\ t.left \in TreeSet /\ t.right \in TreeSet
  <2>1. MaxLevels \in 0 .. MaxLevels
    BY <1>1
  <2>2. \A t \in TreeSet : t # Leaf => t.data \in Keys /\ t.left \in TreeSet /\ t.right \in TreeSet
    BY <2>1, NodeIs DEF TreeSet
  <2> QED BY <2>2 DEF TreeAssumption
<1> HIDE DEF x
<1> SUFFICES ASSUME NEW t \in TreeSet
             PROVE  /\ t = Leaf => lookup(t, k) = FALSE
                    /\ t # Leaf /\ k = t.data => lookup(t, k) = TRUE
                    /\ t # Leaf /\ k < t.data => lookup(t, k) = lookup(t.left, k)
                    /\ t # Leaf /\ k > t.data => lookup(t, k) = lookup(t.right, k)
  OBVIOUS
<1>10. x[t] = lookup(t, k) /\ x[t] = Body(x, t)
  BY <1>7, <1>8
<1>11. CASE t = Leaf
  BY <1>10, <1>11 DEF Body
<1>12. CASE t # Leaf
  <2>1. x[t.left] = lookup(t.left, k) /\ x[t.right] = lookup(t.right, k)
    BY <1>8, <1>9, <1>12
  <2>2. k \in Int /\ t.data \in Int
    BY <1>9, <1>12
  <2>3. k = t.data => Body(x, t) = TRUE
    BY <1>12 DEF Body
  <2>4. PICK s : s = IF k < t.data THEN t.left ELSE t.right
    OBVIOUS
  <2>5. k # t.data => Body(x, t) = x[s]
    BY <1>12, <2>4, Zenon DEF Body
  <2>6. (k < t.data => s = t.left /\ k # t.data) /\ (k > t.data => s = t.right /\ k # t.data)
    BY <2>2, <2>4
  <2>7. k < t.data => Body(x, t) = x[t.left]
    BY <2>5, <2>6, Zenon
  <2>8. k > t.data => Body(x, t) = x[t.right]
    BY <2>5, <2>6, Zenon
  <2> QED BY <1>10, <1>12, <2>1, <2>3, <2>7, <2>8, Zenon
<1> QED BY <1>11, <1>12

LEMMA BstDeleteIs ==
    ASSUME TreeAssumption, NEW k \in Keys
    PROVE  \A t \in TreeSet :
              /\ t = Leaf => bst_delete(t, k) = Leaf
              /\ t # Leaf /\ t.data = k => bst_delete(t, k) = WithRight(WithData(t, min_node[t.right].data), Leaf)
              /\ t # Leaf /\ k < t.data => bst_delete(t, k) = WithLeft(t, bst_delete(t.left, k))
              /\ t # Leaf /\ k > t.data => bst_delete(t, k) = WithRight(t, bst_delete(t.right, k))
<1> DEFINE Body(f, t) ==
               IF t = Leaf THEN Leaf
               ELSE IF t.data = k THEN WithRight(WithData(t, min_node[t.right].data), Leaf)
               ELSE IF k < t.data THEN WithLeft(t, f[t.left])
               ELSE WithRight(t, f[t.right])
           Def(f, n) == [t \in TreesUpto[n] |-> Body(f, t)]
           All == {n \in 0 .. MaxLevels : \E f : f = Def(f, n)}
           x == CHOOSE f : f = [t \in TreeSet |-> Body(f, t)]
<1>1. /\ MaxLevels \in Nat /\ TreesUpto[0] = {Leaf}
      /\ \A n \in 1 .. MaxLevels : TreesUpto[n - 1] \subseteq TreesUpto[n]
  BY TreesLevel, TreesGrow
<1>2. ASSUME NEW t, NEW f, NEW g, t # Leaf => f[t.left] = g[t.left] /\ f[t.right] = g[t.right]
      PROVE  Body(f, t) = Body(g, t)
  BY <1>2
<1> HIDE DEF Body
<1>3. 0 \in All
  <2>1. PICK f : f = [t \in TreesUpto[0] |-> Body(<<>>, t)]
    OBVIOUS
  <2>2. \A t \in TreesUpto[0] : Body(<<>>, t) = Body(f, t)
    BY <1>1, <1>2
  <2>3. f = Def(f, 0)
    BY <2>1, <2>2
  <2> HIDE DEF Def
  <2> QED BY <1>1, <2>3
<1>4. ASSUME NEW n \in 1 .. MaxLevels, n - 1 \in All  PROVE n \in All
  <2>1. PICK f : f = Def(f, n - 1)
    BY <1>4
  <2>2. PICK g : g = Def(f, n)
    OBVIOUS
  <2>3. n \in 0 .. MaxLevels /\ TreesUpto[n - 1] \subseteq TreesUpto[n]
    BY <1>1
  <2>4. \A t \in TreesUpto[n - 1] : g[t] = f[t]
    <3>1. \A t \in TreesUpto[n - 1] : f[t] = Body(f, t)
      BY <2>1
    <3>2. \A t \in TreesUpto[n] : g[t] = Body(f, t)
      BY <2>2
    <3> QED BY <2>3, <3>1, <3>2
  <2>5. \A t \in TreesUpto[n] : Body(f, t) = Body(g, t)
    <3>1. \A t \in TreesUpto[n] : t # Leaf => t.left \in TreesUpto[n - 1] /\ t.right \in TreesUpto[n - 1]
      BY <2>3, NodeIs
    <3> QED BY <1>2, <2>4, <3>1
  <2>6. g = Def(g, n)
    BY <2>2, <2>5
  <2> HIDE DEF Def
  <2> QED BY <2>3, <2>6
<1>5. \E f : f = [t \in TreeSet |-> Body(f, t)]
  <2>1. MaxLevels \in All
    <3> HIDE DEF All
    <3>1. \A n \in 0 .. MaxLevels : n \in All
      BY <1>1, <1>3, <1>4, Climb
    <3> QED BY <1>1, <3>1
  <2> QED BY <2>1 DEF TreeSet
<1>6. x = [t \in TreeSet |-> Body(x, t)]
  <2> HIDE DEF Def
  <2> QED BY <1>5
<1>7. \A t \in TreeSet : x[t] = Body(x, t)
  <2> HIDE DEF x
  <2> QED BY <1>6
<1>8. \A t \in TreeSet : x[t] = bst_delete(t, k)
  BY DEF bst_delete, Body
<1>9. k \in Int /\ \A t \in TreeSet : t # Leaf => t.data \in Int /\ t.left \in TreeSet /\ t.right \in TreeSet
  <2>1. MaxLevels \in 0 .. MaxLevels
    BY <1>1
  <2>2. \A t \in TreeSet : t # Leaf => t.data \in Keys /\ t.left \in TreeSet /\ t.right \in TreeSet
    BY <2>1, NodeIs DEF TreeSet
  <2> QED BY <2>2 DEF TreeAssumption
<1> HIDE DEF x
<1> SUFFICES ASSUME NEW t \in TreeSet
             PROVE  /\ t = Leaf => bst_delete(t, k) = Leaf
                    /\ t # Leaf /\ t.data = k => bst_delete(t, k) = WithRight(WithData(t, min_node[t.right].data), Leaf)
                    /\ t # Leaf /\ k < t.data => bst_delete(t, k) = WithLeft(t, bst_delete(t.left, k))
                    /\ t # Leaf /\ k > t.data => bst_delete(t, k) = WithRight(t, bst_delete(t.right, k))
  OBVIOUS
<1>10. x[t] = bst_delete(t, k) /\ x[t] = Body(x, t)
  BY <1>7, <1>8
<1>11. CASE t = Leaf
  BY <1>10, <1>11 DEF Body
<1>12. CASE t # Leaf
  <2>1. x[t.left] = bst_delete(t.left, k) /\ x[t.right] = bst_delete(t.right, k)
    BY <1>8, <1>9, <1>12
  <2>2. k \in Int /\ t.data \in Int
    BY <1>9, <1>12
  <2> QED BY <1>10, <1>12, <2>1, <2>2 DEF Body
<1> QED BY <1>11, <1>12

-----------------------------------------------------------------------------
NodeOf(k, h, l, r) == [data |-> k, height |-> h, left |-> l, right |-> r]

\* The two halves of what inorder prints, and the key between them.
Around(a, k, b) == a \o <<k>> \o b

LEMMA AroundIs ==
    ASSUME NEW a \in Seq(Int), NEW k \in Int, NEW b \in Seq(Int)
    PROVE  /\ Len(a) \in Nat /\ Len(b) \in Nat /\ DOMAIN a = 1 .. Len(a) /\ DOMAIN b = 1 .. Len(b)
           /\ Around(a, k, b) \in Seq(Int) /\ Len(Around(a, k, b)) = Len(a) + 1 + Len(b)
           /\ DOMAIN Around(a, k, b) = 1 .. Len(a) + 1 + Len(b)
           /\ \A u \in 1 .. Len(a) : Around(a, k, b)[u] = a[u] /\ a[u] \in Int
           /\ Around(a, k, b)[Len(a) + 1] = k
           /\ \A u \in 1 .. Len(b) : Around(a, k, b)[Len(a) + 1 + u] = b[u] /\ b[u] \in Int
<1>1. Len(a) \in Nat /\ Len(b) \in Nat /\ DOMAIN a = 1 .. Len(a) /\ DOMAIN b = 1 .. Len(b)
  OBVIOUS
<1>2. Around(a, k, b) \in Seq(Int) /\ Len(Around(a, k, b)) = Len(a) + 1 + Len(b)
  BY DEF Around
<1>3. DOMAIN Around(a, k, b) = 1 .. Len(a) + 1 + Len(b)
  BY <1>2
<1>4. \A u \in 1 .. Len(a) : Around(a, k, b)[u] = a[u] /\ a[u] \in Int
  BY DEF Around
<1>5. Around(a, k, b)[Len(a) + 1] = k
  BY DEF Around
<1>6. \A u \in 1 .. Len(b) : Around(a, k, b)[Len(a) + 1 + u] = b[u] /\ b[u] \in Int
  BY DEF Around
<1> QED BY <1>1, <1>2, <1>3, <1>4, <1>5, <1>6

LEMMA AroundSet ==
    ASSUME NEW a \in Seq(Int), NEW k \in Int, NEW b \in Seq(Int)
    PROVE  ToSet(Around(a, k, b)) = {k} \cup ToSet(a) \cup ToSet(b)
<1> DEFINE m == Len(a)
           n == Len(b)
           w == Around(a, k, b)
<1>2. /\ m \in Nat /\ n \in Nat /\ DOMAIN a = 1 .. m /\ DOMAIN b = 1 .. n /\ DOMAIN w = 1 .. m + 1 + n
      /\ (\A u \in 1 .. m : w[u] = a[u]) /\ w[m + 1] = k /\ \A u \in 1 .. n : w[m + 1 + u] = b[u]
  BY AroundIs
<1> HIDE DEF m, n, w
<1>3. ASSUME NEW x \in ToSet(w)  PROVE x = k \/ x \in ToSet(a) \/ x \in ToSet(b)
  <2>1. PICK u \in 1 .. m + 1 + n : w[u] = x
    BY <1>2, <1>3 DEF ToSet
  <2>2. u \in 1 .. m \/ u = m + 1 \/ u - (m + 1) \in 1 .. n
    BY <1>2
  <2>3. CASE u \in 1 .. m
    BY <1>2, <2>1, <2>3, Zenon DEF ToSet
  <2>4. CASE u - (m + 1) \in 1 .. n
    <3>1. PICK q \in 1 .. n : q = u - (m + 1) /\ u = m + 1 + q
      BY <1>2, <2>4
    <3>2. x = b[q]
      BY <1>2, <2>1, <3>1
    <3> QED BY <1>2, <3>1, <3>2, Zenon DEF ToSet
  <2> QED BY <1>2, <2>1, <2>2, <2>3, <2>4
<1>4. ASSUME NEW x, x = k \/ x \in ToSet(a) \/ x \in ToSet(b)  PROVE x \in ToSet(w)
  <2>1. CASE x = k
    <3>1. m + 1 \in 1 .. m + 1 + n
      BY <1>2
    <3> QED BY <1>2, <2>1, <3>1 DEF ToSet
  <2>2. CASE x \in ToSet(a)
    <3>1. PICK u \in 1 .. m : a[u] = x
      BY <1>2, <2>2 DEF ToSet
    <3>2. u \in 1 .. m + 1 + n
      BY <1>2
    <3> QED BY <1>2, <3>1, <3>2 DEF ToSet
  <2>3. CASE x \in ToSet(b)
    <3>1. PICK u \in 1 .. n : b[u] = x
      BY <1>2, <2>3 DEF ToSet
    <3>2. m + 1 + u \in 1 .. m + 1 + n
      BY <1>2
    <3> QED BY <1>2, <3>1, <3>2 DEF ToSet
  <2> QED BY <1>4, <2>1, <2>2, <2>3
<1> QED BY <1>3, <1>4 DEF w

LEMMA AroundAscends ==
    ASSUME NEW a \in Seq(Int), NEW k \in Int, NEW b \in Seq(Int)
    PROVE  LET w == Around(a, k, b)
           IN  (\A u, v \in DOMAIN w : u < v => w[u] <= w[v]) <=>
                  /\ \A u, v \in DOMAIN a : u < v => a[u] <= a[v]
                  /\ \A u, v \in DOMAIN b : u < v => b[u] <= b[v]
                  /\ (\A x \in ToSet(a) : x <= k) /\ \A x \in ToSet(b) : k <= x
<1> DEFINE m == Len(a)
           n == Len(b)
           w == Around(a, k, b)
<1>2. /\ m \in Nat /\ n \in Nat /\ DOMAIN a = 1 .. m /\ DOMAIN b = 1 .. n /\ DOMAIN w = 1 .. m + 1 + n /\ k \in Int
      /\ (\A u \in 1 .. m : w[u] = a[u] /\ a[u] \in Int) /\ w[m + 1] = k
      /\ \A u \in 1 .. n : w[m + 1 + u] = b[u] /\ b[u] \in Int
  BY AroundIs
<1> HIDE DEF m, n, w
<1>3. /\ (\A x \in ToSet(a) : x <= k) <=> (\A u \in 1 .. m : a[u] <= k)
      /\ (\A x \in ToSet(b) : k <= x) <=> (\A u \in 1 .. n : k <= b[u])
  BY <1>2, Zenon DEF ToSet
<1>4. ASSUME \A u, v \in 1 .. m + 1 + n : u < v => w[u] <= w[v]
      PROVE  /\ \A u, v \in 1 .. m : u < v => a[u] <= a[v]
             /\ \A u, v \in 1 .. n : u < v => b[u] <= b[v]
             /\ (\A u \in 1 .. m : a[u] <= k) /\ \A u \in 1 .. n : k <= b[u]
  <2>1. ASSUME NEW u \in 1 .. m, NEW v \in 1 .. m, u < v  PROVE a[u] <= a[v]
    <3>1. u \in 1 .. m + 1 + n /\ v \in 1 .. m + 1 + n
      BY <1>2
    <3> QED BY <1>2, <1>4, <2>1, <3>1
  <2>2. ASSUME NEW u \in 1 .. n, NEW v \in 1 .. n, u < v  PROVE b[u] <= b[v]
    <3>1. m + 1 + u \in 1 .. m + 1 + n /\ m + 1 + v \in 1 .. m + 1 + n /\ m + 1 + u < m + 1 + v
      BY <1>2, <2>2
    <3>2. w[m + 1 + u] <= w[m + 1 + v]
      BY <1>4, <3>1
    <3> QED BY <1>2, <3>2
  <2>3. ASSUME NEW u \in 1 .. m  PROVE a[u] <= k
    <3>1. u \in 1 .. m + 1 + n /\ m + 1 \in 1 .. m + 1 + n /\ u < m + 1
      BY <1>2
    <3> QED BY <1>2, <1>4, <3>1
  <2>4. ASSUME NEW u \in 1 .. n  PROVE k <= b[u]
    <3>1. m + 1 \in 1 .. m + 1 + n /\ m + 1 + u \in 1 .. m + 1 + n /\ m + 1 < m + 1 + u
      BY <1>2
    <3>2. w[m + 1] <= w[m + 1 + u]
      BY <1>4, <3>1
    <3> QED BY <1>2, <3>2
  <2> QED BY <2>1, <2>2, <2>3, <2>4
<1>5. ASSUME \A u, v \in 1 .. m : u < v => a[u] <= a[v], \A u, v \in 1 .. n : u < v => b[u] <= b[v],
             \A u \in 1 .. m : a[u] <= k, \A u \in 1 .. n : k <= b[u],
             NEW u \in 1 .. m + 1 + n, NEW v \in 1 .. m + 1 + n, u < v
      PROVE  w[u] <= w[v]
  <2>1. CASE v \in 1 .. m
    <3>1. u \in 1 .. m
      BY <1>2, <1>5, <2>1
    <3> QED BY <1>2, <1>5, <2>1, <3>1
  <2>2. CASE v = m + 1
    <3>1. u \in 1 .. m
      BY <1>2, <1>5, <2>2
    <3> QED BY <1>2, <1>5, <2>2, <3>1
  <2>3. CASE v - (m + 1) \in 1 .. n
    <3>1. PICK q \in 1 .. n : q = v - (m + 1) /\ v = m + 1 + q
      BY <1>2, <2>3
    <3>2. w[v] = b[q] /\ k <= b[q] /\ b[q] \in Int
      BY <1>2, <1>5, <3>1
    <3>3. CASE u \in 1 .. m
      <4>1. w[u] = a[u] /\ a[u] <= k /\ a[u] \in Int
        BY <1>2, <1>5, <3>3
      <4> QED BY <1>2, <3>2, <4>1
    <3>4. CASE u = m + 1
      BY <1>2, <3>2, <3>4
    <3>5. CASE u - (m + 1) \in 1 .. n
      <4>1. PICK e \in 1 .. n : e = u - (m + 1) /\ u = m + 1 + e
        BY <1>2, <3>5
      <4>2. e < q /\ w[u] = b[e]
        BY <1>2, <1>5, <3>1, <4>1
      <4> QED BY <1>5, <3>2, <4>2
    <3> QED BY <1>2, <3>3, <3>4, <3>5
  <2> QED BY <1>2, <2>1, <2>2, <2>3
<1>6. (\A u, v \in DOMAIN w : u < v => w[u] <= w[v]) <=>
        /\ \A u, v \in DOMAIN a : u < v => a[u] <= a[v]
        /\ \A u, v \in DOMAIN b : u < v => b[u] <= b[v]
        /\ (\A u \in 1 .. m : a[u] <= k) /\ \A u \in 1 .. n : k <= b[u]
  BY <1>2, <1>4, <1>5
<1> QED BY <1>3, <1>6 DEF w

LEMMA AroundStrictly ==
    ASSUME NEW a \in Seq(Int), NEW k \in Int, NEW b \in Seq(Int)
    PROVE  LET w == Around(a, k, b)
           IN  (\A u, v \in DOMAIN w : u < v => w[u] < w[v]) <=>
                  /\ \A u, v \in DOMAIN a : u < v => a[u] < a[v]
                  /\ \A u, v \in DOMAIN b : u < v => b[u] < b[v]
                  /\ (\A x \in ToSet(a) : x < k) /\ \A x \in ToSet(b) : k < x
<1> DEFINE m == Len(a)
           n == Len(b)
           w == Around(a, k, b)
<1>2. /\ m \in Nat /\ n \in Nat /\ DOMAIN a = 1 .. m /\ DOMAIN b = 1 .. n /\ DOMAIN w = 1 .. m + 1 + n /\ k \in Int
      /\ (\A u \in 1 .. m : w[u] = a[u] /\ a[u] \in Int) /\ w[m + 1] = k
      /\ \A u \in 1 .. n : w[m + 1 + u] = b[u] /\ b[u] \in Int
  BY AroundIs
<1> HIDE DEF m, n, w
<1>3. /\ (\A x \in ToSet(a) : x < k) <=> (\A u \in 1 .. m : a[u] < k)
      /\ (\A x \in ToSet(b) : k < x) <=> (\A u \in 1 .. n : k < b[u])
  BY <1>2, Zenon DEF ToSet
<1>4. ASSUME \A u, v \in 1 .. m + 1 + n : u < v => w[u] < w[v]
      PROVE  /\ \A u, v \in 1 .. m : u < v => a[u] < a[v]
             /\ \A u, v \in 1 .. n : u < v => b[u] < b[v]
             /\ (\A u \in 1 .. m : a[u] < k) /\ \A u \in 1 .. n : k < b[u]
  <2>1. ASSUME NEW u \in 1 .. m, NEW v \in 1 .. m, u < v  PROVE a[u] < a[v]
    <3>1. u \in 1 .. m + 1 + n /\ v \in 1 .. m + 1 + n
      BY <1>2
    <3> QED BY <1>2, <1>4, <2>1, <3>1
  <2>2. ASSUME NEW u \in 1 .. n, NEW v \in 1 .. n, u < v  PROVE b[u] < b[v]
    <3>1. m + 1 + u \in 1 .. m + 1 + n /\ m + 1 + v \in 1 .. m + 1 + n /\ m + 1 + u < m + 1 + v
      BY <1>2, <2>2
    <3>2. w[m + 1 + u] < w[m + 1 + v]
      BY <1>4, <3>1
    <3> QED BY <1>2, <3>2
  <2>3. ASSUME NEW u \in 1 .. m  PROVE a[u] < k
    <3>1. u \in 1 .. m + 1 + n /\ m + 1 \in 1 .. m + 1 + n /\ u < m + 1
      BY <1>2
    <3> QED BY <1>2, <1>4, <3>1
  <2>4. ASSUME NEW u \in 1 .. n  PROVE k < b[u]
    <3>1. m + 1 \in 1 .. m + 1 + n /\ m + 1 + u \in 1 .. m + 1 + n /\ m + 1 < m + 1 + u
      BY <1>2
    <3>2. w[m + 1] < w[m + 1 + u]
      BY <1>4, <3>1
    <3> QED BY <1>2, <3>2
  <2> QED BY <2>1, <2>2, <2>3, <2>4
<1>5. ASSUME \A u, v \in 1 .. m : u < v => a[u] < a[v], \A u, v \in 1 .. n : u < v => b[u] < b[v],
             \A u \in 1 .. m : a[u] < k, \A u \in 1 .. n : k < b[u],
             NEW u \in 1 .. m + 1 + n, NEW v \in 1 .. m + 1 + n, u < v
      PROVE  w[u] < w[v]
  <2>1. CASE v \in 1 .. m
    <3>1. u \in 1 .. m
      BY <1>2, <1>5, <2>1
    <3> QED BY <1>2, <1>5, <2>1, <3>1
  <2>2. CASE v = m + 1
    <3>1. u \in 1 .. m
      BY <1>2, <1>5, <2>2
    <3> QED BY <1>2, <1>5, <2>2, <3>1
  <2>3. CASE v - (m + 1) \in 1 .. n
    <3>1. PICK q \in 1 .. n : q = v - (m + 1) /\ v = m + 1 + q
      BY <1>2, <2>3
    <3>2. w[v] = b[q] /\ k < b[q] /\ b[q] \in Int
      BY <1>2, <1>5, <3>1
    <3>3. CASE u \in 1 .. m
      <4>1. w[u] = a[u] /\ a[u] < k /\ a[u] \in Int
        BY <1>2, <1>5, <3>3
      <4> QED BY <1>2, <3>2, <4>1
    <3>4. CASE u = m + 1
      BY <1>2, <3>2, <3>4
    <3>5. CASE u - (m + 1) \in 1 .. n
      <4>1. PICK e \in 1 .. n : e = u - (m + 1) /\ u = m + 1 + e
        BY <1>2, <3>5
      <4>2. e < q /\ w[u] = b[e]
        BY <1>2, <1>5, <3>1, <4>1
      <4> QED BY <1>5, <3>2, <4>2
    <3> QED BY <1>2, <3>3, <3>4, <3>5
  <2> QED BY <1>2, <2>1, <2>2, <2>3
<1>6. (\A u, v \in DOMAIN w : u < v => w[u] < w[v]) <=>
        /\ \A u, v \in DOMAIN a : u < v => a[u] < a[v]
        /\ \A u, v \in DOMAIN b : u < v => b[u] < b[v]
        /\ (\A u \in 1 .. m : a[u] < k) /\ \A u \in 1 .. n : k < b[u]
  BY <1>2, <1>4, <1>5
<1> QED BY <1>3, <1>6 DEF w

LEMMA PrintedKeys ==
    ASSUME TreeAssumption
    PROVE  \A t \in TreeSet : inorder[t] \in Seq(Int) /\ Len(inorder[t]) = Size[t]
<1> DEFINE S == {t \in TreeSet : inorder[t] \in Seq(Int) /\ Len(inorder[t]) = Size[t]}
<1>1. Leaf \in S
  <2>1. <<>> \in Seq(Int) /\ Len(<<>>) = 0
    BY EmptySeq
  <2>2. Leaf \in TreeSet /\ inorder[Leaf] = <<>> /\ Size[Leaf] = 0
    BY TreesLevel, TreesGrow, InorderIs, SizeIs
  <2> QED BY <2>1, <2>2
<1>2. ASSUME NEW t \in TreeSet \ {Leaf}, t.left \in S, t.right \in S  PROVE t \in S
  <2>1. t.data \in Int
    <3>1. MaxLevels \in 0 .. MaxLevels
      BY TreesLevel
    <3> QED BY <3>1, NodeIs DEF TreeSet, TreeAssumption
  <2>2. inorder[t] = Around(inorder[t.left], t.data, inorder[t.right]) /\ Size[t] = Size[t.left] + 1 + Size[t.right]
    BY InorderIs, SizeIs DEF Around
  <2>3. /\ inorder[t.left] \in Seq(Int) /\ Len(inorder[t.left]) = Size[t.left]
        /\ inorder[t.right] \in Seq(Int) /\ Len(inorder[t.right]) = Size[t.right]
    BY <1>2
  <2>4. inorder[t] \in Seq(Int) /\ Len(inorder[t]) = Len(inorder[t.left]) + 1 + Len(inorder[t.right])
    <3>1. PICK k, a, b : k = t.data /\ a = inorder[t.left] /\ b = inorder[t.right]
      OBVIOUS
    <3>2. Around(a, k, b) \in Seq(Int) /\ Len(Around(a, k, b)) = Len(a) + 1 + Len(b)
      <4>1. a \in Seq(Int) /\ k \in Int /\ b \in Seq(Int)
        BY <2>1, <2>3, <3>1
      <4> HIDE DEF S
      <4> QED BY <4>1, AroundIs
    <3> QED BY <2>2, <3>1, <3>2
  <2> QED BY <2>2, <2>3, <2>4
<1>3. TreeSet \subseteq S
  <2> HIDE DEF S
  <2> QED BY <1>1, <1>2, TreeClimb
<1> QED BY <1>3

\* What the members, the order and the balance of a tree are, by its two subtrees.
LEMMA PartsOf ==
    ASSUME TreeAssumption, MarksAssumption, NEW t \in TreeSet, t # Leaf
    PROVE  /\ t.left \in TreeSet /\ t.right \in TreeSet /\ t.data \in Keys /\ t.data \in Int /\ t.height \in Nat
           /\ t = NodeOf(t.data, t.height, t.left, t.right)
           /\ Members(t) = {t.data} \cup Members(t.left) \cup Members(t.right)
           /\ Ascending(t) <=> /\ Ascending(t.left) /\ Ascending(t.right)
                               /\ \A k \in Members(t.left) : k <= t.data
                               /\ \A k \in Members(t.right) : t.data <= k
           /\ Strictly(t) <=> /\ Strictly(t.left) /\ Strictly(t.right)
                              /\ \A k \in Members(t.left) : k < t.data
                              /\ \A k \in Members(t.right) : t.data < k
           /\ Balanced(t) <=> /\ Balanced(t.left) /\ Balanced(t.right)
                              /\ t.height = max(height(t.left), height(t.right)) + 1
                              /\ height(t.left) - height(t.right) \in -1 .. 1
<1>1. MaxLevels \in 0 .. MaxLevels
  BY TreesLevel
<1>2. /\ t.left \in TreeSet /\ t.right \in TreeSet /\ t.data \in Keys /\ t.data \in Int /\ t.height \in Nat
      /\ t = NodeOf(t.data, t.height, t.left, t.right)
  BY <1>1, NodeIs DEF TreeSet, TreeAssumption, NodeOf
<1>3. Below[t] = {t} \cup Below[t.left] \cup Below[t.right]
  BY BelowIs
<1>4. /\ inorder[t] = Around(inorder[t.left], t.data, inorder[t.right])
      /\ inorder[t.left] \in Seq(Int) /\ inorder[t.right] \in Seq(Int)
  BY <1>2, InorderIs, PrintedKeys DEF TreeAssumption, Around
<1>5. /\ Members(t) = {t.data} \cup Members(t.left) \cup Members(t.right)
      /\ Ascending(t) <=> /\ Ascending(t.left) /\ Ascending(t.right)
                          /\ \A k \in Members(t.left) : k <= t.data
                          /\ \A k \in Members(t.right) : t.data <= k
      /\ Strictly(t) <=> /\ Strictly(t.left) /\ Strictly(t.right)
                         /\ \A k \in Members(t.left) : k < t.data
                         /\ \A k \in Members(t.right) : t.data < k
  <2>1. PICK a, b, w : a = inorder[t.left] /\ b = inorder[t.right] /\ w = inorder[t]
    OBVIOUS
  <2>2. a \in Seq(Int) /\ b \in Seq(Int) /\ w = Around(a, t.data, b)
    BY <1>4, <2>1
  <2>3. Members(t) = {t.data} \cup Members(t.left) \cup Members(t.right)
    BY <1>2, <1>4, <2>1, <2>2, AroundSet DEF Members
  <2>4. Ascending(t) <=> /\ Ascending(t.left) /\ Ascending(t.right)
                         /\ \A k \in Members(t.left) : k <= t.data
                         /\ \A k \in Members(t.right) : t.data <= k
    <3>1. (\A u, v \in DOMAIN w : u < v => w[u] <= w[v]) <=>
            /\ \A u, v \in DOMAIN a : u < v => a[u] <= a[v]
            /\ \A u, v \in DOMAIN b : u < v => b[u] <= b[v]
            /\ (\A k \in ToSet(a) : k <= t.data) /\ \A k \in ToSet(b) : t.data <= k
      BY <1>2, <2>2, AroundAscends
    <3> QED BY <2>1, <3>1, Zenon DEF Members, Ascending
  <2>5. Strictly(t) <=> /\ Strictly(t.left) /\ Strictly(t.right)
                        /\ \A k \in Members(t.left) : k < t.data
                        /\ \A k \in Members(t.right) : t.data < k
    <3>1. (\A u, v \in DOMAIN w : u < v => w[u] < w[v]) <=>
            /\ \A u, v \in DOMAIN a : u < v => a[u] < a[v]
            /\ \A u, v \in DOMAIN b : u < v => b[u] < b[v]
            /\ (\A k \in ToSet(a) : k < t.data) /\ \A k \in ToSet(b) : t.data < k
      BY <1>2, <2>2, AroundStrictly
    <3> QED BY <2>1, <3>1, Zenon DEF Members, Strictly
  <2> QED BY <2>3, <2>4, <2>5
<1>6. get_balance(t) = height(t.left) - height(t.right) /\ MaxDepth[t] = max(MaxDepth[t.left], MaxDepth[t.right]) + 1
  BY MaxDepthIs DEF get_balance
<1>7. Balanced(t) <=> /\ Balanced(t.left) /\ Balanced(t.right)
                      /\ t.height = MaxDepth[t] /\ get_balance(t) \in -1 .. 1
  BY <1>3, Zenon DEF Balanced
<1>8. \A s \in TreeSet : Balanced(s) => height(s) = MaxDepth[s]
  <2>1. ASSUME NEW s \in TreeSet, Balanced(s), s # Leaf  PROVE height(s) = MaxDepth[s]
    <3>1. s \in Below[s]
      BY <2>1, BelowIs
    <3> QED BY <2>1, <3>1 DEF Balanced, height
  <2>2. height(Leaf) = MaxDepth[Leaf]
    BY MaxDepthIs DEF height
  <2> QED BY <2>1, <2>2
<1>9. Balanced(t.left) /\ Balanced(t.right) => MaxDepth[t] = max(height(t.left), height(t.right)) + 1
  BY <1>2, <1>6, <1>8
<1> QED BY <1>2, <1>5, <1>6, <1>7, <1>9

LEMMA PartsOfLeaf ==
    ASSUME TreeAssumption
    PROVE  /\ Leaf \in TreeSet /\ Members(Leaf) = {} /\ Ascending(Leaf) /\ Strictly(Leaf) /\ Balanced(Leaf)
           /\ height(Leaf) = 0
<1>1. Leaf \in TreeSet /\ Below[Leaf] = {} /\ inorder[Leaf] = <<>>
  BY TreesLevel, TreesGrow, BelowIs, InorderIs
<1>2. DOMAIN <<>> = {}
  OBVIOUS
<1> QED BY <1>1, <1>2 DEF Members, ToSet, Ascending, Strictly, Balanced, height

LEMMA MembersAreKeys ==
    ASSUME TreeAssumption, MarksAssumption
    PROVE  \A t \in TreeSet : Members(t) \subseteq Keys /\ Members(t) \subseteq Int
<1> DEFINE S == {t \in TreeSet : Members(t) \subseteq Keys}
<1>1. Leaf \in S
  BY PartsOfLeaf
<1>2. \A t \in TreeSet \ {Leaf} : t.left \in S /\ t.right \in S => t \in S
  BY PartsOf
<1>3. TreeSet \subseteq S
  <2> HIDE DEF S
  <2> QED BY <1>1, <1>2, TreeClimb
<1> QED BY <1>3 DEF TreeAssumption

\* A balanced tree has as many levels as its root says.
LEMMA HeightIsDepth ==
    ASSUME TreeAssumption, MarksAssumption
    PROVE  \A t \in TreeSet : Balanced(t) => height(t) \in 0 .. MaxLevels /\ t \in TreesUpto[height(t)]
<1> DEFINE All == {n \in 0 .. MaxLevels :
                     \A t \in TreesUpto[n] : Balanced(t) => height(t) \in 0 .. n /\ t \in TreesUpto[height(t)]}
<1>1. MaxLevels \in Nat /\ TreesUpto[0] = {Leaf}
  BY TreesLevel
<1>2. 0 \in All
  BY <1>1, PartsOfLeaf
<1>3. ASSUME NEW n \in 1 .. MaxLevels, n - 1 \in All  PROVE n \in All
  <2>1. /\ n \in 0 .. MaxLevels /\ n - 1 \in 0 .. MaxLevels /\ n \in Nat
        /\ TreesUpto[n] \subseteq TreeSet
    BY <1>1, TreesGrow
  <2>2. ASSUME NEW t \in TreesUpto[n], Balanced(t)
        PROVE  height(t) \in 0 .. n /\ t \in TreesUpto[height(t)]
    <3>1. CASE t = Leaf
      BY <1>1, <2>1, <3>1, PartsOfLeaf
    <3>2. CASE t # Leaf
      <4>1. t.left \in TreesUpto[n - 1] /\ t.right \in TreesUpto[n - 1] /\ t \in TreeSet /\ t \in NodesOver(TreesUpto[n - 1])
        BY <2>1, <3>2, NodeIs
      <4>2. /\ Balanced(t.left) /\ Balanced(t.right)
            /\ height(t) = max(height(t.left), height(t.right)) + 1
        BY <2>2, <3>2, <4>1, PartsOf DEF height
      <4>3. /\ height(t.left) \in 0 .. n - 1 /\ t.left \in TreesUpto[height(t.left)]
            /\ height(t.right) \in 0 .. n - 1 /\ t.right \in TreesUpto[height(t.right)]
        BY <1>3, <4>1, <4>2
      <4> HIDE DEF All
      <4>4. PICK m : m = max(height(t.left), height(t.right))
        OBVIOUS
      <4>5. /\ m \in 0 .. n - 1 /\ height(t.left) \in 0 .. m /\ height(t.right) \in 0 .. m /\ m \in 0 .. MaxLevels
            /\ m + 1 \in 1 .. MaxLevels /\ m + 1 \in 0 .. n /\ (m + 1) - 1 = m
        BY <1>1, <2>1, <4>3, <4>4 DEF max
      <4>6. t.left \in TreesUpto[m] /\ t.right \in TreesUpto[m]
        BY <4>3, <4>5, TreesGrow
      <4>7. t \in NodesOver(TreesUpto[m])
        BY <4>1, <4>6 DEF NodesOver
      <4>8. TreesUpto[m + 1] = {Leaf} \cup NodesOver(TreesUpto[m])
        BY <4>5, TreesLevel
      <4>9. height(t) = m + 1
        BY <4>2, <4>4
      <4> QED BY <4>5, <4>7, <4>8, <4>9
    <3> QED BY <3>1, <3>2
  <2> HIDE DEF All
  <2> QED BY <2>1, <2>2 DEF All
<1>4. MaxLevels \in All
  <2> HIDE DEF All
  <2>1. \A n \in 0 .. MaxLevels : n \in All
    BY <1>1, <1>2, <1>3, Climb
  <2> QED BY <1>1, <2>1
<1> QED BY <1>4 DEF TreeSet

\* A tree that insert and delete_node leave behind, and a node as they set it up.
Avl(t) == t \in TreeSet /\ Balanced(t) /\ Ascending(t)
Made(k, l, r) == NodeOf(k, max(height(l), height(r)) + 1, l, r)
InOrder(l, k, r) == (\A v \in Members(l) : v <= k) /\ (\A v \in Members(r) : k <= v)

LEMMA HeightIs ==
    ASSUME TreeAssumption, MarksAssumption, NEW t, Avl(t)
    PROVE  /\ height(t) \in 0 .. MaxLevels /\ height(t) \in Nat /\ MaxLevels \in Nat /\ (height(t) = 0 <=> t = Leaf)
           /\ t # Leaf => height(t) = t.height
<1>1. height(t) \in 0 .. MaxLevels /\ MaxLevels \in Nat
  BY HeightIsDepth, TreesLevel DEF Avl
<1>2. CASE t = Leaf
  BY <1>1, <1>2, PartsOfLeaf
<1>3. CASE t # Leaf
  <2>1. Avl(t.left) /\ Avl(t.right) /\ height(t) = max(height(t.left), height(t.right)) + 1
    BY <1>3, PartsOf DEF Avl, height
  <2>2. height(t.left) \in 0 .. MaxLevels /\ height(t.right) \in 0 .. MaxLevels
    BY <2>1, HeightIsDepth DEF Avl
  <2> QED BY <1>1, <1>3, <2>1, <2>2 DEF max, height
<1> QED BY <1>2, <1>3

LEMMA MadeIs ==
    ASSUME TreeAssumption, MarksAssumption, NEW l, NEW r, NEW k \in Keys, Avl(l), Avl(r), InOrder(l, k, r),
           height(l) - height(r) \in -1 .. 1, max(height(l), height(r)) + 1 <= MaxLevels
    PROVE  /\ Avl(Made(k, l, r)) /\ Made(k, l, r) # Leaf
           /\ height(Made(k, l, r)) = max(height(l), height(r)) + 1
           /\ Members(Made(k, l, r)) = {k} \cup Members(l) \cup Members(r)
<1>1. PICK m : m = max(height(l), height(r))
  OBVIOUS
<1>2. /\ height(l) \in 0 .. m /\ height(r) \in 0 .. m /\ m \in 0 .. MaxLevels
      /\ m + 1 \in 1 .. MaxLevels /\ m + 1 \in 0 .. MaxLevels /\ (m + 1) - 1 = m /\ m + 1 \in Nat
  BY <1>1, HeightIs DEF max
<1>3. l \in TreesUpto[m] /\ r \in TreesUpto[m]
  BY <1>2, HeightIsDepth, TreesGrow DEF Avl
<1>4. PICK t : t = Made(k, l, r)
  OBVIOUS
<1>5. /\ t.data = k /\ t.left = l /\ t.right = r /\ t.height = m + 1 /\ t \in NodesOver(TreesUpto[m])
  BY <1>1, <1>2, <1>3, <1>4 DEF Made, NodeOf, NodesOver
<1>6. t \in TreeSet
  BY <1>2, <1>5, TreesLevel, TreesGrow
<1>7. t # Leaf
  <2>1. NodesOver(TreesUpto[m]) \subseteq NodesOver(TreeSet)
    BY <1>2, TreesGrow, NodesMore
  <2> QED BY <1>5, <2>1 DEF MarksAssumption
<1>8. height(t) = m + 1
  BY <1>5, <1>7 DEF height
<1>9. Balanced(t) /\ Ascending(t) /\ Members(t) = {k} \cup Members(l) \cup Members(r)
  BY <1>1, <1>5, <1>6, <1>7, PartsOf DEF Avl, InOrder
<1> QED BY <1>1, <1>4, <1>6, <1>7, <1>8, <1>9 DEF Avl

-----------------------------------------------------------------------------
\* What a change of a node, and a rotation, make of their nodes.
LEMMA ChangedIs ==
    ASSUME NEW k, NEW h, NEW l, NEW r, NEW x
    PROVE  /\ NodeOf(k, h, l, r).data = k /\ NodeOf(k, h, l, r).left = l /\ NodeOf(k, h, l, r).right = r
           /\ WithData(NodeOf(k, h, l, r), x) = NodeOf(x, h, l, r)
           /\ WithLeft(NodeOf(k, h, l, r), x) = NodeOf(k, h, x, r)
           /\ WithRight(NodeOf(k, h, l, r), x) = NodeOf(k, h, l, x)
           /\ Updated(NodeOf(k, h, l, r)) = Made(k, l, r)
<1>1. NodeOf(k, h, l, r).data = k /\ NodeOf(k, h, l, r).left = l /\ NodeOf(k, h, l, r).right = r
  BY DEF NodeOf
<1>2. WithData(NodeOf(k, h, l, r), x) = NodeOf(x, h, l, r)
  BY DEF NodeOf, WithData
<1>3. WithLeft(NodeOf(k, h, l, r), x) = NodeOf(k, h, x, r)
  BY DEF NodeOf, WithLeft
<1>4. WithRight(NodeOf(k, h, l, r), x) = NodeOf(k, h, l, x)
  BY DEF NodeOf, WithRight
<1>5. Updated(NodeOf(k, h, l, r)) = Made(k, l, r)
  BY DEF NodeOf, Made, Updated
<1> QED BY <1>1, <1>2, <1>3, <1>4, <1>5

LEMMA UpdatedIs ==
    ASSUME TreeAssumption, MarksAssumption, NEW t \in TreeSet, t # Leaf, NEW s, NEW k
    PROVE  /\ Updated(WithLeft(t, s)) = Made(t.data, s, t.right)
           /\ Updated(WithRight(t, s)) = Made(t.data, t.left, s)
           /\ Updated(WithRight(WithData(t, k), s)) = Made(k, t.left, s)
<1>1. t = NodeOf(t.data, t.height, t.left, t.right)
  BY PartsOf
<1>2. /\ WithLeft(t, s) = NodeOf(t.data, t.height, s, t.right)
      /\ WithRight(t, s) = NodeOf(t.data, t.height, t.left, s)
      /\ WithData(t, k) = NodeOf(k, t.height, t.left, t.right)
  BY <1>1, ChangedIs
<1>3. WithRight(WithData(t, k), s) = NodeOf(k, t.height, t.left, s)
  BY <1>2, ChangedIs
<1> QED BY <1>2, <1>3, ChangedIs

LEMMA MadeOf ==
    ASSUME NEW k, NEW l, NEW r, NEW s
    PROVE  /\ Made(k, l, r).data = k /\ Made(k, l, r).left = l /\ Made(k, l, r).right = r
           /\ Updated(WithLeft(Made(k, l, r), s)) = Made(k, s, r)
           /\ Updated(WithRight(Made(k, l, r), s)) = Made(k, l, s)
<1>1. /\ Made(k, l, r).data = k /\ Made(k, l, r).left = l /\ Made(k, l, r).right = r
      /\ WithLeft(Made(k, l, r), s) = NodeOf(k, max(height(l), height(r)) + 1, s, r)
      /\ WithRight(Made(k, l, r), s) = NodeOf(k, max(height(l), height(r)) + 1, l, s)
  BY ChangedIs DEF Made
<1> QED BY <1>1, ChangedIs

\* A single rotation, where the child is a node, and a double one, where its child is.
LEMMA RotatedIs ==
    ASSUME TreeAssumption, MarksAssumption, NEW t \in TreeSet, t # Leaf, NEW k, NEW s
    PROVE  /\ right_rotate(Made(k, t, s)) = Made(t.data, t.left, Made(k, t.right, s))
           /\ left_rotate(Made(k, s, t)) = Made(t.data, Made(k, s, t.left), t.right)
           /\ LET c == t.right
              IN  c # Leaf => right_rotate(WithLeft(Made(k, t, s), left_rotate(t)))
                                = Made(c.data, Made(t.data, t.left, c.left), Made(k, c.right, s))
           /\ LET c == t.left
              IN  c # Leaf => left_rotate(WithRight(Made(k, s, t), right_rotate(t)))
                                = Made(c.data, Made(k, s, c.left), Made(t.data, c.right, t.right))
<1>1. right_rotate(Made(k, t, s)) = Made(t.data, t.left, Made(k, t.right, s))
  <2>1. PICK y : y = Made(k, t, s)
    OBVIOUS
  <2>2. y.left = t /\ Updated(WithLeft(y, t.right)) = Made(k, t.right, s)
    BY <2>1, MadeOf
  <2>3. Updated(WithRight(t, Made(k, t.right, s))) = Made(t.data, t.left, Made(k, t.right, s))
    BY UpdatedIs
  <2> QED BY <2>1, <2>2, <2>3 DEF right_rotate
<1>2. left_rotate(Made(k, s, t)) = Made(t.data, Made(k, s, t.left), t.right)
  <2>1. PICK x : x = Made(k, s, t)
    OBVIOUS
  <2>2. x.right = t /\ Updated(WithRight(x, t.left)) = Made(k, s, t.left)
    BY <2>1, MadeOf
  <2>3. Updated(WithLeft(t, Made(k, s, t.left))) = Made(t.data, Made(k, s, t.left), t.right)
    BY UpdatedIs
  <2> QED BY <2>1, <2>2, <2>3 DEF left_rotate
<1>3. ASSUME NEW c, c = t.right, c # Leaf
      PROVE  right_rotate(WithLeft(Made(k, t, s), left_rotate(t)))
               = Made(c.data, Made(t.data, t.left, c.left), Made(k, c.right, s))
  <2>1. c \in TreeSet
    BY <1>3, PartsOf
  <2>2. PICK m : m = Made(t.data, t.left, c.left)
    OBVIOUS
  <2>3. left_rotate(t) = Made(c.data, m, c.right)
    BY <1>3, <2>1, <2>2, UpdatedIs DEF left_rotate
  <2>4. PICK y : y = WithLeft(Made(k, t, s), left_rotate(t))
    OBVIOUS
  <2>5. PICK h : y = NodeOf(k, h, Made(c.data, m, c.right), s)
    BY <2>3, <2>4, ChangedIs DEF Made
  <2>6. y.left = Made(c.data, m, c.right) /\ y.left.right = c.right /\ Updated(WithLeft(y, c.right)) = Made(k, c.right, s)
    <3>1. y.left = Made(c.data, m, c.right) /\ WithLeft(y, c.right) = NodeOf(k, h, c.right, s)
      BY <2>5, ChangedIs
    <3>2. y.left.right = c.right
      BY <3>1, MadeOf
    <3>3. Updated(NodeOf(k, h, c.right, s)) = Made(k, c.right, s)
      BY ChangedIs
    <3> QED BY <3>1, <3>2, <3>3
  <2>7. Updated(WithRight(y.left, Made(k, c.right, s))) = Made(c.data, m, Made(k, c.right, s))
    BY <2>6, MadeOf
  <2> QED BY <2>2, <2>4, <2>6, <2>7 DEF right_rotate
<1>4. ASSUME NEW c, c = t.left, c # Leaf
      PROVE  left_rotate(WithRight(Made(k, s, t), right_rotate(t)))
               = Made(c.data, Made(k, s, c.left), Made(t.data, c.right, t.right))
  <2>1. c \in TreeSet
    BY <1>4, PartsOf
  <2>2. PICK m : m = Made(t.data, c.right, t.right)
    OBVIOUS
  <2>3. right_rotate(t) = Made(c.data, c.left, m)
    BY <1>4, <2>1, <2>2, UpdatedIs DEF right_rotate
  <2>4. PICK x : x = WithRight(Made(k, s, t), right_rotate(t))
    OBVIOUS
  <2>5. PICK h : x = NodeOf(k, h, s, Made(c.data, c.left, m))
    BY <2>3, <2>4, ChangedIs DEF Made
  <2>6. x.right = Made(c.data, c.left, m) /\ x.right.left = c.left /\ Updated(WithRight(x, c.left)) = Made(k, s, c.left)
    <3>1. x.right = Made(c.data, c.left, m) /\ WithRight(x, c.left) = NodeOf(k, h, s, c.left)
      BY <2>5, ChangedIs
    <3>2. x.right.left = c.left
      BY <3>1, MadeOf
    <3>3. Updated(NodeOf(k, h, s, c.left)) = Made(k, s, c.left)
      BY ChangedIs
    <3> QED BY <3>1, <3>2, <3>3
  <2>7. Updated(WithLeft(x.right, Made(k, s, c.left))) = Made(c.data, Made(k, s, c.left), m)
    BY <2>6, MadeOf
  <2> QED BY <2>2, <2>4, <2>6, <2>7 DEF left_rotate
<1> QED BY <1>1, <1>2, <1>3, <1>4

-----------------------------------------------------------------------------
\* w is a tree of the key k and the keys of l and r, with h levels.
Joins(w, l, k, r, h) ==
    Avl(w) /\ w # Leaf /\ Members(w) = {k} \cup Members(l) \cup Members(r) /\ height(w) = h

LEMMA LeftHigh ==
    ASSUME TreeAssumption, MarksAssumption, NEW l, NEW r, NEW k \in Keys, Avl(l), Avl(r), InOrder(l, k, r),
           height(l) = height(r) + 2, height(l) + 1 <= MaxLevels
    PROVE  /\ l # Leaf
           /\ get_balance(l) = 0 => Joins(right_rotate(Made(k, l, r)), l, k, r, height(l) + 1)
           /\ get_balance(l) = 1 => Joins(right_rotate(Made(k, l, r)), l, k, r, height(l))
           /\ get_balance(l) = -1 =>
                Joins(right_rotate(WithLeft(Made(k, l, r), left_rotate(l))), l, k, r, height(l))
<1>1. height(l) \in Nat /\ height(r) \in Nat /\ l # Leaf /\ MaxLevels \in Nat
  BY HeightIs
<1>2. PICK a, ll, lr : a = l.data /\ ll = l.left /\ lr = l.right
  OBVIOUS
<1>3. /\ Avl(ll) /\ Avl(lr) /\ a \in Keys /\ InOrder(ll, a, lr) /\ Members(l) = {a} \cup Members(ll) \cup Members(lr)
      /\ height(l) = max(height(ll), height(lr)) + 1 /\ height(ll) - height(lr) \in -1 .. 1
      /\ get_balance(l) = height(ll) - height(lr) /\ l \in TreeSet
  BY <1>1, <1>2, PartsOf DEF Avl, InOrder, height, get_balance
<1>4. height(ll) \in Nat /\ height(lr) \in Nat
  BY <1>3, HeightIs
<1>5. /\ Members(ll) \subseteq Int /\ Members(lr) \subseteq Int /\ Members(r) \subseteq Int /\ k \in Int /\ a \in Int
      /\ InOrder(ll, k, r) /\ InOrder(lr, k, r) /\ InOrder(ll, a, r) /\ a <= k
  <2>1. /\ Members(ll) \subseteq Int /\ Members(lr) \subseteq Int /\ Members(r) \subseteq Int /\ k \in Int /\ a \in Int
    BY <1>3, MembersAreKeys DEF Avl, TreeAssumption
  <2>2. a <= k /\ (\A v \in Members(ll) : v <= k) /\ (\A v \in Members(lr) : v <= k) /\ \A v \in Members(r) : k <= v
    BY <1>3 DEF InOrder
  <2>3. \A v \in Members(r) : a <= v
    BY <2>1, <2>2
  <2> QED BY <1>3, <2>1, <2>2, <2>3 DEF InOrder
<1>6. ASSUME height(ll) >= height(lr)
      PROVE  LET m == Made(k, lr, r)
                 w == Made(a, ll, m)
             IN  Joins(w, l, k, r, IF height(ll) = height(lr) THEN height(l) + 1 ELSE height(l))
  <2>1. PICK m : m = Made(k, lr, r)
    OBVIOUS
  <2>2. /\ height(lr) - height(r) \in -1 .. 1 /\ max(height(lr), height(r)) + 1 <= MaxLevels
        /\ max(height(lr), height(r)) = height(lr)
    BY <1>1, <1>3, <1>4, <1>6 DEF max
  <2>3. Avl(m) /\ height(m) = height(lr) + 1 /\ Members(m) = {k} \cup Members(lr) \cup Members(r)
    BY <1>3, <1>5, <2>1, <2>2, MadeIs
  <2>4. InOrder(ll, a, m)
    BY <1>3, <1>5, <2>3 DEF InOrder
  <2>5. /\ height(ll) - height(m) \in -1 .. 1 /\ max(height(ll), height(m)) + 1 <= MaxLevels
        /\ max(height(ll), height(m)) + 1 = IF height(ll) = height(lr) THEN height(l) + 1 ELSE height(l)
    BY <1>1, <1>3, <1>4, <1>6, <2>3 DEF max
  <2>6. /\ Avl(Made(a, ll, m)) /\ Made(a, ll, m) # Leaf /\ Members(Made(a, ll, m)) = {a} \cup Members(ll) \cup Members(m)
        /\ height(Made(a, ll, m)) = max(height(ll), height(m)) + 1
    BY <1>3, <2>3, <2>4, <2>5, MadeIs
  <2>7. Members(Made(a, ll, m)) = {k} \cup Members(l) \cup Members(r)
    BY <1>3, <2>3, <2>6
  <2> QED BY <2>1, <2>5, <2>6, <2>7 DEF Joins
<1>7. right_rotate(Made(k, l, r)) = Made(a, ll, Made(k, lr, r))
  BY <1>1, <1>2, <1>3, RotatedIs
<1>8. ASSUME get_balance(l) = -1
      PROVE  Joins(right_rotate(WithLeft(Made(k, l, r), left_rotate(l))), l, k, r, height(l))
  <2>1. height(lr) = height(ll) + 1 /\ lr # Leaf /\ lr \in TreeSet
    BY <1>3, <1>4, <1>8, HeightIs DEF Avl
  <2>2. PICK b, x, y : b = lr.data /\ x = lr.left /\ y = lr.right
    OBVIOUS
  <2>3. /\ Avl(x) /\ Avl(y) /\ b \in Keys /\ InOrder(x, b, y) /\ Members(lr) = {b} \cup Members(x) \cup Members(y)
        /\ height(lr) = max(height(x), height(y)) + 1 /\ height(x) - height(y) \in -1 .. 1
    BY <1>3, <2>1, <2>2, PartsOf DEF Avl, InOrder, height
  <2>4. height(x) \in Nat /\ height(y) \in Nat /\ Members(x) \subseteq Int /\ Members(y) \subseteq Int /\ b \in Int
    BY <2>3, HeightIs, MembersAreKeys DEF Avl, TreeAssumption
  <2>5. PICK m, n : m = Made(a, ll, x) /\ n = Made(k, y, r)
    OBVIOUS
  <2>6. /\ height(ll) - height(x) \in -1 .. 1 /\ max(height(ll), height(x)) = height(ll) /\ height(ll) + 1 <= MaxLevels
        /\ height(y) - height(r) \in -1 .. 1 /\ max(height(y), height(r)) = height(r) /\ height(r) + 1 <= MaxLevels
        /\ height(ll) = height(r) /\ height(l) = height(r) + 2
    BY <1>1, <1>3, <1>4, <2>1, <2>3, <2>4 DEF max
  <2>7. /\ InOrder(ll, a, x) /\ InOrder(y, k, r) /\ b <= k /\ a <= b /\ (\A v \in Members(ll) : v <= b)
        /\ \A v \in Members(r) : b <= v
    <3>1. InOrder(ll, a, x) /\ InOrder(y, k, r) /\ b <= k /\ a <= b
      BY <1>3, <1>5, <2>3 DEF InOrder
    <3>2. (\A v \in Members(ll) : v <= a) /\ \A v \in Members(r) : k <= v
      BY <1>3, <1>5 DEF InOrder
    <3> QED BY <1>5, <2>4, <3>1, <3>2
  <2>8. Avl(m) /\ height(m) = height(ll) + 1 /\ Members(m) = {a} \cup Members(ll) \cup Members(x)
    BY <1>3, <2>3, <2>5, <2>6, <2>7, MadeIs
  <2>9. Avl(n) /\ height(n) = height(r) + 1 /\ Members(n) = {k} \cup Members(y) \cup Members(r)
    BY <2>3, <2>5, <2>6, <2>7, MadeIs
  <2>10. InOrder(m, b, n)
    BY <2>3, <2>7, <2>8, <2>9 DEF InOrder
  <2>11. /\ height(m) - height(n) \in -1 .. 1 /\ max(height(m), height(n)) + 1 = height(l) /\ height(l) <= MaxLevels
    BY <1>1, <2>6, <2>8, <2>9 DEF max
  <2>12. /\ Avl(Made(b, m, n)) /\ Made(b, m, n) # Leaf /\ height(Made(b, m, n)) = height(l)
         /\ Members(Made(b, m, n)) = {b} \cup Members(m) \cup Members(n)
    BY <2>3, <2>8, <2>9, <2>10, <2>11, MadeIs
  <2>13. Members(Made(b, m, n)) = {k} \cup Members(l) \cup Members(r)
    BY <1>3, <2>3, <2>8, <2>9, <2>12
  <2>14. right_rotate(WithLeft(Made(k, l, r), left_rotate(l))) = Made(b, m, n)
    BY <1>1, <1>2, <1>3, <2>1, <2>2, <2>5, RotatedIs
  <2> QED BY <2>12, <2>13, <2>14 DEF Joins
<1> QED BY <1>1, <1>3, <1>4, <1>6, <1>7, <1>8

LEMMA RightHigh ==
    ASSUME TreeAssumption, MarksAssumption, NEW l, NEW r, NEW k \in Keys, Avl(l), Avl(r), InOrder(l, k, r),
           height(r) = height(l) + 2, height(r) + 1 <= MaxLevels
    PROVE  /\ r # Leaf
           /\ get_balance(r) = 0 => Joins(left_rotate(Made(k, l, r)), l, k, r, height(r) + 1)
           /\ get_balance(r) = -1 => Joins(left_rotate(Made(k, l, r)), l, k, r, height(r))
           /\ get_balance(r) = 1 =>
                Joins(left_rotate(WithRight(Made(k, l, r), right_rotate(r))), l, k, r, height(r))
<1>1. height(l) \in Nat /\ height(r) \in Nat /\ r # Leaf /\ MaxLevels \in Nat
  BY HeightIs
<1>2. PICK a, rl, rr : a = r.data /\ rl = r.left /\ rr = r.right
  OBVIOUS
<1>3. /\ Avl(rl) /\ Avl(rr) /\ a \in Keys /\ InOrder(rl, a, rr) /\ Members(r) = {a} \cup Members(rl) \cup Members(rr)
      /\ height(r) = max(height(rl), height(rr)) + 1 /\ height(rl) - height(rr) \in -1 .. 1
      /\ get_balance(r) = height(rl) - height(rr) /\ r \in TreeSet
  BY <1>1, <1>2, PartsOf DEF Avl, InOrder, height, get_balance
<1>4. height(rl) \in Nat /\ height(rr) \in Nat
  BY <1>3, HeightIs
<1>5. /\ Members(rl) \subseteq Int /\ Members(rr) \subseteq Int /\ Members(l) \subseteq Int /\ k \in Int /\ a \in Int
      /\ InOrder(l, k, rr) /\ InOrder(l, k, rl) /\ InOrder(l, a, rr) /\ k <= a
  <2>1. /\ Members(rl) \subseteq Int /\ Members(rr) \subseteq Int /\ Members(l) \subseteq Int /\ k \in Int /\ a \in Int
    BY <1>3, MembersAreKeys DEF Avl, TreeAssumption
  <2>2. k <= a /\ (\A v \in Members(rl) : k <= v) /\ (\A v \in Members(rr) : k <= v) /\ \A v \in Members(l) : v <= k
    BY <1>3 DEF InOrder
  <2>3. \A v \in Members(l) : v <= a
    BY <2>1, <2>2
  <2> QED BY <1>3, <2>1, <2>2, <2>3 DEF InOrder
<1>6. ASSUME height(rr) >= height(rl)
      PROVE  LET m == Made(k, l, rl)
                 w == Made(a, m, rr)
             IN  Joins(w, l, k, r, IF height(rl) = height(rr) THEN height(r) + 1 ELSE height(r))
  <2>1. PICK m : m = Made(k, l, rl)
    OBVIOUS
  <2>2. /\ height(l) - height(rl) \in -1 .. 1 /\ max(height(l), height(rl)) + 1 <= MaxLevels
        /\ max(height(l), height(rl)) = height(rl)
    BY <1>1, <1>3, <1>4, <1>6 DEF max
  <2>3. Avl(m) /\ height(m) = height(rl) + 1 /\ Members(m) = {k} \cup Members(l) \cup Members(rl)
    BY <1>3, <1>5, <2>1, <2>2, MadeIs
  <2>4. InOrder(m, a, rr)
    BY <1>3, <1>5, <2>3 DEF InOrder
  <2>5. /\ height(m) - height(rr) \in -1 .. 1 /\ max(height(m), height(rr)) + 1 <= MaxLevels
        /\ max(height(m), height(rr)) + 1 = IF height(rl) = height(rr) THEN height(r) + 1 ELSE height(r)
    BY <1>1, <1>3, <1>4, <1>6, <2>3 DEF max
  <2>6. /\ Avl(Made(a, m, rr)) /\ Made(a, m, rr) # Leaf /\ Members(Made(a, m, rr)) = {a} \cup Members(m) \cup Members(rr)
        /\ height(Made(a, m, rr)) = max(height(m), height(rr)) + 1
    BY <1>3, <2>3, <2>4, <2>5, MadeIs
  <2>7. Members(Made(a, m, rr)) = {k} \cup Members(l) \cup Members(r)
    BY <1>3, <2>3, <2>6
  <2> QED BY <2>1, <2>5, <2>6, <2>7 DEF Joins
<1>7. left_rotate(Made(k, l, r)) = Made(a, Made(k, l, rl), rr)
  BY <1>1, <1>2, <1>3, RotatedIs
<1>8. ASSUME get_balance(r) = 1
      PROVE  Joins(left_rotate(WithRight(Made(k, l, r), right_rotate(r))), l, k, r, height(r))
  <2>1. height(rl) = height(rr) + 1 /\ rl # Leaf /\ rl \in TreeSet
    BY <1>3, <1>4, <1>8, HeightIs DEF Avl
  <2>2. PICK b, x, y : b = rl.data /\ x = rl.left /\ y = rl.right
    OBVIOUS
  <2>3. /\ Avl(x) /\ Avl(y) /\ b \in Keys /\ InOrder(x, b, y) /\ Members(rl) = {b} \cup Members(x) \cup Members(y)
        /\ height(rl) = max(height(x), height(y)) + 1 /\ height(x) - height(y) \in -1 .. 1
    BY <1>3, <2>1, <2>2, PartsOf DEF Avl, InOrder, height
  <2>4. height(x) \in Nat /\ height(y) \in Nat /\ Members(x) \subseteq Int /\ Members(y) \subseteq Int /\ b \in Int
    BY <2>3, HeightIs, MembersAreKeys DEF Avl, TreeAssumption
  <2>5. PICK m, n : m = Made(k, l, x) /\ n = Made(a, y, rr)
    OBVIOUS
  <2>6. /\ height(l) - height(x) \in -1 .. 1 /\ max(height(l), height(x)) = height(l) /\ height(l) + 1 <= MaxLevels
        /\ height(y) - height(rr) \in -1 .. 1 /\ max(height(y), height(rr)) = height(rr) /\ height(rr) + 1 <= MaxLevels
        /\ height(rr) = height(l) /\ height(r) = height(l) + 2
    <3>1. height(rl) = height(l) + 1 /\ height(rr) = height(l)
      BY <1>1, <1>3, <1>4, <2>1 DEF max
    <3> QED BY <1>1, <2>3, <2>4, <3>1 DEF max
  <2>7. /\ InOrder(l, k, x) /\ InOrder(y, a, rr) /\ k <= b /\ b <= a /\ (\A v \in Members(rr) : b <= v)
        /\ \A v \in Members(l) : v <= b
    <3>1. InOrder(l, k, x) /\ InOrder(y, a, rr) /\ k <= b /\ b <= a
      BY <1>3, <1>5, <2>3 DEF InOrder
    <3>2. (\A v \in Members(rr) : a <= v) /\ \A v \in Members(l) : v <= k
      BY <1>3, <1>5 DEF InOrder
    <3> QED BY <1>5, <2>4, <3>1, <3>2
  <2>8. Avl(m) /\ height(m) = height(l) + 1 /\ Members(m) = {k} \cup Members(l) \cup Members(x)
    BY <2>3, <2>5, <2>6, <2>7, MadeIs
  <2>9. Avl(n) /\ height(n) = height(rr) + 1 /\ Members(n) = {a} \cup Members(y) \cup Members(rr)
    BY <1>3, <2>3, <2>5, <2>6, <2>7, MadeIs
  <2>10. InOrder(m, b, n)
    BY <2>3, <2>7, <2>8, <2>9 DEF InOrder
  <2>11. /\ height(m) - height(n) \in -1 .. 1 /\ max(height(m), height(n)) + 1 = height(r) /\ height(r) <= MaxLevels
    BY <1>1, <2>6, <2>8, <2>9 DEF max
  <2>12. /\ Avl(Made(b, m, n)) /\ Made(b, m, n) # Leaf /\ height(Made(b, m, n)) = height(r)
         /\ Members(Made(b, m, n)) = {b} \cup Members(m) \cup Members(n)
    BY <2>3, <2>8, <2>9, <2>10, <2>11, MadeIs
  <2>13. Members(Made(b, m, n)) = {k} \cup Members(l) \cup Members(r)
    BY <1>3, <2>3, <2>8, <2>9, <2>12
  <2>14. left_rotate(WithRight(Made(k, l, r), right_rotate(r))) = Made(b, m, n)
    BY <1>1, <1>2, <1>3, <2>1, <2>2, <2>5, RotatedIs
  <2> QED BY <2>12, <2>13, <2>14 DEF Joins
<1> QED BY <1>1, <1>3, <1>4, <1>6, <1>7, <1>8

-----------------------------------------------------------------------------
\* Which rotation insert takes, and which delete_node.
LEMMA BalanceOf ==
    ASSUME TreeAssumption, MarksAssumption, NEW l, NEW r, NEW k \in Keys, Avl(l), Avl(r)
    PROVE  /\ Made(k, l, r) # Leaf /\ get_balance(Made(k, l, r)) = height(l) - height(r)
           /\ Made(k, l, r).data = k /\ Made(k, l, r).left = l /\ Made(k, l, r).right = r
           /\ height(l) \in Nat /\ height(r) \in Nat
<1>1. height(l) \in Nat /\ height(r) \in Nat
  BY HeightIs
<1>2. Made(k, l, r) \in NodesOver(TreeSet)
  <2>1. max(height(l), height(r)) + 1 \in Nat
    BY <1>1 DEF max
  <2> QED BY <2>1 DEF Made, NodeOf, NodesOver, Avl
<1>3. Made(k, l, r) # Leaf
  BY <1>2 DEF MarksAssumption
<1> QED BY <1>1, <1>3, MadeOf DEF get_balance

LEMMA InsertBalancedIs ==
    ASSUME TreeAssumption, MarksAssumption, NEW l, NEW r, NEW k \in Keys, Avl(l), Avl(r), NEW d \in Int
    PROVE  LET t == Made(k, l, r)
           IN  /\ height(l) - height(r) \in -1 .. 1 => InsertBalanced(t, d) = t
               /\ height(l) - height(r) > 1 /\ l.data \in Int =>
                    /\ d < l.data => InsertBalanced(t, d) = right_rotate(t)
                    /\ d > l.data => InsertBalanced(t, d) = right_rotate(WithLeft(t, left_rotate(l)))
               /\ height(l) - height(r) < -1 /\ r.data \in Int =>
                    /\ d > r.data => InsertBalanced(t, d) = left_rotate(t)
                    /\ d < r.data => InsertBalanced(t, d) = left_rotate(WithRight(t, right_rotate(r)))
<1>1. PICK t : t = Made(k, l, r)
  OBVIOUS
<1>2. get_balance(t) = height(l) - height(r) /\ t.left = l /\ t.right = r /\ height(l) \in Nat /\ height(r) \in Nat
  BY <1>1, BalanceOf
<1>3. PICK b \in Int : b = height(l) - height(r)
  BY <1>2
<1>4. get_balance(t) = b
  BY <1>2, <1>3
<1>5. b \in -1 .. 1 => InsertBalanced(t, d) = t
  BY <1>3, <1>4 DEF InsertBalanced
<1>6. ASSUME b > 1, l.data \in Int
      PROVE  /\ d < l.data => InsertBalanced(t, d) = right_rotate(t)
             /\ d > l.data => InsertBalanced(t, d) = right_rotate(WithLeft(t, left_rotate(l)))
  BY <1>2, <1>3, <1>4, <1>6 DEF InsertBalanced
<1>7. ASSUME b < -1, r.data \in Int
      PROVE  /\ d > r.data => InsertBalanced(t, d) = left_rotate(t)
             /\ d < r.data => InsertBalanced(t, d) = left_rotate(WithRight(t, right_rotate(r)))
  BY <1>2, <1>3, <1>4, <1>7 DEF InsertBalanced
<1> QED BY <1>1, <1>3, <1>5, <1>6, <1>7

LEMMA DeleteBalancedIs ==
    ASSUME TreeAssumption, MarksAssumption, NEW l, NEW r, NEW k \in Keys, Avl(l), Avl(r)
    PROVE  LET t == Made(k, l, r)
           IN  /\ height(l) - height(r) \in -1 .. 1 => DeleteBalanced(t) = t
               /\ height(l) - height(r) > 1 =>
                    /\ get_balance(l) \in {0, 1} => DeleteBalanced(t) = right_rotate(t)
                    /\ get_balance(l) = -1 => DeleteBalanced(t) = right_rotate(WithLeft(t, left_rotate(l)))
               /\ height(l) - height(r) < -1 =>
                    /\ get_balance(r) \in {-1, 0} => DeleteBalanced(t) = left_rotate(t)
                    /\ get_balance(r) = 1 => DeleteBalanced(t) = left_rotate(WithRight(t, right_rotate(r)))
<1>1. PICK t : t = Made(k, l, r)
  OBVIOUS
<1>2. get_balance(t) = height(l) - height(r) /\ t.left = l /\ t.right = r /\ height(l) \in Nat /\ height(r) \in Nat
  BY <1>1, BalanceOf
<1>3. PICK b \in Int : b = height(l) - height(r)
  BY <1>2
<1>4. get_balance(t) = b
  BY <1>2, <1>3
<1>5. b \in -1 .. 1 => DeleteBalanced(t) = t
  BY <1>3, <1>4 DEF DeleteBalanced
<1>6. ASSUME b > 1
      PROVE  /\ get_balance(l) \in {0, 1} => DeleteBalanced(t) = right_rotate(t)
             /\ get_balance(l) = -1 => DeleteBalanced(t) = right_rotate(WithLeft(t, left_rotate(l)))
  BY <1>2, <1>3, <1>4, <1>6 DEF DeleteBalanced
<1>7. ASSUME b < -1
      PROVE  /\ get_balance(r) \in {-1, 0} => DeleteBalanced(t) = left_rotate(t)
             /\ get_balance(r) = 1 => DeleteBalanced(t) = left_rotate(WithRight(t, right_rotate(r)))
  BY <1>2, <1>3, <1>4, <1>7 DEF DeleteBalanced
<1> QED BY <1>1, <1>3, <1>5, <1>6, <1>7

\* delete_node makes a balanced node of two subtrees that differ by two at most.
LEMMA RebalancedIs ==
    ASSUME TreeAssumption, MarksAssumption, NEW l, NEW r, NEW k \in Keys, Avl(l), Avl(r), InOrder(l, k, r),
           height(l) - height(r) \in -2 .. 2, max(height(l), height(r)) + 1 <= MaxLevels
    PROVE  LET w == DeleteBalanced(Made(k, l, r))
               h == max(height(l), height(r))
           IN  /\ Avl(w) /\ w # Leaf /\ Members(w) = {k} \cup Members(l) \cup Members(r)
               /\ height(w) \in {h, h + 1}
               /\ height(l) - height(r) \in -1 .. 1 => height(w) = h + 1
<1>1. height(l) \in Nat /\ height(r) \in Nat /\ MaxLevels \in Nat
  BY HeightIs
<1>2. ASSUME NEW t, Avl(t), t # Leaf  PROVE get_balance(t) \in -1 .. 1
  BY <1>2, PartsOf DEF Avl, get_balance
<1>3. CASE height(l) - height(r) \in -1 .. 1
  BY <1>3, DeleteBalancedIs, MadeIs
<1>4. CASE height(l) = height(r) + 2
  <2>1. max(height(l), height(r)) = height(l) /\ height(l) + 1 <= MaxLevels /\ height(l) - height(r) > 1 /\ l # Leaf
    BY <1>1, <1>4, LeftHigh DEF max
  <2>2. get_balance(l) \in {0, 1} \/ get_balance(l) = -1
    BY <1>2, <2>1
  <2>3. \/ Joins(DeleteBalanced(Made(k, l, r)), l, k, r, height(l) + 1)
        \/ Joins(DeleteBalanced(Made(k, l, r)), l, k, r, height(l))
    BY <1>4, <2>1, <2>2, LeftHigh, DeleteBalancedIs
  <2>4. ~(height(l) - height(r) \in -1 .. 1)
    BY <1>1, <1>4
  <2> QED BY <2>1, <2>3, <2>4 DEF Joins
<1>5. CASE height(r) = height(l) + 2
  <2>1. max(height(l), height(r)) = height(r) /\ height(r) + 1 <= MaxLevels /\ height(l) - height(r) < -1 /\ r # Leaf
    BY <1>1, <1>5, RightHigh DEF max
  <2>2. get_balance(r) \in {-1, 0} \/ get_balance(r) = 1
    BY <1>2, <2>1
  <2>3. \/ Joins(DeleteBalanced(Made(k, l, r)), l, k, r, height(r) + 1)
        \/ Joins(DeleteBalanced(Made(k, l, r)), l, k, r, height(r))
    BY <1>5, <2>1, <2>2, RightHigh, DeleteBalancedIs
  <2>4. ~(height(l) - height(r) \in -1 .. 1)
    BY <1>1, <1>5
  <2> QED BY <2>1, <2>3, <2>4 DEF Joins
<1> QED BY <1>1, <1>3, <1>4, <1>5

\* What insert returns, one call deep: where it grew, the root is as it was, and is
\* heavier on the side of d.
TreeInserted(t, d, w) ==
    /\ Avl(w) /\ w # Leaf /\ Members(w) = Members(t) \cup {d} /\ height(w) \in {height(t), height(t) + 1}
    /\ t # Leaf /\ height(w) = height(t) + 1 =>
         \/ d < w.data /\ get_balance(w) = 1
         \/ d > w.data /\ get_balance(w) = -1

LEMMA TreeInsertedLeft ==
    ASSUME TreeAssumption, MarksAssumption, NEW t, Avl(t), t # Leaf, height(t) < MaxLevels, NEW d \in Keys, d < t.data,
           TreeInserted(t.left, d, avl_insert(t.left, d))
    PROVE  TreeInserted(t, d, avl_insert(t, d))
<1>1. PICK k, l, r, m : k = t.data /\ l = t.left /\ r = t.right /\ m = avl_insert(l, d)
  OBVIOUS
<1>2. /\ Avl(l) /\ Avl(r) /\ k \in Keys /\ InOrder(l, k, r) /\ Members(t) = {k} \cup Members(l) \cup Members(r)
      /\ height(t) = max(height(l), height(r)) + 1 /\ height(l) - height(r) \in -1 .. 1 /\ t \in TreeSet
      /\ k \in Int /\ d \in Int /\ d < k
  BY <1>1, PartsOf DEF Avl, InOrder, height, TreeAssumption
<1>3. /\ Avl(m) /\ m # Leaf /\ Members(m) = Members(l) \cup {d} /\ height(m) \in {height(l), height(l) + 1}
      /\ l # Leaf /\ height(m) = height(l) + 1 =>
           \/ d < m.data /\ get_balance(m) = 1
           \/ d > m.data /\ get_balance(m) = -1
  BY <1>1 DEF TreeInserted
<1>4. avl_insert(t, d) = InsertBalanced(Made(k, m, r), d)
  <2>1. avl_insert(t, d) = InsertBalanced(Updated(WithLeft(t, m)), d)
    BY <1>1, <1>2, AvlInsertIs
  <2> QED BY <1>1, <1>2, <2>1, UpdatedIs
<1>5. /\ height(l) \in Nat /\ height(r) \in Nat /\ height(m) \in Nat /\ MaxLevels \in Nat /\ height(t) \in Nat
      /\ (height(l) = 0 <=> l = Leaf) /\ m.data \in Int
  BY <1>2, <1>3, HeightIs, PartsOf DEF Avl
<1>6. InOrder(m, k, r)
  BY <1>2, <1>3 DEF InOrder
<1>7. CASE height(m) - height(r) \in -1 .. 1
  <2>1. PICK w : w = Made(k, m, r)
    OBVIOUS
  <2>2. max(height(m), height(r)) + 1 \in {height(t), height(t) + 1} /\ max(height(m), height(r)) + 1 <= MaxLevels
    BY <1>2, <1>3, <1>5 DEF max
  <2>3. /\ Avl(w) /\ w # Leaf /\ height(w) = max(height(m), height(r)) + 1
        /\ Members(w) = {k} \cup Members(m) \cup Members(r)
    BY <1>2, <1>3, <1>6, <1>7, <2>1, <2>2, MadeIs
  <2>4. avl_insert(t, d) = w
    BY <1>2, <1>3, <1>4, <1>7, <2>1, InsertBalancedIs
  <2>5. w.data = k /\ get_balance(w) = height(m) - height(r)
    BY <1>2, <1>3, <2>1, BalanceOf
  <2>6. height(w) = height(t) + 1 => height(m) - height(r) = 1
    BY <1>2, <1>3, <1>5, <1>7, <2>3 DEF max
  <2>7. Members(w) = Members(t) \cup {d}
    BY <1>2, <1>3, <2>3
  <2> QED BY <1>2, <2>2, <2>3, <2>4, <2>5, <2>6, <2>7 DEF TreeInserted
<1>8. CASE ~(height(m) - height(r) \in -1 .. 1)
  <2>1. /\ height(m) = height(r) + 2 /\ height(m) = height(l) + 1 /\ height(t) = height(m) /\ height(m) + 1 <= MaxLevels
        /\ height(m) - height(r) > 1 /\ l # Leaf
    <3>1. height(m) = height(r) + 2 /\ height(m) = height(l) + 1
      BY <1>2, <1>3, <1>5, <1>8
    <3> QED BY <1>2, <1>5, <3>1 DEF max
  <2>2. Joins(avl_insert(t, d), m, k, r, height(m))
    <3>1. CASE d < m.data /\ get_balance(m) = 1
      BY <1>2, <1>3, <1>4, <1>5, <1>6, <2>1, <3>1, LeftHigh, InsertBalancedIs
    <3>2. CASE d > m.data /\ get_balance(m) = -1
      BY <1>2, <1>3, <1>4, <1>5, <1>6, <2>1, <3>2, LeftHigh, InsertBalancedIs
    <3> QED BY <1>3, <2>1, <3>1, <3>2
  <2>3. Members(avl_insert(t, d)) = Members(t) \cup {d}
    BY <1>2, <1>3, <2>2 DEF Joins
  <2>4. height(avl_insert(t, d)) = height(t) /\ height(t) # height(t) + 1
    BY <1>5, <2>1, <2>2 DEF Joins
  <2> QED BY <2>2, <2>3, <2>4 DEF Joins, TreeInserted
<1> QED BY <1>7, <1>8

LEMMA TreeInsertedRight ==
    ASSUME TreeAssumption, MarksAssumption, NEW t, Avl(t), t # Leaf, height(t) < MaxLevels, NEW d \in Keys, d > t.data,
           TreeInserted(t.right, d, avl_insert(t.right, d))
    PROVE  TreeInserted(t, d, avl_insert(t, d))
<1>1. PICK k, l, r, m : k = t.data /\ l = t.left /\ r = t.right /\ m = avl_insert(r, d)
  OBVIOUS
<1>2. /\ Avl(l) /\ Avl(r) /\ k \in Keys /\ InOrder(l, k, r) /\ Members(t) = {k} \cup Members(l) \cup Members(r)
      /\ height(t) = max(height(l), height(r)) + 1 /\ height(l) - height(r) \in -1 .. 1 /\ t \in TreeSet
      /\ k \in Int /\ d \in Int /\ d > k
  BY <1>1, PartsOf DEF Avl, InOrder, height, TreeAssumption
<1>3. /\ Avl(m) /\ m # Leaf /\ Members(m) = Members(r) \cup {d} /\ height(m) \in {height(r), height(r) + 1}
      /\ r # Leaf /\ height(m) = height(r) + 1 =>
           \/ d < m.data /\ get_balance(m) = 1
           \/ d > m.data /\ get_balance(m) = -1
  BY <1>1 DEF TreeInserted
<1>4. avl_insert(t, d) = InsertBalanced(Made(k, l, m), d)
  <2>1. avl_insert(t, d) = InsertBalanced(Updated(WithRight(t, m)), d)
    BY <1>1, <1>2, AvlInsertIs
  <2> QED BY <1>1, <1>2, <2>1, UpdatedIs
<1>5. /\ height(l) \in Nat /\ height(r) \in Nat /\ height(m) \in Nat /\ MaxLevels \in Nat /\ height(t) \in Nat
      /\ (height(r) = 0 <=> r = Leaf) /\ m.data \in Int
  BY <1>2, <1>3, HeightIs, PartsOf DEF Avl
<1>6. InOrder(l, k, m)
  BY <1>2, <1>3 DEF InOrder
<1>7. CASE height(l) - height(m) \in -1 .. 1
  <2>1. PICK w : w = Made(k, l, m)
    OBVIOUS
  <2>2. max(height(l), height(m)) + 1 \in {height(t), height(t) + 1} /\ max(height(l), height(m)) + 1 <= MaxLevels
    BY <1>2, <1>3, <1>5 DEF max
  <2>3. /\ Avl(w) /\ w # Leaf /\ height(w) = max(height(l), height(m)) + 1
        /\ Members(w) = {k} \cup Members(l) \cup Members(m)
    BY <1>2, <1>3, <1>6, <1>7, <2>1, <2>2, MadeIs
  <2>4. avl_insert(t, d) = w
    BY <1>2, <1>3, <1>4, <1>7, <2>1, InsertBalancedIs
  <2>5. w.data = k /\ get_balance(w) = height(l) - height(m)
    BY <1>2, <1>3, <2>1, BalanceOf
  <2>6. height(w) = height(t) + 1 => height(l) - height(m) = -1
    BY <1>2, <1>3, <1>5, <1>7, <2>3 DEF max
  <2>7. Members(w) = Members(t) \cup {d}
    BY <1>2, <1>3, <2>3
  <2> QED BY <1>2, <2>2, <2>3, <2>4, <2>5, <2>6, <2>7 DEF TreeInserted
<1>8. CASE ~(height(l) - height(m) \in -1 .. 1)
  <2>1. /\ height(m) = height(l) + 2 /\ height(m) = height(r) + 1 /\ height(t) = height(m) /\ height(m) + 1 <= MaxLevels
        /\ height(l) - height(m) < -1 /\ r # Leaf
    <3>1. height(m) = height(l) + 2 /\ height(m) = height(r) + 1
      BY <1>2, <1>3, <1>5, <1>8
    <3> QED BY <1>2, <1>5, <3>1 DEF max
  <2>2. Joins(avl_insert(t, d), l, k, m, height(m))
    <3>1. CASE d > m.data /\ get_balance(m) = -1
      BY <1>2, <1>3, <1>4, <1>5, <1>6, <2>1, <3>1, RightHigh, InsertBalancedIs
    <3>2. CASE d < m.data /\ get_balance(m) = 1
      BY <1>2, <1>3, <1>4, <1>5, <1>6, <2>1, <3>2, RightHigh, InsertBalancedIs
    <3> QED BY <1>3, <2>1, <3>1, <3>2
  <2>3. Members(avl_insert(t, d)) = Members(t) \cup {d}
    BY <1>2, <1>3, <2>2 DEF Joins
  <2>4. height(avl_insert(t, d)) = height(t) /\ height(t) # height(t) + 1
    BY <1>5, <2>1, <2>2 DEF Joins
  <2> QED BY <2>2, <2>3, <2>4 DEF Joins, TreeInserted
<1> QED BY <1>7, <1>8

LEMMA InsertKeepsAvl ==
    ASSUME TreeAssumption, MarksAssumption, NEW d \in Keys
    PROVE  \A t : Avl(t) /\ height(t) < MaxLevels => TreeInserted(t, d, avl_insert(t, d))
<1> DEFINE S == {t \in TreeSet : Avl(t) /\ height(t) < MaxLevels => TreeInserted(t, d, avl_insert(t, d))}
<1>1. ASSUME height(Leaf) < MaxLevels  PROVE TreeInserted(Leaf, d, avl_insert(Leaf, d))
  <2>1. Avl(Leaf) /\ height(Leaf) = 0 /\ Leaf \in TreeSet /\ Members(Leaf) = {} /\ MaxLevels \in Nat
    BY PartsOfLeaf, TreesLevel DEF Avl
  <2>2. InOrder(Leaf, d, Leaf) /\ max(0, 0) = 0
    BY <2>1 DEF InOrder, max
  <2>3. Made(d, Leaf, Leaf) = AvlNode(d)
    BY <2>1, <2>2 DEF Made, NodeOf, AvlNode
  <2>4. /\ Avl(Made(d, Leaf, Leaf)) /\ Made(d, Leaf, Leaf) # Leaf
        /\ height(Made(d, Leaf, Leaf)) = 1 /\ Members(Made(d, Leaf, Leaf)) = {d}
    BY <1>1, <2>1, <2>2, MadeIs
  <2> QED BY <2>1, <2>3, <2>4, AvlInsertIs DEF TreeInserted
<1>2. ASSUME NEW t \in TreeSet \ {Leaf}, t.left \in S, t.right \in S, Avl(t), height(t) < MaxLevels
      PROVE  TreeInserted(t, d, avl_insert(t, d))
  <2>1. /\ Avl(t.left) /\ Avl(t.right) /\ t.data \in Int /\ d \in Int /\ Members(t) = {t.data} \cup Members(t.left) \cup Members(t.right)
        /\ height(t) = max(height(t.left), height(t.right)) + 1
    BY <1>2, PartsOf DEF Avl, height, TreeAssumption
  <2>2. /\ height(t.left) \in Nat /\ height(t.right) \in Nat /\ height(t) \in Nat /\ MaxLevels \in Nat
    BY <1>2, <2>1, HeightIs
  <2>3. height(t.left) < MaxLevels /\ height(t.right) < MaxLevels
    BY <1>2, <2>1, <2>2 DEF max
  <2>4. CASE d < t.data
    BY <1>2, <2>1, <2>3, <2>4, TreeInsertedLeft
  <2>5. CASE d > t.data
    BY <1>2, <2>1, <2>3, <2>5, TreeInsertedRight
  <2>6. CASE d = t.data
    <3>1. avl_insert(t, d) = t
      BY <1>2, <2>6, AvlInsertIs
    <3>2. Members(t) = Members(t) \cup {d} /\ height(t) # height(t) + 1
      BY <2>1, <2>2, <2>6
    <3> QED BY <1>2, <3>1, <3>2 DEF TreeInserted
  <2> QED BY <2>1, <2>4, <2>5, <2>6
<1>3. TreeSet \subseteq S
  <2>1. Leaf \in S
    BY <1>1, PartsOfLeaf
  <2>2. \A t \in TreeSet \ {Leaf} : t.left \in S /\ t.right \in S => t \in S
    BY <1>2
  <2> HIDE DEF S
  <2> QED BY <2>1, <2>2, TreeClimb
<1> QED BY <1>3 DEF Avl

\* The key of min_node is the least.
LEMMA LeastKey ==
    ASSUME TreeAssumption, MarksAssumption
    PROVE  \A t \in TreeSet : t # Leaf /\ (Ascending(t) \/ Strictly(t)) =>
              /\ min_node[t].data \in Members(t)
              /\ \A v \in Members(t) : min_node[t].data <= v
<1> DEFINE S == {t \in TreeSet : t # Leaf /\ (Ascending(t) \/ Strictly(t)) =>
                    /\ min_node[t].data \in Members(t)
                    /\ \A v \in Members(t) : min_node[t].data <= v}
<1>1. Leaf \in S
  BY PartsOfLeaf
<1>2. ASSUME NEW t \in TreeSet \ {Leaf}, t.left \in S, Ascending(t) \/ Strictly(t)
      PROVE  /\ min_node[t].data \in Members(t)
             /\ \A v \in Members(t) : min_node[t].data <= v
  <2>1. /\ Members(t) = {t.data} \cup Members(t.left) \cup Members(t.right) /\ t.data \in Int
        /\ Members(t) \subseteq Int /\ t.left \in TreeSet
    BY PartsOf, MembersAreKeys
  <2>2. /\ Ascending(t.left) \/ Strictly(t.left)
        /\ \A v \in Members(t.left) : v <= t.data
        /\ \A v \in Members(t.right) : t.data <= v
    <3>1. CASE Ascending(t)
      BY <3>1, PartsOf
    <3>2. CASE Strictly(t)
      <4>1. /\ Strictly(t.left) /\ (\A v \in Members(t.left) : v < t.data) /\ \A v \in Members(t.right) : t.data < v
        BY <3>2, PartsOf
      <4> QED BY <2>1, <4>1
    <3> QED BY <1>2, <3>1, <3>2
  <2>3. CASE t.left = Leaf
    <3>1. min_node[t] = t /\ Members(t.left) = {}
      BY <2>3, MinNodeIs, PartsOfLeaf
    <3> QED BY <2>1, <2>2, <3>1
  <2>4. CASE t.left # Leaf
    <3>1. min_node[t] = min_node[t.left]
      BY <2>4, MinNodeIs
    <3>2. min_node[t.left].data \in Members(t.left) /\ \A v \in Members(t.left) : min_node[t.left].data <= v
      BY <1>2, <2>2, <2>4
    <3> HIDE DEF S
    <3> QED BY <2>1, <2>2, <3>1, <3>2
  <2> QED BY <2>3, <2>4
<1>3. TreeSet \subseteq S
  <2>1. \A t \in TreeSet \ {Leaf} : t.left \in S /\ t.right \in S => t \in S
    BY <1>2
  <2> HIDE DEF S
  <2> QED BY <1>1, <2>1, TreeClimb
<1> QED BY <1>3

\* What delete_node returns, one call deep.
TreeDeleted(t, d, w) ==
    /\ Avl(w) /\ Members(w) \subseteq Members(t) /\ Members(t) \ {d} \subseteq Members(w)
    /\ height(w) \in {height(t), height(t) - 1}

LEMMA TreeDeletedOne ==
    ASSUME TreeAssumption, MarksAssumption, NEW t, Avl(t), t # Leaf, NEW d \in Keys,
           TreeDeleted(t.left, d, avl_delete(t.left, d)), TreeDeleted(t.right, d, avl_delete(t.right, d))
    PROVE  TreeDeleted(t, d, avl_delete(t, d))
<1>1. PICK k, l, r : k = t.data /\ l = t.left /\ r = t.right
  OBVIOUS
<1>2. /\ Avl(l) /\ Avl(r) /\ k \in Keys /\ InOrder(l, k, r) /\ Members(t) = {k} \cup Members(l) \cup Members(r)
      /\ height(t) = max(height(l), height(r)) + 1 /\ height(l) - height(r) \in -1 .. 1 /\ t \in TreeSet
      /\ k \in Int /\ d \in Int
  BY <1>1, PartsOf DEF Avl, InOrder, height, TreeAssumption
<1>3. /\ height(l) \in Nat /\ height(r) \in Nat /\ MaxLevels \in Nat /\ height(t) \in 0 .. MaxLevels
      /\ Members(l) \subseteq Int /\ Members(r) \subseteq Int
  BY <1>2, HeightIs, MembersAreKeys DEF Avl
<1>4. CASE d = k /\ l = Leaf
  <2>1. avl_delete(t, d) = r /\ Members(l) = {} /\ height(l) = 0
    BY <1>1, <1>2, <1>4, AvlDeleteIs, PartsOfLeaf
  <2>2. height(r) = height(t) - 1
    BY <1>2, <1>3, <2>1 DEF max
  <2> QED BY <1>2, <1>4, <2>1, <2>2 DEF TreeDeleted
<1>5. CASE d = k /\ l # Leaf /\ r = Leaf
  <2>1. avl_delete(t, d) = l /\ Members(r) = {} /\ height(r) = 0
    BY <1>1, <1>2, <1>5, AvlDeleteIs, PartsOfLeaf
  <2>2. height(l) = height(t) - 1
    BY <1>2, <1>3, <2>1 DEF max
  <2> QED BY <1>2, <1>5, <2>1, <2>2 DEF TreeDeleted
<1>6. ASSUME NEW m, NEW n, NEW v \in Keys, Avl(m), Avl(n), InOrder(m, v, n),
             height(m) \in {height(l), height(l) - 1}, height(n) \in {height(r), height(r) - 1},
             height(m) = height(l) \/ height(n) = height(r),
             {v} \cup Members(m) \cup Members(n) \subseteq Members(t),
             Members(t) \ {d} \subseteq {v} \cup Members(m) \cup Members(n)
      PROVE  TreeDeleted(t, d, DeleteBalanced(Made(v, m, n)))
  <2>1. height(m) \in Nat /\ height(n) \in Nat
    BY <1>6, HeightIs
  <2>2. height(m) - height(n) \in -2 .. 2 /\ max(height(m), height(n)) + 1 <= MaxLevels
    BY <1>2, <1>3, <1>6, <2>1 DEF max
  <2>3. PICK w, h : w = DeleteBalanced(Made(v, m, n)) /\ h = max(height(m), height(n))
    OBVIOUS
  <2>4. /\ Avl(w) /\ Members(w) = {v} \cup Members(m) \cup Members(n) /\ height(w) \in {h, h + 1}
        /\ height(m) - height(n) \in -1 .. 1 => height(w) = h + 1
    BY <1>6, <2>2, <2>3, RebalancedIs
  <2>5. height(w) \in {height(t), height(t) - 1}
    <3>1. h + 1 \in {height(t), height(t) - 1}
      BY <1>2, <1>3, <1>6, <2>1, <2>3 DEF max
    <3>2. ~(height(m) - height(n) \in -1 .. 1) => h + 1 = height(t)
      BY <1>2, <1>3, <1>6, <2>1, <2>3 DEF max
    <3> QED BY <1>3, <2>1, <2>3, <2>4, <3>1, <3>2 DEF max
  <2> QED BY <1>6, <2>3, <2>4, <2>5 DEF TreeDeleted
<1>7. CASE d < k
  <2>1. PICK m : m = avl_delete(l, d)
    OBVIOUS
  <2>2. TreeDeleted(l, d, m)
    BY <1>1, <2>1
  <2>3. avl_delete(t, d) = DeleteBalanced(Made(k, m, r))
    <3>1. avl_delete(t, d) = DeleteBalanced(Updated(WithLeft(t, m)))
      BY <1>1, <1>2, <1>7, <2>1, AvlDeleteIs
    <3> QED BY <1>1, <1>2, <3>1, UpdatedIs
  <2>4. InOrder(m, k, r)
    BY <1>2, <2>2 DEF InOrder, TreeDeleted
  <2>5. /\ {k} \cup Members(m) \cup Members(r) \subseteq Members(t)
        /\ Members(t) \ {d} \subseteq {k} \cup Members(m) \cup Members(r)
    BY <1>2, <2>2 DEF TreeDeleted
  <2> QED BY <1>2, <1>6, <2>2, <2>3, <2>4, <2>5 DEF TreeDeleted
<1>8. CASE d > k
  <2>1. PICK n : n = avl_delete(r, d)
    OBVIOUS
  <2>2. TreeDeleted(r, d, n)
    BY <1>1, <2>1
  <2>3. avl_delete(t, d) = DeleteBalanced(Made(k, l, n))
    <3>1. avl_delete(t, d) = DeleteBalanced(Updated(WithRight(t, n)))
      BY <1>1, <1>2, <1>8, <2>1, AvlDeleteIs
    <3> QED BY <1>1, <1>2, <3>1, UpdatedIs
  <2>4. InOrder(l, k, n)
    BY <1>2, <2>2 DEF InOrder, TreeDeleted
  <2>5. /\ {k} \cup Members(l) \cup Members(n) \subseteq Members(t)
        /\ Members(t) \ {d} \subseteq {k} \cup Members(l) \cup Members(n)
    BY <1>2, <2>2 DEF TreeDeleted
  <2> QED BY <1>2, <1>6, <2>2, <2>3, <2>4, <2>5 DEF TreeDeleted
<1>9. CASE d = k /\ l # Leaf /\ r # Leaf
  <2>1. PICK n, v : n = avl_delete(r, d) /\ v = min_node[r].data
    OBVIOUS
  <2>2. TreeDeleted(r, d, n)
    BY <1>1, <2>1
  <2>3. avl_delete(t, d) = DeleteBalanced(Made(v, l, n))
    <3>1. avl_delete(t, d) = DeleteBalanced(Updated(WithRight(WithData(t, v), n)))
      BY <1>1, <1>2, <1>9, <2>1, AvlDeleteIs
    <3> QED BY <1>1, <1>2, <3>1, UpdatedIs
  <2>4. v \in Members(r) /\ (\A u \in Members(r) : v <= u) /\ v \in Keys /\ v \in Int
    BY <1>2, <1>3, <1>9, <2>1, LeastKey, MembersAreKeys DEF Avl
  <2>5. InOrder(l, v, n)
    <3>1. (\A u \in Members(l) : u <= k) /\ k <= v
      BY <1>2, <2>4 DEF InOrder
    <3>2. \A u \in Members(l) : u <= v
      BY <1>2, <1>3, <2>4, <3>1
    <3> QED BY <2>2, <2>4, <3>2 DEF InOrder, TreeDeleted
  <2>6. /\ {v} \cup Members(l) \cup Members(n) \subseteq Members(t)
        /\ Members(t) \ {d} \subseteq {v} \cup Members(l) \cup Members(n)
    BY <1>2, <1>9, <2>2, <2>4 DEF TreeDeleted
  <2> QED BY <1>2, <1>6, <2>2, <2>3, <2>4, <2>5, <2>6 DEF TreeDeleted
<1> QED BY <1>2, <1>4, <1>5, <1>7, <1>8, <1>9

LEMMA DeleteKeepsAvl ==
    ASSUME TreeAssumption, MarksAssumption, NEW d \in Keys
    PROVE  \A t : Avl(t) => TreeDeleted(t, d, avl_delete(t, d))
<1> DEFINE S == {t \in TreeSet : Avl(t) => TreeDeleted(t, d, avl_delete(t, d))}
<1>1. Leaf \in S
  <2>1. avl_delete(Leaf, d) = Leaf /\ Avl(Leaf)
    BY AvlDeleteIs, PartsOfLeaf DEF Avl
  <2> QED BY <2>1, PartsOfLeaf DEF TreeDeleted
<1>2. ASSUME NEW t \in TreeSet \ {Leaf}, t.left \in S, t.right \in S, Avl(t)
      PROVE  TreeDeleted(t, d, avl_delete(t, d))
  <2>1. Avl(t.left) /\ Avl(t.right)
    BY <1>2, PartsOf DEF Avl
  <2> QED BY <1>2, <2>1, TreeDeletedOne
<1>3. TreeSet \subseteq S
  <2>1. \A t \in TreeSet \ {Leaf} : t.left \in S /\ t.right \in S => t \in S
    BY <1>2
  <2> HIDE DEF S
  <2> QED BY <1>1, <2>1, TreeClimb
<1> QED BY <1>3 DEF Avl

-----------------------------------------------------------------------------
\* In both trees lookup goes down the way that k can only be on.
LEMMA LookupFinds ==
    ASSUME TreeAssumption, MarksAssumption, NEW k \in Keys
    PROVE  \A t \in TreeSet : Ascending(t) \/ Strictly(t) =>
              (lookup(t, k) <=> k \in Members(t))
<1> DEFINE S == {t \in TreeSet : Ascending(t) \/ Strictly(t) =>
                    (lookup(t, k) <=> k \in Members(t))}
<1>1. Leaf \in S
  BY LookIs, PartsOfLeaf
<1>2. ASSUME NEW t \in TreeSet \ {Leaf}, t.left \in S, t.right \in S, Ascending(t) \/ Strictly(t)
      PROVE  (lookup(t, k) <=> k \in Members(t))
  <2>1. /\ Members(t) = {t.data} \cup Members(t.left) \cup Members(t.right) /\ t.data \in Int /\ k \in Int
        /\ Members(t) \subseteq Int /\ t.left \in TreeSet /\ t.right \in TreeSet
    BY PartsOf, MembersAreKeys DEF TreeAssumption
  <2>2. /\ Ascending(t.left) \/ Strictly(t.left)
        /\ Ascending(t.right) \/ Strictly(t.right)
        /\ \A v \in Members(t.left) : v <= t.data
        /\ \A v \in Members(t.right) : t.data <= v
    <3>1. CASE Ascending(t)
      BY <3>1, PartsOf
    <3>2. CASE Strictly(t)
      <4>1. /\ Strictly(t.left) /\ Strictly(t.right)
            /\ (\A v \in Members(t.left) : v < t.data) /\ \A v \in Members(t.right) : t.data < v
        BY <3>2, PartsOf
      <4> QED BY <2>1, <4>1
    <3> QED BY <1>2, <3>1, <3>2
  <2>3. /\ lookup(t.left, k) <=> k \in Members(t.left)
        /\ lookup(t.right, k) <=> k \in Members(t.right)
    BY <1>2, <2>2
  <2> HIDE DEF S
  <2>4. CASE t.data = k
    BY <2>1, <2>4, LookIs
  <2>5. CASE k < t.data
    <3>1. k \notin Members(t.right) /\ k # t.data
      BY <2>1, <2>2, <2>5
    <3>2. lookup(t, k) = lookup(t.left, k)
      BY <2>5, LookIs
    <3> QED BY <2>1, <2>3, <3>1, <3>2
  <2>6. CASE k > t.data
    <3>1. k \notin Members(t.left) /\ k # t.data
      BY <2>1, <2>2, <2>6
    <3>2. lookup(t, k) = lookup(t.right, k)
      BY <2>6, LookIs
    <3> QED BY <2>1, <2>3, <3>1, <3>2
  <2> QED BY <2>1, <2>4, <2>5, <2>6
<1>3. TreeSet \subseteq S
  <2>1. \A t \in TreeSet \ {Leaf} : t.left \in S /\ t.right \in S => t \in S
    BY <1>2
  <2> HIDE DEF S
  <2> QED BY <1>1, <2>1, TreeClimb
<1> QED BY <1>3

\* A node of BInaryTree.c of which one part is changed.
LEMMA WithIs ==
    ASSUME TreeAssumption, MarksAssumption, NEW n \in 1 .. MaxLevels, NEW t \in TreesUpto[n], t # Leaf,
           NEW S, TreesUpto[n - 1] \subseteq S
    PROVE  /\ \A l \in S : WithLeft(t, l) = NodeOf(t.data, t.height, l, t.right) /\ WithLeft(t, l) \in NodesOver(S)
           /\ \A r \in S : WithRight(t, r) = NodeOf(t.data, t.height, t.left, r) /\ WithRight(t, r) \in NodesOver(S)
           /\ \A k \in Keys : \A r \in S : /\ WithRight(WithData(t, k), r) = NodeOf(k, t.height, t.left, r)
                                           /\ WithRight(WithData(t, k), r) \in NodesOver(S)
<1>1. /\ t.left \in S /\ t.right \in S /\ t.data \in Keys /\ t.height \in Nat /\ t = NodeOf(t.data, t.height, t.left, t.right)
  <2>1. n \in 0 .. MaxLevels
    BY TreesLevel
  <2> QED BY <2>1, NodeIs DEF NodeOf
<1>2. ASSUME NEW k \in Keys, NEW l \in S, NEW r \in S  PROVE NodeOf(k, t.height, l, r) \in NodesOver(S)
  BY <1>1 DEF NodeOf, NodesOver
<1>3. \A l \in S : WithLeft(t, l) = NodeOf(t.data, t.height, l, t.right)
  BY <1>1, ChangedIs
<1>4. \A r \in S : WithRight(t, r) = NodeOf(t.data, t.height, t.left, r)
  BY <1>1, ChangedIs
<1>5. ASSUME NEW k \in Keys, NEW r \in S  PROVE WithRight(WithData(t, k), r) = NodeOf(k, t.height, t.left, r)
  <2>1. WithData(t, k) = NodeOf(k, t.height, t.left, t.right)
    BY <1>1, ChangedIs
  <2> QED BY <2>1, ChangedIs
<1> QED BY <1>1, <1>2, <1>3, <1>4, <1>5

LEMMA InsertGrows ==
    ASSUME TreeAssumption, MarksAssumption, NEW d \in Keys
    PROVE  \A n \in 0 .. MaxLevels : \A t \in TreesUpto[n] : bst_insert(t, d) \in NodesOver(TreesUpto[n])
<1> DEFINE All == {n \in 0 .. MaxLevels : \A t \in TreesUpto[n] : bst_insert(t, d) \in NodesOver(TreesUpto[n])}
<1>1. /\ MaxLevels \in Nat /\ TreesUpto[0] = {Leaf} /\ Leaf \in TreeSet
      /\ \A n \in 1 .. MaxLevels : TreesUpto[n] = {Leaf} \cup NodesOver(TreesUpto[n - 1])
  BY TreesLevel, PartsOfLeaf
<1>2. \A S : Leaf \in S => bst_insert(Leaf, d) \in NodesOver(S)
  <2>1. bst_insert(Leaf, d) = Node(d)
    BY <1>1, BstInsertIs
  <2> QED BY <2>1 DEF Node, NodesOver
<1>3. 0 \in All
  BY <1>1, <1>2
<1>4. ASSUME NEW n \in 1 .. MaxLevels, n - 1 \in All  PROVE n \in All
  <2>1. /\ n \in 0 .. MaxLevels /\ n - 1 \in 0 .. MaxLevels /\ Leaf \in TreesUpto[n]
        /\ TreesUpto[n - 1] \subseteq TreesUpto[n] /\ TreesUpto[n] \subseteq TreeSet
    BY <1>1, TreesGrow
  <2>2. \A s \in TreesUpto[n - 1] : bst_insert(s, d) \in NodesOver(TreesUpto[n - 1])
    BY <1>4
  <2> HIDE DEF All
  <2>3. ASSUME NEW t \in TreesUpto[n]  PROVE bst_insert(t, d) \in NodesOver(TreesUpto[n])
    <3>1. CASE t = Leaf
      BY <1>2, <2>1, <3>1
    <3>2. CASE t # Leaf
      <4>1. /\ t.left \in TreesUpto[n - 1] /\ t.right \in TreesUpto[n - 1] /\ t \in NodesOver(TreesUpto[n - 1])
            /\ t \in TreeSet /\ t.data \in Int /\ d \in Int
        BY <2>1, <3>2, NodeIs DEF TreeAssumption
      <4>2. bst_insert(t.left, d) \in TreesUpto[n] /\ bst_insert(t.right, d) \in TreesUpto[n]
        BY <1>1, <2>2, <4>1
      <4>3. CASE d = t.data
        <5>1. NodesOver(TreesUpto[n - 1]) \subseteq NodesOver(TreesUpto[n])
          BY <2>1, NodesMore
        <5> QED BY <3>2, <4>1, <4>3, <5>1, BstInsertIs
      <4>4. CASE d < t.data
        BY <2>1, <3>2, <4>1, <4>2, <4>4, BstInsertIs, WithIs
      <4>5. CASE d > t.data
        BY <2>1, <3>2, <4>1, <4>2, <4>5, BstInsertIs, WithIs
      <4> QED BY <4>1, <4>3, <4>4, <4>5
    <3> QED BY <3>1, <3>2
  <2> QED BY <2>1, <2>3 DEF All
<1> HIDE DEF All
<1>5. \A n \in 0 .. MaxLevels : n \in All
  BY <1>1, <1>3, <1>4, Climb
<1> QED BY <1>5 DEF All

LEMMA BstInsertKeepsOrder ==
    ASSUME TreeAssumption, MarksAssumption, NEW d \in Keys
    PROVE  \A t \in TreeSet : Strictly(t) /\ bst_insert(t, d) \in TreeSet =>
              Strictly(bst_insert(t, d)) /\ Members(bst_insert(t, d)) = Members(t) \cup {d}
<1> DEFINE S == {t \in TreeSet : Strictly(t) /\ bst_insert(t, d) \in TreeSet =>
                    Strictly(bst_insert(t, d)) /\ Members(bst_insert(t, d)) = Members(t) \cup {d}}
<1>1. MaxLevels \in 0 .. MaxLevels /\ Leaf \in TreeSet /\ Members(Leaf) = {} /\ Strictly(Leaf)
  BY TreesLevel, PartsOfLeaf
<1>2. \A t \in TreeSet : bst_insert(t, d) # Leaf
  BY <1>1, InsertGrows DEF MarksAssumption, TreeSet
<1>3. Leaf \in S
  <2>1. ASSUME bst_insert(Leaf, d) \in TreeSet
        PROVE  Strictly(bst_insert(Leaf, d)) /\ Members(bst_insert(Leaf, d)) = Members(Leaf) \cup {d}
    <3>1. PICK w : w = bst_insert(Leaf, d)
      OBVIOUS
    <3>2. w = Node(d) /\ w # Leaf /\ w \in TreeSet
      BY <1>1, <1>2, <2>1, <3>1, BstInsertIs
    <3>3. w.data = d /\ w.left = Leaf /\ w.right = Leaf
      BY <3>2 DEF Node
    <3> QED BY <1>1, <3>1, <3>2, <3>3, PartsOf
  <2> QED BY <1>1, <2>1
<1>4. ASSUME NEW t \in TreeSet \ {Leaf}, t.left \in S, t.right \in S, Strictly(t), bst_insert(t, d) \in TreeSet
      PROVE  Strictly(bst_insert(t, d)) /\ Members(bst_insert(t, d)) = Members(t) \cup {d}
  <2>1. PICK w, l, r : w = bst_insert(t, d) /\ l = bst_insert(t.left, d) /\ r = bst_insert(t.right, d)
    OBVIOUS
  <2>2. /\ Members(t) = {t.data} \cup Members(t.left) \cup Members(t.right) /\ t.data \in Int /\ d \in Int
        /\ Strictly(t.left) /\ Strictly(t.right) /\ w # Leaf /\ w \in TreeSet
        /\ (\A v \in Members(t.left) : v < t.data) /\ \A v \in Members(t.right) : t.data < v
    BY <1>2, <1>4, <2>1, PartsOf DEF TreeAssumption
  <2>3. t = NodeOf(t.data, t.height, t.left, t.right)
    BY PartsOf
  <2>4. CASE d = t.data
    BY <1>4, <2>2, <2>4, BstInsertIs
  <2>5. CASE d < t.data
    <3>1. w = WithLeft(t, l)
      BY <2>1, <2>5, BstInsertIs
    <3>2. w = NodeOf(t.data, t.height, l, t.right)
      BY <2>3, <3>1, ChangedIs
    <3>3. w.data = t.data /\ w.left = l /\ w.right = t.right
      BY <3>2, ChangedIs
    <3>4. l \in TreeSet
      BY <2>2, <3>3, PartsOf
    <3>5. Strictly(l) /\ Members(l) = Members(t.left) \cup {d}
      BY <1>4, <2>1, <2>2, <3>4
    <3> HIDE DEF S
    <3>6. \A v \in Members(l) : v < t.data
      BY <2>2, <2>5, <3>5
    <3> QED BY <2>1, <2>2, <3>3, <3>5, <3>6, PartsOf
  <2>6. CASE d > t.data
    <3>1. w = WithRight(t, r)
      BY <2>1, <2>6, BstInsertIs
    <3>2. w = NodeOf(t.data, t.height, t.left, r)
      BY <2>3, <3>1, ChangedIs
    <3>3. w.data = t.data /\ w.left = t.left /\ w.right = r
      BY <3>2, ChangedIs
    <3>4. r \in TreeSet
      BY <2>2, <3>3, PartsOf
    <3>5. Strictly(r) /\ Members(r) = Members(t.right) \cup {d}
      BY <1>4, <2>1, <2>2, <3>4
    <3> HIDE DEF S
    <3>6. \A v \in Members(r) : t.data < v
      BY <2>2, <2>6, <3>5
    <3> QED BY <2>1, <2>2, <3>3, <3>5, <3>6, PartsOf
  <2> HIDE DEF S
  <2> QED BY <2>2, <2>4, <2>5, <2>6
<1>5. TreeSet \subseteq S
  <2>1. \A t \in TreeSet \ {Leaf} : t.left \in S /\ t.right \in S => t \in S
    BY <1>4
  <2> HIDE DEF S
  <2> QED BY <1>3, <2>1, TreeClimb
<1> QED BY <1>5

\* What bst_delete returns where min_node has a key to give, one call deep.
LEMMA BstDeleteKeepsOrder ==
    ASSUME TreeAssumption, MarksAssumption, NEW k \in Keys
    PROVE  \A t \in TreeSet : LET w == bst_delete(t, k)
                                  f == bst_find(t, k)
                              IN  Strictly(t) /\ (f # Leaf => f.right # Leaf) =>
                                    /\ w \in TreeSet /\ Strictly(w) /\ Members(w) \subseteq Members(t)
                                    /\ Members(t) \ Members(w) \subseteq {k} \cup Members(RightOf(f))
<1> DEFINE Good(t, w, f) == /\ Strictly(w) /\ Members(w) \subseteq Members(t)
                            /\ Members(t) \ Members(w) \subseteq {k} \cup Members(RightOf(f))
           Fine(t) == Strictly(t) /\ (bst_find(t, k) # Leaf => bst_find(t, k).right # Leaf)
           All == {n \in 0 .. MaxLevels :
                     \A t \in TreesUpto[n] : Fine(t) =>
                        bst_delete(t, k) \in TreesUpto[n] /\ Good(t, bst_delete(t, k), bst_find(t, k))}
<1>1. /\ MaxLevels \in Nat /\ TreesUpto[0] = {Leaf} /\ MaxLevels \in 0 .. MaxLevels
      /\ \A n \in 1 .. MaxLevels : TreesUpto[n] = {Leaf} \cup NodesOver(TreesUpto[n - 1])
  BY TreesLevel
<1>2. bst_delete(Leaf, k) = Leaf /\ Good(Leaf, Leaf, bst_find(Leaf, k))
  BY PartsOfLeaf, BstDeleteIs
<1>3. ASSUME NEW n \in 1 .. MaxLevels, n - 1 \in All  PROVE n \in All
  <2>1. /\ n \in 0 .. MaxLevels /\ n - 1 \in 0 .. MaxLevels /\ Leaf \in TreesUpto[n - 1] /\ Leaf \in TreesUpto[n]
        /\ TreesUpto[n - 1] \subseteq TreesUpto[n] /\ TreesUpto[n] \subseteq TreeSet /\ TreesUpto[n - 1] \subseteq TreeSet
    BY <1>1, TreesGrow
  <2>2. \A s \in TreesUpto[n - 1] : Fine(s) =>
          bst_delete(s, k) \in TreesUpto[n - 1] /\ Good(s, bst_delete(s, k), bst_find(s, k))
    BY <1>3
  <2> HIDE DEF All, Good, Fine
  <2>3. ASSUME NEW t \in TreesUpto[n], Fine(t)
        PROVE  bst_delete(t, k) \in TreesUpto[n] /\ Good(t, bst_delete(t, k), bst_find(t, k))
    <3>1. CASE t = Leaf
      BY <1>2, <2>1, <3>1
    <3>2. CASE t # Leaf
      <4>1. PICK w : w = bst_delete(t, k)
        OBVIOUS
      <4>2. /\ t.left \in TreesUpto[n - 1] /\ t.right \in TreesUpto[n - 1] /\ t \in TreeSet /\ t.data \in Int /\ k \in Int
            /\ Members(t) = {t.data} \cup Members(t.left) \cup Members(t.right) /\ Members(t) \subseteq Int
            /\ Members(t.right) \subseteq Keys
        BY <2>1, <3>2, NodeIs, PartsOf, MembersAreKeys DEF TreeAssumption
      <4>3. /\ Strictly(t) /\ Strictly(t.left) /\ Strictly(t.right)
            /\ (\A v \in Members(t.left) : v < t.data) /\ \A v \in Members(t.right) : t.data < v
        BY <2>3, <3>2, <4>2, PartsOf DEF Fine
      <4>4. NodesOver(TreesUpto[n - 1]) \subseteq TreesUpto[n] /\ NodesOver(TreesUpto[n - 1]) \subseteq NodesOver(TreeSet)
        BY <1>1, <2>1, NodesMore
      <4>5. ASSUME NEW v, NEW h, NEW l, NEW r, w = NodeOf(v, h, l, r), w \in NodesOver(TreesUpto[n - 1])
            PROVE  /\ w \in TreesUpto[n] /\ w # Leaf /\ w \in TreeSet /\ w.data = v /\ w.left = l /\ w.right = r
                   /\ Members(w) = {v} \cup Members(l) \cup Members(r)
                   /\ Strictly(w) <=> /\ Strictly(l) /\ Strictly(r)
                                      /\ (\A u \in Members(l) : u < v) /\ \A u \in Members(r) : v < u
        <5>1. w \in TreesUpto[n] /\ w # Leaf /\ w \in TreeSet
          BY <2>1, <4>4, <4>5 DEF MarksAssumption
        <5>2. NodeOf(v, h, l, r).data = v /\ NodeOf(v, h, l, r).left = l /\ NodeOf(v, h, l, r).right = r
          BY ChangedIs
        <5> QED BY <4>5, <5>1, <5>2, PartsOf
      <4>6. CASE t.data = k
        <5>1. bst_find(t, k) = t /\ t.right # Leaf /\ RightOf(t) = t.right
          BY <2>3, <3>2, <4>2, <4>6, BstFindIs DEF Fine, RightOf
        <5>2. PICK v : v = min_node[t.right].data
          OBVIOUS
        <5>3. v \in Members(t.right)
          BY <2>1, <4>2, <4>3, <5>1, <5>2, LeastKey
        <5>4. w = WithRight(WithData(t, v), Leaf)
          BY <3>2, <4>1, <4>2, <4>6, <5>2, BstDeleteIs
        <5>5. w = NodeOf(v, t.height, t.left, Leaf) /\ w \in NodesOver(TreesUpto[n - 1])
          BY <2>1, <3>2, <4>2, <5>3, <5>4, WithIs
        <5>6. \A u \in Members(t.left) : u < v
          BY <4>2, <4>3, <5>3
        <5>7. w \in TreesUpto[n] /\ Strictly(w) /\ Members(w) = {v} \cup Members(t.left)
          BY <4>3, <4>5, <5>5, <5>6, PartsOfLeaf
        <5> QED BY <4>1, <4>2, <4>6, <5>1, <5>3, <5>7 DEF Good
      <4>7. CASE k < t.data
        <5>1. PICK l : l = bst_delete(t.left, k)
          OBVIOUS
        <5>2. bst_find(t, k) = bst_find(t.left, k)
          BY <3>2, <4>2, <4>7, BstFindIs
        <5>3. Fine(t.left)
          BY <2>3, <4>3, <5>2 DEF Fine
        <5>4. l \in TreesUpto[n - 1] /\ Good(t.left, l, bst_find(t, k))
          BY <2>2, <4>2, <5>1, <5>2, <5>3
        <5>5. w = WithLeft(t, l)
          BY <3>2, <4>1, <4>2, <4>7, <5>1, BstDeleteIs
        <5>6. w = NodeOf(t.data, t.height, l, t.right) /\ w \in NodesOver(TreesUpto[n - 1])
          BY <2>1, <3>2, <5>4, <5>5, WithIs
        <5>7. /\ w \in TreesUpto[n] /\ Members(w) = {t.data} \cup Members(l) \cup Members(t.right)
              /\ Strictly(w)
          BY <4>3, <4>5, <5>4, <5>6 DEF Good
        <5> QED BY <4>1, <4>2, <5>4, <5>7 DEF Good
      <4>8. CASE k > t.data
        <5>1. PICK r : r = bst_delete(t.right, k)
          OBVIOUS
        <5>2. bst_find(t, k) = bst_find(t.right, k)
          BY <3>2, <4>2, <4>8, BstFindIs
        <5>3. Fine(t.right)
          BY <2>3, <4>3, <5>2 DEF Fine
        <5>4. r \in TreesUpto[n - 1] /\ Good(t.right, r, bst_find(t, k))
          BY <2>2, <4>2, <5>1, <5>2, <5>3
        <5>5. w = WithRight(t, r)
          BY <3>2, <4>1, <4>2, <4>8, <5>1, BstDeleteIs
        <5>6. w = NodeOf(t.data, t.height, t.left, r) /\ w \in NodesOver(TreesUpto[n - 1])
          BY <2>1, <3>2, <5>4, <5>5, WithIs
        <5>7. /\ w \in TreesUpto[n] /\ Members(w) = {t.data} \cup Members(t.left) \cup Members(r)
              /\ Strictly(w)
          BY <4>3, <4>5, <5>4, <5>6 DEF Good
        <5> QED BY <4>1, <4>2, <5>4, <5>7 DEF Good
      <4> QED BY <4>2, <4>6, <4>7, <4>8
    <3> QED BY <3>1, <3>2
  <2> QED BY <2>1, <2>3 DEF All
<1>4. 0 \in All
  <2> HIDE DEF Good
  <2> QED BY <1>1, <1>2
<1>5. MaxLevels \in All
  <2> HIDE DEF All
  <2>1. \A n \in 0 .. MaxLevels : n \in All
    BY <1>1, <1>3, <1>4, Climb
  <2> QED BY <1>1, <2>1
<1> QED BY <1>5 DEF TreeSet

-----------------------------------------------------------------------------
\* Between two calls the AVL tree is one that insert and delete_node leave behind, and
\* the keys of the other tree ascend strictly.
TreeIInv == Avl(avl) /\ (bst # SEGV => bst \in TreeSet /\ Strictly(bst))

LEMMA TreesAtFirst == ASSUME TreeAssumption, MarksAssumption, TreeInit  PROVE TreeIInv
BY PartsOfLeaf DEF TreeInit, TreeIInv, Avl

\* What one call does, from such trees.
TreeCalls ==
    \A d \in Keys :
        /\ AvlInsert(d) => Avl(avl') /\ Members(avl') = Members(avl) \cup {d}
        /\ AvlDelete(d) => Avl(avl') /\ Members(avl') \in {Members(avl), Members(avl) \ {d}}
        /\ BstInsert(d) => bst' \in TreeSet /\ Strictly(bst') /\ Members(bst') = Members(bst) \cup {d}
        /\ BstDelete(d) /\ bst' # SEGV =>
              /\ bst' \in TreeSet /\ Strictly(bst') /\ Members(bst') \subseteq Members(bst)
              /\ Members(bst) \ Members(bst') \subseteq {d} \cup Members(RightOf(bst_find(bst, d)))

LEMMA TreeCallsAre ==
    ASSUME TreeAssumption, MarksAssumption, TreeIInv  PROVE TreeCalls
<1> SUFFICES ASSUME NEW d \in Keys
             PROVE  /\ AvlInsert(d) => Avl(avl') /\ Members(avl') = Members(avl) \cup {d}
                    /\ AvlDelete(d) => Avl(avl') /\ Members(avl') \in {Members(avl), Members(avl) \ {d}}
                    /\ BstInsert(d) => bst' \in TreeSet /\ Strictly(bst') /\ Members(bst') = Members(bst) \cup {d}
                    /\ BstDelete(d) /\ bst' # SEGV =>
                          /\ bst' \in TreeSet /\ Strictly(bst') /\ Members(bst') \subseteq Members(bst)
                          /\ Members(bst) \ Members(bst') \subseteq {d} \cup Members(RightOf(bst_find(bst, d)))
  BY DEF TreeCalls
<1>1. Avl(avl) /\ (bst # SEGV => bst \in TreeSet /\ Strictly(bst))
  BY DEF TreeIInv
<1>2. ASSUME AvlInsert(d)  PROVE Avl(avl') /\ Members(avl') = Members(avl) \cup {d}
  <2>1. avl' = avl_insert(avl, d) /\ height(avl) < MaxLevels
    BY <1>2 DEF AvlInsert
  <2> QED BY <1>1, <2>1, InsertKeepsAvl DEF TreeInserted
<1>3. ASSUME AvlDelete(d)  PROVE Avl(avl') /\ Members(avl') \in {Members(avl), Members(avl) \ {d}}
  <2>1. avl' = avl_delete(avl, d)
    BY <1>3 DEF AvlDelete
  <2>2. Avl(avl') /\ Members(avl') \subseteq Members(avl) /\ Members(avl) \ {d} \subseteq Members(avl')
    BY <1>1, <2>1, DeleteKeepsAvl DEF TreeDeleted
  <2> QED BY <2>2
<1>4. ASSUME BstInsert(d)  PROVE bst' \in TreeSet /\ Strictly(bst') /\ Members(bst') = Members(bst) \cup {d}
  <2>1. bst # SEGV /\ bst' = bst_insert(bst, d) /\ bst' \in TreeSet
    BY <1>4 DEF BstInsert
  <2> QED BY <1>1, <2>1, BstInsertKeepsOrder
<1>5. ASSUME BstDelete(d), bst' # SEGV
      PROVE  /\ bst' \in TreeSet /\ Strictly(bst') /\ Members(bst') \subseteq Members(bst)
             /\ Members(bst) \ Members(bst') \subseteq {d} \cup Members(RightOf(bst_find(bst, d)))
  <2>1. /\ bst # SEGV /\ bst' = bst_delete(bst, d)
        /\ bst_find(bst, d) # Leaf => bst_find(bst, d).right # Leaf
    BY <1>5 DEF BstDelete
  <2> QED BY <1>1, <2>1, BstDeleteKeepsOrder
<1> QED BY <1>2, <1>3, <1>4, <1>5

LEMMA TreesKept ==
    ASSUME TreeAssumption, MarksAssumption, TreeIInv, [TreeNext]_treeVars  PROVE TreeIInv'
<1>1. TreeCalls /\ Avl(avl) /\ (bst # SEGV => bst \in TreeSet /\ Strictly(bst))
  BY TreeCallsAre DEF TreeIInv
<1>2. ASSUME NEW d \in Keys, AvlInsert(d) \/ AvlDelete(d)  PROVE TreeIInv'
  <2>1. bst' = bst
    BY <1>2 DEF AvlInsert, AvlDelete
  <2>2. Avl(avl')
    BY <1>1, <1>2 DEF TreeCalls
  <2> QED BY <1>1, <2>1, <2>2 DEF TreeIInv, Strictly, Avl
<1>3. ASSUME NEW d \in Keys, BstInsert(d) \/ BstDelete(d)  PROVE TreeIInv'
  <2>1. avl' = avl
    BY <1>3 DEF BstInsert, BstDelete
  <2>2. bst' # SEGV => bst' \in TreeSet /\ Strictly(bst')
    BY <1>1, <1>3 DEF TreeCalls
  <2> QED BY <1>1, <2>1, <2>2 DEF TreeIInv
<1>4. CASE UNCHANGED treeVars
  BY <1>1, <1>4 DEF treeVars, TreeIInv
<1> QED BY <1>2, <1>3, <1>4 DEF TreeNext, AvlNext, BstNext

LEMMA TreesMean ==
    ASSUME TreeAssumption, MarksAssumption, TreeIInv  PROVE TreeInv
<1>1. \A t \in TreeSet : Ascending(t) \/ Strictly(t) => Searchable(t)
  BY LookupFinds, PrintedKeys DEF Searchable
<1> QED BY <1>1 DEF TreeIInv, Avl, TreeInv

\* Whatever is inserted and deleted, in any order: in the AVL tree every node knows
\* its height and no two siblings differ by more than one, and in both trees the keys
\* ascend and lookup finds just what inorder prints (AVL_tree.c:46-196,
\* BInaryTree.c:45-108, Main.c:88-105).
THEOREM TreesHold == TreeSpec => []TreeInv
<1>1. TreeInit => TreeIInv
  BY TreesAtFirst, TreeAssumption, MarksAssumption
<1>2. TreeIInv /\ [TreeNext]_treeVars => TreeIInv'
  BY TreesKept, TreeAssumption, MarksAssumption
<1>3. TreeIInv => TreeInv
  BY TreesMean, TreeAssumption, MarksAssumption
<1> QED BY <1>1, <1>2, <1>3, PTL DEF TreeSpec

\* No call loses or makes a key, through any rotations: an insertion adds its key, a
\* deletion takes away that key or, in the AVL tree where one is there twice, none,
\* and in the other tree what was right of it (AVL_tree.c:46-162, BInaryTree.c:45-108).
THEOREM TreesStep == TreeSpec => TreeSteps
<1>1. TreeInit => TreeIInv
  BY TreesAtFirst, TreeAssumption, MarksAssumption
<1>2. TreeIInv /\ [TreeNext]_treeVars => TreeIInv'
  BY TreesKept, TreeAssumption, MarksAssumption
<1>3. TreeIInv =>
        (treeVars' # treeVars => \A d \in Keys :
          /\ AvlInsert(d) => Members(avl') = Members(avl) \cup {d}
          /\ AvlDelete(d) => Members(avl') \in {Members(avl), Members(avl) \ {d}}
          /\ BstInsert(d) => Members(bst') = Members(bst) \cup {d}
          /\ BstDelete(d) /\ bst' # SEGV =>
                /\ Members(bst') \subseteq Members(bst)
                /\ Members(bst) \ Members(bst') \subseteq {d} \cup Members(RightOf(bst_find(bst, d))))
  BY TreeCallsAre, TreeAssumption, MarksAssumption DEF TreeCalls
<1> QED BY <1>1, <1>2, <1>3, PTL DEF TreeSpec, TreeSteps

-----------------------------------------------------------------------------
\* Side by side, the structures are what they stand for: whatever calls are made of the
\* trees, the lists, the trie and the queue, in any order and with any values, and
\* whatever file the words are counted in.
THEOREM StructuresHold == TreeSpec /\ ListSpec /\ TrieSpec /\ QueueSpec /\ CounterSpec => []StructuresInv
BY TreesHold, ListsHold, WordsFound, QueueHolds, WordsCounted, PTL DEF StructuresInv

\* Each call of a tree changes its keys by the one it is given, and each call of a list
\* is the operation of a sequence that it is named for.
THEOREM StructuresStep == TreeSpec /\ ListSpec => StructureSteps
BY TreesStep, ListsImplementDeque DEF StructureSteps
=============================================================================

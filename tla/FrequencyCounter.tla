-------------------------- MODULE FrequencyCounter --------------------------
(***************************************************************************)
(* Hash/FrequencyCounter/main.c: the words of a text file are counted in a *)
(* hash table of chains.  A character is its code as a signed char, and a  *)
(* line, shorter than the buffer, is the sequence of what strtok makes of  *)
(* it, of which the last has the '\n' if the line has one.                 *)
(***************************************************************************)
EXTENDS Integers, FiniteSets, SequencesExt

CONSTANTS TABLE_SIZE,
          Punct,        \* the characters for which ispunct is true
          Texts         \* the files; the empty one is left out: the buffer is not yet set

NewLine == 10

ASSUME CounterAssumption ==
    /\ TABLE_SIZE \in Nat \ {0} /\ NewLine \notin Punct
    /\ \A f \in Texts : f \in Seq(Seq(Seq(Int))) /\ f # <<>> /\ \A k \in DOMAIN f :
          f[k] # <<>> /\ (k < Len(f) => Last(Last(f[k])) = NewLine)

VARIABLES
    text, line,         \* the file, and the lines that fgets has read
    feof,
    buffer,             \* the last line read: strtok has cut it after its first token
    tokens,             \* what strtok has still to return
    table,              \* head: the chain of each index
    words,              \* the words inserted, in order (history)
    unlinked,           \* the nodes that createNode made and nothing points to
    counter             \* "read", "count", "printed", "deleted"

counterVars == <<text, line, feof, buffer, tokens, table, words, unlinked, counter>>

\* main up to its loop, with initHash
CounterInit ==
    /\ text \in Texts /\ line = 0 /\ feof = FALSE
    /\ buffer = <<>> /\ tokens = <<>> /\ words = <<>> /\ unlinked = 0
    /\ table = [h \in 0 .. TABLE_SIZE - 1 |-> <<>>]
    /\ counter = "read"

\* removePunct
removePunct(s) ==
    LET d[k \in 0 .. Len(s)] ==
            IF k = 0 THEN <<>> ELSE IF s[k] \in Punct THEN d[k - 1] ELSE Append(d[k - 1], s[k])
    IN  d[Len(s)]

\* x % TABLE_SIZE for an unsigned x of 32 bits: a negative x stands for 2^32 + x.
TwoTo32     == (65536 % TABLE_SIZE) * (65536 % TABLE_SIZE)     \* modulo TABLE_SIZE
Unsigned(x) == (IF x >= 0 THEN x ELSE TwoTo32 + x) % TABLE_SIZE

hash(s) == LET h[k \in 0 .. Len(s)] == IF k = 0 THEN 0 ELSE Unsigned(32 * h[k - 1] + s[k])
           IN  h[Len(s)]

\* Whether the text that fgets has read up to line k ends in a '\n'.
EndsLine(k) == Last(Last(text[k])) = NewLine

\* A turn of the loop over the lines: fgets, and strtok on the buffer.  After the
\* '\n' of the last line the end has not been met yet: fgets then leaves the
\* buffer as it is, and strtok finds its first token again.
ReadLine ==
    /\ counter = "read" /\ ~feof
    /\ IF line < Len(text)
       THEN /\ line' = line + 1 /\ tokens' = text[line + 1]
            /\ buffer' = <<Head(text[line + 1])>> /\ feof' = ~EndsLine(line + 1)
       ELSE tokens' = buffer /\ feof' = TRUE /\ UNCHANGED <<line, buffer>>
    /\ counter' = "count"
    /\ UNCHANGED <<text, table, words, unlinked>>

\* Mutant: the chain is lost when a word is added behind it.
InsertedOver(chain, w) ==
    IF \E k \in DOMAIN chain : chain[k].word = w
    THEN [k \in DOMAIN chain |-> IF chain[k].word = w
                                 THEN [chain[k] EXCEPT !.frequency = @ + 1] ELSE chain[k]]
    ELSE <<[word |-> w, frequency |-> 1]>>

\* The chain after insertHash: the word counted, or a node for it at the end.
Inserted(chain, w) ==
    IF \E k \in DOMAIN chain : chain[k].word = w
    THEN [k \in DOMAIN chain |-> IF chain[k].word = w
                                 THEN [chain[k] EXCEPT !.frequency = @ + 1] ELSE chain[k]]
    ELSE Append(chain, [word |-> w, frequency |-> 1])

\* A turn of the loop over the tokens.  insertHash makes its node first, and drops
\* it if the word has one.
CountToken ==
    /\ counter = "count" /\ tokens # <<>>
    /\ LET w == removePunct(Head(tokens))
           h == hash(w)
       IN  /\ table' = [table EXCEPT ![h] = Inserted(@, w)]
           /\ unlinked' = unlinked + 1 - (Len(table'[h]) - Len(table[h]))
           /\ words' = Append(words, w)
    /\ tokens' = Tail(tokens)
    /\ UNCHANGED <<text, line, feof, buffer, counter>>

LineDone ==
    /\ counter = "count" /\ tokens = <<>>
    /\ counter' = IF feof THEN "printed" ELSE "read"
    /\ UNCHANGED <<text, line, feof, buffer, tokens, table, words, unlinked>>

\* deleteHashTable
DeleteTable ==
    /\ counter = "printed" /\ counter' = "deleted"
    /\ table' = [h \in DOMAIN table |-> <<>>]
    /\ UNCHANGED <<text, line, feof, buffer, tokens, words, unlinked>>

CounterNext == ReadLine \/ CountToken \/ LineDone \/ DeleteTable

CounterSpec == CounterInit /\ [][CounterNext]_counterVars
-----------------------------------------------------------------------------
Indices  == DOMAIN table
Count(w) == Cardinality({k \in DOMAIN words : words[k] = w})

\* Every word has one node, in the chain that its hash tells, whatever the sign of
\* its characters, with the number of times it was inserted; the nodes that have
\* not been linked are the surplus over the different words (lines 105, 117).
TableInv ==
    counter # "deleted" =>
        /\ \A w \in ToSet(words) :
              /\ hash(w) \in Indices
              /\ \E k \in DOMAIN table[hash(w)] :
                    table[hash(w)][k] = [word |-> w, frequency |-> Count(w)]
        /\ \A h \in Indices : \A k \in DOMAIN table[h] :
              /\ table[h][k].word \in ToSet(words) /\ hash(table[h][k].word) = h
              /\ \A l \in DOMAIN table[h] : table[h][l].word = table[h][k].word => l = k
        /\ unlinked = Len(words) - Cardinality(ToSet(words))

\* What is printed are the words of the file, and once more the first of its last
\* line where that ends in '\n', as the lines of a text do (lines 40-42).
Surplus == IF EndsLine(Len(text)) THEN <<Head(Last(text))>> ELSE <<>>
FileInv ==
    counter \in {"printed", "deleted"} =>
        LET all == FlattenSeq(text) \o Surplus
        IN  words = [k \in DOMAIN all |-> removePunct(all[k])]

CounterInv == TableInv /\ FileInv
=============================================================================

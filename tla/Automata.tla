------------------------------ MODULE Automata ------------------------------
(***************************************************************************)
(* The three automata of Automata/, a character of the input a step.  A    *)
(* blank is written "sp".                                                  *)
(***************************************************************************)
EXTENDS Integers, SequencesExt

CONSTANT MaxInput       \* the bound on the characters typed

VARIABLES machine,      \* "example", "example2" or "example3"
          typed,        \* the characters read
          state

autVars == <<machine, typed, state>>

AutInit == /\ machine \in {"example", "example2", "example3"} /\ typed = <<>>
           /\ state = CASE machine = "example" -> "a" [] machine = "example2" -> "before"
                        [] machine = "example3" -> "start"

\* A character of each kind that the program looks at, and one it does not.
Alphabet == CASE machine = "example"  -> {"a", "b", "c", "\n"}
              [] machine = "example2" -> {"sp", "r", "0", "\n"}
              [] machine = "example3" -> {"a", "b", "\n"}

Arrow(from, c, to) == [from |-> from, on |-> c, to |-> to]

\* Mutant: the last test goes back to the beginning.
example_restarts ==
    <<Arrow("a", "a", "b"), Arrow("b", "b", "c"), Arrow("b", "c", "d"),
      Arrow("c", "a", "b"), Arrow("d", "a", "a")>>

\* The tests of a turn, in their order.
example  == <<Arrow("a", "a", "b"), Arrow("b", "b", "c"), Arrow("b", "c", "d"),
              Arrow("c", "a", "b"), Arrow("d", "a", "b")>>
example2 == <<Arrow("before", "sp", "s0"), Arrow("s0", "r", "s1"), Arrow("s1", "0", "s2")>>

\* The tests are not joined by else: one that follows looks at the state that the
\* one before has set.  What example2 reads on its last arrow changes nothing.
Turn(tests, c) ==
    LET s[k \in 0 .. Len(tests)] ==
            IF k = 0 THEN state
            ELSE IF s[k - 1] = tests[k].from /\ c = tests[k].on THEN tests[k].to ELSE s[k - 1]
    IN  s[Len(tests)]

\* example3.  Except in s1, a character that is not of the alphabet leaves the
\* result unset: it may be any state, or none, in which the loop does nothing.
start_state == [a |-> "s0", b |-> "start"]
s0_state    == [a |-> "s1", b |-> "start"]
s1_state    == [a |-> "s1", b |-> "final_state"]
final_states == [a |-> "final_state", b |-> "final_state"]
Functions3  == [start |-> start_state, s0 |-> s0_state, s1 |-> s1_state, final_state |-> final_states]
Turn3(c) ==
    IF state = "none" THEN {"none"}
    ELSE IF c \in {"a", "b"} THEN {Functions3[state][c]}
    ELSE IF state = "s1" THEN {"start"}
    ELSE DOMAIN Functions3 \cup {"none"}

ReadChar(c) ==
    /\ Len(typed) < MaxInput /\ typed' = Append(typed, c)
    /\ state' \in CASE machine = "example"  -> {Turn(example, c)}
                    [] machine = "example2" -> {Turn(example2, c)}
                    [] machine = "example3" -> Turn3(c)
    /\ UNCHANGED machine

AutNext == \E c \in Alphabet : ReadChar(c)

AutSpec == AutInit /\ [][AutNext]_autVars
-----------------------------------------------------------------------------
\* After the last "a" of t the character c has come, and no "b" or "c" between the two.
Since(t, c) == \E h, k \in DOMAIN t :
    /\ t[h] = "a" /\ h < k /\ t[k] = c
    /\ \A l \in h + 1 .. Len(t) : t[l] # "a" /\ (l < k => t[l] \notin {"b", "c"})

\* The characters of s have come in t in their order, others between them.
Came(t, s) == \E f \in [DOMAIN s -> DOMAIN t] :
    \A k \in DOMAIN s : t[f[k]] = s[k] /\ (k > 1 => f[k - 1] < f[k])

HasAab(t) == \E k \in 1 .. Len(t) - 2 : SubSeq(t, k, k + 2) = <<"a", "a", "b">>

\* What an automaton's state says of all it has read.  example.c: what follows the
\* last "a" decides, and of that the first "b" or "c".  example2.c: a blank, an "r"
\* and a digit have come in this order, others between them (16, 22, 28).
\* example3.c: "aab" has come, if all the characters were of its alphabet.
AutomataInv ==
    CASE machine = "example" ->
           /\ state \in {"a", "b", "c", "d"}
           /\ state # "a" <=> "a" \in ToSet(typed)
           /\ state = "c" <=> Since(typed, "b")
           /\ state = "d" <=> Since(typed, "c")
      [] machine = "example2" ->
           /\ state # "before" <=> Came(typed, <<"sp">>)
           /\ state \in {"s1", "s2"} <=> Came(typed, <<"sp", "r">>)
           /\ state = "s2" <=> Came(typed, <<"sp", "r", "0">>)
      [] machine = "example3" ->
           ToSet(typed) \subseteq {"a", "b"} =>
              (state = "final_state" <=> HasAab(typed))
=============================================================================

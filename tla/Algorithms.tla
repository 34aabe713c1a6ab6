----------------------------- MODULE Algorithms -----------------------------
(***************************************************************************)
(* Two algorithms on arrays.  compute_lps of                               *)
(* DataStructures/String_Algorithms/LPS.c, one turn of its loop a step:    *)
(* the borders of the prefixes of a pattern, with the program's indices,   *)
(* from 0.  And max_sub of Algorithms/D&C/max_sub.c, by its recursion: the *)
(* best sum of neighbours in an array, with indices from 1.                *)
(***************************************************************************)
EXTENDS Integers, Sequences

CONSTANTS Letters, MaxPattern,      \* the patterns
          Numbers, MaxArray         \* the arrays

ASSUME LpsAssumption == MaxPattern \in Nat

VARIABLES pat, ind, len, lps        \* the program's i and p are ind and lps

lpsVars == <<pat, ind, len, lps>>

LpsInit ==
    /\ pat \in UNION {[1 .. k -> Letters] : k \in 1 .. MaxPattern}
    /\ ind = 1 /\ len = 0 /\ lps = [k \in 0 .. Len(pat) - 1 |-> 0]

Pat(k) == pat[k + 1]

\* Mutant: after a mismatch the search starts from nothing.
FallBackToZero == len' = 0 /\ UNCHANGED <<ind, lps>>

FallBack == len' = lps[len - 1] /\ UNCHANGED <<ind, lps>>

LpsTurn ==
    /\ ind < Len(pat)
    /\ \/ /\ Pat(ind) = Pat(len) /\ len' = len + 1 /\ ind' = ind + 1
          /\ lps' = [lps EXCEPT ![ind] = len + 1]
       \/ Pat(ind) # Pat(len) /\ len # 0 /\ FallBack
       \/ /\ Pat(ind) # Pat(len) /\ len = 0 /\ ind' = ind + 1 /\ UNCHANGED len
          /\ lps' = [lps EXCEPT ![ind] = 0]
    /\ UNCHANGED pat

LpsSpec == LpsInit /\ [][LpsTurn]_lpsVars
-----------------------------------------------------------------------------
INT_MAX == 2147483647
INT_MIN == -INT_MAX - 1

Arrays == UNION {[1 .. k -> Numbers] : k \in 1 .. MaxArray}

\* The sums of the first elements of an array, up to each of them.
SumsUpto(a) == LET s[k \in 0 .. Len(a)] == IF k = 0 THEN 0 ELSE s[k - 1] + a[k]
           IN  s
SumOf(a, from, to) == SumsUpto(a)[to] - SumsUpto(a)[from - 1]

\* What the additions of the program compute does not overflow.
ASSUME ArrayAssumption ==
    /\ Numbers \subseteq Int /\ MaxArray \in Nat
    /\ \A a \in Arrays : \A from \in DOMAIN a : \A to \in from .. Len(a) :
           SumOf(a, from, to) \in INT_MIN .. INT_MAX

VARIABLES array, answer             \* and the result once the call has returned

algVars == <<array, answer>>

MaxSubInit == array \in Arrays /\ answer = <<>>

most(S) == CHOOSE n \in S : \A m \in S : m <= n

\* The sums that end in the middle, and those that begin behind it.
LeftSums(a, start, med) == {SumOf(a, k, med) : k \in start .. med}
RightSums(a, med, end)  == {SumOf(a, med + 1, k) : k \in med + 1 .. end}

\* max_three is declared (line 7) and called (34) and defined nowhere in the
\* repository: the file compiles and does not link.  What it returns is assumed here
\* to be what its name says, and MaxSubInv rests on it.
max_three(a, b, c) == most({a, b, c})

\* Mutant: only the sums that cross the middle.
mid_sub_crossing(a, start, med, end) == most(LeftSums(a, start, med)) + most(RightSums(a, med, end))

\* The best that ends in the middle, the best that begins behind it, and both.
mid_sub(a, start, med, end) ==
    LET left_sum  == most(LeftSums(a, start, med))
        right_sum == most(RightSums(a, med, end))
    IN  max_three(left_sum + right_sum, left_sum, right_sum)

\* The result for each pair of a start and an end: one element, or the best of those
\* that lie before the middle, behind it, and across it.
max_sub(a) ==
    LET best[p \in (1 .. Len(a) + 1) \X (0 .. Len(a))] ==
            LET first == p[1]
                last == p[2]
                med == (first + last - 2) \div 2 + 1
            IN  IF first > last THEN INT_MIN
                ELSE IF first = last THEN a[first]
                ELSE most({best[<<first, med - 1>>], best[<<med + 1, last>>], mid_sub(a, first, med, last)})
    IN  best

MaxSub == answer = <<>> /\ answer' = <<max_sub(array)[<<1, Len(array)>>]>> /\ UNCHANGED array

MaxSubSpec == MaxSubInit /\ [][MaxSub]_algVars
-----------------------------------------------------------------------------
\* The lengths of the proper prefixes of the first n characters that are suffixes too.
Borders(n) == {k \in 0 .. n - 1 : SubSeq(pat, 1, k) = SubSeq(pat, n - k + 1, n)}
Longest(n) == CHOOSE k \in Borders(n) : \A m \in Borders(n) : m <= k

\* lps[k] is the length of the longest proper prefix that is a suffix of the first
\* k + 1 characters, and len in the loop is such a length of what precedes ind, above
\* which none can be continued by the character at ind (LPS.c:22-36).
LpsInv ==
    /\ \A k \in 0 .. ind - 1 : lps[k] = Longest(k + 1)
    /\ ind < Len(pat) => /\ len \in Borders(ind)
                         /\ \A k \in Borders(ind) : k > len => Pat(k) # Pat(ind)

\* The result is the best sum of neighbours, one or more, of all there are, though
\* the element in the middle is given to neither half (max_sub.c:46-48).
MaxSubInv ==
    answer # <<>> =>
        Head(answer) = most(UNION {{SumOf(array, a, b) : b \in a .. Len(array)} : a \in DOMAIN array})
=============================================================================

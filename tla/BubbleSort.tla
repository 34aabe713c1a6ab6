----------------------------- MODULE BubbleSort -----------------------------
(***************************************************************************)
(* DataStructures/LinkedList/BubbleSort.c: sort exchanges the values of a  *)
(* linked list.  The links do not change, so nodes are counted from the    *)
(* head: nums[k] is the data of the k-th, 1 the head.                      *)
(***************************************************************************)
EXTENDS Integers, Sequences, FiniteSets

CONSTANTS Values, MaxLen        \* what main inserts, and how many at most

ASSUME SortAssumption == Values \subseteq Int /\ MaxLen \in Nat

VARIABLES nums, i, j,
          inserted,             \* nums when sort is called
          stage                 \* "insert", "outer", "inner", "sorted", "freed"

sortVars == <<nums, i, j, inserted, stage>>

SortInit == nums = <<>> /\ i = 1 /\ j = 1 /\ inserted = <<>> /\ stage = "insert"

\* insert, at the head
InsertHead(v) ==
    /\ stage = "insert" /\ Len(nums) < MaxLen
    /\ nums' = <<v>> \o nums
    /\ UNCHANGED <<i, j, inserted, stage>>

SortCall ==
    /\ stage = "insert" /\ stage' = "outer" /\ inserted' = nums /\ i' = 1
    /\ UNCHANGED <<nums, j>>

\* A turn of the outer loop begins.
SortOuter ==
    /\ stage = "outer" /\ i <= Len(nums)
    /\ stage' = "inner" /\ j' = i + 1
    /\ UNCHANGED <<nums, i, inserted>>

\* Mutant: the second half of the exchange is forgotten.
HalfSwapped == IF nums[i] > nums[j] THEN [nums EXCEPT ![i] = nums[j]] ELSE nums

Swapped == IF nums[i] > nums[j] THEN [nums EXCEPT ![i] = nums[j], ![j] = nums[i]] ELSE nums

\* A turn of the inner loop.
SortInner ==
    /\ stage = "inner" /\ j <= Len(nums)
    /\ nums' = Swapped /\ j' = j + 1
    /\ UNCHANGED <<i, inserted, stage>>

SortInnerEnd ==
    /\ stage = "inner" /\ j > Len(nums) /\ stage' = "outer" /\ i' = i + 1
    /\ UNCHANGED <<nums, j, inserted>>

SortReturn ==
    /\ stage = "outer" /\ i > Len(nums) /\ stage' = "sorted"
    /\ UNCHANGED <<nums, i, j, inserted>>

\* The loop of main that frees the list: its first turn frees the head and then
\* reads the next node out of it, which ends what can be said of the program.
FreeHead ==
    /\ stage = "sorted" /\ nums # <<>> /\ stage' = "freed"
    /\ UNCHANGED <<nums, i, j, inserted>>

SortNext ==
    \/ \E v \in Values : InsertHead(v)
    \/ SortCall \/ SortOuter \/ SortInner \/ SortInnerEnd \/ SortReturn \/ FreeHead

SortSpec == SortInit /\ [][SortNext]_sortVars
-----------------------------------------------------------------------------
Many(s, v) == Cardinality({k \in DOMAIN s : s[k] = v})

\* No value is lost or doubled by an exchange, the nodes before i are in order and
\* none is above those after it, and node i is the least of those the inner loop
\* has passed.
SortInv ==
    stage # "insert" =>
        /\ Len(nums) = Len(inserted) /\ \A v \in Values : Many(nums, v) = Many(inserted, v)
        /\ \A a, b \in 1 .. Len(nums) : a < b /\ a < i => nums[a] <= nums[b]
        /\ stage = "inner" => \A b \in i .. j - 1 : b <= Len(nums) => nums[i] <= nums[b]
        /\ stage \in {"sorted", "freed"} => \A a, b \in 1 .. Len(nums) : a < b => nums[a] <= nums[b]
=============================================================================

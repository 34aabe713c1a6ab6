----------------------------- MODULE LruPolicy ------------------------------
(***************************************************************************)
(* What a page-replacement simulator promises: at most Size pages are      *)
(* resident, and the one that has not been used for longest makes room.    *)
(***************************************************************************)
EXTENDS Naturals, FiniteSets

CONSTANTS AllPages, Size

VARIABLES resident,   \* the pages in memory
          older,      \* the pairs of resident pages of which the first was used earlier
          hits, faults

lruVars == <<resident, older, hits, faults>>

LruInit == resident = {} /\ older = {} /\ hits = 0 /\ faults = 0

\* The resident pages become kept and x, the one used last.
KeepAndUse(kept, x) ==
    /\ resident' = kept \cup {x}
    /\ older' = {p \in older : p[1] \in kept \ {x} /\ p[2] \in kept \ {x}}
                \cup {<<y, x>> : y \in kept \ {x}}

Hit(x) ==
    /\ x \in resident
    /\ KeepAndUse(resident, x)
    /\ hits' = hits + 1 /\ UNCHANGED faults

Load(x) ==
    /\ x \notin resident /\ Cardinality(resident) < Size
    /\ KeepAndUse(resident, x)
    /\ faults' = faults + 1 /\ UNCHANGED hits

Oldest(v) == v \in resident /\ \A y \in resident \ {v} : <<v, y>> \in older

Replace(x, v) ==
    /\ x \notin resident /\ Cardinality(resident) = Size
    /\ Oldest(v)
    /\ KeepAndUse(resident \ {v}, x)
    /\ faults' = faults + 1 /\ UNCHANGED hits

LruNext == \E x \in AllPages : Hit(x) \/ Load(x) \/ \E v \in resident : Replace(x, v)

LruSpec == LruInit /\ [][LruNext]_lruVars
=============================================================================

------------------------------ MODULE PageLRU -------------------------------
(***************************************************************************)
(* MemoryManagement/AlgorithmForLRU_Page_Replacement_Simulator.c: page     *)
(* tables and frames under random accesses, least recently used first out. *)
(* The modified bit only chooses what is printed and is left out.          *)
(***************************************************************************)
EXTENDS Integers, FiniteSets

CONSTANTS RAM_SIZE, NUM_PAGES, NUM_PROCESSES, NUM_ACCESSES

ASSUME PageAssumption ==
    /\ RAM_SIZE \in Nat \ {0} /\ NUM_PAGES \in Nat \ {0} /\ NUM_PROCESSES \in Nat \ {0}
    /\ NUM_ACCESSES \in Nat

VARIABLES
    page_table,         \* page_table of each process
    ram_owner_proc, ram_owner_page, last_access_time, free_frame_list,
    current_time, page_fault_count, page_hit_count

tableVars == <<page_table, ram_owner_proc, ram_owner_page, last_access_time, free_frame_list>>
pageVars  == <<tableVars, current_time, page_fault_count, page_hit_count>>

Frames    == 0 .. RAM_SIZE - 1
Pages     == 0 .. NUM_PAGES - 1
Processes == 0 .. NUM_PROCESSES - 1

PageTableEntry == [frame_number : Frames \cup {-1}, present : BOOLEAN, last_access : Int]

\* initialize_system
PageInit ==
    /\ page_table = [p \in Processes |-> [g \in Pages |->
                        [frame_number |-> -1, present |-> FALSE, last_access |-> -1]]]
    /\ ram_owner_proc = [f \in Frames |-> -1]
    /\ ram_owner_page = [f \in Frames |-> -1]
    /\ last_access_time = [f \in Frames |-> -1]
    /\ free_frame_list = [f \in Frames |-> TRUE]
    /\ current_time = 0 /\ page_fault_count = 0 /\ page_hit_count = 0

-----------------------------------------------------------------------------
\* Mutant: a hit is noted in the page table only.
AccessHitTableOnly(p, g) ==
    /\ page_table[p][g].present
    /\ page_hit_count' = page_hit_count + 1
    /\ page_table' = [page_table EXCEPT ![p][g].last_access = current_time']
    /\ UNCHANGED <<ram_owner_proc, ram_owner_page, last_access_time, free_frame_list,
                   page_fault_count>>

\* access_page: the page is in memory.
AccessHit(p, g) ==
    /\ page_table[p][g].present
    /\ page_hit_count' = page_hit_count + 1
    /\ page_table' = [page_table EXCEPT ![p][g].last_access = current_time']
    /\ last_access_time' = [last_access_time EXCEPT ![page_table[p][g].frame_number] = current_time']
    /\ UNCHANGED <<ram_owner_proc, ram_owner_page, free_frame_list, page_fault_count>>

FreeFrames == {f \in Frames : free_frame_list[f]}

\* The first frame that is free.
IsFreeFrame(f) == f \in FreeFrames /\ \A k \in FreeFrames : f <= k

\* Mutant: the second loop runs one frame short.
IsLruButLast(f) ==
    /\ f \in Frames /\ (f = RAM_SIZE - 1 => f = 0)
    /\ \A k \in Frames \ {RAM_SIZE - 1} : /\ last_access_time[f] <= last_access_time[k]
                                          /\ k < f => last_access_time[f] < last_access_time[k]

\* The first of the frames with the least last_access_time.
IsLruFrame(f) ==
    /\ f \in Frames
    /\ \A k \in Frames : /\ last_access_time[f] <= last_access_time[k]
                         /\ k < f => last_access_time[f] < last_access_time[k]

\* The new page is loaded into frame f and entered in both tables.
LoadPage(p, g, f, table) ==
    /\ page_table' = [table EXCEPT ![p][g] =
           [frame_number |-> f, present |-> TRUE, last_access |-> current_time']]
    /\ ram_owner_proc' = [ram_owner_proc EXCEPT ![f] = p]
    /\ ram_owner_page' = [ram_owner_page EXCEPT ![f] = g]
    /\ last_access_time' = [last_access_time EXCEPT ![f] = current_time']
    /\ free_frame_list' = [free_frame_list EXCEPT ![f] = FALSE]

\* handle_page_fault, with a frame that is free
FaultFree(p, g) ==
    /\ ~page_table[p][g].present
    /\ page_fault_count' = page_fault_count + 1
    /\ \E f \in Frames : IsFreeFrame(f) /\ LoadPage(p, g, f, page_table)
    /\ UNCHANGED page_hit_count

\* Mutant: the victim stays present.
EvictedPresent(f) ==
    [page_table EXCEPT ![ram_owner_proc[f]][ram_owner_page[f]].frame_number = -1]

\* The table without the page that frame f held.
Evicted(f) ==
    [page_table EXCEPT ![ram_owner_proc[f]][ram_owner_page[f]].present = FALSE,
                       ![ram_owner_proc[f]][ram_owner_page[f]].frame_number = -1]

\* handle_page_fault, with a frame that another page must leave
FaultReplace(p, g) ==
    /\ ~page_table[p][g].present /\ FreeFrames = {}
    /\ page_fault_count' = page_fault_count + 1
    /\ \E f \in Frames : IsLruFrame(f) /\ LoadPage(p, g, f, Evicted(f))
    /\ UNCHANGED page_hit_count

AccessPage(p, g) == AccessHit(p, g) \/ FaultFree(p, g) \/ FaultReplace(p, g)

\* simulate_accesses; its counter is current_time
PageNext ==
    /\ current_time < NUM_ACCESSES
    /\ current_time' = current_time + 1
    /\ \E p \in Processes, g \in Pages : AccessPage(p, g)

PageSpec == PageInit /\ [][PageNext]_pageVars
-----------------------------------------------------------------------------
Entry(x) == page_table[x[1]][x[2]]
AllPages == Processes \X Pages
Resident == {x \in AllPages : Entry(x).present}
Used     == {f \in Frames : ~free_frame_list[f]}
Owner(f) == <<ram_owner_proc[f], ram_owner_page[f]>>

\* Every variable stays in its domain.
PageTypeOK ==
    /\ page_table \in [Processes -> [Pages -> PageTableEntry]]
    /\ ram_owner_proc \in [Frames -> Processes \cup {-1}]
    /\ ram_owner_page \in [Frames -> Pages \cup {-1}]
    /\ last_access_time \in [Frames -> Int]
    /\ free_frame_list \in [Frames -> BOOLEAN]
    /\ current_time \in 0 .. NUM_ACCESSES
    /\ page_fault_count \in Nat /\ page_hit_count \in Nat

\* The page tables and the frame table are inverse of each other: a page is
\* present in the one frame that names it as its owner, and both tables know the
\* same time of last use (lines 90, 95, 101; an eviction edits one, a load both).
TablesInverse ==
    /\ \A f \in Used :
          /\ Owner(f) \in Resident
          /\ Entry(Owner(f)).frame_number = f
          /\ last_access_time[f] = Entry(Owner(f)).last_access
    /\ \A x \in Resident : Entry(x).frame_number \in Used /\ Owner(Entry(x).frame_number) = x
    /\ \A x \in AllPages \ Resident : Entry(x).frame_number = -1

\* What is in memory is what was used last: no page outside was used after one
\* inside (line 74: replacement by the times of the frames, not of the pages), and
\* no frame stays empty once there were pages enough to fill all of them.
MostRecentResident ==
    /\ \A x \in Resident, y \in AllPages \ Resident : Entry(y).last_access < Entry(x).last_access
    /\ FreeFrames # {} => \A y \in AllPages \ Resident : Entry(y).last_access = -1

\* The times that the choice of a victim compares are different.
TimesDiffer ==
    /\ \A f \in Used : last_access_time[f] \in 1 .. current_time
    /\ \A f, k \in Used : last_access_time[f] = last_access_time[k] => f = k
    /\ \A y \in AllPages : Entry(y).last_access \in -1 .. current_time

PageInv == PageTypeOK /\ TablesInverse /\ MostRecentResident /\ TimesDiffer

\* The simulator implements the policy it is named for, with the counts it prints.
Lru == INSTANCE LruPolicy WITH
    Size <- RAM_SIZE,
    resident <- Resident,
    older <- {q \in Resident \X Resident : Entry(q[1]).last_access < Entry(q[2]).last_access},
    hits <- page_hit_count,
    faults <- page_fault_count
LeastRecentlyUsed == Lru!LruSpec
=============================================================================

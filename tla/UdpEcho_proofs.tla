--------------------------- MODULE UdpEcho_proofs ---------------------------
(***************************************************************************)
(* The UDP echo server and its clients, for any number of handlers,        *)
(* clients, rounds, slots and duplications: the slots are accounted for,   *)
(* each datagram that is received is echoed once and to its sender, and no *)
(* client counts more echoes than were made for it or duplicated.          *)
(***************************************************************************)
EXTENDS UdpEcho, FiniteSetTheorems, TLAPS

USE UdpEchoAssumption

-----------------------------------------------------------------------------
(***************************************************************************)
(* Bags of datagrams, by the number of copies.                             *)
(***************************************************************************)
DatagramBag(b) == IsABag(b) /\ BagToSet(b) \subseteq Datagrams

LEMMA CopiesAre ==
    ASSUME NEW b, DatagramBag(b), NEW d
    PROVE  Copies(b, d) \in Nat /\ (Copies(b, d) > 0 <=> d \in BagToSet(b))
BY DEF DatagramBag, IsABag, BagToSet, Copies

LEMMA AddedCopy ==
    ASSUME NEW b, DatagramBag(b), NEW d \in Datagrams
    PROVE  /\ DatagramBag(BagAdd(b, d)) /\ BagToSet(BagAdd(b, d)) = BagToSet(b) \cup {d}
           /\ \A e : Copies(BagAdd(b, d), e) = Copies(b, e) + (IF e = d THEN 1 ELSE 0)
<1> USE DEF DatagramBag, IsABag, BagToSet, Copies
<1>1. CASE d \in DOMAIN b
  <2>1. BagAdd(b, d) = [e \in DOMAIN b |-> IF e = d THEN b[e] + 1 ELSE b[e]]
    BY <1>1 DEF BagAdd
  <2> QED BY <1>1, <2>1
<1>2. CASE d \notin DOMAIN b
  <2>1. BagAdd(b, d) = [e \in DOMAIN b \cup {d} |-> IF e = d THEN 1 ELSE b[e]]
    BY <1>2 DEF BagAdd
  <2> QED BY <1>2, <2>1
<1> QED BY <1>1, <1>2

LEMMA RemovedCopy ==
    ASSUME NEW b, DatagramBag(b), NEW d \in BagToSet(b)
    PROVE  /\ DatagramBag(BagRemove(b, d)) /\ BagToSet(BagRemove(b, d)) \subseteq BagToSet(b)
           /\ \A e : Copies(BagRemove(b, d), e) = Copies(b, e) - (IF e = d THEN 1 ELSE 0)
<1> USE DEF DatagramBag, IsABag, BagToSet, Copies
<1>1. CASE b[d] = 1
  <2>1. BagRemove(b, d) = [e \in DOMAIN b \ {d} |-> b[e]]
    BY <1>1 DEF BagRemove
  <2> QED BY <1>1, <2>1
<1>2. CASE b[d] # 1
  <2>1. BagRemove(b, d) = [e \in DOMAIN b |-> IF e = d THEN b[e] - 1 ELSE b[e]]
    BY <1>2 DEF BagRemove
  <2> QED BY <1>2, <2>1
<1> QED BY <1>1, <1>2

LEMMA NoCopies ==
    /\ DatagramBag(EmptyBag) /\ BagToSet(EmptyBag) = {}
    /\ \A d : Copies(EmptyBag, d) = 0
BY DEF EmptyBag, SetToBag, DatagramBag, IsABag, BagToSet, Copies

LEMMA BagsAre ==
    ASSUME TypeOK
    PROVE  DatagramBag(requests) /\ DatagramBag(echoes) /\ DatagramBag(lost)
           /\ DatagramBag(received) /\ DatagramBag(echoed)
BY DEF TypeOK, DatagramBag

-----------------------------------------------------------------------------
(***************************************************************************)
(* The invariant of the server: what main and the handlers hold.           *)
(***************************************************************************)
HandsHold ==
    /\ main # "recv" => buffer \in Datagrams
    /\ \A t \in Threads : task[t] \in {"send", "free"} => data[t] \in Datagrams

\* A client that waits has not sent its last datagram yet, or has just.
WaitersInLoop == \A c \in Clients : waiting[c] => i[c] <= Repeat

ServerInv == TypeOK /\ SlotAccounting /\ HandsHold /\ WaitersInLoop /\ EchoAccounting

MainSlots == IF main = "spawn" THEN 1 ELSE 0
Sending(d) == {t \in Threads : task[t] = "send" /\ data[t] = d}
Orphaned(d) == {k \in 1 .. Len(orphans) : orphans[k] = d}
MainHas(d) == IF main # "recv" /\ buffer = d THEN 1 ELSE 0

LEMMA InHandIs ==
    \A d \in Datagrams : InHand(d) = Cardinality(Sending(d)) + Cardinality(Orphaned(d)) + MainHas(d)
BY DEF InHand, Sending, Orphaned, MainHas

LEMMA Finite ==
    ASSUME TypeOK
    PROVE  /\ IsFiniteSet(Alive) /\ Cardinality(Alive) \in Nat /\ Len(orphans) \in Nat
           /\ \A d : /\ IsFiniteSet(Sending(d)) /\ Cardinality(Sending(d)) \in Nat
                     /\ IsFiniteSet(Orphaned(d)) /\ Cardinality(Orphaned(d)) \in Nat
           /\ \A d : MainHas(d) \in {0, 1}
<1>1. Len(orphans) \in Nat
  BY DEF TypeOK
<1>2. IsFiniteSet(1 .. Len(orphans))
  BY <1>1, FS_Interval
<1>3. Alive \subseteq Threads /\ \A d : Sending(d) \subseteq Threads /\ Orphaned(d) \subseteq 1 .. Len(orphans)
  BY DEF Alive, Sending, Orphaned
<1>4. \A d : MainHas(d) \in {0, 1}
  BY DEF MainHas
<1> QED BY <1>1, <1>2, <1>3, <1>4, FS_Subset, FS_CardinalityType

\* One element more or less.
LEMMA Recount ==
    ASSUME NEW A, NEW B, IsFiniteSet(A), NEW x
    PROVE  /\ B = A => Cardinality(B) = Cardinality(A)
           /\ x \notin A /\ B = A \cup {x} => Cardinality(B) = Cardinality(A) + 1
           /\ x \in A /\ B = A \ {x} => Cardinality(B) = Cardinality(A) - 1
BY FS_AddElement, FS_RemoveElement

LEMMA StillFinite ==
    ASSUME NEW A, IsFiniteSet(A), NEW x  PROVE IsFiniteSet(A \cup {x}) /\ IsFiniteSet(A \ {x})
BY FS_AddElement, FS_RemoveElement

-----------------------------------------------------------------------------
LEMMA HandsHoldKept ==
    ASSUME ServerInv, [Next]_vars  PROVE HandsHold'
<1> USE DEF ServerInv, HandsHold, TypeOK
<1>1. ASSUME MainStep  PROVE HandsHold'
  <2>1. CASE Receive
    <3>1. \A d \in BagToSet(requests) : d \in Datagrams
      BY BagsAre DEF DatagramBag
    <3> QED BY <2>1, <3>1 DEF Receive, MainGoto
  <2>2. CASE WaitSlot \/ MallocFails \/ SpawnFails
    BY <2>2 DEF WaitSlot, MallocFails, SpawnFails, MainGoto
  <2>3. CASE Spawn
    BY <2>3 DEF Spawn, MainGoto
  <2> QED BY <1>1, <2>1, <2>2, <2>3 DEF MainStep
<1>2. ASSUME NEW t \in Threads, HandlerStep(t)  PROVE HandsHold'
  BY <1>2 DEF HandlerStep, Echo, Free, Post, Goto
<1>3. CASE UNCHANGED <<main, buffer, task, data>>
  BY <1>3
<1> QED BY <1>1, <1>2, <1>3
        DEF Next, Run, ClientNext, SendTo, RecvFrom, Lose, Duplicate, serverVars, vars

LEMMA SlotsKept ==
    ASSUME ServerInv, [Next]_vars  PROVE SlotAccounting' /\ conn_sem' \in Nat
<1> USE DEF ServerInv
<1>1. /\ IsFiniteSet(Alive) /\ Cardinality(Alive) \in Nat /\ Len(orphans) \in Nat /\ conn_sem \in Nat
      /\ MAX_CONCURRENT \in Nat
  BY Finite DEF TypeOK
<1>2. conn_sem + Cardinality(Alive) + Len(orphans) + MainSlots = MAX_CONCURRENT
  BY DEF SlotAccounting, MainSlots
<1>3. SlotAccounting' <=>
         conn_sem' + Cardinality(Alive') + Len(orphans') + MainSlots' = MAX_CONCURRENT
  BY DEF SlotAccounting, MainSlots
<1>4. CASE UNCHANGED <<conn_sem, orphans>> /\ Alive' = Alive /\ MainSlots' = MainSlots
  BY <1>1, <1>2, <1>3, <1>4
<1>5. CASE WaitSlot
  <2>1. Alive' = Alive /\ orphans' = orphans /\ MainSlots = 0 /\ MainSlots' = 1
    BY <1>5 DEF WaitSlot, MainGoto, Alive, MainSlots
  <2>2. conn_sem' = conn_sem - 1 /\ conn_sem > 0
    BY <1>5 DEF WaitSlot
  <2> QED BY <1>1, <1>2, <1>3, <2>1, <2>2
<1>6. CASE Spawn
  <2>1. PICK t \in Threads : task[t] = "none" /\ task' = [task EXCEPT ![t] = "send"]
    BY <1>6 DEF Spawn
  <2>2. Alive' = Alive \cup {t} /\ t \notin Alive
    BY <2>1 DEF Alive, TypeOK
  <2>3. /\ Cardinality(Alive') = Cardinality(Alive) + 1 /\ UNCHANGED <<conn_sem, orphans>>
        /\ MainSlots = 1 /\ MainSlots' = 0
    BY <1>1, <1>6, <2>2, Recount DEF Spawn, MainGoto, MainSlots
  <2> QED BY <1>1, <1>2, <1>3, <2>3
<1>7. CASE SpawnFails
  <2>1. Alive' = Alive /\ MainSlots = 1 /\ MainSlots' = 0 /\ conn_sem' = conn_sem
    BY <1>7 DEF SpawnFails, MainGoto, Alive, MainSlots
  <2>2. Len(orphans') = Len(orphans) + 1
    BY <1>7 DEF SpawnFails, TypeOK
  <2> QED BY <1>1, <1>2, <1>3, <2>1, <2>2
<1>8. ASSUME NEW t \in Threads, Post(t)  PROVE SlotAccounting' /\ conn_sem' \in Nat
  <2>1. Alive' = Alive \ {t} /\ t \in Alive
    BY <1>8 DEF Post, Goto, Alive, TypeOK
  <2>2. /\ Cardinality(Alive') = Cardinality(Alive) - 1 /\ conn_sem' = conn_sem + 1
        /\ orphans' = orphans /\ MainSlots' = MainSlots
    BY <1>1, <1>8, <2>1, Recount DEF Post, MainSlots
  <2> QED BY <1>1, <1>2, <1>3, <2>2
<1>9. ASSUME NEW t \in Threads, Echo(t) \/ Free(t)  PROVE SlotAccounting' /\ conn_sem' \in Nat
  <2>1. Alive' = Alive /\ UNCHANGED <<conn_sem, orphans>> /\ MainSlots' = MainSlots
    BY <1>9 DEF Echo, Free, Goto, Alive, MainSlots, TypeOK
  <2> QED BY <1>4, <2>1
<1>10. CASE Receive \/ MallocFails \/ UNCHANGED serverVars
  <2>1. Alive' = Alive /\ UNCHANGED <<conn_sem, orphans>> /\ MainSlots' = MainSlots
    BY <1>10 DEF Receive, MallocFails, MainGoto, serverVars, Alive, MainSlots
  <2> QED BY <1>4, <2>1
<1> QED BY <1>5, <1>6, <1>7, <1>8, <1>9, <1>10
        DEF Next, Run, MainStep, HandlerStep, ClientNext, SendTo, RecvFrom, Lose, Duplicate, vars

\* The datagrams in hand, when one of them changes hands.
LEMMA Balance ==
    ASSUME ServerInv, NEW d \in Datagrams
    PROVE  /\ Copies(received, d) = Copies(echoed, d)
                  + Cardinality(Sending(d)) + Cardinality(Orphaned(d)) + MainHas(d)
           /\ Copies(received, d) \in Nat /\ Copies(echoed, d) \in Nat
           /\ IsFiniteSet(Sending(d)) /\ Cardinality(Sending(d)) \in Nat
           /\ IsFiniteSet(Orphaned(d)) /\ Cardinality(Orphaned(d)) \in Nat
           /\ MainHas(d) \in {0, 1}
<1>1. TypeOK
  BY DEF ServerInv
<1>2. Copies(received, d) \in Nat /\ Copies(echoed, d) \in Nat
  BY <1>1, BagsAre, CopiesAre
<1>3. InHand(d) = Cardinality(Sending(d)) + Cardinality(Orphaned(d)) + MainHas(d)
  BY InHandIs
<1>4. Copies(received, d) = Copies(echoed, d) + InHand(d)
  BY DEF ServerInv, EchoAccounting
<1>5. /\ IsFiniteSet(Sending(d)) /\ Cardinality(Sending(d)) \in Nat
      /\ IsFiniteSet(Orphaned(d)) /\ Cardinality(Orphaned(d)) \in Nat
      /\ MainHas(d) \in {0, 1}
  BY <1>1, Finite
<1> QED BY <1>2, <1>3, <1>4, <1>5

LEMMA EchoesKept ==
    ASSUME ServerInv, [Next]_vars  PROVE EchoAccounting'
<1> DEFINE One(e, d) == IF e = d THEN 1 ELSE 0
           Kept(d) == Copies(received', d) = Copies(echoed', d)
                         + (Cardinality(Sending(d)') + Cardinality(Orphaned(d)') + MainHas(d)')
<1>1. EchoAccounting' <=> \A d \in Datagrams : Kept(d)
  <2>1. EchoAccounting' <=>
           \A d \in Datagrams : Copies(received', d) = Copies(echoed', d) + InHand(d)'
    BY DEF EchoAccounting, Copies
  <2>2. \A d : InHand(d)' = Cardinality(Sending(d)') + Cardinality(Orphaned(d)') + MainHas(d)'
    BY DEF InHand, Sending, Orphaned, MainHas
  <2> QED BY <2>1, <2>2
<1>2. TypeOK /\ HandsHold /\ DatagramBag(received) /\ DatagramBag(echoed) /\ DatagramBag(requests)
  BY BagsAre DEF ServerInv
<1> SUFFICES ASSUME NEW d \in Datagrams  PROVE Kept(d)
  BY <1>1
<1>3. /\ Copies(received, d) = Copies(echoed, d)
             + Cardinality(Sending(d)) + Cardinality(Orphaned(d)) + MainHas(d)
      /\ Copies(received, d) \in Nat /\ Copies(echoed, d) \in Nat
      /\ Cardinality(Sending(d)) \in Nat /\ Cardinality(Orphaned(d)) \in Nat
      /\ MainHas(d) \in {0, 1}
  BY Balance
<1>4. IsFiniteSet(Sending(d)) /\ IsFiniteSet(Orphaned(d))
  BY Balance
<1>5. CASE Receive
  <2>1. PICK e \in BagToSet(requests) : buffer' = e /\ received' = BagAdd(received, e)
    BY <1>5 DEF Receive
  <2>2. Copies(received', d) = Copies(received, d) + One(e, d)
    BY <1>2, <2>1, AddedCopy DEF DatagramBag
  <2>3. MainHas(d) = 0 /\ MainHas(d)' = One(e, d)
    BY <1>5, <2>1 DEF Receive, MainGoto, MainHas
  <2>4. Sending(d)' = Sending(d) /\ Orphaned(d)' = Orphaned(d) /\ echoed' = echoed
    BY <1>5 DEF Receive, Sending, Orphaned
  <2> QED BY <1>3, <2>2, <2>3, <2>4
<1>6. CASE WaitSlot \/ MallocFails \/ UNCHANGED serverVars
  <2>1. /\ Sending(d)' = Sending(d) /\ Orphaned(d)' = Orphaned(d) /\ MainHas(d)' = MainHas(d)
        /\ echoed' = echoed /\ received' = received
    BY <1>6 DEF WaitSlot, MallocFails, MainGoto, serverVars, Sending, Orphaned, MainHas
  <2> QED BY <1>3, <2>1
<1>7. CASE Spawn
  <2>1. PICK t \in Threads : /\ task[t] = "none" /\ task' = [task EXCEPT ![t] = "send"]
                             /\ data' = [data EXCEPT ![t] = buffer]
    BY <1>7 DEF Spawn
  <2>2. /\ t \notin Sending(d)
        /\ Sending(d)' = IF buffer = d THEN Sending(d) \cup {t} ELSE Sending(d)
    BY <1>2, <2>1 DEF Sending, TypeOK
  <2>3. Cardinality(Sending(d)') = Cardinality(Sending(d)) + One(buffer, d)
    BY <1>3, <1>4, <2>2, Recount
  <2>4. /\ Orphaned(d)' = Orphaned(d) /\ echoed' = echoed /\ received' = received
        /\ MainHas(d) = One(buffer, d) /\ MainHas(d)' = 0
    BY <1>7 DEF Spawn, MainGoto, Orphaned, MainHas
  <2> QED BY <1>3, <2>3, <2>4
<1>8. CASE SpawnFails
  <2>1. orphans \in Seq(Datagrams) /\ buffer \in Datagrams /\ orphans' = Append(orphans, buffer)
    BY <1>2, <1>8 DEF SpawnFails, MainGoto, TypeOK, HandsHold
  <2>2. /\ Len(orphans') = Len(orphans) + 1 /\ Len(orphans) \in Nat
        /\ \A k \in 1 .. Len(orphans) : orphans'[k] = orphans[k]
        /\ orphans'[Len(orphans) + 1] = buffer
    BY <2>1
  <2>3. /\ Len(orphans) + 1 \notin Orphaned(d)
        /\ Orphaned(d)' = IF buffer = d THEN Orphaned(d) \cup {Len(orphans) + 1} ELSE Orphaned(d)
    BY <2>2 DEF Orphaned
  <2>4. Cardinality(Orphaned(d)') = Cardinality(Orphaned(d)) + One(buffer, d)
    BY <1>3, <1>4, <2>3, Recount
  <2>5. /\ Sending(d)' = Sending(d) /\ echoed' = echoed /\ received' = received
        /\ MainHas(d) = One(buffer, d) /\ MainHas(d)' = 0
    BY <1>8 DEF SpawnFails, MainGoto, Sending, MainHas
  <2> QED BY <1>3, <2>4, <2>5
<1>9. ASSUME NEW t \in Threads, Echo(t)  PROVE Kept(d)
  <2>1. task[t] = "send" /\ task' = [task EXCEPT ![t] = "free"] /\ data[t] \in Datagrams
    BY <1>2, <1>9 DEF Echo, Goto, HandsHold
  <2>2. Copies(echoed', d) = Copies(echoed, d) + One(data[t], d)
    BY <1>2, <1>9, <2>1, AddedCopy DEF Echo
  <2>3. /\ data[t] = d => t \in Sending(d)
        /\ Sending(d)' = IF data[t] = d THEN Sending(d) \ {t} ELSE Sending(d)
    BY <1>2, <1>9, <2>1 DEF Echo, Sending, TypeOK
  <2>4. Cardinality(Sending(d)') = Cardinality(Sending(d)) - One(data[t], d)
    BY <1>3, <1>4, <2>3, Recount
  <2>5. Orphaned(d)' = Orphaned(d) /\ received' = received /\ MainHas(d)' = MainHas(d)
    BY <1>9 DEF Echo, Orphaned, MainHas
  <2> QED BY <1>3, <2>2, <2>4, <2>5
<1>10. ASSUME NEW t \in Threads, Free(t) \/ Post(t)  PROVE Kept(d)
  <2>1. Sending(d)' = Sending(d)
    BY <1>2, <1>10 DEF Free, Post, Goto, Sending, TypeOK
  <2>2. /\ Orphaned(d)' = Orphaned(d) /\ MainHas(d)' = MainHas(d)
        /\ echoed' = echoed /\ received' = received
    BY <1>10 DEF Free, Post, Orphaned, MainHas
  <2> QED BY <1>3, <2>1, <2>2
<1> HIDE DEF Kept
<1> QED BY <1>5, <1>6, <1>7, <1>8, <1>9, <1>10
        DEF Next, Run, MainStep, HandlerStep, ClientNext, SendTo, RecvFrom, Lose, Duplicate, vars

-----------------------------------------------------------------------------
LEMMA WaitersKept ==
    ASSUME ServerInv, [Next]_vars  PROVE WaitersInLoop'
<1> USE DEF ServerInv, WaitersInLoop, TypeOK
<1>1. ASSUME NEW c \in Clients, ClientNext(c)  PROVE WaitersInLoop'
  BY <1>1 DEF ClientNext, SendTo, RecvFrom
<1>2. CASE UNCHANGED clientVars
  BY <1>2 DEF clientVars
<1> QED BY <1>1, <1>2
        DEF Next, Run, MainStep, Receive, WaitSlot, MallocFails, Spawn, SpawnFails,
            HandlerStep, Echo, Free, Post, Lose, Duplicate, vars

\* A datagram put on its way, or taken from it, leaves a bag of datagrams.
LEMMA BagsMove ==
    ASSUME ServerInv, [Next]_vars
    PROVE  DatagramBag(requests') /\ DatagramBag(echoes') /\ DatagramBag(lost')
           /\ DatagramBag(received') /\ DatagramBag(echoed')
<1>1. /\ DatagramBag(requests) /\ DatagramBag(echoes) /\ DatagramBag(lost)
      /\ DatagramBag(received) /\ DatagramBag(echoed)
  BY BagsAre DEF ServerInv
<1>2. \A b, d : DatagramBag(b) /\ d \in BagToSet(b) => d \in Datagrams /\ DatagramBag(BagRemove(b, d))
  BY RemovedCopy DEF DatagramBag
<1>3. \A b, d : DatagramBag(b) /\ d \in Datagrams => DatagramBag(BagAdd(b, d))
  BY AddedCopy
<1>4. CASE Receive
  BY <1>1, <1>2, <1>3, <1>4 DEF Receive
<1>5. ASSUME NEW t \in Threads, Echo(t)  PROVE DatagramBag(echoes') /\ DatagramBag(echoed')
  <2>1. data[t] \in Datagrams
    BY <1>5 DEF ServerInv, HandsHold, Echo, Goto
  <2> QED BY <1>1, <1>3, <1>5, <2>1 DEF Echo
<1>6. ASSUME NEW c \in Clients, SendTo(c)  PROVE DatagramBag(requests')
  <2>1. [from |-> c, round |-> i[c]] \in Datagrams
    BY <1>6 DEF SendTo, Datagrams, ServerInv, TypeOK
  <2> QED BY <1>1, <1>3, <1>6, <2>1 DEF SendTo
<1>7. ASSUME NEW c \in Clients, RecvFrom(c)  PROVE DatagramBag(echoes')
  BY <1>1, <1>2, <1>7 DEF RecvFrom
<1>8. CASE Lose
  BY <1>1, <1>2, <1>3, <1>8 DEF Lose, serverVars
<1>9. CASE Duplicate
  BY <1>1, <1>2, <1>3, <1>9 DEF Duplicate, serverVars
<1>10. ASSUME NEW t \in Threads, Echo(t)
       PROVE  UNCHANGED <<requests, lost, received>>
  BY <1>10 DEF Echo
<1>11. ASSUME NEW c \in Clients, ClientNext(c)
       PROVE  /\ UNCHANGED <<lost, received, echoed>>
              /\ (SendTo(c) /\ UNCHANGED echoes) \/ (RecvFrom(c) /\ UNCHANGED requests)
  BY <1>11 DEF ClientNext, SendTo, RecvFrom, serverVars
<1>12. CASE UNCHANGED <<networkVars, received, echoed>>
  BY <1>1, <1>12 DEF networkVars
<1>13. CASE WaitSlot \/ MallocFails \/ Spawn \/ SpawnFails \/ \E t \in Threads : Free(t) \/ Post(t)
  BY <1>12, <1>13 DEF WaitSlot, MallocFails, Spawn, SpawnFails, Free, Post
<1>14. CASE UNCHANGED vars
  BY <1>12, <1>14 DEF vars, serverVars
<1> QED BY <1>1, <1>4, <1>5, <1>6, <1>7, <1>8, <1>9, <1>10, <1>11, <1>13, <1>14
        DEF Next, Run, MainStep, HandlerStep

LEMMA TypeKept ==
    ASSUME ServerInv, [Next]_vars  PROVE TypeOK'
<1> DEFINE Rest ==
        /\ status' \in {"ready", "killed"}
        /\ main' \in {"recv", "wait", "spawn"} /\ buffer' \in Datagrams \cup {NULL}
        /\ task' \in [Threads -> {"none", "send", "free", "post"}]
        /\ data' \in [Threads -> Datagrams \cup {NULL}]
        /\ orphans' \in Seq(Datagrams)
        /\ duplicates' \in 0 .. MaxDuplicates
        /\ i' \in [Clients -> 1 .. Repeat + 1] /\ waiting' \in [Clients -> BOOLEAN]
<1>1. Rest
  <2> USE DEF ServerInv, TypeOK
  <2>1. CASE Receive
    <3>1. \A d \in BagToSet(requests) : d \in Datagrams
      BY BagsAre DEF DatagramBag
    <3> QED BY <2>1, <3>1 DEF Receive, MainGoto, clientVars
  <2>2. CASE WaitSlot \/ MallocFails
    BY <2>2 DEF WaitSlot, MallocFails, MainGoto, networkVars, clientVars
  <2>3. CASE Spawn
    BY <2>3 DEF Spawn, MainGoto, networkVars, clientVars
  <2>4. CASE SpawnFails
    <3>1. Append(orphans, buffer) \in Seq(Datagrams)
      BY <2>4 DEF SpawnFails, MainGoto, HandsHold
    <3> QED BY <2>4, <3>1 DEF SpawnFails, MainGoto, networkVars, clientVars
  <2>5. ASSUME NEW t \in Threads, HandlerStep(t)  PROVE Rest
    BY <2>5 DEF HandlerStep, Echo, Free, Post, Goto, networkVars, clientVars
  <2>6. ASSUME NEW c \in Clients, ClientNext(c)  PROVE Rest
    <3>1. i' \in [Clients -> 1 .. Repeat + 1] /\ waiting' \in [Clients -> BOOLEAN]
      <4>1. waiting[c] => i[c] + 1 \in 1 .. Repeat + 1
        BY DEF WaitersInLoop
      <4>2. \/ i' = i /\ waiting' = [waiting EXCEPT ![c] = TRUE]
            \/ waiting[c] /\ i' = [i EXCEPT ![c] = i[c] + 1] /\ waiting' = [waiting EXCEPT ![c] = FALSE]
        BY <2>6 DEF ClientNext, SendTo, RecvFrom
      <4>3. i \in [Clients -> 1 .. Repeat + 1] /\ waiting \in [Clients -> BOOLEAN]
        OBVIOUS
      <4> HIDE DEF ServerInv, TypeOK
      <4> QED BY <4>1, <4>2, <4>3
    <3> QED BY <2>6, <3>1 DEF ClientNext, SendTo, RecvFrom, serverVars
  <2>7. CASE Lose \/ Duplicate
    <3>1. duplicates' \in 0 .. MaxDuplicates
      BY <2>7 DEF Lose, Duplicate
    <3> QED BY <2>7, <3>1 DEF Lose, Duplicate, serverVars, clientVars
  <2>8. CASE UNCHANGED vars
    BY <2>8 DEF vars, serverVars, networkVars, clientVars
  <2> HIDE DEF Rest
  <2> QED BY <2>1, <2>2, <2>3, <2>4, <2>5, <2>6, <2>7, <2>8 DEF Next, Run, MainStep
<1>2. conn_sem' \in 0 .. MAX_CONCURRENT
  <2>1. SlotAccounting' /\ conn_sem' \in Nat
    BY SlotsKept
  <2>2. Alive' \subseteq Threads
    BY DEF Alive
  <2>3. Cardinality(Alive') \in Nat
    BY <2>2, FS_Subset, FS_CardinalityType
  <2>4. Len(orphans') \in Nat
    BY <1>1
  <2> QED BY <2>1, <2>3, <2>4 DEF SlotAccounting
<1>3. /\ DatagramBag(requests') /\ DatagramBag(echoes') /\ DatagramBag(lost')
      /\ DatagramBag(received') /\ DatagramBag(echoed')
  BY BagsMove
<1> QED BY <1>1, <1>2, <1>3 DEF TypeOK, DatagramBag

LEMMA ServerInvKept ==
    ASSUME ServerInv, [Next]_vars  PROVE ServerInv'
BY TypeKept, SlotsKept, HandsHoldKept, WaitersKept, EchoesKept DEF ServerInv

LEMMA ServerInvAtFirst ==
    ASSUME Init  PROVE ServerInv
<1> USE DEF Init
<1>1. \A b \in {requests, echoes, lost, received, echoed} : IsABag(b) /\ BagToSet(b) \subseteq Datagrams
  BY NoCopies DEF DatagramBag
<1>2. TypeOK
  BY <1>1 DEF TypeOK
<1>3. HandsHold /\ WaitersInLoop
  BY DEF HandsHold, WaitersInLoop
<1>4. SlotAccounting
  <2>1. Alive = {} /\ Len(orphans) = 0
    BY DEF Alive
  <2>2. Cardinality(Alive) = 0
    BY <2>1, FS_EmptySet
  <2> QED BY <2>1, <2>2 DEF SlotAccounting
<1>5. EchoAccounting
  <2>1. \A d : Sending(d) = {} /\ Orphaned(d) = {} /\ MainHas(d) = 0
    BY DEF Sending, Orphaned, MainHas
  <2>2. \A d \in Datagrams : InHand(d) = 0
    <3>1. \A d : Cardinality(Sending(d)) = 0 /\ Cardinality(Orphaned(d)) = 0
      BY <2>1, FS_EmptySet
    <3> QED BY <2>1, <3>1, InHandIs
  <2>3. \A d : Copies(received, d) = 0 /\ Copies(echoed, d) = 0
    BY NoCopies
  <2> QED BY <2>2, <2>3 DEF EchoAccounting
<1> QED BY <1>2, <1>3, <1>4, <1>5 DEF ServerInv

-----------------------------------------------------------------------------
(***************************************************************************)
(* The clients.  A datagram that was sent, or a copy the network made of   *)
(* one, is a token until a client has counted it: it is on its way to the  *)
(* server or back, with the server, or lost.                               *)
(***************************************************************************)
One(e, d) == IF e = d THEN 1 ELSE 0
Datagram(c, r) == [from |-> c, round |-> r]
Sent(c) == IF waiting[c] THEN i[c] ELSE i[c] - 1
Tokens(d) == Copies(requests, d) + Copies(echoes, d) + Copies(lost, d)
             + (Copies(received, d) - Copies(echoed, d))

\* The tokens of a client, each a round and a number.
Under(f) == {x \in (1 .. Repeat) \X Nat : 0 < x[2] /\ x[2] <= f[x[1]]}
TokensOf(c) == [r \in 1 .. Repeat |-> Tokens(Datagram(c, r))]
TokenSet(c) == Under(TokensOf(c))

Anywhere == BagToSet(requests) \cup BagToSet(received) \cup BagToSet(echoed)
            \cup BagToSet(echoes) \cup BagToSet(lost)

NoRoundAhead == \A d \in Anywhere : d.round <= Sent(d.from)
EchoesWereMade == BagToSet(echoes) \subseteq BagToSet(echoed)
NoRoundForgotten ==
    \A c \in Clients : \A r \in 1 .. Sent(c) :
        Datagram(c, r) \in BagToSet(echoed) \/ Tokens(Datagram(c, r)) >= 1
TokensCounted ==
    \A c \in Clients : /\ IsFiniteSet(TokenSet(c))
                       /\ i[c] - 1 + Cardinality(TokenSet(c)) <= Sent(c) + duplicates

EchoedFinite == IsFiniteSet(BagToSet(echoed))

EchoInv == /\ ServerInv /\ NoRoundAhead /\ EchoesWereMade
           /\ NoRoundForgotten /\ TokensCounted /\ EchoedFinite

LEMMA DatagramsAre ==
    /\ \A c \in Clients, r \in 1 .. Repeat :
          Datagram(c, r) \in Datagrams /\ Datagram(c, r).from = c /\ Datagram(c, r).round = r
    /\ \A d \in Datagrams : d.from \in Clients /\ d.round \in 1 .. Repeat /\ d = Datagram(d.from, d.round)
BY DEF Datagram, Datagrams

LEMMA SentIs ==
    ASSUME ServerInv, NEW c \in Clients
    PROVE  Sent(c) \in 0 .. Repeat /\ i[c] \in 1 .. Repeat + 1 /\ waiting[c] \in BOOLEAN
<1>1. i[c] \in 1 .. Repeat + 1 /\ waiting[c] \in BOOLEAN /\ (waiting[c] => i[c] <= Repeat)
  BY DEF ServerInv, TypeOK, WaitersInLoop
<1> QED BY <1>1 DEF Sent

LEMMA TokensAre ==
    ASSUME ServerInv, NEW d \in Datagrams
    PROVE  /\ Tokens(d) \in Nat
           /\ Copies(requests, d) \in Nat /\ Copies(echoes, d) \in Nat /\ Copies(lost, d) \in Nat
           /\ Copies(received, d) \in Nat /\ Copies(echoed, d) \in Nat
           /\ d \in BagToSet(echoes) => Tokens(d) >= 1
<1>1. /\ Copies(requests, d) \in Nat /\ Copies(echoes, d) \in Nat /\ Copies(lost, d) \in Nat
      /\ d \in BagToSet(echoes) => Copies(echoes, d) > 0
  BY BagsAre, CopiesAre DEF ServerInv
<1>2. /\ Copies(received, d) \in Nat /\ Copies(echoed, d) \in Nat
      /\ Copies(received, d) - Copies(echoed, d) \in Nat
  BY Balance
<1> QED BY <1>1, <1>2 DEF Tokens

\* One token more, one token less.
LEMMA OneMore ==
    ASSUME NEW f \in [1 .. Repeat -> Nat], NEW r \in 1 .. Repeat, IsFiniteSet(Under(f)),
           NEW g, g = [f EXCEPT ![r] = f[r] + 1]
    PROVE  IsFiniteSet(Under(g)) /\ Cardinality(Under(g)) = Cardinality(Under(f)) + 1
<1>1. <<r, f[r] + 1>> \notin Under(f)
  BY DEF Under
<1>2. Under(g) = Under(f) \cup {<<r, f[r] + 1>>}
  <2>1. \A s \in 1 .. Repeat : g[s] = IF s = r THEN f[r] + 1 ELSE f[s]
    OBVIOUS
  <2>2. \A x \in (1 .. Repeat) \X Nat : x = <<x[1], x[2]>> /\ x[1] \in 1 .. Repeat /\ x[2] \in Nat
    OBVIOUS
  <2>3. \A x \in (1 .. Repeat) \X Nat :
           (0 < x[2] /\ x[2] <= g[x[1]]) <=> ((0 < x[2] /\ x[2] <= f[x[1]]) \/ x = <<r, f[r] + 1>>)
    BY <2>1, <2>2
  <2>4. <<r, f[r] + 1>> \in (1 .. Repeat) \X Nat
    OBVIOUS
  <2> QED BY <2>3, <2>4 DEF Under
<1>3. IsFiniteSet(Under(g))
  <2>1. IsFiniteSet(Under(f) \cup {<<r, f[r] + 1>>})
    BY StillFinite
  <2> QED BY <1>2, <2>1
<1>4. Cardinality(Under(g)) = Cardinality(Under(f)) + 1
  BY <1>1, <1>2, Recount
<1> QED BY <1>3, <1>4

LEMMA OneLess ==
    ASSUME NEW f \in [1 .. Repeat -> Nat], NEW r \in 1 .. Repeat, IsFiniteSet(Under(f)), f[r] >= 1,
           NEW g, g = [f EXCEPT ![r] = f[r] - 1]
    PROVE  IsFiniteSet(Under(g)) /\ Cardinality(Under(g)) = Cardinality(Under(f)) - 1
<1>1. <<r, f[r]>> \in Under(f)
  <2> DEFINE p == <<r, f[r]>>
  <2>1. p \in (1 .. Repeat) \X Nat /\ p[1] = r /\ p[2] = f[r] /\ 0 < f[r] /\ f[r] <= f[r]
    OBVIOUS
  <2> HIDE DEF p
  <2>2. p \in Under(f)
    BY <2>1 DEF Under
  <2> QED BY <2>2 DEF p
<1>2. Under(g) = Under(f) \ {<<r, f[r]>>}
  <2>1. \A s \in 1 .. Repeat : g[s] = IF s = r THEN f[r] - 1 ELSE f[s]
    OBVIOUS
  <2>2. \A x \in (1 .. Repeat) \X Nat : x = <<x[1], x[2]>> /\ x[1] \in 1 .. Repeat /\ x[2] \in Nat
    OBVIOUS
  <2>3. \A x \in (1 .. Repeat) \X Nat :
           (0 < x[2] /\ x[2] <= g[x[1]]) <=> ((0 < x[2] /\ x[2] <= f[x[1]]) /\ x # <<r, f[r]>>)
    BY <2>1, <2>2
  <2> QED BY <2>3 DEF Under
<1>3. IsFiniteSet(Under(g))
  <2>1. IsFiniteSet(Under(f) \ {<<r, f[r]>>})
    BY StillFinite
  <2> QED BY <1>2, <2>1
<1>4. Cardinality(Under(g)) = Cardinality(Under(f)) - 1
  BY <1>1, <1>2, Recount
<1> QED BY <1>3, <1>4

LEMMA TokensStill ==
    ASSUME \A d \in Datagrams : Tokens(d)' = Tokens(d), NEW c \in Clients
    PROVE  TokenSet(c)' = TokenSet(c)
<1>1. TokensOf(c)' = TokensOf(c)
  <2>1. \A r \in 1 .. Repeat : Tokens(Datagram(c, r))' = Tokens(Datagram(c, r))
    BY DatagramsAre
  <2> QED BY <2>1 DEF TokensOf
<1> QED BY <1>1 DEF TokenSet, Under

LEMMA TokenMore ==
    ASSUME ServerInv, NEW e \in Datagrams, NEW c \in Clients, IsFiniteSet(TokenSet(c)),
           \A d \in Datagrams : Tokens(d)' = Tokens(d) + One(e, d)
    PROVE  /\ IsFiniteSet(TokenSet(c)')
           /\ Cardinality(TokenSet(c)') = Cardinality(TokenSet(c)) + One(e.from, c)
<1>1. /\ TokensOf(c) \in [1 .. Repeat -> Nat]
      /\ TokensOf(c)' = [r \in 1 .. Repeat |-> TokensOf(c)[r] + One(e, Datagram(c, r))]
  <2>1. \A r \in 1 .. Repeat : /\ Datagram(c, r) \in Datagrams /\ Tokens(Datagram(c, r)) \in Nat
                               /\ Tokens(Datagram(c, r))' = Tokens(Datagram(c, r)) + One(e, Datagram(c, r))
    BY DatagramsAre, TokensAre
  <2>2. \A r \in 1 .. Repeat : TokensOf(c)[r] = Tokens(Datagram(c, r))
    BY DEF TokensOf
  <2>3. TokensOf(c)' = [r \in 1 .. Repeat |-> Tokens(Datagram(c, r))']
    BY DEF TokensOf
  <2>4. TokensOf(c) \in [1 .. Repeat -> Nat]
    BY <2>1 DEF TokensOf
  <2> QED BY <2>1, <2>2, <2>3, <2>4
<1>2. \A r \in 1 .. Repeat : e = Datagram(c, r) <=> e.from = c /\ e.round = r
  BY DatagramsAre
<1>3. CASE e.from = c
  <2>1. e.round \in 1 .. Repeat
    BY DatagramsAre
  <2>2. TokensOf(c)' = [TokensOf(c) EXCEPT ![e.round] = TokensOf(c)[e.round] + 1]
    <3>1. \A r \in 1 .. Repeat : One(e, Datagram(c, r)) = IF r = e.round THEN 1 ELSE 0
      BY <1>2, <1>3 DEF One
    <3>2. TokensOf(c)' = [r \in 1 .. Repeat |-> TokensOf(c)[r] + (IF r = e.round THEN 1 ELSE 0)]
      BY <1>1, <3>1
    <3>3. \A T, U, k : /\ T \in [1 .. Repeat -> Nat] /\ k \in 1 .. Repeat
                      /\ U = [r \in 1 .. Repeat |-> T[r] + (IF r = k THEN 1 ELSE 0)]
                      => U = [T EXCEPT ![k] = T[k] + 1]
      OBVIOUS
    <3> QED BY <1>1, <2>1, <3>2, <3>3
  <2> QED BY <1>1, <1>3, <2>1, <2>2, OneMore DEF One, TokenSet
<1>4. CASE e.from # c
  <2>1. TokensOf(c)' = TokensOf(c)
    <3>1. \A r \in 1 .. Repeat : One(e, Datagram(c, r)) = 0
      BY <1>2, <1>4 DEF One
    <3> QED BY <1>1, <3>1
  <2>2. TokenSet(c)' = TokenSet(c)
    BY <2>1 DEF TokenSet, Under
  <2> QED BY <1>4, <2>2, FS_CardinalityType DEF One
<1> QED BY <1>3, <1>4

LEMMA TokenLess ==
    ASSUME ServerInv, NEW e \in Datagrams, Tokens(e) >= 1, NEW c \in Clients, IsFiniteSet(TokenSet(c)),
           \A d \in Datagrams : Tokens(d)' = Tokens(d) - One(e, d)
    PROVE  /\ IsFiniteSet(TokenSet(c)')
           /\ Cardinality(TokenSet(c)') = Cardinality(TokenSet(c)) - One(e.from, c)
<1>1. /\ TokensOf(c) \in [1 .. Repeat -> Nat]
      /\ TokensOf(c)' = [r \in 1 .. Repeat |-> TokensOf(c)[r] - One(e, Datagram(c, r))]
  <2>1. \A r \in 1 .. Repeat : /\ Datagram(c, r) \in Datagrams /\ Tokens(Datagram(c, r)) \in Nat
                               /\ Tokens(Datagram(c, r))' = Tokens(Datagram(c, r)) - One(e, Datagram(c, r))
    BY DatagramsAre, TokensAre
  <2>2. \A r \in 1 .. Repeat : TokensOf(c)[r] = Tokens(Datagram(c, r))
    BY DEF TokensOf
  <2>3. TokensOf(c)' = [r \in 1 .. Repeat |-> Tokens(Datagram(c, r))']
    BY DEF TokensOf
  <2>4. TokensOf(c) \in [1 .. Repeat -> Nat]
    BY <2>1 DEF TokensOf
  <2> QED BY <2>1, <2>2, <2>3, <2>4
<1>2. \A r \in 1 .. Repeat : e = Datagram(c, r) <=> e.from = c /\ e.round = r
  BY DatagramsAre
<1>3. CASE e.from = c
  <2>1. e.round \in 1 .. Repeat /\ TokensOf(c)[e.round] >= 1
    BY <1>2, <1>3, DatagramsAre DEF TokensOf
  <2>2. TokensOf(c)' = [TokensOf(c) EXCEPT ![e.round] = TokensOf(c)[e.round] - 1]
    <3>1. \A r \in 1 .. Repeat : One(e, Datagram(c, r)) = IF r = e.round THEN 1 ELSE 0
      BY <1>2, <1>3 DEF One
    <3>2. TokensOf(c)' = [r \in 1 .. Repeat |-> TokensOf(c)[r] - (IF r = e.round THEN 1 ELSE 0)]
      BY <1>1, <3>1
    <3>3. \A T, U, k : /\ T \in [1 .. Repeat -> Nat] /\ k \in 1 .. Repeat
                      /\ U = [r \in 1 .. Repeat |-> T[r] - (IF r = k THEN 1 ELSE 0)]
                      => U = [T EXCEPT ![k] = T[k] - 1]
      OBVIOUS
    <3> QED BY <1>1, <2>1, <3>2, <3>3
  <2> QED BY <1>1, <1>3, <2>1, <2>2, OneLess DEF One, TokenSet
<1>4. CASE e.from # c
  <2>1. TokensOf(c)' = TokensOf(c)
    <3>1. \A r \in 1 .. Repeat : One(e, Datagram(c, r)) = 0
      BY <1>2, <1>4 DEF One
    <3> QED BY <1>1, <3>1
  <2>2. TokenSet(c)' = TokenSet(c)
    BY <2>1 DEF TokenSet, Under
  <2> QED BY <1>4, <2>2, FS_CardinalityType DEF One
<1> QED BY <1>3, <1>4

-----------------------------------------------------------------------------
(***************************************************************************)
(* What a step does with the tokens: none but a step of a client or the    *)
(* network's duplication makes or takes one.                               *)
(***************************************************************************)
Settled == /\ UNCHANGED <<i, waiting, duplicates>>
           /\ \A d \in Datagrams : Tokens(d)' = Tokens(d)

Copied(e) == /\ UNCHANGED <<i, waiting>> /\ duplicates' = duplicates + 1
             /\ \A d \in Datagrams : Tokens(d)' = Tokens(d) + One(e, d)

Went(c) == /\ ~waiting[c] /\ i[c] <= Repeat /\ UNCHANGED <<i, duplicates>>
           /\ waiting' = [waiting EXCEPT ![c] = TRUE]
           /\ \A d \in Datagrams : Tokens(d)' = Tokens(d) + One(Datagram(c, i[c]), d)

Came(c, e) == /\ waiting[c] /\ e.from = c /\ UNCHANGED duplicates
              /\ waiting' = [waiting EXCEPT ![c] = FALSE] /\ i' = [i EXCEPT ![c] = i[c] + 1]
              /\ \A d \in Datagrams : Tokens(d)' = Tokens(d) - One(e, d)

LEMMA CopiesMove ==
    ASSUME NEW b, DatagramBag(b)
    PROVE  /\ \A e \in Datagrams : \A d : Copies(BagAdd(b, e), d) = Copies(b, d) + One(e, d)
           /\ \A e \in BagToSet(b) : \A d : Copies(BagRemove(b, e), d) = Copies(b, d) - One(e, d)
<1>1. ASSUME NEW e \in Datagrams  PROVE \A d : Copies(BagAdd(b, e), d) = Copies(b, d) + One(e, d)
  BY AddedCopy DEF One
<1>2. ASSUME NEW e \in BagToSet(b)  PROVE \A d : Copies(BagRemove(b, e), d) = Copies(b, d) - One(e, d)
  BY RemovedCopy DEF One
<1> QED BY <1>1, <1>2

LEMMA TokensFlow ==
    ASSUME ServerInv, [Next]_vars
    PROVE  \/ Settled
           \/ \E e \in Datagrams : Copied(e)
           \/ \E c \in Clients : Went(c)
           \/ \E c \in Clients : \E e \in BagToSet(echoes) : Came(c, e)
<1>1. /\ DatagramBag(requests) /\ DatagramBag(echoes) /\ DatagramBag(lost)
      /\ DatagramBag(received) /\ DatagramBag(echoed)
  BY BagsAre DEF ServerInv
<1>2. \A d \in Datagrams :
         /\ Copies(requests, d) \in Int /\ Copies(echoes, d) \in Int /\ Copies(lost, d) \in Int
         /\ Copies(received, d) \in Int /\ Copies(echoed, d) \in Int
  BY TokensAre
<1>3. \A d : Tokens(d)' = Copies(requests', d) + Copies(echoes', d) + Copies(lost', d)
                          + (Copies(received', d) - Copies(echoed', d))
  BY DEF Tokens, Copies
<1>4. \A e, d : One(e, d) \in Int
  BY DEF One
<1>5. \A b \in {requests, echoes} : \A e \in BagToSet(b) : e \in Datagrams
  BY <1>1 DEF DatagramBag
<1>6. CASE UNCHANGED <<requests, echoes, lost, received, echoed, i, waiting, duplicates>>
  BY <1>3, <1>6 DEF Settled, Tokens
<1>7. CASE Receive
  <2>1. PICK e \in BagToSet(requests) : requests' = BagRemove(requests, e) /\ received' = BagAdd(received, e)
    BY <1>7 DEF Receive
  <2>2. \A d : /\ Copies(requests', d) = Copies(requests, d) - One(e, d)
               /\ Copies(received', d) = Copies(received, d) + One(e, d)
    BY <1>1, <1>5, <2>1, CopiesMove
  <2>3. UNCHANGED <<echoes, lost, echoed, duplicates, i, waiting>>
    BY <1>7 DEF Receive, clientVars
  <2> QED BY <1>2, <1>3, <1>4, <2>2, <2>3 DEF Settled, Tokens
<1>8. ASSUME NEW t \in Threads, Echo(t)  PROVE Settled
  <2>1. data[t] \in Datagrams
    BY <1>8 DEF Echo, Goto, ServerInv, HandsHold
  <2>2. \A d : /\ Copies(echoes', d) = Copies(echoes, d) + One(data[t], d)
               /\ Copies(echoed', d) = Copies(echoed, d) + One(data[t], d)
    BY <1>1, <1>8, <2>1, CopiesMove DEF Echo
  <2>3. UNCHANGED <<requests, lost, received, duplicates, i, waiting>>
    BY <1>8 DEF Echo, clientVars
  <2> QED BY <1>2, <1>3, <1>4, <2>2, <2>3 DEF Settled, Tokens
<1>9. CASE Lose
  <2>1. UNCHANGED <<received, echoed, duplicates, i, waiting>>
    BY <1>9 DEF Lose, serverVars, clientVars
  <2>2. ASSUME NEW e \in BagToSet(requests), requests' = BagRemove(requests, e),
               lost' = BagAdd(lost, e), echoes' = echoes
        PROVE  Settled
    <3>1. \A d : /\ Copies(requests', d) = Copies(requests, d) - One(e, d)
                 /\ Copies(lost', d) = Copies(lost, d) + One(e, d)
      BY <1>1, <1>5, <2>2, CopiesMove
    <3> QED BY <1>2, <1>3, <1>4, <2>1, <2>2, <3>1 DEF Settled, Tokens
  <2>3. ASSUME NEW e \in BagToSet(echoes), echoes' = BagRemove(echoes, e),
               lost' = BagAdd(lost, e), requests' = requests
        PROVE  Settled
    <3>1. \A d : /\ Copies(echoes', d) = Copies(echoes, d) - One(e, d)
                 /\ Copies(lost', d) = Copies(lost, d) + One(e, d)
      BY <1>1, <1>5, <2>3, CopiesMove
    <3> QED BY <1>2, <1>3, <1>4, <2>1, <2>3, <3>1 DEF Settled, Tokens
  <2> QED BY <1>9, <2>2, <2>3 DEF Lose
<1>10. CASE Duplicate
  <2>1. UNCHANGED <<lost, received, echoed, i, waiting>> /\ duplicates' = duplicates + 1
    BY <1>10 DEF Duplicate, serverVars, clientVars
  <2>2. ASSUME NEW e \in BagToSet(requests), requests' = BagAdd(requests, e), echoes' = echoes
        PROVE  e \in Datagrams /\ Copied(e)
    <3>1. e \in Datagrams /\ \A d : Copies(requests', d) = Copies(requests, d) + One(e, d)
      BY <1>1, <1>5, <2>2, CopiesMove
    <3> QED BY <1>2, <1>3, <1>4, <2>1, <2>2, <3>1 DEF Copied, Tokens
  <2>3. ASSUME NEW e \in BagToSet(echoes), echoes' = BagAdd(echoes, e), requests' = requests
        PROVE  e \in Datagrams /\ Copied(e)
    <3>1. e \in Datagrams /\ \A d : Copies(echoes', d) = Copies(echoes, d) + One(e, d)
      BY <1>1, <1>5, <2>3, CopiesMove
    <3> QED BY <1>2, <1>3, <1>4, <2>1, <2>3, <3>1 DEF Copied, Tokens
  <2> QED BY <1>10, <2>2, <2>3 DEF Duplicate
<1>11. ASSUME NEW c \in Clients, SendTo(c)  PROVE Went(c)
  <2>1. i[c] \in 1 .. Repeat
    BY <1>11, SentIs DEF SendTo
  <2>2. Datagram(c, i[c]) \in Datagrams /\ requests' = BagAdd(requests, Datagram(c, i[c]))
    BY <1>11, <2>1, DatagramsAre DEF SendTo, Datagram
  <2>3. \A d : Copies(requests', d) = Copies(requests, d) + One(Datagram(c, i[c]), d)
    BY <1>1, <2>2, CopiesMove
  <2>4. UNCHANGED <<echoes, lost, received, echoed, duplicates>>
    BY <1>11 DEF SendTo, serverVars
  <2>5. /\ ~waiting[c] /\ i[c] <= Repeat /\ UNCHANGED <<i, duplicates>>
        /\ waiting' = [waiting EXCEPT ![c] = TRUE]
    BY <1>11 DEF SendTo
  <2> QED BY <1>2, <1>3, <1>4, <2>3, <2>4, <2>5 DEF Went, Tokens
<1>12. ASSUME NEW c \in Clients, RecvFrom(c)
       PROVE  \E e \in BagToSet(echoes) : Came(c, e)
  <2>1. PICK e \in BagToSet(echoes) : e.from = c /\ echoes' = BagRemove(echoes, e)
    BY <1>12 DEF RecvFrom
  <2>2. \A d : Copies(echoes', d) = Copies(echoes, d) - One(e, d)
    BY <1>1, <2>1, CopiesMove
  <2>3. UNCHANGED <<requests, lost, received, echoed, duplicates>>
    BY <1>12 DEF RecvFrom, serverVars
  <2>4. /\ waiting[c] /\ waiting' = [waiting EXCEPT ![c] = FALSE]
        /\ i' = [i EXCEPT ![c] = i[c] + 1]
    BY <1>12 DEF RecvFrom
  <2> QED BY <1>2, <1>3, <1>4, <2>1, <2>2, <2>3, <2>4 DEF Came, Tokens
<1>13. CASE WaitSlot \/ MallocFails \/ Spawn \/ SpawnFails \/ (\E t \in Threads : Free(t) \/ Post(t))
            \/ UNCHANGED vars
  BY <1>6, <1>13 DEF WaitSlot, MallocFails, Spawn, SpawnFails, Free, Post,
                     vars, serverVars, networkVars, clientVars
<1> QED BY <1>7, <1>8, <1>9, <1>10, <1>11, <1>12, <1>13
        DEF Next, Run, MainStep, HandlerStep, ClientNext

\* Where the datagrams are: only a client brings a new one.
LEMMA PlacesFlow ==
    ASSUME ServerInv, EchoesWereMade, [Next]_vars
    PROVE  /\ EchoesWereMade' /\ BagToSet(echoed) \subseteq BagToSet(echoed')
           /\ \/ Anywhere' \subseteq Anywhere
              \/ \E c \in Clients : /\ SendTo(c)
                                    /\ Anywhere' \subseteq Anywhere \cup {Datagram(c, i[c])}
<1> DEFINE Flow == /\ BagToSet(echoes') \subseteq BagToSet(echoed')
                   /\ BagToSet(echoed) \subseteq BagToSet(echoed')
                   /\ Anywhere' \subseteq Anywhere
<1>1. /\ DatagramBag(requests) /\ DatagramBag(echoes) /\ DatagramBag(lost)
      /\ DatagramBag(received) /\ DatagramBag(echoed)
  BY BagsAre DEF ServerInv
<1>2. \A b, e : DatagramBag(b) /\ e \in BagToSet(b) =>
         e \in Datagrams /\ BagToSet(BagRemove(b, e)) \subseteq BagToSet(b)
  BY RemovedCopy DEF DatagramBag
<1>3. \A b, e : DatagramBag(b) /\ e \in Datagrams => BagToSet(BagAdd(b, e)) = BagToSet(b) \cup {e}
  BY AddedCopy
<1>4. BagToSet(echoes) \subseteq BagToSet(echoed)
  BY DEF EchoesWereMade
<1>5. Anywhere' = BagToSet(requests') \cup BagToSet(received') \cup BagToSet(echoed')
                  \cup BagToSet(echoes') \cup BagToSet(lost')
  BY DEF Anywhere, BagToSet
<1>6. EchoesWereMade' <=> BagToSet(echoes') \subseteq BagToSet(echoed')
  BY DEF EchoesWereMade, BagToSet
<1>7. CASE UNCHANGED <<requests, echoes, lost, received, echoed>>
  <2>1. Flow
    BY <1>4, <1>5, <1>7 DEF Anywhere
  <2> QED BY <1>6, <2>1
<1>8. CASE Receive
  <2>1. PICK e \in BagToSet(requests) : requests' = BagRemove(requests, e) /\ received' = BagAdd(received, e)
    BY <1>8 DEF Receive
  <2>2. BagToSet(requests') \subseteq BagToSet(requests) /\ BagToSet(received') = BagToSet(received) \cup {e}
    BY <1>1, <1>2, <1>3, <2>1
  <2>3. UNCHANGED <<echoes, lost, echoed>>
    BY <1>8 DEF Receive
  <2>4. Flow
    BY <1>4, <1>5, <2>2, <2>3 DEF Anywhere
  <2> QED BY <1>6, <2>4
<1>9. ASSUME NEW t \in Threads, Echo(t)  PROVE Flow
  <2>1. task[t] = "send" /\ data[t] \in Datagrams
    BY <1>9 DEF Echo, Goto, ServerInv, HandsHold
  <2>2. data[t] \in BagToSet(received)
    <3>1. t \in Sending(data[t])
      BY <2>1 DEF Sending
    <3>2. Cardinality(Sending(data[t])) # 0
      BY <2>1, <3>1, Balance, FS_EmptySet
    <3>3. Copies(received, data[t]) > 0
      BY <2>1, <3>2, Balance
    <3> QED BY <1>1, <3>3, CopiesAre
  <2>3. /\ BagToSet(echoes') = BagToSet(echoes) \cup {data[t]}
        /\ BagToSet(echoed') = BagToSet(echoed) \cup {data[t]}
    BY <1>1, <1>3, <1>9, <2>1 DEF Echo
  <2>4. UNCHANGED <<requests, lost, received>>
    BY <1>9 DEF Echo
  <2> QED BY <1>4, <1>5, <2>2, <2>3, <2>4 DEF Anywhere
<1>10. CASE Lose
  <2>1. UNCHANGED <<received, echoed>>
    BY <1>10 DEF Lose, serverVars
  <2>2. PICK e \in BagToSet(requests) \cup BagToSet(echoes) :
             /\ lost' = BagAdd(lost, e)
             /\ BagToSet(requests') \subseteq BagToSet(requests)
             /\ BagToSet(echoes') \subseteq BagToSet(echoes)
    BY <1>1, <1>2, <1>10 DEF Lose
  <2>3. BagToSet(lost') = BagToSet(lost) \cup {e}
    BY <1>1, <1>2, <1>3, <2>2
  <2>4. Flow
    BY <1>4, <1>5, <2>1, <2>2, <2>3 DEF Anywhere
  <2> QED BY <1>6, <2>4
<1>11. CASE Duplicate
  <2>1. UNCHANGED <<lost, received, echoed>>
    BY <1>11 DEF Duplicate, serverVars
  <2>2. /\ BagToSet(requests') = BagToSet(requests)
        /\ BagToSet(echoes') = BagToSet(echoes)
    BY <1>1, <1>2, <1>3, <1>11 DEF Duplicate
  <2>3. Flow
    BY <1>4, <1>5, <2>1, <2>2 DEF Anywhere
  <2> QED BY <1>6, <2>3
<1>12. ASSUME NEW c \in Clients, SendTo(c)
       PROVE  /\ BagToSet(echoes') \subseteq BagToSet(echoed')
              /\ BagToSet(echoed) \subseteq BagToSet(echoed')
              /\ Anywhere' \subseteq Anywhere \cup {Datagram(c, i[c])}
  <2>1. i[c] \in 1 .. Repeat
    BY <1>12, SentIs DEF SendTo
  <2>2. Datagram(c, i[c]) \in Datagrams /\ requests' = BagAdd(requests, Datagram(c, i[c]))
    BY <1>12, <2>1, DatagramsAre DEF SendTo, Datagram
  <2>3. BagToSet(requests') = BagToSet(requests) \cup {Datagram(c, i[c])}
    BY <1>1, <1>3, <2>2
  <2>4. UNCHANGED <<echoes, lost, received, echoed>>
    BY <1>12 DEF SendTo, serverVars
  <2> QED BY <1>4, <1>5, <2>3, <2>4 DEF Anywhere
<1>13. ASSUME NEW c \in Clients, RecvFrom(c)  PROVE Flow
  <2>1. PICK e \in BagToSet(echoes) : echoes' = BagRemove(echoes, e)
    BY <1>13 DEF RecvFrom
  <2>2. BagToSet(echoes') \subseteq BagToSet(echoes)
    BY <1>1, <1>2, <2>1
  <2>3. UNCHANGED <<requests, lost, received, echoed>>
    BY <1>13 DEF RecvFrom, serverVars
  <2> QED BY <1>4, <1>5, <2>2, <2>3 DEF Anywhere
<1>14. CASE WaitSlot \/ MallocFails \/ Spawn \/ SpawnFails \/ (\E t \in Threads : Free(t) \/ Post(t))
            \/ UNCHANGED vars
  BY <1>7, <1>14 DEF WaitSlot, MallocFails, Spawn, SpawnFails, Free, Post, vars, serverVars, networkVars
<1> HIDE DEF Flow
<1>15. Flow => EchoesWereMade' /\ BagToSet(echoed) \subseteq BagToSet(echoed') /\ Anywhere' \subseteq Anywhere
  BY <1>6 DEF Flow
<1> QED BY <1>6, <1>8, <1>9, <1>10, <1>11, <1>12, <1>13, <1>14, <1>15
        DEF Next, Run, MainStep, HandlerStep, ClientNext

LEMMA NoRoundAheadKept ==
    ASSUME EchoInv, [Next]_vars  PROVE NoRoundAhead'
<1>1. ServerInv /\ NoRoundAhead /\ EchoesWereMade
  BY DEF EchoInv
<1>2. \A d \in Anywhere : d \in Datagrams /\ d.from \in Clients /\ d.round \in 1 .. Repeat
  BY <1>1, BagsAre, DatagramsAre DEF Anywhere, DatagramBag, ServerInv
<1>3. \A c \in Clients : /\ Sent(c) \in 0 .. Repeat /\ i[c] \in 1 .. Repeat + 1
                         /\ waiting[c] \in BOOLEAN
  BY <1>1, SentIs
<1>4. i \in [Clients -> 1 .. Repeat + 1] /\ waiting \in [Clients -> BOOLEAN]
  BY <1>1 DEF ServerInv, TypeOK
<1>5. \A c \in Clients : Sent(c)' = IF waiting'[c] THEN i'[c] ELSE i'[c] - 1
  BY DEF Sent
<1>6. \A c \in Clients : Sent(c)' \in Int /\ Sent(c) <= Sent(c)'
  <2>1. CASE Settled \/ \E e \in Datagrams : Copied(e)
    BY <1>3, <1>5, <2>1 DEF Settled, Copied, Sent
  <2>2. ASSUME NEW c \in Clients, Went(c)
        PROVE  \A k \in Clients : Sent(k)' \in Int /\ Sent(k) <= Sent(k)'
    BY <1>3, <1>4, <1>5, <2>2 DEF Went, Sent
  <2>3. ASSUME NEW c \in Clients, NEW e, Came(c, e)
        PROVE  \A k \in Clients : Sent(k)' \in Int /\ Sent(k) <= Sent(k)'
    BY <1>3, <1>4, <1>5, <2>3 DEF Came, Sent
  <2> QED BY <1>1, <2>1, <2>2, <2>3, TokensFlow
<1>7. CASE Anywhere' \subseteq Anywhere
  <2>1. \A d \in Anywhere : d.round <= Sent(d.from)'
    BY <1>1, <1>2, <1>3, <1>6 DEF NoRoundAhead
  <2> QED BY <1>7, <2>1 DEF NoRoundAhead
<1>8. ASSUME NEW c \in Clients, SendTo(c), Anywhere' \subseteq Anywhere \cup {Datagram(c, i[c])}
      PROVE  NoRoundAhead'
  <2>1. \A d \in Anywhere : d.round <= Sent(d.from)'
    BY <1>1, <1>2, <1>3, <1>6 DEF NoRoundAhead
  <2>2. waiting'[c] = TRUE /\ i' = i
    BY <1>4, <1>8 DEF SendTo
  <2>3. Datagram(c, i[c]).round = i[c] /\ Datagram(c, i[c]).from = c
    BY DEF Datagram
  <2>4. \A d : d = Datagram(c, i[c]) => d.round <= Sent(d.from)'
    BY <1>3, <2>2, <2>3 DEF Sent
  <2> QED BY <1>8, <2>1, <2>4 DEF NoRoundAhead
<1> QED BY <1>1, <1>7, <1>8, PlacesFlow

LEMMA NoRoundForgottenKept ==
    ASSUME EchoInv, [Next]_vars  PROVE NoRoundForgotten'
<1>1. ServerInv /\ EchoesWereMade /\ BagToSet(echoed) \subseteq BagToSet(echoed')
  BY PlacesFlow DEF EchoInv
<1>2. \A c \in Clients : /\ Sent(c) \in 0 .. Repeat /\ i[c] \in 1 .. Repeat + 1
                         /\ waiting[c] \in BOOLEAN
  BY <1>1, SentIs
<1>3. i \in [Clients -> 1 .. Repeat + 1] /\ waiting \in [Clients -> BOOLEAN]
  BY <1>1 DEF ServerInv, TypeOK
<1>4. \A c \in Clients : \A r \in 1 .. Sent(c) :
         Datagram(c, r) \in BagToSet(echoed') \/ Tokens(Datagram(c, r)) >= 1
  BY <1>1 DEF EchoInv, NoRoundForgotten
<1>5. \A c \in Clients : Sent(c)' = IF waiting'[c] THEN i'[c] ELSE i'[c] - 1
  BY DEF Sent
<1>6. NoRoundForgotten' <=>
         \A c \in Clients : \A r \in 1 .. Sent(c)' :
            Datagram(c, r) \in BagToSet(echoed') \/ Tokens(Datagram(c, r))' >= 1
  BY DEF NoRoundForgotten, BagToSet
<1>7. \A d \in Datagrams : Tokens(d) \in Nat
  BY <1>1, TokensAre
<1>8. \A c \in Clients : \A r \in 1 .. Repeat : Datagram(c, r) \in Datagrams
  BY DatagramsAre
<1>9. \A e, d : One(e, d) \in {0, 1} /\ One(d, d) = 1
  BY DEF One
<1>10. CASE Settled \/ \E e \in Datagrams : Copied(e)
  <2>1. \A c \in Clients : Sent(c)' = Sent(c)
    BY <1>10 DEF Settled, Copied, Sent
  <2>2. \A d \in Datagrams : Tokens(d)' \in Nat /\ Tokens(d)' >= Tokens(d)
    BY <1>7, <1>9, <1>10 DEF Settled, Copied
  <2> QED BY <1>2, <1>4, <1>6, <1>7, <1>8, <2>1, <2>2
<1>11. ASSUME NEW k \in Clients, Went(k)  PROVE NoRoundForgotten'
  <2>1. \A d \in Datagrams : Tokens(d)' \in Nat /\ Tokens(d)' >= Tokens(d)
    BY <1>7, <1>9, <1>11 DEF Went
  <2>2. \A c \in Clients : Sent(c)' = IF c = k THEN Sent(c) + 1 ELSE Sent(c)
    BY <1>2, <1>3, <1>5, <1>11 DEF Went, Sent
  <2>3. Sent(k) + 1 = i[k] /\ i[k] \in 1 .. Repeat
    BY <1>2, <1>11 DEF Went, Sent
  <2>4. Tokens(Datagram(k, i[k])) \in Nat
    BY <1>7, <1>8, <2>3
  <2>5. \A r : r = i[k] => Tokens(Datagram(k, r))' >= 1
    <3>1. \A d \in Datagrams : d = Datagram(k, i[k]) => Tokens(d)' >= 1
      BY <1>7, <1>9, <1>11 DEF Went
    <3> QED BY <1>8, <2>3, <3>1
  <2>6. ASSUME NEW c \in Clients, NEW r \in 1 .. Sent(c)'
        PROVE  Datagram(c, r) \in BagToSet(echoed') \/ Tokens(Datagram(c, r))' >= 1
    <3>1. CASE c = k /\ r = i[k]
      BY <2>5, <3>1
    <3>2. CASE ~(c = k /\ r = i[k])
      <4>1. r \in 1 .. Sent(c) /\ r \in 1 .. Repeat
        BY <1>2, <2>2, <2>3, <3>2
      <4> QED BY <1>4, <1>7, <1>8, <2>1, <4>1
    <3> QED BY <3>1, <3>2
  <2> QED BY <1>6, <2>6
<1>12. ASSUME NEW k \in Clients, NEW e \in BagToSet(echoes), Came(k, e)  PROVE NoRoundForgotten'
  <2>1. e \in BagToSet(echoed')
    BY <1>1 DEF EchoesWereMade
  <2>2. \A c \in Clients : Sent(c)' = Sent(c)
    BY <1>2, <1>3, <1>5, <1>12 DEF Came, Sent
  <2>3. \A d \in Datagrams : d = e \/ Tokens(d)' = Tokens(d)
    BY <1>7, <1>12 DEF Came, One
  <2> QED BY <1>2, <1>4, <1>6, <1>8, <2>1, <2>2, <2>3
<1> QED BY <1>1, <1>10, <1>11, <1>12, TokensFlow

LEMMA TokensCountedKept ==
    ASSUME EchoInv, [Next]_vars  PROVE TokensCounted'
<1>1. ServerInv
  BY DEF EchoInv
<1>2. i \in [Clients -> 1 .. Repeat + 1] /\ waiting \in [Clients -> BOOLEAN] /\ duplicates \in Nat
  BY <1>1 DEF ServerInv, TypeOK
<1>3. TokensCounted' <=>
         \A c \in Clients : /\ IsFiniteSet(TokenSet(c)')
                            /\ i'[c] - 1 + Cardinality(TokenSet(c)') <= Sent(c)' + duplicates'
  BY DEF TokensCounted
<1> SUFFICES ASSUME NEW c \in Clients
             PROVE  /\ IsFiniteSet(TokenSet(c)')
                    /\ i'[c] - 1 + Cardinality(TokenSet(c)') <= Sent(c)' + duplicates'
  BY <1>3
<1>4. /\ IsFiniteSet(TokenSet(c))
      /\ i[c] - 1 + Cardinality(TokenSet(c)) <= Sent(c) + duplicates
  BY DEF EchoInv, TokensCounted
<1>5. Cardinality(TokenSet(c)) \in Nat
  BY <1>4, FS_CardinalityType
<1>6. Sent(c) \in 0 .. Repeat /\ i[c] \in 1 .. Repeat + 1 /\ waiting[c] \in BOOLEAN
  BY <1>1, SentIs
<1>7. Sent(c)' = IF waiting'[c] THEN i'[c] ELSE i'[c] - 1
  BY DEF Sent
<1>8. CASE Settled
  <2>1. TokenSet(c)' = TokenSet(c)
    BY <1>8, TokensStill DEF Settled
  <2> QED BY <1>4, <1>7, <1>8, <2>1 DEF Settled, Sent
<1>9. ASSUME NEW e \in Datagrams, Copied(e)
      PROVE  /\ IsFiniteSet(TokenSet(c)')
             /\ i'[c] - 1 + Cardinality(TokenSet(c)') <= Sent(c)' + duplicates'
  <2>1. /\ IsFiniteSet(TokenSet(c)')
        /\ Cardinality(TokenSet(c)') = Cardinality(TokenSet(c)) + One(e.from, c)
    BY <1>1, <1>4, <1>9, TokenMore DEF Copied
  <2>2. One(e.from, c) \in {0, 1} /\ Sent(c)' = Sent(c)
    BY <1>7, <1>9 DEF One, Copied, Sent
  <2> QED BY <1>2, <1>4, <1>5, <1>6, <1>9, <2>1, <2>2 DEF Copied
<1>10. ASSUME NEW k \in Clients, Went(k)
       PROVE  /\ IsFiniteSet(TokenSet(c)')
              /\ i'[c] - 1 + Cardinality(TokenSet(c)') <= Sent(c)' + duplicates'
  <2>1. Datagram(k, i[k]) \in Datagrams /\ Datagram(k, i[k]).from = k
    BY <1>2, <1>10, DatagramsAre DEF Went
  <2>2. /\ IsFiniteSet(TokenSet(c)')
        /\ Cardinality(TokenSet(c)') = Cardinality(TokenSet(c)) + One(k, c)
    BY <1>1, <1>4, <1>10, <2>1, TokenMore DEF Went
  <2>3. Sent(c)' = Sent(c) + One(k, c)
    BY <1>2, <1>6, <1>7, <1>10 DEF One, Went, Sent
  <2>4. One(k, c) \in {0, 1} /\ i'[c] = i[c] /\ duplicates' = duplicates
    BY <1>10 DEF One, Went
  <2> QED BY <1>2, <1>4, <1>5, <1>6, <2>2, <2>3, <2>4
<1>11. ASSUME NEW k \in Clients, NEW e \in BagToSet(echoes), Came(k, e)
       PROVE  /\ IsFiniteSet(TokenSet(c)')
              /\ i'[c] - 1 + Cardinality(TokenSet(c)') <= Sent(c)' + duplicates'
  <2>1. e \in Datagrams
    BY <1>1, BagsAre DEF ServerInv, DatagramBag
  <2>2. Tokens(e) >= 1
    BY <1>1, <2>1, TokensAre
  <2>3. /\ IsFiniteSet(TokenSet(c)')
        /\ Cardinality(TokenSet(c)') = Cardinality(TokenSet(c)) - One(k, c)
    BY <1>1, <1>4, <1>11, <2>1, <2>2, TokenLess DEF Came
  <2>4. Sent(c)' = Sent(c) /\ i'[c] = i[c] + One(k, c)
    BY <1>2, <1>6, <1>7, <1>11 DEF One, Came, Sent
  <2>5. One(k, c) \in {0, 1} /\ duplicates' = duplicates
    BY <1>11 DEF One, Came
  <2> QED BY <1>2, <1>4, <1>5, <1>6, <2>3, <2>4, <2>5
<1> QED BY <1>1, <1>8, <1>9, <1>10, <1>11, TokensFlow

LEMMA EchoInvAtFirst ==
    ASSUME Init  PROVE EchoInv
<1>1. ServerInv
  BY ServerInvAtFirst
<1>2. BagToSet(EmptyBag) = {} /\ \A d : Copies(EmptyBag, d) = 0
  BY NoCopies
<1>3. NoRoundAhead /\ EchoesWereMade
  BY <1>2 DEF Init, NoRoundAhead, EchoesWereMade, Anywhere
<1>4. \A c \in Clients : Sent(c) = 0 /\ i[c] = 1 /\ duplicates = 0
  BY DEF Init, Sent
<1>5. NoRoundForgotten
  BY <1>4 DEF NoRoundForgotten
<1>6. ASSUME NEW c \in Clients
      PROVE  IsFiniteSet(TokenSet(c)) /\ Cardinality(TokenSet(c)) = 0
  <2>1. \A d : Tokens(d) = 0
    BY <1>2 DEF Init, Tokens
  <2>2. \A r \in 1 .. Repeat : TokensOf(c)[r] = 0
    BY <2>1 DEF TokensOf
  <2>3. TokenSet(c) = {}
    BY <2>2 DEF TokenSet, Under
  <2> QED BY <2>3, FS_EmptySet
<1>7. TokensCounted
  BY <1>4, <1>6 DEF TokensCounted
<1>8. EchoedFinite
  BY <1>2, FS_EmptySet DEF Init, EchoedFinite
<1> QED BY <1>1, <1>3, <1>5, <1>7, <1>8 DEF EchoInv

LEMMA EchoedFiniteKept ==
    ASSUME EchoInv, [Next]_vars  PROVE EchoedFinite'
<1>1. CASE echoed' = echoed
  BY <1>1 DEF EchoInv, EchoedFinite, BagToSet
<1>2. ASSUME NEW t \in Threads, Echo(t)  PROVE EchoedFinite'
  <2>1. DatagramBag(echoed) /\ data[t] \in Datagrams
    BY <1>2, BagsAre DEF EchoInv, ServerInv, HandsHold, Echo, Goto
  <2>2. BagToSet(echoed') = BagToSet(echoed) \cup {data[t]}
    BY <1>2, <2>1, AddedCopy DEF Echo
  <2>3. IsFiniteSet(BagToSet(echoed) \cup {data[t]})
    BY StillFinite DEF EchoInv, EchoedFinite
  <2> QED BY <2>2, <2>3 DEF EchoedFinite, BagToSet
<1> QED BY <1>1, <1>2
        DEF Next, Run, MainStep, Receive, WaitSlot, MallocFails, Spawn, SpawnFails,
            HandlerStep, Free, Post, ClientNext, SendTo, RecvFrom, Lose, Duplicate, serverVars, vars

LEMMA EchoInvKept ==
    ASSUME EchoInv, [Next]_vars  PROVE EchoInv'
<1>1. ServerInv /\ EchoesWereMade
  BY DEF EchoInv
<1>2. ServerInv'
  BY <1>1, ServerInvKept
<1>3. EchoesWereMade'
  BY <1>1, PlacesFlow
<1> QED BY <1>2, <1>3, NoRoundAheadKept, NoRoundForgottenKept, TokensCountedKept, EchoedFiniteKept
        DEF EchoInv

LEMMA Injected ==
    ASSUME NEW S, NEW T, IsFiniteSet(S), IsFiniteSet(T),
           NEW f \in [S -> T], \A a, b \in S : f[a] = f[b] => a = b
    PROVE  Cardinality(S) <= Cardinality(T)
<1>1. ~(Cardinality(T) < Cardinality(S))
  BY FS_PigeonHole
<1> QED BY <1>1, FS_CardinalityType

\* The rounds a client has sent are those echoed and those with a token left.
LEMMA RoundsCovered ==
    ASSUME EchoInv, NEW c \in Clients
    PROVE  i[c] - 1 <= Cardinality({d \in BagToSet(echoed) : d.from = c}) + duplicates
<1> DEFINE S == 1 .. Sent(c)
           E == {r \in S : Datagram(c, r) \in BagToSet(echoed)}
           U == S \ E
           F == {d \in BagToSet(echoed) : d.from = c}
<1>1. ServerInv /\ Sent(c) \in 0 .. Repeat /\ i[c] \in 1 .. Repeat + 1
  BY SentIs DEF EchoInv
<1>2. IsFiniteSet(S) /\ Cardinality(S) = Sent(c)
  BY <1>1, FS_Interval
<1>3. /\ IsFiniteSet(E) /\ Cardinality(E) \in Nat /\ IsFiniteSet(U) /\ Cardinality(U) \in Nat
      /\ E \cup U = S /\ E \cap U = {}
  BY <1>2, FS_Subset, FS_CardinalityType
<1>4. Cardinality(S) = Cardinality(E) + Cardinality(U)
  <2>1. Cardinality(E \cup U) = Cardinality(E) + Cardinality(U) - Cardinality(E \cap U)
    BY <1>3, FS_Union
  <2>2. Cardinality(E \cap U) = 0
    BY <1>3, FS_EmptySet
  <2>3. Cardinality(E \cup U) = Cardinality(S)
    BY <1>3, Zenon
  <2> HIDE DEF S, E, U
  <2> QED BY <1>3, <2>1, <2>2, <2>3
<1>5. IsFiniteSet(F)
  BY FS_Subset DEF EchoInv, EchoedFinite
<1>6. Cardinality(F) \in Nat /\ Cardinality(E) <= Cardinality(F)
  <2>1. \A r \in E : Datagram(c, r) \in F /\ Datagram(c, r).round = r
    BY DEF Datagram
  <2> DEFINE f == [r \in E |-> Datagram(c, r)]
  <2>2. f \in [E -> F] /\ \A a, b \in E : f[a] = f[b] => a = b
    BY <2>1
  <2> HIDE DEF f, E, F
  <2> QED BY <1>3, <1>5, <2>2, Injected, FS_CardinalityType
<1>7. IsFiniteSet(TokenSet(c)) /\ Cardinality(TokenSet(c)) \in Nat
  BY FS_CardinalityType DEF EchoInv, TokensCounted
<1>8. Cardinality(U) <= Cardinality(TokenSet(c))
  <2>1. \A r \in U : Tokens(Datagram(c, r)) >= 1 /\ r \in 1 .. Repeat
    BY <1>1 DEF EchoInv, NoRoundForgotten
  <2>2. \A r \in U : <<r, 1>> \in TokenSet(c)
    BY <2>1 DEF TokenSet, Under, TokensOf
  <2> DEFINE f == [r \in U |-> <<r, 1>>]
  <2> HIDE DEF U
  <2>3. f \in [U -> TokenSet(c)] /\ \A a, b \in U : f[a] = f[b] => a = b
    BY <2>2
  <2> HIDE DEF f
  <2> QED BY <1>3, <1>7, <2>3, Injected
<1>9. i[c] - 1 + Cardinality(TokenSet(c)) <= Sent(c) + duplicates /\ duplicates \in Nat
  BY <1>1 DEF EchoInv, TokensCounted, ServerInv, TypeOK
<1> HIDE DEF S, E, U, F
<1>10. i[c] - 1 <= Cardinality(F) + duplicates
  BY <1>1, <1>2, <1>3, <1>4, <1>6, <1>7, <1>8, <1>9
<1> QED BY <1>10 DEF F

LEMMA EchoInvImplies ==
    ASSUME EchoInv  PROVE SlotInv /\ EchoesInOrder
<1>1. SlotInv /\ EchoAccounting
  BY DEF EchoInv, ServerInv, SlotInv
<1>2. NoEchoBeforeRequest
  <2> SUFFICES ASSUME NEW c \in Clients
               PROVE  /\ \A d \in BagToSet(requests) \cup BagToSet(received) \cup BagToSet(echoes) :
                            d.from = c => d.round <= Sent(c)
                      /\ i[c] - 1 <= Cardinality({d \in BagToSet(echoed) : d.from = c}) + duplicates
    BY DEF NoEchoBeforeRequest, Sent
  <2>1. \A d \in BagToSet(requests) \cup BagToSet(received) \cup BagToSet(echoes) :
           d.from = c => d.round <= Sent(c)
    BY DEF EchoInv, NoRoundAhead, Anywhere
  <2> QED BY <2>1, RoundsCovered
<1> QED BY <1>1, <1>2 DEF EchoesInOrder

-----------------------------------------------------------------------------
\* Each slot is free, with main, with one handler, or lost with a handler that
\* could not be started, however main and the handlers interleave.
THEOREM Slots == Spec => []SlotInv
<1>1. Init => EchoInv
  BY EchoInvAtFirst
<1>2. EchoInv /\ [Next]_vars => EchoInv'
  BY EchoInvKept
<1>3. EchoInv => SlotInv
  BY EchoInvImplies
<1> QED BY <1>1, <1>2, <1>3, PTL DEF Spec

\* Each datagram received is echoed once and to its sender, or still in hand, and
\* a client goes on only by as many echoes as were made for it or duplicated,
\* whatever the network loses, duplicates and reorders.
THEOREM InOrder == Spec => []EchoesInOrder
<1>1. Init => EchoInv
  BY EchoInvAtFirst
<1>2. EchoInv /\ [Next]_vars => EchoInv'
  BY EchoInvKept
<1>3. EchoInv => EchoesInOrder
  BY EchoInvImplies
<1> QED BY <1>1, <1>2, <1>3, PTL DEF Spec
=============

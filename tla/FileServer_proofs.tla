-------------------------- MODULE FileServer_proofs --------------------------
(***************************************************************************)
(* The concurrent file server, for any number of handlers, clients,        *)
(* descriptors and slots: its slots are accounted for, each open           *)
(* descriptor has one owner, and each client gets its own answer.          *)
(***************************************************************************)
EXTENDS FileServer, FiniteSetTheorems, TLAPS

K == INSTANCE Kernel_proofs WITH Texts <- {"error", "block"}

USE FileServerAssumption

-----------------------------------------------------------------------------
(***************************************************************************)
(* The invariant: every variable in its domain, every connection in one    *)
(* place, and then who holds which cell and which descriptor.              *)
(***************************************************************************)
Typing == TypeOK /\ K!Typed

\* Handler t holds a connection, through its cell or as its client_fd.
Holds(t) == task[t] \in {"start", "read", "open", "send", "close"}

MainHolds ==
    /\ main = "accept" => arg \in Cells /\ cell[arg] = -1
    /\ main = "spawn" => /\ arg \in Cells /\ cell[arg] \in Fds /\ table[cell[arg]] \in Clients
                         /\ \A t \in Threads : Holds(t) => Owned(t) # cell[arg]

HandlersHold ==
    /\ \A t \in Threads : task[t] = "start" => arg_of[t] \in Cells
    /\ \A t \in Threads : Holds(t) => Owned(t) \in Fds /\ table[Owned(t)] \in Clients
    /\ \A t, u \in Threads : Holds(t) /\ Holds(u) /\ Owned(t) = Owned(u) => t = u

HeldBySomeone ==
    \A f \in Fds : table[f] \in Clients =>
        (\E t \in Threads : Holds(t) /\ Owned(t) = f) \/ (main = "spawn" /\ f = cell[arg])

FilesOpen ==
    /\ \A t \in Threads : IF task[t] = "send" THEN open_fd[t] \in Fds /\ table[open_fd[t]] = "file"
                                              ELSE open_fd[t] = NULL /\ sent[t] = 0
    /\ \A t, u \in Threads : open_fd[t] = open_fd[u] /\ open_fd[t] # NULL => t = u
    /\ \A f \in Fds : table[f] = "file" => \E t \in Threads : open_fd[t] = f

Ownership == MainHolds /\ HandlersHold /\ HeldBySomeone /\ FilesOpen

IInv == Typing /\ K!ConnectionInv /\ Ownership /\ SlotAccounting

-----------------------------------------------------------------------------
\* Each step of the server is one call of the kernel at most.
LEMMA IsKernelStep ==
    ASSUME Typing, Ownership, [Next]_vars
    PROVE  K!KernelStep
<1> USE DEF K!KernelStep
<1>1. CASE UNCHANGED kernelVars
  BY <1>1 DEF kernelVars
<1>2. ASSUME MainStep  PROVE K!KernelStep
  <2>1. CASE AcceptClient
    BY <2>1 DEF AcceptClient, Accept, IsNextFd, Free, K!Accept, K!IsNextFd, K!Free
  <2>2. CASE SpawnFails
    BY <2>2 DEF SpawnFails, MainGoto, Ownership, MainHolds, Close, K!Close
  <2> QED BY <1>1, <1>2, <2>1, <2>2 DEF MainStep, WaitSlot, Malloc, MallocFails, AcceptFails, Spawn
<1>3. ASSUME NEW t \in Threads, HandlerStep(t)  PROVE K!KernelStep
  <2>1. CASE Open(t)
    BY <2>1 DEF Open, OpenFile, IsNextFd, Free, K!OpenFile, K!IsNextFd, K!Free
  <2>2. CASE OpenFails(t)
    <3>1. client_fd[t] \in Fds
      BY <2>2 DEF OpenFails, Goto, Ownership, HandlersHold, Holds, Owned
    <3>2. K!Write(table[client_fd[t]], "error")
      BY <2>2 DEF OpenFails, Client, Write, Writable, K!Write, K!Writable
    <3>3. "error" \in {"error", "block"}
      OBVIOUS
    <3> QED BY <3>1, <3>2, <3>3
  <2>3. CASE SendBlock(t)
    <3>1. client_fd[t] \in Fds
      BY <2>3 DEF SendBlock, Ownership, HandlersHold, Holds, Owned
    <3>2. K!Write(table[client_fd[t]], "block")
      BY <2>3 DEF SendBlock, Client, Write, Writable, K!Write, K!Writable
    <3>3. "block" \in {"error", "block"}
      OBVIOUS
    <3> QED BY <3>1, <3>2, <3>3
  <2>4. CASE CloseFile(t)
    BY <2>4 DEF CloseFile, Goto, Ownership, FilesOpen, Close, K!Close
  <2>5. CASE CloseClient(t)
    <3>1. client_fd[t] \in Fds
      BY <2>5 DEF CloseClient, Goto, Ownership, HandlersHold, Holds, Owned
    <3> QED BY <2>5, <3>1 DEF CloseClient, Close, K!Close
  <2> QED BY <1>1, <1>3, <2>1, <2>2, <2>3, <2>4, <2>5 DEF HandlerStep, Start, Read, Killed, PostSlot
<1>4. ASSUME NEW c \in Clients, Client_c(c)  PROVE K!KernelStep
  BY <1>4 DEF Client_c, ClientStep, Connect, Send, HangUp, K!ClientStep, K!Connect, K!Send, K!HangUp
<1> QED BY <1>1, <1>2, <1>3, <1>4 DEF Next, Run, vars

-----------------------------------------------------------------------------
(***************************************************************************)
(* The slots.  One that is not free is main's or a living handler's.       *)
(***************************************************************************)
MainSlots == IF main = "wait" THEN 0 ELSE 1

\* A handler comes to life, or ends, and the count of the living follows.
LEMMA Recount ==
    ASSUME NEW S, NEW T, IsFiniteSet(S), NEW x
    PROVE  /\ Cardinality(S) \in Nat
           /\ x \notin S /\ T = S \cup {x} => IsFiniteSet(T) /\ Cardinality(T) = Cardinality(S) + 1
           /\ x \in S /\ T = S \ {x} => IsFiniteSet(T) /\ Cardinality(T) = Cardinality(S) - 1
BY FS_CardinalityType, FS_AddElement, FS_RemoveElement

LEMMA AliveFinite == IsFiniteSet(Alive) /\ Cardinality(Alive) \in Nat
BY FS_Subset, FS_CardinalityType DEF Alive

\* What each step does to the slots: a step moves one slot, or none.
LEMMA SlotsKept ==
    ASSUME TypeOK, SlotAccounting, [Next]_vars
    PROVE  SlotAccounting' /\ conn_sem' \in 0 .. MAX_CONNECTIONS
<1> USE DEF SlotAccounting
<1>0. Cardinality(Alive) \in Nat /\ conn_sem \in Nat /\ IsFiniteSet(Alive)
      /\ Cardinality(Alive') \in Nat /\ MAX_CONNECTIONS \in Nat
  <2>1. IsFiniteSet(Alive') /\ Cardinality(Alive') \in Nat
    BY FS_Subset, FS_CardinalityType DEF Alive
  <2> QED BY <2>1, AliveFinite DEF TypeOK
<1>1. SUFFICES SlotAccounting' /\ conn_sem' \in Nat
  BY <1>0
<1>2. ASSUME MainStep  PROVE SlotAccounting' /\ conn_sem' \in Nat
  <2>1. CASE Spawn
    <3>1. PICK t \in Threads : task[t] = "none" /\ task' = [task EXCEPT ![t] = "start"]
      BY <2>1 DEF Spawn
    <3>2. t \notin Alive /\ Alive' = Alive \cup {t}
      BY <3>1 DEF Alive, TypeOK
    <3>3. Cardinality(Alive') = Cardinality(Alive) + 1
      BY <1>0, <3>2, Recount
    <3> QED BY <1>0, <2>1, <3>3 DEF Spawn, MainGoto
  <2>2. Spawn \/ Alive' = Alive
    BY <1>2 DEF MainStep, Alive, WaitSlot, Malloc, MallocFails, AcceptClient, AcceptFails, SpawnFails,
                handlerVars
  <2>3. Spawn \/ (conn_sem' \in Nat /\ conn_sem' + MainSlots' = conn_sem + MainSlots)
    BY <1>0, <1>2 DEF MainSlots, MainStep, MainGoto, Post, WaitSlot, Malloc, MallocFails, AcceptClient,
                      AcceptFails, SpawnFails
  <2> QED BY <1>0, <2>1, <2>2, <2>3 DEF MainSlots
<1>3. ASSUME NEW t \in Threads, HandlerStep(t)  PROVE SlotAccounting' /\ conn_sem' \in Nat
  <2>1. CASE PostSlot(t)
    <3>1. t \in Alive /\ Alive' = Alive \ {t}
      BY <2>1 DEF PostSlot, Goto, Alive, TypeOK
    <3>2. Cardinality(Alive') = Cardinality(Alive) - 1
      BY <1>0, <3>1, Recount
    <3> QED BY <1>0, <2>1, <3>2 DEF PostSlot, Post, mainVars
  <2>2. PostSlot(t) \/ (Alive' = Alive /\ main' = main /\ conn_sem' = conn_sem)
    BY <1>3 DEF HandlerStep, Goto, Alive, TypeOK, Start, Read, Open, OpenFails, SendBlock, CloseFile,
                Killed, CloseClient, mainVars, handlerVars
  <2> QED BY <1>0, <2>1, <2>2
<1>4. ASSUME UNCHANGED <<conn_sem, mainVars, handlerVars>>  PROVE SlotAccounting' /\ conn_sem' \in Nat
  BY <1>0, <1>4 DEF Alive, mainVars, handlerVars
<1> QED BY <1>2, <1>3, <1>4 DEF Next, Run, vars, Client_c

\* Every step keeps every variable in its domain.
LEMMA TypingKept ==
    ASSUME Typing, Ownership, SlotAccounting, [Next]_vars
    PROVE  Typing'
<1>1. K!Typed'
  BY IsKernelStep, K!KernelTyped DEF Typing, K!Distinct
<1>2. conn_sem' \in 0 .. MAX_CONNECTIONS
  BY SlotsKept DEF Typing
<1> USE DEF TypeOK
<1>3. ASSUME MainStep  PROVE TypeOK'
  <2> USE <1>1, <1>2 DEF Typing, K!Typed, MainGoto, mainVars, handlerVars, kernelVars
  <2>1. CASE WaitSlot
    BY <2>1 DEF WaitSlot
  <2>2. CASE Malloc
    BY <2>2 DEF Malloc
  <2>3. CASE MallocFails
    BY <2>3 DEF MallocFails
  <2>4. CASE AcceptClient
    <3>1. PICK f \in Fds : cell' = [cell EXCEPT ![arg] = f]
      BY <2>4 DEF AcceptClient
    <3> QED BY <2>4, <3>1 DEF AcceptClient
  <2>5. CASE AcceptFails
    BY <2>5 DEF AcceptFails
  <2>6. CASE Spawn
    BY <2>6 DEF Spawn
  <2>7. CASE SpawnFails
    BY <2>7 DEF SpawnFails
  <2> QED BY <1>3, <2>1, <2>2, <2>3, <2>4, <2>5, <2>6, <2>7 DEF MainStep
<1>4. ASSUME NEW t \in Threads, HandlerStep(t)  PROVE TypeOK'
  <2> USE <1>1, <1>2 DEF Typing, K!Typed, Goto, mainVars, handlerVars, kernelVars
  <2>1. CASE Start(t)
    BY <2>1 DEF Start, Ownership, HandlersHold, Holds, Owned
  <2>2. CASE Read(t)
    BY <2>2 DEF Read
  <2>3. CASE Open(t)
    BY <2>3 DEF Open
  <2>4. CASE OpenFails(t)
    BY <2>4 DEF OpenFails
  <2>5. CASE SendBlock(t)
    BY <2>5 DEF SendBlock
  <2>6. CASE CloseFile(t)
    BY <2>6 DEF CloseFile
  <2>7. CASE Killed(t)
    BY <2>7 DEF Killed
  <2>8. CASE CloseClient(t)
    BY <2>8 DEF CloseClient
  <2>9. CASE PostSlot(t)
    BY <2>9 DEF PostSlot
  <2> QED BY <1>4, <2>1, <2>2, <2>3, <2>4, <2>5, <2>6, <2>7, <2>8, <2>9 DEF HandlerStep
<1>5. ASSUME NEW c \in Clients, Client_c(c)  PROVE TypeOK'
  BY <1>1, <1>2, <1>5 DEF Client_c, Typing, K!Typed, mainVars, handlerVars
<1>6. ASSUME UNCHANGED vars  PROVE TypeOK'
  BY <1>6 DEF vars, Typing, mainVars, handlerVars, kernelVars
<1>7. TypeOK'
  BY <1>3, <1>4, <1>5, <1>6 DEF Next, Run
<1> QED BY <1>1, <1>7 DEF Typing

-----------------------------------------------------------------------------
(***************************************************************************)
(* Ownership.  A connection goes from main's cell to one handler, and from *)
(* its cell to its client_fd; a number is given out again only when it was *)
(* closed.                                                                 *)
(***************************************************************************)

\* A step that leaves the holders and what they hold alone keeps it all.
LEMMA NothingMoves ==
    ASSUME Ownership,
           UNCHANGED <<main, arg, cell, task, arg_of, client_fd, open_fd, sent, table>>
    PROVE  Ownership'
BY DEF Ownership, MainHolds, HandlersHold, HeldBySomeone, FilesOpen, Holds, Owned

\* main hands a connection on, or lets go of it.
LEMMA MainKeepsOwnership ==
    ASSUME Typing, Ownership, MainStep
    PROVE  Ownership'
<1> USE DEF Typing, TypeOK, K!Typed, mainVars, handlerVars, kernelVars, MainGoto
<1>1. CASE WaitSlot
  BY <1>1 DEF WaitSlot, Ownership, MainHolds, HandlersHold, HeldBySomeone, FilesOpen, Holds, Owned
<1>2. CASE Malloc
  <2>1. PICK n \in Cells : cell[n] = NULL /\ cell' = [cell EXCEPT ![n] = -1] /\ arg' = n
    BY <1>2 DEF Malloc
  <2>2. \A t \in Threads : ((Holds(t))' <=> Holds(t)) /\ (Holds(t) => Owned(t)' = Owned(t))
    BY <1>2, <2>1 DEF Malloc, Holds, Owned, Ownership, HandlersHold
  <2>3. MainHolds'
    BY <1>2, <2>1 DEF Malloc, MainHolds
  <2>4. HandlersHold' /\ HeldBySomeone' /\ FilesOpen'
    BY <1>2, <2>2 DEF Malloc, Ownership, HandlersHold, HeldBySomeone, FilesOpen
  <2> QED BY <2>3, <2>4 DEF Ownership
<1>3. CASE MallocFails
  BY <1>3 DEF MallocFails, Ownership, MainHolds, HandlersHold, HeldBySomeone, FilesOpen, Holds, Owned
<1>4. CASE AcceptClient
  <2>1. PICK f \in Fds : Accept(f) /\ cell' = [cell EXCEPT ![arg] = f]
    BY <1>4 DEF AcceptClient
  <2>2. table[f] = NULL /\ Head(backlog) \in Clients /\ table' = [table EXCEPT ![f] = Head(backlog)]
    BY <2>1 DEF Accept, IsNextFd, Free
  <2>3. arg \in Cells /\ cell[arg] = -1 /\ arg' = arg /\ main' = "spawn" /\ cell'[arg] = f
    BY <1>4, <2>1 DEF AcceptClient, Ownership, MainHolds
  <2>4. \A t \in Threads : ((Holds(t))' <=> Holds(t)) /\ (Holds(t) => Owned(t)' = Owned(t))
    BY <1>4, <2>1, <2>3 DEF AcceptClient, Holds, Owned, Ownership, HandlersHold
  <2>5. \A t \in Threads : Holds(t) => Owned(t) # f
    BY <2>2 DEF Ownership, HandlersHold
  <2>6. MainHolds'
    BY <2>2, <2>3, <2>4, <2>5 DEF MainHolds
  <2>7. HandlersHold' /\ HeldBySomeone'
    BY <1>4, <2>2, <2>3, <2>4 DEF AcceptClient, Ownership, HandlersHold, HeldBySomeone
  <2>8. FilesOpen'
    BY <1>4, <2>2 DEF AcceptClient, Ownership, FilesOpen
  <2> QED BY <2>6, <2>7, <2>8 DEF Ownership
<1>5. CASE AcceptFails
  <2>1. arg \in Cells /\ cell[arg] = -1
    BY <1>5 DEF AcceptFails, Ownership, MainHolds
  <2>2. \A t \in Threads : ((Holds(t))' <=> Holds(t)) /\ (Holds(t) => Owned(t)' = Owned(t))
    BY <1>5, <2>1 DEF AcceptFails, Holds, Owned, Ownership, HandlersHold
  <2>3. MainHolds'
    BY <1>5 DEF AcceptFails, MainHolds
  <2>4. HandlersHold' /\ HeldBySomeone' /\ FilesOpen'
    BY <1>5, <2>2 DEF AcceptFails, Ownership, HandlersHold, HeldBySomeone, FilesOpen
  <2> QED BY <2>3, <2>4 DEF Ownership
<1>6. CASE Spawn
  <2>1. PICK t \in Threads : /\ task[t] = "none"
                             /\ task' = [task EXCEPT ![t] = "start"]
                             /\ arg_of' = [arg_of EXCEPT ![t] = arg]
    BY <1>6 DEF Spawn
  <2>2. arg \in Cells /\ cell[arg] \in Fds /\ table[cell[arg]] \in Clients
        /\ \A u \in Threads : Holds(u) => Owned(u) # cell[arg]
    BY <1>6 DEF Spawn, Ownership, MainHolds
  <2>3. ~Holds(t) /\ (Holds(t))' /\ (Owned(t))' = cell[arg]
    BY <1>6, <2>1, <2>2 DEF Spawn, Holds, Owned
  <2>4. \A u \in Threads \ {t} : ((Holds(u))' <=> Holds(u)) /\ (Owned(u))' = Owned(u)
    BY <1>6, <2>1 DEF Spawn, Holds, Owned
  <2>5. MainHolds'
    BY <1>6 DEF Spawn, MainHolds
  <2>6. HandlersHold'
    <3>1. \A u \in Threads : task'[u] = "start" => arg_of'[u] \in Cells
      BY <2>1, <2>2 DEF Ownership, HandlersHold
    <3>2. ASSUME NEW u \in Threads, (Holds(u))'
          PROVE  (Owned(u))' \in Fds /\ table[(Owned(u))'] \in Clients
      <4>1. CASE u = t
        BY <2>2, <2>3, <4>1
      <4>2. CASE u # t
        BY <2>4, <3>2, <4>2 DEF Ownership, HandlersHold
      <4> QED BY <4>1, <4>2
    <3>3. \A u, v \in Threads : (Holds(u))' /\ (Holds(v))' /\ (Owned(u))' = (Owned(v))' => u = v
      BY <2>2, <2>3, <2>4 DEF Ownership, HandlersHold
    <3> QED BY <1>6, <3>1, <3>2, <3>3 DEF Spawn, HandlersHold
  <2>7. HeldBySomeone'
    <3>1. ASSUME NEW f \in Fds, table[f] \in Clients
          PROVE  \E u \in Threads : (Holds(u))' /\ (Owned(u))' = f
      <4>1. CASE f = cell[arg]
        BY <2>3, <4>1
      <4>2. CASE f # cell[arg]
        <5>1. PICK u \in Threads : Holds(u) /\ Owned(u) = f
          BY <3>1, <4>2 DEF Ownership, HeldBySomeone
        <5>2. u # t
          BY <2>3, <5>1
        <5> QED BY <2>4, <5>1, <5>2
      <4> QED BY <4>1, <4>2
    <3> QED BY <1>6, <3>1 DEF Spawn, HeldBySomeone
  <2>8. FilesOpen'
    BY <1>6, <2>1 DEF Spawn, Ownership, FilesOpen
  <2> QED BY <2>5, <2>6, <2>7, <2>8 DEF Ownership
<1>7. CASE SpawnFails
  <2>1. arg \in Cells /\ cell[arg] \in Fds /\ table[cell[arg]] \in Clients
        /\ \A u \in Threads : Holds(u) => Owned(u) # cell[arg]
    BY <1>7 DEF SpawnFails, Ownership, MainHolds
  <2>2. table' = [table EXCEPT ![cell[arg]] = NULL]
    BY <1>7 DEF SpawnFails, Close
  <2>3. \A u \in Threads : ((Holds(u))' <=> Holds(u)) /\ (Holds(u) => (Owned(u))' = Owned(u))
    BY <1>7, <2>1 DEF SpawnFails, Holds, Owned
  <2>4. MainHolds'
    BY <1>7 DEF SpawnFails, MainHolds
  <2>5. HandlersHold' /\ HeldBySomeone'
    BY <1>7, <2>1, <2>2, <2>3 DEF SpawnFails, Ownership, HandlersHold, HeldBySomeone
  <2>6. FilesOpen'
    BY <1>7, <2>1, <2>2 DEF SpawnFails, Ownership, FilesOpen
  <2> QED BY <2>4, <2>5, <2>6 DEF Ownership
<1> QED BY <1>1, <1>2, <1>3, <1>4, <1>5, <1>6, <1>7 DEF MainStep

\* A handler takes its connection out of its cell, opens and closes its file,
\* and closes its connection.
LEMMA HandlerKeepsOwnership ==
    ASSUME Typing, Ownership, NEW t \in Threads, HandlerStep(t)
    PROVE  Ownership'
<1> USE DEF Typing, TypeOK, K!Typed, mainVars, handlerVars, kernelVars, Goto
<1> DEFINE Same(u) == ((Holds(u))' <=> Holds(u)) /\ (Holds(u) => (Owned(u))' = Owned(u))
<1>1. CASE Start(t)
  <2>1. Holds(t) /\ arg_of[t] \in Cells /\ Owned(t) = cell[arg_of[t]] /\ Owned(t) \in Fds
        /\ (main = "spawn" => arg \in Cells /\ cell[arg] # Owned(t))
        /\ (main = "accept" => arg \in Cells /\ cell[arg] = -1)
    BY <1>1 DEF Start, Ownership, HandlersHold, MainHolds, Holds, Owned
  <2>2. (Holds(t))' /\ (Owned(t))' = Owned(t)
    BY <1>1 DEF Start, Holds, Owned
  <2>3. \A u \in Threads \ {t} : task[u] = "start" => arg_of[u] \in Cells /\ arg_of[u] # arg_of[t]
    BY <1>1, <2>1 DEF Ownership, HandlersHold, Holds, Owned
  <2>4. \A u \in Threads : Same(u)
    BY <1>1, <2>1, <2>2, <2>3 DEF Start, Holds, Owned
  <2>5. main = "spawn" \/ main = "accept" => cell'[arg] = cell[arg]
    BY <1>1, <2>1 DEF Start
  <2>6. MainHolds'
    BY <1>1, <2>4, <2>5 DEF Start, Ownership, MainHolds
  <2>7. HandlersHold'
    BY <1>1, <2>4 DEF Start, Ownership, HandlersHold
  <2>8. HeldBySomeone'
    BY <1>1, <2>4, <2>5 DEF Start, Ownership, HeldBySomeone
  <2>9. FilesOpen'
    BY <1>1 DEF Start, Ownership, FilesOpen
  <2> QED BY <2>6, <2>7, <2>8, <2>9 DEF Ownership
<1>2. ASSUME task[t] \in {"read", "open"}, task' = [task EXCEPT ![t] = "open"] \/ task' = [task EXCEPT ![t] = "close"],
             UNCHANGED <<main, arg, cell, arg_of, client_fd, open_fd, sent, table>>
      PROVE  Ownership'
  <2>1. \A u \in Threads : Same(u)
    BY <1>2 DEF Holds, Owned
  <2>2. MainHolds' /\ HandlersHold' /\ HeldBySomeone'
    BY <1>2, <2>1 DEF Ownership, MainHolds, HandlersHold, HeldBySomeone
  <2>3. FilesOpen'
    BY <1>2 DEF Ownership, FilesOpen
  <2> QED BY <2>2, <2>3 DEF Ownership
<1>3. CASE Read(t)
  BY <1>2, <1>3 DEF Read
<1>4. CASE Open(t)
  <2>1. PICK f \in Fds : OpenFile(f) /\ open_fd' = [open_fd EXCEPT ![t] = f]
    BY <1>4 DEF Open
  <2>2. table[f] = NULL /\ table' = [table EXCEPT ![f] = "file"]
    BY <2>1 DEF OpenFile, IsNextFd, Free
  <2>3. \A u \in Threads : Same(u)
    BY <1>4 DEF Open, Holds, Owned
  <2>4. MainHolds' /\ HandlersHold' /\ HeldBySomeone'
    BY <1>4, <2>2, <2>3 DEF Open, Ownership, MainHolds, HandlersHold, HeldBySomeone
  <2>5. FilesOpen'
    BY <1>4, <2>1, <2>2 DEF Open, Ownership, FilesOpen
  <2> QED BY <2>4, <2>5 DEF Ownership
<1>5. CASE OpenFails(t)
  BY <1>2, <1>5 DEF OpenFails, Write
<1>6. CASE SendBlock(t)
  <2>1. \A u \in Threads : Same(u)
    BY <1>6 DEF SendBlock, Holds, Owned
  <2>2. MainHolds' /\ HandlersHold' /\ HeldBySomeone'
    BY <1>6, <2>1 DEF SendBlock, Write, Ownership, MainHolds, HandlersHold, HeldBySomeone
  <2>3. FilesOpen'
    BY <1>6 DEF SendBlock, Write, Ownership, FilesOpen
  <2> QED BY <2>2, <2>3 DEF Ownership
<1>7. CASE CloseFile(t)
  <2>1. open_fd[t] \in Fds /\ table[open_fd[t]] = "file" /\ table' = [table EXCEPT ![open_fd[t]] = NULL]
    BY <1>7 DEF CloseFile, Close, Ownership, FilesOpen
  <2>2. \A u \in Threads : Same(u)
    BY <1>7 DEF CloseFile, Holds, Owned
  <2>3. MainHolds' /\ HandlersHold' /\ HeldBySomeone'
    BY <1>7, <2>1, <2>2 DEF CloseFile, Ownership, MainHolds, HandlersHold, HeldBySomeone
  <2>4. FilesOpen'
    BY <1>7, <2>1 DEF CloseFile, Ownership, FilesOpen
  <2> QED BY <2>3, <2>4 DEF Ownership
<1>8. CASE Killed(t)
  BY <1>8, NothingMoves DEF Killed
<1>9. CASE CloseClient(t)
  <2>1. Holds(t) /\ Owned(t) = client_fd[t] /\ Owned(t) \in Fds /\ table[Owned(t)] \in Clients
        /\ (main = "spawn" => cell[arg] # Owned(t))
        /\ \A u \in Threads \ {t} : Holds(u) => Owned(u) # Owned(t)
    BY <1>9 DEF CloseClient, Ownership, MainHolds, HandlersHold, Holds, Owned
  <2>2. table' = [table EXCEPT ![Owned(t)] = NULL]
    BY <1>9, <2>1 DEF CloseClient, Close
  <2>3. ~(Holds(t))' /\ \A u \in Threads \ {t} : Same(u)
    BY <1>9 DEF CloseClient, Holds, Owned
  <2>4. MainHolds'
    BY <1>9, <2>1, <2>2, <2>3 DEF CloseClient, Ownership, MainHolds
  <2>5. HandlersHold'
    <3>1. \A u \in Threads : task'[u] = "start" => arg_of'[u] \in Cells
      BY <1>9 DEF CloseClient, Ownership, HandlersHold
    <3>2. \A u \in Threads : (Holds(u))' => u # t /\ Holds(u) /\ (Owned(u))' = Owned(u)
      BY <2>3
    <3>3. \A u \in Threads : (Holds(u))' => (Owned(u))' \in Fds /\ table'[(Owned(u))'] \in Clients
      BY <2>1, <2>2, <3>2 DEF Ownership, HandlersHold
    <3>4. \A u, v \in Threads : (Holds(u))' /\ (Holds(v))' /\ (Owned(u))' = (Owned(v))' => u = v
      BY <3>2 DEF Ownership, HandlersHold
    <3> QED BY <3>1, <3>3, <3>4 DEF HandlersHold
  <2>6. HeldBySomeone'
    BY <1>9, <2>1, <2>2, <2>3 DEF CloseClient, Ownership, HeldBySomeone
  <2>7. FilesOpen'
    BY <1>9, <2>1, <2>2 DEF CloseClient, Ownership, FilesOpen
  <2> QED BY <2>4, <2>5, <2>6, <2>7 DEF Ownership
<1>10. CASE PostSlot(t)
  <2>1. ~Holds(t) /\ ~(Holds(t))' /\ \A u \in Threads \ {t} : Same(u)
    BY <1>10 DEF PostSlot, Holds, Owned
  <2>2. \A u \in Threads : Same(u)
    BY <2>1
  <2>3. MainHolds' /\ HandlersHold' /\ HeldBySomeone'
    BY <1>10, <2>2 DEF PostSlot, Ownership, MainHolds, HandlersHold, HeldBySomeone
  <2>4. FilesOpen'
    BY <1>10 DEF PostSlot, Ownership, FilesOpen
  <2> QED BY <2>3, <2>4 DEF Ownership
<1> QED BY <1>1, <1>3, <1>4, <1>5, <1>6, <1>7, <1>8, <1>9, <1>10 DEF HandlerStep

LEMMA OwnershipKept ==
    ASSUME Typing, Ownership, [Next]_vars
    PROVE  Ownership'
<1>1. ASSUME NEW c \in Clients, Client_c(c)  PROVE Ownership'
  BY <1>1, NothingMoves DEF Client_c, ClientStep, Connect, Send, HangUp, mainVars, handlerVars
<1>2. ASSUME UNCHANGED vars  PROVE Ownership'
  BY <1>2, NothingMoves DEF vars, mainVars, handlerVars, kernelVars
<1> QED BY <1>1, <1>2, MainKeepsOwnership, HandlerKeepsOwnership DEF Next, Run

-----------------------------------------------------------------------------
(***************************************************************************)
(* Answers.  What a client has received is the part of its answer that its *)
(* handler's step stands for; a client that hung up received less.         *)
(***************************************************************************)
Blocks(n) == [k \in 1 .. n |-> "block"]

Answered(c) ==
    \/ answer[c] = <<>>
    \/ request[c] \in {"missing", "file"} /\ answer[c] = <<"error">>
    \/ request[c] = "file" /\ \E n \in 0 .. Chunks : answer[c] = Blocks(n)

\* Handler t, whose client is c.
Progress(t, c) ==
    /\ task[t] \in {"start", "read", "open"} => answer[c] = <<>>
    /\ task[t] = "open" => request[c] # NULL
    /\ task[t] = "send" => /\ request[c] = "file"
                           /\ peer[c] = "open" => answer[c] = Blocks(sent[t])
    /\ task[t] = "close" /\ peer[c] = "open" =>
          request[c] # NULL /\ answer[c] \in Answers(request[c])

AnswerInv ==
    /\ \A c \in Clients : Answered(c)
    /\ \A t \in Threads : Holds(t) => Progress(t, table[Owned(t)])
    /\ main = "spawn" => answer[table[cell[arg]]] = <<>>

LEMMA BlocksGrow ==
    ASSUME NEW n \in Nat
    PROVE  /\ Append(Blocks(n), "block") = Blocks(n + 1)
           /\ Blocks(0) = <<>>
           /\ Blocks(n) \in Seq({"error", "block"}) /\ Len(Blocks(n)) = n
BY DEF Blocks

LEMMA AnswersAre ==
    /\ Answers("missing") = {<<"error">>}
    /\ Answers("file") = {<<"error">>, Blocks(Chunks)}
    /\ Answers(NULL) = {<<>>}
BY DEF Answers, Blocks

\* No two handlers serve one client, and none serves the one main has accepted.
LEMMA OneEach ==
    ASSUME Ownership, K!ConnectionInv
    PROVE  /\ \A t, u \in Threads : Holds(t) /\ Holds(u) /\ t # u => table[Owned(t)] # table[Owned(u)]
           /\ main = "spawn" => \A t \in Threads : Holds(t) => table[Owned(t)] # table[cell[arg]]
<1>1. \A f, g \in Fds : table[f] \in Clients /\ table[f] = table[g] => f = g
  BY DEF K!ConnectionInv
<1> QED BY <1>1 DEF Ownership, HandlersHold, MainHolds

\* A step at which no client sends or receives: the handlers that go on were
\* where they are, with the same client.
LEMMA NoTalk ==
    ASSUME Typing, Ownership, AnswerInv,
           UNCHANGED <<peer, request, answer, eof, sent>>,
           \A t \in Threads : (Holds(t))' =>
               Holds(t) /\ task'[t] = task[t] /\ table'[(Owned(t))'] = table[Owned(t)],
           main' # "spawn"
    PROVE  AnswerInv'
<1>1. \A c \in Clients : (Answered(c))'
  BY DEF AnswerInv, Answered
<1>2. ASSUME NEW t \in Threads, (Holds(t))'  PROVE (Progress(t, table[Owned(t)]))'
  BY <1>2 DEF AnswerInv, Progress
<1> QED BY <1>1, <1>2 DEF AnswerInv

LEMMA MainKeepsAnswers ==
    ASSUME Typing, Ownership, K!ConnectionInv, AnswerInv, MainStep
    PROVE  AnswerInv'
<1> USE DEF Typing, TypeOK, K!Typed, mainVars, handlerVars, kernelVars, MainGoto
<1>1. CASE WaitSlot \/ MallocFails
  BY <1>1, NoTalk DEF WaitSlot, MallocFails, Holds, Owned
<1>2. CASE Malloc
  <2>1. \A t \in Threads : (Holds(t))' => Holds(t) /\ task'[t] = task[t] /\ (Owned(t))' = Owned(t)
    BY <1>2 DEF Malloc, Holds, Owned, Ownership, HandlersHold
  <2> QED BY <1>2, <2>1, NoTalk DEF Malloc
<1>3. CASE AcceptClient
  <2>1. PICK f \in Fds : Accept(f) /\ cell' = [cell EXCEPT ![arg] = f]
    BY <1>3 DEF AcceptClient
  <2>2. /\ table[f] = NULL /\ table' = [table EXCEPT ![f] = Head(backlog)]
        /\ Head(backlog) = backlog[1] /\ 1 \in 1 .. Len(backlog) /\ Head(backlog) \in Clients
    BY <2>1 DEF Accept, IsNextFd, Free
  <2>3. arg \in Cells /\ cell[arg] = -1 /\ arg' = arg /\ main' = "spawn" /\ cell'[arg] = f
    BY <1>3, <2>1 DEF AcceptClient, Ownership, MainHolds
  <2>4. \A t \in Threads : (Holds(t))' => Holds(t) /\ task'[t] = task[t] /\ (Owned(t))' = Owned(t)
    BY <1>3, <2>1, <2>3 DEF AcceptClient, Holds, Owned, Ownership, HandlersHold
  <2>5. \A t \in Threads : Holds(t) => Owned(t) \in Fds /\ table'[Owned(t)] = table[Owned(t)]
    BY <2>2 DEF Ownership, HandlersHold
  <2>6. answer[Head(backlog)] = <<>>
    BY <2>2 DEF K!ConnectionInv, K!Queued
  <2>7. \A c \in Clients : (Answered(c))'
    BY <2>1 DEF Accept, AnswerInv, Answered
  <2>8. ASSUME NEW t \in Threads, (Holds(t))'  PROVE (Progress(t, table[Owned(t)]))'
    <3>1. UNCHANGED <<peer, request, answer, sent>>
      BY <1>3, <2>1 DEF AcceptClient, Accept
    <3>2. Progress(t, table[Owned(t)]) /\ task'[t] = task[t] /\ table'[(Owned(t))'] = table[Owned(t)]
      BY <2>4, <2>5, <2>8 DEF AnswerInv
    <3> QED BY ONLY <3>1, <3>2 DEF Progress
  <2> QED BY <2>1, <2>2, <2>3, <2>6, <2>7, <2>8 DEF Accept, AnswerInv
<1>4. CASE AcceptFails
  <2>1. arg \in Cells /\ cell[arg] = -1
    BY <1>4 DEF AcceptFails, Ownership, MainHolds
  <2>2. \A t \in Threads : (Holds(t))' => Holds(t) /\ task'[t] = task[t] /\ (Owned(t))' = Owned(t)
    BY <1>4, <2>1 DEF AcceptFails, Holds, Owned, Ownership, HandlersHold
  <2> QED BY <1>4, <2>2, NoTalk DEF AcceptFails
<1>5. CASE Spawn
  <2>1. PICK t \in Threads : /\ task[t] = "none"
                             /\ task' = [task EXCEPT ![t] = "start"]
                             /\ arg_of' = [arg_of EXCEPT ![t] = arg]
    BY <1>5 DEF Spawn
  <2>2. (Owned(t))' = cell[arg] /\ answer[table[cell[arg]]] = <<>>
    BY <1>5, <2>1 DEF Spawn, Owned, Ownership, MainHolds, AnswerInv
  <2>3. \A u \in Threads \ {t} : task'[u] = task[u] /\ (Owned(u))' = Owned(u)
    BY <1>5, <2>1 DEF Spawn, Owned
  <2>4. \A c \in Clients : (Answered(c))'
    BY <1>5 DEF Spawn, AnswerInv, Answered
  <2>5. (Progress(t, table[Owned(t)]))'
    BY <1>5, <2>1, <2>2 DEF Spawn, Progress
  <2>6. ASSUME NEW u \in Threads \ {t}, (Holds(u))'  PROVE (Progress(u, table[Owned(u)]))'
    BY <1>5, <2>3, <2>6 DEF Spawn, AnswerInv, Progress, Holds
  <2> QED BY <1>5, <2>4, <2>5, <2>6 DEF Spawn, AnswerInv
<1>6. CASE SpawnFails
  <2>1. arg \in Cells /\ cell[arg] \in Fds /\ answer[table[cell[arg]]] = <<>>
        /\ \A u \in Threads : Holds(u) => Owned(u) # cell[arg] /\ Owned(u) \in Fds
    BY <1>6 DEF SpawnFails, Ownership, MainHolds, HandlersHold, AnswerInv
  <2>2. \A u \in Threads : (Holds(u))' =>
            Holds(u) /\ task'[u] = task[u] /\ (Owned(u))' = Owned(u) /\ table'[Owned(u)] = table[Owned(u)]
    BY <1>6, <2>1 DEF SpawnFails, Close, Holds, Owned
  <2>3. \A c \in Clients : (Answered(c))'
    BY <1>6 DEF SpawnFails, Close, AnswerInv, Answered
  <2>4. ASSUME NEW t \in Threads, (Holds(t))'  PROVE (Progress(t, table[Owned(t)]))'
    BY <1>6, <2>2, <2>4 DEF SpawnFails, Close, AnswerInv, Progress
  <2> QED BY <1>6, <2>3, <2>4 DEF SpawnFails, AnswerInv
<1> QED BY <1>1, <1>2, <1>3, <1>4, <1>5, <1>6 DEF MainStep

\* A client connects, sends or hangs up; who hangs up is told nothing more.
LEMMA ClientKeepsAnswers ==
    ASSUME Typing, Ownership, K!ConnectionInv, AnswerInv, NEW c \in Clients, Client_c(c)
    PROVE  AnswerInv'
<1> USE DEF Typing, TypeOK, K!Typed, mainVars, handlerVars
<1>0. UNCHANGED <<main, arg, cell, task, arg_of, client_fd, open_fd, sent, table, answer, eof>>
  BY DEF Client_c, ClientStep, Connect, Send, HangUp
<1>1. \A t \in Threads : ((Holds(t))' <=> Holds(t)) /\ (Owned(t))' = Owned(t)
  BY <1>0 DEF Holds, Owned
<1>2. \A t \in Threads : Holds(t) => table[Owned(t)] \in Clients
  BY DEF Ownership, HandlersHold
<1>3. SUFFICES /\ \A d \in Clients : (Answered(d))'
               /\ \A t \in Threads : Holds(t) => (Progress(t, table[Owned(t)]))'
  BY <1>0, <1>1 DEF AnswerInv
<1>4. CASE Connect(c)
  <2>1. request' = request /\ peer' = [peer EXCEPT ![c] = "open"]
        /\ ~eof[c] /\ \A t \in Threads : Holds(t) => table[Owned(t)] # c
    <3>1. ~K!Opened(c) /\ ~eof[c]
      BY <1>4 DEF Connect, K!ConnectionInv
    <3> QED BY <1>4, <3>1 DEF Connect, K!Opened, Ownership, HandlersHold
  <2> QED BY <1>0, <1>1, <1>2, <2>1 DEF AnswerInv, Answered, Progress
<1>5. CASE Send(c)
  <2>1. /\ peer' = peer /\ request[c] = NULL /\ peer[c] = "open" /\ ~eof[c]
        /\ request' = [request EXCEPT ![c] = request'[c]] /\ request'[c] # NULL
    BY <1>5 DEF Send
  <2>2. answer[c] = <<>>
    BY <2>1 DEF AnswerInv, Answered
  <2>3. \A d \in Clients : (Answered(d))'
    BY <1>0, <2>1, <2>2 DEF AnswerInv, Answered
  <2>4. ASSUME NEW t \in Threads, Holds(t)  PROVE (Progress(t, table[Owned(t)]))'
    <3>1. Progress(t, table[Owned(t)]) /\ table[Owned(t)] \in Clients
      BY <1>2, <2>4 DEF AnswerInv
    <3> QED BY <1>0, <1>1, <2>1, <2>4, <3>1 DEF Progress
  <2> QED BY <2>3, <2>4
<1>6. CASE HangUp(c)
  <2>1. request' = request /\ \A d \in Clients : peer'[d] = "open" => peer[d] = "open"
    BY <1>6 DEF HangUp
  <2> QED BY <1>0, <1>1, <1>2, <2>1 DEF AnswerInv, Answered, Progress
<1> QED BY <1>4, <1>5, <1>6 DEF Client_c, ClientStep

\* The turn of handler t: nothing of the other clients changes.
LEMMA Turn ==
    ASSUME Typing, Ownership, K!ConnectionInv, AnswerInv,
           NEW t \in Threads, Holds(t), NEW c \in Clients, c = table[Owned(t)],
           UNCHANGED <<main, arg, cell, arg_of>>,
           \A u \in Threads \ {t} : task'[u] = task[u] /\ client_fd'[u] = client_fd[u] /\ sent'[u] = sent[u],
           \A f \in Fds : table[f] \in Clients /\ table[f] # c => table'[f] = table[f],
           \A d \in Clients \ {c} : /\ answer'[d] = answer[d] /\ request'[d] = request[d]
                                    /\ peer'[d] = peer[d] /\ eof'[d] = eof[d],
           (Answered(c))', (Holds(t))' => (Progress(t, table[Owned(t)]))'
    PROVE  AnswerInv'
<1>1. \A d \in Clients : (Answered(d))'
  BY DEF AnswerInv, Answered
<1>2. ASSUME NEW u \in Threads \ {t}, (Holds(u))'  PROVE (Progress(u, table[Owned(u)]))'
  <2>1. Holds(u) /\ (Owned(u))' = Owned(u)
    BY <1>2 DEF Holds, Owned
  <2>2. Owned(u) \in Fds /\ table[Owned(u)] \in Clients \ {c} /\ Progress(u, table[Owned(u)])
    BY <2>1, OneEach DEF Ownership, HandlersHold, AnswerInv
  <2> DEFINE d == table[Owned(u)]
  <2>3. task'[u] = task[u] /\ sent'[u] = sent[u] /\ table'[(Owned(u))'] = d
    BY <2>1, <2>2
  <2>4. answer'[d] = answer[d] /\ request'[d] = request[d] /\ peer'[d] = peer[d]
    BY <2>2
  <2> QED BY <2>2, <2>3, <2>4 DEF Progress
<1>3. main = "spawn" => (answer[table[cell[arg]]])' = <<>>
  <2>1. main = "spawn" => cell[arg] \in Fds /\ table[cell[arg]] \in Clients \ {c}
    BY OneEach DEF Ownership, MainHolds
  <2> QED BY <2>1 DEF AnswerInv
<1> QED BY <1>1, <1>2, <1>3 DEF AnswerInv

\* A handler writes to its own client only, and goes on to the step that what
\* the client has then stands for.
LEMMA HandlerKeepsAnswers ==
    ASSUME Typing, Ownership, K!ConnectionInv, AnswerInv, NEW t \in Threads, HandlerStep(t)
    PROVE  AnswerInv'
<1> USE DEF Typing, TypeOK, K!Typed, mainVars, handlerVars, kernelVars, Goto
<1>0. PICK c : c = table[Owned(t)]
  OBVIOUS
<1> USE <1>0
<1>1. CASE Start(t)
  <2>1. Holds(t) /\ arg_of[t] \in Cells /\ Owned(t) = cell[arg_of[t]] /\ Owned(t) \in Fds
        /\ (main = "spawn" => arg \in Cells /\ cell[arg] # Owned(t))
    BY <1>1 DEF Start, Ownership, HandlersHold, MainHolds, Holds, Owned
  <2>2. (Owned(t))' = Owned(t) /\ task'[t] = "read" /\ task[t] = "start"
    BY <1>1 DEF Start, Owned
  <2>3. \A u \in Threads \ {t} : task[u] = "start" => arg_of[u] \in Cells /\ arg_of[u] # arg_of[t]
    BY <1>1, <2>1 DEF Ownership, HandlersHold, Holds, Owned
  <2>4. \A u \in Threads \ {t} : (Holds(u))' =>
            Holds(u) /\ task'[u] = task[u] /\ (Owned(u))' = Owned(u)
    BY <1>1, <2>1, <2>3 DEF Start, Holds, Owned
  <2>5. \A d \in Clients : (Answered(d))'
    BY <1>1 DEF Start, AnswerInv, Answered
  <2>6. (Progress(t, table[Owned(t)]))'
    BY <1>1, <2>1, <2>2 DEF Start, AnswerInv, Progress
  <2>7. ASSUME NEW u \in Threads \ {t}, (Holds(u))'  PROVE (Progress(u, table[Owned(u)]))'
    BY <1>1, <2>4, <2>7 DEF Start, AnswerInv, Progress
  <2>8. main = "spawn" => cell'[arg] = cell[arg]
    BY <1>1, <2>1 DEF Start
  <2> QED BY <1>1, <2>5, <2>6, <2>7, <2>8 DEF Start, AnswerInv
<1>2. ASSUME Holds(t), task[t] # "start"
      PROVE  Owned(t) = client_fd[t] /\ Owned(t) \in Fds /\ c = Client(t) /\ c \in Clients
             /\ Answered(c) /\ Progress(t, c) /\ ~eof[c]
  <2>1. K!Opened(c) => ~eof[c]
    BY <1>2 DEF Ownership, HandlersHold, K!ConnectionInv
  <2> QED BY <1>2, <2>1 DEF Owned, Client, Ownership, HandlersHold, AnswerInv, K!Opened
<1>3. CASE Read(t)
  <2>1. Holds(t) /\ task[t] = "read"
    BY <1>3 DEF Read, Holds
  <2>2. (Owned(t))' = Owned(t) /\ UNCHANGED kernelVars
    BY <1>2, <1>3, <2>1 DEF Read, Owned
  <2>3. answer[c] = <<>> /\ task'[t] = "open" => request[c] # NULL
    BY <1>2, <1>3, <2>1 DEF Read, ReadsData, Asked, Progress
  <2>4. answer[c] = <<>> /\ task'[t] # "open" => task'[t] = "close" /\ peer[c] # "open"
    BY <1>2, <1>3, <2>1 DEF Read, Readable, ReadsData, Asked
  <2>5. answer[c] = <<>>
    BY <1>2, <2>1 DEF Progress
  <2>6. (Progress(t, table[Owned(t)]))'
    BY <2>2, <2>3, <2>4, <2>5 DEF Progress
  <2>7. (Answered(c))'
    BY <1>2, <2>1, <2>2 DEF Answered
  <2> QED BY <1>2, <1>3, <2>1, <2>2, <2>6, <2>7, Turn DEF Read
<1>4. CASE Open(t)
  <2>1. Holds(t) /\ task[t] = "open" /\ task'[t] = "send"
    BY <1>4 DEF Open, Holds
  <2>2. (Owned(t))' = Owned(t) /\ UNCHANGED <<backlog, peer, request, answer, eof, sent>>
    BY <1>2, <1>4, <2>1 DEF Open, OpenFile, Owned
  <2>3. \A f \in Fds : table[f] \in Clients => table'[f] = table[f]
    BY <1>4 DEF Open, OpenFile, IsNextFd, Free
  <2>4. answer[c] = <<>> /\ sent[t] = 0 /\ request[c] = "file"
    BY <1>2, <1>4, <2>1 DEF Open, Asked, Progress, Ownership, FilesOpen
  <2>5. (Progress(t, table[Owned(t)]))'
    BY <1>2, <2>1, <2>2, <2>3, <2>4, BlocksGrow DEF Progress
  <2>6. (Answered(c))'
    BY <1>2, <2>1, <2>2 DEF Answered
  <2> QED BY <1>2, <1>4, <2>1, <2>2, <2>3, <2>5, <2>6, Turn DEF Open
<1>5. ASSUME NEW x \in {"error", "block"}, Write(c, x), c \in Clients
      PROVE  /\ UNCHANGED <<table, backlog, request, eof>>
             /\ \A d \in Clients \ {c} : answer'[d] = answer[d] /\ peer'[d] = peer[d]
             /\ peer'[c] = "open" => peer[c] = "open"
             /\ answer'[c] = IF peer[c] = "open" THEN Append(answer[c], x) ELSE answer[c]
  BY <1>5 DEF Write
<1>6. CASE OpenFails(t)
  <2>1. Holds(t) /\ task[t] = "open" /\ task'[t] = "close"
    BY <1>6 DEF OpenFails, Holds
  <2>2. (Owned(t))' = Owned(t)
    BY <1>2, <1>6, <2>1 DEF OpenFails, Owned
  <2>3. Write(c, "error")
    BY <1>2, <1>6, <2>1 DEF OpenFails
  <2>4. answer[c] = <<>> /\ request[c] \in {"missing", "file"}
    BY <1>2, <2>1 DEF Progress
  <2>5. answer'[c] = IF peer[c] = "open" THEN <<"error">> ELSE <<>>
    BY <1>2, <1>5, <2>1, <2>3, <2>4
  <2>6. (Answered(c))'
    BY <1>2, <1>5, <2>1, <2>3, <2>4, <2>5 DEF Answered
  <2>7. (Progress(t, table[Owned(t)]))'
    BY <1>2, <1>5, <2>1, <2>2, <2>3, <2>4, <2>5, AnswersAre DEF Progress
  <2> QED BY <1>2, <1>5, <1>6, <2>1, <2>3, <2>6, <2>7, Turn DEF OpenFails
<1>7. CASE SendBlock(t)
  <2>1. Holds(t) /\ task[t] = "send" /\ task'[t] = "send" /\ sent[t] \in 0 .. Chunks /\ sent[t] < Chunks
        /\ sent'[t] = sent[t] + 1
    BY <1>7 DEF SendBlock, Holds
  <2>2. (Owned(t))' = Owned(t)
    BY <1>2, <1>7, <2>1 DEF SendBlock, Owned
  <2>3. Write(c, "block")
    BY <1>2, <1>7, <2>1 DEF SendBlock
  <2>4. request[c] = "file" /\ (peer[c] = "open" => answer[c] = Blocks(sent[t]))
    BY <1>2, <2>1 DEF Progress
  <2>5. answer'[c] = IF peer[c] = "open" THEN Blocks(sent'[t]) ELSE answer[c]
    <3>1. Append(Blocks(sent[t]), "block") = Blocks(sent'[t])
      BY <2>1, BlocksGrow
    <3> QED BY <1>2, <1>5, <2>1, <2>3, <2>4, <3>1
  <2>6. (Answered(c))'
    <3>1. sent'[t] \in 0 .. Chunks
      BY <2>1
    <3> QED BY <1>2, <1>5, <2>1, <2>3, <2>4, <2>5, <3>1 DEF Answered
  <2>7. (Progress(t, table[Owned(t)]))'
    BY <1>2, <1>5, <2>1, <2>2, <2>3, <2>4, <2>5 DEF Progress
  <2> QED BY <1>2, <1>5, <1>7, <2>1, <2>3, <2>6, <2>7, Turn DEF SendBlock
<1>8. CASE CloseFile(t)
  <2>1. Holds(t) /\ task[t] = "send" /\ task'[t] = "close"
    BY <1>8 DEF CloseFile, Holds
  <2>2. open_fd[t] \in Fds /\ table[open_fd[t]] = "file" /\ table' = [table EXCEPT ![open_fd[t]] = NULL]
    BY <1>8, <2>1 DEF CloseFile, Close, Ownership, FilesOpen
  <2>3. UNCHANGED <<peer, request, answer>> /\ \A d \in Clients : eof'[d] = eof[d]
    BY <1>8, <2>2 DEF CloseFile, Close
  <2>4. (Owned(t))' = Owned(t) /\ table'[Owned(t)] = c
    BY <1>2, <1>8, <2>1, <2>2 DEF CloseFile, Owned
  <2>5. request[c] = "file" /\ (peer[c] = "open" => answer[c] = Blocks(Chunks))
    BY <1>2, <1>8, <2>1 DEF CloseFile, WriteFails, Progress
  <2>6. (Progress(t, table[Owned(t)]))'
    BY <2>1, <2>3, <2>4, <2>5, AnswersAre DEF Progress
  <2>7. (Answered(c))'
    BY <1>2, <2>1, <2>3 DEF Answered
  <2>8. \A f \in Fds : table[f] \in Clients /\ table[f] # c => table'[f] = table[f]
    BY <2>2
  <2>9. UNCHANGED <<main, arg, cell, arg_of, client_fd>>
        /\ \A u \in Threads \ {t} : task'[u] = task[u] /\ sent'[u] = sent[u]
    BY <1>8 DEF CloseFile
  <2> QED BY <1>2, <2>1, <2>3, <2>6, <2>7, <2>8, <2>9, Turn
<1>9. CASE Killed(t)
  BY <1>9 DEF Killed, AnswerInv, Answered, Progress, Holds, Owned
<1>10. CASE CloseClient(t)
  <2>1. Holds(t) /\ task[t] = "close" /\ ~(Holds(t))'
    BY <1>10 DEF CloseClient, Holds
  <2>2. UNCHANGED <<peer, request, answer>> /\ \A d \in Clients \ {c} : eof'[d] = eof[d]
    BY <1>2, <1>10, <2>1 DEF CloseClient, Close
  <2>3. \A f \in Fds : table[f] \in Clients /\ table[f] # c => table'[f] = table[f]
    BY <1>2, <1>10, <2>1 DEF CloseClient, Close
  <2>4. (Answered(c))'
    BY <1>2, <2>1, <2>2 DEF Answered, Progress
  <2> QED BY <1>2, <1>10, <2>1, <2>2, <2>3, <2>4, Turn DEF CloseClient
<1>11. CASE PostSlot(t)
  <2>1. main' = "spawn" => main = "spawn"
    BY <1>11 DEF PostSlot
  <2>2. \A u \in Threads : (Holds(u))' => Holds(u) /\ task'[u] = task[u] /\ (Owned(u))' = Owned(u)
    BY <1>11 DEF PostSlot, Holds, Owned
  <2>3. \A d \in Clients : (Answered(d))'
    BY <1>11 DEF PostSlot, AnswerInv, Answered
  <2>4. ASSUME NEW u \in Threads, (Holds(u))'  PROVE (Progress(u, table[Owned(u)]))'
    BY <1>11, <2>2, <2>4 DEF PostSlot, AnswerInv, Progress
  <2> QED BY <1>11, <2>3, <2>4 DEF PostSlot, AnswerInv
<1> QED BY <1>1, <1>3, <1>4, <1>6, <1>7, <1>8, <1>9, <1>10, <1>11 DEF HandlerStep

LEMMA AnswersKept ==
    ASSUME Typing, Ownership, K!ConnectionInv, AnswerInv, [Next]_vars
    PROVE  AnswerInv'
<1>1. ASSUME UNCHANGED vars  PROVE AnswerInv'
  BY <1>1 DEF vars, mainVars, handlerVars, kernelVars, AnswerInv, Answered, Progress, Holds, Owned
<1> QED BY <1>1, MainKeepsAnswers, HandlerKeepsAnswers, ClientKeepsAnswers DEF Next, Run

-----------------------------------------------------------------------------
(***************************************************************************)
(* The invariant holds, and says what the properties say.                  *)
(***************************************************************************)
LEMMA InitiallyIInv == Init => IInv /\ AnswerInv
<1> SUFFICES ASSUME Init  PROVE IInv /\ AnswerInv
  OBVIOUS
<1> USE DEF Init
<1>1. K!Typed /\ K!ConnectionInv
  <2>1. K!KernelInit /\ K!Distinct
    BY DEF KernelInit, K!KernelInit, K!Distinct
  <2> QED BY <2>1, K!KernelStart
<1>2. TypeOK
  BY DEF TypeOK, KernelInit
<1>3. Ownership
  BY DEF KernelInit, Ownership, MainHolds, HandlersHold, HeldBySomeone, FilesOpen, Holds
<1>4. SlotAccounting
  <2>1. Alive = {}
    BY DEF Alive
  <2> QED BY <2>1, FS_EmptySet DEF SlotAccounting
<1>5. AnswerInv
  BY DEF KernelInit, AnswerInv, Answered, Holds
<1> QED BY <1>1, <1>2, <1>3, <1>4, <1>5 DEF IInv, Typing

LEMMA Invariance == Spec => [](IInv /\ AnswerInv)
<1>1. IInv /\ AnswerInv /\ [Next]_vars => (IInv /\ AnswerInv)'
  <2> SUFFICES ASSUME IInv, AnswerInv, [Next]_vars  PROVE IInv' /\ AnswerInv'
    OBVIOUS
  <2>1. Typing' /\ Ownership' /\ SlotAccounting' /\ AnswerInv'
    BY TypingKept, OwnershipKept, SlotsKept, AnswersKept DEF IInv, Typing
  <2>2. K!ConnectionInv'
    BY IsKernelStep, K!KernelKeepsConnections DEF IInv, Typing, K!Distinct
  <2> QED BY <2>1, <2>2 DEF IInv
<1> QED BY <1>1, InitiallyIInv, PTL DEF Spec

\* Every open descriptor of a connection is main's or one handler's, every open
\* file one handler's (server.c:56, :101, :128, :148): none is closed twice,
\* used after it was given out again, or forgotten, however many handlers run.
THEOREM Descriptors == Spec => []DescriptorOwnership
<1>1. IInv => DescriptorOwnership
  <2> SUFFICES ASSUME IInv  PROVE DescriptorOwnership
    OBVIOUS
  <2> USE DEF IInv, Typing, Ownership
  <2>1. \A t : t \in Owners <=> t \in Threads /\ Holds(t)
    BY DEF TypeOK, Owners, Alive, Holds
  <2>2. Connections = {Owned(t) : t \in Owners} \cup (IF main = "spawn" THEN {cell[arg]} ELSE {})
    <3> DEFINE owned == {Owned(t) : t \in Owners} \cup (IF main = "spawn" THEN {cell[arg]} ELSE {})
    <3>1. ASSUME NEW f \in Connections  PROVE f \in owned
      BY <2>1 DEF Connections, HeldBySomeone
    <3>2. ASSUME NEW f \in owned  PROVE f \in Connections
      <4>1. CASE \E t \in Owners : f = Owned(t)
        BY <2>1, <4>1 DEF Connections, HandlersHold
      <4>2. CASE main = "spawn" /\ f = cell[arg]
        BY <4>2 DEF Connections, MainHolds
      <4> QED BY <3>2, <4>1, <4>2
    <3> QED BY <3>1, <3>2
  <2>3. /\ \A t, u \in Owners : Owned(t) = Owned(u) => t = u
        /\ main = "spawn" => \A t \in Owners : Owned(t) # cell[arg]
    BY <2>1 DEF HandlersHold, MainHolds
  <2>4. {f \in Fds : table[f] = "file"} = {open_fd[t] : t \in Threads} \ {NULL}
    <3> DEFINE files == {f \in Fds : table[f] = "file"}
               used  == {open_fd[t] : t \in Threads} \ {NULL}
    <3>1. ASSUME NEW f \in files  PROVE f \in used
      BY DEF FilesOpen
    <3>2. ASSUME NEW f \in used  PROVE f \in files
      <4>1. PICK t \in Threads : f = open_fd[t] /\ open_fd[t] # NULL
        OBVIOUS
      <4> QED BY <4>1 DEF FilesOpen
    <3> HIDE DEF files, used
    <3>3. files = used
      BY <3>1, <3>2
    <3> QED BY <3>3 DEF files, used
  <2> QED BY <2>2, <2>3, <2>4 DEF DescriptorOwnership, FilesOpen
<1> QED BY <1>1, Invariance, PTL

\* Each connection is held for a slot, so they are no more than the slots.
LEMMA NoMoreThanSlots ==
    ASSUME IInv, DescriptorOwnership
    PROVE  SimultaneousClients
<1> DEFINE held == {Owned(t) : t \in Owners}
           more == IF main = "spawn" THEN {cell[arg]} ELSE {}
<1>1. IsFiniteSet(Alive) /\ Cardinality(Alive) \in Nat
  BY AliveFinite
<1>2. IsFiniteSet(Owners) /\ Cardinality(Owners) <= Cardinality(Alive) /\ Cardinality(Owners) \in Nat
  BY <1>1, FS_Subset, FS_CardinalityType DEF Owners
<1>3. IsFiniteSet(held) /\ Cardinality(held) <= Cardinality(Owners) /\ Cardinality(held) \in Nat
  <2>1. [t \in Owners |-> Owned(t)] \in Surjection(Owners, held)
    BY DEF Surjection
  <2>2. IsFiniteSet(held) /\ Cardinality(held) <= Cardinality(Owners)
    <3> HIDE DEF held
    <3> QED BY <1>2, <2>1, FS_Surjection
  <2> QED BY <2>2, FS_CardinalityType
<1>4. Cardinality(Connections) <= Cardinality(held) + (IF main = "spawn" THEN 1 ELSE 0)
  <2>1. CASE main = "spawn"
    <3>1. Connections = held \cup {cell[arg]}
      BY <2>1 DEF DescriptorOwnership
    <3>2. Cardinality(held \cup {cell[arg]}) <= Cardinality(held) + 1
      <4> HIDE DEF held
      <4>1. Cardinality(held \cup {cell[arg]})
                = IF cell[arg] \in held THEN Cardinality(held) ELSE Cardinality(held) + 1
        BY <1>3, FS_AddElement
      <4> QED BY <1>3, <4>1
    <3> QED BY <2>1, <3>1, <3>2
  <2>2. CASE main # "spawn"
    <3>1. Connections = held
      BY <2>2 DEF DescriptorOwnership
    <3> QED BY <1>3, <2>2, <3>1
  <2> QED BY <2>1, <2>2
<1>5. Cardinality(Connections) \in Nat
  <2>1. IsFiniteSet(held \cup more)
    <3> HIDE DEF held
    <3>1. IsFiniteSet(held \cup {cell[arg]}) /\ held \cup {} = held
      BY <1>3, FS_AddElement
    <3> QED BY <1>3, <3>1
  <2>2. Connections = held \cup more
    BY DEF DescriptorOwnership
  <2> QED BY <2>1, <2>2, FS_CardinalityType
<1>6. conn_sem \in Nat /\ Cardinality(Alive) + (IF main = "wait" THEN 0 ELSE 1) + conn_sem = MAX_CONNECTIONS
  BY <1>1 DEF IInv, Typing, TypeOK, SlotAccounting
<1> QED BY <1>1, <1>2, <1>3, <1>4, <1>5, <1>6 DEF SimultaneousClients

\* No slot of the semaphore is lost or counted twice, whichever call fails, and
\* never more than MAX_CONNECTIONS connections are open, for any number of
\* handlers and slots (server.c:18, :56, :68, :86, :134, :142, :154).
THEOREM Slots == Spec => []SlotInv
<1>1. IInv /\ DescriptorOwnership => SlotInv
  BY NoMoreThanSlots DEF IInv, Typing, SlotInv
<1> QED BY <1>1, Invariance, Descriptors, PTL

\* Who is closed: at SpawnFails the client main has accepted, to whom nothing was
\* said, and otherwise the client of a handler that has done all it does.
LEMMA Closing ==
    ASSUME Typing, Ownership, K!ConnectionInv, AnswerInv, [Next]_vars, NEW c \in Clients
    PROVE  /\ ~eof[c] /\ eof'[c] /\ peer[c] = "open" =>
                 IF SpawnFails THEN answer[c] = <<>>
                               ELSE request[c] # NULL /\ answer[c] \in Answers(request[c])
           /\ eof[c] => eof'[c] /\ answer'[c] = answer[c]
<1> USE DEF Typing, TypeOK, K!Typed, mainVars, handlerVars, kernelVars, Goto, MainGoto
<1> DEFINE Kept == eof'[c] = eof[c] /\ (eof[c] => answer'[c] = answer[c])
           Told == request[c] # NULL /\ answer[c] \in Answers(request[c])
<1>1. CASE SpawnFails
  <2>1. cell[arg] \in Fds /\ answer[table[cell[arg]]] = <<>> /\ Close(cell[arg])
    BY <1>1 DEF SpawnFails, Ownership, MainHolds, AnswerInv
  <2> QED BY <1>1, <2>1 DEF Close
<1>2. ASSUME NEW t \in Threads, HandlerStep(t)
      PROVE  Kept \/ (answer' = answer /\ (eof[c] => eof'[c])
                       /\ (~eof[c] /\ eof'[c] /\ peer[c] = "open" => Told))
  <2>1. ASSUME task[t] \in {"open", "send", "close"}
        PROVE  client_fd[t] \in Fds /\ Client(t) \in Clients /\ ~eof[Client(t)] /\ Progress(t, Client(t))
    <3>1. Holds(t) /\ Owned(t) = client_fd[t]
      BY <2>1 DEF Holds, Owned
    <3>2. client_fd[t] \in Fds /\ Client(t) \in Clients /\ Progress(t, Client(t))
      BY <3>1 DEF Client, Ownership, HandlersHold, AnswerInv
    <3>3. K!Opened(Client(t))
      BY <3>1, <3>2 DEF Client, K!Opened
    <3> QED BY <3>2, <3>3 DEF K!ConnectionInv
  <2>2. CASE OpenFails(t) \/ SendBlock(t)
    BY <2>1, <2>2 DEF OpenFails, SendBlock, Write
  <2>3. CASE CloseFile(t)
    <3>1. open_fd[t] \in Fds /\ table[open_fd[t]] = "file" /\ Close(open_fd[t])
      BY <2>3 DEF CloseFile, Ownership, FilesOpen
    <3> QED BY <3>1 DEF Close
  <2>4. CASE CloseClient(t)
    <3>1. task[t] = "close" /\ Close(client_fd[t])
      BY <2>4 DEF CloseClient
    <3>2. answer' = answer /\ \A d \in Clients : eof'[d] = (eof[d] \/ Client(t) = d)
      BY <3>1 DEF Close, Client
    <3>3. peer[Client(t)] = "open" => request[Client(t)] # NULL /\ answer[Client(t)] \in Answers(request[Client(t)])
      BY <2>1, <3>1 DEF Progress
    <3> QED BY <3>2, <3>3
  <2>5. CASE Start(t) \/ Read(t) \/ Open(t) \/ Killed(t) \/ PostSlot(t)
    BY <2>5 DEF Start, Read, Open, OpenFile, Killed, PostSlot
  <2> QED BY <1>2, <2>2, <2>3, <2>4, <2>5 DEF HandlerStep
<1>3. ASSUME MainStep, ~SpawnFails  PROVE Kept
  BY <1>3 DEF MainStep, WaitSlot, Malloc, MallocFails, AcceptClient, Accept, AcceptFails, Spawn
<1>4. ASSUME NEW d \in Clients, Client_c(d)  PROVE Kept
  BY <1>4 DEF Client_c, ClientStep, Connect, Send, HangUp
<1>5. ASSUME UNCHANGED vars  PROVE Kept
  BY <1>5 DEF vars
<1>6. CASE ~SpawnFails
  <2>1. CASE \E t \in Threads : HandlerStep(t)
    BY <1>2, <1>6, <2>1
  <2>2. CASE Kept
    BY <1>6, <2>2
  <2> QED BY <1>3, <1>4, <1>5, <1>6, <2>1, <2>2 DEF Next, Run
<1> QED BY <1>1, <1>6

\* Each client receives the answer to its own request, from its beginning, and
\* all of it if it is still there when its handler closes the connection; only
\* one for whom no handler could be started is closed without an answer
\* (server.c:53 to :82, :150).
THEOREM Answering == Spec => RightAnswer
<1> DEFINE Begun == \A c \in Clients : \E a \in Answers(request[c]) :
                        Len(answer[c]) <= Len(a) /\ answer[c] = SubSeq(a, 1, Len(answer[c]))
           Closed == \A c \in Clients :
               /\ ~eof[c] /\ eof'[c] /\ peer[c] = "open" =>
                     IF SpawnFails THEN answer[c] = <<>>
                                   ELSE request[c] # NULL /\ answer[c] \in Answers(request[c])
               /\ eof[c] => eof'[c] /\ answer'[c] = answer[c]
<1>1. IInv /\ AnswerInv => Begun
  <2> SUFFICES ASSUME IInv, AnswerInv, NEW c \in Clients
               PROVE  \E a \in Answers(request[c]) :
                          Len(answer[c]) <= Len(a) /\ answer[c] = SubSeq(a, 1, Len(answer[c]))
    OBVIOUS
  <2>1. request[c] \in {"missing", "file", NULL}
    BY DEF IInv, Typing, TypeOK
  <2>2. CASE answer[c] = <<>>
    <3>1. PICK a \in {<<>>, <<"error">>} : a \in Answers(request[c])
      BY <2>1, AnswersAre
    <3> QED BY <2>2, <3>1
  <2>3. CASE request[c] \in {"missing", "file"} /\ answer[c] = <<"error">>
    <3>1. <<"error">> \in Answers(request[c])
      BY <2>3, AnswersAre
    <3> QED BY <2>3, <3>1
  <2>4. CASE request[c] = "file" /\ \E n \in 0 .. Chunks : answer[c] = Blocks(n)
    <3>1. PICK n \in 0 .. Chunks : answer[c] = Blocks(n)
      BY <2>4
    <3>2. Blocks(Chunks) \in Answers(request[c])
      BY <2>4, AnswersAre
    <3>3. Len(Blocks(n)) = n /\ Len(Blocks(Chunks)) = Chunks /\ n \in Nat
      BY BlocksGrow
    <3>4. Blocks(n) = SubSeq(Blocks(Chunks), 1, n)
      BY DEF Blocks
    <3> QED BY <3>1, <3>2, <3>3, <3>4
  <2> QED BY <2>2, <2>3, <2>4 DEF AnswerInv, Answered
<1>2. IInv /\ AnswerInv /\ [Next]_vars => Closed
  BY Closing DEF IInv
<1>3. Spec => []Begun
  <2> HIDE DEF Begun
  <2> QED BY <1>1, Invariance, PTL
<1>4. Spec => [][Closed]_vars
  <2> HIDE DEF Closed
  <2> QED BY <1>2, Invariance, PTL DEF Spec
<1> QED BY <1>3, <1>4 DEF RightAnswer

=============================================================================

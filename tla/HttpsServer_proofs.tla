------------------------- MODULE HttpsServer_proofs -------------------------
(***************************************************************************)
(* The HTTPS server, for any number of handlers, clients, descriptors and  *)
(* slots: its slots are accounted for, each connection has one handler,    *)
(* and each client gets its own answer, all of it or a beginning.          *)
(***************************************************************************)
EXTENDS HttpsServer, FiniteSetTheorems, TLAPS

K == INSTANCE Kernel_proofs WITH Texts <- {"400", "404", "200", "block", "close_notify"}

USE HttpsServerAssumption

-----------------------------------------------------------------------------
(***************************************************************************)
(* The invariant: every variable in its domain, every connection in one    *)
(* place, and then who has which descriptor.                               *)
(***************************************************************************)
Typing == TypeOK /\ K!Typed

MainHolds ==
    IF main \in {"handshake", "spawn"}
    THEN /\ accepted \in Fds /\ table[accepted] \in Clients /\ accepted \notin orphans
         /\ \A t \in Threads : ssl[t] # accepted
    ELSE accepted = NULL

HandlersHold ==
    /\ \A t \in Threads :
          IF task[t] \in {"none", "post"} THEN ssl[t] = NULL
          ELSE ssl[t] \in Fds /\ table[ssl[t]] \in Clients /\ ssl[t] \notin orphans
    /\ \A t, u \in Threads : ssl[t] = ssl[u] /\ ssl[t] # NULL => t = u

Orphaned == IsFiniteSet(orphans) /\ \A f \in orphans : table[f] \in Clients

FilesOpen ==
    /\ \A t \in Threads : IF task[t] \in {"200", "body"}
                          THEN open_fd[t] \in Fds /\ table[open_fd[t]] = "file"
                          ELSE open_fd[t] = NULL
    /\ \A t, u \in Threads : open_fd[t] = open_fd[u] /\ open_fd[t] # NULL => t = u
    /\ \A t \in Threads : task[t] # "body" => sent[t] = 0

Ownership == MainHolds /\ HandlersHold /\ Orphaned /\ FilesOpen

IInv == Typing /\ K!ConnectionInv /\ Ownership /\ SlotAccounting

-----------------------------------------------------------------------------
\* Each step of the server is one call of the kernel at most.
LEMMA IsKernelStep ==
    ASSUME Typing, Ownership, [Next]_vars
    PROVE  K!KernelStep
<1> USE DEF K!KernelStep
<1>1. CASE UNCHANGED kernelVars
  BY <1>1 DEF kernelVars
<1>2. ASSUME MainStep  PROVE K!KernelStep
  <2>1. CASE AcceptClient
    BY <2>1 DEF AcceptClient, Accept, IsNextFd, Free, K!Accept, K!IsNextFd, K!Free
  <2>2. CASE HandshakeFails
    BY <2>2 DEF HandshakeFails, MainGoto, Ownership, MainHolds, Close, K!Close
  <2> QED BY <1>1, <1>2, <2>1, <2>2 DEF MainStep, WaitSlot, AcceptFails, Handshake, Spawn, SpawnFails
<1>3. ASSUME NEW t \in Threads, HandlerStep(t)  PROVE K!KernelStep
  <2>1. CASE Open(t)
    BY <2>1 DEF Open, OpenFile, IsNextFd, Free, K!OpenFile, K!IsNextFd, K!Free
  <2>2. ASSUME NEW x \in {"400", "404", "200", "block", "close_notify"}, Write(Client(t), x),
               task[t] \notin {"none", "post"}
        PROVE  K!KernelStep
    <3>1. ssl[t] \in Fds
      BY <2>2 DEF Ownership, HandlersHold
    <3>2. K!Write(table[ssl[t]], x)
      BY <2>2 DEF Client, Write, Writable, K!Write, K!Writable
    <3> QED BY <3>1, <3>2
  <2>3. CASE CloseFile(t)
    BY <2>3 DEF CloseFile, Goto, Ownership, FilesOpen, Close, K!Close
  <2> QED BY <1>1, <1>3, <2>1, <2>2, <2>3
          DEF HandlerStep, Read, OpenFails, Respond, SendBlock, Killed, Shutdown, PostSlot, Goto
<1>4. ASSUME NEW c \in Clients, Hello(c) \/ ClientRequest(c) \/ ClientOther(c)  PROVE K!KernelStep
  BY <1>1, <1>4 DEF Hello, ClientRequest, ClientOther, Connect, Send, HangUp,
                    K!ClientStep, K!Connect, K!Send, K!HangUp
<1> QED BY <1>1, <1>2, <1>3, <1>4 DEF Next, Run, vars

-----------------------------------------------------------------------------
(***************************************************************************)
(* The slots.  One that is not free is main's, a living handler's, or lost *)
(* with a handler that could not be started.                               *)
(***************************************************************************)
MainSlots == IF main = "wait" THEN 0 ELSE 1

\* A handler comes to life, or ends, and the count of the living follows.
LEMMA Recount ==
    ASSUME NEW S, NEW T, IsFiniteSet(S), NEW x
    PROVE  /\ Cardinality(S) \in Nat
           /\ x \notin S /\ T = S \cup {x} => IsFiniteSet(T) /\ Cardinality(T) = Cardinality(S) + 1
           /\ x \in S /\ T = S \ {x} => IsFiniteSet(T) /\ Cardinality(T) = Cardinality(S) - 1
BY FS_CardinalityType, FS_AddElement, FS_RemoveElement

\* What each step does to the slots: a step moves one slot, or none.
LEMMA SlotsKept ==
    ASSUME TypeOK, Ownership, SlotAccounting, [Next]_vars
    PROVE  SlotAccounting' /\ conn_sem' \in 0 .. MAX_CONNECTIONS /\ IsFiniteSet(orphans')
<1> USE DEF SlotAccounting
<1>0. /\ IsFiniteSet(Alive) /\ Cardinality(Alive) \in Nat /\ Cardinality(Alive') \in Nat
      /\ IsFiniteSet(orphans) /\ Cardinality(orphans) \in Nat
      /\ conn_sem \in Nat /\ MAX_CONNECTIONS \in Nat
  <2>1. IsFiniteSet(Alive) /\ IsFiniteSet(Alive')
    BY FS_Subset DEF Alive
  <2> QED BY <2>1, FS_CardinalityType DEF TypeOK, Ownership, Orphaned
<1>1. SUFFICES SlotAccounting' /\ conn_sem' \in Nat /\ IsFiniteSet(orphans')
  <2>1. IsFiniteSet(orphans') => Cardinality(orphans') \in Nat
    BY FS_CardinalityType
  <2> QED BY <1>0, <2>1
<1>2. ASSUME MainStep  PROVE SlotAccounting' /\ conn_sem' \in Nat /\ IsFiniteSet(orphans')
  <2>1. CASE Spawn
    <3>1. PICK t \in Threads : task[t] = "none" /\ task' = [task EXCEPT ![t] = "read"]
      BY <2>1 DEF Spawn
    <3>2. t \notin Alive /\ Alive' = Alive \cup {t}
      BY <3>1 DEF Alive, TypeOK
    <3>3. Cardinality(Alive') = Cardinality(Alive) + 1
      BY <1>0, <3>2, Recount
    <3> QED BY <1>0, <2>1, <3>3 DEF Spawn, MainGoto
  <2>2. CASE SpawnFails
    <3>1. accepted \notin orphans /\ orphans' = orphans \cup {accepted}
      BY <2>2 DEF SpawnFails, MainGoto, Ownership, MainHolds
    <3>2. IsFiniteSet(orphans') /\ Cardinality(orphans') = Cardinality(orphans) + 1
      BY <1>0, <3>1, Recount
    <3>3. Alive' = Alive
      BY <2>2 DEF SpawnFails, Alive, handlerVars
    <3> QED BY <1>0, <2>2, <3>2, <3>3 DEF SpawnFails, MainGoto
  <2>3. Spawn \/ SpawnFails \/ (Alive' = Alive /\ orphans' = orphans)
    BY <1>2 DEF MainStep, Alive, WaitSlot, AcceptClient, AcceptFails, Handshake, HandshakeFails, handlerVars
  <2>4. Spawn \/ SpawnFails \/ (conn_sem' \in Nat /\ conn_sem' + MainSlots' = conn_sem + MainSlots)
    BY <1>0, <1>2 DEF MainSlots, MainStep, MainGoto, Post, WaitSlot, AcceptClient, AcceptFails, Handshake,
                      HandshakeFails
  <2> QED BY <1>0, <2>1, <2>2, <2>3, <2>4 DEF MainSlots
<1>3. ASSUME NEW t \in Threads, HandlerStep(t)
      PROVE  SlotAccounting' /\ conn_sem' \in Nat /\ IsFiniteSet(orphans')
  <2>1. CASE PostSlot(t)
    <3>1. t \in Alive /\ Alive' = Alive \ {t}
      BY <2>1 DEF PostSlot, Goto, Alive, TypeOK
    <3>2. Cardinality(Alive') = Cardinality(Alive) - 1
      BY <1>0, <3>1, Recount
    <3> QED BY <1>0, <2>1, <3>2 DEF PostSlot, Post, mainVars
  <2>2. PostSlot(t) \/ (Alive' = Alive /\ main' = main /\ conn_sem' = conn_sem /\ orphans' = orphans)
    BY <1>3 DEF HandlerStep, Goto, Alive, TypeOK, Read, Open, OpenFails, Respond, SendBlock, CloseFile,
                Killed, Shutdown, mainVars, handlerVars
  <2> QED BY <1>0, <2>1, <2>2
<1>4. ASSUME UNCHANGED <<conn_sem, mainVars, handlerVars, orphans>>
      PROVE  SlotAccounting' /\ conn_sem' \in Nat /\ IsFiniteSet(orphans')
  BY <1>0, <1>4 DEF Alive, mainVars, handlerVars
<1> QED BY <1>2, <1>3, <1>4 DEF Next, Run, vars, Hello, ClientRequest, ClientOther

\* Every step keeps every variable in its domain.
LEMMA TypingKept ==
    ASSUME Typing, Ownership, SlotAccounting, [Next]_vars
    PROVE  Typing'
<1>1. K!Typed'
  BY IsKernelStep, K!KernelTyped DEF Typing, K!Distinct
<1>2. conn_sem' \in 0 .. MAX_CONNECTIONS
  BY SlotsKept DEF Typing
<1> USE DEF TypeOK
<1>3. ASSUME MainStep  PROVE TypeOK'
  <2> USE <1>1, <1>2 DEF Typing, K!Typed, MainGoto, mainVars, handlerVars, kernelVars
  <2>1. CASE WaitSlot \/ AcceptFails \/ Handshake
    BY <2>1 DEF WaitSlot, AcceptFails, Handshake
  <2>2. CASE AcceptClient
    BY <2>2 DEF AcceptClient
  <2>3. CASE HandshakeFails
    BY <2>3 DEF HandshakeFails
  <2>4. CASE Spawn
    BY <2>4 DEF Spawn
  <2>5. CASE SpawnFails
    BY <2>5 DEF SpawnFails, Ownership, MainHolds
  <2> QED BY <1>3, <2>1, <2>2, <2>3, <2>4, <2>5 DEF MainStep
<1>4. ASSUME NEW t \in Threads, HandlerStep(t)  PROVE TypeOK'
  <2> USE <1>1, <1>2 DEF Typing, K!Typed, Goto, mainVars, handlerVars, kernelVars
  <2>1. CASE Read(t)
    BY <2>1 DEF Read
  <2>2. CASE Open(t)
    BY <2>2 DEF Open
  <2>3. CASE OpenFails(t)
    BY <2>3 DEF OpenFails
  <2>4. ASSUME NEW next \in {"shutdown", "body"}, NEW text, Respond(t, text, next)  PROVE TypeOK'
    BY <2>4 DEF Respond
  <2>5. CASE SendBlock(t)
    BY <2>5 DEF SendBlock
  <2>6. CASE CloseFile(t)
    BY <2>6 DEF CloseFile
  <2>7. CASE Killed(t)
    BY <2>7 DEF Killed
  <2>8. CASE Shutdown(t)
    BY <2>8 DEF Shutdown
  <2>9. CASE PostSlot(t)
    BY <2>9 DEF PostSlot
  <2> QED BY <1>4, <2>1, <2>2, <2>3, <2>4, <2>5, <2>6, <2>7, <2>8, <2>9 DEF HandlerStep
<1>5. ASSUME NEW c \in Clients, Hello(c) \/ ClientRequest(c) \/ ClientOther(c)  PROVE TypeOK'
  BY <1>1, <1>2, <1>5 DEF Hello, ClientRequest, ClientOther, Typing, K!Typed, mainVars, handlerVars
<1>6. ASSUME UNCHANGED vars  PROVE TypeOK'
  BY <1>6 DEF vars, Typing, mainVars, handlerVars, kernelVars
<1>7. TypeOK'
  BY <1>3, <1>4, <1>5, <1>6 DEF Next, Run
<1> QED BY <1>1, <1>7 DEF Typing

-----------------------------------------------------------------------------
(***************************************************************************)
(* Ownership.  A connection goes from main to one handler or is orphaned;  *)
(* its number is not given out again while somebody has it in hand.        *)
(***************************************************************************)
LEMMA NothingMoves ==
    ASSUME Ownership, UNCHANGED <<mainVars, handlerVars, orphans, table>>
    PROVE  Ownership'
BY DEF Ownership, MainHolds, HandlersHold, Orphaned, FilesOpen, mainVars, handlerVars

\* A handler goes on, with its connection and its file, at its blocks.
LEMMA NextStep ==
    ASSUME Typing, Ownership, NEW t \in Threads, NEW next,
           UNCHANGED <<mainVars, ssl, open_fd, orphans, table>>,
           task' = [task EXCEPT ![t] = next],
           task[t] \notin {"none", "post"}, next \notin {"none", "post"},
           task[t] \in {"200", "body"} <=> next \in {"200", "body"},
           \A u \in Threads : sent'[u] = sent[u] \/ (u = t /\ next = "body"),
           task[t] # "body" \/ next = "body"
    PROVE  Ownership'
<1> USE DEF Typing, TypeOK, mainVars
<1>1. MainHolds' /\ HandlersHold'
  BY DEF Ownership, MainHolds, HandlersHold
<1>2. Orphaned' /\ FilesOpen'
  BY DEF Ownership, Orphaned, FilesOpen
<1> QED BY <1>1, <1>2 DEF Ownership

LEMMA MainKeepsOwnership ==
    ASSUME Typing, Ownership, MainStep, IsFiniteSet(orphans')
    PROVE  Ownership'
<1> USE DEF Typing, TypeOK, K!Typed, mainVars, handlerVars, kernelVars, MainGoto
<1>1. CASE WaitSlot \/ AcceptFails \/ Handshake
  BY <1>1 DEF WaitSlot, AcceptFails, Handshake, Ownership, MainHolds, HandlersHold, Orphaned, FilesOpen
<1>2. CASE AcceptClient
  <2>1. PICK f \in Fds : Accept(f) /\ accepted' = f
    BY <1>2 DEF AcceptClient
  <2>2. table[f] = NULL /\ Head(backlog) \in Clients /\ table' = [table EXCEPT ![f] = Head(backlog)]
    BY <2>1 DEF Accept, IsNextFd, Free
  <2>3. MainHolds'
    BY <1>2, <2>1, <2>2 DEF AcceptClient, Ownership, MainHolds, HandlersHold, Orphaned
  <2>4. HandlersHold'
    BY <1>2, <2>2 DEF AcceptClient, Ownership, HandlersHold
  <2>5. Orphaned' /\ FilesOpen'
    BY <1>2, <2>2 DEF AcceptClient, Ownership, Orphaned, FilesOpen
  <2> QED BY <2>3, <2>4, <2>5 DEF Ownership
<1>3. CASE HandshakeFails
  <2>1. accepted \in Fds /\ table[accepted] \in Clients /\ accepted \notin orphans
        /\ (\A t \in Threads : ssl[t] # accepted) /\ table' = [table EXCEPT ![accepted] = NULL]
    BY <1>3 DEF HandshakeFails, Close, Ownership, MainHolds
  <2>2. MainHolds'
    BY <1>3 DEF HandshakeFails, MainHolds
  <2>3. HandlersHold'
    BY <1>3, <2>1 DEF HandshakeFails, Ownership, HandlersHold
  <2>4. Orphaned' /\ FilesOpen'
    BY <1>3, <2>1 DEF HandshakeFails, Ownership, Orphaned, FilesOpen
  <2> QED BY <2>2, <2>3, <2>4 DEF Ownership
<1>4. CASE Spawn
  <2>1. PICK t \in Threads : /\ task[t] = "none"
                             /\ task' = [task EXCEPT ![t] = "read"]
                             /\ ssl' = [ssl EXCEPT ![t] = accepted]
    BY <1>4 DEF Spawn
  <2>2. accepted \in Fds /\ table[accepted] \in Clients /\ accepted \notin orphans
        /\ \A u \in Threads : ssl[u] # accepted
    BY <1>4 DEF Spawn, Ownership, MainHolds
  <2>3. MainHolds'
    BY <1>4 DEF Spawn, MainHolds
  <2>4. HandlersHold'
    BY <1>4, <2>1, <2>2 DEF Spawn, Ownership, HandlersHold
  <2>5. Orphaned' /\ FilesOpen'
    BY <1>4, <2>1 DEF Spawn, Ownership, Orphaned, FilesOpen
  <2> QED BY <2>3, <2>4, <2>5 DEF Ownership
<1>5. CASE SpawnFails
  <2>1. accepted \in Fds /\ table[accepted] \in Clients /\ accepted \notin orphans
        /\ (\A u \in Threads : ssl[u] # accepted) /\ orphans' = orphans \cup {accepted}
    BY <1>5 DEF SpawnFails, Ownership, MainHolds
  <2>2. MainHolds'
    BY <1>5 DEF SpawnFails, MainHolds
  <2>3. HandlersHold'
    BY <1>5, <2>1 DEF SpawnFails, Ownership, HandlersHold
  <2>4. Orphaned' /\ FilesOpen'
    BY <1>5, <2>1 DEF SpawnFails, Ownership, Orphaned, FilesOpen
  <2> QED BY <2>2, <2>3, <2>4 DEF Ownership
<1> QED BY <1>1, <1>2, <1>3, <1>4, <1>5 DEF MainStep

LEMMA HandlerKeepsOwnership ==
    ASSUME Typing, Ownership, NEW t \in Threads, HandlerStep(t)
    PROVE  Ownership'
<1> USE DEF Typing, TypeOK, K!Typed, mainVars, handlerVars, kernelVars, Goto
<1>1. CASE Read(t)
  <2>1. PICK next : next \in {"shutdown", "400", "open"} /\ task' = [task EXCEPT ![t] = next]
    BY <1>1 DEF Read
  <2>2. task[t] = "read" /\ UNCHANGED <<mainVars, ssl, open_fd, orphans, table, sent>>
    BY <1>1 DEF Read
  <2>3. Typing /\ Ownership /\ t \in Threads
    OBVIOUS
  <2> QED BY ONLY <2>1, <2>2, <2>3, NextStep
<1>2. CASE OpenFails(t)
  <2>1. PICK next : next \in {"400", "404"} /\ task' = [task EXCEPT ![t] = next]
    BY <1>2 DEF OpenFails
  <2>2. task[t] = "open" /\ UNCHANGED <<mainVars, ssl, open_fd, orphans, table, sent>>
    BY <1>2 DEF OpenFails
  <2>3. Typing /\ Ownership /\ t \in Threads
    OBVIOUS
  <2> QED BY ONLY <2>1, <2>2, <2>3, NextStep
<1>3. CASE Open(t)
  <2>1. PICK f \in Fds : OpenFile(f) /\ open_fd' = [open_fd EXCEPT ![t] = f]
    BY <1>3 DEF Open
  <2>2. table[f] = NULL /\ table' = [table EXCEPT ![f] = "file"]
    BY <2>1 DEF OpenFile, IsNextFd, Free
  <2>3. MainHolds' /\ HandlersHold' /\ Orphaned'
    BY <1>3, <2>2 DEF Open, Ownership, MainHolds, HandlersHold, Orphaned
  <2>4. FilesOpen'
    BY <1>3, <2>1, <2>2 DEF Open, Ownership, FilesOpen
  <2> QED BY <2>3, <2>4 DEF Ownership
<1>4. CASE Respond(t, "400", "shutdown") \/ Respond(t, "404", "shutdown") \/ Respond(t, "200", "body")
  <2>1. PICK next \in {"shutdown", "body"} :
            /\ task' = [task EXCEPT ![t] = next]
            /\ (task[t] = "200" /\ next = "body") \/ (task[t] \in {"400", "404"} /\ next = "shutdown")
    BY <1>4 DEF Respond
  <2>2. UNCHANGED <<mainVars, ssl, open_fd, orphans, table, sent>>
    BY <1>4 DEF Respond, Write
  <2> QED BY <2>1, <2>2, NextStep
<1>5. CASE SendBlock(t)
  <2>1. MainHolds' /\ HandlersHold' /\ Orphaned'
    BY <1>5 DEF SendBlock, Write, Ownership, MainHolds, HandlersHold, Orphaned
  <2>2. FilesOpen'
    BY <1>5 DEF SendBlock, Write, Ownership, FilesOpen
  <2> QED BY <2>1, <2>2 DEF Ownership
<1>6. CASE CloseFile(t)
  <2>1. open_fd[t] \in Fds /\ table[open_fd[t]] = "file" /\ table' = [table EXCEPT ![open_fd[t]] = NULL]
    BY <1>6 DEF CloseFile, Close, Ownership, FilesOpen
  <2>2. MainHolds'
    BY <1>6, <2>1 DEF CloseFile, Ownership, MainHolds
  <2>3. HandlersHold' /\ Orphaned'
    BY <1>6, <2>1 DEF CloseFile, Ownership, HandlersHold, Orphaned
  <2>4. FilesOpen'
    BY <1>6, <2>1 DEF CloseFile, Ownership, FilesOpen
  <2> QED BY <2>2, <2>3, <2>4 DEF Ownership
<1>7. CASE Killed(t)
  BY <1>7, NothingMoves DEF Killed
<1>8. CASE Shutdown(t)
  <2>1. MainHolds' /\ Orphaned'
    BY <1>8 DEF Shutdown, Write, Ownership, MainHolds, Orphaned
  <2>2. HandlersHold'
    BY <1>8 DEF Shutdown, Write, Ownership, HandlersHold
  <2>3. FilesOpen'
    BY <1>8 DEF Shutdown, Write, Ownership, FilesOpen
  <2> QED BY <2>1, <2>2, <2>3 DEF Ownership
<1>9. CASE PostSlot(t)
  <2>1. MainHolds' /\ HandlersHold' /\ Orphaned'
    BY <1>9 DEF PostSlot, Ownership, MainHolds, HandlersHold, Orphaned
  <2>2. FilesOpen'
    BY <1>9 DEF PostSlot, Ownership, FilesOpen
  <2> QED BY <2>1, <2>2 DEF Ownership
<1> QED BY <1>1, <1>2, <1>3, <1>4, <1>5, <1>6, <1>7, <1>8, <1>9 DEF HandlerStep

LEMMA OwnershipKept ==
    ASSUME Typing, Ownership, SlotAccounting, [Next]_vars
    PROVE  Ownership'
<1>1. ASSUME NEW c \in Clients, Hello(c) \/ ClientRequest(c) \/ ClientOther(c)  PROVE Ownership'
  BY <1>1, NothingMoves DEF Hello, ClientRequest, ClientOther, Connect, Send, HangUp, kernelVars
<1>2. ASSUME UNCHANGED vars  PROVE Ownership'
  BY <1>2, NothingMoves DEF vars, kernelVars
<1>3. IsFiniteSet(orphans')
  BY SlotsKept DEF Typing
<1> QED BY <1>1, <1>2, <1>3, MainKeepsOwnership, HandlerKeepsOwnership DEF Next, Run

-----------------------------------------------------------------------------
(***************************************************************************)
(* Answers.  What a client has received is the part of its answer that its *)
(* handler's step stands for; a client that hung up received less.         *)
(***************************************************************************)
Blocks(n) == [k \in 1 .. n |-> "block"]

IsPrefix(s, a) == Len(s) <= Len(a) /\ s = SubSeq(a, 1, Len(s))

Answered(c) == \E a \in Answers(request[c]) : IsPrefix(answer[c], a)

\* Handler t, whose client is c.
Progress(t, c) ==
    /\ task[t] \in {"read", "400", "open", "404", "200"} => answer[c] = <<>>
    /\ task[t] = "400" => request[c] = "bad"
    /\ task[t] \in {"open", "404"} => request[c] \in {"missing", "file"}
    /\ task[t] \in {"200", "body"} => request[c] = "file"
    /\ task[t] = "body" /\ peer[c] = "open" => answer[c] = <<"200">> \o Blocks(sent[t])
    /\ task[t] = "shutdown" /\ peer[c] = "open" =>
          Append(answer[c], "close_notify") \in Answers(request[c])

Serves(t, c) == ssl[t] # NULL /\ table[ssl[t]] = c

\* A client that no handler serves any more has the whole answer.
Told(c) ==
    peer[c] = "open" /\ answer[c] # <<>> /\ (\A t \in Threads : ~Serves(t, c))
        => answer[c] \in Answers(request[c])

\* A connection that nobody has in hand any more was answered.
Handled(f) ==
    table[f] \in Clients /\ f \notin orphans /\ f # accepted /\ (\A t \in Threads : ssl[t] # f)
        => peer[table[f]] # "open" \/ answer[table[f]] # <<>>

AnswerInv ==
    /\ \A c \in Clients : Answered(c) /\ Told(c)
    /\ \A t \in Threads : ssl[t] # NULL => Progress(t, table[ssl[t]])
    /\ accepted # NULL => answer[table[accepted]] = <<>>
    /\ \A f \in orphans : answer[table[f]] = <<>>
    /\ \A f \in Fds : Handled(f)

Texts == {"400", "404", "200", "block", "close_notify"}

\* The first n blocks of a file's answer.
Body(n) == <<"200">> \o Blocks(n)

LEMMA BodyGrows ==
    ASSUME NEW n \in Nat
    PROVE  /\ Body(n) \in Seq(Texts) /\ Len(Body(n)) = n + 1
           /\ Append(Body(n), "block") = Body(n + 1)
           /\ Body(0) = <<"200">>
<1>1. Blocks(n) \in Seq(Texts) /\ Len(Blocks(n)) = n
  BY DEF Blocks, Texts
<1>2. Body(n) = [k \in 1 .. n + 1 |-> IF k = 1 THEN "200" ELSE "block"]
  BY <1>1 DEF Body, Blocks, Texts
<1>3. Body(n + 1) = [k \in 1 .. n + 2 |-> IF k = 1 THEN "200" ELSE "block"]
  BY DEF Body, Blocks
<1>4. Body(0) = [k \in 1 .. 1 |-> "200"]
  BY DEF Body, Blocks
<1> QED BY <1>2, <1>3, <1>4 DEF Texts

LEMMA AnswersAre ==
    /\ Answers("bad") = {<<"400", "close_notify">>}
    /\ Answers("missing") = {<<"404", "close_notify">>}
    /\ Answers("file") = {<<"404", "close_notify">>, Append(Body(Chunks), "close_notify")}
    /\ Answers(NULL) = {<<>>}
<1>1. Body(Chunks) \o <<"close_notify">> = Append(Body(Chunks), "close_notify")
  BY BodyGrows DEF Texts
<1>2. <<"400">> \o <<"close_notify">> = <<"400", "close_notify">>
      /\ <<"404">> \o <<"close_notify">> = <<"404", "close_notify">>
  <2>1. ASSUME NEW x \in Texts, NEW y \in Texts  PROVE <<x>> \o <<y>> = <<x, y>>
    <3>1. <<x>> \o <<y>> \in Seq(Texts) /\ Len(<<x>> \o <<y>>) = 2
      OBVIOUS
    <3>2. (<<x>> \o <<y>>)[1] = x /\ (<<x>> \o <<y>>)[2] = y
      OBVIOUS
    <3>3. <<x, y>> \in Seq(Texts) /\ Len(<<x, y>>) = 2 /\ <<x, y>>[1] = x /\ <<x, y>>[2] = y
      OBVIOUS
    <3>4. \A r, s \in Seq(Texts) : Len(r) = 2 /\ Len(s) = 2 /\ r[1] = s[1] /\ r[2] = s[2] => r = s
      OBVIOUS
    <3> QED BY <3>1, <3>2, <3>3, <3>4
  <2> QED BY <2>1 DEF Texts
<1>3. Body(Chunks) = <<"200">> \o [k \in 1 .. Chunks |-> "block"]
  BY DEF Body, Blocks
<1>4. <<"200">> \o [k \in 1 .. Chunks |-> "block"] \o <<"close_notify">> = Append(Body(Chunks), "close_notify")
  BY <1>1, <1>3
<1>5. Answers("file") = {<<"404">> \o <<"close_notify">>,
                         <<"200">> \o [k \in 1 .. Chunks |-> "block"] \o <<"close_notify">>}
  BY DEF Answers
<1>6. Answers("bad") = {<<"400">> \o <<"close_notify">>}
      /\ Answers("missing") = {<<"404">> \o <<"close_notify">>}
  BY DEF Answers
<1>7. Answers(NULL) = {<<>>}
  BY DEF Answers
<1> QED BY <1>2, <1>4, <1>5, <1>6, <1>7

LEMMA TwoTexts ==
    ASSUME NEW x \in Texts, NEW y \in Texts
    PROVE  Append(<<x>>, y) = <<x, y>> /\ \A s \in Seq(Texts) : Append(s, y) # <<>>
<1>1. /\ Append(<<x>>, y) \in Seq(Texts) /\ Len(Append(<<x>>, y)) = 2
      /\ Append(<<x>>, y)[1] = x /\ Append(<<x>>, y)[2] = y
  OBVIOUS
<1>2. <<x, y>> \in Seq(Texts) /\ Len(<<x, y>>) = 2 /\ <<x, y>>[1] = x /\ <<x, y>>[2] = y
  OBVIOUS
<1>3. \A r, s \in Seq(Texts) : Len(r) = 2 /\ Len(s) = 2 /\ r[1] = s[1] /\ r[2] = s[2] => r = s
  OBVIOUS
<1>4. ASSUME NEW s \in Seq(Texts)  PROVE Append(s, y) # <<>>
  <2>1. Len(Append(s, y)) = Len(s) + 1 /\ Len(s) \in Nat /\ Len(<<>>) = 0
    OBVIOUS
  <2> QED BY <2>1
<1> QED BY <1>1, <1>2, <1>3, <1>4

\* Every answer is a sequence of texts, and begins with nothing.
LEMMA AnswersAreSequences ==
    ASSUME NEW r \in {"bad", "missing", "file", NULL}
    PROVE  /\ \A a \in Answers(r) : a \in Seq(Texts) /\ IsPrefix(<<>>, a) /\ IsPrefix(a, a)
           /\ \E a \in Answers(r) : IsPrefix(<<>>, a)
<1>1. \A a \in Answers(r) : a \in Seq(Texts)
  <2>1. Append(Body(Chunks), "close_notify") \in Seq(Texts)
    BY BodyGrows DEF Texts
  <2>2. <<"400", "close_notify">> \in Seq(Texts) /\ <<"404", "close_notify">> \in Seq(Texts) /\ <<>> \in Seq(Texts)
    BY DEF Texts
  <2> QED BY <2>1, <2>2, AnswersAre
<1>2. ASSUME NEW a \in Seq(Texts)  PROVE IsPrefix(<<>>, a) /\ IsPrefix(a, a)
  BY DEF IsPrefix
<1>3. \E a : a \in Answers(r)
  BY AnswersAre
<1> QED BY <1>1, <1>2, <1>3

\* The beginnings that the steps of a handler make.
LEMMA Beginnings ==
    /\ IsPrefix(<<"400">>, <<"400", "close_notify">>)
    /\ IsPrefix(<<"404">>, <<"404", "close_notify">>)
    /\ \A n \in 0 .. Chunks : IsPrefix(Body(n), Append(Body(Chunks), "close_notify"))
<1>1. IsPrefix(<<"400">>, <<"400", "close_notify">>) /\ IsPrefix(<<"404">>, <<"404", "close_notify">>)
  BY DEF IsPrefix
<1>2. ASSUME NEW n \in 0 .. Chunks  PROVE IsPrefix(Body(n), Append(Body(Chunks), "close_notify"))
  <2> DEFINE a == Append(Body(Chunks), "close_notify")
  <2>1. /\ Body(n) = [k \in 1 .. n + 1 |-> IF k = 1 THEN "200" ELSE "block"]
        /\ Body(Chunks) = [k \in 1 .. Chunks + 1 |-> IF k = 1 THEN "200" ELSE "block"]
    BY DEF Body, Blocks
  <2>2. Len(Body(n)) = n + 1 /\ Body(Chunks) \in Seq(Texts) /\ Len(Body(Chunks)) = Chunks + 1
    <3>1. n \in Nat /\ Chunks \in Nat
      OBVIOUS
    <3> QED BY <3>1, BodyGrows
  <2>3. Len(a) = Chunks + 2 /\ \A k \in 1 .. n + 1 : a[k] = Body(n)[k]
    BY <2>1, <2>2 DEF Texts
  <2>4. SubSeq(a, 1, n + 1) = [k \in 1 .. n + 1 |-> a[k]]
    <3>1. a \in Seq(Texts) /\ n + 1 \in 1 .. Len(a)
      BY <2>2, <2>3 DEF Texts
    <3> HIDE DEF a
    <3> QED BY <3>1
  <2> QED BY <2>1, <2>2, <2>3, <2>4 DEF IsPrefix
<1> QED BY <1>1, <1>2

\* What is on the way of a connection that has one: it is nobody else's.
LEMMA Alone ==
    ASSUME Typing, Ownership, K!ConnectionInv
    PROVE  /\ \A t \in Threads : ssl[t] # NULL => ssl[t] \in Fds /\ table[ssl[t]] \in Clients
           /\ \A f, g \in Fds : table[f] \in Clients /\ table[f] = table[g] => f = g
           /\ \A t \in Threads : ssl[t] # NULL => ssl[t] \notin orphans /\ ssl[t] # accepted
           /\ accepted # NULL => accepted \in Fds /\ table[accepted] \in Clients /\ accepted \notin orphans
           /\ orphans \subseteq Fds /\ \A f \in orphans : table[f] \in Clients
           /\ \A c \in Clients : request[c] \in {"bad", "missing", "file", NULL}
<1>1. \A c \in Clients : request[c] \in {"bad", "missing", "file", NULL}
  BY DEF Typing, TypeOK
<1> QED BY <1>1 DEF Typing, TypeOK, Ownership, MainHolds, HandlersHold, Orphaned, K!ConnectionInv

\* The turn of handler t: no connection changes hands, but its own when it ends.
LEMMA Turn ==
    ASSUME Typing, Ownership, K!ConnectionInv, AnswerInv,
           NEW t \in Threads, ssl[t] # NULL, NEW c \in Clients, c = table[ssl[t]],
           UNCHANGED <<mainVars, orphans, request>>,
           \A u \in Threads \ {t} : task'[u] = task[u] /\ ssl'[u] = ssl[u] /\ sent'[u] = sent[u],
           \A f \in Fds : table[f] \in Clients \/ table'[f] \in Clients => table'[f] = table[f],
           \A d \in Clients \ {c} : answer'[d] = answer[d] /\ peer'[d] = peer[d],
           (Answered(c))',
           \/ ssl'[t] = ssl[t] /\ (Progress(t, c))'
           \/ ssl'[t] = NULL /\ (peer'[c] # "open" \/ (answer'[c] # <<>> /\ answer'[c] \in Answers(request[c])))
    PROVE  AnswerInv'
<1>0. /\ \A u, v \in Threads : ssl[u] # NULL /\ ssl[u] = ssl[v] => u = v
      /\ \A u \in Threads : ssl[u] # NULL => ssl[u] \in Fds /\ table[ssl[u]] \in Clients
      /\ \A f, g \in Fds : table[f] \in Clients /\ table[f] = table[g] => f = g
  BY Alone DEF Ownership, HandlersHold
<1>1. \A u \in Threads \ {t} : ssl[u] # NULL => ssl[u] # ssl[t] /\ table[ssl[u]] # c
  <2> TAKE u \in Threads \ {t}
  <2> HAVE ssl[u] # NULL
  <2>1. ssl[u] # ssl[t]
    BY ONLY <1>0, u \in Threads \ {t}, t \in Threads, ssl[u] # NULL
  <2> QED BY ONLY <2>1, <1>0, u \in Threads \ {t}, t \in Threads, ssl[u] # NULL, ssl[t] # NULL, c = table[ssl[t]]
<1>own. \/ ssl'[t] = ssl[t] /\ (Progress(t, c))'
        \/ ssl'[t] = NULL /\ (peer'[c] # "open" \/ (answer'[c] # <<>> /\ answer'[c] \in Answers(request[c])))
  OBVIOUS
<1>rest. \A u \in Threads \ {t} : task'[u] = task[u] /\ ssl'[u] = ssl[u] /\ sent'[u] = sent[u]
  OBVIOUS
<1>table. \A f \in Fds : table[f] \in Clients => table'[f] = table[f]
  OBVIOUS
<1>clients. \A d \in Clients \ {c} : answer'[d] = answer[d] /\ peer'[d] = peer[d] /\ request' = request
  OBVIOUS
<1>kept. UNCHANGED <<main, accepted, orphans>> /\ ssl[t] \in Fds /\ t \in Threads /\ ssl[t] # NULL
         /\ c = table[ssl[t]] /\ table'[ssl[t]] = c /\ c \in Clients
  BY <1>0, <1>table DEF mainVars
<1>inv. AnswerInv /\ (Answered(c))'
  OBVIOUS
<1>2. \A u \in Threads : \A d \in Clients \ {c} : (Serves(u, d))' <=> Serves(u, d)
  <2> SUFFICES ASSUME NEW u \in Threads, NEW d \in Clients \ {c}  PROVE (Serves(u, d))' <=> Serves(u, d)
    OBVIOUS
  <2>1. CASE u = t
    BY ONLY <2>1, <1>own, <1>kept, d \in Clients \ {c} DEF Serves
  <2>2. CASE u # t
    <3>1. ssl'[u] = ssl[u] /\ (ssl[u] # NULL => table'[ssl[u]] = table[ssl[u]])
      BY ONLY <2>2, <1>0, <1>rest, <1>table, u \in Threads
    <3> QED BY ONLY <3>1 DEF Serves
  <2> QED BY ONLY <2>1, <2>2
<1>3. \A d \in Clients : (Answered(d))'
  BY ONLY <1>inv, <1>clients DEF AnswerInv, Answered
<1>4. ASSUME NEW d \in Clients  PROVE (Told(d))'
  <2>1. CASE d # c
    BY ONLY <1>2, <1>inv, <1>clients, <1>4, <2>1 DEF AnswerInv, Told
  <2>2. CASE d = c /\ ssl'[t] = NULL
    BY <2>2 DEF Told
  <2>3. CASE d = c /\ ssl'[t] = ssl[t]
    BY ONLY <1>kept, <2>3 DEF Told, Serves
  <2> QED BY ONLY <2>1, <2>2, <2>3, <1>own
<1>5. ASSUME NEW u \in Threads, ssl'[u] # NULL  PROVE (Progress(u, table[ssl[u]]))'
  <2>1. CASE u = t
    <3>1. ssl'[t] = ssl[t] /\ (Progress(t, c))'
      BY ONLY <1>own, <1>5, <2>1
    <3>2. table'[ssl'[u]] = c
      BY ONLY <1>kept, <2>1, <3>1
    <3> QED BY ONLY <2>1, <3>1, <3>2 DEF Progress
  <2>2. CASE u # t
    <3>1. ssl'[u] = ssl[u] /\ task'[u] = task[u] /\ sent'[u] = sent[u] /\ ssl[u] # NULL
      BY ONLY <1>rest, <1>5, <2>2
    <3>2. PICK d \in Clients \ {c} : d = table[ssl[u]]
      BY ONLY <1>0, <1>1, <1>5, <2>2, <3>1
    <3>3. Progress(u, d)
      BY ONLY <1>inv, <1>5, <3>1, <3>2 DEF AnswerInv
    <3>4. answer'[d] = answer[d] /\ peer'[d] = peer[d] /\ request'[d] = request[d]
      BY ONLY <1>clients, <3>2
    <3>5. (Progress(u, d))'
      BY ONLY <3>1, <3>3, <3>4 DEF Progress
    <3>6. table'[ssl'[u]] = d
      BY ONLY <1>0, <1>table, <1>5, <3>1, <3>2
    <3> QED BY ONLY <3>5, <3>6 DEF Progress
  <2> QED BY ONLY <2>1, <2>2
<1>6. ASSUME accepted # NULL  PROVE answer'[table'[accepted]] = <<>>
  <2>1. accepted \in Fds /\ table[accepted] \in Clients /\ accepted # ssl[t]
    BY <1>6, Alone
  <2>2. table'[accepted] = table[accepted] /\ table[accepted] \in Clients \ {c}
    BY ONLY <1>0, <1>table, <1>kept, <2>1
  <2> QED BY ONLY <1>6, <2>2, <1>inv, <1>clients DEF AnswerInv
<1>7. ASSUME NEW f \in orphans  PROVE answer'[table'[f]] = <<>>
  <2>1. f \in Fds /\ table[f] \in Clients /\ f # ssl[t]
    BY Alone
  <2>2. table'[f] = table[f] /\ table[f] \in Clients \ {c}
    BY ONLY <1>0, <1>table, <1>kept, <2>1
  <2> QED BY ONLY <1>7, <2>2, <1>inv, <1>clients DEF AnswerInv
<1>8. ASSUME NEW f \in Fds  PROVE (Handled(f))'
  <2>1. CASE f = ssl[t]
    BY <1>kept, <2>1 DEF Handled
  <2>2. CASE f # ssl[t]
    <3>1. Handled(f)
      BY ONLY <1>inv, f \in Fds DEF AnswerInv
    <3>2. (\A u \in Threads : ssl'[u] # f) => (\A u \in Threads : ssl[u] # f)
      BY ONLY <1>rest, <2>2
    <3>3. table[f] \in Clients => table[f] # c
      BY ONLY <1>0, <1>kept, <2>2, f \in Fds
    <3>4. table'[f] \in Clients \/ table[f] \in Clients => table'[f] = table[f]
      OBVIOUS
    <3>5. table[f] \in Clients /\ table[f] # c => answer'[table[f]] = answer[table[f]]
                                                   /\ peer'[table[f]] = peer[table[f]]
      BY ONLY <1>clients
    <3> QED BY ONLY <1>kept, <3>1, <3>2, <3>3, <3>4, <3>5 DEF Handled
  <2> QED BY ONLY <2>1, <2>2
<1> QED BY ONLY <1>3, <1>4, <1>5, <1>6, <1>7, <1>8, <1>kept DEF AnswerInv

\* A step at which nobody is told anything, and no connection changes hands.
LEMMA NothingTold ==
    ASSUME AnswerInv,
           UNCHANGED <<accepted, handlerVars, orphans, table, peer, request, answer>>
    PROVE  AnswerInv'
BY DEF AnswerInv, Answered, Told, Serves, Progress, Handled, handlerVars

LEMMA MainKeepsAnswers ==
    ASSUME Typing, Ownership, K!ConnectionInv, AnswerInv, MainStep
    PROVE  AnswerInv'
<1> USE Alone DEF mainVars, handlerVars, kernelVars, MainGoto
<1> DEFINE Rest == /\ \A c \in Clients : (Answered(c))' /\ (Told(c))'
                   /\ \A t \in Threads : ssl'[t] # NULL => (Progress(t, table[ssl[t]]))'
                   /\ accepted' # NULL => answer'[table'[accepted']] = <<>>
                   /\ \A f \in orphans' : answer'[table'[f]] = <<>>
                   /\ \A f \in Fds : (Handled(f))'
<1>1. CASE WaitSlot \/ AcceptFails \/ Handshake
  BY <1>1, NothingTold DEF WaitSlot, AcceptFails, Handshake
<1>2. CASE AcceptClient
  <2>1. PICK f \in Fds : Accept(f) /\ accepted' = f
    BY <1>2 DEF AcceptClient
  <2>2. /\ table[f] = NULL /\ table' = [table EXCEPT ![f] = Head(backlog)]
        /\ Head(backlog) = backlog[1] /\ 1 \in 1 .. Len(backlog) /\ Head(backlog) \in Clients
    BY <2>1 DEF Accept, IsNextFd, Free, Typing, K!Typed
  <2>3. answer[Head(backlog)] = <<>>
    BY <2>2 DEF K!ConnectionInv, K!Queued
  <2>4. UNCHANGED <<handlerVars, orphans, peer, request, answer>> /\ accepted = NULL
    BY <1>2, <2>1 DEF AcceptClient, Accept, Ownership, MainHolds
  <2>5. \A t \in Threads : ssl[t] # NULL => table'[ssl[t]] = table[ssl[t]]
    BY <2>2 DEF Typing, TypeOK
  <2>6. \A c \in Clients : (Answered(c))' /\ (Told(c))'
    BY <2>4, <2>5 DEF AnswerInv, Answered, Told, Serves
  <2>7. ASSUME NEW t \in Threads, ssl[t] # NULL  PROVE (Progress(t, table[ssl[t]]))'
    <3>1. Progress(t, table[ssl[t]])
      BY <2>7 DEF AnswerInv
    <3> QED BY <2>4, <2>5, <2>7, <3>1 DEF Progress
  <2>8. answer'[table'[f]] = <<>> /\ \A g \in orphans : answer'[table'[g]] = <<>>
    BY <2>2, <2>3, <2>4 DEF AnswerInv, Typing, TypeOK
  <2>9. ASSUME NEW g \in Fds  PROVE (Handled(g))'
    <3>1. CASE g = f
      BY <2>1, <3>1 DEF Handled
    <3>2. CASE g # f
      <4>1. table'[g] = table[g] /\ Handled(g) /\ g # accepted
        BY <2>2, <2>4, <3>2 DEF AnswerInv, Typing, TypeOK
      <4> QED BY <2>4, <4>1 DEF Handled
    <3> QED BY <3>1, <3>2
  <2> QED BY <2>1, <2>4, <2>6, <2>7, <2>8, <2>9 DEF AnswerInv
<1>3. CASE HandshakeFails
  <2>1. accepted \in Fds /\ accepted \notin orphans
        /\ (\A t \in Threads : ssl[t] # accepted) /\ table' = [table EXCEPT ![accepted] = NULL]
    BY <1>3 DEF HandshakeFails, Close, Ownership, MainHolds
  <2>2. UNCHANGED <<handlerVars, orphans, peer, request, answer>> /\ accepted' = NULL
    BY <1>3 DEF HandshakeFails, Close
  <2>3. \A t \in Threads : ssl[t] # NULL => table'[ssl[t]] = table[ssl[t]]
    BY <2>1 DEF Typing, TypeOK
  <2>4. \A c \in Clients : (Answered(c))' /\ (Told(c))'
    BY <2>2, <2>3 DEF AnswerInv, Answered, Told, Serves
  <2>5. ASSUME NEW t \in Threads, ssl[t] # NULL  PROVE (Progress(t, table[ssl[t]]))'
    <3>1. Progress(t, table[ssl[t]])
      BY <2>5 DEF AnswerInv
    <3> QED BY <2>2, <2>3, <2>5, <3>1 DEF Progress
  <2>6. \A g \in orphans : answer'[table'[g]] = <<>>
    BY <2>1, <2>2 DEF AnswerInv, Typing, TypeOK
  <2>7. ASSUME NEW g \in Fds  PROVE (Handled(g))'
    <3>1. CASE g = accepted
      BY <2>1, <3>1 DEF Handled, Typing, TypeOK
    <3>2. CASE g # accepted
      <4>1. table'[g] = table[g] /\ Handled(g)
        BY <2>1, <3>2 DEF AnswerInv, Typing, TypeOK
      <4> QED BY <2>2, <3>2, <4>1 DEF Handled, handlerVars
    <3> QED BY <3>1, <3>2
  <2> QED BY <2>2, <2>4, <2>5, <2>6, <2>7 DEF AnswerInv
<1>4. CASE Spawn
  <2>1. PICK t \in Threads : /\ task[t] = "none"
                             /\ task' = [task EXCEPT ![t] = "read"]
                             /\ ssl' = [ssl EXCEPT ![t] = accepted]
    BY <1>4 DEF Spawn
  <2>2. accepted \in Fds /\ answer[table[accepted]] = <<>> /\ ssl[t] = NULL
    BY <1>4, <2>1 DEF Spawn, Ownership, MainHolds, HandlersHold, AnswerInv
  <2>3. UNCHANGED <<orphans, sent, table, peer, request, answer>> /\ accepted' = NULL
    BY <1>4 DEF Spawn
  <2>4. \A u \in Threads \ {t} : task'[u] = task[u] /\ ssl'[u] = ssl[u]
    BY <2>1 DEF Typing, TypeOK
  <2>5. ssl'[t] = accepted /\ task'[t] = "read"
    BY <2>1 DEF Typing, TypeOK
  <2>6. \A c \in Clients : (\A u \in Threads : ~(Serves(u, c))') => (\A u \in Threads : ~Serves(u, c))
    BY <2>2, <2>3, <2>4 DEF Serves
  <2>7. \A c \in Clients : (Answered(c))' /\ (Told(c))'
    BY <2>3, <2>6 DEF AnswerInv, Answered, Told
  <2>8. (Progress(t, table[ssl[t]]))'
    BY <2>2, <2>3, <2>5 DEF Progress
  <2>9. ASSUME NEW u \in Threads \ {t}, ssl'[u] # NULL  PROVE (Progress(u, table[ssl[u]]))'
    BY <2>3, <2>4, <2>9 DEF AnswerInv, Progress
  <2>10. \A f \in Fds : (Handled(f))'
    BY <2>2, <2>3, <2>4, <2>5 DEF AnswerInv, Handled
  <2> QED BY <2>3, <2>7, <2>8, <2>9, <2>10 DEF AnswerInv
<1>5. CASE SpawnFails
  <2>1. /\ accepted \in Fds /\ answer[table[accepted]] = <<>>
        /\ orphans' = orphans \cup {accepted} /\ accepted' = NULL
    BY <1>5 DEF SpawnFails, Ownership, MainHolds, AnswerInv
  <2>2. UNCHANGED <<handlerVars, table, peer, request, answer>>
    BY <1>5 DEF SpawnFails
  <2>3. \A c \in Clients : (Answered(c))' /\ (Told(c))'
    BY <2>2 DEF AnswerInv, Answered, Told, Serves
  <2>4. \A t \in Threads : ssl'[t] # NULL => (Progress(t, table[ssl[t]]))'
    BY <2>2 DEF AnswerInv, Progress
  <2>5. \A f \in orphans' : answer'[table'[f]] = <<>>
    BY <2>1, <2>2 DEF AnswerInv
  <2>6. \A f \in Fds : (Handled(f))'
    BY <2>1, <2>2 DEF AnswerInv, Handled
  <2> QED BY <2>1, <2>3, <2>4, <2>5, <2>6 DEF AnswerInv
<1> QED BY <1>1, <1>2, <1>3, <1>4, <1>5 DEF MainStep

\* It is enough to say what the client has then.
LEMMA BeginsAnswer ==
    ASSUME NEW c \in Clients, NEW s, answer'[c] = s, request' = request,
           \E a \in Answers(request[c]) : IsPrefix(s, a)
    PROVE  (Answered(c))'
BY DEF Answered

\* A client shakes hands, asks, connects or hangs up; who hangs up is told
\* nothing more.
LEMMA ClientKeepsAnswers ==
    ASSUME Typing, Ownership, K!ConnectionInv, AnswerInv,
           NEW c \in Clients, Hello(c) \/ ClientRequest(c) \/ ClientOther(c)
    PROVE  AnswerInv'
<1> USE Alone DEF mainVars, handlerVars, kernelVars
<1>1. CASE Hello(c)
  BY <1>1, NothingTold DEF Hello
<1>2. CASE Connect(c) \/ Send(c) \/ HangUp(c)
  <2>1. UNCHANGED <<accepted, handlerVars, orphans, table, answer>>
    BY <1>2 DEF ClientRequest, ClientOther, Connect, Send, HangUp, Hello
  <2>2. SUFFICES /\ \A d \in Clients : (Answered(d))' /\ (Told(d))'
                 /\ \A t \in Threads : ssl[t] # NULL => (Progress(t, table[ssl[t]]))'
                 /\ \A f \in Fds : (Handled(f))'
    BY <2>1 DEF AnswerInv
  <2>3. CASE Connect(c)
    <3>1. request' = request /\ peer' = [peer EXCEPT ![c] = "open"]
      BY <2>3 DEF Connect
    <3>2. answer[c] = <<>> /\ \A f \in Fds : table[f] # c
      BY <2>3 DEF Connect, K!ConnectionInv, K!Opened
    <3>3. \A d \in Clients \ {c} : peer'[d] = peer[d]
      BY <3>1 DEF Typing, TypeOK
    <3>4. \A d \in Clients : (Answered(d))' /\ (Told(d))'
      BY <2>1, <3>1, <3>2, <3>3 DEF AnswerInv, Answered, Told, Serves
    <3>5. ASSUME NEW t \in Threads, ssl[t] # NULL  PROVE (Progress(t, table[ssl[t]]))'
      <4>1. Progress(t, table[ssl[t]]) /\ table[ssl[t]] \in Clients \ {c}
        BY <3>2, <3>5 DEF AnswerInv
      <4> QED BY <2>1, <3>1, <3>3, <4>1 DEF Progress
    <3>6. \A f \in Fds : (Handled(f))'
      BY <2>1, <3>2, <3>3 DEF AnswerInv, Handled
    <3> QED BY <3>4, <3>5, <3>6
  <2>4. CASE Send(c)
    <3>1. /\ peer' = peer /\ request[c] = NULL
          /\ \A d \in Clients \ {c} : request'[d] = request[d]
      BY <2>4 DEF Send, Typing, K!Typed
    <3>2. request'[c] \in {"bad", "missing", "file", NULL}
      BY <2>4 DEF Send, Typing, K!Typed
    <3>3. answer[c] = <<>>
      BY <3>1, AnswersAre DEF AnswerInv, Answered, IsPrefix, Typing, K!Typed
    <3>4. (Answered(c))'
      BY <2>1, <3>2, <3>3, AnswersAreSequences DEF Answered
    <3>5. \A d \in Clients : (Answered(d))' /\ (Told(d))'
      BY <2>1, <3>1, <3>3, <3>4 DEF AnswerInv, Answered, Told, Serves
    <3>6. ASSUME NEW t \in Threads, ssl[t] # NULL  PROVE (Progress(t, table[ssl[t]]))'
      <4> DEFINE d == table[ssl[t]]
      <4>1. Progress(t, d) /\ d \in Clients /\ task' = task /\ sent' = sent /\ table'[ssl'[t]] = d
        BY <2>1, <3>6 DEF AnswerInv
      <4>2. CASE d # c
        BY <2>1, <3>1, <4>1, <4>2 DEF Progress
      <4>3. CASE d = c
        <5>1. task[t] \notin {"400", "open", "404", "200", "body"}
          BY <3>1, <4>1, <4>3 DEF Progress
        <5>2. task[t] = "shutdown" => peer[c] # "open"
          <6>1. Append(answer[c], "close_notify") # <<>>
            BY TwoTexts DEF Texts, Typing, K!Typed
          <6>2. Append(answer[c], "close_notify") \notin Answers(request[c])
            BY <3>1, <6>1, AnswersAre
          <6> QED BY <4>1, <4>3, <6>2 DEF Progress
        <5> QED BY <2>1, <3>1, <3>3, <4>1, <4>3, <5>1, <5>2 DEF Progress
      <4> QED BY <4>2, <4>3
    <3>7. \A f \in Fds : (Handled(f))'
      BY <2>1, <3>1 DEF AnswerInv, Handled
    <3> QED BY <3>5, <3>6, <3>7
  <2>5. CASE HangUp(c)
    <3>1. request' = request /\ \A d \in Clients : peer'[d] = "open" => peer[d] = "open"
      BY <2>5 DEF HangUp, Typing, TypeOK
    <3>2. \A d \in Clients : (Answered(d))' /\ (Told(d))'
      BY <2>1, <3>1 DEF AnswerInv, Answered, Told, Serves
    <3>3. ASSUME NEW t \in Threads, ssl[t] # NULL  PROVE (Progress(t, table[ssl[t]]))'
      <4>1. Progress(t, table[ssl[t]]) /\ table[ssl[t]] \in Clients
        BY <3>3 DEF AnswerInv
      <4> QED BY <2>1, <3>1, <4>1 DEF Progress
    <3>4. \A f \in Fds : (Handled(f))'
      BY <2>1, <3>1 DEF AnswerInv, Handled
    <3> QED BY <3>2, <3>3, <3>4
  <2> QED BY <1>2, <2>3, <2>4, <2>5
<1> QED BY <1>1, <1>2 DEF ClientRequest, ClientOther

\* A handler writes to its own client only, and goes on to the step that what
\* the client has then stands for.
LEMMA HandlerKeepsAnswers ==
    ASSUME Typing, Ownership, K!ConnectionInv, AnswerInv, NEW t \in Threads, HandlerStep(t)
    PROVE  AnswerInv'
<1> USE Alone DEF Typing, TypeOK, K!Typed, mainVars, handlerVars, kernelVars, Goto
<1>0. PICK c : c = table[ssl[t]]
  OBVIOUS
<1>1. ASSUME task[t] \notin {"none", "post"}
      PROVE  ssl[t] # NULL /\ c = Client(t) /\ c \in Clients /\ Answered(c) /\ Progress(t, c)
             /\ request[c] \in {"bad", "missing", "file", NULL}
  BY <1>0, <1>1 DEF Client, Ownership, HandlersHold, AnswerInv
<1>2. ASSUME NEW x \in Texts, Write(c, x), c \in Clients
      PROVE  /\ UNCHANGED <<table, backlog, request, eof>>
             /\ \A d \in Clients \ {c} : answer'[d] = answer[d] /\ peer'[d] = peer[d]
             /\ peer'[c] = "open" => peer[c] = "open"
             /\ answer'[c] = IF peer[c] = "open" THEN Append(answer[c], x) ELSE answer[c]
  BY <1>2 DEF Write
<1>3. CASE Read(t)
  <2>1. task[t] = "read" /\ UNCHANGED <<orphans, ssl, sent, table, request, answer, peer>>
    BY <1>3 DEF Read
  <2>2. \/ task'[t] = "shutdown" /\ peer[c] # "open"
        \/ task'[t] = "400" /\ request[c] = "bad"
        \/ task'[t] = "open" /\ request[c] \in {"missing", "file"}
    BY <1>1, <1>3, <2>1 DEF Read, Readable, ReadsData, Asked
  <2>3. (Progress(t, c))' /\ (Answered(c))'
    BY <1>1, <2>1, <2>2 DEF Progress, Answered
  <2> QED BY <1>0, <1>1, <1>3, <2>1, <2>3, Turn DEF Read
<1>4. CASE OpenFails(t)
  <2>1. task[t] = "open" /\ UNCHANGED <<orphans, ssl, sent, table, request, answer, peer>> /\ task'[t] = "404"
    BY <1>4 DEF OpenFails
  <2>2. (Progress(t, c))' /\ (Answered(c))'
    BY <1>1, <2>1 DEF Progress, Answered
  <2> QED BY <1>0, <1>1, <1>4, <2>1, <2>2, Turn DEF OpenFails
<1>5. CASE Open(t)
  <2>1. task[t] = "open" /\ UNCHANGED <<orphans, ssl, sent, request, answer, peer>> /\ task'[t] = "200"
    BY <1>5 DEF Open, OpenFile
  <2>2. \A f \in Fds : table[f] \in Clients \/ table'[f] \in Clients => table'[f] = table[f]
    BY <1>5 DEF Open, OpenFile, IsNextFd, Free
  <2>3. request[c] = "file"
    BY <1>1, <1>5, <2>1 DEF Open, Asked
  <2>4. (Progress(t, c))' /\ (Answered(c))'
    BY <1>1, <2>1, <2>3 DEF Progress, Answered
  <2> QED BY <1>0, <1>1, <1>5, <2>1, <2>2, <2>4, Turn DEF Open
<1>6. ASSUME NEW code \in {"400", "404"}, Respond(t, code, "shutdown")  PROVE AnswerInv'
  <2>1. task[t] = code /\ UNCHANGED <<orphans, ssl, sent>> /\ task'[t] = "shutdown" /\ Write(c, code)
        /\ code \in Texts /\ c \in Clients
    BY <1>1, <1>6 DEF Respond, Texts
  <2>2. answer[c] = <<>> /\ Append(<<code>>, "close_notify") \in Answers(request[c])
    <3>1. Append(<<code>>, "close_notify") = <<code, "close_notify">>
      BY TwoTexts DEF Texts
    <3> QED BY <1>1, <2>1, <3>1, AnswersAre DEF Progress
  <2>3. request' = request /\ answer'[c] = (IF peer[c] = "open" THEN <<code>> ELSE <<>>)
        /\ (peer'[c] = "open" => peer[c] = "open")
    <3>1. Append(<<>>, code) = <<code>>
      OBVIOUS
    <3> QED BY <1>2, <2>1, <2>2, <3>1
  <2>4. (Progress(t, c))'
    BY <2>1, <2>2, <2>3 DEF Progress
  <2>5. (Answered(c))'
    <3>1. IsPrefix(<<code>>, <<code, "close_notify">>) /\ <<code, "close_notify">> \in Answers(request[c])
      BY <1>1, <2>1, AnswersAre, Beginnings DEF Progress
    <3>2. \E a \in Answers(request[c]) : IsPrefix(<<>>, a)
      BY <1>1, <2>1, AnswersAreSequences
    <3>5. CASE peer[c] = "open"
      <4>1. answer'[c] = <<code>>
        BY <2>3, <3>5
      <4> QED BY <2>1, <2>3, <3>1, <4>1, BeginsAnswer
    <3>6. CASE peer[c] # "open"
      <4>1. answer'[c] = <<>>
        BY <2>2, <2>3, <3>6
      <4> QED BY <2>1, <2>3, <3>2, <4>1, BeginsAnswer
    <3> QED BY <3>5, <3>6
  <2>6. /\ UNCHANGED <<mainVars, orphans, request, table>> /\ ssl' = ssl
        /\ \A u \in Threads \ {t} : task'[u] = task[u] /\ sent'[u] = sent[u]
        /\ \A d \in Clients \ {c} : answer'[d] = answer[d] /\ peer'[d] = peer[d]
    BY <1>2, <1>6, <2>1 DEF Respond, Texts
  <2>7. Typing /\ Ownership /\ K!ConnectionInv /\ AnswerInv /\ t \in Threads /\ ssl[t] # NULL
    BY <1>1, <2>1
  <2> QED BY ONLY <1>0, <2>1, <2>4, <2>5, <2>6, <2>7, Turn
<1>7. CASE Respond(t, "200", "body")
  <2>1. task[t] = "200" /\ UNCHANGED <<orphans, ssl, sent>> /\ task'[t] = "body" /\ Write(c, "200")
        /\ c \in Clients /\ sent[t] = 0
    BY <1>1, <1>7 DEF Respond, Ownership, FilesOpen
  <2>2. answer[c] = <<>> /\ request[c] = "file"
    BY <1>1, <2>1 DEF Progress
  <2>3. /\ request' = request /\ answer'[c] = IF peer[c] = "open" THEN Body(0) ELSE <<>>
        /\ peer'[c] = "open" => peer[c] = "open"
    <3>1. Append(<<>>, "200") = <<"200">> /\ Body(0) = <<"200">>
      <4>1. Append(<<>>, "200") = <<"200">>
        OBVIOUS
      <4> QED BY ONLY <4>1, BodyGrows
    <3>2. "200" \in Texts /\ Write(c, "200") /\ c \in Clients
      BY <2>1 DEF Texts
    <3>3. /\ request' = request /\ (peer'[c] = "open" => peer[c] = "open")
          /\ answer'[c] = IF peer[c] = "open" THEN Append(answer[c], "200") ELSE answer[c]
      BY ONLY <1>2, <3>2
    <3>4. answer[c] = <<>>
      BY ONLY <2>2
    <3> QED BY ONLY <3>1, <3>3, <3>4
  <2>4. (Progress(t, c))'
    BY <2>1, <2>2, <2>3 DEF Progress, Body
  <2>5. (Answered(c))'
    <3>1. IsPrefix(Body(0), Append(Body(Chunks), "close_notify"))
      <4>1. 0 \in 0 .. Chunks
        OBVIOUS
      <4> QED BY <4>1, Beginnings
    <3>2. \E a \in Answers(request[c]) : IsPrefix(Body(0), a)
      BY <2>2, <3>1, AnswersAre
    <3>3. \E a \in Answers(request[c]) : IsPrefix(<<>>, a)
      BY <1>1, <2>1, AnswersAreSequences
    <3>5. CASE peer[c] = "open"
      <4>1. answer'[c] = Body(0)
        BY <2>3, <3>5
      <4> QED BY <2>1, <2>3, <3>2, <4>1, BeginsAnswer
    <3>6. CASE peer[c] # "open"
      <4>1. answer'[c] = <<>>
        BY <2>2, <2>3, <3>6
      <4> QED BY <2>1, <2>3, <3>3, <4>1, BeginsAnswer
    <3> QED BY <3>5, <3>6
  <2>6. /\ UNCHANGED <<mainVars, orphans, request, table>> /\ ssl' = ssl
        /\ \A u \in Threads \ {t} : task'[u] = task[u] /\ sent'[u] = sent[u]
        /\ \A d \in Clients \ {c} : answer'[d] = answer[d] /\ peer'[d] = peer[d]
    BY <1>2, <1>7, <2>1 DEF Respond, Texts
  <2>7. Typing /\ Ownership /\ K!ConnectionInv /\ AnswerInv /\ t \in Threads /\ ssl[t] # NULL
    BY <1>1, <2>1
  <2> QED BY ONLY <1>0, <2>1, <2>4, <2>5, <2>6, <2>7, Turn
<1>8. CASE SendBlock(t)
  <2>1. task[t] = "body" /\ UNCHANGED <<orphans, ssl, task>> /\ Write(c, "block") /\ c \in Clients
        /\ sent[t] \in Nat /\ sent[t] + 1 \in 0 .. Chunks /\ sent'[t] = sent[t] + 1
    BY <1>1, <1>8 DEF SendBlock
  <2>2. request[c] = "file" /\ (peer[c] = "open" => answer[c] = Body(sent[t]))
    BY <1>1, <2>1 DEF Progress, Body
  <2>3. /\ request' = request /\ answer'[c] = IF peer[c] = "open" THEN Body(sent[t] + 1) ELSE answer[c]
        /\ peer'[c] = "open" => peer[c] = "open"
    <3>1. Append(Body(sent[t]), "block") = Body(sent[t] + 1)
      BY <2>1, BodyGrows
    <3>2. "block" \in Texts
      BY DEF Texts
    <3> QED BY ONLY <1>2, <2>1, <2>2, <3>1, <3>2
  <2>4. (Progress(t, c))'
    BY <2>1, <2>2, <2>3 DEF Progress, Body
  <2>5. (Answered(c))'
    <3>1. IsPrefix(Body(sent[t] + 1), Append(Body(Chunks), "close_notify"))
      BY <2>1, Beginnings
    <3>2. \E a \in Answers(request[c]) : IsPrefix(Body(sent[t] + 1), a)
      BY <2>2, <3>1, AnswersAre
    <3>5. CASE peer[c] = "open"
      <4>1. answer'[c] = Body(sent[t] + 1)
        BY <2>3, <3>5
      <4> QED BY <2>1, <2>3, <3>2, <4>1, BeginsAnswer
    <3>6. CASE peer[c] # "open"
      <4>1. answer'[c] = answer[c]
        BY <2>2, <2>3, <3>6
      <4> QED BY <2>1, <2>3, <1>1, <4>1, BeginsAnswer DEF Answered
    <3> QED BY <3>5, <3>6
  <2> QED BY <1>0, <1>1, <1>2, <1>8, <2>1, <2>4, <2>5, Turn DEF SendBlock, Texts
<1>9. CASE CloseFile(t)
  <2>1. task[t] = "body" /\ UNCHANGED <<orphans, ssl, request, answer, peer>> /\ task'[t] = "shutdown"
        /\ sent[t] = Chunks
    BY <1>9 DEF CloseFile, Close
  <2>2. \A f \in Fds : table[f] \in Clients \/ table'[f] \in Clients => table'[f] = table[f]
    BY <1>9, <2>1 DEF CloseFile, Close, Ownership, FilesOpen
  <2>3. request[c] = "file" /\ (peer[c] = "open" => answer[c] = Body(Chunks))
    BY <1>1, <2>1 DEF Progress, Body
  <2>4. (Progress(t, c))'
    BY <2>1, <2>3, AnswersAre DEF Progress
  <2>5. (Answered(c))'
    BY <1>1, <2>1 DEF Answered
  <2>6. \A u \in Threads \ {t} : task'[u] = task[u] /\ sent'[u] = sent[u]
    BY <1>9 DEF CloseFile
  <2> QED BY <1>0, <1>1, <1>9, <2>1, <2>2, <2>4, <2>5, <2>6, Turn DEF CloseFile
<1>10. CASE Killed(t)
  BY <1>10, NothingTold DEF Killed
<1>11. CASE Shutdown(t)
  <2>1. task[t] = "shutdown" /\ UNCHANGED <<orphans, sent>> /\ Write(c, "close_notify") /\ c \in Clients
        /\ ssl'[t] = NULL
    BY <1>1, <1>11 DEF Shutdown
  <2>2. /\ request' = request
        /\ answer'[c] = IF peer[c] = "open" THEN Append(answer[c], "close_notify") ELSE answer[c]
        /\ peer'[c] = "open" => peer[c] = "open"
    BY <1>2, <2>1 DEF Texts
  <2>3. peer[c] = "open" => answer'[c] \in Answers(request[c]) /\ answer'[c] # <<>>
    <3>1. Append(answer[c], "close_notify") # <<>>
      BY <2>1, TwoTexts DEF Texts
    <3> QED BY <1>1, <2>1, <2>2, <3>1 DEF Progress
  <2>4. (Answered(c))'
    BY <1>1, <2>1, <2>2, <2>3, AnswersAreSequences DEF Answered
  <2>5. \A u \in Threads \ {t} : task'[u] = task[u] /\ ssl'[u] = ssl[u]
    BY <1>11 DEF Shutdown
  <2>6. UNCHANGED table /\ \A d \in Clients \ {c} : answer'[d] = answer[d] /\ peer'[d] = peer[d]
    BY <1>2, <2>1 DEF Texts
  <2> QED BY <1>0, <1>1, <1>11, <2>1, <2>2, <2>3, <2>4, <2>5, <2>6, Turn DEF Shutdown
<1>12. CASE PostSlot(t)
  <2>1. UNCHANGED <<accepted, ssl, sent, orphans, table, peer, request, answer>> /\ ssl[t] = NULL
        /\ \A u \in Threads \ {t} : task'[u] = task[u]
    BY <1>12 DEF PostSlot, Ownership, HandlersHold
  <2>2. ASSUME NEW u \in Threads, ssl[u] # NULL  PROVE (Progress(u, table[ssl[u]]))'
    <3>1. Progress(u, table[ssl[u]]) /\ task'[u] = task[u]
      BY <2>1, <2>2 DEF AnswerInv
    <3> QED BY <2>1, <3>1 DEF Progress
  <2> QED BY <2>1, <2>2 DEF AnswerInv, Answered, Told, Serves, Handled
<1> QED BY <1>3, <1>4, <1>5, <1>6, <1>7, <1>8, <1>9, <1>10, <1>11, <1>12 DEF HandlerStep

LEMMA AnswersKept ==
    ASSUME Typing, Ownership, K!ConnectionInv, AnswerInv, [Next]_vars
    PROVE  AnswerInv'
<1>1. ASSUME UNCHANGED vars  PROVE AnswerInv'
  BY <1>1, NothingTold DEF vars, mainVars, kernelVars
<1> QED BY <1>1, MainKeepsAnswers, HandlerKeepsAnswers, ClientKeepsAnswers DEF Next, Run

-----------------------------------------------------------------------------
(***************************************************************************)
(* The invariant holds, and says what the properties say.                  *)
(***************************************************************************)
LEMMA InitiallyIInv == Init => IInv /\ AnswerInv
<1> SUFFICES ASSUME Init  PROVE IInv /\ AnswerInv
  OBVIOUS
<1> USE DEF Init
<1>1. K!Typed /\ K!ConnectionInv
  <2>1. K!KernelInit /\ K!Distinct
    BY DEF KernelInit, K!KernelInit, K!Distinct
  <2> QED BY <2>1, K!KernelStart
<1>2. TypeOK
  BY DEF TypeOK, KernelInit
<1>3. Ownership
  BY FS_EmptySet DEF KernelInit, Ownership, MainHolds, HandlersHold, Orphaned, FilesOpen
<1>4. SlotAccounting
  <2>1. Alive = {}
    BY DEF Alive
  <2> QED BY <2>1, FS_EmptySet DEF SlotAccounting
<1>5. AnswerInv
  <2>1. \A c \in Clients : Answered(c)
    BY AnswersAreSequences DEF KernelInit, Answered
  <2>2. \A f \in Fds : table[f] \notin Clients
    BY DEF KernelInit
  <2> QED BY <2>1, <2>2 DEF KernelInit, AnswerInv, Told, Handled
<1> QED BY <1>1, <1>2, <1>3, <1>4, <1>5 DEF IInv, Typing

LEMMA Invariance == Spec => [](IInv /\ AnswerInv)
<1>1. IInv /\ AnswerInv /\ [Next]_vars => (IInv /\ AnswerInv)'
  <2> SUFFICES ASSUME IInv, AnswerInv, [Next]_vars  PROVE IInv' /\ AnswerInv'
    OBVIOUS
  <2>1. Typing' /\ Ownership' /\ SlotAccounting' /\ AnswerInv'
    BY TypingKept, OwnershipKept, SlotsKept, AnswersKept DEF IInv, Typing
  <2>2. K!ConnectionInv'
    BY IsKernelStep, K!KernelKeepsConnections DEF IInv, Typing, K!Distinct
  <2> QED BY <2>1, <2>2 DEF IInv
<1> QED BY <1>1, InitiallyIInv, PTL DEF Spec

\* No slot of the semaphore is lost or counted twice but the one of a handler
\* that could not be started, for any number of handlers and slots
\* (server.c:108, :130, :152, :176, :186).
THEOREM Slots == Spec => []SlotInv
<1>1. IInv => SlotInv
  BY DEF IInv, Typing, SlotInv
<1> QED BY <1>1, Invariance, PTL

\* Each connection has one handler, is main's, was lost with its handler, or was
\* told something if it is still there (server.c:52, :190, :195).
THEOREM Handling == Spec => []OneHandler
<1>1. IInv /\ AnswerInv => OneHandler
  <2> SUFFICES ASSUME IInv, AnswerInv  PROVE OneHandler
    OBVIOUS
  <2>1. \A t, u \in Threads : ssl[t] = ssl[u] /\ ssl[t] # NULL => t = u
    BY DEF IInv, Ownership, HandlersHold
  <2>2. \A t \in Threads : ssl[t] # NULL => ssl[t] \notin orphans \cup {accepted}
    BY Alone DEF IInv
  <2>3. ASSUME NEW c \in Clients, NEW f \in Fds, table[f] = c, f \notin orphans \cup {accepted},
               \A t \in Threads : ssl[t] # f, peer[c] = "open"
        PROVE  answer[c] # <<>>
    BY <2>3 DEF AnswerInv, Handled
  <2> QED BY <2>1, <2>2, <2>3 DEF OneHandler
<1> QED BY <1>1, Invariance, PTL

\* Each client receives the answer to its own request, from its beginning, and
\* all of it, with close_notify, once no handler has it (server.c:60 to :143).
THEOREM Answering == Spec => []RightAnswer
<1>1. IInv /\ AnswerInv => RightAnswer
  <2> SUFFICES ASSUME IInv, AnswerInv, NEW c \in Clients
               PROVE  \E a \in Answers(request[c]) :
                        /\ Len(answer[c]) <= Len(a) /\ answer[c] = SubSeq(a, 1, Len(answer[c]))
                        /\ ~(\E t \in Alive : ssl[t] # NULL /\ Client(t) = c) /\ answer[c] # <<>>
                              /\ peer[c] = "open" => answer[c] = a
    BY DEF RightAnswer
  <2>1. request[c] \in {"bad", "missing", "file", NULL}
    BY Alone DEF IInv
  <2>2. PICK a \in Answers(request[c]) : IsPrefix(answer[c], a)
    BY DEF AnswerInv, Answered
  <2>3. CASE ~(\E t \in Alive : ssl[t] # NULL /\ Client(t) = c) /\ answer[c] # <<>> /\ peer[c] = "open"
    <3>1. \A t \in Threads : ssl[t] # NULL => t \in Alive
      BY DEF IInv, Ownership, HandlersHold, Alive
    <3>2. answer[c] \in Answers(request[c])
      BY <2>3, <3>1 DEF AnswerInv, Told, Serves, Client
    <3>3. IsPrefix(answer[c], answer[c])
      BY <2>1, <3>2, AnswersAreSequences
    <3> QED BY <3>2, <3>3 DEF IsPrefix
  <2>4. CASE ~(~(\E t \in Alive : ssl[t] # NULL /\ Client(t) = c) /\ answer[c] # <<>> /\ peer[c] = "open")
    BY <2>2, <2>4 DEF IsPrefix
  <2> QED BY <2>3, <2>4
<1> QED BY <1>1, Invariance, PTL

=============================================================================

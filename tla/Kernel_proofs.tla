---------------------------- MODULE Kernel_proofs ----------------------------
(***************************************************************************)
(* What the calls of Kernel preserve, whichever server makes them: the     *)
(* proofs of the servers cite these facts.                                 *)
(***************************************************************************)
EXTENDS Kernel, TLAPS

CONSTANT Texts   \* what the server may write

\* NULL, a file and a client are told apart.
Distinct == NULL # "file" /\ NULL \notin Clients /\ "file" \notin Clients

Typed ==
    /\ table \in [Fds -> Clients \cup {"file", NULL}]
    /\ backlog \in Seq(Clients)
    /\ peer \in [Clients -> {"away", "open", "closed", "reset"}]
    /\ \A c \in Clients : request[c] \in Wants[c] \cup {NULL}
    /\ request = [c \in Clients |-> request[c]]
    /\ answer \in [Clients -> Seq(Texts)]
    /\ eof \in [Clients -> BOOLEAN]

Queued(c) == \E k \in 1 .. Len(backlog) : backlog[k] = c
Opened(c) == \E f \in Fds : table[f] = c

\* A connection has one descriptor, or one place in the listen queue and no
\* answer yet, or neither: then it has not begun, or was let go of.
ConnectionInv ==
    /\ \A f, g \in Fds : table[f] \in Clients /\ table[f] = table[g] => f = g
    /\ \A j, k \in 1 .. Len(backlog) : backlog[j] = backlog[k] => j = k
    /\ \A c \in Clients : Queued(c) => ~Opened(c)
    /\ \A c \in Clients : Queued(c) \/ peer[c] = "away" => answer[c] = <<>>
    /\ \A c \in Clients : peer[c] = "away" => ~Queued(c) /\ ~Opened(c) /\ request[c] = NULL
    /\ \A c \in Clients : eof[c] => ~Queued(c) /\ ~Opened(c) /\ peer[c] # "away"

\* The calls, with what the servers pass to them.
KernelStep ==
    \/ \E c \in Clients : ClientStep(c)
    \/ \E f \in Fds : Accept(f)
    \/ \E f \in Fds, x \in Texts : Write(table[f], x)
    \/ \E f \in Fds : OpenFile(f)
    \/ \E f \in Fds : Close(f)
    \/ UNCHANGED <<table, backlog, peer, request, answer, eof>>

\* Before anything happens there is no connection.
LEMMA KernelStart ==
    ASSUME Distinct, KernelInit
    PROVE  Typed /\ ConnectionInv
BY DEF Distinct, KernelInit, Typed, ConnectionInv, Queued, Opened

\* Every call keeps the variables in their domains.
LEMMA KernelTyped ==
    ASSUME Distinct, Typed, KernelStep
    PROVE  Typed'
<1>1. ASSUME NEW c \in Clients, Connect(c)  PROVE Typed'
  BY <1>1 DEF Typed, Connect
<1>2. ASSUME NEW c \in Clients, Send(c)  PROVE Typed'
  BY <1>2 DEF Typed, Send
<1>3. ASSUME NEW c \in Clients, HangUp(c)  PROVE Typed'
  BY <1>3 DEF Typed, HangUp
<1>4. ASSUME NEW f \in Fds, Accept(f)  PROVE Typed'
  <2>1. backlog # <<>> /\ Head(backlog) \in Clients /\ Tail(backlog) \in Seq(Clients)
    BY <1>4 DEF Typed, Accept
  <2> QED BY <1>4, <2>1 DEF Typed, Accept
<1>5. ASSUME NEW f \in Fds, NEW x \in Texts, Write(table[f], x)  PROVE Typed'
  <2>1. \A d \in Clients : Append(answer[d], x) \in Seq(Texts)
    BY DEF Typed
  <2>2. answer' \in [Clients -> Seq(Texts)]
    BY <1>5, <2>1 DEF Typed, Write
  <2>3. peer' \in [Clients -> {"away", "open", "closed", "reset"}]
    BY <1>5 DEF Typed, Write
  <2> QED BY <1>5, <2>2, <2>3 DEF Typed, Write
<1>6. ASSUME NEW f \in Fds, OpenFile(f)  PROVE Typed'
  BY <1>6 DEF Typed, OpenFile
<1>7. ASSUME NEW f \in Fds, Close(f)  PROVE Typed'
  BY <1>7 DEF Typed, Close
<1>8. ASSUME UNCHANGED <<table, backlog, peer, request, answer, eof>>  PROVE Typed'
  BY <1>8 DEF Typed
<1> QED BY <1>1, <1>2, <1>3, <1>4, <1>5, <1>6, <1>7, <1>8 DEF KernelStep, ClientStep

\* Every call keeps each connection in one place.
LEMMA KernelKeepsConnections ==
    ASSUME Distinct, Typed, ConnectionInv, KernelStep
    PROVE  ConnectionInv'
<1>1. ASSUME NEW c \in Clients, Connect(c)  PROVE ConnectionInv'
  <2>1. /\ Len(backlog') = Len(backlog) + 1 /\ Len(backlog) \in Nat
        /\ \A k \in 1 .. Len(backlog) : backlog'[k] = backlog[k]
        /\ backlog'[Len(backlog) + 1] = c
    BY <1>1 DEF Typed, Connect
  <2>2. \A d \in Clients : (Queued(d))' <=> Queued(d) \/ d = c
    BY <2>1 DEF Queued
  <2>3. ~Queued(c) /\ ~Opened(c) /\ answer[c] = <<>> /\ ~eof[c]
    BY <1>1 DEF Connect, ConnectionInv
  <2>4. \A j, k \in 1 .. Len(backlog') : backlog'[j] = backlog'[k] => j = k
    BY <2>1, <2>3 DEF ConnectionInv, Queued
  <2>5. \A d \in Clients : (Opened(d))' <=> Opened(d)
    BY <1>1 DEF Connect, Opened
  <2> QED BY <1>1, <2>2, <2>3, <2>4, <2>5 DEF Typed, Connect, ConnectionInv
<1>2. ASSUME NEW c \in Clients, Send(c)  PROVE ConnectionInv'
  BY <1>2 DEF Typed, Send, ConnectionInv, Queued, Opened
<1>3. ASSUME NEW c \in Clients, HangUp(c)  PROVE ConnectionInv'
  BY <1>3 DEF Typed, HangUp, ConnectionInv, Queued, Opened
<1>4. ASSUME NEW f \in Fds, Accept(f)  PROVE ConnectionInv'
  <2> DEFINE c == Head(backlog)
  <2>1. /\ Len(backlog) \in Nat /\ Len(backlog) > 0 /\ c = backlog[1] /\ c \in Clients
        /\ Len(backlog') = Len(backlog) - 1
        /\ \A k \in 1 .. Len(backlog) - 1 : backlog'[k] = backlog[k + 1]
    BY <1>4 DEF Typed, Accept
  <2>2. \A d \in Clients : (Queued(d))' <=> Queued(d) /\ d # c
    <3>1. ASSUME NEW d \in Clients, (Queued(d))'  PROVE Queued(d) /\ d # c
      BY <2>1, <3>1 DEF Queued, ConnectionInv
    <3>2. ASSUME NEW d \in Clients, Queued(d), d # c  PROVE (Queued(d))'
      <4>1. PICK k \in 1 .. Len(backlog) : backlog[k] = d
        BY <3>2 DEF Queued
      <4>2. k - 1 \in 1 .. Len(backlog) - 1 /\ backlog'[k - 1] = d
        BY <2>1, <3>2, <4>1
      <4> QED BY <2>1, <4>2 DEF Queued
    <3> QED BY <3>1, <3>2
  <2>3. table' = [table EXCEPT ![f] = c] /\ table[f] = NULL
    BY <1>4 DEF Accept, IsNextFd, Free
  <2>4. Queued(c) /\ ~Opened(c) /\ peer[c] # "away" /\ ~eof[c]
    BY <2>1 DEF ConnectionInv, Queued
  <2>5. \A d \in Clients : (Opened(d))' <=> Opened(d) \/ d = c
    BY <2>1, <2>3 DEF Typed, Opened, Distinct
  <2>6. \A g, h \in Fds : table'[g] \in Clients /\ table'[g] = table'[h] => g = h
    BY <2>3, <2>4 DEF Typed, ConnectionInv, Opened
  <2>7. \A j, k \in 1 .. Len(backlog') : backlog'[j] = backlog'[k] => j = k
    BY <2>1 DEF ConnectionInv
  <2> QED BY <1>4, <2>2, <2>4, <2>5, <2>6, <2>7 DEF Accept, ConnectionInv
<1>5. ASSUME NEW f \in Fds, NEW x \in Texts, Write(table[f], x)  PROVE ConnectionInv'
  <2>1. \A d \in Clients : /\ (Queued(d))' <=> Queued(d)
                           /\ (Opened(d))' <=> Opened(d)
                           /\ peer'[d] = "away" <=> peer[d] = "away"
    BY <1>5 DEF Typed, Write, Queued, Opened
  <2>2. \A d \in Clients : ~Opened(d) => answer'[d] = answer[d]
    BY <1>5 DEF Typed, Write, Opened
  <2> QED BY <1>5, <2>1, <2>2 DEF Write, ConnectionInv
<1>6. ASSUME NEW f \in Fds, OpenFile(f)  PROVE ConnectionInv'
  <2>1. \A d \in Clients : /\ (Queued(d))' <=> Queued(d)
                           /\ (Opened(d))' <=> Opened(d)
    BY <1>6 DEF Typed, OpenFile, IsNextFd, Free, Queued, Opened, Distinct
  <2> QED BY <1>6, <2>1 DEF Typed, OpenFile, ConnectionInv, Distinct
<1>7. ASSUME NEW f \in Fds, Close(f)  PROVE ConnectionInv'
  <2>1. \A d \in Clients : /\ (Queued(d))' <=> Queued(d)
                           /\ (Opened(d))' <=> Opened(d) /\ table[f] # d
    BY <1>7 DEF Typed, Close, Queued, Opened, ConnectionInv, Distinct
  <2>2. \A d \in Clients : table[f] = d => Opened(d)
    BY DEF Opened
  <2> QED BY <1>7, <2>1, <2>2 DEF Typed, Close, ConnectionInv, Distinct
<1>8. ASSUME UNCHANGED <<table, backlog, peer, request, answer, eof>>  PROVE ConnectionInv'
  BY <1>8 DEF ConnectionInv, Queued, Opened
<1> QED BY <1>1, <1>2, <1>3, <1>4, <1>5, <1>6, <1>7, <1>8 DEF KernelStep, ClientStep
=============================================================================

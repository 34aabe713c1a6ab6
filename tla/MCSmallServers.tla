--------------------------- MODULE MCSmallServers ---------------------------
(* One run for the servers that have one thread and for the client of the  *)
(* database: a behaviour is one of the pairs of a server and its clients,  *)
(* from their start.                                                       *)
EXTENDS ForkServers, Upload, StudentDatabase

VARIABLE servers        \* "fork", "upload" or "database"

vars == <<servers, forkVars, uploadVars, dbVars>>

Init ==
    /\ servers \in {"fork", "upload", "database"}
    /\ ForkInit /\ (servers # "fork" => daemon = "echo")
    /\ UploadInit /\ (servers # "upload" => ~shared /\ length = 0)
    /\ DbInit /\ (servers # "database" => student = {})

InFork(A)   == servers = "fork" /\ A /\ UNCHANGED <<servers, uploadVars, dbVars>>
InUpload(A) == servers = "upload" /\ A /\ UNCHANGED <<servers, forkVars, dbVars>>
InDb(A)     == servers = "database" /\ A /\ UNCHANGED <<servers, forkVars, uploadVars>>

Next == InFork(ForkNext) \/ InUpload(UploadNext) \/ InDb(DbNext)

\* Each process goes on while it can, and a user sends or leaves in the end.
Fairness ==
    /\ WF_vars(InFork(ServerStep)) /\ \A c \in Clients : WF_vars(InFork(UserStep(c)))
    /\ WF_vars(InUpload(SenderStep)) /\ WF_vars(InUpload(ReceiverStep))
    /\ WF_vars(InDb(DbStep))

Spec == Init /\ [][Next]_vars /\ Fairness
-----------------------------------------------------------------------------
\* One child at a time and no descriptor left, every client answered once; no
\* byte of an upload lost; and nothing of the database's library kept.
ServersInv == ForkInv /\ Answered /\ UploadInv /\ DatabaseInv

\* Nobody waits for ever, and an upload and the listings of the database end.
ServersEnd ==
    /\ EveryWaitEnds /\ (servers = "upload" => UploadEnds)
    /\ servers = "database" => <>(ending # "none")
=============================================================================

------------------------------- MODULE Upload -------------------------------
(***************************************************************************)
(* network_programming/UploadFile: a client sends its file.txt to a server *)
(* that writes it to its own file.txt: the same file if both run in one    *)
(* directory.  Bytes are counted; the connection keeps their order.        *)
(***************************************************************************)
EXTENDS Integers, FiniteSets

CONSTANTS FileSizes,
          CHUNK         \* 256

ASSUME UploadAssumption == FileSizes \subseteq Nat /\ CHUNK \in Nat \ {0}

VARIABLES
    shared,             \* both run in one directory
    truncated,          \* the server has opened the client's file for writing
    length,             \* of the client's file when it is opened
    remaining, read,    \* size in send_file, and the position in the file
    sender,             \* "connect", "open", "send", "closed", "killed", "refused"
    wire,               \* bytes on the way
    stored,             \* totalBytes, the bytes the server has written
    receiver            \* "accept", "receive", "closed", "failed"

senderVars   == <<remaining, read, sender>>
receiverVars == <<stored, receiver>>
fileVars     == <<shared, truncated, length>>
uploadVars   == <<fileVars, senderVars, wire, receiverVars>>

UploadInit ==
    /\ shared \in BOOLEAN /\ truncated = FALSE
    /\ length \in FileSizes /\ remaining = 0 /\ read = 0 /\ sender = "connect" /\ wire = 0
    /\ stored = 0 /\ receiver = "accept"

min(a, b) == IF a < b THEN a ELSE b

\* A server that is gone refuses the connection, and main exits.
UploadConnect ==
    /\ sender = "connect" /\ sender' = IF receiver = "failed" THEN "refused" ELSE "open"
    /\ UNCHANGED <<fileVars, remaining, read, wire, receiverVars>>

\* send_file up to its loop
SendCall ==
    /\ sender = "open" /\ sender' = "send" /\ remaining' = length
    /\ UNCHANGED <<fileVars, read, wire, receiverVars>>

\* What fread may return: in a truncated file, what is left in the stream's buffer.
Freads == LET most == min(CHUNK, length - read) IN IF truncated THEN 0 .. most ELSE {most}

\* Mutant: the loop ends with the last byte read, before it is written.
SendTurnEarly ==
    /\ sender = "send"
    /\ \E nread \in Freads :
           /\ remaining' = remaining - nread /\ read' = read + nread
           /\ IF nread > 0 /\ remaining' # 0 THEN wire' = wire + nread /\ UNCHANGED sender
                                        ELSE sender' = "closed" /\ UNCHANGED wire
    /\ UNCHANGED <<fileVars, receiverVars>>

\* A turn of the loop, which does not look at what write returns: once the server is
\* gone the bytes are.  The end of the program closes the connection.
SendTurn ==
    /\ sender = "send"
    /\ \E nread \in Freads :
           /\ remaining' = remaining - nread /\ read' = read + nread
           /\ IF nread > 0 \/ remaining' # 0
                 THEN /\ wire' = IF receiver = "failed" THEN wire ELSE wire + nread
                      /\ UNCHANGED sender
                 ELSE sender' = "closed" /\ UNCHANGED wire
    /\ UNCHANGED <<fileVars, receiverVars>>

\* The client is killed in the middle, by the SIGPIPE of a write to a server that is
\* gone too: what is on the way arrives, or the connection is reset and it does not.
Killed ==
    /\ sender = "send" /\ sender' = "killed" /\ wire' \in {0, wire}
    /\ UNCHANGED <<fileVars, remaining, read, receiverVars>>

\* main of the server up to the loop of write_file: fopen empties the file.
UploadAccept ==
    /\ receiver = "accept" /\ sender # "connect" /\ receiver' = "receive"
    /\ truncated' = shared
    /\ length' = IF shared /\ sender = "open" THEN 0 ELSE length
    /\ UNCHANGED <<shared, senderVars, wire, stored>>

\* accept fails, or fopen does and the assertion ends the server, which has emptied
\* nothing then: it is gone, and what was on the way with it.
UploadFails ==
    /\ receiver = "accept" /\ receiver' = "failed" /\ wire' = 0
    /\ UNCHANGED <<fileVars, senderVars, stored>>

\* A turn of the loop: read returns what is there, at most CHUNK bytes.
ReceiveTurn ==
    /\ receiver = "receive"
    /\ \E n \in 1 .. min(CHUNK, wire) :
          wire' = wire - n /\ stored' = stored + n
    /\ UNCHANGED <<fileVars, senderVars, receiver>>

\* read returns 0, or -1 after a reset: as a size_t that is greater than 0, but it
\* is compared with -1 too.
ReceiveEnd ==
    /\ receiver = "receive" /\ wire = 0 /\ sender \in {"closed", "killed"}
    /\ receiver' = "closed"
    /\ UNCHANGED <<fileVars, senderVars, wire, stored>>

SenderStep   == UploadConnect \/ SendCall \/ SendTurn
ReceiverStep == UploadAccept \/ UploadFails \/ ReceiveTurn \/ ReceiveEnd

UploadNext == SenderStep \/ Killed \/ ReceiverStep

-----------------------------------------------------------------------------
\* No byte is lost between the two loops, whatever the pieces it arrives in: what is
\* left to send, on the way and stored is the file, unless the server failed before
\* its loop.  A server that has closed
\* its file has all of it, or the client did not reach the end of its loop.
UploadInv ==
    /\ stored + wire <= read /\ read <= length
    /\ sender \in {"send", "closed"} /\ receiver # "failed" => remaining + wire + stored = length
    /\ receiver = "closed" /\ sender = "closed" => stored = length

\* Both programs end, with a file of any length, the empty one too (client.c:65), and
\* with a server that fails; but not if the server has emptied the file that the client
\* still reads: then size stays above 0, and the client writes nothing for ever.
UploadEnds ==
    <>(/\ receiver \in {"closed", "failed"}
       /\ sender \in {"closed", "killed", "refused"}) \/ <>truncated
=============================================================================

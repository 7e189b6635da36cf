---------------------------- MODULE VitalStream ----------------------------
(***************************************************************************)
(* What the vital chunks of a connection promise to the code above         *)
(* CNetServer::Recv and CNetClient::Recv: each end numbers the vital       *)
(* chunks it queues 1, 2, 3, ..., and the other end is handed exactly      *)
(* these, in this order, without a gap and without a repetition, up to     *)
(* some point of the sequence.                                             *)
(*                                                                         *)
(* The server's stream from a legacy client begins later: the server makes *)
(* its connection in the middle of the client's stream and takes the first *)
(* chunk that arrives for the beginning.  Its own first messages are sent  *)
(* before it has a connection.                                             *)
(*                                                                         *)
(* The promise is given up for a direction once its sender has queued a    *)
(* chunk it kept no copy of (QueueChunkEx: "out of buffer, don't save the  *)
(* packet and hope nobody will ask for resend"): lossy[e].                 *)
(***************************************************************************)
EXTENDS Naturals

CONSTANTS Client, Server        \* the two ends of the connection

Ends == {Client, Server}
Peer(e) == IF e = Client THEN Server ELSE Client

VARIABLES
    legacy,     \* the client does not know the handshake with a token
    sent,       \* sent[e]: vital chunks end e has queued so far
    first,      \* first[e]: number of the chunk with which e's stream begins
    received,   \* received[e]: how many chunks were handed to e's application
    latest,     \* latest[e]: number of the chunk handed to e's application last
    lossy       \* lossy[e]: e queued a vital chunk without keeping a copy

streamVars == <<legacy, sent, first, received, latest, lossy>>

Init ==
    /\ legacy \in BOOLEAN
    /\ sent \in [Ends -> Nat] /\ sent[Client] = 0 /\ (legacy \/ sent[Server] = 0)
    /\ first = [e \in Ends |-> 1]
    /\ received = [e \in Ends |-> 0]
    /\ latest = [e \in Ends |-> 0]
    /\ lossy = [e \in Ends |-> FALSE]

Queue(e) ==
    /\ sent' = [sent EXCEPT ![e] = @ + 1]
    /\ UNCHANGED <<legacy, first, received, latest>>
    /\ \/ UNCHANGED lossy
       \/ lossy' = [lossy EXCEPT ![e] = TRUE]

\* The server is handed a chunk of a legacy client, the first one it takes.
Begin(e) ==
    /\ legacy /\ e = Server /\ received[e] = 0
    /\ \E n \in 1 .. sent[Peer(e)] :
        /\ first' = [first EXCEPT ![e] = n]
        /\ latest' = [latest EXCEPT ![e] = n]
    /\ received' = [received EXCEPT ![e] = 1]
    /\ UNCHANGED <<legacy, sent, lossy>>

\* The next chunk in the sender's order, or, from a lossy sender, any it sent.
HandOver(e) ==
    /\ legacy /\ e = Server => received[e] > 0
    /\ \E n \in 1 .. sent[Peer(e)] :
        /\ n = first[e] + received[e] \/ lossy[Peer(e)]
        /\ latest' = [latest EXCEPT ![e] = n]
    /\ received' = [received EXCEPT ![e] = @ + 1]
    /\ UNCHANGED <<legacy, sent, first, lossy>>

Next == \E e \in Ends : Queue(e) \/ Begin(e) \/ HandOver(e)

Spec == Init /\ [][Next]_streamVars
=============================================================================

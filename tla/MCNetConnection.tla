-------------------------- MODULE MCNetConnection --------------------------
(* Instances of NetConnection small enough for TLC. *)
EXTENDS NetConnection

CONSTANTS
    ClientSends, ServerSends,               \* bounds: vital chunks each end queues
    LegacyClientSends, LegacyServerSends    \* the same with a legacy client

MCMaxSent ==
    [l \in BOOLEAN |-> [e \in Ends |->
        IF e = Client THEN IF l THEN LegacyClientSends ELSE ClientSends
                      ELSE IF l THEN LegacyServerSends ELSE ServerSends]]

\* Broken is never left again and Delivered then holds: what follows a broken
\* connection needs no exploring in the liveness run.
Unbroken == ~Broken
=============================================================================

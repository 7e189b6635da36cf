---------------------------- MODULE MasterServer ----------------------------
(***************************************************************************)
(* The master server's table of game servers (mastersrv/src/main.rs): an   *)
(* address belongs to the game server that registered it last, a game      *)
(* server is known by its secret and by the information it sent, under a   *)
(* serial number.  An information's content is the number of the one it    *)
(* was made for.                                                           *)
(*                                                                         *)
(* Bans, exemptions and the dumps of other master servers are left out.    *)
(***************************************************************************)
EXTENDS Integers

CONSTANTS Addrs, Secrets, NoSecret, NoServer, NoInfo

Server == [addresses : SUBSET Addrs, serial : Nat, info : Nat]

ASSUME MasterAssumption ==
    /\ NoSecret \notin Secrets
    /\ NoServer \notin Server
    /\ NoInfo \notin Nat

VARIABLES
    addresses,  \* address -> the secret it is registered with, or NoSecret
    servers,    \* secret -> NoServer, or its addresses and its information
    seed        \* Challenger::seed, numbered: the one before is seed - 1

masterVars == <<addresses, servers, seed>>

NoToken == 0
MasterInit ==
    /\ addresses = [a \in Addrs |-> NoSecret]
    /\ servers = [s \in Secrets |-> NoServer]
    /\ seed = NoToken + 2

-----------------------------------------------------------------------------
(* Servers::add, remove and prune_before.                                  *)

NeedInfo(secret, serial) ==
    servers[secret] = NoServer \/ serial > servers[secret].serial

\* A server leaves with its last address.
Without(server, a) ==
    IF server.addresses \subseteq {a} THEN NoServer
    ELSE [server EXCEPT !.addresses = @ \ {a}]

Released(a) ==
    IF addresses[a] = NoSecret THEN servers
    ELSE [servers EXCEPT ![addresses[a]] = Without(@, a)]

Entry(old, a, serial, info) ==
    IF old = NoServer THEN [addresses |-> {a}, serial |-> serial, info |-> info]
    ELSE [addresses |-> old.addresses \cup {a},
          serial |-> IF serial > old.serial THEN serial ELSE old.serial,
          info |-> IF serial > old.serial THEN info ELSE old.info]

\* Bug: the server that had the address before keeps it in its list.
AddOver(a, secret, serial, info) ==
    /\ addresses' = [addresses EXCEPT ![a] = secret]
    /\ servers' = [servers EXCEPT ![secret] = Entry(@, a, serial, info)]

Add(a, secret, serial, info) ==
    LET left == IF addresses[a] = secret THEN servers ELSE Released(a)
    IN  /\ addresses' = [addresses EXCEPT ![a] = secret]
        /\ servers' = [left EXCEPT ![secret] = Entry(@, a, serial, info)]

RemoveAddr(a) ==
    /\ addresses' = [addresses EXCEPT ![a] = NoSecret]
    /\ servers' = Released(a)

-----------------------------------------------------------------------------
(* The requests.                                                           *)

\* handle_register: the answer to the request.
Answer(token, secret, serial, info) ==
    IF token \notin {seed - 1, seed} THEN "NEEDCHALLENGE"
    ELSE IF NeedInfo(secret, serial) /\ info = NoInfo THEN "NEEDINFO"
    ELSE "OK"

\* handle_register: what it does to the table.
HandleRegister(a, token, secret, serial, info) ==
    /\ IF Answer(token, secret, serial, info) = "OK"
       THEN Add(a, secret, serial, info)
       ELSE UNCHANGED <<addresses, servers>>
    /\ UNCHANGED seed

\* handle_delete
HandleDelete(a, secret) ==
    /\ IF addresses[a] = secret THEN RemoveAddr(a)
       ELSE UNCHANGED <<addresses, servers>>
    /\ UNCHANGED seed

\* prune_before, of handle_periodic_writeout.
Prune(a) ==
    /\ addresses[a] # NoSecret
    /\ RemoveAddr(a)
    /\ UNCHANGED seed

\* handle_periodic_reseed
Reseed ==
    /\ seed' = seed + 1
    /\ UNCHANGED <<addresses, servers>>

\* The process starts again, with the dump of the one before or without.
RestartMaster ==
    /\ seed' = seed + 2
    /\ \/ UNCHANGED <<addresses, servers>>
       \/ /\ addresses' = [a \in Addrs |-> NoSecret]
          /\ servers' = [s \in Secrets |-> NoServer]

-----------------------------------------------------------------------------
\* The two tables agree: no unwrap and no assert of Servers fails, an address
\* is listed exactly with the server it is registered for, and a server without
\* an address is gone.
TablesAgree ==
    /\ \A a \in Addrs : addresses[a] # NoSecret =>
         servers[addresses[a]] # NoServer
    /\ \A s \in Secrets : servers[s] # NoServer =>
         /\ servers[s].addresses # {}
         /\ servers[s].addresses = {a \in Addrs : addresses[a] = s}
=============================================================================

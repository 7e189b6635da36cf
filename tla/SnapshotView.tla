---------------------------- MODULE SnapshotView ----------------------------
(***************************************************************************)
(* What a player sees of the game, told without packets, deltas and        *)
(* acknowledgements: nothing while a map is entered, and then a pair of    *)
(* moments of one map of the server, the later of which the client moves   *)
(* to and interpolates from the earlier.  It never shows a moment that has *)
(* not happened on the server, and never steps back.                       *)
(***************************************************************************)
EXTENDS Integers

VARIABLES
    world,      \* the server's present moment
    view        \* <<>>, or the pair of moments shown

Moment == [map : Nat, tick : Nat]

Before(a, b) == a.map = b.map /\ a.tick < b.tick
Happened(a, now) == a.map < now.map \/ (a.map = now.map /\ a.tick <= now.tick)

Picture(p) ==
    /\ p \in Moment \X Moment
    /\ Before(p[1], p[2]) /\ Happened(p[2], world)

Init == view = <<>> /\ world \in Moment

\* The game goes on, or starts again on another map.
Proceed ==
    /\ world' \in Moment
    /\ Happened(world, world')
    /\ UNCHANGED view

\* The first two moments arrived.
Open ==
    /\ view = <<>>
    /\ Picture(view')
    /\ UNCHANGED world

\* The next one did: what was moved to is interpolated from now.
Advance ==
    /\ view # <<>>
    /\ Picture(view')
    /\ view'[1] = view[2]
    /\ UNCHANGED world

\* Another map is entered.
Leave == view' = <<>> /\ UNCHANGED world

Next == Proceed \/ Open \/ Advance \/ Leave

Spec == Init /\ [][Next]_<<world, view>>
=============================================================================

----------------------------- MODULE SeatTable -----------------------------
(***************************************************************************)
(* What the server promises about its slots, told without packets: a slot  *)
(* is free, held by an address, or kept for an address that is gone.  An   *)
(* address holds at most one slot, and it gets a kept slot only by giving  *)
(* back the one it holds.                                                  *)
(***************************************************************************)
CONSTANTS Slots, Addrs, NoAddr

VARIABLES holder,   \* slot -> the address it is held by or kept for
          kept      \* the slots whose address is gone

seats == <<holder, kept>>

Free == {s \in Slots : holder[s] = NoAddr}
Held == Slots \ (Free \cup kept)

Init == holder = [s \in Slots |-> NoAddr] /\ kept = {}

\* An address that holds no slot gets a free one.
Take(s, a) ==
    /\ s \in Free
    /\ \A t \in Held : holder[t] # a
    /\ holder' = [holder EXCEPT ![s] = a]
    /\ UNCHANGED kept

\* The addresses of the slots gone leave, the slots freed are given up.
Leave(gone, freed) ==
    /\ gone \subseteq Held
    /\ freed \subseteq Held \cup kept
    /\ holder' = [s \in Slots |-> IF s \in freed THEN NoAddr ELSE holder[s]]
    /\ kept' = (kept \cup gone) \ freed

\* The address that holds slot s moves to the kept slot t.
Reclaim(t, s) ==
    /\ t \in kept
    /\ s \in Held
    /\ holder' = [holder EXCEPT ![t] = holder[s], ![s] = NoAddr]
    /\ kept' = kept \ {t}

Next == \/ \E s \in Slots, a \in Addrs : Take(s, a)
        \/ \E gone, freed \in SUBSET Slots : Leave(gone, freed)
        \/ \E t, s \in Slots : Reclaim(t, s)

Spec == Init /\ [][Next]_seats
============================================================================

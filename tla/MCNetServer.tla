---------------------------- MODULE MCNetServer ----------------------------
(* Addresses for the model checker: two of one computer, one of another.   *)
EXTENDS NetServer

CONSTANTS a1, a2, b1

Pair == {a1, b1}
Three == {a1, a2, b1}
HomeOf == [a \in {a1, a2, b1, NoAddr} |->
              CASE a \in {a1, a2} -> "a" [] a = b1 -> "b" [] OTHER -> "none"]
============================================================================

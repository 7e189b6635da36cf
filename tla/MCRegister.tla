----------------------------- MODULE MCRegister -----------------------------
(* An instance of Register small enough for TLC. *)
EXTENDS Register

MCSecrets == 1 .. MaxEvents + 1
=============================================================================

------------------------------- MODULE MCPool -------------------------------
(* Pool on the code's own pool of three connections.                       *)
EXTENDS Pool, TLC

Slots == Permutations(Conn)
=============================================================================

----------------------------- MODULE MCPoolFlow -----------------------------
(* PoolFlow with one TCP flow and, in the first run, datagrams beside it.  *)
EXTENDS PoolFlow
=============================================================================

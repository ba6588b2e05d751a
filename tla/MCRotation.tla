----------------------------- MODULE MCRotation -----------------------------
(* Rotation, with limits of a few units and a pool of two or three.        *)
EXTENDS Rotation
=============================================================================

----------------------------- MODULE MCBootstrap -----------------------------
(* A small instance of Bootstrap (Bootstrap.cfg).                           *)
EXTENDS Bootstrap

CONSTANTS i1, i2, c1, c2
=============================================================================

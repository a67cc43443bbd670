---------------------------- MODULE MCThreadPool ----------------------------
(* Finite instances of ThreadPool for TLC. *)
EXTENDS ThreadPool, TLC
=============================================================================

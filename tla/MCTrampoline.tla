---------------------------- MODULE MCTrampoline ----------------------------
(* An instance of Trampoline for TLC: two other threads.                   *)
EXTENDS Trampoline

CONSTANTS t1, t2
MCThreads == {t1, t2}
=============================================================================

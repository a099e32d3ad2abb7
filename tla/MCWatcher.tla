----------------------------- MODULE MCWatcher -----------------------------
(* Instances of Watcher for TLC: d1 is an ordinary deposit, f1 goes to an
   unknown address, and core-api refuses z1. *)
EXTENDS Watcher

CONSTANTS d1, f1, z1
=============================================================================

------------------------------ MODULE MCJorgOS ------------------------------
(* A small kernel for TLC: see the README for the bounds.                  *)
EXTENDS JorgOS
CONSTANTS s1, m1, m2   \* one semaphore, two mutexes
=============================================================================

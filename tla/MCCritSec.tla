------------------------------ MODULE MCCritSec ------------------------------
(* Critical sections of two threads and the tick handler.                  *)
EXTENDS CritSec

CONSTANTS t1, t2
=============================================================================

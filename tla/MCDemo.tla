------------------------------- MODULE MCDemo -------------------------------
(* main.c as it is: the numbers of the demo are in module Demo.            *)
EXTENDS Demo
=============================================================================

--------------------------- MODULE MCContextSwitch ---------------------------
(* Two threads whose stacks start at an even and at an odd word.  The first  *)
(* frame leaves a stack room for three or two words more.                    *)
EXTENDS ContextSwitch

CONSTANTS t1, t2

MCStack ==
    [p \in {main, t1, t2} |-> CASE p = t1   -> 8
                                [] p = t2   -> 29
                                [] p = main -> 50]
MCStackSize ==
    [p \in {main, t1, t2} |-> CASE p = t1   -> 20
                                [] p = t2   -> 20
                                [] p = main -> 20]
=============================================================================

----------------------------- MODULE BoundedFifo -----------------------------
(***************************************************************************)
(* What the event queue of an event-queue thread promises: events leave in *)
(* the order in which they came, none is lost, repeated or changed, and at *)
(* most Size of them wait.  The system may halt, and then restarts.        *)
(***************************************************************************)
EXTENDS Naturals, Sequences

CONSTANTS
    Event,    \* the events
    Size,     \* how many events may wait
    NoEvent   \* what was taken before any event was

VARIABLES
    queue,    \* the events that wait, the oldest first
    taken,    \* the event that was taken last
    halted    \* an assertion has failed

vars == <<queue, taken, halted>>

Init == queue = <<>> /\ taken = NoEvent /\ halted = FALSE

Put(e) ==
    /\ ~halted /\ Len(queue) < Size
    /\ queue' = Append(queue, e)
    /\ UNCHANGED <<taken, halted>>

Get ==
    /\ ~halted /\ queue # <<>>
    /\ taken' = Head(queue)
    /\ queue' = Tail(queue)
    /\ UNCHANGED halted

\* Misuse of the queue, or a failure elsewhere.
Halt ==
    /\ ~halted
    /\ halted' = TRUE
    /\ UNCHANGED <<queue, taken>>

Restart ==
    /\ halted
    /\ queue' = <<>> /\ taken' = NoEvent /\ halted' = FALSE

Next == (\E e \in Event : Put(e)) \/ Get \/ Halt \/ Restart

Spec == Init /\ [][Next]_vars
=============================================================================

----------------------------- MODULE EventQueue -----------------------------
(***************************************************************************)
(* The circular buffer behind an event-queue thread, src/jorgOS/jEvent.c.  *)
(* Its callers hold the critical section, so each operation is one step.   *)
(* Pointers into the buffer are indices.                                   *)
(***************************************************************************)
EXTENDS Integers

CONSTANTS
    Event,    \* the events that are posted
    size,     \* the number of places in the buffer
    NoEvent   \* stands for the event a caller of get has before the first one

ASSUME EventQueueAssumption ==
    /\ size \in 1 .. 255              \* uint8_t, and size > 0
    /\ NoEvent \notin Event

VARIABLES
    buffer,   \* the events in the places
    head,     \* the place of the oldest event
    tail,     \* the place the next event goes to
    capacity, \* the number of free places
    taken,    \* the event that J_EventQueue_get returned last
    fault     \* the assertion that failed

vars == <<buffer, head, tail, capacity, taken, fault>>

start  == 0
end    == size - 1
Places == start .. end

-----------------------------------------------------------------------------

\* J_EventQueue_init leaves the events in the buffer as they are.
J_EventQueue_init ==
    /\ buffer \in [Places -> Event]
    /\ head = start /\ tail = start /\ capacity = size
    /\ taken = NoEvent
    /\ fault = "none"

PointersInside(h, t) == h \in Places /\ t \in Places

Fail(name) ==
    /\ fault' = name
    /\ UNCHANGED <<buffer, head, tail, capacity, taken>>

\* (Faulty: one place too far before it starts over.)
Advance_too_far(p) == IF p > end THEN start ELSE p + 1

\* A pointer moves to the next place, or back to the start of the buffer.
Advance(p) == IF p + 1 > end THEN start ELSE p + 1

\* (Faulty: accepts an event when there is no place for it.)
J_EventQueue_put_unchecked(e) ==
    /\ fault = "none"
    /\ buffer' = [buffer EXCEPT ![tail] = e]
    /\ tail' = Advance(tail)
    /\ capacity' = (capacity - 1) % 256
    /\ fault' = "none"
    /\ UNCHANGED <<head, taken>>

J_EventQueue_put(e) ==
    /\ fault = "none"
    /\ \/ capacity = 0 /\ Fail("queue full")
       \/ capacity > 0 /\ ~PointersInside(head, tail) /\ Fail("pointer")
       \/ /\ capacity > 0 /\ PointersInside(head, tail)
          /\ buffer' = [buffer EXCEPT ![tail] = e]
          /\ tail' = Advance(tail)
          /\ capacity' = capacity - 1
          /\ fault' = IF PointersInside(head, tail') /\ capacity' <= size
                      THEN "none" ELSE "pointer"
          /\ UNCHANGED <<head, taken>>

\* (Faulty: returns the event after the oldest one.)
J_EventQueue_get_next ==
    /\ fault = "none" /\ capacity < size
    /\ taken' = buffer[Advance(head)]
    /\ head' = Advance(head)
    /\ capacity' = capacity + 1
    /\ UNCHANGED <<buffer, tail, fault>>

J_EventQueue_get ==
    /\ fault = "none"
    /\ \/ capacity >= size /\ Fail("queue empty")
       \/ capacity < size /\ ~PointersInside(head, tail) /\ Fail("pointer")
       \/ /\ capacity < size /\ PointersInside(head, tail)
          /\ taken' = buffer[head]
          /\ head' = Advance(head)
          /\ capacity' = capacity + 1
          /\ fault' = IF head' \in Places /\ capacity' <= size
                      THEN "none" ELSE "pointer"
          /\ UNCHANGED <<buffer, tail>>

\* The program fails an assertion that is none of the queue's.
FailsElsewhere == fault = "none" /\ Fail("elsewhere")

\* The reset: main() initialises the queue again.  Memory keeps the events.
Reset ==
    /\ fault # "none"
    /\ head' = start /\ tail' = start /\ capacity' = size
    /\ taken' = NoEvent
    /\ fault' = "none"
    /\ UNCHANGED buffer

Next ==
    \/ \E e \in Event : J_EventQueue_put(e)
    \/ J_EventQueue_get
    \/ FailsElsewhere
    \/ Reset

Spec == J_EventQueue_init /\ [][Next]_vars

-----------------------------------------------------------------------------

\* The counters keep their range, so uint8_t does not wrap.
TypeOK ==
    /\ buffer \in [Places -> Event]
    /\ head \in Places /\ tail \in Places
    /\ capacity \in 0 .. size
    /\ taken \in Event \cup {NoEvent}
    /\ fault \in {"none", "queue full", "queue empty", "pointer",
                 "elsewhere"}

\* The assertions on the pointers and the ENSUREs never fail: only a put into
\* a full queue and a get from an empty one do.
OnlyMisuseFails == fault # "pointer"

\* The place i places after p.
After(p, i) == IF p + i > end THEN p + i - size ELSE p + i

\* The events that wait, the oldest first.
Contents == [i \in 1 .. (size - capacity) |-> buffer[After(head, i - 1)]]

Fifo == INSTANCE BoundedFifo
        WITH Size <- size, queue <- Contents, halted <- fault # "none"

\* The buffer implements the bounded queue: it loses, repeats, reorders and
\* changes no event, also where the pointers start over.
ImplementsFifo == Fifo!Spec
=============================================================================

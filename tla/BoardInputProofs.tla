-------------------------- MODULE BoardInputProofs --------------------------
(***************************************************************************)
(* Theorems about the circular buffer of module EventQueue, for any        *)
(* callers, and about the inputs of the board in module BoardInput, which  *)
(* use it.                                                                 *)
(***************************************************************************)
EXTENDS BoardInput, SequenceTheorems, TLAPS

Arithmetic == INSTANCE ArithmeticProofs

-----------------------------------------------------------------------------
(* The circular buffer is sound.                                           *)

\* The tail is as many places after the head as events wait.
TailFollowsHead == tail = After(head, size - capacity)

IInv == TypeOK /\ OnlyMisuseFails /\ TailFollowsHead

\* The arithmetic of the places, without the definitions behind it.
LEMMA PlaceFacts ==
    /\ size \in Nat /\ size >= 1
    /\ \A p : p \in Places <=> p \in Int /\ 0 <= p /\ p < size
    /\ start \in Places /\ start = 0
    /\ \A p \in Places :
          Advance(p) = IF p = size - 1 THEN 0 ELSE p + 1
    /\ \A p \in Places, i \in 0 .. size :
          /\ After(p, i) = IF p + i >= size THEN p + i - size ELSE p + i
          /\ After(p, i) \in Places
BY EventQueueAssumption
   DEF EventQueueAssumption, Places, start, end, Advance, After

\* Counting one place on and then some is counting one more.
LEMMA AfterFacts ==
    ASSUME NEW p \in Places, NEW i \in 0 .. (size - 1)
    PROVE  /\ i \in 0 .. size /\ i + 1 \in 0 .. size
           /\ Advance(p) \in Places
           /\ Advance(After(p, i)) = After(p, i + 1)
           /\ After(Advance(p), i) = After(p, i + 1)
<1>1. i \in 0 .. size /\ i + 1 \in 0 .. size
  BY PlaceFacts
<1>2. p \in Int /\ 0 <= p /\ p < size /\ size \in Nat /\ i \in Nat /\ i < size
  BY PlaceFacts
<1>3. Advance(p) = (IF p = size - 1 THEN 0 ELSE p + 1) /\ Advance(p) \in Places
  BY <1>2, PlaceFacts
<1>4. /\ After(p, i) = IF p + i >= size THEN p + i - size ELSE p + i
      /\ After(p, i) \in Places
      /\ After(p, i + 1) = IF p + i + 1 >= size THEN p + i + 1 - size
                                                ELSE p + i + 1
  BY <1>1, <1>2, PlaceFacts
<1>5. Advance(After(p, i)) =
        IF After(p, i) = size - 1 THEN 0 ELSE After(p, i) + 1
  BY <1>4, PlaceFacts
<1>6. After(Advance(p), i) =
        IF Advance(p) + i >= size THEN Advance(p) + i - size ELSE Advance(p) + i
  BY <1>1, <1>3, PlaceFacts
<1> QED
  BY <1>1, <1>2, <1>3, <1>4, <1>5, <1>6

\* A free place more is a waiting event less.
LEMMA CapacityFacts ==
    ASSUME NEW c \in 0 .. size
    PROVE  /\ c \in Int /\ 0 <= c /\ c <= size /\ size \in Nat
           /\ size - c \in Nat /\ size - c <= size
           /\ c = 0 \/ c > 0
           /\ c = size \/ c < size
           /\ c > 0 => /\ c - 1 \in 0 .. size /\ c - 1 <= size
                       /\ size - c \in 0 .. (size - 1)
                       /\ size - (c - 1) = (size - c) + 1
           /\ c < size => /\ c + 1 \in 0 .. size /\ c + 1 <= size
                          /\ ~(c >= size)
                          /\ size - c - 1 \in 0 .. (size - 1)
                          /\ size - c = (size - c - 1) + 1
                          /\ size - (c + 1) = size - c - 1
<1>1. size \in Nat
  BY PlaceFacts
<1> QED
  BY <1>1

\* Moving to the next place stays inside the buffer.
LEMMA AdvanceStays == \A p \in Places : Advance(p) \in Places
BY PlaceFacts

\* The empty queue meets the invariant.
LEMMA InitInv == J_EventQueue_init => IInv
<1> SUFFICES ASSUME J_EventQueue_init PROVE IInv
  OBVIOUS
<1>1. TypeOK /\ OnlyMisuseFails
  BY PlaceFacts DEF J_EventQueue_init, TypeOK, OnlyMisuseFails
<1>2. TailFollowsHead
  BY PlaceFacts DEF J_EventQueue_init, TailFollowsHead
<1> QED
  BY <1>1, <1>2 DEF IInv

\* What a put that fails no precondition does: its ENSUREs hold too.
LEMMA PutEffect ==
    ASSUME IInv, NEW e \in Event, J_EventQueue_put(e)
    PROVE  \/ capacity = 0 /\ Fail("queue full")
           \/ /\ capacity > 0
              /\ buffer' = [buffer EXCEPT ![tail] = e]
              /\ tail' = Advance(tail) /\ tail' \in Places
              /\ capacity' = capacity - 1 /\ capacity' \in 0 .. size
              /\ fault' = "none" /\ head' = head /\ taken' = taken
<1>1. PointersInside(head, tail) /\ capacity \in 0 .. size
  BY DEF IInv, TypeOK, PointersInside
<1>2. Advance(tail) \in Places
  BY AdvanceStays DEF IInv, TypeOK
<1>3. CASE capacity = 0
  <2>1. ~(capacity > 0)
    BY <1>3
  <2> QED
    BY <1>3, <2>1, Zenon DEF J_EventQueue_put
<1>4. CASE capacity > 0
  <2>1. capacity - 1 \in 0 .. size /\ capacity - 1 <= size /\ capacity # 0
    BY <1>1, <1>4, CapacityFacts
  <2> QED
    BY <1>1, <1>2, <1>4, <2>1, Zenon DEF J_EventQueue_put, PointersInside
<1>5. capacity = 0 \/ capacity > 0
  BY <1>1, CapacityFacts
<1> QED
  BY <1>3, <1>4, <1>5, Zenon

\* What a get that fails no precondition does.
LEMMA GetEffect ==
    ASSUME IInv, J_EventQueue_get
    PROVE  \/ capacity = size /\ Fail("queue empty")
           \/ /\ capacity < size
              /\ taken' = buffer[head]
              /\ head' = Advance(head) /\ head' \in Places
              /\ capacity' = capacity + 1 /\ capacity' \in 0 .. size
              /\ fault' = "none" /\ buffer' = buffer /\ tail' = tail
<1>1. PointersInside(head, tail) /\ capacity \in 0 .. size
  BY DEF IInv, TypeOK, PointersInside
<1>2. Advance(head) \in Places
  BY AdvanceStays DEF IInv, TypeOK
<1>3. CASE capacity = size
  <2>1. ~(capacity < size)
    BY <1>1, <1>3, CapacityFacts
  <2> QED
    BY <1>3, <2>1, Zenon DEF J_EventQueue_get
<1>4. CASE capacity < size
  <2>1. /\ capacity + 1 \in 0 .. size /\ capacity + 1 <= size
        /\ ~(capacity >= size)
    BY <1>1, <1>4, CapacityFacts
  <2> QED
    BY <1>1, <1>2, <1>4, <2>1, Zenon DEF J_EventQueue_get
<1>5. capacity = size \/ capacity < size
  BY <1>1, CapacityFacts
<1> QED
  BY <1>3, <1>4, <1>5, Zenon

\* A put, a get, and a call whose assertion fails all keep it.
LEMMA NextInv == IInv /\ [Next]_vars => IInv'
<1> SUFFICES ASSUME IInv, [Next]_vars PROVE IInv'
  OBVIOUS
<1>1. ASSUME NEW e \in Event, J_EventQueue_put(e) PROVE IInv'
  <2>1. CASE capacity = 0 /\ Fail("queue full")
    BY <2>1
       DEF Fail, IInv, TypeOK, OnlyMisuseFails, TailFollowsHead, After
  <2>2. CASE /\ capacity > 0
             /\ buffer' = [buffer EXCEPT ![tail] = e]
             /\ tail' = Advance(tail) /\ tail' \in Places
             /\ capacity' = capacity - 1 /\ capacity' \in 0 .. size
             /\ fault' = "none" /\ head' = head /\ taken' = taken
    <3>1. TypeOK' /\ OnlyMisuseFails'
      BY <2>2 DEF IInv, TypeOK, OnlyMisuseFails
    <3>2. TailFollowsHead'
      <4> DEFINE used == size - capacity
      <4>1. used \in 0 .. (size - 1) /\ size - capacity' = used + 1
        BY <2>2, CapacityFacts DEF IInv, TypeOK
      <4>2. head \in Places /\ tail = After(head, used)
        BY DEF IInv, TypeOK, TailFollowsHead
      <4> HIDE DEF used
      <4>3. tail' = After(head, used + 1)
        BY <2>2, <4>1, <4>2, AfterFacts
      <4> QED
        BY <2>2, <4>1, <4>3 DEF TailFollowsHead, After
    <3> QED
      BY <3>1, <3>2 DEF IInv
  <2> QED
    BY <1>1, <2>1, <2>2, PutEffect
<1>2. ASSUME J_EventQueue_get PROVE IInv'
  <2>1. CASE capacity = size /\ Fail("queue empty")
    BY <2>1
       DEF Fail, IInv, TypeOK, OnlyMisuseFails, TailFollowsHead, After
  <2>2. CASE /\ capacity < size
             /\ taken' = buffer[head]
             /\ head' = Advance(head) /\ head' \in Places
             /\ capacity' = capacity + 1 /\ capacity' \in 0 .. size
             /\ fault' = "none" /\ buffer' = buffer /\ tail' = tail
    <3>1. TypeOK' /\ OnlyMisuseFails'
      BY <2>2 DEF IInv, TypeOK, OnlyMisuseFails
    <3>2. TailFollowsHead'
      <4> DEFINE left == size - capacity - 1
      <4>1. /\ left \in 0 .. (size - 1)
            /\ size - capacity = left + 1 /\ size - capacity' = left
        BY <2>2, CapacityFacts DEF IInv, TypeOK
      <4>2. head \in Places /\ tail = After(head, left + 1)
        BY <4>1 DEF IInv, TypeOK, TailFollowsHead
      <4> HIDE DEF left
      <4>3. tail' = After(head', left)
        BY <2>2, <4>1, <4>2, AfterFacts
      <4> QED
        BY <4>1, <4>3 DEF TailFollowsHead, After
    <3> QED
      BY <3>1, <3>2 DEF IInv
  <2> QED
    BY <1>2, <2>1, <2>2, GetEffect
<1>3. CASE Reset
  <2>1. TypeOK' /\ OnlyMisuseFails'
    <3>1. size \in 0 .. size
      BY PlaceFacts
    <3> QED
      BY <1>3, <3>1, PlaceFacts DEF Reset, IInv, TypeOK, OnlyMisuseFails
  <2>2. TailFollowsHead'
    BY <1>3, PlaceFacts DEF Reset, TailFollowsHead
  <2> QED
    BY <2>1, <2>2 DEF IInv
<1>4. CASE FailsElsewhere
  BY <1>4 DEF FailsElsewhere, Fail, IInv, TypeOK, OnlyMisuseFails,
              TailFollowsHead, After
<1>5. CASE UNCHANGED vars
  BY <1>5 DEF vars, IInv, TypeOK, OnlyMisuseFails, TailFollowsHead, After
<1> QED
  BY <1>1, <1>2, <1>3, <1>4, <1>5 DEF Next

\* So it holds in every reachable state.
LEMMA Invariance == Spec => []IInv
BY InitInv, NextInv, PTL DEF Spec

\* The pointers stay inside the buffer and the counters do not wrap, for
\* every size that fits in a uint8_t.
THEOREM TypeCorrect == Spec => []TypeOK
BY Invariance, PTL DEF IInv

\* No assertion on the pointers, and no ENSURE, can fail.
THEOREM PointersNeverFail == Spec => []OnlyMisuseFails
BY Invariance, PTL DEF IInv

-----------------------------------------------------------------------------
(* The buffer implements the bounded queue.                                *)

\* Contents is a sequence of events, as long as the places in use.
LEMMA ContentsType ==
    ASSUME TypeOK
    PROVE  Contents \in Seq(Event) /\ Len(Contents) = size - capacity
<1> DEFINE n == size - capacity
<1>1. n \in Nat /\ n <= size /\ head \in Places
  BY CapacityFacts DEF TypeOK
<1>2. ASSUME NEW i \in 1 .. n PROVE buffer[After(head, i - 1)] \in Event
  <2>1. i - 1 \in 0 .. size
    BY <1>1, PlaceFacts
  <2>2. After(head, i - 1) \in Places
    BY <1>1, <2>1, PlaceFacts
  <2> QED
    BY <2>2 DEF TypeOK
<1>3. Contents \in [1 .. n -> Event]
  BY <1>2 DEF Contents
<1> QED
  BY <1>1, <1>3

\* Fewer than size places on, no place is met twice.
LEMMA AfterInjective ==
    ASSUME NEW p \in Places, NEW i \in 0 .. (size - 1),
           NEW j \in 0 .. (size - 1), After(p, i) = After(p, j)
    PROVE  i = j
<1>1. /\ p \in Int /\ 0 <= p /\ p < size /\ size \in Nat
      /\ i \in 0 .. size /\ i \in Int /\ 0 <= i /\ i < size
      /\ j \in 0 .. size /\ j \in Int /\ 0 <= j /\ j < size
  BY PlaceFacts
<1>2. /\ After(p, i) = IF p + i >= size THEN p + i - size ELSE p + i
      /\ After(p, j) = IF p + j >= size THEN p + j - size ELSE p + j
  BY <1>1, PlaceFacts
<1>3. (IF p + i >= size THEN p + i - size ELSE p + i)
        = (IF p + j >= size THEN p + j - size ELSE p + j)
  BY <1>2
<1> QED
  BY <1>1, <1>3

\* A put appends to the contents.
LEMMA PutAppends ==
    ASSUME IInv, NEW e \in Event, capacity > 0,
           buffer' = [buffer EXCEPT ![tail] = e], head' = head,
           capacity' = capacity - 1
    PROVE  Contents' = Append(Contents, e)
<1> DEFINE used == size - capacity
<1>1. /\ used \in 0 .. (size - 1) /\ used \in Nat /\ size - capacity' = used + 1
      /\ head \in Places /\ tail = After(head, used)
  BY CapacityFacts DEF IInv, TypeOK, TailFollowsHead
<1>2. Contents \in Seq(Event) /\ Len(Contents) = used
  BY ContentsType DEF IInv
<1>3. ASSUME NEW i \in 1 .. used
      PROVE  buffer'[After(head, i - 1)] = Contents[i]
  <2>1. /\ i - 1 \in 0 .. (size - 1) /\ i - 1 # used /\ i - 1 \in 0 .. size
    BY <1>1, PlaceFacts
  <2>2. After(head, i - 1) # tail /\ After(head, i - 1) \in Places
    BY <1>1, <2>1, AfterInjective, PlaceFacts
  <2>3. buffer'[After(head, i - 1)] = buffer[After(head, i - 1)]
    BY <2>2 DEF IInv, TypeOK
  <2> QED
    BY <2>3 DEF Contents
<1>4. buffer'[After(head, used)] = e
  BY <1>1 DEF IInv, TypeOK
<1>5. Contents' = [i \in 1 .. (used + 1) |-> buffer'[After(head, i - 1)]]
  BY <1>1 DEF Contents, After
<1> HIDE DEF used
<1>6. ASSUME NEW i \in 1 .. (used + 1)
      PROVE  buffer'[After(head, i - 1)] = Append(Contents, e)[i]
  <2>1. CASE i = used + 1
    BY <1>1, <1>2, <1>4, <2>1
  <2>2. CASE i # used + 1
    BY <1>1, <1>2, <1>3, <2>2
  <2> QED
    BY <2>1, <2>2
<1>7. Append(Contents, e) = [i \in 1 .. (used + 1) |-> Append(Contents, e)[i]]
  <2>1. Append(Contents, e) \in Seq(Event) /\ Len(Append(Contents, e)) = used + 1
    BY <1>1, <1>2
  <2> DEFINE appended == Append(Contents, e)
  <2> HIDE DEF appended
  <2>2. appended \in [1 .. (used + 1) -> Event]
    BY <2>1, LenProperties DEF appended
  <2>3. appended = [i \in 1 .. (used + 1) |-> appended[i]]
    BY <2>2
  <2> QED
    BY <2>3 DEF appended
<1> QED
  BY <1>5, <1>6, <1>7

\* A get takes the first of the contents.
LEMMA GetTakesFirst ==
    ASSUME IInv, capacity < size, head' = Advance(head), buffer' = buffer,
           capacity' = capacity + 1
    PROVE  /\ Contents # <<>> /\ buffer[head] = Head(Contents)
           /\ Contents' = Tail(Contents)
<1> DEFINE left == size - capacity - 1
<1>1. /\ left \in 0 .. (size - 1) /\ left \in Nat
      /\ size - capacity = left + 1 /\ size - capacity' = left
      /\ head \in Places
  BY CapacityFacts DEF IInv, TypeOK
<1>2. Contents \in Seq(Event) /\ Len(Contents) = left + 1
  BY <1>1, ContentsType DEF IInv
<1>3. ASSUME NEW i \in 1 .. (left + 1)
      PROVE  Contents[i] = buffer[After(head, i - 1)]
  BY <1>1 DEF Contents
<1>4. Contents' = [i \in 1 .. left |-> buffer[After(head', i - 1)]]
  BY <1>1 DEF Contents, After
<1> HIDE DEF left
<1>5. buffer[head] = Contents[1]
  <2>1. After(head, 0) = head
    BY <1>1, PlaceFacts
  <2> QED
    BY <1>1, <1>3, <2>1
<1>6. ASSUME NEW i \in 1 .. left
      PROVE  buffer[After(head', i - 1)] = Contents[i + 1]
  <2>1. i - 1 \in 0 .. (size - 1) /\ i - 1 + 1 = i /\ i + 1 - 1 = i
        /\ i + 1 \in 1 .. (left + 1)
    BY <1>1, PlaceFacts
  <2>2. After(head', i - 1) = After(head, i)
    BY <1>1, <2>1, AfterFacts
  <2> QED
    BY <1>3, <2>1, <2>2
<1>7. Contents' = [i \in 1 .. left |-> Contents[i + 1]]
  BY <1>4, <1>6
<1>8. Tail(Contents) = [i \in 1 .. left |-> Contents[i + 1]]
  <2> DEFINE rest == Tail(Contents)
  <2>1. Contents # <<>>
    BY <1>1, <1>2
  <2>2. /\ rest \in Seq(Event) /\ Len(rest) = left
        /\ \A i \in 1 .. left : rest[i] = Contents[i + 1]
    BY <1>1, <1>2, <2>1, HeadTailProperties
  <2> HIDE DEF rest
  <2>3. rest \in [1 .. left -> Event]
    BY <2>2, LenProperties
  <2>4. rest = [i \in 1 .. left |-> Contents[i + 1]]
    BY <2>2, <2>3
  <2> QED
    BY <2>4 DEF rest
<1> QED
  BY <1>1, <1>2, <1>5, <1>7, <1>8

\* The contents are empty when every place is free, and full when none is.
LEMMA ContentsEnds ==
    ASSUME IInv
    PROVE  /\ capacity = size => Contents = <<>>
           /\ capacity = 0 => Len(Contents) = size
           /\ capacity > 0 => Len(Contents) < size
<1>1. /\ Contents \in Seq(Event) /\ Len(Contents) = size - capacity
      /\ capacity \in 0 .. size /\ size \in Nat
  BY ContentsType, PlaceFacts DEF IInv, TypeOK
<1> QED
  BY <1>1

\* The empty buffer is the empty queue.
LEMMA RefinesInit == J_EventQueue_init => Fifo!Init
<1> SUFFICES ASSUME J_EventQueue_init PROVE Fifo!Init
  OBVIOUS
<1>1. Contents = <<>>
  BY InitInv, ContentsEnds DEF J_EventQueue_init
<1> QED
  BY <1>1 DEF J_EventQueue_init, Fifo!Init

\* Every call is a step of the bounded queue, or none when it fails.
LEMMA RefinesNext == IInv /\ [Next]_vars => [Fifo!Next]_(Fifo!vars)
<1> SUFFICES ASSUME IInv, [Next]_vars PROVE [Fifo!Next]_(Fifo!vars)
  OBVIOUS
<1>1. ASSUME NEW e \in Event, J_EventQueue_put(e) PROVE Fifo!Next
  <2>1. fault = "none"
    BY <1>1 DEF J_EventQueue_put
  <2>2. CASE capacity = 0 /\ Fail("queue full")
    <3>1. Contents' = Contents /\ Len(Contents) = size
      BY <2>2, ContentsEnds DEF Fail, Contents, After
    <3> QED
      BY <2>1, <2>2, <3>1 DEF Fail, Fifo!Next, Fifo!Halt
  <2>3. CASE /\ capacity > 0
             /\ buffer' = [buffer EXCEPT ![tail] = e]
             /\ tail' = Advance(tail) /\ tail' \in Places
             /\ capacity' = capacity - 1 /\ capacity' \in 0 .. size
             /\ fault' = "none" /\ head' = head /\ taken' = taken
    <3>1. Contents' = Append(Contents, e) /\ Len(Contents) < size
      BY <2>3, PutAppends, ContentsEnds
    <3> QED
      BY <2>1, <2>3, <3>1 DEF Fifo!Next, Fifo!Put
  <2> QED
    BY <1>1, <2>2, <2>3, PutEffect
<1>2. ASSUME J_EventQueue_get PROVE Fifo!Next
  <2>1. fault = "none"
    BY <1>2 DEF J_EventQueue_get
  <2>2. CASE capacity = size /\ Fail("queue empty")
    <3>1. Contents' = Contents /\ Contents = <<>>
      BY <2>2, ContentsEnds DEF Fail, Contents, After
    <3> QED
      BY <2>1, <2>2, <3>1 DEF Fail, Fifo!Next, Fifo!Halt
  <2>3. CASE /\ capacity < size
             /\ taken' = buffer[head]
             /\ head' = Advance(head) /\ head' \in Places
             /\ capacity' = capacity + 1 /\ capacity' \in 0 .. size
             /\ fault' = "none" /\ buffer' = buffer /\ tail' = tail
    <3>1. /\ Contents # <<>> /\ taken' = Head(Contents)
          /\ Contents' = Tail(Contents)
      BY <2>3, GetTakesFirst
    <3> QED
      BY <2>1, <2>3, <3>1 DEF Fifo!Next, Fifo!Get
  <2> QED
    BY <1>2, <2>2, <2>3, GetEffect
<1>3. CASE Reset
  <2>1. Contents' = <<>>
    <3>1. IInv'
      BY <1>3, NextInv DEF Next
    <3>2. /\ capacity' = size
          /\ Contents' = [i \in 1 .. (size - capacity')
                            |-> buffer'[After(head', i - 1)]]
      BY <1>3 DEF Reset, Contents, After
    <3>3. size - size = 0
      BY PlaceFacts
    <3> QED
      BY <3>2, <3>3
  <2> QED
    BY <1>3, <2>1 DEF Reset, Fifo!Next, Fifo!Restart
<1>4. CASE FailsElsewhere
  BY <1>4 DEF FailsElsewhere, Fail, Contents, After, Fifo!Next, Fifo!Halt
<1>5. CASE UNCHANGED vars
  BY <1>5 DEF vars, Fifo!vars, Contents, After
<1> QED
  BY <1>1, <1>2, <1>3, <1>4, <1>5 DEF Next

\* The circular buffer implements the bounded queue for every size: events
\* leave in the order in which they came, across every wrap of the pointers,
\* and none is lost or repeated.
THEOREM RefinesBoundedFifo == Spec => ImplementsFifo
<1>1. Spec => Fifo!Init /\ [][Fifo!Next]_(Fifo!vars)
  BY RefinesInit, RefinesNext, Invariance, PTL DEF Spec
<1> QED
  BY <1>1 DEF ImplementsFifo, Fifo!Spec

-----------------------------------------------------------------------------
(* Positions that wrap around.                                             *)

\* The remainders in the range that occurs.
LEMMA PositionFacts ==
    /\ Half \in Nat /\ Half >= 1 /\ Positions = 0 .. 2 * Half - 1
    /\ StartPos \in Positions /\ J_EVENT_MAX_REPEATS \in Nat
    /\ \A d \in Turns : d \in Int /\ - Half < d /\ d < Half
    /\ \A x \in Int : Unsigned(x) \in Positions
    /\ \A x \in (- 2 * Half) .. - 1 : Unsigned(x) = x + 2 * Half
    /\ \A x \in 0 .. 2 * Half - 1 : Unsigned(x) = x
    /\ \A x \in 2 * Half .. 4 * Half - 1 : Unsigned(x) = x - 2 * Half
<1>1. /\ Half \in Nat /\ Half >= 1 /\ Positions = 0 .. 2 * Half - 1
      /\ StartPos \in Positions /\ J_EVENT_MAX_REPEATS \in Nat
      /\ \A d \in Turns : d \in Int /\ - Half < d /\ d < Half
  BY BoardInputAssumption DEF BoardInputAssumption, Positions
<1>2. ASSUME NEW K \in Nat, K > 0
      PROVE  /\ \A x \in Int : x % K \in 0 .. K - 1
             /\ \A x \in (- K) .. - 1 : x % K = x + K
             /\ \A x \in 0 .. K - 1 : x % K = x
             /\ \A x \in K .. 2 * K - 1 : x % K = x - K
  <2>1. ASSUME NEW x \in (- K) .. - 1 PROVE x % K = x + K
    BY <1>2, SMT
  <2> QED
    BY <1>2, <2>1, Arithmetic!SmallRemainders
<1> DEFINE K == 2 * Half
<1>3. K \in Nat /\ K > 0 /\ - K = - 2 * Half /\ 2 * K = 4 * Half
  BY <1>1
<1>4. \A x : Unsigned(x) = x % K
  BY DEF Unsigned
<1> HIDE DEF K
<1>5. /\ \A x \in Int : Unsigned(x) \in 0 .. K - 1
      /\ \A x \in (- K) .. - 1 : Unsigned(x) = x + K
      /\ \A x \in 0 .. K - 1 : Unsigned(x) = x
      /\ \A x \in K .. 2 * K - 1 : Unsigned(x) = x - K
  BY <1>2, <1>3, <1>4
<1> QED
  BY <1>1, <1>3, <1>5, Zenon DEF K

\* However far the knob is from the end of the positions, and of the signed
\* ones, the two differences of QEI_tick are how far it turned.
LEMMA TurnFacts ==
    ASSUME NEW p \in Positions, NEW d \in Turns
    PROVE  /\ Unsigned(p + d) \in Positions
           /\ Signed(Signed(p) - Signed(Unsigned(p + d))) = - d
           /\ Signed(p - Unsigned(p + d)) = - d
<1> DEFINE q == Unsigned(p + d)
<1>1. /\ Half \in Int /\ Half >= 1
      /\ p \in Int /\ 0 <= p /\ p < 2 * Half
      /\ d \in Int /\ - Half < d /\ d < Half
  BY PositionFacts
<1>2. ASSUME NEW x \in Int
      PROVE  /\ - 2 * Half <= x /\ x < 0 => Unsigned(x) = x + 2 * Half
             /\ 0 <= x /\ x < 2 * Half => Unsigned(x) = x
             /\ 2 * Half <= x /\ x < 4 * Half => Unsigned(x) = x - 2 * Half
  BY <1>1, PositionFacts
<1>3. \A x : Signed(x) = IF Unsigned(x) < Half THEN Unsigned(x)
                                              ELSE Unsigned(x) - 2 * Half
  BY DEF Signed
<1>4. /\ q \in Int /\ 0 <= q /\ q < 2 * Half
      /\ q = IF p + d < 0 THEN p + d + 2 * Half
             ELSE IF p + d < 2 * Half THEN p + d ELSE p + d - 2 * Half
  BY <1>1, <1>2
<1> HIDE DEF q
<1> DEFINE sp == Signed(p)
           sq == Signed(q)
<1>5. /\ sp \in Int /\ sp = IF p < Half THEN p ELSE p - 2 * Half
      /\ sq \in Int /\ sq = IF q < Half THEN q ELSE q - 2 * Half
  BY <1>1, <1>2, <1>3, <1>4
<1> HIDE DEF sp, sq
<1>6. ASSUME NEW x \in Int, - 2 * Half < x, x < 2 * Half
      PROVE  Signed(x) = IF x < - Half THEN x + 2 * Half
                         ELSE IF x < Half THEN x ELSE x - 2 * Half
  BY <1>1, <1>2, <1>3, <1>6
<1>7. Signed(sp - sq) = - d
  <2>1. sp - sq \in Int /\ - 2 * Half < sp - sq /\ sp - sq < 2 * Half
    BY <1>1, <1>4, <1>5
  <2>2. Signed(sp - sq) =
          IF sp - sq < - Half THEN sp - sq + 2 * Half
          ELSE IF sp - sq < Half THEN sp - sq ELSE sp - sq - 2 * Half
    BY <1>6, <2>1
  <2> QED
    BY <1>1, <1>4, <1>5, <2>2
<1>8. Signed(p - q) = - d
  <2>1. p - q \in Int /\ - 2 * Half < p - q /\ p - q < 2 * Half
    BY <1>1, <1>4
  <2>2. Signed(p - q) =
          IF p - q < - Half THEN p - q + 2 * Half
          ELSE IF p - q < Half THEN p - q ELSE p - q - 2 * Half
    BY <1>6, <2>1
  <2> QED
    BY <1>1, <1>4, <2>2
<1>9. q \in Positions
  BY <1>1, PositionFacts DEF q
<1> QED
  BY <1>7, <1>8, <1>9 DEF sp, sq, q

\* What QEI_tick computes from the knob's turn.
LEMMA TickFacts ==
    ASSUME previous_QEI_0_pos \in Positions, NEW d \in Turns
    PROVE  LET current == Unsigned(previous_QEI_0_pos + d)
           IN  /\ current \in Positions
               /\ delta_pos(current) = abs(d) /\ abs(d) \in Nat
               /\ delta_sign(current) = JM_sign(- d)
               /\ d = 0 => current = previous_QEI_0_pos
               /\ d # 0 /\ abs(d) =< J_EVENT_MAX_REPEATS =>
                    /\ Repeats(current) = abs(d) - 1
                    /\ abs(d) - 1 \in 0 .. J_EVENT_MAX_REPEATS
<1> DEFINE current == Unsigned(previous_QEI_0_pos + d)
<1>1. d \in Int /\ J_EVENT_MAX_REPEATS \in Nat
  BY PositionFacts
<1>2. /\ current \in Positions
      /\ delta_pos(current) = abs(- d) /\ delta_sign(current) = JM_sign(- d)
  BY TurnFacts DEF delta_pos, delta_sign
<1>3. abs(- d) = abs(d) /\ abs(d) \in Nat /\ (d # 0 => abs(d) >= 1)
  BY <1>1 DEF abs
<1>4. d = 0 => current = previous_QEI_0_pos
  <2>1. previous_QEI_0_pos \in 0 .. 2 * Half - 1 /\ previous_QEI_0_pos + 0 = previous_QEI_0_pos
    BY PositionFacts
  <2> QED
    BY <2>1, PositionFacts
<1>5. ASSUME d # 0, abs(d) =< J_EVENT_MAX_REPEATS
      PROVE  /\ (abs(d) - 1) % (J_EVENT_MAX_REPEATS + 1) = abs(d) - 1
             /\ abs(d) - 1 \in 0 .. J_EVENT_MAX_REPEATS
  <2>1. ASSUME NEW K \in Nat, NEW k \in Nat, k < K PROVE k % K = k
    BY <2>1, SMT
  <2>2. /\ abs(d) - 1 \in Nat /\ J_EVENT_MAX_REPEATS + 1 \in Nat
        /\ abs(d) - 1 < J_EVENT_MAX_REPEATS + 1
        /\ abs(d) - 1 \in 0 .. J_EVENT_MAX_REPEATS
    BY <1>1, <1>3, <1>5
  <2> QED
    BY <2>1, <2>2, Zenon
<1> HIDE DEF current
<1> QED
  BY <1>2, <1>3, <1>4, <1>5 DEF Repeats, current

-----------------------------------------------------------------------------
(* What an observer of the events learns.                                  *)

Knowledge == [pressed: SUBSET Switches, position: Positions]

\* What an event tells is knowledge.
LEMMA ObserveType ==
    ASSUME NEW k \in Knowledge, NEW e \in BoardEvent
    PROVE  Observe(k, e) \in Knowledge
<1>1. CASE e = INIT_SIG
  BY <1>1 DEF INIT_SIG, EventOf, Observe
<1>2. CASE e \in {EventOf(sig, s, 0) : sig \in {"DEPRESSED", "RELEASED"},
                                      s \in Switches}
  BY <1>2 DEF EventOf, Observe, Knowledge
<1>3. CASE e \in {EventOf(sig, "KNOB_1", n) : sig \in {"CLOCKWISE", "ANTI_CLOCKWISE"},
                                             n \in 0 .. J_EVENT_MAX_REPEATS}
  <2>1. PICK n \in 0 .. J_EVENT_MAX_REPEATS :
          \/ e = EventOf("CLOCKWISE", "KNOB_1", n)
          \/ e = EventOf("ANTI_CLOCKWISE", "KNOB_1", n)
    BY <1>3
  <2>2. k.position \in Int /\ n \in Int
    BY PositionFacts DEF Knowledge
  <2>3. /\ Unsigned(k.position - (n + 1)) \in Positions
        /\ Unsigned(k.position + (n + 1)) \in Positions
    BY <2>2, PositionFacts
  <2> QED
    BY <2>1, <2>3 DEF EventOf, Observe, Knowledge
<1> QED
  BY <1>1, <1>2, <1>3 DEF BoardEvent

\* f is what is known after each of the events.
Learning(f, k, events) ==
    /\ f \in [0 .. Len(events) -> Knowledge]
    /\ f[0] = k
    /\ \A n \in 1 .. Len(events) : f[n] = Observe(f[n - 1], events[n])

\* The recursion that defines what is learnt makes such an f.
LEMMA LearnsIsLearning ==
    ASSUME NEW k \in Knowledge, NEW events \in Seq(BoardEvent)
    PROVE  \E f : Learning(f, k, events) /\ f[Len(events)] = Learns(k, events)
<1> DEFINE L == Len(events)
           after[n \in 0 .. L] ==
               IF n = 0 THEN k ELSE Observe(after[n - 1], events[n])
           step == [n \in 1 .. L |-> [s \in Knowledge |-> Observe(s, events[n])]]
<1>1. L \in Nat /\ \A n \in 1 .. L : events[n] \in BoardEvent
  BY LenProperties, ElementOfSeq
<1>2. Learns(k, events) = after[L]
  BY DEF Learns
<1> HIDE DEF L
<1>3. step \in Arithmetic!Steps(L, Knowledge)
  BY <1>1, ObserveType DEF Arithmetic!Steps
<1>4. PICK f : Arithmetic!IsRecursion(f, L, Knowledge, k, step)
  BY <1>1, <1>3, Arithmetic!RecursionMakesFunction
<1>5. /\ f \in [0 .. L -> Knowledge] /\ f[0] = k
      /\ \A n \in 1 .. L : f[n] = step[n][f[n - 1]]
  BY <1>4 DEF Arithmetic!IsRecursion
<1>6. ASSUME NEW n \in 1 .. L PROVE f[n] = Observe(f[n - 1], events[n])
  <2>1. n - 1 \in 0 .. L
    BY <1>1
  <2>2. step[n][f[n - 1]] = Observe(f[n - 1], events[n])
    BY <1>5, <2>1, Zenon
  <2> QED
    BY <1>5, <2>2, Zenon
<1> HIDE DEF step
<1>7. f = [n \in 0 .. L |-> IF n = 0 THEN k ELSE Observe(f[n - 1], events[n])]
  BY <1>1, <1>5, <1>6
<1>8. after = [n \in 0 .. L |-> IF n = 0 THEN k ELSE Observe(after[n - 1], events[n])]
  BY <1>7, Zenon
<1> HIDE DEF after
<1> DEFINE Z == {n \in Nat : n =< L => after[n] = f[n]}
<1>9. 0 \in Z
  BY <1>1, <1>5, <1>8
<1>10. ASSUME NEW n \in Nat, n \in Z PROVE n + 1 \in Z
  BY <1>1, <1>6, <1>8, <1>10
<1> HIDE DEF Z
<1>11. \A n \in Nat : n \in Z
  BY <1>9, <1>10, Arithmetic!Induction
<1>12. after[L] = f[L]
  BY <1>1, <1>11 DEF Z
<1> QED
  BY <1>2, <1>5, <1>6, <1>12 DEF Learning, L

\* There is only one such f.
LEMMA LearningIsUnique ==
    ASSUME NEW k \in Knowledge, NEW events \in Seq(BoardEvent),
           NEW g, Learning(g, k, events)
    PROVE  Learns(k, events) = g[Len(events)] /\ Learns(k, events) \in Knowledge
<1> DEFINE L == Len(events)
<1>1. L \in Nat
  BY LenProperties
<1>2. PICK f : Learning(f, k, events) /\ f[L] = Learns(k, events)
  BY LearnsIsLearning
<1>3. /\ f[0] = k /\ g[0] = k /\ f \in [0 .. L -> Knowledge]
      /\ \A n \in 1 .. L : f[n] = Observe(f[n - 1], events[n])
      /\ \A n \in 1 .. L : g[n] = Observe(g[n - 1], events[n])
  BY <1>2 DEF Learning
<1> HIDE DEF L
<1> DEFINE Z == {n \in Nat : n =< L => g[n] = f[n]}
<1>4. 0 \in Z
  BY <1>3
<1>5. ASSUME NEW n \in Nat, n \in Z PROVE n + 1 \in Z
  BY <1>1, <1>3, <1>5
<1> HIDE DEF Z
<1>6. \A n \in Nat : n \in Z
  BY <1>4, <1>5, Arithmetic!Induction
<1>7. g[L] = f[L] /\ f[L] \in Knowledge
  <2>1. L =< L /\ L \in 0 .. L
    BY <1>1
  <2> QED
    BY <1>1, <1>3, <1>6, <2>1 DEF Z
<1> QED
  BY <1>2, <1>7 DEF L

\* The events of two sequences, one after the other.
LEMMA LearnsConcat ==
    ASSUME NEW k \in Knowledge, NEW s \in Seq(BoardEvent), NEW t \in Seq(BoardEvent)
    PROVE  /\ Learns(k, s) \in Knowledge
           /\ Learns(k, s \o t) = Learns(Learns(k, s), t)
<1> DEFINE u == s \o t
           M == Len(s)
           N == Len(t)
<1>1. M \in Nat /\ N \in Nat
  BY LenProperties
<1>2. /\ u \in Seq(BoardEvent) /\ Len(u) = M + N
      /\ \A i \in 1 .. M + N : u[i] = IF i <= M THEN s[i] ELSE t[i - M]
  BY ConcatProperties
<1> HIDE DEF u
<1>3. PICK f : Learning(f, k, s) /\ f[M] = Learns(k, s)
  BY LearnsIsLearning
<1>4. Learns(k, s) \in Knowledge
  BY <1>3, LearningIsUnique
<1>5. PICK g : Learning(g, Learns(k, s), t) /\ g[N] = Learns(Learns(k, s), t)
  BY <1>4, LearnsIsLearning
<1>6. /\ f \in [0 .. M -> Knowledge] /\ f[0] = k
      /\ \A n \in 1 .. M : f[n] = Observe(f[n - 1], s[n])
  BY <1>3 DEF Learning
<1>7. /\ g \in [0 .. N -> Knowledge] /\ g[0] = f[M]
      /\ \A n \in 1 .. N : g[n] = Observe(g[n - 1], t[n])
  BY <1>3, <1>5 DEF Learning
<1> HIDE DEF M, N
<1> DEFINE h == [n \in 0 .. M + N |-> IF n =< M THEN f[n] ELSE g[n - M]]
<1>8. h \in [0 .. M + N -> Knowledge] /\ h[0] = k
  BY <1>1, <1>6, <1>7
<1>9. h[M + N] = g[N]
  <2>1. CASE N = 0
    BY <1>1, <1>7, <2>1
  <2>2. CASE N # 0
    BY <1>1, <2>2
  <2> QED
    BY <2>1, <2>2
<1>10. ASSUME NEW n \in 1 .. M + N PROVE h[n] = Observe(h[n - 1], u[n])
  <2>1. CASE n =< M
    <3>1. h[n] = f[n] /\ h[n - 1] = f[n - 1] /\ u[n] = s[n] /\ n \in 1 .. M
      BY <1>1, <1>2, <2>1
    <3> QED
      BY <1>6, <3>1
  <2>2. CASE ~(n =< M)
    <3>1. h[n] = g[n - M] /\ u[n] = t[n - M] /\ n - M \in 1 .. N
      BY <1>1, <1>2, <2>2
    <3>2. h[n - 1] = g[n - M - 1]
      <4>1. CASE n = M + 1
        BY <1>1, <1>7, <4>1
      <4>2. CASE n # M + 1
        BY <1>1, <2>2, <4>2
      <4> QED
        BY <4>1, <4>2
    <3> QED
      BY <1>7, <3>1, <3>2
  <2> QED
    BY <2>1, <2>2
<1> HIDE DEF h
<1>11. Learning(h, k, u)
  BY <1>2, <1>8, <1>10 DEF Learning
<1>12. Learns(k, u) = h[M + N]
  BY <1>2, <1>11, LearningIsUnique
<1> QED
  BY <1>4, <1>5, <1>9, <1>12 DEF u

\* No event, and one.
LEMMA LearnsFew ==
    ASSUME NEW k \in Knowledge, NEW e \in BoardEvent
    PROVE  /\ <<>> \in Seq(BoardEvent) /\ Learns(k, <<>>) = k
           /\ <<e>> \in Seq(BoardEvent) /\ Learns(k, <<e>>) = Observe(k, e)
<1>1. <<>> \in Seq(BoardEvent) /\ Len(<<>>) = 0
  OBVIOUS
<1>2. Learns(k, <<>>) = k
  <2>1. PICK f : Learning(f, k, <<>>) /\ f[Len(<<>>)] = Learns(k, <<>>)
    BY <1>1, LearnsIsLearning
  <2> QED
    BY <1>1, <2>1 DEF Learning
<1>3. <<e>> \in Seq(BoardEvent) /\ Len(<<e>>) = 1 /\ <<e>>[1] = e
  OBVIOUS
<1>4. Learns(k, <<e>>) = Observe(k, e)
  <2>1. PICK f : Learning(f, k, <<e>>) /\ f[Len(<<e>>)] = Learns(k, <<e>>)
    BY <1>3, LearnsIsLearning
  <2> QED
    BY <1>3, <2>1 DEF Learning
<1> QED
  BY <1>1, <1>2, <1>3, <1>4

-----------------------------------------------------------------------------
(* The tick tells what it samples.                                         *)

Known(P, x) == [pressed |-> P, position |-> x]

\* The events of a switch tell its debounced state.
LEMMA SwitchEventsTell ==
    ASSUME NEW P \in SUBSET Switches, NEW x \in Positions, NEW s \in Switches,
           NEW now, s \in P <=> s \in depressed
    PROVE  /\ SwitchEvents(s, now) \in Seq(BoardEvent)
           /\ Learns(Known(P, x), SwitchEvents(s, now)) =
                Known(IF s \in now THEN P \cup {s} ELSE P \ {s}, x)
<1>1. Known(P, x) \in Knowledge
  BY DEF Known, Knowledge
<1>2. /\ EventOf("DEPRESSED", s, 0) \in BoardEvent
      /\ EventOf("RELEASED", s, 0) \in BoardEvent
  BY DEF BoardEvent
<1>3. CASE s \in now <=> s \in depressed
  <2>1. SwitchEvents(s, now) = <<>>
    BY <1>3 DEF SwitchEvents
  <2>2. P = IF s \in now THEN P \cup {s} ELSE P \ {s}
    BY <1>3
  <2> QED
    BY <1>1, <1>2, <2>1, <2>2, LearnsFew
<1>4. CASE s \in now /\ s \notin depressed
  <2> DEFINE e == EventOf("DEPRESSED", s, 0)
  <2>1. SwitchEvents(s, now) = <<e>>
    BY <1>4 DEF SwitchEvents
  <2>2. Observe(Known(P, x), e) = Known(P \cup {s}, x)
    BY DEF Observe, EventOf, Known
  <2> HIDE DEF e
  <2> QED
    BY <1>1, <1>2, <1>4, <2>1, <2>2, LearnsFew DEF e
<1>5. CASE s \notin now /\ s \in depressed
  <2> DEFINE e == EventOf("RELEASED", s, 0)
  <2>1. SwitchEvents(s, now) = <<e>>
    BY <1>5 DEF SwitchEvents
  <2>2. Observe(Known(P, x), e) = Known(P \ {s}, x)
    BY DEF Observe, EventOf, Known
  <2> QED
    BY <1>1, <1>2, <1>5, <2>1, <2>2, LearnsFew
<1> QED
  BY <1>3, <1>4, <1>5

\* The events of the knob tell its position.
LEMMA KnobEventsTell ==
    ASSUME previous_QEI_0_pos \in Positions, NEW d \in Turns,
           NEW P \in SUBSET Switches,
           delta_pos(Unsigned(previous_QEI_0_pos + d)) =< J_EVENT_MAX_REPEATS
    PROVE  LET current == Unsigned(previous_QEI_0_pos + d)
           IN  /\ QEI_tick(current) \in Seq(BoardEvent)
               /\ Learns(Known(P, previous_QEI_0_pos), QEI_tick(current)) =
                    Known(P, current)
<1> DEFINE x == previous_QEI_0_pos
           current == Unsigned(x + d)
           n == abs(d) - 1
<1>1. /\ current \in Positions /\ abs(d) =< J_EVENT_MAX_REPEATS
      /\ delta_sign(current) = JM_sign(- d)
      /\ d = 0 => current = x
      /\ d # 0 => Repeats(current) = n /\ n \in 0 .. J_EVENT_MAX_REPEATS
  BY TickFacts
<1>2. d \in Int /\ x \in Int /\ Known(P, x) \in Knowledge
  BY PositionFacts DEF Known, Knowledge
<1>3. CASE d = 0
  <2>1. delta_sign(current) = 0
    BY <1>1, <1>3 DEF JM_sign
  <2>2. QEI_tick(current) = <<>>
    BY <2>1 DEF QEI_tick
  <2>3. INIT_SIG \in BoardEvent
    BY DEF BoardEvent
  <2> QED
    BY <1>1, <1>2, <1>3, <2>2, <2>3, LearnsFew
<1>4. CASE d < 0
  <2> DEFINE e == EventOf("CLOCKWISE", "KNOB_1", n)
  <2>1. delta_sign(current) = 1
    BY <1>1, <1>2, <1>4 DEF JM_sign
  <2>2. QEI_tick(current) = <<e>>
    BY <1>1, <1>4, <2>1 DEF QEI_tick
  <2>3. e \in BoardEvent
    BY <1>1, <1>4 DEF BoardEvent
  <2>4. n + 1 = - d /\ x - (n + 1) = x + d
    BY <1>2, <1>4 DEF abs
  <2> HIDE DEF n
  <2>5. Observe(Known(P, x), e) = Known(P, Unsigned(x - (n + 1)))
    BY DEF Observe, EventOf, Known
  <2> HIDE DEF e
  <2> QED
    BY <1>2, <2>2, <2>3, <2>4, <2>5, LearnsFew
<1>5. CASE d > 0
  <2> DEFINE e == EventOf("ANTI_CLOCKWISE", "KNOB_1", n)
  <2>1. delta_sign(current) = - 1
    BY <1>1, <1>2, <1>5 DEF JM_sign
  <2>2. QEI_tick(current) = <<e>>
    BY <1>1, <1>5, <2>1 DEF QEI_tick
  <2>3. e \in BoardEvent
    BY <1>1, <1>5 DEF BoardEvent
  <2>4. n + 1 = d /\ x + (n + 1) = x + d
    BY <1>2, <1>5 DEF abs
  <2> HIDE DEF n
  <2>5. Observe(Known(P, x), e) = Known(P, Unsigned(x + (n + 1)))
    BY DEF Observe, EventOf, Known
  <2> HIDE DEF e
  <2> QED
    BY <1>2, <2>2, <2>3, <2>4, <2>5, LearnsFew
<1> QED
  BY <1>2, <1>3, <1>4, <1>5

\* So do all the events of a tick.
LEMMA TickTells ==
    ASSUME depressed \in SUBSET Switches, previous \in SUBSET Switches,
           previous_QEI_0_pos \in Positions,
           NEW d \in Turns, NEW current \in SUBSET Switches,
           delta_pos(Unsigned(previous_QEI_0_pos + d)) =< J_EVENT_MAX_REPEATS
    PROVE  LET pos    == Unsigned(previous_QEI_0_pos + d)
               events == BSP_switch_tick(current) \o QEI_tick(pos)
           IN  /\ pos \in Positions /\ Debounced(current) \in SUBSET Switches
               /\ events \in Seq(BoardEvent)
               /\ Learns(Known(depressed, previous_QEI_0_pos), events) =
                    Known(Debounced(current), pos)
<1> DEFINE x == previous_QEI_0_pos
           pos == Unsigned(x + d)
           now == Debounced(current)
           s1 == SwitchEvents("SWITCH_1", now)
           s2 == SwitchEvents("SWITCH_2", now)
           q == QEI_tick(pos)
           P1 == IF "SWITCH_1" \in now THEN depressed \cup {"SWITCH_1"}
                                       ELSE depressed \ {"SWITCH_1"}
           P2 == IF "SWITCH_2" \in now THEN P1 \cup {"SWITCH_2"}
                                       ELSE P1 \ {"SWITCH_2"}
<1>1. now \in SUBSET Switches /\ pos \in Positions
  BY TickFacts DEF Debounced
<1>2. P1 \in SUBSET Switches /\ P2 = now /\ ("SWITCH_2" \in P1 <=> "SWITCH_2" \in depressed)
  <2> HIDE DEF now
  <2> QED
    BY <1>1 DEF Switches
<1>3. /\ s1 \in Seq(BoardEvent)
      /\ Learns(Known(depressed, x), s1) = Known(P1, x)
  BY SwitchEventsTell DEF Switches
<1>4. s2 \in Seq(BoardEvent) /\ Learns(Known(P1, x), s2) = Known(P2, x)
  <2>1. ASSUME NEW P \in SUBSET Switches, "SWITCH_2" \in P <=> "SWITCH_2" \in depressed
        PROVE  /\ s2 \in Seq(BoardEvent)
               /\ Learns(Known(P, x), s2) =
                    Known(IF "SWITCH_2" \in now THEN P \cup {"SWITCH_2"}
                                                ELSE P \ {"SWITCH_2"}, x)
    BY <2>1, SwitchEventsTell DEF Switches
  <2> HIDE DEF P1, x, s2, now
  <2> QED
    BY <1>2, <2>1, Zenon
<1>5. q \in Seq(BoardEvent) /\ Learns(Known(now, x), q) = Known(now, pos)
  BY <1>1, KnobEventsTell
<1>6. Known(depressed, x) \in Knowledge
  BY DEF Known, Knowledge
<1> HIDE DEF s1, s2, q, P1, P2, now, pos, x
<1>7. s1 \o s2 \in Seq(BoardEvent) /\ (s1 \o s2) \o q \in Seq(BoardEvent)
  BY <1>3, <1>4, <1>5, ConcatProperties
<1>8. Learns(Known(depressed, x), s1 \o s2) = Known(now, x)
  BY <1>2, <1>3, <1>4, <1>6, LearnsConcat
<1>9. Learns(Known(depressed, x), (s1 \o s2) \o q) = Known(now, pos)
  <2> DEFINE s == s1 \o s2
  <2>1. s \in Seq(BoardEvent) /\ Learns(Known(depressed, x), s) = Known(now, x)
    BY <1>7, <1>8
  <2> HIDE DEF s
  <2>2. Learns(Known(depressed, x), s \o q) = Known(now, pos)
    BY <1>5, <1>6, <2>1, LearnsConcat
  <2> QED
    BY <2>2 DEF s
<1> QED
  BY <1>1, <1>7, <1>9 DEF BSP_switch_tick, s1, s2, q, now, pos, x

-----------------------------------------------------------------------------
(* From the tick to the handler.                                           *)

\* The first event and the others.
LEMMA LearnsFirst ==
    ASSUME NEW k \in Knowledge, NEW s \in Seq(BoardEvent), s # <<>>
    PROVE  /\ Head(s) \in BoardEvent /\ Tail(s) \in Seq(BoardEvent)
           /\ Learns(k, s) = Learns(Observe(k, Head(s)), Tail(s))
<1> DEFINE e == Head(s)
           t == Tail(s)
<1>1. /\ e \in BoardEvent /\ t \in Seq(BoardEvent) /\ Len(t) = Len(s) - 1
      /\ \A i \in 1 .. Len(t) : t[i] = s[i + 1]
  BY HeadTailProperties
<1>2. e = s[1] /\ Len(s) \in Nat /\ Len(s) # 0
  BY EmptySeq
<1> HIDE DEF e, t
<1>3. <<e>> \in Seq(BoardEvent) /\ Len(<<e>>) = 1 /\ <<e>>[1] = e
  BY <1>1
<1>4. <<e>> \o t = s
  <2>1. /\ <<e>> \o t \in Seq(BoardEvent) /\ Len(<<e>> \o t) = 1 + Len(t)
        /\ \A i \in 1 .. 1 + Len(t) :
              (<<e>> \o t)[i] = IF i <= 1 THEN <<e>>[i] ELSE t[i - 1]
    BY <1>1, <1>3, ConcatProperties
  <2> DEFINE u == <<e>> \o t
  <2> HIDE DEF u
  <2>2. u \in Seq(BoardEvent) /\ Len(u) = Len(s)
    BY <1>1, <1>2, <2>1 DEF u
  <2>3. ASSUME NEW i \in 1 .. Len(u) PROVE u[i] = s[i]
    <3>1. CASE i = 1
      BY <1>2, <1>3, <2>1, <2>2, <3>1 DEF u
    <3>2. CASE i # 1
      <4>1. i - 1 \in 1 .. Len(t) /\ ~(i <= 1) /\ i \in 1 .. 1 + Len(t)
        BY <1>1, <1>2, <2>2, <3>2
      <4> QED
        BY <1>1, <2>1, <4>1 DEF u
    <3> QED
      BY <3>1, <3>2
  <2>4. u = s
    BY <2>2, <2>3, SeqEqual
  <2> QED
    BY <2>4 DEF u
<1>5. Learns(k, <<e>> \o t) = Learns(Observe(k, e), t)
  <2> DEFINE first == <<e>>
  <2>1. first \in Seq(BoardEvent) /\ Learns(k, first) = Observe(k, e)
    BY <1>1, LearnsFew
  <2> HIDE DEF first
  <2>2. Learns(k, first \o t) = Learns(Observe(k, e), t)
    BY <1>1, <2>1, LearnsConcat
  <2> QED
    BY <2>2 DEF first
<1> QED
  BY <1>1, <1>4, <1>5 DEF e, t

\* What is known with the events in the queue, and then with those to come.
Untold == Learns(Learns(observed, Contents), posts)

\* The queue is sound, and the events tell all.
BoardInv ==
    /\ IInv
    /\ depressed \in SUBSET Switches /\ previous \in SUBSET Switches
    /\ previous_QEI_0_pos \in Positions
    /\ posts \in Seq(BoardEvent) /\ observed \in Knowledge
    /\ fault = "none" => Untold = Known(depressed, previous_QEI_0_pos)
    /\ OnlyFastTurnsFail

\* Each step of the board is a call of the queue, or none.
LEMMA BoardCallsQueue == BoardInv /\ [BoardNext]_board_vars => [Next]_vars
<1> SUFFICES ASSUME BoardInv, [BoardNext]_board_vars PROVE [Next]_vars
  OBVIOUS
<1>1. CASE SysTick_Handler
  BY <1>1 DEF SysTick_Handler, BSP_tick, Next, queue_vars
<1>2. CASE OS_EQT_post
  <2>1. Head(posts) \in Event
    BY <1>2, EventAssumption, HeadTailProperties DEF BoardInv, OS_EQT_post
  <2> QED
    BY <1>2, <2>1 DEF OS_EQT_post, Next
<1>3. CASE OS_EventQueue_pump
  BY <1>3 DEF OS_EventQueue_pump, Next
<1>4. CASE J_on_assert_failed
  BY <1>4 DEF J_on_assert_failed, Next
<1>5. CASE UNCHANGED board_vars
  BY <1>5 DEF board_vars, queue_vars
<1> QED
  BY <1>1, <1>2, <1>3, <1>4, <1>5 DEF BoardNext

\* What is waiting, and what is known with it.
LEMMA BoardTypes ==
    ASSUME BoardInv
    PROVE  /\ Contents \in Seq(BoardEvent)
           /\ Learns(observed, Contents) \in Knowledge
<1>1. Contents \in Seq(BoardEvent)
  BY ContentsType, EventAssumption DEF BoardInv, IInv
<1> QED
  BY <1>1, LearnsConcat DEF BoardInv

\* The board after a reset.
Started ==
    /\ IInv /\ capacity = size /\ fault = "none"
    /\ posts = <<INIT_SIG>> /\ observed = Nothing
    /\ depressed = {} /\ previous = {} /\ previous_QEI_0_pos = StartPos

\* After a reset nothing is known, and nothing was to be told.
LEMMA StartTells == Started => BoardInv
<1> SUFFICES ASSUME Started PROVE BoardInv
  OBVIOUS
<1> USE DEF Started
<1>1. INIT_SIG \in BoardEvent /\ Nothing \in Knowledge /\ StartPos \in Positions
  BY PositionFacts DEF BoardEvent, Nothing, Knowledge
<1>2. Contents = <<>>
  BY ContentsEnds
<1>3. Observe(Nothing, INIT_SIG) = Nothing
  BY DEF Observe, INIT_SIG, EventOf
<1>4. Untold = Nothing /\ posts \in Seq(BoardEvent)
  BY <1>1, <1>2, <1>3, LearnsFew DEF Untold
<1>5. Nothing = Known({}, StartPos)
  BY DEF Nothing, Known
<1> QED
  BY <1>1, <1>4, <1>5 DEF BoardInv, OnlyFastTurnsFail

\* The board starts as after a reset.
LEMMA InitBoardInv == BoardInit => BoardInv
<1> SUFFICES ASSUME BoardInit PROVE BoardInv
  OBVIOUS
<1>1. IInv
  BY InitInv DEF BoardInit
<1>2. capacity = size /\ fault = "none"
  BY DEF BoardInit, J_EventQueue_init
<1> QED
  BY <1>1, <1>2, StartTells DEF BoardInit, Started

\* A tick adds what it tells, a post moves it, and the handler learns it.
LEMMA NextBoardInv == BoardInv /\ [BoardNext]_board_vars => BoardInv'
<1> SUFFICES ASSUME BoardInv, [BoardNext]_board_vars PROVE BoardInv'
  OBVIOUS
<1>1. IInv /\ IInv'
  BY BoardCallsQueue, NextInv DEF BoardInv
<1>2. /\ depressed \in SUBSET Switches /\ previous \in SUBSET Switches
      /\ previous_QEI_0_pos \in Positions
      /\ posts \in Seq(BoardEvent) /\ observed \in Knowledge
      /\ Contents \in Seq(BoardEvent) /\ Learns(observed, Contents) \in Knowledge
  BY BoardTypes DEF BoardInv
<1>3. CASE SysTick_Handler
  <2>1. PICK pressed \in SUBSET Switches, d \in Turns : BSP_tick(pressed, d)
    BY <1>3 DEF SysTick_Handler
  <2> DEFINE pos == Unsigned(previous_QEI_0_pos + d)
  <2>2. CASE delta_pos(pos) =< J_EVENT_MAX_REPEATS
    <3>1. /\ depressed' = Debounced(pressed) /\ previous' = pressed
          /\ previous_QEI_0_pos' = pos
          /\ posts' = BSP_switch_tick(pressed) \o QEI_tick(pos)
          /\ observed' = observed /\ fault' = "none" /\ fault = "none"
          /\ posts = <<>> /\ vars' = vars
      BY <2>1, <2>2 DEF BSP_tick, Between, queue_vars, vars
    <3>2. /\ pos \in Positions /\ Debounced(pressed) \in SUBSET Switches
          /\ posts' \in Seq(BoardEvent)
          /\ Learns(Known(depressed, previous_QEI_0_pos), posts') =
               Known(Debounced(pressed), pos)
      BY <1>2, <2>2, <3>1, TickTells
    <3>3. Contents' = Contents
      BY <3>1 DEF Contents, vars, After
    <3>4. Learns(observed, Contents) = Known(depressed, previous_QEI_0_pos)
      <4>1. INIT_SIG \in BoardEvent
        BY DEF BoardEvent
      <4>2. Untold = Learns(observed, Contents)
        BY <1>2, <3>1, <4>1, LearnsFew DEF Untold
      <4> QED
        BY <3>1, <4>2 DEF BoardInv
    <3>5. Untold' = Known(depressed', previous_QEI_0_pos')
      BY <3>1, <3>2, <3>3, <3>4 DEF Untold, Known
    <3>6. OnlyFastTurnsFail'
      BY <3>1 DEF OnlyFastTurnsFail
    <3> QED
      BY <1>1, <1>2, <3>1, <3>2, <3>5, <3>6 DEF BoardInv
  <2>3. CASE ~(delta_pos(pos) =< J_EVENT_MAX_REPEATS)
    <3>1. /\ fault' = "elsewhere" /\ turned' = d /\ UNCHANGED <<input_vars, posts, observed>>
      BY <2>1, <2>3 DEF BSP_tick, FailsElsewhere, Fail
    <3>2. delta_pos(pos) = abs(d) /\ abs(d) \in Nat /\ J_EVENT_MAX_REPEATS \in Nat
      BY <1>2, TickFacts, PositionFacts
    <3>3. abs(d) > J_EVENT_MAX_REPEATS
      BY <2>3, <3>2
    <3>4. OnlyFastTurnsFail'
      BY <3>1, <3>3 DEF OnlyFastTurnsFail, abs
    <3> QED
      BY <1>1, <1>2, <3>1, <3>4 DEF BoardInv, input_vars
  <2> QED
    BY <2>2, <2>3
<1>4. CASE OS_EQT_post
  <2> DEFINE e == Head(posts)
  <2>1. /\ posts # <<>> /\ J_EventQueue_put(e) /\ posts' = Tail(posts)
        /\ UNCHANGED <<input_vars, turned, observed>>
        /\ fault = "none"
    BY <1>4 DEF OS_EQT_post, J_EventQueue_put
  <2>2. /\ e \in BoardEvent /\ posts' \in Seq(BoardEvent)
        /\ Untold = Learns(Observe(Learns(observed, Contents), e), posts')
    BY <1>2, <2>1, LearnsFirst DEF Untold
  <2>3. CASE fault' = "queue full"
    BY <1>1, <1>2, <2>1, <2>2, <2>3 DEF BoardInv, input_vars, OnlyFastTurnsFail
  <2>4. CASE /\ capacity > 0 /\ fault' = "none"
             /\ buffer' = [buffer EXCEPT ![tail] = e]
             /\ capacity' = capacity - 1 /\ head' = head
    <3>1. Contents' = Append(Contents, e)
      BY <1>1, <2>2, <2>4, PutAppends, EventAssumption
    <3>2. Append(Contents, e) = Contents \o <<e>>
      BY <1>2, <2>2, AppendIsConcat
    <3>3. Learns(observed, Contents') = Observe(Learns(observed, Contents), e)
      <4> DEFINE one == <<e>>
                 knows == Learns(observed, Contents)
      <4>1. one \in Seq(BoardEvent) /\ Learns(knows, one) = Observe(knows, e)
        BY <1>2, <2>2, LearnsFew
      <4> HIDE DEF one
      <4>2. Learns(observed, Contents \o one) = Observe(knows, e)
        BY <1>2, <4>1, LearnsConcat
      <4> QED
        BY <3>1, <3>2, <4>2 DEF one
    <3>4. Untold' = Untold
      BY <2>1, <2>2, <3>3 DEF Untold
    <3>5. OnlyFastTurnsFail'
      BY <2>4 DEF OnlyFastTurnsFail
    <3> QED
      BY <1>1, <1>2, <2>1, <2>2, <3>4, <3>5 DEF BoardInv, input_vars
  <2> QED
    BY <1>1, <2>1, <2>2, <2>3, <2>4, PutEffect, EventAssumption DEF Fail
<1>5. CASE OS_EventQueue_pump
  <2>1. /\ J_EventQueue_get /\ capacity < size /\ posts = <<>> /\ fault = "none"
        /\ observed' = Observe(observed, taken')
        /\ UNCHANGED <<input_vars, turned, posts>>
    BY <1>5 DEF OS_EventQueue_pump, Between
  <2>2. capacity # size
    <3>1. capacity \in 0 .. size
      BY <1>1 DEF IInv, TypeOK
    <3>2. capacity \in Int /\ size \in Int
      BY <3>1, CapacityFacts
    <3> QED
      BY <2>1, <3>2
  <2>3. /\ taken' = buffer[head] /\ head' = Advance(head) /\ buffer' = buffer
        /\ capacity' = capacity + 1 /\ fault' = "none"
    BY <1>1, <2>1, <2>2, GetEffect
  <2>4. /\ Contents # <<>> /\ taken' = Head(Contents) /\ Contents' = Tail(Contents)
    BY <1>1, <2>1, <2>3, GetTakesFirst
  <2>5. /\ taken' \in BoardEvent
        /\ Learns(observed, Contents) = Learns(observed', Contents')
    BY <1>2, <2>1, <2>4, LearnsFirst
  <2>6. observed' \in Knowledge
    BY <1>2, <2>1, <2>5, ObserveType
  <2>7. Untold' = Untold
    BY <2>1, <2>5 DEF Untold
  <2>8. OnlyFastTurnsFail'
    BY <2>3 DEF OnlyFastTurnsFail
  <2> QED
    BY <1>1, <1>2, <2>1, <2>6, <2>7, <2>8 DEF BoardInv, input_vars
<1>6. CASE J_on_assert_failed
  <2>1. Started'
    BY <1>1, <1>6 DEF J_on_assert_failed, Reset, Started
  <2>2. Started' => BoardInv'
    BY StartTells, PTL
  <2> QED
    BY <2>1, <2>2
<1>7. CASE UNCHANGED board_vars
  <2>1. UNCHANGED <<vars, input_vars, turned, posts, observed>>
    BY <1>7 DEF board_vars, queue_vars
  <2>2. Contents' = Contents
    BY <2>1 DEF Contents, vars, After
  <2>3. Untold' = Untold
    BY <2>1, <2>2 DEF Untold
  <2>4. OnlyFastTurnsFail'
    BY <2>1 DEF OnlyFastTurnsFail, vars, BoardInv
  <2> QED
    BY <1>1, <1>2, <2>1, <2>3, <2>4 DEF BoardInv, input_vars, vars
<1> QED
  BY <1>3, <1>4, <1>5, <1>6, <1>7 DEF BoardNext

\* So it holds in every reachable state.
LEMMA BoardInvariance == BoardSpec => []BoardInv
BY InitBoardInv, NextBoardInv, PTL DEF BoardSpec

\* The board uses the queue as its specification allows: what holds of the
\* queue for any callers holds of it on the board.
THEOREM BoardUsesQueue == BoardSpec => Spec
<1>1. BoardInit => J_EventQueue_init
  BY DEF BoardInit
<1> QED
  BY <1>1, BoardCallsQueue, BoardInvariance, PTL DEF BoardSpec, Spec

\* On the board too, no counter wraps around, no pointer leaves the buffer, and
\* the buffer is a bounded first-in first-out queue.
THEOREM BoardQueueIsFifo ==
    BoardSpec => []TypeOK /\ []OnlyMisuseFails /\ ImplementsFifo
BY BoardUsesQueue, TypeCorrect, PointersNeverFail, RefinesBoundedFifo, PTL

\* Whoever reads the events knows the debounced switches and the sampled
\* position, for every size of the queue, every number of positions and every
\* turn below half of them.
THEOREM ObserverKnowsAll == BoardSpec => []EventsTellAll
<1>1. BoardInv => EventsTellAll
  <2> SUFFICES ASSUME BoardInv, fault = "none"
               PROVE  Learns(observed, Contents \o posts)
                        = Known(depressed, previous_QEI_0_pos)
    BY DEF EventsTellAll, Known
  <2> QED
    BY BoardTypes, LearnsConcat DEF BoardInv, Untold
<1> QED
  BY <1>1, BoardInvariance, PTL

\* The assertion in QEI_tick fails when the knob turned by more than an event
\* holds, wherever the counter was.
THEOREM OverflowNeverFails == BoardSpec => []OnlyFastTurnsFail
BY BoardInvariance, PTL DEF BoardInv
=============================================================================

------------------------ MODULE SerialMonitorProofs ------------------------
(***************************************************************************)
(* Theorems about the serial monitor of module SerialMonitor, as the       *)
(* program and the report of a failed assertion use it in AssertReport.    *)
(*                                                                         *)
(* They hold wherever the two calls of the monitor are made and wherever   *)
(* assertions fail, until a handler comes in the middle of a call: the     *)
(* history variable disturbed says so.  main.c makes the calls outside of  *)
(* critical sections, so that this can happen, and                         *)
(* MCSerialMonitor_preempted.cfg shows what follows.                       *)
(***************************************************************************)
EXTENDS AssertReport, SequenceTheorems, TLAPS

Arithmetic == INSTANCE ArithmeticProofs

-----------------------------------------------------------------------------
(* The cyclic buffer.                                                      *)

B == JSM_BUFFER_SIZE

\* The slot i after p.
Place(p, i) == IF p + i >= B THEN p + i - B ELSE p + i

\* The sizes, without the powers and remainders behind them.
LEMMA Sizes ==
    /\ B \in Nat /\ B >= 1 /\ Slots = 0 .. B - 1
    /\ Len(Warning) \in Nat /\ Len(Warning) < B
    /\ \A n \in 0 .. B - 1 : Byte(n + 1) = n + 1
    /\ \A n \in 1 .. B : Byte(n + 2^Width - 1) = n - 1
    /\ \A n \in Int : Byte(n) \in 0 .. B
    /\ \A p \in Slots, i \in Slots : (p + i) % B = Place(p, i)
    /\ JSM_BUFFER_SIZE = B
<1>1. 2^Width \in 2 .. 256
  BY Arithmetic!PowersOfTwo, SerialMonitorAssumption DEF SerialMonitorAssumption
<1>2. /\ B = 2^Width - 1 /\ Slots = 0 .. B - 1 /\ JSM_BUFFER_SIZE = B
      /\ \A n : Byte(n) = n % 2^Width
  BY DEF B, JSM_BUFFER_SIZE, Slots, Byte
<1>3. Len(Warning) \in Nat /\ Len(Warning) < B
  BY SerialMonitorAssumption DEF SerialMonitorAssumption, B
<1>4. ASSUME NEW K \in 2 .. 256, NEW b \in Int, b = K - 1
      PROVE  /\ b \in Nat /\ b >= 1
             /\ \A n \in 0 .. b - 1 : (n + 1) % K = n + 1
             /\ \A n \in 1 .. b : (n + K - 1) % K = n - 1
             /\ \A n \in Int : n % K \in 0 .. b
  <2>1. /\ \A n \in 0 .. K - 1 : n % K = n
        /\ \A n \in K .. 2 * K - 1 : n % K = n - K
        /\ \A n \in Int : n % K \in 0 .. K - 1
    BY Arithmetic!SmallRemainders
  <2>2. ASSUME NEW n \in 1 .. b PROVE (n + K - 1) % K = n - 1
    <3> DEFINE x == n + K - 1
    <3>1. x \in K .. 2 * K - 1 /\ x - K = n - 1
      BY <1>4
    <3> HIDE DEF x
    <3>2. x % K = n - 1
      BY <2>1, <3>1
    <3> QED
      BY <3>2 DEF x
  <2>3. ASSUME NEW n \in 0 .. b - 1 PROVE (n + 1) % K = n + 1
    <3>1. n + 1 \in 0 .. K - 1
      BY <1>4
    <3> QED
      BY <2>1, <3>1
  <2>4. ASSUME NEW n \in Int PROVE n % K \in 0 .. b
    <3>1. 0 .. b = 0 .. K - 1
      BY <1>4
    <3> QED
      BY <2>1, <3>1
  <2> QED
    BY <1>4, <2>2, <2>3, <2>4
<1>5. ASSUME NEW b \in Nat, b >= 1, NEW p \in 0 .. b - 1, NEW i \in 0 .. b - 1
      PROVE  (p + i) % b = IF p + i >= b THEN p + i - b ELSE p + i
  <2>1. /\ \A n \in 0 .. b - 1 : n % b = n
        /\ \A n \in b .. 2 * b - 1 : n % b = n - b
    BY <1>5, Arithmetic!SmallRemainders
  <2>2. CASE p + i >= b
    <3>1. p + i \in b .. 2 * b - 1
      BY <2>2
    <3> QED
      BY <2>1, <2>2, <3>1
  <2>3. CASE ~(p + i >= b)
    <3>1. p + i \in 0 .. b - 1
      BY <2>3
    <3> QED
      BY <2>1, <2>3, <3>1
  <2> QED
    BY <2>2, <2>3
<1>6. B \in Int
  BY <1>1, <1>2
<1>7. /\ B \in Nat /\ B >= 1
      /\ \A n \in 0 .. B - 1 : (n + 1) % 2^Width = n + 1
      /\ \A n \in 1 .. B : (n + 2^Width - 1) % 2^Width = n - 1
      /\ \A n \in Int : n % 2^Width \in 0 .. B
  BY <1>1, <1>2, <1>4, <1>6
<1>8. \A p \in Slots, i \in Slots : (p + i) % B = Place(p, i)
  BY <1>2, <1>5, <1>7, Zenon DEF Place
<1> QED
  BY <1>1, <1>2, <1>3, <1>7, <1>8, Zenon

\* The slots after p, one by one.
LEMMA Places ==
    ASSUME NEW p \in Slots, NEW i \in 0 .. B
    PROVE  /\ Place(p, i) \in Slots /\ Wrapped(p + 1) \in Slots
           /\ i < B => /\ Place(p, i + 1) = Place(Wrapped(p + 1), i)
                       /\ Place(p, i + 1) = Wrapped(Place(p, i) + 1)
           /\ Place(p, 0) = p
           /\ \A j \in 0 .. B : i # j /\ Place(p, i) = Place(p, j) =>
                                   i = B \/ j = B
<1>1. /\ B \in Nat /\ B >= 1 /\ JSM_BUFFER_SIZE = B
      /\ \A q \in Slots : q \in Int /\ 0 <= q /\ q < B
      /\ \A q \in Int : 0 <= q /\ q < B => q \in Slots
  <2>1. /\ B \in Nat /\ B >= 1 /\ JSM_BUFFER_SIZE = B
        /\ Slots = 0 .. B - 1
    BY Sizes
  <2>2. ASSUME NEW b \in Nat, NEW q \in Int
        PROVE  q \in 0 .. b - 1 <=> 0 <= q /\ q < b
    OBVIOUS
  <2>3. \A q \in 0 .. B - 1 : q \in Int
    OBVIOUS
  <2> QED
    BY <2>1, <2>2, <2>3, Zenon
<1>2. /\ p \in Int /\ 0 <= p /\ p < B
      /\ i \in Int /\ 0 <= i /\ i <= B
  BY <1>1
<1>3. \A q, j : Place(q, j) = IF q + j >= B THEN q + j - B ELSE q + j
  BY DEF Place
<1>4. \A q : Wrapped(q) = IF q >= B THEN 0 ELSE q
  BY <1>1 DEF Wrapped
<1>5. Place(p, i) \in Slots /\ Wrapped(p + 1) \in Slots /\ Place(p, 0) = p
  BY <1>1, <1>2, <1>3, <1>4
<1>6. ASSUME i < B
      PROVE  Place(p, i + 1) = Place(Wrapped(p + 1), i)
  BY <1>1, <1>2, <1>3, <1>4, <1>6
<1>7. ASSUME i < B
      PROVE  Place(p, i + 1) = Wrapped(Place(p, i) + 1)
  BY <1>1, <1>2, <1>3, <1>4, <1>7
<1>8. ASSUME NEW j \in 0 .. B, i # j, Place(p, i) = Place(p, j)
      PROVE  i = B \/ j = B
  BY <1>1, <1>2, <1>3, <1>8
<1> QED
  BY <1>5, <1>6, <1>7, <1>8

\* The monitor.
MonitorState ==
    [buffer: [Slots -> Chars], head: Slots, tail: Slots, capacity: 0 .. B,
     sent: Seq(Chars), written: Seq(Chars)]

\* The tail is as many slots after the head as are used, and what was printed
\* is what was sent, followed by what is in those slots.
Whole(mon) ==
    /\ mon.tail = Place(mon.head, B - mon.capacity)
    /\ Len(mon.written) = Len(mon.sent) + (B - mon.capacity)
    /\ \A i \in 1 .. Len(mon.sent) : mon.written[i] = mon.sent[i]
    /\ \A i \in 0 .. B - 1 : i < B - mon.capacity =>
          mon.written[Len(mon.sent) + i + 1] = mon.buffer[Place(mon.head, i)]

\* The monitors that are whole and have n free slots.
WholeWith(n) == {mon \in MonitorState : Whole(mon) /\ mon.capacity = n}

\* What appending to a sequence does.
LEMMA Appending ==
    ASSUME NEW S, NEW s \in Seq(S), NEW e \in S
    PROVE  /\ Append(s, e) \in Seq(S)
           /\ Len(s) \in Nat /\ Len(Append(s, e)) = Len(s) + 1
           /\ \A i \in 1 .. Len(s) : Append(s, e)[i] = s[i]
           /\ Append(s, e)[Len(s) + 1] = e
BY AppendProperties, LenProperties

\* What sending the oldest character does.
LEMMA TransmitFields ==
    ASSUME NEW g \in MonitorState
    PROVE  LET t == transmit_char(g)
           IN  /\ t \in MonitorState
               /\ t.buffer = g.buffer /\ t.tail = g.tail /\ t.written = g.written
               /\ t.head = Wrapped(g.head + 1)
               /\ t.capacity = Byte(g.capacity + 1)
               /\ t.sent = Append(g.sent, g.buffer[g.head])
<1> DEFINE sent == Append(g.sent, g.buffer[g.head])
           t1 == [g EXCEPT !.sent = sent]
           t2 == [t1 EXCEPT !.head = g.head + 1]
           t3 == [t2 EXCEPT !.capacity = Byte(g.capacity + 1)]
           t4 == [t3 EXCEPT !.head = Wrapped(g.head + 1)]
<1>1. transmit_char(g) = t4
  BY DEF transmit_char, WrapHead, Free, AdvanceHead, UART_write, MonitorState
<1>2. sent \in Seq(Chars)
  BY Appending DEF MonitorState
<1>3. Wrapped(g.head + 1) \in Slots
  BY Places, Sizes DEF MonitorState
<1>4. Byte(g.capacity + 1) \in 0 .. B
  <2>1. g.capacity + 1 \in Int
    BY Sizes DEF MonitorState
  <2> QED
    BY <2>1, Sizes
<1> HIDE DEF sent
<1>5. /\ t4 \in MonitorState
      /\ t4.buffer = g.buffer /\ t4.tail = g.tail /\ t4.written = g.written
      /\ t4.head = Wrapped(g.head + 1)
      /\ t4.capacity = Byte(g.capacity + 1) /\ t4.sent = sent
  BY <1>2, <1>3, <1>4 DEF MonitorState
<1> QED
  BY <1>1, <1>5 DEF sent

\* What storing a character does.
LEMMA StoredFields ==
    ASSUME NEW g \in MonitorState, NEW c \in Chars
    PROVE  LET t == Stored(g, c)
           IN  /\ t \in MonitorState
               /\ t.buffer = [g.buffer EXCEPT ![g.tail] = c]
               /\ t.tail = Wrapped(g.tail + 1)
               /\ t.written = Append(g.written, c)
               /\ t.head = g.head /\ t.sent = g.sent
               /\ t.capacity = Byte(g.capacity + 2^Width - 1)
<1> DEFINE buffer == [g.buffer EXCEPT ![g.tail] = c]
           written == Append(g.written, c)
           t1 == [g EXCEPT !.buffer = buffer, !.written = written]
           t2 == [t1 EXCEPT !.tail = g.tail + 1]
           t3 == [t2 EXCEPT !.tail = Wrapped(g.tail + 1)]
           t4 == [t3 EXCEPT !.capacity = Byte(g.capacity + 2^Width - 1)]
<1>1. Stored(g, c) = t4
  BY DEF Stored, Occupy, WrapTail, AdvanceTail, Store, MonitorState
<1>2. written \in Seq(Chars) /\ buffer \in [Slots -> Chars]
  BY Appending DEF MonitorState
<1>3. Wrapped(g.tail + 1) \in Slots
  BY Places, Sizes DEF MonitorState
<1>4. Byte(g.capacity + 2^Width - 1) \in 0 .. B
  <2>1. g.capacity + 2^Width - 1 \in Int
    BY Sizes, SerialMonitorAssumption DEF MonitorState, SerialMonitorAssumption
  <2> QED
    BY <2>1, Sizes
<1> HIDE DEF buffer, written
<1>5. /\ t4 \in MonitorState
      /\ t4.buffer = buffer /\ t4.head = g.head /\ t4.written = written
      /\ t4.tail = Wrapped(g.tail + 1) /\ t4.sent = g.sent
      /\ t4.capacity = Byte(g.capacity + 2^Width - 1)
  BY <1>2, <1>3, <1>4 DEF MonitorState
<1> QED
  BY <1>1, <1>5 DEF buffer, written

\* Sending a character keeps a monitor whole, and frees a slot.
LEMMA TransmitWhole ==
    ASSUME NEW n \in 0 .. B - 1, NEW g \in WholeWith(n)
    PROVE  transmit_char(g) \in WholeWith(n + 1)
<1> DEFINE t == transmit_char(g)
<1>1. g \in MonitorState /\ Whole(g) /\ g.capacity = n
  BY DEF WholeWith
<1>2. /\ t \in MonitorState
      /\ t.buffer = g.buffer /\ t.tail = g.tail /\ t.written = g.written
      /\ t.head = Wrapped(g.head + 1)
      /\ t.capacity = n + 1
      /\ t.sent = Append(g.sent, g.buffer[g.head])
  BY <1>1, TransmitFields, Sizes
<1> HIDE DEF t
<1>3. B \in Nat /\ n \in Nat /\ n < B /\ g.head \in Slots
  BY <1>1, Sizes DEF MonitorState
<1>4. /\ Len(g.sent) \in Nat /\ Len(t.sent) = Len(g.sent) + 1
      /\ \A i \in 1 .. Len(g.sent) : t.sent[i] = g.sent[i]
      /\ t.sent[Len(g.sent) + 1] = g.buffer[g.head]
  BY <1>1, <1>2, Appending DEF MonitorState
<1>5. ASSUME NEW i \in 0 .. B - 1
      PROVE  Place(g.head, i + 1) = Place(t.head, i)
  <2>1. i \in 0 .. B /\ i < B
    BY <1>3
  <2>2. Place(g.head, i + 1) = Place(Wrapped(g.head + 1), i)
    BY <1>3, <2>1, Places
  <2> QED
    BY <1>2, <2>2
<1>6. t.tail = Place(t.head, B - t.capacity)
  <2>1. B - n - 1 \in 0 .. B - 1 /\ B - n - 1 + 1 = B - n /\ B - t.capacity = B - n - 1
    BY <1>2, <1>3
  <2> QED
    BY <1>1, <1>2, <1>5, <2>1 DEF Whole
<1>7. Len(t.written) = Len(t.sent) + (B - t.capacity)
  <2>1. Len(g.written) = Len(g.sent) + (B - n)
    BY <1>1 DEF Whole
  <2>2. ASSUME NEW b \in Nat, NEW k \in Nat PROVE k + (b - n) = (k + 1) + (b - (n + 1))
    BY <1>3
  <2> QED
    BY <1>2, <1>3, <1>4, <2>1, <2>2, Zenon
<1>8. ASSUME NEW i \in 1 .. Len(t.sent) PROVE t.written[i] = t.sent[i]
  <2>1. CASE i = Len(g.sent) + 1
    <3>1. Place(g.head, 0) = g.head
      BY <1>3, Places
    <3>2. 0 \in 0 .. B - 1 /\ 0 < B - n /\ Len(g.sent) + 0 + 1 = Len(g.sent) + 1
      BY <1>3, <1>4
    <3> QED
      BY <1>1, <1>2, <1>4, <2>1, <3>1, <3>2 DEF Whole
  <2>2. CASE i \in 1 .. Len(g.sent)
    BY <1>1, <1>2, <1>4, <2>2 DEF Whole
  <2> QED
    BY <1>4, <1>8, <2>1, <2>2
<1>9. ASSUME NEW i \in 0 .. B - 1, i < B - t.capacity
      PROVE  t.written[Len(t.sent) + i + 1] = t.buffer[Place(t.head, i)]
  <2>1. i + 1 \in 0 .. B - 1 /\ i + 1 < B - n
    BY <1>2, <1>3, <1>9
  <2>3. Len(t.sent) + i + 1 = Len(g.sent) + (i + 1) + 1
    <3>1. i \in Int /\ Len(g.sent) \in Int
      BY <1>3, <1>4
    <3>2. \A k, j \in Int : (k + 1) + j + 1 = k + (j + 1) + 1
      OBVIOUS
    <3> QED
      BY <1>4, <3>1, <3>2, Zenon
  <2>2. g.written[Len(g.sent) + (i + 1) + 1] = g.buffer[Place(g.head, i + 1)]
    BY <1>1, <2>1 DEF Whole
  <2> QED
    BY <1>2, <1>5, <2>1, <2>2, <2>3
<1> QED
  BY <1>2, <1>3, <1>6, <1>7, <1>8, <1>9 DEF WholeWith, Whole, t

\* Storing a character keeps it whole too, and uses a slot.
LEMMA StoredWhole ==
    ASSUME NEW n \in 1 .. B, NEW g \in WholeWith(n), NEW c \in Chars
    PROVE  Stored(g, c) \in WholeWith(n - 1)
<1> DEFINE t == Stored(g, c)
           used == B - n
<1>1. g \in MonitorState /\ Whole(g) /\ g.capacity = n
  BY DEF WholeWith
<1>2. /\ t \in MonitorState
      /\ t.buffer = [g.buffer EXCEPT ![g.tail] = c]
      /\ t.tail = Wrapped(g.tail + 1)
      /\ t.written = Append(g.written, c)
      /\ t.head = g.head /\ t.sent = g.sent
      /\ t.capacity = n - 1
  BY <1>1, StoredFields, Sizes
<1> HIDE DEF t
<1>3. /\ B \in Nat /\ n \in Nat /\ g.head \in Slots /\ g.tail \in Slots
      /\ used \in 0 .. B - 1 /\ B - (n - 1) = used + 1
  BY <1>1, Sizes DEF MonitorState
<1>4. g.tail = Place(g.head, used) /\ Len(g.written) = Len(g.sent) + used
  BY <1>1 DEF Whole
<1>5. /\ Len(g.sent) \in Nat /\ Len(t.written) = Len(g.written) + 1
      /\ \A i \in 1 .. Len(g.written) : t.written[i] = g.written[i]
      /\ t.written[Len(g.written) + 1] = c
  BY <1>1, <1>2, Appending DEF MonitorState
<1>6. ASSUME NEW i \in 0 .. B - 1, i < used
      PROVE  t.buffer[Place(g.head, i)] = g.buffer[Place(g.head, i)]
  <2>1. i \in 0 .. B /\ used \in 0 .. B /\ i # used /\ i # B /\ used # B
    BY <1>3, <1>6
  <2> HIDE DEF used
  <2>2. Place(g.head, i) \in Slots /\ Place(g.head, i) # g.tail
    BY <1>3, <1>4, <2>1, Places
  <2> QED
    BY <1>1, <1>2, <2>2 DEF MonitorState
<1>7. t.buffer[Place(g.head, used)] = c
  BY <1>1, <1>2, <1>3, <1>4 DEF MonitorState
<1>8. t.tail = Place(t.head, B - t.capacity)
  <2>1. used \in 0 .. B /\ used < B /\ B - t.capacity = used + 1
    BY <1>2, <1>3
  <2> HIDE DEF used
  <2>2. Place(g.head, used + 1) = Wrapped(Place(g.head, used) + 1)
    BY <1>3, <2>1, Places
  <2> QED
    BY <1>2, <1>4, <2>1, <2>2
<1> HIDE DEF used
<1>9. Len(t.written) = Len(t.sent) + (B - t.capacity)
  <2>1. B - t.capacity = used + 1 /\ used \in Nat
    BY <1>2, <1>3
  <2>2. \A k, l \in Nat : k + (l + 1) = (k + l) + 1
    OBVIOUS
  <2>3. Len(t.written) = (Len(g.sent) + used) + 1
    BY <1>4, <1>5, Zenon
  <2>4. Len(t.written) = Len(g.sent) + (used + 1)
    BY <1>5, <2>1, <2>2, <2>3, Zenon
  <2> QED
    BY <1>2, <2>1, <2>4, Zenon
<1>10. ASSUME NEW i \in 1 .. Len(t.sent) PROVE t.written[i] = t.sent[i]
  <2>1. i \in 1 .. Len(g.sent) /\ i \in 1 .. Len(g.written)
    BY <1>2, <1>3, <1>4, <1>5
  <2> QED
    BY <1>1, <1>2, <1>5, <2>1 DEF Whole
<1>11. ASSUME NEW i \in 0 .. B - 1, i < B - t.capacity
      PROVE  t.written[Len(t.sent) + i + 1] = t.buffer[Place(t.head, i)]
  <2>1. CASE i = used
    BY <1>2, <1>4, <1>5, <1>7, <2>1
  <2>2. CASE i # used
    <3>1. i < used /\ i < B - g.capacity
      <4>1. i < used + 1
        BY <1>2, <1>3, <1>11
      <4> QED
        BY <1>1, <1>3, <2>2, <4>1 DEF used
    <3>3. Len(g.sent) + i + 1 \in 1 .. Len(g.written)
      <4>1. i \in Nat /\ used \in Nat
        BY <1>3
      <4>2. ASSUME NEW k \in Nat, NEW l \in Nat, l < used
            PROVE  k + l + 1 \in 1 .. (k + used)
        BY <4>1, <4>2
      <4> QED
        BY <1>4, <1>5, <3>1, <4>1, <4>2, Zenon
    <3>2. g.written[Len(g.sent) + i + 1] = g.buffer[Place(g.head, i)]
      BY <1>1, <3>1 DEF Whole
    <3> QED
      BY <1>2, <1>5, <1>6, <3>1, <3>2, <3>3
  <2> QED
    BY <2>1, <2>2
<1> QED
  BY <1>2, <1>8, <1>9, <1>10, <1>11 DEF WholeWith, Whole, t

-----------------------------------------------------------------------------
(* The loops.                                                              *)

\* JSM_transmit_buffer empties a whole monitor, and prints nothing.
LEMMA TransmitEmpties ==
    ASSUME NEW n \in 0 .. B, NEW g \in WholeWith(n)
    PROVE  /\ JSM_transmit_buffer(g) \in WholeWith(B)
           /\ JSM_transmit_buffer(g).written = g.written
<1> DEFINE after[k \in 0 .. JSM_BUFFER_SIZE] ==
               IF k = 0 THEN g ELSE transmit_char(after[k - 1])
<1>1. g \in MonitorState /\ g.capacity = n /\ B \in Nat /\ B = JSM_BUFFER_SIZE
  BY Sizes DEF WholeWith
<1>2. JSM_transmit_buffer(g) = after[B - n]
  BY <1>1 DEF JSM_transmit_buffer
<1>3. after = [k \in 0 .. B |-> IF k = 0 THEN g ELSE transmit_char(after[k - 1])]
  <2> DEFINE step == [k \in 1 .. B |-> [s \in MonitorState |-> transmit_char(s)]]
  <2>1. step \in Arithmetic!Steps(B, MonitorState)
    BY TransmitFields DEF Arithmetic!Steps
  <2>2. PICK f : Arithmetic!IsRecursion(f, B, MonitorState, g, step)
    BY <1>1, <2>1, Arithmetic!RecursionMakesFunction
  <2>3. /\ f \in [0 .. B -> MonitorState] /\ f[0] = g
        /\ \A k \in 1 .. B : f[k] = step[k][f[k - 1]]
    BY <2>2 DEF Arithmetic!IsRecursion
  <2>4. ASSUME NEW k \in 1 .. B PROVE f[k] = transmit_char(f[k - 1])
    <3>1. k - 1 \in 0 .. B
      BY <1>1
    <3>2. step[k][f[k - 1]] = transmit_char(f[k - 1])
      BY <2>3, <3>1, Zenon
    <3> QED
      BY <2>3, <3>2, Zenon
  <2>5. f = [k \in 0 .. B |-> IF k = 0 THEN g ELSE transmit_char(f[k - 1])]
    BY <1>1, <2>3, <2>4
  <2> QED
    BY <1>1, <2>5, Zenon
<1> HIDE DEF after
<1> DEFINE Z == {k \in Nat : k =< B - n => /\ after[k] \in WholeWith(n + k)
                                           /\ after[k].written = g.written}
<1>4. 0 \in Z
  BY <1>1, <1>3
<1>5. ASSUME NEW k \in Nat, k \in Z PROVE k + 1 \in Z
  <2>1. SUFFICES ASSUME k + 1 =< B - n
                 PROVE  /\ after[k + 1] \in WholeWith(n + (k + 1))
                        /\ after[k + 1].written = g.written
    OBVIOUS
  <2>2. /\ after[k] \in WholeWith(n + k) /\ n + k \in 0 .. B - 1
        /\ after[k].written = g.written
    BY <1>1, <1>5, <2>1
  <2>3. after[k + 1] = transmit_char(after[k])
    BY <1>1, <1>3, <2>1
  <2>4. after[k + 1] \in WholeWith((n + k) + 1)
    BY <2>2, <2>3, TransmitWhole, Zenon
  <2>5. after[k + 1].written = g.written
    BY <2>2, <2>3, TransmitFields, Zenon DEF WholeWith
  <2> QED
    BY <1>1, <2>4, <2>5
<1> HIDE DEF Z
<1>6. \A k \in Nat : k \in Z
  BY <1>4, <1>5, Arithmetic!Induction
<1>7. B - n \in Nat /\ B - n =< B - n /\ n + (B - n) = B
  BY <1>1
<1>8. /\ after[B - n] \in WholeWith(n + (B - n))
      /\ after[B - n].written = g.written
  BY <1>6, <1>7 DEF Z
<1> QED
  BY <1>2, <1>7, <1>8

\* printf uses as many slots as it prints characters, and it prints them all.
LEMMA PrintedWhole ==
    ASSUME NEW chars \in Seq(Chars), NEW n \in 0 .. B, Len(chars) =< n,
           NEW g \in WholeWith(n)
    PROVE  /\ Printed(g, chars) \in WholeWith(n - Len(chars))
           /\ Printed(g, chars).written = g.written \o chars
<1> DEFINE L == Len(chars)
           after[k \in 0 .. L] ==
               IF k = 0 THEN g ELSE Stored(after[k - 1], chars[k])
<1>1. /\ g \in MonitorState /\ B \in Nat
      /\ L \in Nat /\ L =< n /\ \A k \in 1 .. L : chars[k] \in Chars
  BY Sizes, LenProperties, ElementOfSeq DEF WholeWith
<1>2. Printed(g, chars) = after[L]
  BY DEF Printed
<1> HIDE DEF L
<1>3. after = [k \in 0 .. L |-> IF k = 0 THEN g ELSE Stored(after[k - 1], chars[k])]
  <2> DEFINE step == [k \in 1 .. L |-> [s \in MonitorState |-> Stored(s, chars[k])]]
  <2>1. step \in Arithmetic!Steps(L, MonitorState)
    BY <1>1, StoredFields DEF Arithmetic!Steps
  <2>2. PICK f : Arithmetic!IsRecursion(f, L, MonitorState, g, step)
    BY <1>1, <2>1, Arithmetic!RecursionMakesFunction
  <2>3. /\ f \in [0 .. L -> MonitorState] /\ f[0] = g
        /\ \A k \in 1 .. L : f[k] = step[k][f[k - 1]]
    BY <2>2 DEF Arithmetic!IsRecursion
  <2>4. ASSUME NEW k \in 1 .. L PROVE f[k] = Stored(f[k - 1], chars[k])
    BY <1>1, <2>3
  <2>5. f = [k \in 0 .. L |-> IF k = 0 THEN g ELSE Stored(f[k - 1], chars[k])]
    BY <1>1, <2>3, <2>4
  <2> QED
    BY <1>1, <2>5, Zenon
<1> HIDE DEF after
<1> DEFINE first(k) == SubSeq(chars, 1, k)
<1>9. \A k \in 0 .. L - 1 :
        /\ first(k + 1) = first(k) \o <<chars[k + 1]>>
        /\ first(k) \in Seq(Chars) /\ <<chars[k + 1]>> \in Seq(Chars)
  <2>1. SUFFICES ASSUME NEW k \in 0 .. L - 1
                 PROVE  /\ first(k + 1) = first(k) \o <<chars[k + 1]>>
                        /\ first(k) \in Seq(Chars)
                        /\ <<chars[k + 1]>> \in Seq(Chars)
    BY Zenon
  <2>2. /\ k + 1 \in 1 .. Len(chars) /\ k + 1 \in 1 .. k + 1
        /\ k + 1 \in 1 .. Len(chars) /\ 1 \in 1 .. Len(chars)
        /\ k + 1 \in 1 .. L /\ 1 \in 1 .. Len(chars) + 1 /\ k \in 0 .. Len(chars)
        /\ k + 1 \in 1 .. Len(chars) /\ (k + 1) - 1 = k
    BY <1>1 DEF L
  <2>3. k + 1 \in 1 .. Len(chars) /\ Len(chars) \in Nat /\ 1 \in 1 .. Len(chars)
    BY <1>1, <2>2 DEF L
  <2>4. SubSeq(chars, 1, k + 1) = SubSeq(chars, 1, (k + 1) - 1) \o <<chars[k + 1]>>
    BY <2>2, <2>3, SubSeqRecursiveSecond, Zenon
  <2>5. chars[k + 1] \in Chars
    BY <1>1, <2>2
  <2>6. SubSeq(chars, 1, k) \in Seq(Chars)
    BY <2>2, <2>5, <1>1, SubSeqProperties DEF L
  <2> QED
    BY <2>2, <2>4, <2>5, <2>6
<1>10. first(0) = <<>> /\ first(L) = chars
  BY <1>1, SubSeqEmpty, SubSeqFull DEF L
<1> HIDE DEF first
<1>11. g.written \in Seq(Chars)
  BY <1>1 DEF MonitorState
<1>12. \A mon \in MonitorState, c \in Chars :
          Stored(mon, c).written = Append(mon.written, c)
  BY StoredFields
<1>13. \A s, t, u \in Seq(Chars) : (s \o t) \o u = s \o (t \o u)
  BY ConcatAssociative, SMTT(30)
<1> DEFINE Z == {k \in Nat : k =< L =>
                    /\ after[k] \in WholeWith(n - k)
                    /\ after[k].written = g.written \o first(k)}
<1>4. 0 \in Z
  <2>1. g.written \o <<>> = g.written
    BY <1>11, ConcatEmptySeq
  <2>2. after[0] = g /\ n - 0 = n
    BY <1>1, <1>3
  <2> QED
    BY <1>10, <2>1, <2>2
<1>5. ASSUME NEW k \in Nat, k \in Z PROVE k + 1 \in Z
  <2>1. SUFFICES ASSUME k + 1 =< L
                 PROVE  /\ after[k + 1] \in WholeWith(n - (k + 1))
                        /\ after[k + 1].written = g.written \o first(k + 1)
    <3>1. k + 1 \in Nat
      OBVIOUS
    <3> QED
      BY <3>1, Zenon
  <2>2. /\ after[k] \in WholeWith(n - k) /\ n - k \in 1 .. B
        /\ after[k].written = g.written \o first(k)
    BY <1>1, <1>5, <2>1
  <2>3. after[k + 1] = Stored(after[k], chars[k + 1]) /\ chars[k + 1] \in Chars
    BY <1>1, <1>3, <2>1
  <2>4. after[k + 1] \in WholeWith((n - k) - 1)
    BY <2>2, <2>3, StoredWhole, Zenon
  <2>5. after[k] \in MonitorState
    BY <2>2 DEF WholeWith
  <2>6. after[k].written \in Seq(Chars)
    BY <2>5 DEF MonitorState
  <2>7. after[k + 1].written = after[k].written \o <<chars[k + 1]>>
    <3>1. after[k + 1].written = Append(after[k].written, chars[k + 1])
      BY <1>12, <2>3, <2>5, Zenon
    <3> QED
      BY <2>3, <2>6, <3>1, AppendIsConcat, Zenon
  <2>8. k \in 0 .. L - 1
    BY <1>1, <2>1
  <2>9. (g.written \o first(k)) \o <<chars[k + 1]>>
          = g.written \o (first(k) \o <<chars[k + 1]>>)
    <3>1. first(k) \in Seq(Chars) /\ <<chars[k + 1]>> \in Seq(Chars)
      BY <1>9, <2>8, Zenon
    <3> QED
      BY <1>11, <1>13, <3>1, Zenon
  <2>10. after[k + 1].written = g.written \o first(k + 1)
    BY <1>9, <2>2, <2>7, <2>8, <2>9
  <2> QED
    BY <1>1, <2>4, <2>10
<1> HIDE DEF Z
<1>6. \A k \in Nat : k \in Z
  BY <1>4, <1>5, Arithmetic!Induction
<1>7. after[L] \in WholeWith(n - L) /\ after[L].written = g.written \o first(L)
  <2>1. L \in Nat /\ L =< L
    BY <1>1
  <2> QED
    BY <1>6, <2>1, Zenon DEF Z
<1> QED
  BY <1>2, <1>7, <1>10 DEF L

\* The monitors that are whole, and have room.
Room == {mon \in MonitorState : Whole(mon) /\ mon.capacity > 0}

\* A monitor has room when it is whole with some free slots.
LEMMA RoomIsWhole ==
    ASSUME NEW g
    PROVE  /\ g \in Room <=> \E n \in 1 .. B : g \in WholeWith(n)
           /\ g \in Room => g \in MonitorState /\ g.capacity \in 1 .. B
                            /\ g \in WholeWith(g.capacity)
<1>1. B \in Nat
  BY Sizes
<1> QED
  BY <1>1 DEF Room, WholeWith, MonitorState

\* When the buffer is full, it is emptied, and so is the warning, which is all
\* that is printed.
LEMMA OverflowMakesRoom ==
    ASSUME NEW n \in 0 .. B, NEW g \in WholeWith(n)
    PROVE  /\ Overflow(g) \in Room
           /\ \E warning \in {<<>>, Warning} :
                 Overflow(g).written = g.written \o warning
<1>1. g \in MonitorState /\ g.capacity = n /\ Whole(g) /\ B \in Nat /\ B >= 1
  BY Sizes DEF WholeWith
<1>2. CASE n = 0
  <2> DEFINE emptied == JSM_transmit_buffer(g)
             warned == Printed(emptied, Warning)
  <2>1. emptied \in WholeWith(B) /\ emptied.written = g.written
    BY TransmitEmpties
  <2>2. Len(Warning) \in Nat /\ Len(Warning) =< B /\ Warning \in Seq(Chars)
    BY Sizes, SerialMonitorAssumption DEF SerialMonitorAssumption
  <2> HIDE DEF emptied
  <2>3. B \in 0 .. B /\ B - Len(Warning) \in 0 .. B
    BY <1>1, <2>2
  <2>4. /\ warned \in WholeWith(B - Len(Warning))
        /\ warned.written = g.written \o Warning
    BY <2>1, <2>2, <2>3, PrintedWhole
  <2> HIDE DEF warned
  <2>5. /\ JSM_transmit_buffer(warned) \in WholeWith(B)
        /\ JSM_transmit_buffer(warned).written = warned.written
    BY <2>3, <2>4, TransmitEmpties
  <2>6. Overflow(g) = JSM_transmit_buffer(warned)
    BY <1>1, <1>2 DEF Overflow, warned, emptied
  <2>7. B \in 1 .. B
    BY <1>1
  <2> QED
    BY <2>4, <2>5, <2>6, <2>7, RoomIsWhole, Zenon
<1>3. CASE n # 0
  <2>1. Overflow(g) = g /\ g \in Room
    BY <1>1, <1>3 DEF Overflow, Room
  <2>2. g.written \o <<>> = g.written
    BY <1>1, ConcatEmptySeq DEF MonitorState
  <2> QED
    BY <2>1, <2>2, Zenon
<1> QED
  BY <1>2, <1>3

\* A call of fputc that finds room leaves some.
LEMMA FputcLeavesRoom ==
    ASSUME NEW g \in Room, NEW c \in Chars
    PROVE  fputc(g, c) \in Room
<1>1. PICK n \in 1 .. B : g \in WholeWith(n)
  BY RoomIsWhole
<1>2. Stored(g, c) \in WholeWith(n - 1) /\ n - 1 \in 0 .. B
  <2>1. n - 1 \in 0 .. B
    BY Sizes
  <2> QED
    BY <1>1, <2>1, StoredWhole
<1> QED
  BY <1>2, OverflowMakesRoom DEF fputc

\* An event handler leaves room too.
LEMMA HandlerLeavesRoom ==
    ASSUME NEW g \in Room, NEW c \in Chars
    PROVE  fputc(JSM_transmit_buffer(g), c) \in Room
<1>1. PICK n \in 1 .. B : g \in WholeWith(n)
  BY RoomIsWhole
<1>2. n \in 0 .. B /\ B \in 1 .. B
  BY Sizes
<1>3. JSM_transmit_buffer(g) \in WholeWith(B)
  BY <1>1, <1>2, TransmitEmpties
<1>4. JSM_transmit_buffer(g) \in Room
  BY <1>2, <1>3, RoomIsWhole, Zenon
<1> QED
  BY <1>4, FputcLeavesRoom

-----------------------------------------------------------------------------
(* The statements.                                                         *)

\* The call that the thread is in began with the monitor g.
Began(g) ==
    /\ at \in {"away", "while", "write", "store"} => m = g
    /\ at \in TransmitPoints \ {"while"} => g.capacity < B
    /\ at = "++head"     => m = UART_write(g)
    /\ at = "++capacity" => m = AdvanceHead(UART_write(g))
    /\ at = "wrap head"  => m = Free(AdvanceHead(UART_write(g)))
    /\ at = "++tail"     => m = Store(g, char)
    /\ at = "wrap tail"  => m = AdvanceTail(Store(g, char))
    /\ at = "--capacity" => m = WrapTail(AdvanceTail(Store(g, char)))

MonitorInv ==
    /\ at \in {"away"} \cup TransmitPoints \cup FputcPoints
    /\ char \in Chars /\ failed \in BOOLEAN
    /\ \E g \in Room : Began(g)

\* In the middle of a call too, what was sent are characters.
LEMMA SentIsSequence == MonitorInv => m.sent \in Seq(Chars)
<1> SUFFICES ASSUME MonitorInv, NEW g \in Room, Began(g)
             PROVE  m.sent \in Seq(Chars)
  BY DEF MonitorInv
<1>1. /\ g.sent \in Seq(Chars) /\ g.buffer[g.head] \in Chars
      /\ g = [buffer |-> g.buffer, head |-> g.head, tail |-> g.tail,
              capacity |-> g.capacity, sent |-> g.sent, written |-> g.written]
  BY DEF Room, MonitorState
<1>2. /\ UART_write(g).sent \in Seq(Chars)
      /\ AdvanceHead(UART_write(g)).sent \in Seq(Chars)
      /\ Free(AdvanceHead(UART_write(g))).sent \in Seq(Chars)
  <2>1. Append(g.sent, g.buffer[g.head]) \in Seq(Chars)
    BY <1>1, Appending
  <2> QED
    BY <1>1, <2>1 DEF UART_write, AdvanceHead, Free
<1>3. /\ Store(g, char).sent = g.sent
      /\ AdvanceTail(Store(g, char)).sent = g.sent
      /\ WrapTail(AdvanceTail(Store(g, char))).sent = g.sent
  BY <1>1 DEF Store, AdvanceTail, WrapTail
<1> QED
  BY <1>1, <1>2, <1>3 DEF MonitorInv, Began, TransmitPoints, FputcPoints

\* A monitor with room is a beginning, when the thread is in no call.
LEMMA AwayBegins ==
    ASSUME m' \in Room, at' \in {"away", "while", "store"}, char' \in Chars, failed' = FALSE
    PROVE  MonitorInv'
<1>1. Began(m)'
  BY DEF Began, TransmitPoints
<1> QED
  BY <1>1 DEF MonitorInv, TransmitPoints, FputcPoints

\* Between two calls, and where a call begins, there is room.
LEMMA NothingFailsAway ==
    ASSUME MonitorInv, at \in {"away", "while", "write", "store"}
    PROVE  m \in Room /\ PointersInside(m) /\ m.capacity > 0 /\ m.capacity \in 1 .. B
<1>1. m \in Room
  BY DEF MonitorInv, Began
<1> QED
  BY <1>1, RoomIsWhole DEF Room, MonitorState, PointersInside

\* Each statement of the transmission goes on with the call that it is part
\* of.  The last one leaves the buffer empty.
LEMMA TransmitKeeps ==
    ASSUME MonitorInv, Transmit
    PROVE  MonitorInv' /\ failed' = FALSE /\ (at' = "away" => m'.capacity = B)
<1>1. PICK g \in Room : Began(g)
  BY DEF MonitorInv
<1>2. char \in Chars /\ failed \in BOOLEAN /\ B = JSM_BUFFER_SIZE
  BY Sizes DEF MonitorInv
<1>3. CASE WhileNotEmpty
  <2>1. /\ m' = m /\ char' = char /\ failed' = FALSE /\ m \in Room /\ m.capacity \in 1 .. B
        /\ IF m.capacity = B THEN at' = "away" ELSE at' = "write"
    BY <1>2, <1>3, NothingFailsAway DEF WhileNotEmpty, Do, At
  <2>2. CASE m.capacity = B
    BY <1>2, <2>1, <2>2, AwayBegins
  <2>3. CASE m.capacity # B
    <3>1. m.capacity < B
      <4>1. \A b \in Nat : \A k \in 1 .. b : k # b => k < b
        OBVIOUS
      <4> QED
        BY <2>1, <2>3, <4>1, Sizes, Zenon
    <3>2. Began(m)'
      BY <2>1, <2>3, <3>1 DEF Began, TransmitPoints
    <3> QED
      BY <1>2, <2>1, <2>3, <3>2 DEF MonitorInv, TransmitPoints
  <2> QED
    BY <2>2, <2>3
<1>4. CASE Write
  <2>1. /\ m' = UART_write(m) /\ at' = "++head" /\ char' = char /\ failed' = FALSE
        /\ m = g /\ g.capacity < B
    BY <1>1, <1>2, <1>4, NothingFailsAway DEF Write, At, Began, TransmitPoints
  <2>2. Began(g)'
    BY <2>1 DEF Began, TransmitPoints
  <2> QED
    BY <1>2, <2>1, <2>2 DEF MonitorInv, TransmitPoints
<1>5. CASE IncHead
  <2>1. /\ m' = AdvanceHead(UART_write(g)) /\ at' = "++capacity" /\ char' = char
        /\ failed' = FALSE /\ g.capacity < B
    BY <1>1, <1>2, <1>5 DEF IncHead, Do, At, Began, TransmitPoints
  <2>2. Began(g)'
    BY <2>1 DEF Began, TransmitPoints
  <2> QED
    BY <1>2, <2>1, <2>2 DEF MonitorInv, TransmitPoints
<1>6. CASE IncCapacity
  <2>1. /\ m' = Free(AdvanceHead(UART_write(g))) /\ at' = "wrap head"
        /\ char' = char /\ failed' = FALSE /\ g.capacity < B
    BY <1>1, <1>2, <1>6 DEF IncCapacity, Do, At, Began, TransmitPoints
  <2>2. Began(g)'
    BY <2>1 DEF Began, TransmitPoints
  <2> QED
    BY <1>2, <2>1, <2>2 DEF MonitorInv, TransmitPoints
<1>7. CASE WrapHeadStep
  <2>1. /\ m' = transmit_char(g) /\ at' = "while" /\ char' = char
        /\ failed' = FALSE /\ g.capacity < B
    BY <1>1, <1>2, <1>7 DEF WrapHeadStep, Do, At, Began, TransmitPoints, transmit_char
  <2> DEFINE n == g.capacity
  <2>2. g \in WholeWith(n) /\ n \in 1 .. B
    BY RoomIsWhole
  <2>3. n \in 0 .. B - 1 /\ n + 1 \in 1 .. B
    <3>1. \A b \in Nat : \A k \in 1 .. b : k < b => k \in 0 .. b - 1 /\ k + 1 \in 1 .. b
      OBVIOUS
    <3> QED
      BY <2>1, <2>2, <3>1, Sizes, Zenon
  <2> HIDE DEF n
  <2>4. m' \in Room
    BY <2>1, <2>2, <2>3, TransmitWhole, RoomIsWhole
  <2> QED
    BY <1>2, <2>1, <2>4, AwayBegins
<1> QED
  BY <1>3, <1>4, <1>5, <1>6, <1>7 DEF Transmit

\* So does each statement of fputc.
LEMMA FputcKeeps ==
    ASSUME MonitorInv, Fputc
    PROVE  MonitorInv' /\ failed' = FALSE
<1>1. PICK g \in Room : Began(g)
  BY DEF MonitorInv
<1>2. char \in Chars /\ failed \in BOOLEAN
  BY DEF MonitorInv
<1>3. CASE StoreStep
  <2>1. m' = Store(g, char) /\ at' = "++tail" /\ char' = char /\ failed' = FALSE
    BY <1>1, <1>2, <1>3 DEF StoreStep, Do, At, Began
  <2>2. Began(g)'
    BY <2>1 DEF Began, TransmitPoints
  <2> QED
    BY <1>2, <2>1, <2>2 DEF MonitorInv, FputcPoints
<1>4. CASE IncTail
  <2>1. m' = AdvanceTail(Store(g, char)) /\ at' = "wrap tail" /\ char' = char /\ failed' = FALSE
    BY <1>1, <1>2, <1>4 DEF IncTail, Do, At, Began
  <2>2. Began(g)'
    BY <2>1 DEF Began, TransmitPoints
  <2> QED
    BY <1>2, <2>1, <2>2 DEF MonitorInv, FputcPoints
<1>5. CASE WrapTailStep
  <2>1. /\ m' = WrapTail(AdvanceTail(Store(g, char))) /\ at' = "--capacity"
        /\ char' = char /\ failed' = FALSE
    BY <1>1, <1>2, <1>5 DEF WrapTailStep, Do, At, Began
  <2>2. Began(g)'
    BY <2>1 DEF Began, TransmitPoints
  <2> QED
    BY <1>2, <2>1, <2>2 DEF MonitorInv, FputcPoints
<1>6. CASE DecCapacity
  <2>1. m' = fputc(g, char) /\ at' = "away" /\ char' = char /\ failed' = FALSE
    BY <1>1, <1>2, <1>6 DEF DecCapacity, Do, At, Began, fputc, Stored
  <2>2. m' \in Room
    BY <1>2, <2>1, FputcLeavesRoom
  <2> QED
    BY <1>2, <2>1, <2>2, AwayBegins
<1> QED
  BY <1>3, <1>4, <1>5, <1>6 DEF Fputc

\* A call of fputc finds room.
LEMMA PutcKeeps ==
    ASSUME MonitorInv, NEW c \in Chars, Putc(c)
    PROVE  MonitorInv' /\ failed' = FALSE /\ m' = m /\ at' = "store"
<1>1. /\ m' = m /\ at' = "store" /\ char' = c /\ failed' = FALSE /\ m \in Room
  BY NothingFailsAway DEF Putc, At, MonitorInv
<1> QED
  BY <1>1, AwayBegins

\* A handler that comes between two calls, or where one has done nothing yet,
\* finds room and leaves some.
LEMMA HandleEventKeeps ==
    ASSUME MonitorInv, at \in Beginnings, HandleEvent
    PROVE  MonitorInv' /\ failed' = FALSE
<1>1. m \in Room /\ PointersInside(m)
  BY NothingFailsAway DEF Beginnings
<1>2. PICK c \in Chars : m' = fputc(JSM_transmit_buffer(m), c)
  BY <1>1 DEF HandleEvent
<1>3. at' = at /\ char' = char /\ failed' = FALSE
  BY <1>1 DEF HandleEvent, MonitorInv
<1>4. m' \in Room
  BY <1>1, <1>2, HandlerLeavesRoom
<1> QED
  BY <1>3, <1>4, AwayBegins DEF MonitorInv, Beginnings

-----------------------------------------------------------------------------
(* The program and the report.                                             *)

\* What holds also after a call was disturbed.
TypeInv ==
    /\ char \in Chars /\ printed \in Nat
    /\ failed \in BOOLEAN /\ masked \in BOOLEAN /\ disturbed \in BOOLEAN

\* A report that is not interrupted waits in phase "transmit" until the loop
\* has emptied the buffer, and in phase "reset" everything has left the UART.
Finishing ==
    /\ phase = "transmit" /\ at = "away" => m.capacity = B
    /\ phase = "reset" => /\ at = "away" /\ m.capacity = B
                          /\ onWire = Len(m.sent)

\* The monitor is what the statement at makes of a whole one, and an assertion
\* fails only where no call is in the middle.
UndisturbedInv ==
    /\ MonitorInv
    /\ failed => at \in Beginnings
    /\ onWire \in Int /\ onWire =< Len(m.sent)
    /\ masked /\ ~failed => Finishing

ReportInv == TypeInv /\ (~disturbed => UndisturbedInv)

\* The monitor after a reset has room.
LEMMA EmptiedHasRoom ==
    ASSUME NEW c \in Chars
    PROVE  Emptied(c) \in Room /\ Len(Emptied(c).sent) = 0
<1>1. B \in Nat /\ B >= 1 /\ Slots = 0 .. B - 1 /\ JSM_BUFFER_SIZE = B
  BY Sizes
<1>2. 0 \in Slots /\ B \in 0 .. B /\ B > 0 /\ B - B = 0
  BY <1>1
<1>3. Emptied(c) \in MonitorState /\ Emptied(c).capacity = B
  BY <1>1, <1>2 DEF Emptied, MonitorState
<1>4. Place(0, 0) = 0
  BY <1>2, Places
<1>5. \A i \in 0 .. B - 1 : ~(i < 0)
  BY <1>1
<1>6. Whole(Emptied(c))
  BY <1>1, <1>2, <1>4, <1>5 DEF Whole, Emptied
<1> QED
  BY <1>2, <1>3, <1>6 DEF Room, Emptied

\* The invariant holds after a reset.
LEMMA InitReportInv == Init => ReportInv
<1> SUFFICES ASSUME Init PROVE ReportInv
  OBVIOUS
<1>1. PICK c \in Chars : m = Emptied(c)
  BY DEF Init, JSM_init
<1>2. /\ at = "away" /\ char \in Chars /\ failed = FALSE /\ phase = "none"
      /\ printed = 0 /\ masked = FALSE /\ onWire = 0 /\ disturbed = FALSE
  BY DEF Init, JSM_init
<1>3. m \in Room /\ Len(m.sent) = 0
  BY <1>1, EmptiedHasRoom
<1>4. MonitorInv
  BY <1>2, <1>3 DEF MonitorInv, Began, TransmitPoints, FputcPoints
<1>5. onWire \in Int /\ onWire =< Len(m.sent) /\ printed \in Nat
  BY <1>2, <1>3
<1> QED
  BY <1>2, <1>4, <1>5 DEF ReportInv, TypeInv, UndisturbedInv

\* No more characters have left the UART than were sent to it.
LEMMA SendsKeeps ==
    ASSUME Sends, MonitorInv', onWire \in Int, onWire =< Len(m.sent)
    PROVE  onWire' \in Int /\ onWire' =< Len(m'.sent)
<1>1. Len(m'.sent) \in Nat
  <2>1. (MonitorInv => m.sent \in Seq(Chars))'
    BY SentIsSequence, PTL
  <2> QED
    BY <2>1, LenProperties
<1> QED
  BY <1>1 DEF Sends

\* The character to print is one, also if a call was disturbed.
LEMMA CharKept ==
    ASSUME TypeInv, [ReportNext]_allVars
    PROVE  char' \in Chars
<1>1. CASE \E c \in Chars : Putc(c)
  BY <1>1 DEF Putc
<1>2. CASE ReportPrints
  <2>1. printed + 1 \in 1 .. Len(Message) /\ Putc(Message[printed + 1])
    <3>1. Len(Message) \in Nat
      BY AssertReportAssumption, LenProperties DEF AssertReportAssumption
    <3> QED
      BY <1>2, <3>1 DEF ReportPrints, TypeInv
  <2>2. Message[printed + 1] \in Chars
    BY <2>1, AssertReportAssumption, ElementOfSeq DEF AssertReportAssumption
  <2> QED
    BY <2>1, <2>2 DEF Putc
<1>3. CASE char' = char
  BY <1>3 DEF TypeInv
<1>4. CASE Transmit \/ Fputc \/ OS_onIdle
  BY <1>3, <1>4 DEF Transmit, Fputc, OS_onIdle, WhileNotEmpty, Write, IncHead,
     IncCapacity, WrapHeadStep, StoreStep, IncTail, WrapTailStep, DecCapacity, Do
<1>5. CASE Handler \/ HandlerFails \/ ThreadFails \/ Shifted \/ J_assert_failed
           \/ Default_Handler \/ UNCHANGED allVars
  BY <1>3, <1>5 DEF Handler, HandleEvent, HandlerFails, ThreadFails, Shifted,
     J_assert_failed, Default_Handler, allVars, vars
<1>6. CASE \/ ReportTransmits \/ UART_delay_until_not_busy \/ NVIC_SystemReset
  BY <1>3, <1>6 DEF ReportTransmits, UART_delay_until_not_busy,
     NVIC_SystemReset, Do, vars
<1>7. CASE Thread(OS_onIdle) \/ Thread(Call) \/ Thread(Transmit \/ Fputc)
  BY <1>1, <1>4, <1>7 DEF Thread, Call
<1>8. CASE ReportStores \/ ReportSends
  BY <1>4, <1>8 DEF ReportStores, ReportSends
<1> QED
  BY <1>2, <1>5, <1>6, <1>7, <1>8 DEF ReportNext, J_on_assert_failed

\* An assertion failed, or none did.
LEMMA FailedKept ==
    ASSUME TypeInv, [ReportNext]_allVars
    PROVE  failed' \in BOOLEAN
<1>1. CASE failed' = failed \/ failed' = TRUE \/ failed' = FALSE
  BY <1>1 DEF TypeInv
<1>2. CASE Transmit \/ Fputc \/ OS_onIdle
  BY <1>1, <1>2 DEF Transmit, Fputc, OS_onIdle, WhileNotEmpty, Write, IncHead,
     IncCapacity, WrapHeadStep, StoreStep, IncTail, WrapTailStep, DecCapacity, Do
<1>3. CASE Handler \/ HandlerFails \/ ThreadFails \/ Shifted \/ J_assert_failed
           \/ Default_Handler \/ UNCHANGED allVars
  BY <1>1, <1>3 DEF Handler, HandleEvent, HandlerFails, ThreadFails, Shifted,
     J_assert_failed, Default_Handler, allVars, vars
<1>4. CASE \/ ReportTransmits \/ UART_delay_until_not_busy \/ NVIC_SystemReset
  BY <1>1, <1>4 DEF ReportTransmits, UART_delay_until_not_busy,
     NVIC_SystemReset, Do, vars
<1>5. CASE Thread(OS_onIdle) \/ Thread(Call) \/ Thread(Transmit \/ Fputc)
  BY <1>1, <1>2, <1>5 DEF Thread, Call, Putc
<1>6. CASE ReportStores \/ ReportSends \/ ReportPrints
  BY <1>1, <1>2, <1>6 DEF ReportStores, ReportSends, ReportPrints, Putc
<1> QED
  BY <1>3, <1>4, <1>5, <1>6 DEF ReportNext, J_on_assert_failed

\* The types hold after each step.
LEMMA TypesKept ==
    ASSUME TypeInv, [ReportNext]_allVars
    PROVE  TypeInv'
<1>1. char' \in Chars /\ failed' \in BOOLEAN
  BY CharKept, FailedKept
<1>2. disturbed' \in BOOLEAN
  BY DEF TypeInv, ReportNext, J_on_assert_failed, Thread, ThreadFails, Handler,
     HandlerFails, Disturbs, Shifted, J_assert_failed, ReportPrints,
     ReportStores, ReportTransmits, ReportSends, UART_delay_until_not_busy,
     NVIC_SystemReset, Default_Handler, allVars
<1>3. masked' \in BOOLEAN
  BY DEF TypeInv, ReportNext, J_on_assert_failed, Thread, ThreadFails, Handler,
     HandlerFails, Shifted, J_assert_failed, ReportPrints, ReportStores,
     ReportTransmits, ReportSends, UART_delay_until_not_busy,
     NVIC_SystemReset, Default_Handler, allVars, reportVars
<1>4. printed' \in Nat
  <2>1. CASE ReportPrints
    BY <2>1 DEF ReportPrints, TypeInv
  <2>2. CASE J_assert_failed
    <3>1. printed' = 0 \/ printed' = printed
      BY <2>2, Zenon DEF J_assert_failed
    <3> QED
      BY <3>1 DEF TypeInv
  <2>3. CASE NVIC_SystemReset
    BY <2>3 DEF NVIC_SystemReset
  <2>4. CASE printed' = printed
    BY <2>4 DEF TypeInv
  <2> QED
    BY <2>1, <2>2, <2>3, <2>4
    DEF ReportNext, allVars, reportVars, Thread, ThreadFails, Handler,
        HandlerFails, Shifted, J_on_assert_failed, ReportStores,
        ReportTransmits, ReportSends, UART_delay_until_not_busy, Default_Handler
<1> QED
  BY <1>1, <1>2, <1>3, <1>4 DEF TypeInv

\* Only a reset undoes a disturbance, and only a handler makes one.
LEMMA DisturbedBefore ==
    ASSUME TypeInv, [ReportNext]_allVars, ~disturbed', ~NVIC_SystemReset
    PROVE  ~disturbed /\ (Handler \/ HandlerFails => at \in Beginnings)
BY DEF TypeInv, ReportNext, J_on_assert_failed, Thread, ThreadFails, Handler,
   HandlerFails, Disturbs, Shifted, J_assert_failed, ReportPrints,
   ReportStores, ReportTransmits, ReportSends, UART_delay_until_not_busy,
   Default_Handler, allVars

\* What has left the UART, and the monitor, are kept by steps that change
\* nothing of them.
LEMMA IdleKeeps ==
    ASSUME MonitorInv, UNCHANGED <<m, char>>, failed' \in BOOLEAN,
           at' = at \/ (at \in Beginnings /\ at' \in Beginnings)
    PROVE  MonitorInv'
<1>1. CASE at' = at
  BY <1>1 DEF MonitorInv, Began
<1>2. CASE at \in Beginnings /\ at' \in Beginnings
  <2>1. m \in Room
    BY <1>2, NothingFailsAway DEF Beginnings
  <2>2. Began(m)'
    BY <1>2 DEF Began, Beginnings, TransmitPoints
  <2> QED
    BY <1>2, <2>1, <2>2
    DEF MonitorInv, Beginnings, TransmitPoints, FputcPoints
<1> QED
  BY <1>1, <1>2

\* Every step of the program, of a handler and of a report keeps it.
LEMMA NextReportInv ==
    ASSUME ReportInv, [ReportNext]_allVars
    PROVE  ReportInv'
<1> USE DEF reportVars
<1>0. TypeInv /\ TypeInv'
  BY TypesKept DEF ReportInv
<1> SUFFICES ASSUME ~disturbed' PROVE UndisturbedInv'
  BY <1>0 DEF ReportInv
<1>1. ASSUME ~NVIC_SystemReset
      PROVE  UndisturbedInv /\ (Handler \/ HandlerFails => at \in Beginnings)
  BY <1>0, <1>1, DisturbedBefore DEF ReportInv
<1>2. failed \in BOOLEAN /\ failed' \in BOOLEAN
  BY <1>0 DEF TypeInv
<1>3. CASE NVIC_SystemReset
  <2>1. PICK c \in Chars : m' = Emptied(c)
    BY <1>3 DEF NVIC_SystemReset
  <2>2. /\ phase' = "none" /\ onWire' = 0 /\ at' = "away" /\ failed' = FALSE
        /\ char' \in Chars
    BY <1>0, <1>3 DEF NVIC_SystemReset, TypeInv
  <2>3. m' \in Room /\ Len(m'.sent) = 0
    BY <2>1, EmptiedHasRoom
  <2>4. MonitorInv'
    BY <2>2, <2>3, AwayBegins
  <2>5. onWire' \in Int /\ onWire' =< Len(m'.sent)
    BY <2>2, <2>3
  <2> QED
    BY <2>2, <2>4, <2>5, Zenon DEF UndisturbedInv, Finishing
<1> SUFFICES ASSUME ~NVIC_SystemReset PROVE UndisturbedInv'
  BY <1>3
<1>4. /\ UndisturbedInv /\ MonitorInv /\ onWire \in Int /\ onWire =< Len(m.sent)
      /\ Handler \/ HandlerFails => at \in Beginnings
  BY <1>1 DEF UndisturbedInv
<1>5. CASE Thread(OS_onIdle) \/ Thread(Call) \/ Thread(Transmit \/ Fputc)
  <2>1. /\ phase' = "none" /\ Sends
        /\ OS_onIdle \/ Call \/ Transmit \/ Fputc
    BY <1>5 DEF Thread
  <2>2. MonitorInv' /\ failed' = FALSE
    <3>1. CASE OS_onIdle
      <4>1. m' = m /\ char' = char /\ failed' = FALSE /\ at = "away" /\ at' = "while"
        BY <1>2, <3>1 DEF OS_onIdle, Do, At
      <4> QED
        BY <1>4, <4>1, IdleKeeps DEF Beginnings
    <3>2. CASE Call
      BY <1>4, <3>2, PutcKeeps DEF Call
    <3> QED
      BY <1>4, <2>1, <3>1, <3>2, TransmitKeeps, FputcKeeps
  <2>3. onWire' \in Int /\ onWire' =< Len(m'.sent)
    BY <1>4, <2>1, <2>2, SendsKeeps
  <2> QED
    BY <2>1, <2>2, <2>3, Zenon DEF UndisturbedInv, Finishing
<1>6. CASE ThreadFails \/ HandlerFails
  <2>1. failed' = TRUE /\ UNCHANGED <<m, at, char, onWire>> /\ at \in Beginnings
    BY <1>4, <1>6 DEF ThreadFails, HandlerFails, At, Beginnings
  <2>2. MonitorInv'
    BY <1>4, <2>1, IdleKeeps
  <2> QED
    BY <1>4, <2>1, <2>2, Zenon DEF UndisturbedInv
<1>7. CASE Handler
  <2>1. /\ at \in Beginnings /\ HandleEvent /\ Sends
        /\ phase' = phase /\ masked' = (masked \/ failed')
        /\ phase = "none" \/ ~masked
    BY <1>4, <1>7 DEF Handler, Interruptible
  <2>2. MonitorInv' /\ failed' = FALSE
    BY <1>4, <2>1, HandleEventKeeps
  <2>3. onWire' \in Int /\ onWire' =< Len(m'.sent)
    BY <1>4, <2>1, <2>2, SendsKeeps
  <2>4. phase' = "none" \/ ~masked'
    BY <2>1, <2>2
  <2> QED
    BY <2>2, <2>3, <2>4, Zenon DEF UndisturbedInv, Finishing
<1>8. CASE Shifted
  <2>1. UNCHANGED <<m, at, char, failed, phase, masked>>
    BY <1>8 DEF Shifted, vars
  <2>2. MonitorInv'
    BY <1>2, <1>4, <2>1, IdleKeeps
  <2>3. Len(m.sent) \in Nat /\ onWire < Len(m.sent) /\ onWire' = onWire + 1
    BY <1>4, <1>8, SentIsSequence, LenProperties DEF Shifted, Busy
  <2>4. onWire' \in Int /\ onWire' =< Len(m'.sent) /\ onWire # Len(m.sent)
    BY <1>4, <2>1, <2>3
  <2> QED
    BY <1>4, <2>1, <2>2, <2>4, Zenon DEF UndisturbedInv, Finishing
<1>9. CASE J_assert_failed
  <2>1. /\ UNCHANGED <<m, char, onWire>> /\ at \in Beginnings
        /\ \/ phase' = "print" /\ at' = "away" /\ failed' = FALSE
           \/ phase' = "lost" /\ at' = at /\ failed' = failed
    BY <1>4, <1>9 DEF J_assert_failed, UndisturbedInv
  <2>2. MonitorInv'
    BY <1>2, <1>4, <2>1, IdleKeeps DEF Beginnings
  <2> QED
    BY <1>4, <2>1, <2>2 DEF UndisturbedInv, Finishing
<1>10. CASE ReportPrints
  <2> DEFINE c == Message[printed + 1]
  <2>1. phase' = "print" /\ onWire' = onWire /\ Putc(c)
    BY <1>10 DEF ReportPrints
  <2>2. c \in Chars
    BY <1>0, <2>1 DEF TypeInv, Putc
  <2>3. MonitorInv' /\ failed' = FALSE /\ m' = m
    BY <1>4, <2>1, <2>2, PutcKeeps
  <2> QED
    BY <1>4, <2>1, <2>3, Zenon DEF UndisturbedInv, Finishing
<1>11. CASE ReportStores
  <2>1. phase' = "print" /\ Fputc /\ Sends
    BY <1>11 DEF ReportStores
  <2>2. MonitorInv' /\ failed' = FALSE
    BY <1>4, <2>1, FputcKeeps
  <2>3. onWire' \in Int /\ onWire' =< Len(m'.sent)
    BY <1>4, <2>1, <2>2, SendsKeeps
  <2> QED
    BY <2>1, <2>2, <2>3, Zenon DEF UndisturbedInv, Finishing
<1>12. CASE ReportTransmits
  <2>1. /\ phase' = "transmit" /\ onWire' = onWire /\ m' = m
        /\ at = "away" /\ at' = "while" /\ char' = char /\ failed' = FALSE
    BY <1>2, <1>12 DEF ReportTransmits, Do, At
  <2>2. MonitorInv'
    BY <1>4, <2>1, IdleKeeps DEF Beginnings
  <2> QED
    BY <1>4, <2>1, <2>2, Zenon DEF UndisturbedInv, Finishing
<1>13. CASE ReportSends
  <2>1. phase' = "transmit" /\ Transmit /\ Sends
    BY <1>13 DEF ReportSends
  <2>2. MonitorInv' /\ failed' = FALSE /\ (at' = "away" => m'.capacity = B)
    BY <1>4, <2>1, TransmitKeeps
  <2>3. onWire' \in Int /\ onWire' =< Len(m'.sent)
    BY <1>4, <2>1, <2>2, SendsKeeps
  <2> QED
    BY <2>1, <2>2, <2>3, Zenon DEF UndisturbedInv, Finishing
<1>14. CASE UART_delay_until_not_busy
  <2>1. /\ phase = "transmit" /\ phase' = "reset" /\ at = "away" /\ ~failed
        /\ ~Busy /\ UNCHANGED <<m, at, char, failed, masked, onWire>>
    BY <1>14 DEF UART_delay_until_not_busy, At, vars
  <2>2. MonitorInv'
    BY <1>2, <1>4, <2>1, IdleKeeps
  <2>3. Len(m.sent) \in Nat
    BY <1>4, SentIsSequence, LenProperties
  <2>4. onWire = Len(m.sent) /\ (masked => m.capacity = B)
    BY <1>4, <2>1, <2>3 DEF Busy, UndisturbedInv, Finishing
  <2> QED
    BY <1>4, <2>1, <2>2, <2>4, Zenon DEF UndisturbedInv, Finishing
<1>15. CASE Default_Handler \/ UNCHANGED allVars
  <2>1. UNCHANGED <<m, at, char, failed, phase, masked, onWire>>
    BY <1>15 DEF Default_Handler, allVars, vars
  <2>2. MonitorInv'
    BY <1>2, <1>4, <2>1, IdleKeeps
  <2> QED
    BY <1>4, <2>1, <2>2, Zenon DEF UndisturbedInv, Finishing
<1> QED
  BY <1>5, <1>6, <1>7, <1>8, <1>9, <1>10, <1>11, <1>12, <1>13, <1>14, <1>15
  DEF ReportNext, J_on_assert_failed

-----------------------------------------------------------------------------
(* The text of a report.                                                   *)

\* What was printed ends with the first n characters of the message.
EndsWith(n, written) ==
    \E before \in Seq(Chars), text \in BrokenMessages[n] :
        written = before \o text

\* The message is printed character by character: while fputc is at work, the
\* last one waits to be stored, or was.
MessageIsPrinted ==
    /\ phase = "print" /\ at = "away" =>
         printed \in 0 .. Len(Message) /\ EndsWith(printed, m.written)
    /\ phase = "print" /\ at \in FputcPoints =>
         printed \in 1 .. Len(Message) /\ char = Message[printed]
    /\ phase = "print" /\ at = "store" => EndsWith(printed - 1, m.written)
    /\ phase = "print" /\ at \in FputcPoints \ {"store"} =>
         \E before \in Seq(Chars) :
            EndsWith(printed - 1, before) /\ m.written = Append(before, char)
    /\ phase \in {"transmit", "reset"} => EndsWith(Len(Message), m.written)

\* That is so when nothing comes between the characters.
TextInv == masked /\ ~failed /\ ~disturbed => MessageIsPrinted

\* One more character makes texts of texts.
LEMMA ContinuedTexts ==
    ASSUME NEW texts \in SUBSET Seq(Chars), NEW c \in Chars
    PROVE  Continued(texts, c) \in SUBSET Seq(Chars)
<1>1. ASSUME NEW text \in texts
      PROVE  text \o <<c>> \in Seq(Chars) /\ text \o <<c>> \o Warning \in Seq(Chars)
  <2>1. text \in Seq(Chars) /\ <<c>> \in Seq(Chars)
    OBVIOUS
  <2>2. Warning \in Seq(Chars)
    BY SerialMonitorAssumption DEF SerialMonitorAssumption
  <2>3. text \o <<c>> \in Seq(Chars)
    BY <2>1, ConcatProperties
  <2> QED
    BY <2>2, <2>3, ConcatProperties
<1> QED
  BY <1>1 DEF Continued

\* The broken messages are what their definition says.
LEMMA MessagesBreak ==
    /\ Len(Message) \in Nat
    /\ BrokenMessages[0] = {<<>>}
    /\ \A n \in 0 .. Len(Message) : BrokenMessages[n] \subseteq Seq(Chars)
    /\ \A n \in 1 .. Len(Message) :
         /\ Message[n] \in Chars
         /\ BrokenMessages[n] = Continued(BrokenMessages[n - 1], Message[n])
<1> DEFINE L == Len(Message)
<1>1. /\ L \in Nat
      /\ \A n \in 1 .. L : Message[n] \in Chars /\ n - 1 \in 0 .. L
      /\ \A n \in 1 .. L : n \in 0 .. L /\ n # 0
      /\ \A n \in 0 .. L : n # 0 => n \in 1 .. L
      /\ 0 \in 0 .. L
  <2>1. Message \in Seq(Chars)
    BY AssertReportAssumption DEF AssertReportAssumption
  <2>2. L \in Nat /\ \A n \in 1 .. L : Message[n] \in Chars
    BY <2>1, LenProperties, ElementOfSeq
  <2> HIDE DEF L
  <2> QED
    BY <2>2
<1> HIDE DEF L
<1>2. {<<>>} \in SUBSET Seq(Chars)
  OBVIOUS
<1>3. BrokenMessages =
        [n \in 0 .. L |->
            IF n = 0 THEN {<<>>} ELSE Continued(BrokenMessages[n - 1], Message[n])]
  <2> DEFINE step ==
        [n \in 1 .. L |->
           [texts \in SUBSET Seq(Chars) |-> Continued(texts, Message[n])]]
  <2>1. step \in Arithmetic!Steps(L, SUBSET Seq(Chars))
    BY <1>1, ContinuedTexts DEF Arithmetic!Steps
  <2>3. PICK f : Arithmetic!IsRecursion(f, L, SUBSET Seq(Chars), {<<>>}, step)
    BY <1>1, <1>2, <2>1, Arithmetic!RecursionMakesFunction
  <2>4. /\ f \in [0 .. L -> SUBSET Seq(Chars)] /\ f[0] = {<<>>}
        /\ \A n \in 1 .. L : f[n] = step[n][f[n - 1]]
    BY <2>3 DEF Arithmetic!IsRecursion
  <2>5. \A n \in 1 .. L : f[n] = Continued(f[n - 1], Message[n])
    BY <1>1, <2>4
  <2>6. f = [n \in 0 .. L |->
               IF n = 0 THEN {<<>>} ELSE Continued(f[n - 1], Message[n])]
    BY <1>1, <2>4, <2>5
  <2> QED
    BY <2>6, Zenon DEF BrokenMessages, L
<1>4. BrokenMessages[0] = {<<>>}
  BY <1>1, <1>3
<1>5. \A n \in 1 .. L :
         BrokenMessages[n] = Continued(BrokenMessages[n - 1], Message[n])
  BY <1>1, <1>3
<1> DEFINE Z == {n \in Nat : n =< L => BrokenMessages[n] \subseteq Seq(Chars)}
<1>6. 0 \in Z
  <2>1. BrokenMessages[0] \in SUBSET Seq(Chars)
    BY <1>2, <1>4, Zenon
  <2> QED
    BY <2>1
<1>7. ASSUME NEW n \in Nat, n \in Z PROVE n + 1 \in Z
  <2>1. SUFFICES ASSUME n + 1 =< L
                 PROVE  BrokenMessages[n + 1] \subseteq Seq(Chars)
    OBVIOUS
  <2>2. n + 1 \in 1 .. L /\ (n + 1) - 1 = n
    BY <1>1, <2>1
  <2>3. BrokenMessages[n] \in SUBSET Seq(Chars)
    BY <1>1, <1>7, <2>1
  <2> QED
    BY <1>1, <1>5, <2>2, <2>3, ContinuedTexts
<1> HIDE DEF Z
<1>8. \A n \in Nat : n \in Z
  BY <1>6, <1>7, Arithmetic!Induction
<1>9. \A n \in 0 .. L : BrokenMessages[n] \subseteq Seq(Chars)
  BY <1>1, <1>8 DEF Z
<1> QED
  BY <1>1, <1>4, <1>5, <1>9, Zenon DEF L

\* What each statement does to what was printed.
LEMMA StatementsPrint ==
    ASSUME NEW g \in MonitorState, NEW c \in Chars
    PROVE  /\ g.written \in Seq(Chars)
           /\ UART_write(g).written = g.written
           /\ AdvanceHead(UART_write(g)).written = g.written
           /\ Free(AdvanceHead(UART_write(g))).written = g.written
           /\ Store(g, c).written = Append(g.written, c)
           /\ AdvanceTail(Store(g, c)).written = Append(g.written, c)
           /\ WrapTail(AdvanceTail(Store(g, c))).written = Append(g.written, c)
<1>1. /\ g.written \in Seq(Chars)
      /\ g = [buffer |-> g.buffer, head |-> g.head, tail |-> g.tail,
              capacity |-> g.capacity, sent |-> g.sent, written |-> g.written]
  BY DEF MonitorState
<1>2. /\ UART_write(g).written = g.written
      /\ AdvanceHead(UART_write(g)).written = g.written
      /\ Free(AdvanceHead(UART_write(g))).written = g.written
  BY <1>1 DEF UART_write, AdvanceHead, Free
<1>3. /\ Store(g, c).written = Append(g.written, c)
      /\ AdvanceTail(Store(g, c)).written = Append(g.written, c)
      /\ WrapTail(AdvanceTail(Store(g, c))).written = Append(g.written, c)
  BY <1>1 DEF Store, AdvanceTail, WrapTail
<1> QED
  BY <1>1, <1>2, <1>3

\* The transmission prints nothing.
LEMMA TransmitPrintsNothing ==
    ASSUME MonitorInv, Transmit
    PROVE  m'.written = m.written
<1>1. PICK g \in Room : Began(g)
  BY DEF MonitorInv
<1>2. g \in MonitorState /\ char \in Chars
  BY DEF Room, MonitorInv
<1>3. /\ UART_write(g).written = g.written
      /\ AdvanceHead(UART_write(g)).written = g.written
      /\ Free(AdvanceHead(UART_write(g))).written = g.written
      /\ transmit_char(g).written = g.written
  BY <1>2, StatementsPrint, TransmitFields
<1>4. CASE WhileNotEmpty
  BY <1>4 DEF WhileNotEmpty, Do
<1>5. CASE Write
  BY <1>1, <1>3, <1>5 DEF Write, At, Began
<1>6. CASE IncHead
  BY <1>1, <1>3, <1>6 DEF IncHead, Do, At, Began
<1>7. CASE IncCapacity
  BY <1>1, <1>3, <1>7 DEF IncCapacity, Do, At, Began
<1>8. CASE WrapHeadStep
  BY <1>1, <1>3, <1>8 DEF WrapHeadStep, Do, At, Began, transmit_char
<1> QED
  BY <1>4, <1>5, <1>6, <1>7, <1>8 DEF Transmit

\* fputc prints the character, and the warning perhaps.
LEMMA FputcPrints ==
    ASSUME MonitorInv, Fputc
    PROVE  /\ char' = char /\ m.written \in Seq(Chars)
           /\ \/ /\ at = "store" /\ at' = "++tail"
                 /\ m'.written = Append(m.written, char)
              \/ /\ at \in {"++tail", "wrap tail"}
                 /\ at' \in {"wrap tail", "--capacity"}
                 /\ m'.written = m.written
              \/ /\ at = "--capacity" /\ at' = "away"
                 /\ \E warning \in {<<>>, Warning} :
                       m'.written = m.written \o warning
<1>1. PICK g \in Room : Began(g)
  BY DEF MonitorInv
<1>2. g \in MonitorState /\ char \in Chars
  BY DEF Room, MonitorInv
<1> DEFINE longer == Append(g.written, char)
<1>3. /\ g.written \in Seq(Chars) /\ longer \in Seq(Chars)
      /\ Store(g, char).written = longer
      /\ AdvanceTail(Store(g, char)).written = longer
      /\ WrapTail(AdvanceTail(Store(g, char))).written = longer
      /\ Stored(g, char).written = longer
  BY <1>2, StatementsPrint, StoredFields, Appending
<1> HIDE DEF longer
<1>4. CASE StoreStep
  BY <1>1, <1>3, <1>4 DEF StoreStep, Do, At, Began, longer
<1>5. CASE IncTail
  BY <1>1, <1>3, <1>5 DEF IncTail, Do, At, Began
<1>6. CASE WrapTailStep
  BY <1>1, <1>3, <1>6 DEF WrapTailStep, Do, At, Began
<1>7. CASE DecCapacity
  <2>1. /\ at = "--capacity" /\ at' = "away" /\ char' = char
        /\ m' = Overflow(Stored(g, char)) /\ m.written = longer
    BY <1>1, <1>3, <1>7 DEF DecCapacity, Do, At, Began, Stored
  <2>2. PICK n \in 1 .. B : g \in WholeWith(n)
    BY RoomIsWhole
  <2>3. n - 1 \in 0 .. B
    BY Sizes
  <2>4. n \in 1 .. B /\ Stored(g, char) \in WholeWith(n - 1)
    BY <1>2, <2>2, StoredWhole
  <2>5. \E warning \in {<<>>, Warning} :
           Overflow(Stored(g, char)).written = Stored(g, char).written \o warning
    BY <2>3, <2>4, OverflowMakesRoom
  <2> QED
    BY <1>3, <2>1, <2>5, Zenon
<1> QED
  BY <1>4, <1>5, <1>6, <1>7 DEF Fputc

\* Anything ends with nothing.
LEMMA EndsWithNothing ==
    ASSUME NEW written \in Seq(Chars)
    PROVE  EndsWith(0, written)
<1>1. written = written \o <<>> /\ <<>> \in BrokenMessages[0]
  BY ConcatEmptySeq, MessagesBreak
<1> QED
  BY <1>1, Zenon DEF EndsWith

\* The next character makes the ending longer.
LEMMA EndsWithMore ==
    ASSUME NEW n \in 1 .. Len(Message), NEW warning \in {<<>>, Warning},
           NEW written \in Seq(Chars), EndsWith(n - 1, written)
    PROVE  EndsWith(n, Append(written, Message[n]) \o warning)
<1> DEFINE c == Message[n]
<1>1. PICK before \in Seq(Chars), text \in BrokenMessages[n - 1] :
         written = before \o text
  BY DEF EndsWith
<1>2. c \in Chars /\ BrokenMessages[n] = Continued(BrokenMessages[n - 1], c)
  BY MessagesBreak
<1>3. text \in Seq(Chars)
  <2>1. n - 1 \in 0 .. Len(Message)
    BY MessagesBreak
  <2> QED
    BY <2>1, MessagesBreak
<1> HIDE DEF c
<1>4. warning \in Seq(Chars)
  <2>1. <<>> \in Seq(Chars)
    OBVIOUS
  <2>2. Warning \in Seq(Chars)
    BY SerialMonitorAssumption DEF SerialMonitorAssumption
  <2> QED
    BY <2>1, <2>2, Zenon
<1>5. <<c>> \in Seq(Chars)
  BY <1>2
<1>6. \A s, t, u \in Seq(Chars) : (s \o t) \o u = s \o (t \o u)
  BY ConcatAssociative, SMTT(30)
<1>7. Append(written, c) = (before \o text) \o <<c>>
  BY <1>1, <1>2, AppendIsConcat, Zenon
<1>8. Append(written, c) \o warning = before \o ((text \o <<c>>) \o warning)
  <2>1. text \o <<c>> \in Seq(Chars)
    BY <1>3, <1>5, ConcatProperties, Zenon
  <2>2. (before \o text) \o <<c>> = before \o (text \o <<c>>)
    BY <1>1, <1>3, <1>5, <1>6, Zenon
  <2>3. (before \o (text \o <<c>>)) \o warning
          = before \o ((text \o <<c>>) \o warning)
    BY <1>1, <1>4, <1>6, <2>1, Zenon
  <2> QED
    BY <1>7, <2>2, <2>3, Zenon
<1>9. (text \o <<c>>) \o warning \in BrokenMessages[n]
  <2>1. /\ text \o <<c>> \in BrokenMessages[n]
        /\ text \o <<c>> \o Warning \in BrokenMessages[n]
    BY <1>1, <1>2 DEF Continued
  <2>2. (text \o <<c>>) \o <<>> = text \o <<c>>
    BY <1>3, <1>5, ConcatProperties, ConcatEmptySeq, Zenon
  <2> QED
    BY <2>1, <2>2, Zenon
<1> QED
  BY <1>1, <1>8, <1>9, Zenon DEF EndsWith, c

\* Every step keeps the text.
LEMMA NextTextInv ==
    ASSUME ReportInv, TextInv, [ReportNext]_allVars
    PROVE  TextInv'
<1> SUFFICES ASSUME masked', ~failed', ~disturbed' PROVE MessageIsPrinted'
  BY DEF TextInv
<1>1. TypeInv /\ printed \in Nat /\ Len(Message) \in Nat /\ failed \in BOOLEAN
  BY MessagesBreak DEF ReportInv, TypeInv
<1>2. CASE phase' \in {"none", "lost"}
  BY <1>2 DEF MessageIsPrinted
<1> SUFFICES ASSUME phase' \notin {"none", "lost"} PROVE MessageIsPrinted'
  BY <1>2
<1>3. ~NVIC_SystemReset
  BY DEF NVIC_SystemReset
<1>4. MonitorInv /\ ~disturbed /\ UndisturbedInv
  BY <1>1, <1>3, DisturbedBefore DEF ReportInv, UndisturbedInv
<1>5. CASE J_assert_failed
  <2>1. /\ at \in Beginnings /\ phase' = "print" /\ printed' = 0 /\ at' = "away"
        /\ m' = m
    BY <1>4, <1>5 DEF J_assert_failed, UndisturbedInv
  <2>2. m.written \in Seq(Chars)
    BY <1>4, <2>1, NothingFailsAway DEF Room, MonitorState, Beginnings
  <2>3. EndsWith(0, m.written) /\ 0 \in 0 .. Len(Message)
    BY <1>1, <2>2, EndsWithNothing
  <2> QED
    BY <2>1, <2>3 DEF MessageIsPrinted, FputcPoints
<1> SUFFICES ASSUME ~J_assert_failed PROVE MessageIsPrinted'
  BY <1>5
\* Handlers leave a report alone that runs with interrupts masked.
<1>a. ~Handler /\ ~HandlerFails
  <2>1. CASE Handler
    <3>1. masked' = (masked \/ failed') /\ phase' = phase /\ Interruptible
      BY <2>1 DEF Handler
    <3>2. ~masked
      BY <3>1 DEF Interruptible
    <3> QED
      BY <3>1, <3>2
  <2>2. CASE HandlerFails
    BY <2>2 DEF HandlerFails
  <2> QED
    BY <2>1, <2>2
<1>b. masked /\ ~failed /\ MessageIsPrinted
  <2>1. masked /\ ~failed
    BY <1>1, <1>a
    DEF ReportNext, J_on_assert_failed, Thread, ThreadFails, Shifted,
       NVIC_SystemReset, ReportPrints, ReportStores, ReportTransmits, ReportSends,
       UART_delay_until_not_busy, Default_Handler, allVars, vars, reportVars,
       Putc, Do, At, Fputc, StoreStep, IncTail, WrapTailStep, DecCapacity,
       Transmit, WhileNotEmpty, Write, IncHead, IncCapacity, WrapHeadStep
  <2> QED
    BY <1>4, <2>1 DEF TextInv
<1>6. CASE ReportPrints
  <2>1. /\ phase = "print" /\ phase' = "print" /\ printed < Len(Message)
        /\ at = "away" /\ Putc(Message[printed + 1])
    BY <1>6 DEF ReportPrints, Putc, At
  <2>2. printed + 1 \in 1 .. Len(Message) /\ (printed + 1) - 1 = printed
    BY <1>1, <2>1
  <2>3. Message[printed + 1] \in Chars
    BY <2>2, MessagesBreak
  <2>4. /\ failed' = FALSE /\ m' = m /\ at' = "store"
        /\ char' = Message[printed + 1]
    BY <1>4, <2>1, <2>3, PutcKeeps DEF Putc
  <2>5. printed' = printed + 1
    BY <1>6, <2>4 DEF ReportPrints
  <2>6. EndsWith(printed' - 1, m'.written)
    BY <1>b, <2>1, <2>2, <2>4, <2>5 DEF MessageIsPrinted
  <2> QED
    BY <1>b, <2>1, <2>2, <2>4, <2>5, <2>6 DEF MessageIsPrinted
<1>7. CASE ReportStores
  <2>1. /\ phase = "print" /\ phase' = "print" /\ printed' = printed /\ Fputc
    BY <1>7 DEF ReportStores, reportVars
  <2>2. CASE /\ at = "store" /\ at' = "++tail" /\ char' = char
             /\ m.written \in Seq(Chars) /\ m'.written = Append(m.written, char)
    BY <1>b, <2>1, <2>2 DEF MessageIsPrinted, FputcPoints
  <2>3. CASE /\ at \in {"++tail", "wrap tail"}
             /\ at' \in {"wrap tail", "--capacity"} /\ char' = char
             /\ m'.written = m.written
    BY <1>b, <2>1, <2>3 DEF MessageIsPrinted, FputcPoints
  <2>4. CASE /\ at = "--capacity" /\ at' = "away"
             /\ \E warning \in {<<>>, Warning} : m'.written = m.written \o warning
    <3>1. PICK warning \in {<<>>, Warning} : m'.written = m.written \o warning
      BY <2>4
    <3>2. PICK before \in Seq(Chars) :
             EndsWith(printed - 1, before) /\ m.written = Append(before, char)
      BY <1>b, <2>1, <2>4 DEF MessageIsPrinted, FputcPoints
    <3>3. printed \in 1 .. Len(Message) /\ char = Message[printed]
      BY <1>b, <2>1, <2>4 DEF MessageIsPrinted, FputcPoints
    <3>4. EndsWith(printed, m'.written)
      BY <3>1, <3>2, <3>3, EndsWithMore, Zenon
    <3>5. printed \in 0 .. Len(Message)
      BY <1>1, <3>3
    <3> QED
      BY <1>b, <2>1, <2>4, <3>4, <3>5 DEF MessageIsPrinted, FputcPoints
  <2> QED
    BY <1>4, <2>1, <2>2, <2>3, <2>4, FputcPrints, Zenon
<1>8. CASE ReportTransmits
  <2>1. /\ phase = "print" /\ at = "away" /\ printed = Len(Message)
        /\ phase' = "transmit" /\ m' = m
    BY <1>8 DEF ReportTransmits, Do, At
  <2> QED
    BY <1>b, <2>1 DEF MessageIsPrinted
<1>9. CASE ReportSends
  <2>1. /\ phase = "transmit" /\ phase' = "transmit"
        /\ m'.written = m.written
    BY <1>4, <1>9, TransmitPrintsNothing DEF ReportSends, reportVars
  <2> QED
    BY <1>b, <2>1 DEF MessageIsPrinted
<1>10. CASE UART_delay_until_not_busy
  BY <1>10, <1>b DEF UART_delay_until_not_busy, MessageIsPrinted, vars
<1>11. CASE Shifted \/ Default_Handler \/ UNCHANGED allVars
  <2>1. UNCHANGED <<m, at, char, phase, printed>>
    BY <1>11 DEF Shifted, Default_Handler, allVars, vars, reportVars
  <2> QED
    BY <1>b, <2>1 DEF MessageIsPrinted
<1>12. CASE \/ Thread(OS_onIdle) \/ Thread(Call) \/ Thread(Transmit \/ Fputc)
            \/ ThreadFails
  BY <1>12 DEF Thread, ThreadFails
<1> QED
  BY <1>3, <1>6, <1>7, <1>8, <1>9, <1>10, <1>11, <1>12, <1>a
  DEF ReportNext, J_on_assert_failed

-----------------------------------------------------------------------------
(* What the invariant says.                                                *)

\* What a monitor with room was given is what it sent and what it holds.
LEMMA WholeContents ==
    ASSUME m \in Room
    PROVE  /\ Contents \in Seq(Chars) /\ Len(Contents) = B - m.capacity
           /\ m.sent \o Contents = m.written
<1>1. /\ m \in MonitorState /\ Whole(m) /\ m.capacity \in 0 .. B
      /\ m.sent \in Seq(Chars) /\ m.written \in Seq(Chars) /\ m.head \in Slots
      /\ m.buffer \in [Slots -> Chars]
  BY DEF Room, MonitorState
<1> DEFINE used == B - m.capacity
<1>2. B \in Nat /\ JSM_BUFFER_SIZE = B /\ Slots = 0 .. B - 1 /\ used \in Nat /\ used =< B
  <2>1. \A b \in Nat : \A k \in 0 .. b : b - k \in Nat /\ b - k =< b
    OBVIOUS
  <2> QED
    BY <1>1, <2>1, Sizes, Zenon
<1>3. Contents = [i \in 1 .. used |-> m.buffer[(m.head + i - 1) % B]]
  BY <1>2, Zenon DEF Contents
<1>4. ASSUME NEW i \in 1 .. used
      PROVE  /\ i - 1 \in Slots /\ i - 1 < used
             /\ (m.head + i - 1) % B = Place(m.head, i - 1)
             /\ m.buffer[Place(m.head, i - 1)] \in Chars
  <2>1. i - 1 \in Slots /\ i - 1 < used /\ i - 1 \in 0 .. B
    BY <1>2
  <2>2. m.head + i - 1 = m.head + (i - 1)
    BY <1>1, <1>2
  <2>3. (m.head + (i - 1)) % B = Place(m.head, i - 1)
    BY <1>1, <2>1, Sizes
  <2>4. Place(m.head, i - 1) \in Slots
    BY <1>1, <2>1, Places
  <2> QED
    BY <1>1, <2>1, <2>2, <2>3, <2>4
<1> HIDE DEF used
<1>5. Contents \in Seq(Chars) /\ Len(Contents) = used
  <2>1. Contents \in [1 .. used -> Chars]
    BY <1>3, <1>4
  <2> QED
    BY <1>2, <1>3, <2>1, IsASeq
<1>6. \A i \in 1 .. used : Contents[i] = m.written[Len(m.sent) + i]
  <2>1. SUFFICES ASSUME NEW i \in 1 .. used
                 PROVE  Contents[i] = m.written[Len(m.sent) + i]
    OBVIOUS
  <2>2. Contents[i] = m.buffer[Place(m.head, i - 1)]
    BY <1>3, <1>4
  <2>3. m.written[Len(m.sent) + (i - 1) + 1] = m.buffer[Place(m.head, i - 1)]
    BY <1>1, <1>2, <1>4 DEF Whole, used
  <2>4. Len(m.sent) + (i - 1) + 1 = Len(m.sent) + i
    BY <1>1, <1>2, LenProperties
  <2> QED
    BY <2>2, <2>3, <2>4
<1>7. Len(m.written) = Len(m.sent) + used /\ Len(m.sent) \in Nat
  BY <1>1, LenProperties DEF Whole, used
<1>8. \A i \in 1 .. Len(m.sent) : m.written[i] = m.sent[i]
  BY <1>1 DEF Whole
<1>9. m.sent \o Contents = m.written
  <2> DEFINE s == m.sent
             t == Contents
             w == m.written
  <2>1. s \in Seq(Chars) /\ t \in Seq(Chars) /\ w \in Seq(Chars)
    BY <1>1, <1>5
  <2>2. Len(s) \in Nat /\ Len(t) = used /\ Len(w) = Len(s) + used
    BY <1>5, <1>7
  <2>3. /\ \A i \in 1 .. Len(s) : w[i] = s[i]
        /\ \A i \in 1 .. used : w[Len(s) + i] = t[i]
    BY <1>6, <1>8
  <2> HIDE DEF s, t, w
  <2>4. /\ s \o t \in Seq(Chars) /\ Len(s \o t) = Len(s) + used
        /\ \A i \in 1 .. Len(s) + used :
              (s \o t)[i] = IF i =< Len(s) THEN s[i] ELSE t[i - Len(s)]
    BY <2>1, <2>2, ConcatProperties
  <2>5. ASSUME NEW i \in 1 .. Len(s) + used PROVE (s \o t)[i] = w[i]
    <3>1. CASE i =< Len(s)
      BY <2>2, <2>3, <2>4, <3>1
    <3>2. CASE ~(i =< Len(s))
      <4>1. i - Len(s) \in 1 .. used /\ Len(s) + (i - Len(s)) = i
        BY <1>2, <2>2, <3>2
      <4> QED
        BY <2>3, <2>4, <3>2, <4>1
    <3> QED
      BY <3>1, <3>2
  <2>6. s \o t = w
    BY <2>1, <2>2, <2>4, <2>5, SeqEqual
  <2> QED
    BY <2>6 DEF s, t, w
<1> QED
  BY <1>5, <1>9 DEF used

\* It is an invariant.
LEMMA ReportInvariance == ReportSpec => []ReportInv
<1>1. Init => ReportInv
  BY InitReportInv
<1>2. ReportInv /\ [ReportNext]_allVars => ReportInv'
  BY NextReportInv
<1> QED
  BY <1>1, <1>2, PTL DEF ReportSpec

\* Whatever the size of the buffer and the texts that are printed, wherever the
\* calls are made and assertions fail: no character is lost, repeated or
\* overtaken, by the program, by its handlers or by a report, until a handler
\* comes in the middle of a call.
THEOREM NoCharacterIsLost == ReportSpec => []NothingIsLost
<1>1. ReportInv => NothingIsLost
  BY NothingFailsAway, WholeContents
  DEF ReportInv, UndisturbedInv, NothingIsLost, NothingLostOrRepeated
<1> QED
  BY <1>1, ReportInvariance, PTL

\* Until then the assertions of the monitor hold: no pointer leaves the buffer,
\* and no caller finds it full, since what fills it also empties it.
THEOREM MonitorAssertionsHold == ReportSpec => []AssertionsHold
<1>1. ReportInv => AssertionsHold
  BY NothingFailsAway DEF ReportInv, UndisturbedInv, AssertionsHold
<1> QED
  BY <1>1, ReportInvariance, PTL

\* When a report resets the microcontroller that ran with interrupts masked,
\* everything that was printed before has left the buffer and the UART.
LEMMA EverythingHasLeft ==
    ASSUME ReportInv, NVIC_SystemReset, masked, ~disturbed
    PROVE  m.sent \in Seq(Chars) /\ m.sent = m.written /\ onWire = Len(m.sent)
<1>1. at = "away" /\ m.capacity = B /\ onWire = Len(m.sent) /\ MonitorInv
  BY DEF ReportInv, UndisturbedInv, Finishing, NVIC_SystemReset
<1>2. m \in Room
  BY <1>1, NothingFailsAway
<1>3. /\ Contents \in Seq(Chars) /\ Len(Contents) = 0
      /\ m.sent \o Contents = m.written
  <2>1. \A b \in Nat : b - b = 0
    OBVIOUS
  <2> QED
    BY <1>1, <1>2, <2>1, WholeContents, Sizes, Zenon
<1>4. Contents = <<>>
  BY <1>3, EmptySeq
<1>5. m.sent \o <<>> = m.sent /\ m.sent \in Seq(Chars)
  BY <1>2, ConcatEmptySeq DEF Room, MonitorState
<1> QED
  BY <1>1, <1>3, <1>4, <1>5

\* What follows something is a suffix of the two.
LEMMA SuffixOfConcat ==
    ASSUME NEW S, NEW s \in Seq(S), NEW t \in Seq(S)
    PROVE  IsSuffix(t, s \o t)
<1> DEFINE st == s \o t
           M == Len(s)
           N == Len(t)
<1>1. /\ M \in Nat /\ N \in Nat /\ st \in Seq(S) /\ Len(st) = M + N
      /\ \A i \in 1 .. M + N : st[i] = IF i =< M THEN s[i] ELSE t[i - M]
      /\ \A i \in 1 .. N : t[i] \in S
      /\ \A i \in 1 .. M + N : st[i] \in S
  BY ConcatProperties, LenProperties, ElementOfSeq
<1> HIDE DEF st, M, N
<1> DEFINE r == Reverse(t)
           rr == Reverse(st)
<1>2. r = [i \in 1 .. N |-> t[(N - i) + 1]]
  BY DEF Reverse, N
<1>3. rr = [i \in 1 .. M + N |-> st[((M + N) - i) + 1]]
  BY <1>1 DEF Reverse
<1> HIDE DEF r, rr
<1>4. r \in Seq(S) /\ Len(r) = N
  <2>1. N \in Nat /\ r \in [1 .. N -> S]
    BY <1>1, <1>2
  <2> QED
    BY <2>1, IsASeq
<1>5. rr \in Seq(S) /\ Len(rr) = M + N
  <2> DEFINE P == M + N
  <2>1. P \in Nat /\ rr \in [1 .. P -> S]
    BY <1>1, <1>3
  <2> HIDE DEF P
  <2>2. rr \in Seq(S) /\ Len(rr) = P
    BY <2>1, IsASeq
  <2> QED
    BY <2>2 DEF P
<1>6. \A i \in 1 .. N : r[i] = rr[i]
  BY <1>1, <1>2, <1>3
<1> DEFINE a == SubSeq(r, 1, N)
           b == SubSeq(rr, 1, N)
<1>7. a \in Seq(S) /\ b \in Seq(S) /\ Len(a) = N /\ Len(b) = N
      /\ \A i \in 1 .. N : a[i] = r[i] /\ b[i] = rr[i]
  BY <1>1, <1>4, <1>5, SubSeqProperties
<1> HIDE DEF a, b
<1>8. a = b
  BY <1>6, <1>7, SeqEqual
<1> QED
  BY <1>1, <1>4, <1>5, <1>8 DEF IsSuffix, IsPrefix, a, b, r, rr, st

\* When a report that ran with interrupts masked resets the microcontroller,
\* and no call was disturbed, everything that was printed has left the UART,
\* and the message ends it: whatever else waited in the buffer, however often
\* the message filled it, and also if the report interrupted another one.
THEOREM ReportsAreComplete == ReportSpec => ReportIsComplete
<1> DEFINE Complete ==
      /\ m.sent = m.written
      /\ onWire = Len(m.sent)
      /\ \E text \in BrokenMessages[Len(Message)] : IsSuffix(text, m.sent)
<1>1. Init => TextInv
  BY DEF Init, TextInv
<1>2. ReportInv /\ TextInv /\ [ReportNext]_allVars => TextInv'
  BY NextTextInv
<1>3. ReportInv /\ TextInv =>
        (NVIC_SystemReset /\ masked /\ ~disturbed => Complete)
  <2> SUFFICES ASSUME ReportInv, TextInv, NVIC_SystemReset, masked, ~disturbed
               PROVE  Complete
    OBVIOUS
  <2>1. m.sent \in Seq(Chars) /\ m.sent = m.written /\ onWire = Len(m.sent)
    BY EverythingHasLeft
  <2>2. PICK before \in Seq(Chars), text \in BrokenMessages[Len(Message)] :
           m.written = before \o text
    BY DEF TextInv, MessageIsPrinted, EndsWith, NVIC_SystemReset
  <2>3. text \in Seq(Chars)
    <3>1. Len(Message) \in 0 .. Len(Message)
      BY MessagesBreak
    <3> QED
      BY <3>1, MessagesBreak
  <2>4. IsSuffix(text, m.sent)
    BY <2>1, <2>2, <2>3, SuffixOfConcat, Zenon
  <2> QED
    BY <2>1, <2>4, Zenon
<1> HIDE DEF Complete
<1>4. ReportSpec =>
        [][NVIC_SystemReset /\ masked /\ ~disturbed => Complete]_allVars
  BY <1>1, <1>2, <1>3, ReportInvariance, PTL DEF ReportSpec
<1> QED
  BY <1>4 DEF ReportIsComplete, Complete
=============================================================================

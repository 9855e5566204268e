------------------------ MODULE ContextSwitchProofs ------------------------
(***************************************************************************)
(* Theorems about the context switch of jorgOS: for any number of threads, *)
(* with stacks of any size, depth and alignment.                           *)
(***************************************************************************)
EXTENDS ContextSwitch, TLAPS

-----------------------------------------------------------------------------
(* Registers and words.                                                    *)

\* The registers, in the order in which they are pushed.
LEMMA Orders ==
    /\ Len(AutoSaved) = 8 /\ DOMAIN AutoSaved = 1 .. 8
    /\ Len(Saved) = 8 /\ DOMAIN Saved = 1 .. 8
    /\ AutoSaved[8] = "xPSR"
    /\ \A i, j \in 1 .. 8 : AutoSaved[i] = AutoSaved[j] => i = j
    /\ \A i, j \in 1 .. 8 : Saved[i] = Saved[j] => i = j
    /\ \A i, j \in 1 .. 8 : Saved[i] # AutoSaved[j]
    /\ \A i \in 1 .. 8 : AutoSaved[i] # "sp" /\ Saved[i] # "sp"
<1>1. \A i \in 1 .. 8 : i = 1 \/ i = 2 \/ i = 3 \/ i = 4
                          \/ i = 5 \/ i = 6 \/ i = 7 \/ i = 8
  OBVIOUS
<1>2. /\ AutoSaved[1] = "R0" /\ AutoSaved[2] = "R1" /\ AutoSaved[3] = "R2"
      /\ AutoSaved[4] = "R3" /\ AutoSaved[5] = "R12" /\ AutoSaved[6] = "LR"
      /\ AutoSaved[7] = "PC" /\ AutoSaved[8] = "xPSR"
  BY DEF AutoSaved
<1>3. /\ Saved[1] = "R4" /\ Saved[2] = "R5" /\ Saved[3] = "R6"
      /\ Saved[4] = "R7" /\ Saved[5] = "R8" /\ Saved[6] = "R9"
      /\ Saved[7] = "R10" /\ Saved[8] = "R11"
  BY DEF Saved
<1>4. /\ Len(AutoSaved) = 8 /\ DOMAIN AutoSaved = 1 .. 8
      /\ Len(Saved) = 8 /\ DOMAIN Saved = 1 .. 8
  BY DEF AutoSaved, Saved
<1> QED
  BY <1>1, <1>2, <1>3, <1>4

\* The registers that are pushed, with the status register among them.
AllSaved == General \cup {"xPSR"}

\* The same registers as sets.
LEMMA RegisterSets ==
    /\ Range(AutoSaved) = {AutoSaved[i] : i \in 1 .. 8}
    /\ Range(Saved) = {Saved[i] : i \in 1 .. 8}
    /\ Range(AutoSaved \o Saved) = Range(AutoSaved) \cup Range(Saved)
    /\ AllSaved = Range(AutoSaved) \cup Range(Saved)
    /\ General = {AutoSaved[i] : i \in 1 .. 7} \cup {Saved[i] : i \in 1 .. 8}
    /\ "sp" \notin AllSaved
<1>1. /\ Range(AutoSaved) = {AutoSaved[i] : i \in 1 .. 8}
      /\ Range(Saved) = {Saved[i] : i \in 1 .. 8}
  BY Orders DEF Range
<1>2. Range(AutoSaved \o Saved) = Range(AutoSaved) \cup Range(Saved)
  <2> DEFINE s == AutoSaved \o Saved
  <2>1. /\ DOMAIN s = 1 .. 16
        /\ \A i \in 1 .. 16 : s[i] = IF i =< 8 THEN AutoSaved[i] ELSE Saved[i - 8]
    BY DEF AutoSaved, Saved
  <2> HIDE DEF s
  <2>2. Range(s) = {s[i] : i \in 1 .. 16}
    BY <2>1 DEF Range
  <2>3. \A i \in 1 .. 8 : i + 8 \in 1 .. 16 /\ s[i] = AutoSaved[i]
                             /\ s[i + 8] = Saved[i]
    BY <2>1
  <2>4. \A i \in 1 .. 16 : (i \in 1 .. 8 /\ s[i] = AutoSaved[i])
                            \/ (i - 8 \in 1 .. 8 /\ s[i] = Saved[i - 8])
    BY <2>1
  <2>5. Range(s) = Range(AutoSaved) \cup Range(Saved)
    BY <1>1, <2>2, <2>3, <2>4
  <2> QED
    BY <2>5 DEF s
<1>3. General = {AutoSaved[i] : i \in 1 .. 7} \cup {Saved[i] : i \in 1 .. 8}
  BY <1>1, <1>2, Orders DEF General
<1> QED
  BY <1>1, <1>2, <1>3, Orders DEF AllSaved

\* Where exceptions and PendSV_Handler find each register.
LEMMA Places ==
    \A i \in 1 .. 8 : Place[AutoSaved[i]] = i /\ Place[Saved[i]] = i
<1> TAKE i \in 1 .. 8
<1> DEFINE at(r) == CHOOSE j \in 1 .. 8 : AutoSaved[j] = r \/ Saved[j] = r
<1>1. Place[AutoSaved[i]] = at(AutoSaved[i]) /\ Place[Saved[i]] = at(Saved[i])
  BY RegisterSets DEF Place
<1>2. at(AutoSaved[i]) = i /\ at(Saved[i]) = i
  BY Orders
<1> QED
  BY <1>1, <1>2

\* Nothing that is pushed looks like the filler of a stack.
LEMMA WordsDiffer ==
    ASSUME NEW p, NEW r, NEW v, NEW w, NEW md, NEW padded
    PROVE  /\ Word(p, r, v) # Filler /\ XPSR(md, padded) # Filler
           /\ Zero # Filler
<1>1. Word(p, r, v) # Filler
  <2>1. "of" \in DOMAIN Word(p, r, v) /\ "of" \notin DOMAIN Filler
    BY DEF Word, Filler
  <2> QED
    BY <2>1
<1>2. XPSR(md, padded) # Filler
  <2>1. "mode" \in DOMAIN XPSR(md, padded) /\ "mode" \notin DOMAIN Filler
    BY DEF XPSR, Filler
  <2> QED
    BY <2>1
<1>3. Zero # Filler
  <2>1. Zero.word = "0" /\ Filler.word = "0xDEADBEEF"
    BY DEF Zero, Filler
  <2> QED
    BY <2>1
<1> QED
  BY <1>1, <1>2, <1>3

\* The status word tells whether its frame is padded.
LEMMA StatusTells ==
    ASSUME NEW md
    PROVE  XPSR(md, FALSE) # XPSR(md, TRUE)
<1>1. XPSR(md, FALSE).padded = FALSE /\ XPSR(md, TRUE).padded = TRUE
  BY DEF XPSR
<1> QED
  BY <1>1

-----------------------------------------------------------------------------
(* Pushing and popping.                                                    *)

Addresses == 0 .. Words - 1
IsMemory(mem) == mem = [a \in Addresses |-> mem[a]]

\* The processor with its memory.
IsMachine(c) ==
    /\ DOMAIN c = {"reg", "sp", "mem", "low"}
    /\ c.reg = [r \in AllSaved |-> c.reg[r]]
    /\ IsMemory(c.mem)
    /\ c.sp \in Int /\ c.low \in Int

Lower(a, b) == IF a < b THEN a ELSE b

\* n words to be pushed.
IsWords(words, n) == words = [i \in 1 .. n |-> words[i]]

\* A function that counts from one is a sequence.
LEMMA Counted ==
    ASSUME NEW n \in Nat, NEW f, IsWords(f, n)
    PROVE  Len(f) = n /\ DOMAIN f = 1 .. n
<1> DEFINE S == {f[i] : i \in 1 .. n}
<1>1. f \in [1 .. n -> S]
  BY DEF IsWords
<1>2. f \in Seq(S) /\ DOMAIN f = 1 .. n
  BY <1>1
<1>3. Len(f) \in Nat /\ DOMAIN f = 1 .. Len(f)
  BY <1>2
<1> QED
  BY <1>2, <1>3

\* The memory after n words have been written at sp, and before.
IsWritten(after, before, sp, n, words) ==
    /\ IsMemory(after)
    /\ \A a \in Addresses :
          after[a] = IF a >= sp /\ a < sp + n THEN words[a - sp + 1]
                                             ELSE before[a]

\* Written writes just these words.
LEMMA WrittenFacts ==
    ASSUME NEW mem, IsMemory(mem), NEW sp \in Int,
           NEW n \in Nat, NEW words, IsWords(words, n)
    PROVE  IsWritten(Written(mem, sp, words), mem, sp, n, words)
<1> DEFINE w == Written(mem, sp, words)
<1>1. Len(words) = n /\ DOMAIN mem = Addresses
  BY Counted DEF IsMemory
<1>2. w = [a \in Addresses |-> IF a \in sp .. sp + n - 1
                               THEN words[a - sp + 1] ELSE mem[a]]
  BY <1>1 DEF Written
<1>3. \A a \in Addresses : a \in sp .. sp + n - 1 <=> a >= sp /\ a < sp + n
  BY DEF Addresses
<1> HIDE DEF w
<1>4. IsMemory(w)
  BY <1>2 DEF IsMemory
<1>5. \A a \in Addresses : w[a] = IF a >= sp /\ a < sp + n THEN words[a - sp + 1]
                                                       ELSE mem[a]
  BY <1>2, <1>3
<1> QED
  BY <1>4, <1>5 DEF w, IsWritten

\* A push writes the words below the stack pointer, which it moves there.
LEMMA PushFacts ==
    ASSUME NEW c, IsMachine(c),
           NEW n \in Nat, NEW words, IsWords(words, n)
    PROVE  LET d == Push(c, words)
           IN  /\ IsMachine(d)
               /\ d.reg = c.reg /\ d.sp = c.sp - n
               /\ d.low = Lower(d.sp, c.low)
               /\ \A a \in Addresses :
                     d.mem[a] = IF a >= d.sp /\ a < c.sp THEN words[a - d.sp + 1]
                                                        ELSE c.mem[a]
<1> DEFINE sp == c.sp - n
           mem == Written(c.mem, sp, words)
           low_ == Lower(sp, c.low)
           d == Push(c, words)
<1>1. Len(words) = n /\ c.sp \in Int /\ c.low \in Int /\ sp \in Int
  BY Counted DEF IsMachine
<1>2. /\ DOMAIN d = {"reg", "sp", "mem", "low"}
      /\ d.reg = c.reg /\ d.sp = sp /\ d.mem = mem /\ d.low = low_
  BY <1>1 DEF Push, IsMachine, Lower
<1>3. /\ IsMemory(mem)
      /\ \A a \in Addresses :
            mem[a] = IF a >= sp /\ a < c.sp THEN words[a - sp + 1] ELSE c.mem[a]
  <2>1. IsMemory(c.mem) /\ sp + n = c.sp
    BY <1>1 DEF IsMachine
  <2> HIDE DEF sp
  <2>2. IsWritten(Written(c.mem, sp, words), c.mem, sp, n, words)
    BY <1>1, <2>1, WrittenFacts
  <2> HIDE DEF mem
  <2> QED
    BY <2>1, <2>2 DEF IsWritten, mem
<1>4. low_ \in Int /\ c.reg = [r \in AllSaved |-> c.reg[r]]
  BY <1>1 DEF Lower, IsMachine
<1> HIDE DEF mem, low_, sp, d
<1>5. IsMachine(d)
  BY <1>1, <1>2, <1>3, <1>4 DEF IsMachine
<1> QED
  BY <1>2, <1>3, <1>5 DEF d, sp, low_

\* PUSH of eight registers.
LEMMA PushRegistersFacts ==
    ASSUME NEW c, IsMachine(c), NEW names \in {AutoSaved, Saved}
    PROVE  LET d == PushRegisters(c, names)
           IN  /\ IsMachine(d)
               /\ d.reg = c.reg /\ d.sp = c.sp - 8
               /\ d.low = Lower(d.sp, c.low)
               /\ \A i \in 1 .. 8 : d.sp + i - 1 \in Addresses =>
                                      d.mem[d.sp + i - 1] = c.reg[names[i]]
               /\ \A a \in Addresses : a < d.sp \/ a >= c.sp =>
                                         d.mem[a] = c.mem[a]
<1> DEFINE words == [i \in 1 .. 8 |-> c.reg[names[i]]]
           d == Push(c, words)
<1>1. PushRegisters(c, names) = d
  BY Orders DEF PushRegisters
<1>2. /\ IsMachine(d) /\ d.reg = c.reg /\ d.sp = c.sp - 8
      /\ d.low = Lower(d.sp, c.low)
      /\ \A a \in Addresses :
            d.mem[a] = IF a >= d.sp /\ a < c.sp THEN words[a - d.sp + 1]
                                               ELSE c.mem[a]
  <2>1. IsWords(words, 8) /\ 8 \in Nat
    BY DEF IsWords
  <2> HIDE DEF words
  <2> QED
    BY <2>1, PushFacts
<1>3. c.sp \in Int
  BY DEF IsMachine
<1> HIDE DEF d
<1>4. ASSUME NEW i \in 1 .. 8, d.sp + i - 1 \in Addresses
      PROVE  d.mem[d.sp + i - 1] = c.reg[names[i]]
  <2> DEFINE a == d.sp + i - 1
  <2>1. d.sp \in Int /\ a >= d.sp /\ a < c.sp /\ a - d.sp + 1 = i
    BY <1>2, <1>3
  <2>2. d.mem[a] = words[a - d.sp + 1]
    BY <1>2, <1>4, <2>1
  <2> QED
    BY <2>1, <2>2
<1>5. ASSUME NEW a \in Addresses, a < d.sp \/ a >= c.sp
      PROVE  d.mem[a] = c.mem[a]
  <2>1. ~(a >= d.sp /\ a < c.sp)
    BY <1>2, <1>3, <1>5, ContextSwitchAssumption DEF Addresses, ContextSwitchAssumption
  <2> QED
    BY <1>2, <2>1
<1> QED
  BY <1>1, <1>2, <1>4, <1>5

\* POP of eight registers.
LEMMA PopRegistersFacts ==
    ASSUME NEW c, IsMachine(c), NEW names \in {AutoSaved, Saved}
    PROVE  LET d == PopRegisters(c, names)
           IN  /\ IsMachine(d)
               /\ d.sp = c.sp + 8 /\ d.mem = c.mem /\ d.low = c.low
               /\ \A i \in 1 .. 8 : d.reg[names[i]] = c.mem[c.sp + i - 1]
               /\ \A r \in AllSaved \ Range(names) : d.reg[r] = c.reg[r]
<1> DEFINE reg == [r \in AllSaved |-> IF r \in Range(names)
                                      THEN c.mem[c.sp + Place[r] - 1]
                                      ELSE c.reg[r]]
           d == PopRegisters(c, names)
<1>1. /\ Len(names) = 8 /\ Range(names) = {names[i] : i \in 1 .. 8}
      /\ Range(names) \subseteq AllSaved
      /\ \A i \in 1 .. 8 : Place[names[i]] = i
  BY Orders, RegisterSets, Places
<1>2. DOMAIN c.reg = AllSaved
  BY DEF IsMachine
<1>3. /\ DOMAIN d = {"reg", "sp", "mem", "low"}
      /\ d.reg = reg /\ d.sp = c.sp + 8 /\ d.mem = c.mem /\ d.low = c.low
  BY <1>1, <1>2 DEF PopRegisters, IsMachine
<1>4. /\ reg = [r \in AllSaved |-> reg[r]]
      /\ \A i \in 1 .. 8 : reg[names[i]] = c.mem[c.sp + i - 1]
      /\ \A r \in AllSaved \ Range(names) : reg[r] = c.reg[r]
  BY <1>1
<1> HIDE DEF reg, d
<1>5. IsMachine(d)
  BY <1>3, <1>4 DEF IsMachine
<1> QED
  BY <1>3, <1>4, <1>5 DEF d

-----------------------------------------------------------------------------
(* What is on a stack.                                                     *)

Pad(padded) == IF padded THEN 1 ELSE 0
Array(p) == Stack[p] .. Stack[p] + StackSize[p] - 1

\* The stack of p, with the stack pointer at sp and the words of d calls at
\* its top, has not left its array, and its use can be seen in the word that
\* J_assert_stack_integrity looks at.
StackKept(p, mem, lowest, sp, d) ==
    /\ Stack[p] <= lowest /\ lowest <= sp /\ sp <= Top(p) - d
    /\ \A i \in 1 .. d : mem[Top(p) - i] = Local(p, i)
    /\ mem[Stack[p] + 1] = Filler <=> lowest > Stack[p] + 1

\* At sp lies what exception entry, or PendSV_Handler, pushes.
AutoFrame(p, mem, sp, v, padded) ==
    /\ \A i \in 1 .. 7 : mem[sp + i - 1] = Word(p, AutoSaved[i], v)
    /\ mem[sp + 7] = XPSR("Thread", padded)
SavedFrame(p, mem, sp, v) ==
    \A i \in 1 .. 8 : mem[sp + i - 1] = Word(p, Saved[i], v)

\* p computes, was interrupted, or was switched away from.
Computes(p, regs, sp, v, d) ==
    /\ \A r \in General : regs[r] = Word(p, r, v)
    /\ sp = Top(p) - d
Interrupted(p, mem, regs, sp, v, d) ==
    \E padded \in BOOLEAN :
        /\ sp + 8 + Pad(padded) = Top(p) - d
        /\ AutoFrame(p, mem, sp, v, padded)
        /\ \A i \in 1 .. 8 : regs[Saved[i]] = Word(p, Saved[i], v)
Suspended(p, mem, sp, v, d) ==
    \E padded \in BOOLEAN :
        /\ sp + 16 + Pad(padded) = Top(p) - d
        /\ SavedFrame(p, mem, sp, v)
        /\ AutoFrame(p, mem, sp + 8, v, padded)

-----------------------------------------------------------------------------
(* The invariant.                                                          *)

Contexts == Threads \cup {main}

Typed ==
    /\ DOMAIN cpu = AllSaved \cup {"sp"} /\ cpu["sp"] \in Int
    /\ IsMemory(memory)
    /\ on \in Contexts /\ on = OS_curr /\ OS_next \in Contexts
    /\ mode \in {"Thread", "SysTick"}
    /\ saved_sp \in [Threads -> Int] /\ low \in [Contexts -> Int]
    /\ pendsv \in BOOLEAN /\ ticking \in BOOLEAN /\ fault \in BOOLEAN
    /\ depth \in [Threads -> Nat]
    /\ version = [p \in Threads |-> version[p]]

\* Until the tick is enabled, main() runs.
Booting ==
    ~ticking =>
        /\ OS_curr = main /\ OS_next = main /\ ~pendsv /\ mode = "Thread"
        /\ ~fault
        /\ \A p \in Threads :
              low[p] >= Stack[p] /\ depth[p] = 0 /\ version[p] = 0
        /\ IsStarted(idle_thread) => SHP = LowestPriority

Prepared(p) == ticking \/ IsStarted(p)
SpOf(p) == IF OS_curr = p THEN cpu["sp"] ELSE saved_sp[p]

StacksKept ==
    \A p \in Threads :
        Prepared(p) => StackKept(p, memory, low[p], SpOf(p), depth[p])

OthersSuspended ==
    \A p \in Threads \ {OS_curr} :
        Prepared(p) => Suspended(p, memory, saved_sp[p], version[p], depth[p])

\* In which state the running context is.
CurrentRuns ==
    OS_curr \in Threads =>
        IF mode = "Thread"
        THEN Computes(OS_curr, cpu, cpu["sp"], version[OS_curr], depth[OS_curr])
        ELSE Interrupted(OS_curr, memory, cpu, cpu["sp"], version[OS_curr],
                         depth[OS_curr])
MainRuns ==
    OS_curr = main =>
        IF mode = "Thread"
        THEN cpu["sp"] = Top(main)
        ELSE /\ cpu["sp"] = Top(main) - 8
             /\ memory[Top(main) - 1] = XPSR("Thread", FALSE)

\* After a stack has overflown, nothing is promised.
IInv ==
    /\ Typed /\ Booting
    /\ fault => Overflow
    /\ ticking => SHP = LowestPriority
    /\ pendsv => OS_next \in Threads
    /\ Alive => StacksKept /\ OthersSuspended /\ CurrentRuns /\ MainRuns

-----------------------------------------------------------------------------
(* The arrays.                                                             *)

\* Where stacks begin and end.
LEMMA Bounds ==
    ASSUME NEW p \in Contexts
    PROVE  /\ Stack[p] \in Nat /\ StackSize[p] \in Nat /\ Top(p) \in Nat
           /\ Top(p) <= Stack[p] + StackSize[p]
           /\ Stack[p] + StackSize[p] <= Top(p) + 1
           /\ Top(p) % 2 = 0
           /\ stack_limit(p) \in {Stack[p], Stack[p] + 1}
           /\ stack_limit(p) % 2 = 0
           /\ Stack[p] + StackSize[p] <= Words /\ Words \in Nat
           /\ p \in Threads => StackSize[p] > 16
<1>1. /\ Stack[p] \in Nat /\ StackSize[p] \in Nat /\ Words \in Nat
      /\ Stack[p] + StackSize[p] <= Words
      /\ p \in Threads => StackSize[p] * 4 > 64
  BY ContextSwitchAssumption DEF ContextSwitchAssumption, Contexts
<1> QED
  BY <1>1 DEF Top, stack_limit

\* What is written into one stack leaves the others as they are.
LEMMA Apart ==
    ASSUME NEW p \in Contexts, NEW q \in Contexts, p # q, NEW mem, NEW mem2,
           \A a \in Addresses : a \notin Array(p) => mem2[a] = mem[a]
    PROVE  \A a \in Array(q) : mem2[a] = mem[a]
<1> TAKE a \in Array(q)
<1>1. a \in Int /\ Stack[q] <= a /\ a < Stack[q] + StackSize[q]
  BY Bounds DEF Array
<1>2. a \in Addresses
  BY <1>1, Bounds DEF Addresses
<1>3. \/ Stack[p] + StackSize[p] <= Stack[q]
      \/ Stack[q] + StackSize[q] <= Stack[p]
  BY ContextSwitchAssumption DEF ContextSwitchAssumption, Contexts
<1>4. a \notin Array(p)
  BY <1>1, <1>3, Bounds DEF Array
<1> QED
  BY <1>2, <1>4

\* A stack whose words stay is kept, with what is suspended on it.
LEMMA SameKeeps ==
    ASSUME NEW p \in Threads, NEW mem, NEW mem2, NEW lowest \in Int,
           NEW sp \in Int, NEW d \in Nat, NEW v,
           \A a \in Array(p) : mem2[a] = mem[a],
           StackKept(p, mem, lowest, sp, d)
    PROVE  /\ StackKept(p, mem2, lowest, sp, d)
           /\ Suspended(p, mem, sp, v, d) => Suspended(p, mem2, sp, v, d)
<1>1. /\ Stack[p] \in Nat /\ StackSize[p] \in Nat /\ Top(p) \in Nat
      /\ Top(p) <= Stack[p] + StackSize[p] /\ StackSize[p] > 16
  BY Bounds DEF Contexts
<1>2. Stack[p] <= lowest /\ lowest <= sp /\ sp <= Top(p) - d
  BY DEF StackKept
<1>3. ASSUME NEW i \in 1 .. d PROVE mem2[Top(p) - i] = Local(p, i)
  <2>1. Top(p) - i \in Array(p)
    BY <1>1, <1>2 DEF Array
  <2> QED
    BY <2>1 DEF StackKept
<1>4. mem2[Stack[p] + 1] = mem[Stack[p] + 1]
  BY <1>1 DEF Array
<1>5. StackKept(p, mem2, lowest, sp, d)
  BY <1>2, <1>3, <1>4 DEF StackKept
<1>6. ASSUME Suspended(p, mem, sp, v, d) PROVE Suspended(p, mem2, sp, v, d)
  <2>1. PICK padded \in BOOLEAN :
            /\ sp + 16 + Pad(padded) = Top(p) - d
            /\ SavedFrame(p, mem, sp, v) /\ AutoFrame(p, mem, sp + 8, v, padded)
    BY <1>6 DEF Suspended
  <2>2. \A i \in 0 .. 15 : mem2[sp + i] = mem[sp + i]
    BY <1>1, <1>2, <2>1 DEF Array, Pad
  <2>3. SavedFrame(p, mem2, sp, v)
    <3> SUFFICES ASSUME NEW i \in 1 .. 8
                 PROVE  mem2[sp + i - 1] = Word(p, Saved[i], v)
      BY DEF SavedFrame
    <3>1. i - 1 \in 0 .. 15 /\ sp + (i - 1) = sp + i - 1
      OBVIOUS
    <3> QED
      BY <2>1, <2>2, <3>1 DEF SavedFrame
  <2>4. AutoFrame(p, mem2, sp + 8, v, padded)
    <3>1. ASSUME NEW i \in 1 .. 7
          PROVE  mem2[sp + 8 + i - 1] = Word(p, AutoSaved[i], v)
      <4>1. i + 7 \in 0 .. 15 /\ sp + (i + 7) = sp + 8 + i - 1
        OBVIOUS
      <4> QED
        BY <2>1, <2>2, <4>1 DEF AutoFrame
    <3>2. mem2[sp + 8 + 7] = XPSR("Thread", padded)
      <4>1. 15 \in 0 .. 15 /\ sp + 15 = sp + 8 + 7
        OBVIOUS
      <4> QED
        BY <2>1, <2>2, <4>1 DEF AutoFrame
    <3> QED
      BY <3>1, <3>2 DEF AutoFrame
  <2> QED
    BY <2>1, <2>3, <2>4 DEF Suspended
<1> QED
  BY <1>5, <1>6

\* Words pushed onto a stack within its array keep it.  All of them are other
\* than the filler, but for the padding word of a frame, which leaves as it
\* was what it covers.
LEMMA StackGrows ==
    ASSUME NEW p \in Threads, NEW mem, NEW mem2, NEW lowest \in Int,
           NEW sp \in Int, NEW d \in Nat, StackKept(p, mem, lowest, sp, d),
           NEW bottom \in Int, NEW sp2 \in Int,
           bottom <= sp2, sp2 <= sp, Stack[p] <= bottom,
           \A a \in Addresses : a < bottom \/ a >= sp => mem2[a] = mem[a],
           \A a \in Addresses : a >= bottom /\ a < sp =>
               \/ mem2[a] # Filler
               \/ a = sp - 1 /\ mem2[a] = mem[a] /\ bottom + 2 <= a
    PROVE  StackKept(p, mem2, Lower(bottom, lowest), sp2, d)
<1>1. /\ Stack[p] \in Nat /\ StackSize[p] \in Nat /\ Top(p) \in Nat
      /\ Top(p) <= Stack[p] + StackSize[p] /\ StackSize[p] > 16
      /\ Stack[p] + StackSize[p] <= Words /\ Words \in Nat
  BY Bounds DEF Contexts
<1>2. Stack[p] <= lowest /\ lowest <= sp /\ sp <= Top(p) - d
  BY DEF StackKept
<1>3. ASSUME NEW i \in 1 .. d PROVE mem2[Top(p) - i] = Local(p, i)
  <2>1. Top(p) - i \in Addresses /\ Top(p) - i >= sp
    BY <1>1, <1>2 DEF Addresses
  <2> QED
    BY <2>1 DEF StackKept
<1>4. mem2[Stack[p] + 1] = Filler <=> Lower(bottom, lowest) > Stack[p] + 1
  <2> DEFINE a == Stack[p] + 1
  <2>1. a \in Addresses
    BY <1>1 DEF Addresses
  <2>2. mem[a] = Filler <=> lowest > a
    BY DEF StackKept
  <2>3. CASE a < bottom
    BY <1>1, <2>1, <2>2, <2>3 DEF Lower
  <2>4. CASE a >= sp
    BY <1>1, <1>2, <2>1, <2>2, <2>4 DEF Lower
  <2>5. CASE a >= bottom /\ a < sp
    <3>1. mem2[a] # Filler
      BY <1>1, <2>1, <2>5
    <3> QED
      BY <1>1, <2>5, <3>1 DEF Lower
  <2> QED
    BY <1>1, <2>3, <2>4, <2>5
<1> QED
  BY <1>1, <1>2, <1>3, <1>4 DEF StackKept, Lower

-----------------------------------------------------------------------------
(* Interrupting, saving, restoring and returning.                          *)

\* Exception entry pushes a frame, after a padding word where the stack
\* pointer is odd.
LEMMA EnterFacts ==
    ASSUME NEW c, IsMachine(c), mode = "Thread"
    PROVE  LET e      == Enter(c)
               padded == c.sp % 2 = 1
           IN  /\ IsMachine(e)
               /\ e.sp = c.sp - Pad(padded) - 8
               /\ e.low = Lower(e.sp, c.low)
               /\ \A r \in General : e.reg[r] = c.reg[r]
               /\ \A i \in 1 .. 7 : e.sp + i - 1 \in Addresses =>
                     e.mem[e.sp + i - 1] = c.reg[AutoSaved[i]]
               /\ e.sp + 7 \in Addresses =>
                     e.mem[e.sp + 7] = XPSR("Thread", padded)
               /\ \A a \in Addresses : a < e.sp \/ a >= e.sp + 8 =>
                     e.mem[a] = c.mem[a]
<1> DEFINE padded == c.sp % 2 = 1
           psr == XPSR("Thread", padded)
           b == [c EXCEPT !.sp = IF padded THEN @ - 1 ELSE @, !.reg["xPSR"] = psr]
           e == Enter(c)
<1>1. e = PushRegisters(b, AutoSaved)
  BY DEF Enter
<1>2. "xPSR" \in AllSaved /\ \A r \in General : r \in AllSaved /\ r # "xPSR"
  BY DEF AllSaved, General
<1>3. c.sp \in Int /\ DOMAIN c.reg = AllSaved /\ DOMAIN c = {"reg", "sp", "mem", "low"}
  BY DEF IsMachine
<1>4. /\ b.sp = c.sp - Pad(padded) /\ b.mem = c.mem /\ b.low = c.low
      /\ DOMAIN b = {"reg", "sp", "mem", "low"}
      /\ b.reg = [c.reg EXCEPT !["xPSR"] = psr]
  BY <1>3 DEF Pad
<1>5. /\ b.reg = [r \in AllSaved |-> b.reg[r]]
      /\ b.reg["xPSR"] = psr /\ \A r \in General : b.reg[r] = c.reg[r]
  BY <1>2, <1>3, <1>4
<1>6. b.sp \in Int
  BY <1>3, <1>4 DEF Pad
<1> HIDE DEF b, psr
<1>7. IsMachine(b)
  BY <1>4, <1>5, <1>6 DEF IsMachine
<1>8. /\ IsMachine(e) /\ e.reg = b.reg /\ e.sp = b.sp - 8
      /\ e.low = Lower(e.sp, b.low)
      /\ \A i \in 1 .. 8 : e.sp + i - 1 \in Addresses =>
                             e.mem[e.sp + i - 1] = b.reg[AutoSaved[i]]
      /\ \A a \in Addresses : a < e.sp \/ a >= b.sp => e.mem[a] = b.mem[a]
  <2>1. AutoSaved \in {AutoSaved, Saved}
    OBVIOUS
  <2> HIDE DEF e
  <2> QED
    BY <1>1, <1>7, <2>1, PushRegistersFacts
<1> HIDE DEF e
<1>9. \A i \in 1 .. 7 : AutoSaved[i] \in General
  BY RegisterSets
<1>10. ASSUME NEW i \in 1 .. 7, e.sp + i - 1 \in Addresses
       PROVE  e.mem[e.sp + i - 1] = c.reg[AutoSaved[i]]
  <2>1. i \in 1 .. 8
    OBVIOUS
  <2>2. e.mem[e.sp + i - 1] = b.reg[AutoSaved[i]]
    BY <1>8, <1>10, <2>1
  <2> QED
    BY <1>5, <1>9, <2>2
<1>11. e.sp + 7 \in Addresses => e.mem[e.sp + 7] = psr
  <2>1. e.sp + 8 - 1 = e.sp + 7 /\ 8 \in 1 .. 8
    BY <1>6, <1>8
  <2> QED
    BY <1>5, <1>8, <2>1, Orders
<1>12. /\ e.sp = c.sp - Pad(padded) - 8
       /\ \A a \in Addresses : a < e.sp \/ a >= e.sp + 8 => e.mem[a] = c.mem[a]
  <2>1. e.sp + 8 = b.sp
    BY <1>6, <1>8
  <2> QED
    BY <1>4, <1>8, <2>1
<1> QED
  BY <1>4, <1>5, <1>8, <1>10, <1>11, <1>12 DEF e, psr

\* A thread that is interrupted finds what it needs in its registers and in
\* the frame, provided that its stack has room for it.
LEMMA EnterInterrupts ==
    ASSUME NEW p \in Threads, NEW c, IsMachine(c), mode = "Thread",
           NEW v, NEW d \in Nat, StackKept(p, c.mem, c.low, c.sp, d),
           Computes(p, c.reg, c.sp, v, d), Stack[p] <= Enter(c).sp
    PROVE  LET e == Enter(c)
           IN  /\ StackKept(p, e.mem, e.low, e.sp, d)
               /\ Interrupted(p, e.mem, e.reg, e.sp, v, d)
<1> DEFINE e == Enter(c)
           padded == c.sp % 2 = 1
<1>1. /\ IsMachine(e) /\ e.sp = c.sp - Pad(padded) - 8
      /\ e.low = Lower(e.sp, c.low)
      /\ \A r \in General : e.reg[r] = c.reg[r]
      /\ \A i \in 1 .. 7 : e.sp + i - 1 \in Addresses =>
            e.mem[e.sp + i - 1] = c.reg[AutoSaved[i]]
      /\ e.sp + 7 \in Addresses => e.mem[e.sp + 7] = XPSR("Thread", padded)
      /\ \A a \in Addresses : a < e.sp \/ a >= e.sp + 8 => e.mem[a] = c.mem[a]
  BY EnterFacts
<1> HIDE DEF e
<1>2. /\ Stack[p] \in Nat /\ Top(p) \in Nat /\ Words \in Nat /\ Top(p) <= Words
  BY Bounds DEF Contexts
<1>3. c.sp \in Int /\ c.low \in Int /\ e.sp \in Int /\ e.low \in Int
      /\ e.sp + 8 <= c.sp /\ c.sp <= Top(p) - d /\ Stack[p] <= e.sp
  BY <1>1 DEF IsMachine, StackKept, Pad, e
<1>4. \A i \in 0 .. 7 : e.sp + i \in Addresses
  BY <1>2, <1>3 DEF Addresses
<1>5. AutoFrame(p, e.mem, e.sp, v, padded)
  <2>1. ASSUME NEW i \in 1 .. 7 PROVE e.mem[e.sp + i - 1] = Word(p, AutoSaved[i], v)
    <3>1. e.sp + i - 1 \in Addresses
      <4>1. i - 1 \in 0 .. 7 /\ e.sp + (i - 1) = e.sp + i - 1
        BY <1>3
      <4> QED
        BY <1>4, <4>1
    <3>2. AutoSaved[i] \in General
      BY RegisterSets
    <3> QED
      BY <1>1, <3>1, <3>2 DEF Computes
  <2>2. e.mem[e.sp + 7] = XPSR("Thread", padded)
    BY <1>1, <1>4
  <2> QED
    BY <2>1, <2>2 DEF AutoFrame
<1>6. Interrupted(p, e.mem, e.reg, e.sp, v, d)
  <2>1. e.sp + 8 + Pad(padded) = Top(p) - d
    BY <1>1, <1>2, <1>3 DEF Computes, Pad
  <2>2. \A i \in 1 .. 8 : e.reg[Saved[i]] = Word(p, Saved[i], v)
    BY <1>1, RegisterSets DEF Computes
  <2>3. padded \in BOOLEAN
    OBVIOUS
  <2> HIDE DEF padded
  <2> QED
    BY <1>5, <2>1, <2>2, <2>3 DEF Interrupted
<1>7. ASSUME NEW a \in Addresses, a >= e.sp, a < c.sp
      PROVE  \/ e.mem[a] # Filler
             \/ a = c.sp - 1 /\ e.mem[a] = c.mem[a] /\ e.sp + 2 <= a
  <2>1. CASE a < e.sp + 7
    <3> DEFINE i == a - e.sp + 1
    <3>1. i \in 1 .. 7 /\ a = e.sp + i - 1
      BY <1>3, <1>7, <2>1 DEF Addresses
    <3> HIDE DEF i
    <3> QED
      BY <1>5, <3>1, WordsDiffer DEF AutoFrame
  <2>2. CASE a = e.sp + 7
    BY <1>5, <2>2, WordsDiffer DEF AutoFrame
  <2>3. CASE a >= e.sp + 8
    BY <1>1, <1>3, <1>7, <2>3, <1>2 DEF Addresses, Pad
  <2> QED
    BY <1>3, <2>1, <2>2, <2>3, <1>2 DEF Addresses
<1>8. ASSUME NEW a \in Addresses, a < e.sp \/ a >= c.sp
      PROVE  e.mem[a] = c.mem[a]
  BY <1>1, <1>2, <1>3, <1>8 DEF Addresses
<1>9. StackKept(p, e.mem, Lower(e.sp, c.low), e.sp, d)
  BY <1>3, <1>7, <1>8, StackGrows
<1> QED
  BY <1>1, <1>6, <1>9 DEF e

\* PendSV_Handler suspends an interrupted thread, if its stack has room.
LEMMA SaveSuspends ==
    ASSUME NEW p \in Threads, NEW e, IsMachine(e), NEW v, NEW d \in Nat,
           StackKept(p, e.mem, e.low, e.sp, d),
           Interrupted(p, e.mem, e.reg, e.sp, v, d),
           Stack[p] <= SwitchedFrom(e).sp
    PROVE  LET s == SwitchedFrom(e).sp
               f == SwitchedFrom(e).frame
           IN  /\ StackKept(p, f.mem, f.low, s, d)
               /\ Suspended(p, f.mem, s, v, d)
<1> DEFINE s == SwitchedFrom(e).sp
           f == SwitchedFrom(e).frame
<1>1. s = e.sp - 8 /\ f = PushRegisters(e, Saved)
  BY Orders DEF SwitchedFrom
<1>2. /\ IsMachine(f) /\ f.sp = e.sp - 8 /\ f.low = Lower(f.sp, e.low)
      /\ \A i \in 1 .. 8 : f.sp + i - 1 \in Addresses =>
                             f.mem[f.sp + i - 1] = e.reg[Saved[i]]
      /\ \A a \in Addresses : a < f.sp \/ a >= e.sp => f.mem[a] = e.mem[a]
  <2>1. Saved \in {AutoSaved, Saved}
    OBVIOUS
  <2> HIDE DEF f
  <2> QED
    BY <1>1, <2>1, PushRegistersFacts
<1>3. Stack[p] <= s
  OBVIOUS
<1> HIDE DEF f, s
<1>4. /\ Stack[p] \in Nat /\ Top(p) \in Nat /\ Words \in Nat /\ Top(p) <= Words
  BY Bounds DEF Contexts
<1>5. e.sp \in Int /\ e.low \in Int /\ s \in Int /\ f.sp = s
      /\ e.sp <= Top(p) - d /\ Stack[p] <= s
  BY <1>1, <1>2, <1>3 DEF IsMachine, StackKept
<1>6. SavedFrame(p, f.mem, s, v)
  <2> SUFFICES ASSUME NEW i \in 1 .. 8
               PROVE  f.mem[s + i - 1] = Word(p, Saved[i], v)
    BY DEF SavedFrame
  <2>1. s + i - 1 \in Addresses
    BY <1>1, <1>4, <1>5 DEF Addresses
  <2>2. e.reg[Saved[i]] = Word(p, Saved[i], v)
    BY DEF Interrupted
  <2> QED
    BY <1>2, <1>5, <2>1, <2>2
<1>7. Suspended(p, f.mem, s, v, d)
  <2>1. PICK padded \in BOOLEAN : /\ e.sp + 8 + Pad(padded) = Top(p) - d
                                  /\ AutoFrame(p, e.mem, e.sp, v, padded)
    BY DEF Interrupted
  <2>2. ASSUME NEW i \in 0 .. 7 PROVE f.mem[e.sp + i] = e.mem[e.sp + i]
    <3>1. e.sp + i \in Addresses /\ e.sp + i >= e.sp
      BY <1>1, <1>4, <1>5, <2>1 DEF Addresses, Pad
    <3> QED
      BY <1>2, <3>1
  <2>3. AutoFrame(p, f.mem, e.sp, v, padded)
    <3>1. ASSUME NEW i \in 1 .. 7
          PROVE  f.mem[e.sp + i - 1] = Word(p, AutoSaved[i], v)
      <4>1. i - 1 \in 0 .. 7 /\ e.sp + (i - 1) = e.sp + i - 1
        BY <1>5
      <4> QED
        BY <2>1, <2>2, <4>1 DEF AutoFrame
    <3> QED
      BY <2>1, <2>2, <3>1 DEF AutoFrame
  <2>4. s + 8 = e.sp /\ s + 16 + Pad(padded) = Top(p) - d
    BY <1>1, <1>4, <1>5, <2>1 DEF Pad
  <2> QED
    BY <1>6, <2>3, <2>4 DEF Suspended
<1>8. ASSUME NEW a \in Addresses, a >= s, a < e.sp PROVE f.mem[a] # Filler
  <2> DEFINE i == a - s + 1
  <2>1. i \in 1 .. 8 /\ a = s + i - 1
    BY <1>1, <1>5, <1>8 DEF Addresses
  <2> HIDE DEF i
  <2> QED
    BY <1>6, <2>1, WordsDiffer DEF SavedFrame
<1>9. StackKept(p, f.mem, Lower(s, e.low), s, d)
  <2>1. \A a \in Addresses : a < s \/ a >= e.sp => f.mem[a] = e.mem[a]
    BY <1>2, <1>5
  <2>2. s <= s /\ s <= e.sp
    BY <1>1, <1>5
  <2> QED
    BY <1>5, <1>8, <2>1, <2>2, StackGrows
<1> QED
  BY <1>2, <1>5, <1>7, <1>9 DEF f, s

\* Exception return gives the registers back.
LEMMA LeaveComputes ==
    ASSUME NEW p \in Threads, NEW c, IsMachine(c), NEW v, NEW d \in Nat,
           Interrupted(p, c.mem, c.reg, c.sp, v, d)
    PROVE  LET l == Leave(c, "Thread")
           IN  /\ IsMachine(l) /\ l.mem = c.mem /\ l.low = c.low
               /\ Computes(p, l.reg, l.sp, v, d)
               /\ \E padded \in BOOLEAN : l.reg["xPSR"] = XPSR("Thread", padded)
<1> DEFINE o == PopRegisters(c, AutoSaved)
           l == Leave(c, "Thread")
<1>1. /\ IsMachine(o) /\ o.sp = c.sp + 8 /\ o.mem = c.mem /\ o.low = c.low
      /\ \A i \in 1 .. 8 : o.reg[AutoSaved[i]] = c.mem[c.sp + i - 1]
      /\ \A r \in AllSaved \ Range(AutoSaved) : o.reg[r] = c.reg[r]
  <2>1. AutoSaved \in {AutoSaved, Saved}
    OBVIOUS
  <2> HIDE DEF o
  <2> QED
    BY <2>1, PopRegistersFacts DEF o
<1>2. PICK padded \in BOOLEAN :
          /\ c.sp + 8 + Pad(padded) = Top(p) - d
          /\ AutoFrame(p, c.mem, c.sp, v, padded)
          /\ \A i \in 1 .. 8 : c.reg[Saved[i]] = Word(p, Saved[i], v)
  BY DEF Interrupted
<1>3. o.reg["xPSR"] = XPSR("Thread", padded)
  <2>1. c.sp + 8 - 1 = c.sp + 7 /\ 8 \in 1 .. 8
    BY DEF IsMachine
  <2> QED
    BY <1>1, <1>2, <2>1, Orders DEF AutoFrame
<1>4. ASSUME NEW r \in General PROVE o.reg[r] = Word(p, r, v)
  <2>1. CASE \E i \in 1 .. 7 : r = AutoSaved[i]
    BY <1>1, <1>2, <2>1 DEF AutoFrame
  <2>2. CASE \E i \in 1 .. 8 : r = Saved[i]
    BY <1>1, <1>2, <2>2, RegisterSets, Orders
  <2> QED
    BY <2>1, <2>2, RegisterSets
<1>5. l = [o EXCEPT !.sp = IF padded THEN @ + 1 ELSE @]
  <2>1. o.reg["xPSR"] = XPSR("Thread", TRUE) <=> padded
    <3>1. CASE padded = TRUE
      BY <1>3, <3>1
    <3>2. CASE padded = FALSE
      <4>1. XPSR("Thread", FALSE) # XPSR("Thread", TRUE)
        BY StatusTells
      <4> QED
        BY <1>3, <3>2, <4>1
    <3> QED
      BY <1>2, <3>1, <3>2, Zenon
  <2>2. l = [o EXCEPT !.sp = IF o.reg["xPSR"] = XPSR("Thread", TRUE)
                             THEN @ + 1 ELSE @]
    BY DEF Leave
  <2> HIDE DEF o, l
  <2> QED
    BY <2>1, <2>2
<1>6. DOMAIN o = {"reg", "sp", "mem", "low"} /\ o.sp \in Int /\ c.sp \in Int
  BY <1>1 DEF IsMachine
<1> HIDE DEF o, l
<1>7. /\ l.reg = o.reg /\ l.mem = o.mem /\ l.low = o.low
      /\ DOMAIN l = {"reg", "sp", "mem", "low"}
      /\ l.sp = c.sp + 8 + Pad(padded)
  BY <1>1, <1>5, <1>6 DEF Pad
<1>8. IsMachine(l)
  BY <1>1, <1>6, <1>7 DEF IsMachine, Pad
<1> QED
  BY <1>1, <1>2, <1>3, <1>4, <1>7, <1>8 DEF Computes, l

\* The rest of PendSV_Handler takes up a suspended thread as an interrupted one.
LEMMA RestoreInterrupts ==
    ASSUME NEW p \in Threads, NEW c, IsMachine(c), NEW v, NEW d \in Nat,
           NEW s \in Int, Suspended(p, c.mem, s, v, d)
    PROVE  LET r == PopRegisters([c EXCEPT !.sp = s], Saved)
           IN  /\ IsMachine(r) /\ r.mem = c.mem /\ r.low = c.low
               /\ Interrupted(p, r.mem, r.reg, r.sp, v, d)
<1> DEFINE b == [c EXCEPT !.sp = s]
           r == PopRegisters(b, Saved)
<1>1. IsMachine(b) /\ b.mem = c.mem /\ b.low = c.low /\ b.sp = s
  BY DEF IsMachine
<1> HIDE DEF b
<1>2. /\ IsMachine(r) /\ r.sp = b.sp + 8 /\ r.mem = b.mem /\ r.low = b.low
      /\ \A i \in 1 .. 8 : r.reg[Saved[i]] = b.mem[b.sp + i - 1]
  <2>1. Saved \in {AutoSaved, Saved}
    OBVIOUS
  <2> HIDE DEF r
  <2> QED
    BY <1>1, <2>1, PopRegistersFacts DEF r
<1> HIDE DEF r
<1>3. PICK padded \in BOOLEAN :
          /\ s + 16 + Pad(padded) = Top(p) - d
          /\ SavedFrame(p, c.mem, s, v)
          /\ AutoFrame(p, c.mem, s + 8, v, padded)
  BY DEF Suspended
<1>4. r.sp + 8 + Pad(padded) = Top(p) - d
  BY <1>1, <1>2, <1>3 DEF Pad
<1>5. \A i \in 1 .. 8 : r.reg[Saved[i]] = Word(p, Saved[i], v)
  BY <1>1, <1>2, <1>3 DEF SavedFrame
<1>6. Interrupted(p, r.mem, r.reg, r.sp, v, d)
  BY <1>1, <1>2, <1>3, <1>4, <1>5 DEF Interrupted
<1> QED
  BY <1>1, <1>2, <1>6 DEF r, b

-----------------------------------------------------------------------------
(* Threads are started.                                                    *)

\* The fabricated frame is what a suspended thread has on its stack.
LEMMA FirstFrameFacts ==
    ASSUME NEW p
    PROVE  /\ IsWords(FirstFrame(p), 16) /\ Len(FirstFrame(p)) = 16
           /\ \A i \in 1 .. 8 : FirstFrame(p)[i] = Word(p, Saved[i], 0)
           /\ \A i \in 1 .. 7 : FirstFrame(p)[i + 8] = Word(p, AutoSaved[i], 0)
           /\ FirstFrame(p)[16] = XPSR("Thread", FALSE)
<1> DEFINE s == Saved \o AutoSaved
<1>1. /\ DOMAIN s = 1 .. 16
      /\ \A i \in 1 .. 16 : s[i] = IF i <= 8 THEN Saved[i] ELSE AutoSaved[i - 8]
  BY DEF AutoSaved, Saved
<1> HIDE DEF s
<1>2. \A i \in 1 .. 8 : s[i] = Saved[i] /\ s[i] # "xPSR"
  BY <1>1, Orders
<1>3. \A i \in 1 .. 7 : s[i + 8] = AutoSaved[i] /\ s[i + 8] # "xPSR"
  <2> SUFFICES ASSUME NEW i \in 1 .. 7
               PROVE  s[i + 8] = AutoSaved[i] /\ s[i + 8] # "xPSR"
    OBVIOUS
  <2>1. s[i + 8] = AutoSaved[i]
    BY <1>1
  <2>2. i \in 1 .. 8 /\ i # 8 /\ 8 \in 1 .. 8
    OBVIOUS
  <2>3. AutoSaved[i] # AutoSaved[8]
    BY <2>2, Orders
  <2> QED
    BY <2>1, <2>3, Orders
<1>4. s[16] = "xPSR"
  BY <1>1, Orders
<1>5. FirstFrame(p) = [i \in 1 .. 16 |-> IF s[i] = "xPSR" THEN XPSR("Thread", FALSE)
                                         ELSE Word(p, s[i], 0)]
  BY DEF FirstFrame, s
<1> DEFINE f == FirstFrame(p)
<1> HIDE DEF f
<1>6. /\ IsWords(f, 16)
      /\ \A i \in 1 .. 16 : f[i] = IF s[i] = "xPSR" THEN XPSR("Thread", FALSE)
                                   ELSE Word(p, s[i], 0)
  BY <1>5 DEF IsWords, f
<1>7. Len(f) = 16
  BY <1>6, Counted
<1>8. ASSUME NEW i \in 1 .. 8 PROVE f[i] = Word(p, Saved[i], 0)
  <2>1. i \in 1 .. 16
    OBVIOUS
  <2> QED
    BY <1>2, <1>6, <2>1
<1>9. ASSUME NEW i \in 1 .. 7 PROVE f[i + 8] = Word(p, AutoSaved[i], 0)
  <2>1. i + 8 \in 1 .. 16
    OBVIOUS
  <2> QED
    BY <1>3, <1>6, <2>1
<1>10. f[16] = XPSR("Thread", FALSE)
  <2>1. 16 \in 1 .. 16
    OBVIOUS
  <2> QED
    BY <1>4, <1>6, <2>1
<1> QED
  BY <1>6, <1>7, <1>8, <1>9, <1>10 DEF f

\* A started thread is suspended before its first instruction, on a stack that
\* is filled down to the word that is checked, at both alignments.
LEMMA StartSuspends ==
    ASSUME NEW p \in Threads, Start(p), IsMemory(memory)
    PROVE  LET sp == Top(p) - 16
           IN  /\ saved_sp' = [saved_sp EXCEPT ![p] = sp]
               /\ low' = [low EXCEPT ![p] = sp]
               /\ IsMemory(memory')
               /\ \A a \in Addresses : a \notin Array(p) => memory'[a] = memory[a]
               /\ StackKept(p, memory', sp, sp, 0)
               /\ Suspended(p, memory', sp, 0, 0)
<1> DEFINE sp == Top(p) - 16
           n == sp - stack_limit(p)
           filler == [i \in 1 .. n |-> Filler]
           filled == Written(memory, stack_limit(p), filler)
           frame == FirstFrame(p)
<1>1. /\ Len(frame) = 16 /\ IsWords(frame, 16)
      /\ \A i \in 1 .. 8 : frame[i] = Word(p, Saved[i], 0)
      /\ \A i \in 1 .. 7 : frame[i + 8] = Word(p, AutoSaved[i], 0)
      /\ frame[16] = XPSR("Thread", FALSE)
  BY FirstFrameFacts
<1> HIDE DEF frame
<1>2. /\ saved_sp' = [saved_sp EXCEPT ![p] = sp] /\ low' = [low EXCEPT ![p] = sp]
      /\ memory' = Written(filled, sp, frame)
  BY <1>1 DEF Start, frame
<1>3. /\ Stack[p] \in Nat /\ StackSize[p] > 16 /\ Top(p) \in Nat
      /\ Top(p) <= Stack[p] + StackSize[p] /\ Stack[p] + StackSize[p] <= Top(p) + 1
      /\ Top(p) % 2 = 0 /\ stack_limit(p) % 2 = 0
      /\ stack_limit(p) \in {Stack[p], Stack[p] + 1}
      /\ Stack[p] + StackSize[p] <= Words /\ Words \in Nat /\ StackSize[p] \in Nat
  BY Bounds DEF Contexts
<1>4. n \in Nat /\ sp \in Int /\ stack_limit(p) \in Int /\ Stack[p] <= sp
  BY <1>3
<1>5. IsWords(filler, n) /\ \A i \in 1 .. n : filler[i] = Filler
  BY DEF IsWords
<1> HIDE DEF filler
<1>6. /\ IsMemory(filled)
      /\ \A a \in Addresses :
            filled[a] = IF a >= stack_limit(p) /\ a < sp THEN Filler ELSE memory[a]
  <2> HIDE DEF n
  <2>1. IsWritten(filled, memory, stack_limit(p), n, filler)
    BY <1>4, <1>5, WrittenFacts
  <2>2. stack_limit(p) + n = sp
    BY <1>4 DEF n
  <2> HIDE DEF filled, sp
  <2>3. ASSUME NEW a \in Addresses, a >= stack_limit(p), a < sp
        PROVE  filled[a] = Filler
    <3>1. a \in Int /\ a - stack_limit(p) + 1 \in 1 .. n
      BY <1>3, <1>4, <2>2, <2>3 DEF Addresses
    <3> QED
      BY <1>5, <2>1, <2>2, <2>3, <3>1 DEF IsWritten
  <2> QED
    BY <2>1, <2>2, <2>3 DEF IsWritten
<1> HIDE DEF filled, n
<1>7. /\ IsMemory(memory')
      /\ \A a \in Addresses :
            memory'[a] = IF a >= sp /\ a < Top(p) THEN frame[a - sp + 1]
                                                 ELSE filled[a]
  <2>1. sp + 16 = Top(p) /\ 16 \in Nat
    BY <1>3
  <2> HIDE DEF sp
  <2>2. IsWritten(Written(filled, sp, frame), filled, sp, 16, frame)
    BY <1>1, <1>4, <1>6, <2>1, WrittenFacts
  <2> QED
    BY <1>2, <2>1, <2>2 DEF IsWritten
<1>8. ASSUME NEW a \in Addresses, a \notin Array(p) PROVE memory'[a] = memory[a]
  <2>1. ~(a >= sp /\ a < Top(p)) /\ ~(a >= stack_limit(p) /\ a < sp)
    BY <1>3, <1>4, <1>8 DEF Array, Addresses
  <2> QED
    BY <1>6, <1>7, <2>1
<1>9. ASSUME NEW i \in 1 .. 16 PROVE memory'[sp + i - 1] = frame[i]
  <2> DEFINE a == sp + i - 1
  <2>1. sp \in Int /\ sp + 16 = Top(p) /\ sp >= 0 /\ Top(p) <= Words /\ Words \in Nat
    BY <1>3, <1>4
  <2> HIDE DEF sp
  <2>2. a \in Addresses /\ a >= sp /\ a < Top(p) /\ a - sp + 1 = i
    BY <2>1 DEF Addresses
  <2> HIDE DEF a
  <2>3. memory'[a] = frame[i]
    BY <1>7, <2>2
  <2> QED
    BY <2>3 DEF a
<1>10. Suspended(p, memory', sp, 0, 0)
  <2>1. SavedFrame(p, memory', sp, 0)
    BY <1>1, <1>9 DEF SavedFrame
  <2>2. AutoFrame(p, memory', sp + 8, 0, FALSE)
    <3>1. ASSUME NEW i \in 1 .. 7
          PROVE  memory'[sp + 8 + i - 1] = Word(p, AutoSaved[i], 0)
      <4>1. i + 8 \in 1 .. 16 /\ sp + (i + 8) - 1 = sp + 8 + i - 1
        BY <1>4
      <4> QED
        BY <1>1, <1>9, <4>1
    <3>2. memory'[sp + 8 + 7] = XPSR("Thread", FALSE)
      <4>1. 16 \in 1 .. 16 /\ sp + 16 - 1 = sp + 8 + 7
        BY <1>4
      <4> QED
        BY <1>1, <1>9, <4>1
    <3> QED
      BY <3>1, <3>2 DEF AutoFrame
  <2>3. sp + 16 + Pad(FALSE) = Top(p) - 0
    BY <1>3 DEF Pad
  <2> QED
    BY <2>1, <2>2, <2>3 DEF Suspended
<1>11. memory'[Stack[p] + 1] = Filler <=> sp > Stack[p] + 1
  <2> DEFINE a == Stack[p] + 1
  <2>1. a \in Addresses /\ a >= stack_limit(p) /\ a < Top(p)
    BY <1>3 DEF Addresses
  <2>2. sp \in Int /\ sp + 16 = Top(p) /\ a \in Int
    BY <1>3, <1>4
  <2> HIDE DEF sp, a
  <2>3. CASE a < sp
    <3>1. memory'[a] = Filler
      BY <1>6, <1>7, <2>1, <2>2, <2>3
    <3> QED
      BY <2>3, <3>1 DEF a
  <2>4. CASE a >= sp
    <3> DEFINE i == a - sp + 1
    <3>1. memory'[a] = frame[i]
      BY <1>7, <2>1, <2>4
    <3>2. \/ i \in 1 .. 8
          \/ i - 8 \in 1 .. 7 /\ (i - 8) + 8 = i
          \/ i = 16
      BY <2>1, <2>2, <2>4, <1>3
    <3> HIDE DEF i
    <3>3. frame[i] # Filler
      <4>1. CASE i \in 1 .. 8
        BY <1>1, <4>1, WordsDiffer
      <4>2. CASE i - 8 \in 1 .. 7 /\ (i - 8) + 8 = i
        <5>1. frame[i] = Word(p, AutoSaved[i - 8], 0)
          BY <1>1, <4>2
        <5> QED
          BY <5>1, WordsDiffer
      <4>3. CASE i = 16
        BY <1>1, <4>3, WordsDiffer
      <4> QED
        BY <3>2, <4>1, <4>2, <4>3
    <3>4. ~(sp > a)
      BY <2>2, <2>4
    <3> QED
      BY <3>1, <3>3, <3>4 DEF a
  <2> QED
    BY <2>2, <2>3, <2>4
<1>12. StackKept(p, memory', sp, sp, 0)
  BY <1>3, <1>4, <1>11 DEF StackKept
<1> QED
  BY <1>2, <1>7, <1>8, <1>10, <1>12

-----------------------------------------------------------------------------
(* The processor as a machine.                                             *)

\* The machine has the registers and the memory of the processor.
LEMMA MachineFacts ==
    ASSUME Typed
    PROVE  /\ IsMachine(Machine)
           /\ Machine.mem = memory /\ Machine.sp = cpu["sp"]
           /\ Machine.low = low[on]
           /\ \A r \in AllSaved : Machine.reg[r] = cpu[r]
<1> DEFINE c == Machine
<1>1. /\ DOMAIN c = {"reg", "sp", "mem", "low"}
      /\ c.reg = [r \in AllSaved |-> cpu[r]] /\ c.sp = cpu["sp"]
      /\ c.mem = memory /\ c.low = low[on]
  BY DEF Machine, AllSaved
<1>2. IsMemory(memory) /\ cpu["sp"] \in Int /\ low[on] \in Int
  BY DEF Typed
<1> HIDE DEF c
<1>3. c.reg = [r \in AllSaved |-> c.reg[r]] /\ \A r \in AllSaved : c.reg[r] = cpu[r]
  BY <1>1
<1> QED
  BY <1>1, <1>2, <1>3 DEF IsMachine, c

\* Whether a thread computes or is interrupted depends only on its registers.
LEMMA SameRegisters ==
    ASSUME NEW p, NEW mem, NEW sp, NEW v, NEW d, NEW regs, NEW regs2,
           \A r \in AllSaved : regs2[r] = regs[r]
    PROVE  /\ Computes(p, regs, sp, v, d) => Computes(p, regs2, sp, v, d)
           /\ Interrupted(p, mem, regs, sp, v, d) =>
                 Interrupted(p, mem, regs2, sp, v, d)
<1>1. General \subseteq AllSaved /\ \A i \in 1 .. 8 : Saved[i] \in AllSaved
  BY RegisterSets DEF AllSaved
<1>2. Computes(p, regs, sp, v, d) => Computes(p, regs2, sp, v, d)
  BY <1>1 DEF Computes
<1>3. ASSUME Interrupted(p, mem, regs, sp, v, d)
      PROVE  Interrupted(p, mem, regs2, sp, v, d)
  <2>1. PICK padded \in BOOLEAN :
            /\ sp + 8 + Pad(padded) = Top(p) - d
            /\ AutoFrame(p, mem, sp, v, padded)
            /\ \A i \in 1 .. 8 : regs[Saved[i]] = Word(p, Saved[i], v)
    BY <1>3 DEF Interrupted
  <2>2. \A i \in 1 .. 8 : regs2[Saved[i]] = Word(p, Saved[i], v)
    BY <1>1, <2>1
  <2> QED
    BY <2>1, <2>2 DEF Interrupted
<1> QED
  BY <1>2, <1>3

\* What the processor holds once it has been loaded.
LEMMA LoadFacts ==
    ASSUME Typed, NEW c, IsMachine(c), Load(c)
    PROVE  /\ DOMAIN cpu' = AllSaved \cup {"sp"}
           /\ cpu'["sp"] = c.sp /\ cpu'["sp"] \in Int
           /\ \A r \in AllSaved : cpu'[r] = c.reg[r]
           /\ memory' = c.mem /\ IsMemory(memory')
<1>1. DOMAIN cpu = AllSaved \cup {"sp"}
  BY DEF Typed
<1>2. cpu' = [r \in AllSaved \cup {"sp"} |-> IF r = "sp" THEN c.sp ELSE c.reg[r]]
  BY <1>1 DEF Load
<1>3. memory' = c.mem /\ IsMemory(c.mem) /\ c.sp \in Int
  BY DEF Load, IsMachine
<1>4. \A r \in AllSaved : r # "sp"
  BY RegisterSets
<1> QED
  BY <1>2, <1>3, <1>4

\* What lies above the stack pointer of an interrupted thread keeps it so.
LEMMA FrameStays ==
    ASSUME NEW p \in Threads, NEW mem, NEW mem2, NEW regs, NEW sp \in Int,
           NEW v, NEW d \in Nat, Interrupted(p, mem, regs, sp, v, d),
           Stack[p] <= sp, \A a \in Addresses : a >= sp => mem2[a] = mem[a]
    PROVE  Interrupted(p, mem2, regs, sp, v, d)
<1>1. /\ Stack[p] \in Nat /\ Top(p) \in Nat /\ Words \in Nat /\ Top(p) <= Words
  BY Bounds DEF Contexts
<1>2. PICK padded \in BOOLEAN :
          /\ sp + 8 + Pad(padded) = Top(p) - d
          /\ AutoFrame(p, mem, sp, v, padded)
          /\ \A i \in 1 .. 8 : regs[Saved[i]] = Word(p, Saved[i], v)
  BY DEF Interrupted
<1>3. sp + 8 <= Words
  BY <1>1, <1>2 DEF Pad
<1>4. ASSUME NEW i \in 0 .. 7 PROVE mem2[sp + i] = mem[sp + i]
  <2>1. sp + i \in Addresses /\ sp + i >= sp
    BY <1>1, <1>3 DEF Addresses
  <2> QED
    BY <2>1
<1>5. AutoFrame(p, mem2, sp, v, padded)
  <2>1. ASSUME NEW i \in 1 .. 7 PROVE mem2[sp + i - 1] = Word(p, AutoSaved[i], v)
    <3>1. i - 1 \in 0 .. 7 /\ sp + (i - 1) = sp + i - 1
      OBVIOUS
    <3> QED
      BY <1>2, <1>4, <3>1 DEF AutoFrame
  <2>2. mem2[sp + 7] = XPSR("Thread", padded)
    BY <1>2, <1>4 DEF AutoFrame
  <2> QED
    BY <2>1, <2>2 DEF AutoFrame
<1> QED
  BY <1>2, <1>5 DEF Interrupted

\* A stack stays kept while its pointer moves up to the words of the calls.
LEMMA StackShrinks ==
    ASSUME NEW p \in Threads, NEW mem, NEW lowest \in Int, NEW sp \in Int,
           NEW d \in Nat, StackKept(p, mem, lowest, sp, d),
           NEW sp2 \in Int, NEW d2 \in Nat, d2 <= d, sp <= sp2, sp2 <= Top(p) - d2
    PROVE  StackKept(p, mem, lowest, sp2, d2)
<1>1. Stack[p] \in Nat
  BY Bounds DEF Contexts
<1>2. Stack[p] <= lowest /\ lowest <= sp2
  BY <1>1 DEF StackKept
<1>3. \A i \in 1 .. d2 : i \in 1 .. d
  OBVIOUS
<1> QED
  BY <1>2, <1>3 DEF StackKept

\* The threads that do not run are not disturbed by what is written into the
\* array of the running context.
LEMMA OthersStay ==
    ASSUME Typed, StacksKept, OthersSuspended, NEW p \in Threads, p # OS_curr,
           Prepared(p), NEW mem2,
           \A a \in Addresses : a \notin Array(OS_curr) => mem2[a] = memory[a]
    PROVE  /\ StackKept(p, mem2, low[p], saved_sp[p], depth[p])
           /\ Suspended(p, mem2, saved_sp[p], version[p], depth[p])
<1>1. /\ OS_curr \in Contexts /\ p \in Contexts
      /\ low[p] \in Int /\ saved_sp[p] \in Int /\ depth[p] \in Nat
  BY DEF Typed, Contexts
<1>2. StackKept(p, memory, low[p], saved_sp[p], depth[p])
  BY DEF StacksKept, SpOf
<1>3. Suspended(p, memory, saved_sp[p], version[p], depth[p])
  BY DEF OthersSuspended
<1>4. \A a \in Array(p) : mem2[a] = memory[a]
  BY <1>1, Apart
<1> QED
  BY <1>1, <1>2, <1>3, <1>4, SameKeeps

-----------------------------------------------------------------------------
(* The invariant holds at first, and is kept while main() starts threads.  *)

\* No thread is started yet.
LEMMA PowerOnKeeps ==
    ASSUME PowerOn
    PROVE  IInv
<1>1. Top(main) \in Nat /\ \A p \in Contexts : Top(p) \in Nat /\ Stack[p] <= Top(p)
  <2>1. ASSUME NEW p \in Contexts PROVE Top(p) \in Nat /\ Stack[p] <= Top(p)
    <3>1. p = main \/ p \in Threads
      BY DEF Contexts
    <3>2. StackSize[p] >= 1
      BY <3>1, Bounds, ContextSwitchAssumption DEF ContextSwitchAssumption
    <3> QED
      BY <3>2, Bounds
  <2> QED
    BY <2>1 DEF Contexts
<1>2. /\ DOMAIN cpu = AllSaved \cup {"sp"} /\ cpu["sp"] = Top(main)
  BY DEF PowerOn, PowerOnCpu, AllSaved
<1>3. IsMemory(memory)
  <2>1. memory = [a \in Addresses |-> Zero]
    BY DEF PowerOn, Addresses
  <2> QED
    BY <2>1 DEF IsMemory
<1>4. /\ saved_sp = [p \in Threads |-> 0] /\ low = [p \in Contexts |-> Top(p)]
      /\ depth = [p \in Threads |-> 0] /\ version = [p \in Threads |-> 0]
      /\ on = main /\ OS_curr = main /\ OS_next = main /\ main \in Contexts
      /\ mode = "Thread" /\ pendsv = FALSE /\ ticking = FALSE /\ fault = FALSE
      /\ main \notin Threads
  BY ContextSwitchAssumption DEF PowerOn, Contexts, ContextSwitchAssumption
<1>5. Typed
  <2>1. low \in [Contexts -> Int]
    BY <1>1, <1>4
  <2>2. /\ saved_sp \in [Threads -> Int] /\ depth \in [Threads -> Nat]
        /\ version = [p \in Threads |-> version[p]]
    BY <1>4
  <2>3. cpu["sp"] \in Int
    BY <1>1, <1>2
  <2> QED
    BY <1>2, <1>3, <1>4, <2>1, <2>2, <2>3 DEF Typed
<1>6. \A p \in Threads : ~IsStarted(p)
  BY <1>4 DEF IsStarted
<1>7. idle_thread \in Threads
  BY ContextSwitchAssumption DEF ContextSwitchAssumption
<1>8. Booting
  <2>1. \A p \in Threads : low[p] >= Stack[p]
    BY <1>1, <1>4, Bounds DEF Contexts
  <2> QED
    BY <1>4, <1>6, <1>7, <2>1 DEF Booting
<1>9. StacksKept /\ OthersSuspended
  BY <1>4, <1>6 DEF StacksKept, OthersSuspended, Prepared
<1>10. CurrentRuns /\ MainRuns
  BY <1>2, <1>4 DEF CurrentRuns, MainRuns
<1> QED
  BY <1>4, <1>5, <1>8, <1>9, <1>10 DEF IInv

\* A thread that is started is ready to be switched to, and does not disturb
\* those that were started before.
LEMMA StartKeeps ==
    ASSUME IInv, NEW p \in Threads, ~ticking, ~IsStarted(p), Start(p),
           UNCHANGED <<cpu, on, mode, fault, OS_curr, OS_next, pendsv, ticking,
                       ghosts>>,
           SHP' = LowestPriority
    PROVE  IInv'
<1> DEFINE sp == Top(p) - 16
<1>1. /\ saved_sp' = [saved_sp EXCEPT ![p] = sp] /\ low' = [low EXCEPT ![p] = sp]
      /\ IsMemory(memory')
      /\ \A a \in Addresses : a \notin Array(p) => memory'[a] = memory[a]
      /\ StackKept(p, memory', sp, sp, 0) /\ Suspended(p, memory', sp, 0, 0)
  BY StartSuspends DEF IInv, Typed
<1>2. /\ OS_curr = main /\ OS_next = main /\ ~pendsv /\ mode = "Thread" /\ ~fault
      /\ \A q \in Threads : low[q] >= Stack[q] /\ depth[q] = 0 /\ version[q] = 0
  BY DEF IInv, Booting
<1>3. Alive
  <2>1. \A q \in Threads : low[q] \in Int /\ Stack[q] \in Nat
    BY Bounds DEF IInv, Typed, Contexts
  <2> QED
    BY <1>2, <2>1 DEF Alive, Overflow
<1>4. Typed /\ StacksKept /\ OthersSuspended /\ CurrentRuns /\ MainRuns
  BY <1>3 DEF IInv
<1>5. /\ sp \in Int /\ Stack[p] <= sp
  BY Bounds DEF Contexts
<1> HIDE DEF sp
<1>6. /\ cpu' = cpu /\ on' = on /\ mode' = mode /\ fault' = fault
      /\ OS_curr' = OS_curr /\ OS_next' = OS_next /\ pendsv' = pendsv
      /\ ticking' = ticking /\ version' = version /\ depth' = depth
  BY DEF ghosts
<1>7. Typed'
  BY <1>1, <1>4, <1>5, <1>6 DEF Typed, Contexts
<1>8. main \notin Threads
  BY ContextSwitchAssumption DEF ContextSwitchAssumption
<1>9. Booting'
  <2>1. ASSUME NEW q \in Threads
        PROVE  low'[q] >= Stack[q] /\ depth'[q] = 0 /\ version'[q] = 0
    <3>1. low'[q] = IF q = p THEN sp ELSE low[q]
      BY <1>1, <1>4 DEF Typed, Contexts
    <3> QED
      BY <1>2, <1>5, <1>6, <3>1, Bounds DEF Contexts
  <2> QED
    BY <1>2, <1>6, <2>1 DEF Booting
<1>10. ASSUME NEW q \in Threads, Prepared(q)'
       PROVE  /\ StackKept(q, memory', low'[q], saved_sp'[q], depth'[q])
              /\ Suspended(q, memory', saved_sp'[q], version'[q], depth'[q])
  <2>1. CASE q = p
    <3>1. low'[q] = sp /\ saved_sp'[q] = sp /\ depth'[q] = 0 /\ version'[q] = 0
      BY <1>1, <1>2, <1>4, <1>6, <2>1 DEF Typed, Contexts
    <3> QED
      BY <1>1, <2>1, <3>1
  <2>2. CASE q # p
    <3>1. low'[q] = low[q] /\ saved_sp'[q] = saved_sp[q]
      BY <1>1, <1>4, <2>2 DEF Typed, Contexts
    <3>2. Prepared(q)
      BY <1>6, <1>10, <3>1 DEF Prepared, IsStarted
    <3>3. q # OS_curr /\ q \in Contexts /\ p \in Contexts
      BY <1>2, <1>8 DEF Contexts
    <3>4. /\ StackKept(q, memory, low[q], saved_sp[q], depth[q])
          /\ Suspended(q, memory, saved_sp[q], version[q], depth[q])
      BY <1>4, <3>2, <3>3 DEF StacksKept, OthersSuspended, SpOf
    <3>5. \A a \in Array(q) : memory'[a] = memory[a]
      BY <1>1, <2>2, <3>3, Apart
    <3>6. low[q] \in Int /\ saved_sp[q] \in Int /\ depth[q] \in Nat
      BY <1>4 DEF Typed, Contexts
    <3>7. /\ StackKept(q, memory', low[q], saved_sp[q], depth[q])
          /\ Suspended(q, memory', saved_sp[q], version[q], depth[q])
      BY <3>4, <3>5, <3>6, SameKeeps
    <3> QED
      BY <1>6, <3>1, <3>7
  <2> QED
    BY <2>1, <2>2
<1>11. StacksKept'
  <2>1. \A q \in Threads : SpOf(q)' = saved_sp'[q]
    BY <1>2, <1>6, <1>8 DEF SpOf
  <2> QED
    BY <1>10, <2>1 DEF StacksKept
<1>12. OthersSuspended' /\ CurrentRuns' /\ MainRuns'
  BY <1>2, <1>4, <1>6, <1>8, <1>10 DEF OthersSuspended, CurrentRuns, MainRuns
<1> QED
  BY <1>2, <1>6, <1>7, <1>9, <1>11, <1>12 DEF IInv

\* OS_init starts the idle thread and sets the priority of PendSV.
LEMMA OS_initKeeps ==
    ASSUME IInv, OS_init
    PROVE  IInv'
<1>1. idle_thread \in Threads
  BY ContextSwitchAssumption DEF ContextSwitchAssumption
<1> QED
  BY <1>1, StartKeeps DEF OS_init

\* OS_Thread_start, called by main() for any other thread.
LEMMA OS_Thread_startKeeps ==
    ASSUME IInv, NEW p \in Threads, OS_Thread_start(p)
    PROVE  IInv'
<1>1. SHP' = LowestPriority
  BY DEF OS_Thread_start, IInv, Booting
<1> QED
  BY <1>1, StartKeeps DEF OS_Thread_start

\* OS_onStartup enables the tick when all threads are started.
LEMMA OS_onStartupKeeps ==
    ASSUME IInv, OS_onStartup
    PROVE  IInv'
<1> USE DEF OS_onStartup
<1>1. /\ cpu' = cpu /\ memory' = memory /\ on' = on /\ mode' = mode
      /\ fault' = fault /\ low' = low /\ saved_sp' = saved_sp
      /\ OS_curr' = OS_curr /\ OS_next' = OS_next /\ pendsv' = pendsv
      /\ SHP' = SHP /\ version' = version /\ depth' = depth /\ ticking' = TRUE
  BY DEF ghosts
<1>2. SHP = LowestPriority /\ ~fault /\ ~pendsv
  BY ContextSwitchAssumption DEF IInv, Booting, ContextSwitchAssumption
<1>3. Typed'
  BY <1>1 DEF IInv, Typed
<1>4. \A p \in Threads : Prepared(p)
  BY DEF Prepared
<1>5. Alive' => Alive
  BY <1>1 DEF Alive, Overflow
<1>6. ASSUME Alive PROVE (StacksKept /\ OthersSuspended /\ CurrentRuns /\ MainRuns)'
  BY <1>1, <1>4, <1>6 DEF IInv, StacksKept, OthersSuspended, CurrentRuns,
                          MainRuns, SpOf
<1> QED
  BY <1>1, <1>2, <1>3, <1>5, <1>6 DEF IInv, Booting

\* OS_schedule chooses a thread and moves no word.
LEMMA OS_scheduleKeeps ==
    ASSUME IInv, OS_schedule
    PROVE  IInv'
<1>1. /\ cpu' = cpu /\ memory' = memory /\ on' = on /\ mode' = mode
      /\ fault' = fault /\ low' = low /\ saved_sp' = saved_sp
      /\ OS_curr' = OS_curr /\ SHP' = SHP /\ ticking' = ticking
      /\ version' = version /\ depth' = depth /\ ticking
  BY DEF OS_schedule, Schedule, ghosts
<1>2. OS_next' \in Threads /\ pendsv' \in BOOLEAN
  BY DEF OS_schedule, Schedule, IInv, Typed
<1>3. Typed'
  BY <1>1, <1>2 DEF IInv, Typed, Contexts
<1>4. (Alive' => Alive) /\ (Overflow' <=> Overflow)
  BY <1>1 DEF Alive, Overflow
<1>5. ASSUME Alive PROVE (StacksKept /\ OthersSuspended /\ CurrentRuns /\ MainRuns)'
  BY <1>1, <1>5 DEF IInv, StacksKept, OthersSuspended, CurrentRuns, MainRuns,
                    SpOf, Prepared
<1> QED
  BY <1>1, <1>2, <1>3, <1>4, <1>5 DEF IInv, Booting

-----------------------------------------------------------------------------
(* The invariant is kept by what the running thread does.                  *)

\* A thread that computes changes its own registers only.
LEMMA ComputeKeeps ==
    ASSUME IInv, NEW p \in Threads, Compute(p)
    PROVE  IInv'
<1>1. PICK v \in 0 .. 1 :
          /\ version' = [version EXCEPT ![p] = v]
          /\ cpu' = [r \in DOMAIN cpu |-> IF r \in General THEN Word(p, r, v)
                                                           ELSE cpu[r]]
  BY DEF Compute
<1>2. /\ memory' = memory /\ on' = on /\ mode' = mode /\ fault' = fault
      /\ low' = low /\ saved_sp' = saved_sp /\ OS_curr' = OS_curr
      /\ OS_next' = OS_next /\ pendsv' = pendsv /\ SHP' = SHP
      /\ ticking' = ticking /\ depth' = depth
  BY DEF Compute, kernel
<1>3. OS_curr = p /\ mode = "Thread" /\ Alive
  BY DEF Compute, Running
<1>4. /\ Typed /\ StacksKept /\ OthersSuspended /\ CurrentRuns
      /\ main \notin Threads /\ ticking
  BY <1>3, ContextSwitchAssumption DEF IInv, Booting, ContextSwitchAssumption
<1>5. /\ DOMAIN cpu' = AllSaved \cup {"sp"} /\ cpu'["sp"] = cpu["sp"]
      /\ \A r \in General : cpu'[r] = Word(p, r, v)
  <2>1. DOMAIN cpu = AllSaved \cup {"sp"} /\ "sp" \notin General
    BY <1>4, RegisterSets DEF Typed, AllSaved
  <2> QED
    BY <1>1, <2>1 DEF AllSaved
<1>6. /\ version' = [q \in Threads |-> version'[q]] /\ version'[p] = v
      /\ \A q \in Threads : q # p => version'[q] = version[q]
  BY <1>1, <1>4 DEF Typed
<1>7. Typed'
  BY <1>2, <1>4, <1>5, <1>6 DEF Typed
<1>8. CurrentRuns'
  BY <1>2, <1>3, <1>4, <1>5, <1>6 DEF CurrentRuns, Computes
<1>9. StacksKept' /\ OthersSuspended'
  BY <1>2, <1>3, <1>4, <1>5, <1>6 DEF StacksKept, OthersSuspended, SpOf, Prepared
<1>10. MainRuns'
  BY <1>2, <1>3, <1>4 DEF MainRuns
<1> QED
  BY <1>2, <1>3, <1>4, <1>7, <1>8, <1>9, <1>10 DEF IInv, Booting, Alive, Overflow

\* A return from a function leaves its words behind, below the stack.
LEMMA ReturnFromKeeps ==
    ASSUME IInv, NEW p \in Threads, ReturnFrom(p)
    PROVE  IInv'
<1>1. PICK n \in Pushes : /\ depth[p] >= n
                          /\ depth' = [depth EXCEPT ![p] = @ - n]
                          /\ cpu' = [cpu EXCEPT !["sp"] = @ + n]
  BY DEF ReturnFrom
<1>2. /\ memory' = memory /\ on' = on /\ mode' = mode /\ fault' = fault
      /\ low' = low /\ saved_sp' = saved_sp /\ OS_curr' = OS_curr
      /\ OS_next' = OS_next /\ pendsv' = pendsv /\ SHP' = SHP
      /\ ticking' = ticking /\ version' = version
  BY DEF ReturnFrom, kernel
<1>3. OS_curr = p /\ mode = "Thread" /\ Alive
  BY DEF ReturnFrom, Running
<1>4. /\ Typed /\ StacksKept /\ OthersSuspended /\ CurrentRuns
      /\ main \notin Threads /\ ticking
  BY <1>3, ContextSwitchAssumption DEF IInv, Booting, ContextSwitchAssumption
<1>5. n \in Nat /\ depth[p] \in Nat /\ cpu["sp"] \in Int /\ low[p] \in Int
  BY <1>4, ContextSwitchAssumption DEF Typed, ContextSwitchAssumption, Contexts
<1>6. /\ DOMAIN cpu' = AllSaved \cup {"sp"} /\ cpu'["sp"] = cpu["sp"] + n
      /\ \A r \in General : cpu'[r] = cpu[r]
  <2>1. DOMAIN cpu = AllSaved \cup {"sp"} /\ "sp" \notin General
    BY <1>4, RegisterSets DEF Typed, AllSaved
  <2> QED
    BY <1>1, <2>1 DEF AllSaved
<1>7. /\ depth' \in [Threads -> Nat] /\ depth'[p] = depth[p] - n
      /\ \A q \in Threads : q # p => depth'[q] = depth[q]
  BY <1>1, <1>4, <1>5 DEF Typed
<1>8. Typed'
  BY <1>2, <1>4, <1>5, <1>6, <1>7 DEF Typed
<1>9. Computes(p, cpu, cpu["sp"], version[p], depth[p])
  BY <1>3, <1>4 DEF CurrentRuns
<1>10. Top(p) \in Nat
  BY Bounds DEF Contexts
<1>11. Computes(p, cpu', cpu'["sp"], version[p], depth'[p])
  BY <1>5, <1>6, <1>7, <1>9, <1>10 DEF Computes
<1>12. CurrentRuns' /\ MainRuns'
  BY <1>2, <1>3, <1>4, <1>11 DEF CurrentRuns, MainRuns
<1>13. StackKept(p, memory, low[p], cpu'["sp"], depth'[p])
  <2>1. StackKept(p, memory, low[p], cpu["sp"], depth[p])
    BY <1>3, <1>4 DEF StacksKept, SpOf, Prepared
  <2>2. cpu'["sp"] = Top(p) - depth'[p]
    BY <1>11 DEF Computes
  <2>3. /\ cpu'["sp"] \in Int /\ depth'[p] \in Nat /\ depth'[p] <= depth[p]
        /\ cpu["sp"] <= cpu'["sp"] /\ cpu'["sp"] <= Top(p) - depth'[p]
    BY <1>1, <1>5, <1>6, <1>7, <1>10, <2>2
  <2> QED
    BY <1>5, <2>1, <2>3, StackShrinks
<1>14. StacksKept'
  <2>1. ASSUME NEW q \in Threads, q # p
        PROVE  StackKept(q, memory', low'[q], SpOf(q)', depth'[q])
    <3>1. SpOf(q)' = SpOf(q)
      BY <1>2, <1>3, <2>1 DEF SpOf
    <3> QED
      BY <1>2, <1>4, <1>7, <2>1, <3>1 DEF StacksKept, Prepared
  <2>2. SpOf(p)' = cpu'["sp"]
    BY <1>2, <1>3 DEF SpOf
  <2> QED
    BY <1>2, <1>13, <2>1, <2>2 DEF StacksKept
<1>15. OthersSuspended'
  BY <1>2, <1>3, <1>4, <1>7 DEF OthersSuspended, Prepared
<1> QED
  BY <1>2, <1>3, <1>4, <1>8, <1>12, <1>14, <1>15 DEF IInv, Booting, Alive, Overflow

\* A call pushes its words onto the stack of the thread, which is kept unless
\* it has overflown.
LEMMA CallKeeps ==
    ASSUME IInv, NEW p \in Threads, Call(p)
    PROVE  IInv'
<1> DEFINE words(n) == [i \in 1 .. n |-> Local(p, depth'[p] + 1 - i)]
<1>1. PICK n \in Pushes :
          /\ depth' = [depth EXCEPT ![p] = @ + n]
          /\ Load(Push(Machine, words(n)))
          /\ low' = [low EXCEPT ![on] = Push(Machine, words(n)).low]
  BY DEF Call
<1> DEFINE c == Push(Machine, words(n))
<1>2. /\ on' = on /\ mode' = mode /\ fault' = fault
      /\ saved_sp' = saved_sp /\ OS_curr' = OS_curr
      /\ OS_next' = OS_next /\ pendsv' = pendsv /\ SHP' = SHP
      /\ ticking' = ticking /\ version' = version
  BY DEF Call, kernel
<1>3. OS_curr = p /\ mode = "Thread" /\ Alive
  BY DEF Call, Running
<1>4. /\ Typed /\ StacksKept /\ OthersSuspended /\ CurrentRuns
      /\ main \notin Threads /\ ticking /\ on = p
  BY <1>3, ContextSwitchAssumption DEF IInv, Booting, Typed, ContextSwitchAssumption
<1>5. n \in Nat /\ depth[p] \in Nat /\ cpu["sp"] \in Int /\ low[p] \in Int
  BY <1>4, ContextSwitchAssumption DEF Typed, ContextSwitchAssumption, Contexts
<1>6. IsWords(words(n), n) /\ \A i \in 1 .. n : words(n)[i] = Local(p, depth'[p] + 1 - i)
  BY DEF IsWords
<1> HIDE DEF words
<1>7. /\ IsMachine(c) /\ c.reg = Machine.reg /\ c.sp = Machine.sp - n
      /\ c.low = Lower(c.sp, Machine.low)
      /\ \A a \in Addresses :
            c.mem[a] = IF a >= c.sp /\ a < Machine.sp THEN words(n)[a - c.sp + 1]
                                                      ELSE Machine.mem[a]
  BY <1>4, <1>5, <1>6, MachineFacts, PushFacts
<1>8. /\ Machine.sp = cpu["sp"] /\ Machine.mem = memory /\ Machine.low = low[p]
      /\ \A r \in AllSaved : Machine.reg[r] = cpu[r]
  BY <1>4, MachineFacts
<1> HIDE DEF c
<1>9. /\ DOMAIN cpu' = AllSaved \cup {"sp"} /\ cpu'["sp"] = c.sp
      /\ \A r \in AllSaved : cpu'[r] = cpu[r]
      /\ memory' = c.mem /\ IsMemory(memory')
  <2>1. Load(c)
    BY <1>1 DEF c
  <2>2. /\ DOMAIN cpu' = AllSaved \cup {"sp"} /\ cpu'["sp"] = c.sp
        /\ \A r \in AllSaved : cpu'[r] = c.reg[r]
        /\ memory' = c.mem /\ IsMemory(memory')
    BY <1>4, <1>7, <2>1, LoadFacts
  <2> QED
    BY <1>7, <1>8, <2>2
<1>10. c.sp = cpu["sp"] - n /\ c.sp \in Int /\ c.low \in Int
       /\ c.low = Lower(c.sp, low[p])
  BY <1>5, <1>7, <1>8 DEF IsMachine
<1>11. /\ depth' \in [Threads -> Nat] /\ depth'[p] = depth[p] + n
       /\ \A q \in Threads : q # p => depth'[q] = depth[q]
  BY <1>1, <1>4, <1>5 DEF Typed
<1>12. /\ low' \in [Contexts -> Int] /\ low'[p] = c.low
       /\ \A q \in Contexts : q # p => low'[q] = low[q]
  <2>1. low' = [low EXCEPT ![p] = c.low]
    BY <1>1, <1>4 DEF c
  <2> QED
    BY <1>4, <1>10, <2>1 DEF Typed, Contexts
<1>13. Typed'
  BY <1>2, <1>4, <1>9, <1>10, <1>11, <1>12 DEF Typed
<1>14. /\ Stack[p] \in Nat /\ Top(p) \in Nat /\ Words \in Nat /\ Top(p) <= Words
       /\ Top(p) <= Stack[p] + StackSize[p] /\ StackSize[p] \in Nat
  BY Bounds DEF Contexts
<1>15. Computes(p, cpu, cpu["sp"], version[p], depth[p])
  BY <1>3, <1>4 DEF CurrentRuns
<1>16. cpu["sp"] = Top(p) - depth[p] /\ c.sp = Top(p) - depth'[p]
  BY <1>5, <1>10, <1>11, <1>14, <1>15 DEF Computes
<1>17. Computes(p, cpu', cpu'["sp"], version'[p], depth'[p])
  <2>1. General \subseteq AllSaved
    BY DEF AllSaved
  <2> QED
    BY <1>2, <1>9, <1>15, <1>16, <2>1 DEF Computes
<1>18. CurrentRuns' /\ MainRuns'
  BY <1>2, <1>3, <1>4, <1>17 DEF CurrentRuns, MainRuns
<1>19. ASSUME Alive'
       PROVE  StacksKept' /\ OthersSuspended'
  <2>1. Stack[p] <= c.low /\ Stack[p] <= c.sp
    <3>1. ~(c.low < Stack[p])
      BY <1>12, <1>19 DEF Alive, Overflow
    <3> QED
      BY <1>5, <1>10, <1>14, <3>1 DEF Lower
  <2>2. \A a \in Addresses : a < c.sp \/ a >= cpu["sp"] => memory'[a] = memory[a]
    <3> SUFFICES ASSUME NEW a \in Addresses, a < c.sp \/ a >= cpu["sp"]
                 PROVE  memory'[a] = memory[a]
      OBVIOUS
    <3>1. ~(a >= c.sp /\ a < cpu["sp"])
      BY <1>5, <1>10, <1>14 DEF Addresses
    <3> QED
      BY <1>7, <1>8, <1>9, <3>1
  <2>3. ASSUME NEW a \in Addresses, a >= c.sp, a < cpu["sp"]
        PROVE  memory'[a] = Local(p, Top(p) - a)
    <3> DEFINE i == a - c.sp + 1
    <3>1. i \in 1 .. n /\ depth'[p] + 1 - i = Top(p) - a
      BY <1>5, <1>10, <1>11, <1>14, <1>16, <2>3 DEF Addresses
    <3>2. memory'[a] = words(n)[i]
      BY <1>7, <1>8, <1>9, <2>3
    <3> HIDE DEF i
    <3> QED
      BY <1>6, <3>1, <3>2
  <2>4. StackKept(p, memory, low[p], cpu["sp"], depth[p])
    BY <1>3, <1>4 DEF StacksKept, SpOf, Prepared
  <2>5. StackKept(p, memory', c.low, c.sp, depth[p])
    <3>1. \A a \in Addresses : a >= c.sp /\ a < cpu["sp"] =>
              \/ memory'[a] # Filler
              \/ a = cpu["sp"] - 1 /\ memory'[a] = memory[a] /\ c.sp + 2 <= a
      BY <2>3, WordsDiffer DEF Local
    <3>2. c.sp <= c.sp /\ c.sp <= cpu["sp"]
      BY <1>5, <1>10
    <3>3. StackKept(p, memory', Lower(c.sp, low[p]), c.sp, depth[p])
      BY <1>5, <1>10, <2>1, <2>2, <2>4, <3>1, <3>2, StackGrows
    <3> QED
      BY <1>10, <3>3
  <2>6. StackKept(p, memory', low'[p], cpu'["sp"], depth'[p])
    <3>1. ASSUME NEW i \in 1 .. depth'[p] PROVE memory'[Top(p) - i] = Local(p, i)
      <4>1. CASE i \in 1 .. depth[p]
        BY <2>5, <4>1 DEF StackKept
      <4>2. CASE i > depth[p]
        <5> DEFINE a == Top(p) - i
        <5>1. a \in Addresses /\ a >= c.sp /\ a < cpu["sp"] /\ Top(p) - a = i
          BY <1>5, <1>11, <1>14, <1>16, <2>1, <4>2 DEF Addresses
        <5> HIDE DEF a
        <5> QED
          BY <2>3, <5>1 DEF a
      <4> QED
        BY <1>5, <1>11, <4>1, <4>2
    <3>2. c.sp <= Top(p) - depth'[p]
      BY <1>10, <1>16
    <3> QED
      BY <1>9, <1>12, <2>5, <3>1, <3>2 DEF StackKept
  <2>7. \A a \in Addresses : a \notin Array(p) => memory'[a] = memory[a]
    <3> SUFFICES ASSUME NEW a \in Addresses, a \notin Array(p)
                 PROVE  memory'[a] = memory[a]
      OBVIOUS
    <3>1. a < c.sp \/ a >= cpu["sp"]
      BY <1>5, <1>10, <1>14, <1>16, <2>1 DEF Array, Addresses
    <3> QED
      BY <2>2, <3>1
  <2>8. ASSUME NEW q \in Threads, q # p
        PROVE  /\ StackKept(q, memory', low'[q], saved_sp'[q], depth'[q])
               /\ Suspended(q, memory', saved_sp'[q], version'[q], depth'[q])
    <3>1. low'[q] = low[q] /\ depth'[q] = depth[q]
      BY <1>11, <1>12, <2>8 DEF Contexts
    <3>2. /\ StackKept(q, memory', low[q], saved_sp[q], depth[q])
          /\ Suspended(q, memory', saved_sp[q], version[q], depth[q])
      BY <1>3, <1>4, <2>7, <2>8, OthersStay DEF Prepared
    <3> QED
      BY <1>2, <3>1, <3>2
  <2>9. StacksKept'
    <3>1. /\ SpOf(p)' = cpu'["sp"]
          /\ \A q \in Threads : q # p => SpOf(q)' = saved_sp'[q]
      BY <1>2, <1>3 DEF SpOf
    <3> QED
      BY <2>6, <2>8, <3>1 DEF StacksKept
  <2> QED
    BY <1>2, <1>3, <2>8, <2>9 DEF OthersSuspended
<1> QED
  BY <1>2, <1>3, <1>4, <1>13, <1>18, <1>19 DEF IInv, Booting, Alive

-----------------------------------------------------------------------------
(* The invariant is kept by interrupts.                                    *)

\* Exception return, whatever it finds on the stack.
LEMMA LeaveFacts ==
    ASSUME NEW c, IsMachine(c), NEW back
    PROVE  LET o == PopRegisters(c, AutoSaved)
               l == Leave(c, back)
           IN  /\ IsMachine(l) /\ l.mem = c.mem /\ l.low = c.low
               /\ l.reg = o.reg
               /\ o.reg["xPSR"] = c.mem[c.sp + 7]
               /\ l.sp = IF o.reg["xPSR"] = XPSR(back, TRUE) THEN c.sp + 9
                                                             ELSE c.sp + 8
<1> DEFINE o == PopRegisters(c, AutoSaved)
           l == Leave(c, back)
<1>1. /\ IsMachine(o) /\ o.sp = c.sp + 8 /\ o.mem = c.mem /\ o.low = c.low
      /\ \A i \in 1 .. 8 : o.reg[AutoSaved[i]] = c.mem[c.sp + i - 1]
  <2>1. AutoSaved \in {AutoSaved, Saved}
    OBVIOUS
  <2> HIDE DEF o
  <2> QED
    BY <2>1, PopRegistersFacts DEF o
<1>2. o.reg["xPSR"] = c.mem[c.sp + 7]
  <2>1. c.sp + 8 - 1 = c.sp + 7 /\ 8 \in 1 .. 8
    BY DEF IsMachine
  <2> QED
    BY <1>1, <2>1, Orders
<1>3. l = [o EXCEPT !.sp = IF o.reg["xPSR"] = XPSR(back, TRUE) THEN @ + 1 ELSE @]
  BY DEF Leave
<1>4. DOMAIN o = {"reg", "sp", "mem", "low"} /\ o.sp \in Int /\ c.sp \in Int
  BY <1>1 DEF IsMachine
<1> HIDE DEF o, l
<1>5. /\ l.reg = o.reg /\ l.mem = o.mem /\ l.low = o.low
      /\ DOMAIN l = {"reg", "sp", "mem", "low"}
      /\ l.sp = IF o.reg["xPSR"] = XPSR(back, TRUE) THEN c.sp + 9 ELSE c.sp + 8
      /\ l.sp \in Int
  <2>1. CASE o.reg["xPSR"] = XPSR(back, TRUE)
    <3>1. l = [o EXCEPT !.sp = @ + 1]
      BY <1>3, <2>1
    <3> QED
      BY <1>1, <1>4, <2>1, <3>1
  <2>2. CASE o.reg["xPSR"] # XPSR(back, TRUE)
    <3>1. l = [o EXCEPT !.sp = @]
      BY <1>3, <2>2
    <3> QED
      BY <1>1, <1>4, <2>2, <3>1
  <2> QED
    BY <2>1, <2>2
<1>6. l.sp \in Int
  BY <1>5
<1>7. IsMachine(l)
  BY <1>1, <1>5, <1>6 DEF IsMachine
<1> QED
  BY <1>1, <1>2, <1>5, <1>7 DEF l, o

\* The tick that interrupts main(), on its own stack: the frame is not padded.
LEMMA EnterOnMain ==
    ASSUME IInv, OS_curr = main, mode = "Thread", Alive
    PROVE  LET e == Enter(Machine)
           IN  /\ IsMachine(e) /\ e.sp = Top(main) - 8
               /\ e.mem[Top(main) - 1] = XPSR("Thread", FALSE)
               /\ Stack[main] <= e.sp - HandlerWords
               /\ \A a \in Addresses : a \notin Array(main) => e.mem[a] = memory[a]
<1> DEFINE c == Machine
           e == Enter(c)
           padded == c.sp % 2 = 1
<1>1. IsMachine(c) /\ c.mem = memory /\ c.sp = cpu["sp"]
  BY MachineFacts DEF IInv
<1>2. c.sp = Top(main)
  BY <1>1 DEF IInv, MainRuns
<1> HIDE DEF c
<1>3. /\ IsMachine(e) /\ e.sp = c.sp - Pad(padded) - 8
      /\ e.sp + 7 \in Addresses => e.mem[e.sp + 7] = XPSR("Thread", padded)
      /\ \A a \in Addresses : a < e.sp \/ a >= e.sp + 8 => e.mem[a] = c.mem[a]
  BY <1>1, EnterFacts
<1> HIDE DEF e
<1>4. /\ Stack[main] \in Nat /\ StackSize[main] \in Nat /\ Top(main) \in Nat
      /\ Top(main) <= Stack[main] + StackSize[main]
      /\ Stack[main] + StackSize[main] <= Top(main) + 1
      /\ Top(main) % 2 = 0 /\ Stack[main] + StackSize[main] <= Words /\ Words \in Nat
      /\ StackSize[main] > 8 + HandlerWords /\ HandlerWords \in Nat
  BY Bounds, ContextSwitchAssumption DEF Contexts, ContextSwitchAssumption
<1>5. padded = FALSE
  BY <1>2, <1>4
<1> HIDE DEF padded
<1>6. e.sp = Top(main) - 8 /\ e.sp + 7 = Top(main) - 1
  BY <1>2, <1>3, <1>4, <1>5 DEF Pad
<1>7. e.sp + 7 \in Addresses /\ Stack[main] <= e.sp - HandlerWords
  BY <1>4, <1>6 DEF Addresses
<1>8. ASSUME NEW a \in Addresses, a \notin Array(main) PROVE e.mem[a] = memory[a]
  <2>1. a < e.sp \/ a >= e.sp + 8
    BY <1>4, <1>6, <1>7, <1>8 DEF Addresses, Array
  <2> QED
    BY <1>1, <1>3, <2>1
<1> QED
  BY <1>3, <1>5, <1>6, <1>7, <1>8 DEF e, c

\* The same for a thread whose stack has room for the frame.
LEMMA EnterOnThread ==
    ASSUME IInv, NEW p \in Threads, OS_curr = p, mode = "Thread", Alive,
           Stack[p] <= Enter(Machine).sp
    PROVE  LET e == Enter(Machine)
           IN  /\ IsMachine(e)
               /\ StackKept(p, e.mem, e.low, e.sp, depth[p])
               /\ Interrupted(p, e.mem, e.reg, e.sp, version[p], depth[p])
               /\ \A a \in Addresses : a \notin Array(p) => e.mem[a] = memory[a]
<1> DEFINE c == Machine
           e == Enter(c)
           padded == c.sp % 2 = 1
<1>1. /\ IsMachine(c) /\ c.mem = memory /\ c.sp = cpu["sp"] /\ c.low = low[p]
      /\ \A r \in AllSaved : c.reg[r] = cpu[r]
  BY MachineFacts DEF IInv, Typed
<1>2. /\ Typed /\ ticking /\ depth[p] \in Nat
      /\ StackKept(p, memory, low[p], cpu["sp"], depth[p])
      /\ Computes(p, cpu, cpu["sp"], version[p], depth[p])
  BY ContextSwitchAssumption DEF IInv, Booting, Typed, StacksKept, SpOf, Prepared,
     CurrentRuns, ContextSwitchAssumption
<1> HIDE DEF c
<1>3. Computes(p, c.reg, c.sp, version[p], depth[p])
  BY <1>1, <1>2, SameRegisters
<1>4. StackKept(p, c.mem, c.low, c.sp, depth[p])
  BY <1>1, <1>2
<1>5. Stack[p] <= Enter(c).sp
  BY DEF c
<1>6. /\ StackKept(p, e.mem, e.low, e.sp, depth[p])
      /\ Interrupted(p, e.mem, e.reg, e.sp, version[p], depth[p])
  BY <1>1, <1>2, <1>3, <1>4, <1>5, EnterInterrupts
<1>7. /\ IsMachine(e) /\ e.sp = c.sp - Pad(padded) - 8
      /\ \A a \in Addresses : a < e.sp \/ a >= e.sp + 8 => e.mem[a] = c.mem[a]
  BY <1>1, EnterFacts
<1> HIDE DEF e
<1>8. ASSUME NEW a \in Addresses, a \notin Array(p) PROVE e.mem[a] = memory[a]
  <2>1. /\ Stack[p] \in Nat /\ Top(p) <= Stack[p] + StackSize[p]
        /\ StackSize[p] \in Nat /\ Top(p) \in Nat
    BY Bounds DEF Contexts
  <2>2. c.sp <= Top(p) /\ c.sp \in Int /\ Stack[p] <= e.sp /\ e.sp \in Int
        /\ e.sp + 8 <= c.sp
    BY <1>1, <1>2, <1>5, <1>7, <2>1 DEF StackKept, IsMachine, Pad, e
  <2>3. a < e.sp \/ a >= e.sp + 8
    BY <1>8, <2>1, <2>2 DEF Addresses, Array
  <2> QED
    BY <1>1, <1>7, <2>3
<1> QED
  BY <1>6, <1>7, <1>8 DEF e, c

\* The tick runs on the stack of what it interrupts.
LEMMA SysTick_entryKeeps ==
    ASSUME IInv, SysTick_entry
    PROVE  IInv'
<1> DEFINE e == Enter(Machine)
           words == [i \in 1 .. HandlerWords |-> Zero]
           h == Push(e, words)
           b == [h EXCEPT !.sp = e.sp]
<1>1. /\ Load(b) /\ low' = [low EXCEPT ![on] = h.low]
      /\ \E p \in Threads : Schedule(p)
  BY DEF SysTick_entry
<1>2. /\ ticking /\ Alive /\ mode = "Thread" /\ mode' = "SysTick"
      /\ on' = on /\ fault' = fault /\ version' = version /\ depth' = depth
      /\ saved_sp' = saved_sp /\ OS_curr' = OS_curr /\ SHP' = SHP
      /\ ticking' = ticking /\ OS_next' \in Threads /\ pendsv' \in BOOLEAN
  BY <1>1 DEF SysTick_entry, Schedule, ghosts, IInv, Typed
<1>3. /\ Typed /\ StacksKept /\ OthersSuspended /\ on = OS_curr
      /\ OS_curr \in Contexts /\ main \notin Threads /\ ~fault
  BY <1>2, ContextSwitchAssumption DEF IInv, Typed, Alive, ContextSwitchAssumption
<1>4. /\ IsMachine(Machine) /\ Machine.mem = memory /\ Machine.sp = cpu["sp"]
      /\ Machine.low = low[OS_curr]
  BY <1>3, MachineFacts
<1>5. IsMachine(e)
  BY <1>2, <1>4, EnterFacts
<1>6. /\ HandlerWords \in Nat /\ IsWords(words, HandlerWords)
      /\ \A i \in 1 .. HandlerWords : words[i] = Zero
  BY ContextSwitchAssumption DEF ContextSwitchAssumption, IsWords
<1> HIDE DEF e, words
<1>7. /\ IsMachine(h) /\ h.reg = e.reg /\ h.sp = e.sp - HandlerWords
      /\ h.low = Lower(h.sp, e.low)
      /\ \A a \in Addresses :
            h.mem[a] = IF a >= h.sp /\ a < e.sp THEN words[a - h.sp + 1]
                                               ELSE e.mem[a]
  BY <1>5, <1>6, PushFacts
<1>8. /\ e.sp \in Int /\ e.low \in Int /\ h.sp \in Int /\ h.low \in Int
      /\ DOMAIN h = {"reg", "sp", "mem", "low"}
  BY <1>5, <1>7 DEF IsMachine
<1> HIDE DEF h
<1>9. /\ IsMachine(b) /\ b.mem = h.mem /\ b.sp = e.sp /\ b.reg = e.reg
  BY <1>7, <1>8 DEF IsMachine
<1> HIDE DEF b
<1>10. /\ DOMAIN cpu' = AllSaved \cup {"sp"} /\ cpu'["sp"] = e.sp
       /\ \A r \in AllSaved : cpu'[r] = e.reg[r]
       /\ memory' = h.mem /\ IsMemory(memory')
  <2>1. /\ DOMAIN cpu' = AllSaved \cup {"sp"} /\ cpu'["sp"] = b.sp
        /\ \A r \in AllSaved : cpu'[r] = b.reg[r]
        /\ memory' = b.mem /\ IsMemory(memory')
    BY <1>1, <1>3, <1>9, LoadFacts
  <2> QED
    BY <1>9, <2>1
<1>11. /\ low' \in [Contexts -> Int] /\ low'[OS_curr] = h.low
       /\ \A q \in Contexts : q # OS_curr => low'[q] = low[q]
  BY <1>1, <1>3, <1>8 DEF Typed
<1>12. Typed'
  BY <1>2, <1>3, <1>8, <1>10, <1>11 DEF Typed, Contexts
\* Above the words of the handler, the memory is as the frame was pushed.
<1>13. ASSUME NEW a \in Addresses, a < h.sp \/ a >= e.sp
       PROVE  memory'[a] = e.mem[a]
  <2>1. ~(a >= h.sp /\ a < e.sp)
    BY <1>8, <1>13 DEF Addresses
  <2> QED
    BY <1>7, <1>10, <2>1
\* Threads that do not run are not disturbed.
<1>14. ASSUME \A a \in Addresses : a \notin Array(OS_curr) => memory'[a] = memory[a],
              NEW q \in Threads, q # OS_curr
       PROVE  /\ StackKept(q, memory', low'[q], saved_sp'[q], depth'[q])
              /\ Suspended(q, memory', saved_sp'[q], version'[q], depth'[q])
  <2>1. low'[q] = low[q]
    BY <1>11, <1>14 DEF Contexts
  <2>2. /\ StackKept(q, memory', low[q], saved_sp[q], depth[q])
        /\ Suspended(q, memory', saved_sp[q], version[q], depth[q])
    BY <1>2, <1>3, <1>14, OthersStay DEF Prepared
  <2> QED
    BY <1>2, <2>1, <2>2
<1>15. CASE OS_curr = main
  <2>1. /\ e.sp = Top(main) - 8 /\ e.mem[Top(main) - 1] = XPSR("Thread", FALSE)
        /\ Stack[main] <= e.sp - HandlerWords
        /\ \A a \in Addresses : a \notin Array(main) => e.mem[a] = memory[a]
    BY <1>2, <1>15, EnterOnMain DEF e
  <2>2. /\ Stack[main] \in Nat /\ Top(main) \in Nat /\ StackSize[main] \in Nat
        /\ Top(main) <= Stack[main] + StackSize[main] /\ Words \in Nat
        /\ Stack[main] + StackSize[main] <= Words
    BY Bounds DEF Contexts
  <2>3. \A a \in Addresses : a \notin Array(OS_curr) => memory'[a] = memory[a]
    <3> SUFFICES ASSUME NEW a \in Addresses, a \notin Array(main)
                 PROVE  memory'[a] = memory[a]
      BY <1>15
    <3>1. a < h.sp \/ a >= e.sp
      BY <1>6, <1>7, <1>8, <2>1, <2>2 DEF Array, Addresses
    <3> QED
      BY <1>13, <2>1, <3>1
  <2>4. memory'[Top(main) - 1] = XPSR("Thread", FALSE)
    <3>1. Top(main) - 1 \in Addresses /\ Top(main) - 1 >= e.sp
      BY <1>6, <2>1, <2>2 DEF Addresses
    <3> QED
      BY <1>13, <2>1, <3>1
  <2>5. MainRuns' /\ CurrentRuns'
    BY <1>2, <1>3, <1>10, <1>15, <2>1, <2>4 DEF MainRuns, CurrentRuns
  <2>6. StacksKept' /\ OthersSuspended'
    <3>1. \A q \in Threads : q # OS_curr /\ SpOf(q)' = saved_sp'[q]
      BY <1>2, <1>3, <1>15 DEF SpOf
    <3> QED
      BY <1>14, <2>3, <3>1 DEF StacksKept, OthersSuspended
  <2> QED
    BY <1>2, <1>3, <1>12, <2>5, <2>6 DEF IInv, Booting
<1>16. CASE OS_curr \in Threads /\ Alive'
  <2> DEFINE p == OS_curr
  <2>1. /\ Stack[p] <= h.sp /\ Stack[p] <= e.sp
    <3>1. ~(h.low < Stack[p]) /\ Stack[p] \in Nat
      BY <1>11, <1>16, Bounds DEF Alive, Overflow, Contexts
    <3> QED
      BY <1>6, <1>7, <1>8, <3>1 DEF Lower
  <2>2. /\ StackKept(p, e.mem, e.low, e.sp, depth[p])
        /\ Interrupted(p, e.mem, e.reg, e.sp, version[p], depth[p])
        /\ \A a \in Addresses : a \notin Array(p) => e.mem[a] = memory[a]
    BY <1>2, <1>16, <2>1, EnterOnThread DEF e
  <2>3. /\ Stack[p] \in Nat /\ Top(p) \in Nat /\ StackSize[p] \in Nat
        /\ Top(p) <= Stack[p] + StackSize[p] /\ Words \in Nat /\ Top(p) <= Words
        /\ depth[p] \in Nat /\ e.sp <= Top(p) - depth[p]
    BY <1>3, <1>16, <2>2, Bounds DEF Contexts, Typed, StackKept
  <2>4. StackKept(p, memory', h.low, e.sp, depth[p])
    <3>1. ASSUME NEW a \in Addresses, a >= h.sp, a < e.sp PROVE memory'[a] # Filler
      <4> DEFINE i == a - h.sp + 1
      <4>1. i \in 1 .. HandlerWords
        BY <1>6, <1>7, <1>8, <3>1 DEF Addresses
      <4>2. memory'[a] = words[i]
        BY <1>7, <1>10, <3>1
      <4> HIDE DEF i
      <4> QED
        BY <1>6, <4>1, <4>2, WordsDiffer
    <3>2. \A a \in Addresses : a >= h.sp /\ a < e.sp =>
              \/ memory'[a] # Filler
              \/ a = e.sp - 1 /\ memory'[a] = e.mem[a] /\ h.sp + 2 <= a
      BY <3>1
    <3>3. \A a \in Addresses : a < h.sp \/ a >= e.sp => memory'[a] = e.mem[a]
      BY <1>13
    <3>4. h.sp <= e.sp /\ e.sp <= e.sp
      BY <1>6, <1>7, <1>8
    <3>5. StackKept(p, memory', Lower(h.sp, e.low), e.sp, depth[p])
      BY <1>8, <1>16, <2>1, <2>2, <2>3, <3>2, <3>3, <3>4, StackGrows
    <3> QED
      BY <1>7, <3>5
  <2>5. Interrupted(p, memory', cpu', cpu'["sp"], version'[p], depth'[p])
    <3>1. \A a \in Addresses : a >= e.sp => memory'[a] = e.mem[a]
      BY <1>13
    <3>2. Interrupted(p, memory', e.reg, e.sp, version[p], depth[p])
      BY <1>8, <1>16, <2>1, <2>2, <2>3, <3>1, FrameStays
    <3>3. Interrupted(p, memory', cpu', e.sp, version[p], depth[p])
      BY <1>10, <3>2, SameRegisters
    <3> QED
      BY <1>2, <1>10, <3>3
  <2>6. \A a \in Addresses : a \notin Array(OS_curr) => memory'[a] = memory[a]
    <3> SUFFICES ASSUME NEW a \in Addresses, a \notin Array(p)
                 PROVE  memory'[a] = memory[a]
      OBVIOUS
    <3>1. a < h.sp \/ a >= e.sp
      BY <1>8, <2>1, <2>3 DEF Array, Addresses
    <3> QED
      BY <1>13, <2>2, <3>1
  <2>7. StacksKept'
    <3>1. ASSUME NEW q \in Threads
          PROVE  StackKept(q, memory', low'[q], SpOf(q)', depth'[q])
      <4>1. CASE q = OS_curr
        <5>1. SpOf(q)' = e.sp /\ low'[q] = h.low /\ depth'[q] = depth[q]
          BY <1>2, <1>10, <1>11, <4>1 DEF SpOf
        <5> QED
          BY <2>4, <4>1, <5>1
      <4>2. CASE q # OS_curr
        <5>1. SpOf(q)' = saved_sp'[q]
          BY <1>2, <4>2 DEF SpOf
        <5> QED
          BY <1>14, <2>6, <4>2, <5>1
      <4> QED
        BY <4>1, <4>2
    <3> QED
      BY <3>1 DEF StacksKept
  <2>8. OthersSuspended'
    BY <1>2, <1>14, <2>6 DEF OthersSuspended
  <2>9. CurrentRuns' /\ MainRuns'
    BY <1>2, <1>3, <1>16, <2>5 DEF CurrentRuns, MainRuns
  <2> QED
    BY <1>2, <1>3, <1>12, <2>7, <2>8, <2>9 DEF IInv, Booting
<1>17. CASE ~Alive'
  BY <1>2, <1>3, <1>12, <1>17 DEF IInv, Booting
<1> QED
  BY <1>3, <1>15, <1>16, <1>17 DEF Contexts

\* The tick returns to what it has interrupted.
LEMMA SysTick_returnKeeps ==
    ASSUME IInv, SysTick_return
    PROVE  IInv'
<1> DEFINE c == Machine
           l == Leave(c, "Thread")
<1>1. /\ Alive /\ mode = "SysTick" /\ mode' = "Thread" /\ Load(l)
      /\ fault' = (\A padded \in BOOLEAN : l.reg["xPSR"] # XPSR("Thread", padded))
      /\ on' = on /\ low' = low /\ saved_sp' = saved_sp /\ OS_curr' = OS_curr
      /\ OS_next' = OS_next /\ pendsv' = pendsv /\ SHP' = SHP
      /\ ticking' = ticking /\ version' = version /\ depth' = depth
  BY DEF SysTick_return, Return, kernel, ghosts
<1>2. /\ Typed /\ StacksKept /\ OthersSuspended /\ CurrentRuns /\ MainRuns
      /\ ticking /\ main \notin Threads /\ OS_curr \in Contexts
  BY <1>1, ContextSwitchAssumption DEF IInv, Booting, Typed, ContextSwitchAssumption
<1>3. /\ IsMachine(c) /\ c.mem = memory /\ c.sp = cpu["sp"]
      /\ c.low = low[on] /\ \A r \in AllSaved : c.reg[r] = cpu[r]
  BY <1>2, MachineFacts
<1> HIDE DEF c
<1>4. IsMachine(l) /\ l.mem = c.mem
  BY <1>3, LeaveFacts
<1>5. /\ DOMAIN cpu' = AllSaved \cup {"sp"} /\ cpu'["sp"] = l.sp /\ cpu'["sp"] \in Int
      /\ \A r \in AllSaved : cpu'[r] = l.reg[r]
      /\ memory' = l.mem /\ IsMemory(memory')
  <2> HIDE DEF l
  <2> QED
    BY <1>1, <1>2, <1>4, LoadFacts
<1>6. fault' \in BOOLEAN
  BY <1>1
<1>7. Typed'
  BY <1>1, <1>2, <1>5, <1>6 DEF Typed
<1>8. memory' = memory
  BY <1>3, <1>4, <1>5
<1>9. CASE OS_curr = main
  <2>1. cpu["sp"] = Top(main) - 8 /\ memory[Top(main) - 1] = XPSR("Thread", FALSE)
    BY <1>1, <1>2, <1>9 DEF MainRuns
  <2>2. Top(main) \in Nat
    BY Bounds DEF Contexts
  <2> DEFINE o == PopRegisters(c, AutoSaved)
  <2>3. /\ l.reg = o.reg /\ o.reg["xPSR"] = c.mem[c.sp + 7]
        /\ l.sp = IF o.reg["xPSR"] = XPSR("Thread", TRUE) THEN c.sp + 9 ELSE c.sp + 8
    BY <1>3, LeaveFacts
  <2> HIDE DEF l, o
  <2>4. o.reg["xPSR"] = XPSR("Thread", FALSE)
    <3>1. c.sp + 7 = Top(main) - 1
      BY <1>3, <2>1, <2>2
    <3> QED
      BY <1>3, <2>1, <2>3, <3>1
  <2>5. o.reg["xPSR"] # XPSR("Thread", TRUE)
    BY <2>4, StatusTells
  <2>6. l.sp = Top(main)
    BY <1>3, <2>1, <2>2, <2>3, <2>5
  <2>7. ~fault'
    BY <1>1, <2>3, <2>4
  <2>8. CurrentRuns' /\ MainRuns'
    BY <1>1, <1>2, <1>5, <1>9, <2>6 DEF CurrentRuns, MainRuns
  <2>9. StacksKept' /\ OthersSuspended'
    <3>1. \A q \in Threads : q # OS_curr /\ SpOf(q)' = SpOf(q)
      BY <1>1, <1>2, <1>9 DEF SpOf
    <3> QED
      BY <1>1, <1>2, <1>8, <3>1 DEF StacksKept, OthersSuspended, Prepared
  <2> QED
    BY <1>1, <1>2, <1>7, <2>7, <2>8, <2>9 DEF IInv, Booting
<1>10. CASE OS_curr \in Threads
  <2> DEFINE p == OS_curr
  <2>1. Interrupted(p, c.mem, c.reg, c.sp, version[p], depth[p]) /\ depth[p] \in Nat
    <3>1. Interrupted(p, memory, cpu, cpu["sp"], version[p], depth[p])
      BY <1>1, <1>2, <1>10 DEF CurrentRuns
    <3>2. Interrupted(p, memory, c.reg, cpu["sp"], version[p], depth[p])
      BY <1>3, <3>1, SameRegisters
    <3> QED
      BY <1>2, <1>3, <1>10, <3>2 DEF Typed
  <2>2. /\ Computes(p, l.reg, l.sp, version[p], depth[p])
        /\ \E padded \in BOOLEAN : l.reg["xPSR"] = XPSR("Thread", padded)
    BY <1>3, <1>10, <2>1, LeaveComputes
  <2> HIDE DEF l
  <2>3. ~fault'
    BY <1>1, <2>2
  <2>4. Computes(p, cpu', cpu'["sp"], version[p], depth[p])
    <3>1. Computes(p, cpu', l.sp, version[p], depth[p])
      BY <1>5, <2>2, SameRegisters
    <3> QED
      BY <1>5, <3>1
  <2>5. CurrentRuns' /\ MainRuns'
    BY <1>1, <1>2, <1>10, <2>4 DEF CurrentRuns, MainRuns
  <2>6. StackKept(p, memory, low[p], cpu'["sp"], depth[p])
    <3>1. StackKept(p, memory, low[p], cpu["sp"], depth[p])
      BY <1>2, <1>10 DEF StacksKept, SpOf, Prepared
    <3>2. cpu'["sp"] = Top(p) - depth[p]
      BY <2>4 DEF Computes
    <3>3. /\ cpu["sp"] <= cpu'["sp"] /\ cpu'["sp"] <= Top(p) - depth[p]
          /\ depth[p] <= depth[p] /\ low[p] \in Int /\ cpu["sp"] \in Int
      BY <1>2, <1>5, <1>10, <2>1, <3>1, <3>2 DEF StackKept, Typed
    <3> QED
      BY <1>5, <1>10, <2>1, <3>1, <3>3, StackShrinks
  <2>7. StacksKept'
    <3>1. ASSUME NEW q \in Threads
          PROVE  StackKept(q, memory', low'[q], SpOf(q)', depth'[q])
      <4>1. CASE q = OS_curr
        <5>1. SpOf(q)' = cpu'["sp"] /\ low'[q] = low[q] /\ depth'[q] = depth[q]
          BY <1>1, <4>1 DEF SpOf
        <5> QED
          BY <1>8, <2>6, <4>1, <5>1
      <4>2. CASE q # OS_curr
        <5>1. SpOf(q)' = SpOf(q) /\ low'[q] = low[q] /\ depth'[q] = depth[q]
          BY <1>1, <4>2 DEF SpOf
        <5> QED
          BY <1>2, <1>8, <5>1 DEF StacksKept, Prepared
      <4> QED
        BY <4>1, <4>2
    <3> QED
      BY <3>1 DEF StacksKept
  <2>8. OthersSuspended'
    BY <1>1, <1>2, <1>8 DEF OthersSuspended, Prepared
  <2> QED
    BY <1>1, <1>2, <1>7, <2>3, <2>5, <2>7, <2>8 DEF IInv, Booting
<1> QED
  BY <1>2, <1>9, <1>10 DEF Contexts

\* PendSV_Handler saves the context of the running thread on its stack, and
\* takes up the next thread where it was switched away from.
LEMMA PendSV_HandlerKeeps ==
    ASSUME IInv, PendSV_Handler
    PROVE  IInv'
<1> DEFINE e == Enter(Machine)
           s == SwitchedFrom(e)
           kept == IF OS_curr = main THEN e ELSE s.frame
           n == OS_next
           b == [kept EXCEPT !.sp = saved_sp'[n]]
           r == PopRegisters(b, Saved)
           l == Leave(r, "Thread")
<1>1. ticking /\ SHP = LowestPriority /\ n \in Threads /\ mode = "Thread" /\ Alive
  <2>1. ticking /\ n \in Threads
    BY DEF PendSV_Handler, IInv, Booting
  <2>2. ~(SHP < LowestPriority)
    BY <2>1 DEF IInv, LowestPriority
  <2> QED
    BY <2>1, <2>2 DEF PendSV_Handler, IInv
<1>2. /\ saved_sp' = IF OS_curr = main THEN saved_sp
                     ELSE [saved_sp EXCEPT ![OS_curr] = s.sp]
      /\ low' = [low EXCEPT ![on] = kept.low]
      /\ Load(l) /\ mode' = "Thread"
      /\ fault' = (\A padded \in BOOLEAN : l.reg["xPSR"] # XPSR("Thread", padded))
  BY <1>1 DEF PendSV_Handler, Return
<1>3. /\ on' = n /\ OS_curr' = n /\ OS_next' = n /\ pendsv' = FALSE /\ SHP' = SHP
      /\ ticking' = ticking /\ version' = version /\ depth' = depth
  BY DEF PendSV_Handler, ghosts
<1>4. /\ Typed /\ StacksKept /\ OthersSuspended /\ on = OS_curr
      /\ OS_curr \in Contexts /\ main \notin Threads
  BY <1>1, ContextSwitchAssumption DEF IInv, Typed, ContextSwitchAssumption
<1>5. IsMachine(Machine) /\ Machine.sp = cpu["sp"]
  BY <1>4, MachineFacts
<1>6. IsMachine(e)
  BY <1>1, <1>5, EnterFacts
<1>7. s.sp = e.sp - 8 /\ s.frame = PushRegisters(e, Saved) /\ e.sp \in Int /\ s.sp \in Int
  BY <1>6, Orders DEF SwitchedFrom, IsMachine
<1> HIDE DEF e, s
<1>8. /\ IsMachine(s.frame) /\ s.frame.sp = s.sp
      /\ s.frame.low = Lower(s.sp, e.low)
      /\ \A a \in Addresses : a < s.sp \/ a >= e.sp => s.frame.mem[a] = e.mem[a]
  <2>1. Saved \in {AutoSaved, Saved}
    OBVIOUS
  <2> DEFINE f == PushRegisters(e, Saved)
  <2>2. /\ IsMachine(f) /\ f.sp = e.sp - 8 /\ f.low = Lower(f.sp, e.low)
        /\ \A a \in Addresses : a < f.sp \/ a >= e.sp => f.mem[a] = e.mem[a]
    <3> HIDE DEF f
    <3> QED
      BY <1>6, <2>1, PushRegistersFacts DEF f
  <2>3. s.frame = f
    BY <1>7
  <2> HIDE DEF f
  <2> QED
    BY <1>7, <2>2, <2>3
<1>9. IsMachine(kept) /\ kept.low \in Int
  BY <1>6, <1>8 DEF IsMachine
<1> HIDE DEF kept
<1>10. saved_sp' \in [Threads -> Int]
  BY <1>2, <1>4, <1>7 DEF Typed
<1>11. IsMachine(b) /\ b.mem = kept.mem
  BY <1>1, <1>9, <1>10 DEF IsMachine
<1>12. IsMachine(r) /\ r.mem = kept.mem
  <2>1. Saved \in {AutoSaved, Saved}
    OBVIOUS
  <2> HIDE DEF b
  <2> QED
    BY <1>11, <2>1, PopRegistersFacts
<1> HIDE DEF b, r
<1>13. IsMachine(l) /\ l.mem = kept.mem
  BY <1>12, LeaveFacts
<1> HIDE DEF l
<1>14. /\ DOMAIN cpu' = AllSaved \cup {"sp"} /\ cpu'["sp"] = l.sp /\ cpu'["sp"] \in Int
       /\ \A x \in AllSaved : cpu'[x] = l.reg[x]
       /\ memory' = l.mem /\ IsMemory(memory')
  BY <1>2, <1>4, <1>13, LoadFacts
<1>15. memory' = kept.mem
  BY <1>13, <1>14
<1>16. /\ low' \in [Contexts -> Int] /\ low'[OS_curr] = kept.low
       /\ \A q \in Contexts : q # OS_curr => low'[q] = low[q]
  BY <1>2, <1>4, <1>9 DEF Typed
<1>17. fault' \in BOOLEAN
  BY <1>2
<1>18. Typed'
  <2>1. n \in Contexts
    BY <1>1 DEF Contexts
  <2>2. /\ ticking' \in BOOLEAN /\ depth' \in [Threads -> Nat]
        /\ version' = [q \in Threads |-> version'[q]]
    BY <1>3, <1>4 DEF Typed
  <2>3. pendsv' \in BOOLEAN
    BY <1>3
  <2> HIDE DEF n
  <2> QED
    BY <1>2, <1>3, <1>10, <1>14, <1>16, <1>17, <2>1, <2>2, <2>3 DEF Typed
\* Threads that did not run are not disturbed.
<1>19. ASSUME \A a \in Addresses : a \notin Array(OS_curr) => memory'[a] = memory[a],
              NEW q \in Threads, q # OS_curr
       PROVE  /\ StackKept(q, memory', low'[q], saved_sp'[q], depth[q])
              /\ Suspended(q, memory', saved_sp'[q], version[q], depth[q])
  <2>1. low'[q] = low[q] /\ saved_sp'[q] = saved_sp[q]
    BY <1>2, <1>4, <1>16, <1>19 DEF Contexts, Typed
  <2>2. /\ StackKept(q, memory', low[q], saved_sp[q], depth[q])
        /\ Suspended(q, memory', saved_sp[q], version[q], depth[q])
    BY <1>1, <1>4, <1>19, OthersStay DEF Prepared
  <2> QED
    BY <2>1, <2>2
\* When the context is saved, all threads are suspended.
<1>20. ASSUME ~Overflow', NEW q \in Threads
       PROVE  /\ StackKept(q, memory', low'[q], saved_sp'[q], depth[q])
              /\ Suspended(q, memory', saved_sp'[q], version[q], depth[q])
  <2>1. CASE OS_curr = main
    <3>1. \A a \in Addresses : a \notin Array(main) => e.mem[a] = memory[a]
      BY <1>1, <2>1, EnterOnMain DEF e
    <3>2. \A a \in Addresses : a \notin Array(OS_curr) => memory'[a] = memory[a]
      BY <1>15, <2>1, <3>1 DEF kept
    <3> QED
      BY <1>4, <1>19, <2>1, <3>2
  <2>2. CASE OS_curr \in Threads
    <3> DEFINE p == OS_curr
    <3>1. kept = s.frame /\ saved_sp' = [saved_sp EXCEPT ![p] = s.sp]
      BY <1>2, <1>4, <2>2 DEF kept
    <3>2. Stack[p] <= s.sp /\ Stack[p] <= e.sp /\ Stack[p] \in Nat
      <4>1. ~(kept.low < Stack[p]) /\ Stack[p] \in Nat
        BY <1>16, <1>20, <2>2, Bounds DEF Overflow, Contexts
      <4>2. e.low \in Int
        BY <1>6 DEF IsMachine
      <4> QED
        BY <1>7, <1>8, <3>1, <4>1, <4>2 DEF Lower
    <3>3. /\ StackKept(p, e.mem, e.low, e.sp, depth[p])
          /\ Interrupted(p, e.mem, e.reg, e.sp, version[p], depth[p])
          /\ \A a \in Addresses : a \notin Array(p) => e.mem[a] = memory[a]
      BY <1>1, <2>2, <3>2, EnterOnThread DEF e
    <3>4. depth[p] \in Nat
      BY <1>4, <2>2 DEF Typed
    <3>5. /\ StackKept(p, s.frame.mem, s.frame.low, s.sp, depth[p])
          /\ Suspended(p, s.frame.mem, s.sp, version[p], depth[p])
      BY <1>6, <2>2, <3>2, <3>3, <3>4, SaveSuspends DEF s
    <3>6. CASE q = p
      <4>1. saved_sp'[q] = s.sp /\ low'[q] = s.frame.low
        BY <1>4, <1>16, <2>2, <3>1, <3>6 DEF Typed
      <4> QED
        BY <1>15, <3>1, <3>5, <3>6, <4>1
    <3>7. CASE q # p
      <4>1. \A a \in Addresses : a \notin Array(OS_curr) => memory'[a] = memory[a]
        <5> SUFFICES ASSUME NEW a \in Addresses, a \notin Array(p)
                     PROVE  memory'[a] = memory[a]
          OBVIOUS
        <5>1. /\ Top(p) <= Stack[p] + StackSize[p] /\ Top(p) \in Nat
              /\ StackSize[p] \in Nat /\ e.sp <= Top(p) - depth[p]
          BY <2>2, <3>3, Bounds DEF Contexts, StackKept
        <5>2. a < s.sp \/ a >= e.sp
          BY <1>7, <3>2, <3>4, <5>1 DEF Array, Addresses
        <5> QED
          BY <1>8, <1>15, <3>1, <3>3, <5>2
      <4> QED
        BY <1>19, <3>7, <4>1
    <3> QED
      BY <3>6, <3>7
  <2> QED
    BY <1>4, <2>1, <2>2 DEF Contexts
\* The next thread is taken up.
<1>21. ASSUME ~Overflow'
       PROVE  /\ ~fault'
              /\ Computes(n, cpu', cpu'["sp"], version[n], depth[n])
  <2>1. /\ Suspended(n, kept.mem, saved_sp'[n], version[n], depth[n])
        /\ saved_sp'[n] \in Int /\ depth[n] \in Nat
    BY <1>1, <1>4, <1>10, <1>15, <1>20, <1>21 DEF Typed
  <2>2. Interrupted(n, r.mem, r.reg, r.sp, version[n], depth[n])
    <3> HIDE DEF n
    <3> QED
      BY <1>1, <1>9, <2>1, RestoreInterrupts DEF r, b
  <2>3. /\ Computes(n, l.reg, l.sp, version[n], depth[n])
        /\ \E padded \in BOOLEAN : l.reg["xPSR"] = XPSR("Thread", padded)
    <3> HIDE DEF n
    <3> QED
      BY <1>1, <1>12, <2>1, <2>2, LeaveComputes DEF l
  <2>4. Computes(n, cpu', l.sp, version[n], depth[n])
    BY <1>14, <2>3, SameRegisters
  <2> QED
    BY <1>2, <1>14, <2>3, <2>4
<1>22. ASSUME Alive'
       PROVE  (StacksKept /\ OthersSuspended /\ CurrentRuns /\ MainRuns)'
  <2>1. ~Overflow'
    BY <1>22 DEF Alive
  <2>2. StacksKept'
    <3>1. ASSUME NEW q \in Threads
          PROVE  StackKept(q, memory', low'[q], SpOf(q)', depth'[q])
      <4>1. StackKept(q, memory', low'[q], saved_sp'[q], depth[q])
        BY <1>20, <2>1
      <4>2. CASE q = n
        <5>1. SpOf(q)' = cpu'["sp"] /\ depth'[q] = depth[q]
          BY <1>3, <4>2 DEF SpOf
        <5>2. cpu'["sp"] = Top(q) - depth[q]
          BY <1>21, <2>1, <4>2 DEF Computes
        <5>3. /\ saved_sp'[q] <= cpu'["sp"] /\ cpu'["sp"] <= Top(q) - depth[q]
              /\ depth[q] <= depth[q] /\ depth[q] \in Nat
              /\ low'[q] \in Int /\ saved_sp'[q] \in Int
          BY <1>4, <1>10, <1>14, <1>16, <4>1, <5>2 DEF StackKept, Typed, Contexts
        <5>4. StackKept(q, memory', low'[q], cpu'["sp"], depth[q])
          BY <1>14, <4>1, <5>3, StackShrinks
        <5> QED
          BY <5>1, <5>4
      <4>3. CASE q # n
        <5>1. SpOf(q)' = saved_sp'[q] /\ depth'[q] = depth[q]
          BY <1>3, <4>3 DEF SpOf
        <5> QED
          BY <4>1, <5>1
      <4> QED
        BY <4>2, <4>3
    <3> QED
      BY <3>1 DEF StacksKept
  <2>3. OthersSuspended'
    BY <1>3, <1>20, <2>1 DEF OthersSuspended
  <2>4. CurrentRuns' /\ MainRuns'
    <3>1. Computes(n, cpu', cpu'["sp"], version[n], depth[n])
      BY <1>21, <2>1
    <3> QED
      BY <1>1, <1>2, <1>3, <1>4, <3>1 DEF CurrentRuns, MainRuns
  <2> QED
    BY <2>2, <2>3, <2>4
<1> QED
  BY <1>1, <1>3, <1>18, <1>21, <1>22 DEF IInv, Booting

-----------------------------------------------------------------------------
(* The theorems.                                                           *)

\* Nothing happens.
LEMMA StutterKeeps ==
    ASSUME IInv, UNCHANGED vars
    PROVE  IInv'
<1>1. /\ cpu' = cpu /\ memory' = memory /\ on' = on /\ mode' = mode
      /\ fault' = fault /\ low' = low /\ saved_sp' = saved_sp
      /\ OS_curr' = OS_curr /\ OS_next' = OS_next /\ pendsv' = pendsv
      /\ SHP' = SHP /\ version' = version /\ depth' = depth
      /\ ticking' = ticking
  BY DEF vars, kernel, ghosts
<1>2. Typed' /\ Booting'
  BY <1>1 DEF IInv, Typed, Booting, IsStarted
<1>3. ASSUME Alive PROVE (StacksKept /\ OthersSuspended /\ CurrentRuns /\ MainRuns)'
  BY <1>1, <1>3 DEF IInv, StacksKept, OthersSuspended, CurrentRuns, MainRuns,
                    SpOf, Prepared, IsStarted
<1>4. (Alive' <=> Alive) /\ (Overflow' <=> Overflow)
  BY <1>1 DEF Alive, Overflow
<1> QED
  BY <1>1, <1>2, <1>3, <1>4 DEF IInv

\* The invariant that the theorems rest on: every thread that does not run has
\* its registers in a frame on its own stack, and no stack that has not
\* overflown was written to by another.
THEOREM ContextsAreKept == Spec => []IInv
<1>1. PowerOn => IInv
  BY PowerOnKeeps
<1>2. IInv /\ [Next]_vars => IInv'
  <2> SUFFICES ASSUME IInv, [Next]_vars PROVE IInv'
    OBVIOUS
  <2>1. CASE OS_init
    BY <2>1, OS_initKeeps
  <2>2. CASE \E p \in Threads : OS_Thread_start(p)
    BY <2>2, OS_Thread_startKeeps
  <2>3. CASE OS_onStartup
    BY <2>3, OS_onStartupKeeps
  <2>4. CASE OS_schedule
    BY <2>4, OS_scheduleKeeps
  <2>5. CASE SysTick_entry
    BY <2>5, SysTick_entryKeeps
  <2>6. CASE SysTick_return
    BY <2>6, SysTick_returnKeeps
  <2>7. CASE PendSV_Handler
    BY <2>7, PendSV_HandlerKeeps
  <2>8. CASE \E p \in Threads : Compute(p) \/ Call(p) \/ ReturnFrom(p)
    BY <2>8, ComputeKeeps, CallKeeps, ReturnFromKeeps
  <2>9. CASE UNCHANGED vars
    BY <2>9, StutterKeeps
  <2> QED
    BY <2>1, <2>2, <2>3, <2>4, <2>5, <2>6, <2>7, <2>8, <2>9 DEF Next
<1> QED
  BY <1>1, <1>2, PTL DEF Spec

\* A thread finds its registers, its stack pointer and the words on its stack
\* as it has left them, whatever the ticks and switches in between, and however
\* deep the other threads go: PendSV_Handler and the frame that
\* OS_Thread_start fabricates are right for stacks of every size and alignment.
THEOREM ContextSwitchIsTransparent == Spec => []ContextIsKept
<1>1. IInv => ContextIsKept
  <2> SUFFICES ASSUME IInv, NEW p \in Threads, Running(p)
               PROVE  /\ \A r \in General : cpu[r] = Word(p, r, version[p])
                      /\ cpu["sp"] = Top(p) - depth[p]
                      /\ \A i \in 1 .. depth[p] : memory[Top(p) - i] = Local(p, i)
    BY DEF ContextIsKept
  <2>1. OS_curr = p /\ mode = "Thread" /\ Alive
    BY DEF Running
  <2>2. ticking /\ main \notin Threads
    BY <2>1, ContextSwitchAssumption DEF IInv, Booting, ContextSwitchAssumption
  <2>3. Computes(p, cpu, cpu["sp"], version[p], depth[p])
    BY <2>1 DEF IInv, CurrentRuns
  <2>4. StackKept(p, memory, low[p], cpu["sp"], depth[p])
    BY <2>1, <2>2 DEF IInv, StacksKept, SpOf, Prepared
  <2> QED
    BY <2>3, <2>4 DEF Computes, StackKept
<1> QED
  BY <1>1, ContextsAreKept, PTL

\* No exception return fails while no stack has overflown: PendSV never
\* interrupts SysTick_Handler, because OS_init gives it the lowest priority.
THEOREM ExceptionsReturnAlways == Spec => []ExceptionsReturn
<1>1. IInv => ExceptionsReturn
  BY DEF IInv, ExceptionsReturn
<1> QED
  BY <1>1, ContextsAreKept, PTL

\* J_assert_stack_integrity fails if and only if the stack of the thread that
\* calls it was used down to the last two words of its array: for stacks of
\* every size and alignment, whatever frames, padding words and locals were
\* pushed onto it.
THEOREM StackCheckIsExact == Spec => []CheckIsExact
<1>1. IInv => CheckIsExact
  <2> SUFFICES ASSUME IInv, NEW p \in Threads, Running(p)
               PROVE  StackIsSound(p) <=> low[p] > Stack[p] + 1
    BY DEF CheckIsExact
  <2>1. OS_curr = p /\ mode = "Thread" /\ Alive
    BY DEF Running
  <2>2. ticking /\ main \notin Threads
    BY <2>1, ContextSwitchAssumption DEF IInv, Booting, ContextSwitchAssumption
  <2>3. StackKept(p, memory, low[p], cpu["sp"], depth[p])
    BY <2>1, <2>2 DEF IInv, StacksKept, SpOf, Prepared
  <2>4. cpu["sp"] \in Int /\ low[p] \in Int /\ depth[p] \in Nat
    BY DEF IInv, Typed, Contexts
  <2>5. /\ Stack[p] \in Nat /\ StackSize[p] \in Nat /\ Top(p) \in Nat
        /\ Top(p) <= Stack[p] + StackSize[p]
    BY Bounds DEF Contexts
  <2>6. /\ cpu["sp"] >= Stack[p] /\ cpu["sp"] <= Stack[p] + StackSize[p] + 1
        /\ memory[Stack[p] + 1] = Filler <=> low[p] > Stack[p] + 1
    BY <2>3, <2>4, <2>5 DEF StackKept
  <2> QED
    BY <2>6 DEF StackIsSound
<1> QED
  BY <1>1, ContextsAreKept, PTL
=============================================================================
